----------------------------- MODULE MCFailSafe -----------------------------
(* Small instances of FailSafe for TLC.                                    *)
EXTENDS FailSafe, TLC

\* Presses are interchangeable (not used with liveness).
Symmetry == Permutations(Callers)

\* What the code's scheduling gives: every goroutine that can run does, and
\* time passes.  Presses, Applies and Keeps may never come.
Fairness ==
  /\ WF_vars(Advance)
  /\ \A e \in Epoch : WF_vars(RunStep(e)) /\ WF_vars(\E res \in Outcome : RunClosure(e, res))
  /\ \A c \in Callers : WF_vars(RollbackNow(c) \/ PressTail(c) \/ PressMarksFailed(c) \/ PressReturns(c))
                        /\ WF_vars(\E res \in Outcome : PressClosure(c, res))

FairSpec == FSSpec /\ Fairness

=============================================================================
