--------------------------- MODULE FailSafeProofs ---------------------------
(* Proofs about FailSafe, for every number of windows, presses and ticks:  *)
(* one rollback at a time, the outcomes it reports, the fallback it keeps, *)
(* and that it implements the windows of module Window.                    *)
EXTENDS FailSafe, TLAPS

\* The types of the Manager's fields, and of the values written to them.
LEMMA FieldTypes ==
  ASSUME fs \in Manager
  PROVE  /\ fs.deadline \in Int /\ fs.badSince \in Int /\ fs.lastAt \in Int
         /\ fs.epoch \in Epoch /\ fs.rollback \in Epoch /\ fs.cancel \in Epoch
         /\ fs.phase \in Phase
BY DEF Manager

\* An unmeasured check leaves a Manager.
LEMMA TickUnknownType ==
  ASSUME fs \in Manager, NEW t \in Nat
  PROVE  TickUnknown(t) \in Manager
<1>1. t \in Int /\ SmallerOf(fs.badSince + (t - fs.lastAt), t) \in Int
  BY FieldTypes DEF SmallerOf
<1>2. (IF fs.bad /\ fs.lastAt > 0 /\ t > fs.lastAt
       THEN SmallerOf(fs.badSince + (t - fs.lastAt), t) ELSE fs.badSince) \in Int
  BY <1>1, FieldTypes
<1>3. (IF NoVerdict THEN "unverified" ELSE fs.phase) \in Phase
  BY FieldTypes DEF Phase
<1> QED
  BY <1>1, <1>2, <1>3, Zenon DEF TickUnknown, Manager

\* A healthy check leaves a Manager.
LEMMA TickUpType ==
  ASSUME fs \in Manager, NEW t \in Nat
  PROVE  TickUp(t) \in Manager
<1> DEFINE closes == fs.rolledBack \/ t >= fs.deadline
<1>1. t \in Int /\ 0 \in Int /\ (~closes) \in BOOLEAN
  OBVIOUS
<1>2. (IF ~NoVerdict THEN fs.phase
       ELSE IF closes THEN "live_unsaved" ELSE "armed") \in Phase
  BY FieldTypes DEF Phase
<1> QED
  BY <1>1, <1>2, Zenon DEF TickUp, Manager

\* An unhealthy check leaves a Manager.
LEMMA TickDownType ==
  ASSUME fs \in Manager, NEW t \in Nat
  PROVE  TickDown(t) \in Manager
<1>1. t \in Int /\ BadSince(t) \in Int
  BY FieldTypes DEF BadSince
<1>2. (~RebootDue(t)) \in BOOLEAN /\ (fs.rolledBack \/ RollbackDue(t)) \in BOOLEAN
  OBVIOUS
<1>3. (IF RebootDue(t) THEN IF fs.allowReboot THEN "reboot" ELSE fs.phase
       ELSE IF RollbackDue(t) THEN "rolled_back"
       ELSE IF NoVerdict THEN "degraded" ELSE fs.phase) \in Phase
  BY FieldTypes DEF Phase
<1> QED
  BY <1>1, <1>2, <1>3, Zenon DEF TickDown, Manager

\* Whatever a probe answers, the state tickHealth leaves is a Manager's.
LEMMA TickType ==
  ASSUME fs \in Manager, NEW t \in Nat, NEW h \in Health
  PROVE  TickHealth(t, h) \in Manager
BY TickUnknownType, TickUpType, TickDownType DEF TickHealth, Health

\* markRollbackDone and markRollbackFailed leave a Manager.
LEMMA MarkType ==
  ASSUME fs \in Manager, NEW ep
  PROVE  MarkDone(ep) \in Manager /\ MarkFailed(ep) \in Manager
<1>1. "rollback_failed" \in Phase
  BY DEF Phase
<1> QED
  BY <1>1, Zenon DEF MarkDone, MarkFailed, Manager

\* The window's opening and closing operations keep the types.
LEMMA WindowType ==
  ASSUME TypeOK, WindowChange
  PROVE  TypeOK'
<1>0. /\ fs \in Manager /\ now \in Nat /\ now + KeepWindow \in Int /\ 0 \in Int
      /\ cancelled \subseteq Epoch /\ fs.cancel \in Epoch /\ fs.rollback \in Epoch
      /\ 0 \in Epoch
      /\ fs.epoch < MaxEpoch => fs.epoch + 1 \in Epoch
  BY FieldTypes, FailSafeAssumption DEF TypeOK, Epoch
<1>p. /\ "armed" \in Phase /\ "committed" \in Phase
      /\ "idle" \in Phase /\ "rolled_back" \in Phase
  BY DEF Phase
<1>c. (cancelled \cup ({fs.cancel} \ {0})) \subseteq Epoch
  BY <1>0
<1>1. ASSUME NEW allow \in AutoReboot, ArmHealth(allow),
             UNCHANGED <<now, kept, press, history>>
      PROVE  TypeOK'
  <2>0. allow \in BOOLEAN /\ fs.epoch + 1 \in Epoch
    BY <1>0, <1>1, FailSafeAssumption DEF ArmHealth
  <2>1. fs' \in Manager
    BY <1>0, <1>p, <1>1, <2>0, Zenon DEF ArmHealth, Armed, Manager
  <2>2. run' \in [Epoch -> RunState]
    BY <1>0, <1>1, <2>0 DEF ArmHealth, RunState, Outcome, TypeOK
  <2> QED
    BY <1>c, <1>1, <2>1, <2>2 DEF ArmHealth, CancelRun, history, TypeOK
<1>2. ASSUME Confirm, UNCHANGED <<now, kept, run, press, history>>
      PROVE  TypeOK'
  <2>0. fs.epoch + 1 \in Epoch
    BY <1>0, <1>2 DEF Confirm
  <2>1. fs' \in Manager
    BY <1>0, <1>p, <1>2, <2>0, Zenon DEF Confirm, Manager
  <2> QED
    BY <1>c, <1>2, <2>1 DEF Confirm, CancelRun, history, TypeOK
<1>3. ASSUME Disarm, UNCHANGED <<now, kept, run, press, history>>
      PROVE  TypeOK'
  <2>0. fs.epoch + 1 \in Epoch
    BY <1>0, <1>3 DEF Disarm
  <2>1. fs' \in Manager
    BY <1>0, <1>p, <1>3, <2>0, Zenon DEF Disarm, Manager
  <2> QED
    BY <1>c, <1>3, <2>1 DEF Disarm, CancelRun, history, TypeOK
<1>4. ASSUME MarkRolledBack, UNCHANGED <<now, kept, run, press, failed, tried, rebooted>>
      PROVE  TypeOK'
  <2>1. CASE fs.pending \/ fs.phase = "rollback_failed"
    <3>0. fs.epoch + 1 \in Epoch
      BY <1>0, <1>4, <2>1 DEF MarkRolledBack
    <3>1. fs' \in Manager
      BY <1>0, <1>p, <1>4, <2>1, <3>0, Zenon DEF MarkRolledBack, Manager
    <3> QED
      BY <1>0, <1>c, <1>4, <2>1, <3>1 DEF MarkRolledBack, CancelRun, TypeOK
  <2>2. CASE ~(fs.pending \/ fs.phase = "rollback_failed")
    BY <1>4, <2>2 DEF MarkRolledBack, TypeOK
  <2> QED
    BY <2>1, <2>2
<1> QED
  BY <1>1, <1>2, <1>3, <1>4 DEF WindowChange

\* A step of a window's goroutine keeps the types.
LEMMA RunType ==
  ASSUME TypeOK, NEW e \in Epoch, RunStep(e)
  PROVE  TypeOK'
<1> USE FailSafeAssumption DEF TypeOK
<1>0. run[e] \in RunState /\ run[e].at \in Nat
  BY DEF RunState
<1>1. CASE GraceEnds(e)
  BY <1>0, <1>1 DEF GraceEnds, RunState, history
<1>2. CASE SeesCancel(e)
  BY <1>0, <1>2 DEF SeesCancel, Exit, RunState, Outcome, history
<1>3. CASE BeginCheck(e)
  <2>1. [pc |-> "exit", at |-> 0, res |-> "none"] \in RunState
    BY DEF RunState, Outcome
  <2>2. [run[e] EXCEPT !.pc = "probing", !.at = now] \in RunState
    BY <1>0 DEF RunState
  <2>3. run' \in [Epoch -> RunState]
    BY <1>3, <2>1, <2>2 DEF BeginCheck, Exit
  <2> QED
    BY <1>3, <2>3 DEF BeginCheck, history
<1>4. CASE NextTick(e)
  BY <1>0, <1>4 DEF NextTick, RunState, history
<1>5. ASSUME NEW h \in Answers, Tick(e, h)
      PROVE  TypeOK'
  <2>1. fs' \in Manager
    BY <1>0, <1>5, TickType DEF Tick, Health
  <2>2. AfterTick(run[e].at, h) \in {"claimReboot", "claim", "exit", "wait"}
    BY DEF AfterTick
  <2>3. run' \in [Epoch -> RunState]
    BY <1>0, <1>5, <2>2 DEF Tick, Goto, Exit, RunState, Outcome
  <2> QED
    BY <1>5, <2>1, <2>3 DEF Tick, history
<1>6. CASE ClaimRollback(e)
  <2>0. [fs EXCEPT !.dispatched = TRUE] \in Manager
    BY Zenon DEF Manager
  <2>1. fs' \in Manager
    BY <1>6, <2>0 DEF ClaimRollback
  <2>2. run' \in [Epoch -> RunState]
    BY <1>0, <1>6 DEF ClaimRollback, Goto, RunState
  <2> QED
    BY <1>6, <2>1, <2>2 DEF ClaimRollback
<1>7. CASE RunMarks(e)
  <2>1. fs' \in Manager
    BY <1>7, MarkType DEF RunMarks
  <2> QED
    BY <1>0, <1>7, <2>1 DEF RunMarks, RunState, Outcome, history
<1>8. CASE ClaimReboot(e)
  BY <1>0, <1>8 DEF ClaimReboot, Exit, RunState, Outcome, history
<1> QED
  BY <1>1, <1>2, <1>3, <1>4, <1>5, <1>6, <1>7, <1>8 DEF RunStep

\* A step of a press of Roll back keeps the types.
LEMMA PressType ==
  ASSUME TypeOK, NEW c \in Callers, PressStep(c)
  PROVE  TypeOK'
<1> USE FailSafeAssumption DEF TypeOK
<1>0. press[c] \in PressState /\ NoPress \in PressState /\ fs.epoch \in Epoch
      /\ fs.rollback \in Epoch
  BY DEF PressState, NoPress, Epoch, Outcome, Manager
<1>1. CASE Press(c)
  BY <1>0, <1>1 DEF Press, PressState, history
<1>2. CASE NameWindow(c)
  BY <1>0, <1>2 DEF NameWindow, PressState, history
<1>p. "rolled_back" \in Phase
  BY DEF Phase
<1>c. (cancelled \cup ({fs.cancel} \ {0})) \subseteq Epoch
  BY FieldTypes
<1>a. ASSUME NEW res \in Outcome \cup {"busy"}, Answer(c, res)
      PROVE  press' \in [Callers -> PressState]
  <2>1. press[c].win \in Epoch
    BY <1>0 DEF PressState
  <2>2. [NoPress EXCEPT !.pc = "answered", !.res = res, !.win = press[c].win] \in PressState
    BY <1>0, <2>1 DEF PressState
  <2> QED
    BY <1>a, <2>2 DEF Answer
<1>r. press[c].res \in Outcome \cup {"busy"}
  BY <1>0 DEF PressState
<1>3. CASE RollbackRefused(c)
  <2>1. (IF Superseded(c) THEN "superseded" ELSE "busy") \in Outcome \cup {"busy"}
    BY DEF Outcome
  <2> QED
    BY <1>a, <1>3, <2>1 DEF RollbackRefused, history
<1>4. CASE RollbackFinalized(c)
  <2>1. fs' \in Manager
    BY <1>p, <1>4, Zenon DEF RollbackFinalized, Manager
  <2>2. [NoPress EXCEPT !.pc = "answered", !.res = "ok", !.win = fs.rollback] \in PressState
    BY <1>0 DEF PressState, Outcome
  <2> QED
    BY <1>c, <1>4, <2>1, <2>2 DEF RollbackFinalized, CancelRun, history
<1>5. CASE RollbackClaimed(c)
  <2>1. fs' \in Manager
    BY <1>5, Zenon DEF RollbackClaimed, Claimed, Manager
  <2>2. [NoPress EXCEPT !.pc = "closure", !.ep = fs.epoch, !.win = fs.rollback] \in PressState
    BY <1>0 DEF PressState
  <2> QED
    BY <1>0, <1>5, <2>1, <2>2 DEF RollbackClaimed
<1>6. CASE TailReplaced(c)
  BY <1>a, <1>r, <1>6 DEF TailReplaced, history
<1>7. CASE TailFails(c)
  <2>1. [press[c] EXCEPT !.pc = "failTail"] \in PressState
    BY <1>0 DEF PressState
  <2> QED
    BY <1>7, <2>1 DEF TailFails, history
<1>8. CASE TailSucceeds(c)
  <2>1. fs' \in Manager
    BY <1>p, <1>8, Zenon DEF TailSucceeds, Manager
  <2>2. "ok" \in Outcome \cup {"busy"}
    BY DEF Outcome
  <2> QED
    BY <1>a, <1>c, <1>8, <2>1, <2>2 DEF TailSucceeds, CancelRun, history
<1>9. CASE PressMarksFailed(c)
  <2>1. fs' \in Manager
    BY <1>9, MarkType DEF PressMarksFailed
  <2>2. "fail" \in Outcome \cup {"busy"}
    BY DEF Outcome
  <2> QED
    BY <1>a, <1>9, <2>1, <2>2 DEF PressMarksFailed, history
<1>10. CASE PressReturns(c)
  BY <1>0, <1>10 DEF PressReturns, history
<1> QED
  BY <1>1, <1>2, <1>3, <1>4, <1>5, <1>6, <1>7, <1>8, <1>9, <1>10
     DEF PressStep, RollbackNow, PressTail

\* The rollback closure, in a goroutine or in a press, keeps the types.
LEMMA ClosureType ==
  ASSUME TypeOK, Closures
  PROVE  TypeOK'
<1> USE DEF TypeOK
<1>1. ASSUME NEW res \in Outcome, NEW e \in Epoch, RunClosure(e, res)
      PROVE  TypeOK'
  BY <1>1 DEF RunClosure, NoteOutcome, RunState, history
<1>2. ASSUME NEW res \in Outcome, NEW c \in Callers, PressClosure(c, res)
      PROVE  TypeOK'
  <2>1. press[c] \in PressState /\ press[c].win \in Epoch
    BY DEF PressState
  <2> QED
    BY <1>2, <2>1 DEF PressClosure, NoteOutcome, PressState, history
<1> QED
  BY <1>1, <1>2 DEF Closures

\* Type correctness of the manager, its goroutines and the presses.
THEOREM TypeCorrect == FSSpec => []TypeOK
<1>1. FSInit => TypeOK
  BY FailSafeAssumption
     DEF FSInit, TypeOK, New, Manager, Phase, Epoch, NoRun, RunState, Outcome,
         NoPress, PressState
<1>2. TypeOK /\ [FSNext]_vars => TypeOK'
  <2> SUFFICES ASSUME TypeOK, [FSNext]_vars
               PROVE  TypeOK'
    OBVIOUS
  <2>1. CASE KeepRecords
    BY <2>1 DEF KeepRecords, TypeOK, Manager, history
  <2>2. CASE Advance
    BY <2>2 DEF Advance, TypeOK, history
  <2>3. CASE UNCHANGED vars
    BY <2>3 DEF vars, TypeOK
  <2> QED
    BY <2>1, <2>2, <2>3, WindowType, RunType, PressType, ClosureType DEF FSNext
<1> QED
  BY <1>1, <1>2, PTL DEF FSSpec

-----------------------------------------------------------------------------
(* At most one closure of a window runs at a time                          *)

\* What FlightInv reads: a step that leaves these alone preserves it.
LEMMA FlightFrame ==
  ASSUME FlightInv, TypeOK, TypeOK',
         fs'.rollback = fs.rollback, fs.epoch <= fs'.epoch,
         fs.dispatched => fs'.dispatched,
         fs'.rollbackFailed => fs.rollbackFailed,
         \A e \in Epoch : /\ run'[e].pc = "none" <=> run[e].pc = "none"
                          /\ RunInFlight(e)' => RunInFlight(e),
         \A c \in Callers : /\ PressInFlight(c)' => PressInFlight(c)
                            /\ PressInFlight(c)' => /\ press'[c].win = press[c].win
                                                   /\ press'[c].ep = press[c].ep
  PROVE  FlightInv'
<1> USE DEF FlightInv
<1>0. fs.rollback \in Epoch /\ fs.epoch \in Int /\ fs'.epoch \in Int /\ fs.rollback \in Int
  BY DEF TypeOK, Manager, Epoch
<1>1. WindowOrder'
  <2>1. \A c \in Callers : press[c].ep \in Int
    BY DEF TypeOK, PressState, Epoch
  <2> QED
    BY <1>0, <2>1 DEF WindowOrder
<1>2. FlightFlags'
  BY <1>0 DEF FlightFlags
<1>3. OneFlight'
  <2>1. \A c \in Callers : press[c].win \in Epoch
    BY DEF TypeOK, PressState
  <2> QED
    BY <2>1 DEF OneFlight
<1> QED
  BY <1>1, <1>2, <1>3

\* The frame for a step of one goroutine that claims nothing.
LEMMA RunFrame ==
  ASSUME FlightInv, TypeOK, TypeOK', NEW e \in Epoch, UNCHANGED press,
         fs'.rollback = fs.rollback, fs'.epoch = fs.epoch,
         fs'.dispatched = fs.dispatched, fs'.rollbackFailed = fs.rollbackFailed,
         \A x \in Epoch : x # e => run'[x] = run[x],
         run[e].pc # "none", run'[e].pc # "none", RunInFlight(e)' => RunInFlight(e)
  PROVE  FlightInv'
<1>1. \A x \in Epoch : /\ run'[x].pc = "none" <=> run[x].pc = "none"
                       /\ RunInFlight(x)' => RunInFlight(x)
  BY DEF RunInFlight
<1>2. \A c \in Callers : /\ PressInFlight(c)' => PressInFlight(c)
                         /\ PressInFlight(c)' => /\ press'[c].win = press[c].win
                                                /\ press'[c].ep = press[c].ep
  BY DEF PressInFlight
<1>3. fs.epoch <= fs'.epoch
  BY FieldTypes DEF TypeOK, Epoch
<1> QED
  BY <1>1, <1>2, <1>3, FlightFrame

\* The frame for a step of one press that claims nothing.
LEMMA PressFrame ==
  ASSUME FlightInv, TypeOK, TypeOK', NEW c \in Callers, UNCHANGED run,
         fs'.rollback = fs.rollback, fs'.epoch = fs.epoch,
         fs.dispatched => fs'.dispatched, fs'.rollbackFailed => fs.rollbackFailed,
         \A x \in Callers : x # c => press'[x] = press[x],
         PressInFlight(c)' => PressInFlight(c),
         PressInFlight(c)' => press'[c].win = press[c].win /\ press'[c].ep = press[c].ep
  PROVE  FlightInv'
<1>1. \A x \in Epoch : /\ run'[x].pc = "none" <=> run[x].pc = "none"
                       /\ RunInFlight(x)' => RunInFlight(x)
  BY DEF RunInFlight
<1>2. \A x \in Callers : /\ PressInFlight(x)' => PressInFlight(x)
                         /\ PressInFlight(x)' => /\ press'[x].win = press[x].win
                                                /\ press'[x].ep = press[x].ep
  BY DEF PressInFlight
<1>3. fs.epoch <= fs'.epoch
  BY FieldTypes DEF TypeOK, Epoch
<1> QED
  BY <1>1, <1>2, <1>3, FlightFrame

\* A tick claims nothing and marks no outcome.
LEMMA TickKeeps ==
  ASSUME fs \in Manager, NEW t \in Nat, NEW h \in Health
  PROVE  /\ TickHealth(t, h).rollback = fs.rollback
         /\ TickHealth(t, h).epoch = fs.epoch
         /\ TickHealth(t, h).dispatched = fs.dispatched
         /\ TickHealth(t, h).rollbackFailed = fs.rollbackFailed
<1>1. /\ TickUnknown(t).rollback = fs.rollback /\ TickUnknown(t).epoch = fs.epoch
      /\ TickUnknown(t).dispatched = fs.dispatched
      /\ TickUnknown(t).rollbackFailed = fs.rollbackFailed
  BY DEF TickUnknown, Manager
<1>2. /\ TickUp(t).rollback = fs.rollback /\ TickUp(t).epoch = fs.epoch
      /\ TickUp(t).dispatched = fs.dispatched
      /\ TickUp(t).rollbackFailed = fs.rollbackFailed
  BY DEF TickUp, Manager
<1>3. /\ TickDown(t).rollback = fs.rollback /\ TickDown(t).epoch = fs.epoch
      /\ TickDown(t).dispatched = fs.dispatched
      /\ TickDown(t).rollbackFailed = fs.rollbackFailed
  BY DEF TickDown, Manager
<1> QED
  BY <1>1, <1>2, <1>3 DEF TickHealth, Health

\* Arming a window leaves every rollback in flight with an older one.
LEMMA ArmFlight ==
  ASSUME FlightInv, TypeOK, TypeOK', NEW allow, ArmHealth(allow), UNCHANGED press
  PROVE  FlightInv'
<1>1. /\ fs'.rollback = fs.epoch + 1 /\ fs'.epoch = fs.epoch + 1
      /\ fs'.rollbackFailed = FALSE
  BY DEF ArmHealth, Armed, TypeOK, Manager
<1>2. /\ fs.epoch \in Nat /\ fs.rollback \in Nat /\ fs.rollback <= fs.epoch
      /\ fs.epoch + 1 \in Epoch
  BY FailSafeAssumption DEF FlightInv, WindowOrder, TypeOK, Manager, Epoch, ArmHealth
<1>3. /\ \A e \in Epoch : e # fs.epoch + 1 => run'[e] = run[e]
      /\ run[fs.epoch + 1].pc = "none" /\ run'[fs.epoch + 1].pc = "grace"
  BY <1>2 DEF ArmHealth, TypeOK, FlightInv, WindowOrder
<1>4. \A c \in Callers : press[c].win \in Epoch /\ press[c].ep \in Epoch
  BY DEF TypeOK, PressState
<1>5. \A c \in Callers : PressInFlight(c) => press[c].win <= fs.rollback
  BY DEF FlightInv, WindowOrder
<1>6. \A c \in Callers : PressInFlight(c) => press[c].ep <= fs.epoch
  BY DEF FlightInv, WindowOrder
<1>7. WindowOrder'
  BY <1>1, <1>2, <1>3, <1>4, <1>5, <1>6
     DEF FlightInv, WindowOrder, PressInFlight, Epoch
<1>8. FlightFlags'
  BY <1>1, <1>2, <1>3, <1>4, <1>5 DEF FlightFlags, RunInFlight, PressInFlight, Epoch
<1>9. OneFlight'
  BY <1>2, <1>3, <1>4, <1>5 DEF FlightInv, OneFlight, RunInFlight, PressInFlight, Epoch
<1> QED
  BY <1>7, <1>8, <1>9 DEF FlightInv

\* Closing a window claims nothing and marks no failure.
LEMMA CloseFlight ==
  ASSUME FlightInv, TypeOK, TypeOK', Confirm \/ Disarm \/ MarkRolledBack,
         UNCHANGED <<run, press>>
  PROVE  FlightInv'
<1>1. /\ fs'.rollback = fs.rollback /\ fs'.dispatched = fs.dispatched
      /\ fs'.epoch = fs.epoch \/ fs'.epoch = fs.epoch + 1
      /\ fs'.rollbackFailed => fs.rollbackFailed
  <2>1. CASE Confirm
    BY <2>1 DEF Confirm, TypeOK, Manager
  <2>2. CASE Disarm
    BY <2>2 DEF Disarm, TypeOK, Manager
  <2>3. CASE MarkRolledBack
    BY <2>3 DEF MarkRolledBack, TypeOK, Manager
  <2> QED
    BY <2>1, <2>2, <2>3
<1>2. fs.epoch <= fs'.epoch
  BY <1>1 DEF TypeOK, Manager, Epoch
<1> QED
  BY <1>1, <1>2, FlightFrame DEF RunInFlight, PressInFlight

\* The goroutine's steps: only claimRollback puts a rollback in flight, and
\* only while none is; only its own mark sets the failed flag.
LEMMA RunFlight ==
  ASSUME FlightInv, TypeOK, TypeOK', NEW e \in Epoch, RunStep(e)
  PROVE  FlightInv'
<1>0. /\ fs \in Manager /\ run \in [Epoch -> RunState] /\ fs.epoch \in Nat
      /\ fs.rollback \in Nat /\ e \in Nat /\ run[e].at \in Nat
  <2>1. fs \in Manager /\ run \in [Epoch -> RunState]
    BY DEF TypeOK
  <2>2. fs.epoch \in Epoch /\ fs.rollback \in Epoch
    BY <2>1, FieldTypes
  <2>3. run[e].at \in Nat
    BY <2>1 DEF RunState
  <2> QED
    BY <2>1, <2>2, <2>3, FailSafeAssumption DEF Epoch
<1>1. ASSUME GraceEnds(e) \/ SeesCancel(e) \/ BeginCheck(e) \/ NextTick(e) \/ ClaimReboot(e)
      PROVE  FlightInv'
  <2>1. UNCHANGED <<fs, press>>
    BY <1>1 DEF GraceEnds, SeesCancel, BeginCheck, NextTick, ClaimReboot
  <2>2. \A x \in Epoch : x # e => run'[x] = run[x]
    BY <1>0, <1>1 DEF GraceEnds, SeesCancel, BeginCheck, NextTick, ClaimReboot, Exit
  <2>3. run[e].pc # "none" /\ run'[e].pc \in {"loop", "exit", "probing"}
    <3>1. CASE GraceEnds(e) \/ NextTick(e)
      BY <1>0, <3>1 DEF GraceEnds, NextTick, RunState
    <3>2. CASE SeesCancel(e) \/ ClaimReboot(e)
      BY <1>0, <3>2 DEF SeesCancel, ClaimReboot, Exit, RunState
    <3>3. CASE BeginCheck(e)
      <4>1. CASE e \in cancelled \/ ~fs.pending
        BY <1>0, <3>3, <4>1 DEF BeginCheck, Exit
      <4>2. CASE ~(e \in cancelled \/ ~fs.pending)
        BY <1>0, <3>3, <4>2 DEF BeginCheck, RunState
      <4> QED
        BY <4>1, <4>2
    <3> QED
      BY <1>1, <3>1, <3>2, <3>3
  <2> QED
    BY <1>0, <2>1, <2>2, <2>3, RunFrame DEF RunInFlight
<1>2. ASSUME NEW h \in Answers, Tick(e, h)
      PROVE  FlightInv'
  <2>1. /\ fs'.rollback = fs.rollback /\ fs'.epoch = fs.epoch
        /\ fs'.dispatched = fs.dispatched /\ fs'.rollbackFailed = fs.rollbackFailed
    BY <1>0, <1>2, TickKeeps, FailSafeAssumption DEF Tick, Health
  <2>2. AfterTick(run[e].at, h) \in {"claimReboot", "claim", "exit", "wait"}
    BY DEF AfterTick
  <2>3. /\ run[e].pc # "none" /\ ~RunInFlight(e)'  /\ run'[e].pc # "none"
        /\ \A x \in Epoch : x # e => run'[x] = run[x]
    BY <1>0, <1>2, <2>2 DEF Tick, Goto, Exit, RunState, RunInFlight
  <2>4. UNCHANGED press
    BY <1>2 DEF Tick
  <2> QED
    BY <1>0, <2>1, <2>3, <2>4, RunFrame DEF RunInFlight
<1>3. CASE ClaimRollback(e)
  <2>1. CASE fs.epoch = e /\ ~fs.dispatched
    <3>1. fs' = [fs EXCEPT !.dispatched = TRUE] /\ UNCHANGED press
      BY <1>3, <2>1 DEF ClaimRollback
    <3>2. fs'.rollback = fs.rollback /\ fs'.epoch = fs.epoch
          /\ fs'.dispatched = TRUE /\ fs'.rollbackFailed = fs.rollbackFailed
      BY <1>0, <3>1 DEF Manager
    <3>3. /\ run[e].pc = "claim" /\ run'[e].pc = "closure"
          /\ \A x \in Epoch : x # e => run'[x] = run[x]
      BY <1>0, <1>3, <2>1 DEF ClaimRollback, Goto, RunState
    <3>4. fs.rollback = e
      BY <1>0, <2>1, <3>3 DEF FlightInv, WindowOrder
    <3>5. ~fs.rollbackFailed /\ \A c \in Callers : PressInFlight(c) => press[c].win # e
      BY <2>1, <3>4 DEF FlightInv, FlightFlags
    <3>6. WindowOrder'
      BY <3>1, <3>2, <3>3, <1>0 DEF FlightInv, WindowOrder, PressInFlight
    <3>7. FlightFlags'
      BY <3>1, <3>2, <3>5 DEF FlightInv, FlightFlags
    <3>8. OneFlight'
      <4>1. \A c \in Callers : press[c].win \in Epoch
        BY DEF TypeOK, PressState
      <4> QED
        BY <3>1, <3>3, <3>5, <4>1 DEF FlightInv, OneFlight, RunInFlight, PressInFlight
    <3> QED
      BY <3>6, <3>7, <3>8 DEF FlightInv
  <2>2. CASE ~(fs.epoch = e /\ ~fs.dispatched)
    <3>1. UNCHANGED <<fs, press>>
      BY <1>3, <2>2 DEF ClaimRollback
    <3>2. /\ run[e].pc = "claim" /\ run'[e].pc = "wait"
          /\ \A x \in Epoch : x # e => run'[x] = run[x]
      BY <1>0, <1>3, <2>2 DEF ClaimRollback, Goto, RunState
    <3> QED
      BY <1>0, <3>1, <3>2, RunFrame DEF RunInFlight
  <2> QED
    BY <2>1, <2>2
<1>4. CASE RunMarks(e)
  <2>1. /\ run[e].pc = "mark" /\ run'[e].pc = "wait" /\ UNCHANGED press
        /\ \A x \in Epoch : x # e => run'[x] = run[x]
    BY <1>0, <1>4 DEF RunMarks, RunState
  <2>2. CASE run[e].res = "ok" \/ fs.epoch # e
    <3>1. fs' = MarkDone(e) \/ fs' = fs
      BY <1>4, <2>2 DEF RunMarks, MarkFailed
    <3>2. /\ fs'.rollback = fs.rollback /\ fs'.epoch = fs.epoch
          /\ fs'.dispatched = fs.dispatched /\ fs'.rollbackFailed = fs.rollbackFailed
      BY <1>0, <3>1 DEF MarkDone, Manager
    <3> QED
      BY <1>0, <2>1, <3>2, RunFrame DEF RunInFlight
  <2>3. CASE run[e].res # "ok" /\ fs.epoch = e
    <3>1. fs' = [fs EXCEPT !.phase = "rollback_failed", !.rollbackFailed = TRUE]
      BY <1>4, <2>3 DEF RunMarks, MarkFailed
    <3>2. /\ fs'.rollback = fs.rollback /\ fs'.epoch = fs.epoch
          /\ fs'.dispatched = fs.dispatched
      BY <1>0, <3>1 DEF Manager
    <3>3. fs.rollback = e
      BY <1>0, <2>1, <2>3 DEF FlightInv, WindowOrder
    <3>4. fs.dispatched /\ \A c \in Callers : PressInFlight(c) => press[c].win # e
      BY <2>1, <3>3 DEF FlightInv, FlightFlags, OneFlight, RunInFlight
    <3>5. WindowOrder'
      BY <2>1, <3>2, <1>0 DEF FlightInv, WindowOrder, PressInFlight
    <3>6. FlightFlags'
      BY <2>1, <3>2, <3>3, <3>4 DEF FlightFlags, RunInFlight, PressInFlight
    <3>7. OneFlight'
      <4>1. \A c \in Callers : press[c].win \in Epoch
        BY DEF TypeOK, PressState
      <4> QED
        BY <2>1, <4>1 DEF FlightInv, OneFlight, RunInFlight, PressInFlight
    <3> QED
      BY <3>5, <3>6, <3>7 DEF FlightInv
  <2> QED
    BY <2>2, <2>3
<1> QED
  BY <1>1, <1>2, <1>3, <1>4 DEF RunStep

\* The press's steps: rollbackNow claims only while no rollback of the window
\* is in flight, and only the press that failed marks the failure.
LEMMA PressFlight ==
  ASSUME FlightInv, TypeOK, TypeOK', NEW c \in Callers, PressStep(c)
  PROVE  FlightInv'
<1>0. fs \in Manager /\ press \in [Callers -> PressState] /\ press[c] \in PressState
  BY DEF TypeOK
<1>n. fs.epoch \in Epoch /\ fs.rollback \in Epoch /\ fs.epoch \in Int /\ fs.rollback \in Int
  BY <1>0, FieldTypes DEF Epoch
<1>w. \A x \in Callers : press[x].win \in Epoch /\ press[x].ep \in Epoch
  BY <1>0 DEF PressState
<1>1. ASSUME Press(c) \/ NameWindow(c) \/ RollbackRefused(c) \/ TailReplaced(c)
             \/ TailFails(c) \/ PressReturns(c)
      PROVE  FlightInv'
  <2>1. UNCHANGED <<fs, run>>
    BY <1>1 DEF Press, NameWindow, RollbackRefused, TailReplaced, TailFails, PressReturns
  <2>2. \A x \in Callers : x # c => press'[x] = press[x]
    BY <1>0, <1>1 DEF Press, NameWindow, RollbackRefused, TailReplaced, TailFails,
       PressReturns, Answer
  <2>3. /\ PressInFlight(c)' => PressInFlight(c)
        /\ PressInFlight(c)' => press'[c].win = press[c].win /\ press'[c].ep = press[c].ep
    <3>1. CASE TailFails(c)
      BY <1>0, <3>1 DEF TailFails, PressInFlight, PressState
    <3>2. CASE Press(c) \/ PressReturns(c)
      BY <1>0, <3>2 DEF Press, PressReturns, NoPress, PressInFlight
    <3>3. CASE NameWindow(c)
      BY <1>0, <3>3 DEF NameWindow, PressInFlight, PressState
    <3>4. CASE RollbackRefused(c) \/ TailReplaced(c)
      BY <1>0, <3>4 DEF RollbackRefused, TailReplaced, Answer, NoPress, PressInFlight
    <3> QED
      BY <1>1, <3>1, <3>2, <3>3, <3>4
  <2> QED
    BY <1>n, <2>1, <2>2, <2>3, PressFrame DEF PressInFlight
<1>2. CASE RollbackFinalized(c) \/ TailSucceeds(c)
  <2>1. /\ fs'.rollback = fs.rollback /\ fs'.epoch = fs.epoch
        /\ fs.dispatched => fs'.dispatched
        /\ fs'.rollbackFailed => fs.rollbackFailed
    <3>1. CASE RollbackFinalized(c)
      BY <1>0, <3>1 DEF RollbackFinalized, Manager
    <3>2. CASE TailSucceeds(c)
      BY <1>0, <3>2 DEF TailSucceeds, Manager
    <3> QED
      BY <1>2, <3>1, <3>2
  <2>2. /\ UNCHANGED run /\ press'[c].pc = "answered"
        /\ \A x \in Callers : x # c => press'[x] = press[x]
    BY <1>0, <1>2 DEF RollbackFinalized, TailSucceeds, Answer, NoPress
  <2> QED
    BY <1>n, <2>1, <2>2, PressFrame DEF PressInFlight
<1>3. CASE RollbackClaimed(c)
  <2>1. /\ fs'.rollback = fs.rollback /\ fs'.epoch = fs.epoch
        /\ fs'.dispatched = TRUE /\ fs'.rollbackFailed = FALSE
    BY <1>0, <1>3 DEF RollbackClaimed, Claimed, Manager
  <2>2. /\ UNCHANGED run
        /\ press'[c].pc = "closure" /\ press'[c].win = fs.rollback /\ press'[c].ep = fs.epoch
        /\ \A x \in Callers : x # c => press'[x] = press[x]
    BY <1>0, <1>3 DEF RollbackClaimed, NoPress
  <2>3. ~RunInFlight(fs.rollback)
        /\ \A x \in Callers : PressInFlight(x) => press[x].win # fs.rollback
    BY <1>3 DEF RollbackClaimed, InFlight, PriorSucceeded, FlightInv, FlightFlags
  <2>4. WindowOrder'
    BY <1>n, <2>1, <2>2 DEF FlightInv, WindowOrder, PressInFlight
  <2>5. FlightFlags'
    BY <2>1 DEF FlightFlags
  <2>6. OneFlight'
    BY <1>w, <2>2, <2>3 DEF FlightInv, OneFlight, RunInFlight, PressInFlight
  <2> QED
    BY <2>4, <2>5, <2>6 DEF FlightInv
<1>4. CASE PressMarksFailed(c)
  <2>1. /\ UNCHANGED run /\ press'[c].pc = "answered" /\ press[c].pc = "failTail"
        /\ \A x \in Callers : x # c => press'[x] = press[x]
    BY <1>0, <1>4 DEF PressMarksFailed, Answer, NoPress
  <2>2. CASE fs.epoch # press[c].ep
    <3>1. fs' = fs
      BY <1>4, <2>2 DEF PressMarksFailed, MarkFailed
    <3> QED
      BY <1>n, <2>1, <3>1, PressFrame DEF PressInFlight
  <2>3. CASE fs.epoch = press[c].ep
    <3>1. fs' = [fs EXCEPT !.phase = "rollback_failed", !.rollbackFailed = TRUE]
      BY <1>4, <2>3 DEF PressMarksFailed, MarkFailed
    <3>2. /\ fs'.rollback = fs.rollback /\ fs'.epoch = fs.epoch
          /\ fs'.dispatched = fs.dispatched
      BY <1>0, <3>1 DEF Manager
    <3>3. PressInFlight(c)
      BY <2>1 DEF PressInFlight
    <3>4. press[c].win = fs.rollback
      BY <1>n, <1>w, <2>3, <3>3 DEF FlightInv, WindowOrder
    <3>5. /\ fs.dispatched /\ ~RunInFlight(fs.rollback)
          /\ \A x \in Callers : x # c /\ PressInFlight(x) => press[x].win # fs.rollback
      BY <3>3, <3>4 DEF FlightInv, FlightFlags, OneFlight
    <3>6. WindowOrder'
      BY <2>1, <3>2 DEF FlightInv, WindowOrder, PressInFlight
    <3>7. FlightFlags'
      BY <2>1, <3>2, <3>5 DEF FlightFlags, RunInFlight, PressInFlight
    <3>8. OneFlight'
      BY <2>1, <1>w DEF FlightInv, OneFlight, RunInFlight, PressInFlight
    <3> QED
      BY <3>6, <3>7, <3>8 DEF FlightInv
  <2> QED
    BY <2>2, <2>3
<1> QED
  BY <1>1, <1>2, <1>3, <1>4 DEF PressStep, RollbackNow, PressTail

\* The closure's own run leaves its rollback in flight.
LEMMA ClosureFlight ==
  ASSUME FlightInv, TypeOK, TypeOK', Closures
  PROVE  FlightInv'
<1>n. fs.epoch <= fs.epoch /\ run \in [Epoch -> RunState] /\ press \in [Callers -> PressState]
  BY FieldTypes DEF TypeOK, Epoch
<1>1. ASSUME NEW res \in Outcome, NEW e \in Epoch, RunClosure(e, res)
      PROVE  FlightInv'
  <2>1. /\ UNCHANGED <<fs, press>> /\ run[e].pc = "closure" /\ run'[e].pc = "mark"
        /\ \A x \in Epoch : x # e => run'[x] = run[x]
    BY <1>n, <1>1 DEF RunClosure, RunState
  <2> QED
    BY <1>n, <2>1, RunFrame DEF RunInFlight
<1>2. ASSUME NEW res \in Outcome, NEW c \in Callers, PressClosure(c, res)
      PROVE  FlightInv'
  <2>1. /\ UNCHANGED <<fs, run>> /\ press[c].pc = "closure"
        /\ press'[c].win = press[c].win /\ press'[c].ep = press[c].ep
        /\ \A x \in Callers : x # c => press'[x] = press[x]
    BY <1>n, <1>2 DEF PressClosure, PressState
  <2> QED
    BY <1>n, <2>1, PressFrame DEF PressInFlight
<1> QED
  BY <1>1, <1>2 DEF Closures

\* FlightInv is inductive: whatever the order of claims, presses and marks, a
\* rollback in flight excludes the next claim until its outcome is marked.
THEOREM FlightSafe == FSSpec => []FlightInv
<1>1. FSInit => FlightInv
  <2> SUFFICES ASSUME FSInit
               PROVE  FlightInv
    OBVIOUS
  <2>1. fs.rollback = 0 /\ fs.epoch = 0 /\ ~fs.rollbackFailed
    BY DEF FSInit, New
  <2>2. \A e \in Epoch : run[e].pc = "none"
    BY DEF FSInit, NoRun
  <2>3. \A c \in Callers : ~PressInFlight(c)
    BY DEF FSInit, NoPress, PressInFlight
  <2>4. 0 \in Epoch
    BY FailSafeAssumption DEF Epoch
  <2> QED
    BY <2>1, <2>2, <2>3, <2>4
       DEF FlightInv, WindowOrder, FlightFlags, OneFlight, RunInFlight
<1>2. TypeOK /\ TypeOK' /\ FlightInv /\ [FSNext]_vars => FlightInv'
  <2> SUFFICES ASSUME TypeOK, TypeOK', FlightInv, [FSNext]_vars
               PROVE  FlightInv'
    OBVIOUS
  <2>1. CASE WindowChange
    BY <2>1, ArmFlight, CloseFlight DEF WindowChange
  <2>2. CASE KeepRecords \/ Advance \/ UNCHANGED vars
    <3>1. UNCHANGED <<fs, run, press>>
      BY <2>2 DEF KeepRecords, Advance, vars
    <3>2. fs.epoch <= fs.epoch
      BY FieldTypes DEF TypeOK, Epoch
    <3> QED
      BY <3>1, <3>2, FlightFrame DEF RunInFlight, PressInFlight
  <2> QED
    BY <2>1, <2>2, RunFlight, PressFlight, ClosureFlight DEF FSNext
<1> QED
  BY <1>1, <1>2, TypeCorrect, PTL DEF FSSpec

\* Whatever the number of presses, windows and ticks and however they
\* interleave, no window's rollback closure is ever run twice at once
\* (claimRollback, rollbackNow, both marks).
THEOREM RollbackExclusion == FSSpec => []OneRollbackInFlight
<1>1. FlightInv => OneRollbackInFlight
  BY DEF FlightInv, OneFlight, OneRollbackInFlight, ClosuresInFlight, RunInFlight,
         PressInFlight
<1> QED
  BY <1>1, FlightSafe, PTL

-----------------------------------------------------------------------------
(* Outcomes, the fallback, and the windows of module Window                *)

Inv == TypeOK /\ FlightInv /\ OutcomeInv /\ FallbackInv /\ RefineInv

\* What is to be shown of a step: the invariants, and a step of the windows.
StepOK == OutcomeInv' /\ FallbackInv' /\ RefineInv' /\ [W!Next]_(W!vars)

\* The types of what the steps compare.
LEMMA Types ==
  ASSUME TypeOK
  PROVE  /\ now \in Nat /\ fs.rollback \in Nat /\ fs.epoch \in Nat /\ fs.cancel \in Nat
         /\ fs.rollback \in Epoch /\ fs.epoch \in Epoch /\ fs.cancel \in Epoch
         /\ fs.deadline \in Int /\ fs.badSince \in Int /\ fs.lastAt \in Int
         /\ ArmedAt \in Int /\ 0 \in Epoch /\ Epoch \subseteq Nat
         /\ \A e \in Epoch : run[e] \in RunState /\ run[e].at \in Nat
         /\ \A c \in Callers : /\ press[c] \in PressState /\ press[c].win \in Epoch
                               /\ press[c].ep \in Epoch
<1>1. 0 \in Epoch /\ Epoch \subseteq Nat /\ KeepWindow \in Nat
  BY FailSafeAssumption DEF Epoch
<1>2. fs \in Manager /\ run \in [Epoch -> RunState] /\ press \in [Callers -> PressState] /\ now \in Nat
  BY DEF TypeOK
<1>3. \A e \in Epoch : run[e] \in RunState /\ run[e].at \in Nat
  BY <1>2 DEF RunState
<1>4. \A c \in Callers : /\ press[c] \in PressState /\ press[c].win \in Epoch /\ press[c].ep \in Epoch
  BY <1>2 DEF PressState
<1>5. /\ fs.rollback \in Epoch /\ fs.epoch \in Epoch /\ fs.cancel \in Epoch
      /\ fs.deadline \in Int /\ fs.badSince \in Int /\ fs.lastAt \in Int
  BY <1>2, FieldTypes
<1>6. ArmedAt \in Int
  BY <1>1, <1>5 DEF ArmedAt
<1> QED
  BY <1>1, <1>2, <1>3, <1>4, <1>5, <1>6

\* What runs is the closures under way, so a step that begins and ends none
\* leaves it alone.
LEMMA RunningFrame ==
  ASSUME \A e \in Epoch : run'[e].pc = "closure" <=> run[e].pc = "closure",
         \A c \in Callers : /\ press'[c].pc = "closure" <=> press[c].pc = "closure"
                            /\ press[c].pc = "closure" => press'[c].win = press[c].win
  PROVE  Running' = Running
BY DEF Running

\* A step of one goroutine that changes nothing but where it is.
LEMMA QuietRun ==
  ASSUME Inv, TypeOK', NEW e \in Epoch, UNCHANGED <<now, fs, cancelled, press, history>>,
         \A x \in Epoch : x # e => run'[x] = run[x],
         run[e].pc \notin {"none", "closure"},
         run'[e].pc \in {"loop", "exit", "probing", "wait"},
         run[e].pc = "claim" /\ fs.epoch = e => e \in tried,
         run'[e].pc = "probing" => run'[e].at = now /\ e \notin cancelled
  PROVE  StepOK
<1> USE DEF Inv, history
<1>t. /\ now \in Nat /\ fs.rollback \in Epoch /\ 0 \in Epoch /\ Epoch \subseteq Nat
      /\ ProbeMax \in Nat /\ fs.epoch \in Epoch
  BY Types, FailSafeAssumption
<1>1. OutcomeInv'
  BY <1>t DEF OutcomeInv, OutcomesKnown, OutcomeFlagsTrue, SuccessIsReal
<1>2. FallbackInv'
  BY <1>t DEF FallbackInv, CancelOrder, FallbackStays
<1>3. OpenIsArmed'
  BY <1>t DEF RefineInv, OpenIsArmed
<1>4. NotYetRestored'
  BY <1>t DEF RefineInv, NotYetRestored, RunInFlight, PressInFlight
<1>5. TriedFirst'
  BY <1>t DEF RefineInv, TriedFirst
<1>6. StampOrder'
  BY <1>t DEF RefineInv, StampOrder, ArmedAt, FallbackInv, CancelOrder
<1>7. UNCHANGED W!vars
  BY <1>t, RunningFrame DEF W!vars
<1> QED
  BY <1>1, <1>2, <1>3, <1>4, <1>5, <1>6, <1>7 DEF StepOK, RefineInv

\* A step of one press that changes nothing but where it is and what it answers.
LEMMA QuietPress ==
  ASSUME Inv, TypeOK', NEW c \in Callers, UNCHANGED <<now, fs, cancelled, run, history>>,
         \A x \in Callers : x # c => press'[x] = press[x],
         fs.rollback # 0, press[c].pc # "closure", press'[c].pc \notin {"closure", "tail"},
         press'[c].pc = "failTail" => /\ press[c].pc = "tail" /\ press[c].res # "ok"
                                      /\ press'[c].win = press[c].win /\ press'[c].ep = press[c].ep
                                      /\ press'[c].res = press[c].res,
         press'[c].pc = "answered" /\ press'[c].res = "ok" => press'[c].win \in restored
  PROVE  StepOK
<1> USE DEF Inv, history
<1>1. OutcomeInv'
  BY DEF OutcomeInv, OutcomesKnown, OutcomeFlagsTrue, SuccessIsReal
<1>2. FallbackInv'
  BY DEF FallbackInv, CancelOrder, FallbackStays
<1>3. OpenIsArmed'
  BY DEF RefineInv, OpenIsArmed
<1>4. NotYetRestored'
  BY DEF RefineInv, NotYetRestored, RunInFlight, PressInFlight
<1>5. TriedFirst' /\ StampOrder'
  BY DEF RefineInv, TriedFirst, StampOrder, ArmedAt
<1>6. UNCHANGED W!vars
  BY RunningFrame DEF W!vars
<1> QED
  BY <1>1, <1>2, <1>3, <1>4, <1>5, <1>6 DEF StepOK, RefineInv

-----------------------------------------------------------------------------
(* The window's opening and closing                                         *)

\* A newer Apply opens the next window.
LEMMA ArmStep ==
  ASSUME Inv, TypeOK', NEW allow, ArmHealth(allow), UNCHANGED <<now, press, history>>
  PROVE  StepOK
<1> USE DEF Inv, history
<1>t. /\ now \in Nat /\ fs.rollback \in Nat /\ fs.epoch \in Nat /\ Epoch \subseteq Nat /\ 0 \in Epoch
      /\ ProbeMax \in Nat /\ KeepWindow \in Nat /\ fs.epoch + 1 \in Epoch /\ fs.rollback <= fs.epoch
      /\ fs.cancel \in Epoch /\ fs.rollback \in Epoch
  BY Types, FailSafeAssumption DEF ArmHealth, Epoch, FlightInv, WindowOrder
<1>f. /\ fs'.rollback = fs.epoch + 1 /\ fs'.epoch = fs.epoch + 1 /\ fs'.cancel = fs.epoch + 1
      /\ fs'.pending = TRUE /\ fs'.phase = "armed" /\ fs'.bad = FALSE /\ fs'.rolledBack = FALSE
      /\ fs'.dispatched = FALSE /\ fs'.rollbackDone = FALSE /\ fs'.rollbackFailed = FALSE
      /\ fs'.deadline = now + KeepWindow
  BY DEF ArmHealth, Armed, TypeOK, Manager
<1>r. /\ \A x \in Epoch : x # fs.epoch + 1 => run'[x] = run[x]
      /\ run'[fs.epoch + 1].pc = "grace" /\ run[fs.epoch + 1].pc = "none"
  BY <1>t DEF ArmHealth, TypeOK, FlightInv, WindowOrder
<1>c. cancelled' = cancelled \cup ({fs.cancel} \ {0})
  BY DEF ArmHealth, CancelRun
<1>o. /\ \A x \in Epoch : run[x].pc # "none" => x <= fs.rollback
      /\ \A x \in Callers : PressInFlight(x) => press[x].win <= fs.rollback
      /\ \A x \in Callers : press[x].win \in Nat
  BY <1>t, Types DEF FlightInv, WindowOrder
<1>1. OutcomeInv'
  BY <1>t, <1>f, <1>r DEF OutcomeInv, OutcomesKnown, OutcomeFlagsTrue, SuccessIsReal
<1>2. CancelOrder'
  <2>1. CancelOrder /\ cancelled \subseteq Epoch
    BY DEF FallbackInv, TypeOK
  <2>2. \A x \in cancelled' : x \in Nat /\ x <= fs.epoch + 1
    <3> SUFFICES ASSUME NEW x \in cancelled' PROVE x \in Nat /\ x <= fs.epoch + 1
      OBVIOUS
    <3>1. CASE x \in cancelled
      <4>1. x \in Nat /\ x <= fs.rollback
        BY <1>t, <2>1, <3>1 DEF CancelOrder
      <4> QED
        BY <1>t, <4>1
    <3>2. CASE x = fs.cancel
      <4>1. x = 0 \/ x = fs.rollback
        BY <2>1, <3>2 DEF CancelOrder
      <4> QED
        BY <1>t, <4>1
    <3> QED
      BY <1>c, <3>1, <3>2
  <2>3. fs.rollback # 0 => fs.rollback \in cancelled'
    BY <1>c, <2>1 DEF CancelOrder
  <2>4. ASSUME NEW x \in Epoch, x # fs.epoch + 1, run'[x].pc # "none"
        PROVE  x \in cancelled'
    <3>1. run[x].pc # "none"
      BY <1>r, <2>4
    <3>2. CASE x = fs.rollback
      BY <2>3, <3>1, <3>2 DEF RefineInv, OpenIsArmed
    <3>3. CASE x # fs.rollback
      BY <1>c, <2>1, <3>1, <3>3 DEF CancelOrder
    <3> QED
      BY <3>2, <3>3
  <2> QED
    BY <1>t, <1>f, <2>2, <2>4 DEF CancelOrder
<1>3. FallbackStays'
  BY <1>t, <1>f, <1>c DEF FallbackInv, CancelOrder, FallbackStays, TypeOK
<1>4. OpenIsArmed'
  BY <1>t, <1>f, <1>r DEF RefineInv, OpenIsArmed
<1>5. NotYetRestored'
  BY <1>t, <1>f, <1>r, <1>o DEF RefineInv, NotYetRestored, RunInFlight, PressInFlight, TypeOK
<1>6. TriedFirst'
  BY <1>t, <1>f, <1>r, <1>o DEF RefineInv, TriedFirst
<1>7. StampOrder'
  BY <1>t, <1>f, <1>r DEF RefineInv, StampOrder, ArmedAt
<1>8. Running' = Running
  BY <1>r, RunningFrame
<1>9. W!Arm
  BY <1>t, <1>f, <1>8 DEF W!Arm
<1> QED
  BY <1>1, <1>2, <1>3, <1>4, <1>5, <1>6, <1>7, <1>9 DEF StepOK, FallbackInv, RefineInv, W!Next

\* Keep and the routing switch close the window, whose outcome is then nobody's.
LEMMA CloseStep ==
  ASSUME Inv, TypeOK', Confirm \/ Disarm, UNCHANGED <<now, run, press, history>>
  PROVE  StepOK
<1> USE DEF Inv, history
<1>t. /\ fs.rollback \in Nat /\ fs.epoch \in Nat /\ fs.rollback <= fs.epoch /\ fs.cancel \in Epoch
      /\ fs.rollback \in Epoch /\ Epoch \subseteq Nat
  BY Types DEF FlightInv, WindowOrder
<1>f. /\ fs'.rollback = fs.rollback /\ fs'.epoch = fs.epoch + 1 /\ fs'.cancel \in {0, fs.cancel}
      /\ fs'.pending = FALSE /\ fs'.phase # "rollback_failed"
      /\ fs'.bad = fs.bad /\ fs'.badSince = fs.badSince /\ fs'.deadline = fs.deadline
      /\ fs'.dispatched = fs.dispatched /\ fs'.rollbackDone = fs.rollbackDone
      /\ fs'.rollbackFailed = fs.rollbackFailed
  BY DEF Confirm, Disarm, TypeOK, Manager
<1>c. cancelled' = cancelled \cup ({fs.cancel} \ {0})
  BY DEF Confirm, Disarm, CancelRun
<1>o. /\ \A x \in Epoch : run[x].pc # "none" => x <= fs.rollback
      /\ \A x \in Callers : PressInFlight(x) => press[x].ep <= fs.epoch
      /\ \A x \in Callers : press[x].ep \in Nat
  BY <1>t, Types DEF FlightInv, WindowOrder
<1>1. OutcomeInv'
  BY <1>f DEF OutcomeInv, OutcomesKnown, OutcomeFlagsTrue, SuccessIsReal
<1>2. CancelOrder'
  BY <1>t, <1>f, <1>c DEF FallbackInv, CancelOrder, TypeOK
<1>3. FallbackStays'
  BY <1>t, <1>f DEF FallbackStays
<1>4. OpenIsArmed'
  BY <1>f DEF RefineInv, OpenIsArmed
<1>5. NotYetRestored'
  BY <1>t, <1>f, <1>o DEF RefineInv, NotYetRestored, RunInFlight, PressInFlight
<1>6. TriedFirst'
  BY <1>t, <1>f, <1>o DEF RefineInv, TriedFirst
<1>7. StampOrder'
  BY <1>f DEF RefineInv, StampOrder, ArmedAt
<1>8. Running' = Running
  BY RunningFrame
<1>9. [W!Close]_(W!vars)
  <2>1. CASE fs.pending
    BY <1>f, <1>8, <2>1 DEF W!Close
  <2>2. CASE ~fs.pending
    <3>1. fs.pending = FALSE
      BY <2>2 DEF TypeOK, Manager
    <3> QED
      BY <1>f, <1>8, <3>1 DEF W!vars
  <2> QED
    BY <2>1, <2>2
<1> QED
  BY <1>1, <1>2, <1>3, <1>4, <1>5, <1>6, <1>7, <1>9 DEF StepOK, FallbackInv, RefineInv, W!Next

\* A failed Apply put the configuration back in the window's stead.
LEMMA MarkRolledBackStep ==
  ASSUME Inv, TypeOK', MarkRolledBack, UNCHANGED <<now, run, press, failed, tried, rebooted>>
  PROVE  StepOK
<1> USE DEF Inv
<1>1. CASE ~(fs.pending \/ fs.phase = "rollback_failed")
  <2>1. UNCHANGED <<now, fs, cancelled, run, press, restored, failed, tried, rebooted>>
    BY <1>1 DEF MarkRolledBack
  <2>2. OutcomeInv' /\ FallbackInv' /\ RefineInv'
    BY <2>1 DEF OutcomeInv, OutcomesKnown, OutcomeFlagsTrue, SuccessIsReal, FallbackInv, CancelOrder,
       FallbackStays, RefineInv, OpenIsArmed, NotYetRestored, RunInFlight, PressInFlight, TriedFirst,
       StampOrder, ArmedAt
  <2>3. UNCHANGED W!vars
    BY <2>1 DEF W!vars, Running
  <2> QED
    BY <2>2, <2>3 DEF StepOK
<1>2. CASE fs.pending \/ fs.phase = "rollback_failed"
  <2>t. /\ fs.rollback \in Nat /\ fs.epoch \in Nat /\ fs.rollback <= fs.epoch /\ fs.cancel \in Epoch
        /\ fs.rollback \in Epoch /\ Epoch \subseteq Nat /\ fs.rollback # 0
    BY <1>2, Types DEF FlightInv, WindowOrder, RefineInv, OpenIsArmed
  <2>f. /\ fs'.rollback = fs.rollback /\ fs'.epoch = fs.epoch + 1 /\ fs'.cancel = fs.cancel
        /\ fs'.pending = FALSE /\ fs'.phase = "rolled_back"
        /\ fs'.bad = fs.bad /\ fs'.badSince = fs.badSince /\ fs'.deadline = fs.deadline
        /\ fs'.dispatched = fs.dispatched /\ fs'.rollbackDone = TRUE /\ fs'.rollbackFailed = FALSE
    BY <1>2 DEF MarkRolledBack, TypeOK, Manager
  <2>c. cancelled' = cancelled \cup ({fs.cancel} \ {0}) /\ restored' = restored \cup {fs.rollback}
    BY <1>2 DEF MarkRolledBack, CancelRun
  <2>o. /\ \A x \in Epoch : run[x].pc # "none" => x <= fs.rollback
        /\ \A x \in Callers : PressInFlight(x) => press[x].ep <= fs.epoch
        /\ \A x \in Callers : press[x].ep \in Nat
    BY <2>t, Types DEF FlightInv, WindowOrder
  <2>1. OutcomeInv'
    BY <2>f, <2>c DEF OutcomeInv, OutcomesKnown, OutcomeFlagsTrue, SuccessIsReal
  <2>2. CancelOrder'
    BY <2>t, <2>f, <2>c DEF FallbackInv, CancelOrder, TypeOK
  <2>3. FallbackStays'
    BY <2>t, <2>f DEF FallbackStays
  <2>4. OpenIsArmed'
    BY <2>t, <2>f DEF RefineInv, OpenIsArmed
  <2>5. NotYetRestored'
    BY <2>t, <2>f, <2>c, <2>o DEF RefineInv, NotYetRestored, RunInFlight, PressInFlight, TypeOK
  <2>6. TriedFirst'
    BY <2>t, <2>f, <2>o DEF RefineInv, TriedFirst
  <2>7. StampOrder'
    BY <2>f DEF RefineInv, StampOrder, ArmedAt
  <2>8. Running' = Running
    BY RunningFrame
  <2>9. W!RestoredElsewhere
    BY <2>t, <2>f, <2>c, <2>8 DEF W!RestoredElsewhere
  <2> QED
    BY <2>1, <2>2, <2>3, <2>4, <2>5, <2>6, <2>7, <2>9 DEF StepOK, FallbackInv, RefineInv, W!Next
<1> QED
  BY <1>1, <1>2

-----------------------------------------------------------------------------
(* The goroutine                                                            *)

\* What a tick may do to the window it drives, whosever goroutine it is in.
LEMMA TickEffect ==
  ASSUME fs \in Manager, NEW t \in Nat, NEW h \in Health
  PROVE  LET new == TickHealth(t, h)
         IN /\ new.rollback = fs.rollback /\ new.epoch = fs.epoch /\ new.cancel = fs.cancel
            /\ new.dispatched = fs.dispatched /\ new.rollbackDone = fs.rollbackDone
            /\ new.rollbackFailed = fs.rollbackFailed /\ new.deadline = fs.deadline
            /\ new.phase = "rollback_failed" => fs.phase = "rollback_failed"
            /\ new.pending => fs.pending
            /\ new.rolledBack => \/ fs.rolledBack
                                 \/ fs.pending /\ fs.bad /\ t - fs.badSince >= RollbackAfter
            /\ new.bad => \/ fs.bad /\ new.badSince = fs.badSince
                          \/ ~fs.bad /\ new.badSince = t
                          \/ /\ fs.bad /\ new.badSince \in Int
                             /\ fs.badSince <= new.badSince \/ t <= new.badSince
<1> DEFINE OK(new) ==
      /\ new.rollback = fs.rollback /\ new.epoch = fs.epoch /\ new.cancel = fs.cancel
      /\ new.dispatched = fs.dispatched /\ new.rollbackDone = fs.rollbackDone
      /\ new.rollbackFailed = fs.rollbackFailed /\ new.deadline = fs.deadline
      /\ new.phase = "rollback_failed" => fs.phase = "rollback_failed"
      /\ new.pending => fs.pending
      /\ new.rolledBack => \/ fs.rolledBack
                           \/ fs.pending /\ fs.bad /\ t - fs.badSince >= RollbackAfter
      /\ new.bad => \/ fs.bad /\ new.badSince = fs.badSince
                    \/ ~fs.bad /\ new.badSince = t
                    \/ /\ fs.bad /\ new.badSince \in Int
                       /\ fs.badSince <= new.badSince \/ t <= new.badSince
<1>t. /\ fs.badSince \in Int /\ fs.lastAt \in Int /\ RollbackAfter \in Nat /\ RollbackAfter > 0
  BY FieldTypes, FailSafeAssumption
<1>1. OK(fs)
  BY <1>t
<1>2. fs.pending => OK(TickUnknown(t))
  <2> SUFFICES ASSUME fs.pending PROVE OK(TickUnknown(t))
    OBVIOUS
  <2>1. /\ TickUnknown(t).rollback = fs.rollback /\ TickUnknown(t).epoch = fs.epoch
        /\ TickUnknown(t).cancel = fs.cancel /\ TickUnknown(t).dispatched = fs.dispatched
        /\ TickUnknown(t).rollbackDone = fs.rollbackDone
        /\ TickUnknown(t).rollbackFailed = fs.rollbackFailed
        /\ TickUnknown(t).deadline = fs.deadline /\ TickUnknown(t).rolledBack = fs.rolledBack
        /\ TickUnknown(t).bad = fs.bad
        /\ TickUnknown(t).phase \in {"unverified", fs.phase}
        /\ \/ TickUnknown(t).badSince = fs.badSince
           \/ /\ t > fs.lastAt
              /\ TickUnknown(t).badSince = SmallerOf(fs.badSince + (t - fs.lastAt), t)
    BY DEF TickUnknown, Manager
  <2> QED
    BY <1>t, <2>1 DEF SmallerOf
<1>3. fs.pending => OK(TickUp(t))
  <2> SUFFICES ASSUME fs.pending PROVE OK(TickUp(t))
    OBVIOUS
  <2>1. /\ TickUp(t).rollback = fs.rollback /\ TickUp(t).epoch = fs.epoch
        /\ TickUp(t).cancel = fs.cancel /\ TickUp(t).dispatched = fs.dispatched
        /\ TickUp(t).rollbackDone = fs.rollbackDone
        /\ TickUp(t).rollbackFailed = fs.rollbackFailed
        /\ TickUp(t).deadline = fs.deadline /\ TickUp(t).rolledBack = fs.rolledBack
        /\ TickUp(t).bad = FALSE
        /\ TickUp(t).phase \in {"live_unsaved", "armed", fs.phase}
    BY DEF TickUp, Manager
  <2> QED
    BY <2>1
<1>4. fs.pending => OK(TickDown(t))
  <2> SUFFICES ASSUME fs.pending PROVE OK(TickDown(t))
    OBVIOUS
  <2>1. /\ TickDown(t).rollback = fs.rollback /\ TickDown(t).epoch = fs.epoch
        /\ TickDown(t).cancel = fs.cancel /\ TickDown(t).dispatched = fs.dispatched
        /\ TickDown(t).rollbackDone = fs.rollbackDone
        /\ TickDown(t).rollbackFailed = fs.rollbackFailed
        /\ TickDown(t).deadline = fs.deadline
        /\ TickDown(t).rolledBack = (fs.rolledBack \/ RollbackDue(t))
        /\ TickDown(t).badSince = BadSince(t)
        /\ TickDown(t).phase \in {"reboot", "rolled_back", "degraded", fs.phase}
    BY DEF TickDown, Manager
  <2>2. RollbackDue(t) => fs.bad /\ t - fs.badSince >= RollbackAfter
    BY <1>t DEF RollbackDue, BadSince
  <2> QED
    BY <2>1, <2>2 DEF BadSince
<1> HIDE DEF OK
<1>5. OK(TickHealth(t, h))
  BY <1>1, <1>2, <1>3, <1>4 DEF TickHealth, Health
<1> QED
  BY <1>5 DEF OK

\* The steps between two critical sections: timers, the context, the loop's
\* head, and a claim that is refused.
LEMMA QuietRunSteps ==
  ASSUME Inv, TypeOK', NEW e \in Epoch,
         \/ GraceEnds(e) \/ SeesCancel(e) \/ BeginCheck(e) \/ NextTick(e)
         \/ ClaimRollback(e) /\ ~(fs.epoch = e /\ ~fs.dispatched)
  PROVE  StepOK
<1> USE DEF history
<1>t. run \in [Epoch -> RunState] /\ fs.rollback \in Nat /\ fs.epoch \in Nat /\ e \in Nat
      /\ fs.rollback <= fs.epoch /\ (run[e].pc # "none" => e <= fs.rollback)
  BY Types DEF Inv, TypeOK, FlightInv, WindowOrder
<1>1. CASE GraceEnds(e) \/ NextTick(e)
  <2>1. /\ UNCHANGED <<now, fs, cancelled, press, history>>
        /\ \A x \in Epoch : x # e => run'[x] = run[x]
        /\ run[e].pc \in {"grace", "wait"} /\ run'[e].pc = "loop"
    BY <1>t, <1>1 DEF GraceEnds, NextTick, RunState
  <2> QED
    BY <2>1, QuietRun
<1>2. CASE SeesCancel(e)
  <2>1. /\ UNCHANGED <<now, fs, cancelled, press, history>>
        /\ \A x \in Epoch : x # e => run'[x] = run[x]
        /\ run[e].pc \in {"grace", "wait"} /\ run'[e].pc = "exit"
    BY <1>t, <1>2 DEF SeesCancel, Exit
  <2> QED
    BY <2>1, QuietRun
<1>3. CASE BeginCheck(e)
  <2>1. /\ UNCHANGED <<now, fs, cancelled, press, history>>
        /\ \A x \in Epoch : x # e => run'[x] = run[x]
        /\ run[e].pc = "loop"
        /\ \/ run'[e].pc = "exit"
           \/ run'[e].pc = "probing" /\ run'[e].at = now /\ e \notin cancelled
    <3>1. CASE e \in cancelled \/ ~fs.pending
      BY <1>t, <1>3, <3>1 DEF BeginCheck, Exit
    <3>2. CASE ~(e \in cancelled \/ ~fs.pending)
      BY <1>t, <1>3, <3>2 DEF BeginCheck, RunState
    <3> QED
      BY <3>1, <3>2
  <2> QED
    BY <2>1, QuietRun
<1>4. CASE ClaimRollback(e) /\ ~(fs.epoch = e /\ ~fs.dispatched)
  <2>1. /\ UNCHANGED <<now, fs, cancelled, press, history>>
        /\ \A x \in Epoch : x # e => run'[x] = run[x]
        /\ run[e].pc = "claim" /\ run'[e].pc = "wait"
    BY <1>t, <1>4 DEF ClaimRollback, Goto, RunState
  <2>2. fs.epoch = e => e \in tried
    <3> SUFFICES ASSUME fs.epoch = e PROVE e \in tried
      OBVIOUS
    <3>1. fs.rollback = e /\ fs.dispatched
      BY <1>t, <1>4, <2>1
    <3> QED
      BY <3>1 DEF Inv, RefineInv, TriedFirst
  <2> QED
    BY <2>1, <2>2, QuietRun
<1> QED
  BY <1>1, <1>2, <1>3, <1>4

\* claimRollback: the window's goroutine starts its rollback.
LEMMA ClaimStep ==
  ASSUME Inv, TypeOK', NEW e \in Epoch, ClaimRollback(e), fs.epoch = e, ~fs.dispatched
  PROVE  StepOK
<1> USE DEF Inv
<1>t. /\ run \in [Epoch -> RunState] /\ fs.rollback \in Nat /\ fs.epoch \in Nat /\ e \in Nat
      /\ fs.rollback <= fs.epoch /\ run[e].pc = "claim" /\ run[0].pc = "none" /\ 0 \in Epoch
      /\ Epoch \subseteq Nat
  BY Types DEF TypeOK, FlightInv, WindowOrder, ClaimRollback, RefineInv, OpenIsArmed
<1>e. fs.rollback = e /\ e > 0
  BY <1>t DEF FlightInv, WindowOrder
<1>f. /\ fs'.rollback = fs.rollback /\ fs'.epoch = fs.epoch /\ fs'.cancel = fs.cancel
      /\ fs'.pending = fs.pending /\ fs'.phase = fs.phase /\ fs'.bad = fs.bad
      /\ fs'.badSince = fs.badSince /\ fs'.deadline = fs.deadline /\ fs'.rolledBack = fs.rolledBack
      /\ fs'.dispatched = TRUE /\ fs'.rollbackDone = fs.rollbackDone
      /\ fs'.rollbackFailed = fs.rollbackFailed
  BY DEF ClaimRollback, TypeOK, Manager
<1>r. /\ \A x \in Epoch : x # e => run'[x] = run[x]
      /\ run'[e].pc = "closure" /\ tried' = tried \cup {e}
      /\ UNCHANGED <<now, cancelled, press, restored, failed, rebooted>>
  BY <1>t DEF ClaimRollback, Goto, RunState
<1>n. e \notin restored /\ ~fs.rollbackFailed /\ ~fs.rollbackDone
  BY <1>e DEF RefineInv, NotYetRestored, FlightInv, FlightFlags
<1>p. \A x \in Callers : PressInFlight(x) => press[x].win # e
  BY <1>e DEF FlightInv, FlightFlags
<1>1. OutcomeInv'
  BY <1>f, <1>r DEF OutcomeInv, OutcomesKnown, OutcomeFlagsTrue, SuccessIsReal
<1>2. FallbackInv'
  BY <1>e, <1>f, <1>r DEF FallbackInv, CancelOrder, FallbackStays
<1>3. OpenIsArmed'
  BY <1>t, <1>e, <1>f, <1>r DEF RefineInv, OpenIsArmed
<1>4. NotYetRestored'
  BY <1>e, <1>f, <1>r, <1>n DEF RefineInv, NotYetRestored, RunInFlight, PressInFlight
<1>5. TriedFirst'
  BY <1>e, <1>f, <1>r DEF RefineInv, TriedFirst
<1>6. StampOrder'
  BY <1>e, <1>f, <1>r DEF RefineInv, StampOrder, ArmedAt
<1>7. e \notin Running /\ Running' = Running \cup {e}
  BY <1>t, <1>p, <1>r DEF Running, PressInFlight
<1>8. W!Start
  BY <1>e, <1>f, <1>r, <1>n, <1>7 DEF W!Start
<1> QED
  BY <1>1, <1>2, <1>3, <1>4, <1>5, <1>6, <1>8 DEF StepOK, RefineInv, W!Next

\* The goroutine's closure ended: only the last armed window's can have restored.
LEMMA RunClosureStep ==
  ASSUME Inv, TypeOK', NEW e \in Epoch, NEW res \in Outcome, RunClosure(e, res)
  PROVE  StepOK
<1> USE DEF Inv
<1>t. /\ run \in [Epoch -> RunState] /\ fs.rollback \in Nat /\ fs.epoch \in Nat /\ e \in Nat
      /\ fs.rollback <= fs.epoch /\ run[e].pc = "closure" /\ 0 \in Epoch
      /\ e <= fs.rollback /\ Epoch \subseteq Nat /\ fs.rollback \in Epoch
  BY Types DEF TypeOK, FlightInv, WindowOrder, RunClosure
<1>r. /\ \A x \in Epoch : x # e => run'[x] = run[x]
      /\ run'[e].pc = "mark" /\ run'[e].res = res
      /\ restored' = IF res = "ok" THEN restored \cup {e} ELSE restored
      /\ failed' = IF res = "ok" THEN failed ELSE failed \cup {e}
      /\ UNCHANGED <<now, fs, cancelled, press, tried, rebooted>>
  BY <1>t DEF RunClosure, NoteOutcome, RunState
<1>e. res = "ok" => fs.epoch = e /\ fs.rollback = e
  BY <1>t DEF RunClosure, ClosureOutcome
<1>p. \A x \in Callers : PressInFlight(x) => press[x].win # e
  BY <1>t DEF FlightInv, OneFlight, RunInFlight
<1>d. e = fs.rollback => fs.dispatched /\ ~fs.rollbackFailed
  BY <1>t DEF FlightInv, FlightFlags, RunInFlight
<1>1. OutcomeInv'
  BY <1>r DEF OutcomeInv, OutcomesKnown, OutcomeFlagsTrue, SuccessIsReal
<1>2. FallbackInv'
  BY <1>t, <1>r DEF FallbackInv, CancelOrder, FallbackStays
<1>3. OpenIsArmed'
  BY <1>t, <1>r DEF RefineInv, OpenIsArmed
<1>4. NotYetRestored'
  BY <1>t, <1>r, <1>e, <1>p, <1>d DEF RefineInv, NotYetRestored, RunInFlight, PressInFlight
<1>5. TriedFirst'
  BY <1>t, <1>r DEF RefineInv, TriedFirst
<1>6. StampOrder'
  BY <1>r DEF RefineInv, StampOrder, ArmedAt
<1>7. e \in Running /\ Running' = Running \ {e}
  BY <1>t, <1>p, <1>r DEF Running, PressInFlight
<1>8. W!Finish(e, res = "ok")
  BY <1>r, <1>e, <1>7 DEF W!Finish
<1> QED
  BY <1>1, <1>2, <1>3, <1>4, <1>5, <1>6, <1>7, <1>8 DEF StepOK, RefineInv, W!Next

\* The goroutine marks its outcome, if its window is still the current one.
LEMMA RunMarksStep ==
  ASSUME Inv, TypeOK', NEW e \in Epoch, RunMarks(e)
  PROVE  StepOK
<1> USE DEF Inv, history
<1>t. /\ run \in [Epoch -> RunState] /\ fs.rollback \in Nat /\ fs.epoch \in Nat /\ e \in Nat
      /\ fs.rollback <= fs.epoch /\ run[e].pc = "mark" /\ e <= fs.rollback
      /\ Epoch \subseteq Nat /\ fs.rollback \in Epoch /\ 0 \in Epoch
  BY Types DEF TypeOK, FlightInv, WindowOrder, RunMarks
<1>r. /\ \A x \in Epoch : x # e => run'[x] = run[x]
      /\ run'[e].pc = "wait"
      /\ UNCHANGED <<now, cancelled, press, history>>
  BY <1>t DEF RunMarks, RunState
<1>f. /\ fs'.rollback = fs.rollback /\ fs'.epoch = fs.epoch /\ fs'.cancel = fs.cancel
      /\ fs'.pending = fs.pending /\ fs'.bad = fs.bad
      /\ fs'.badSince = fs.badSince /\ fs'.deadline = fs.deadline /\ fs'.rolledBack = fs.rolledBack
      /\ fs'.dispatched = fs.dispatched
      /\ \/ fs'.phase = fs.phase
         \/ fs'.phase = "rollback_failed" /\ fs.epoch = e
      /\ \/ fs'.rollbackDone = fs.rollbackDone
         \/ fs'.rollbackDone = TRUE /\ run[e].res = "ok" /\ fs.epoch = e
      /\ \/ fs'.rollbackFailed = fs.rollbackFailed
         \/ fs'.rollbackFailed = TRUE /\ run[e].res # "ok" /\ fs.epoch = e
  BY DEF RunMarks, MarkDone, MarkFailed, TypeOK, Manager
<1>e. fs.epoch = e => fs.rollback = e
  BY <1>t
<1>p. \A x \in Callers : PressInFlight(x) => press[x].win # e
  BY <1>t DEF FlightInv, OneFlight, RunInFlight
<1>d. e = fs.rollback => fs.dispatched /\ ~fs.rollbackFailed
  BY <1>t DEF FlightInv, FlightFlags, RunInFlight
<1>k. e \in (IF run[e].res = "ok" THEN restored ELSE failed)
  BY <1>t DEF OutcomeInv, OutcomesKnown
<1>1. OutcomeInv'
  BY <1>f, <1>r, <1>e, <1>k DEF OutcomeInv, OutcomesKnown, OutcomeFlagsTrue, SuccessIsReal
<1>2. FallbackInv'
  BY <1>t, <1>f, <1>r DEF FallbackInv, CancelOrder, FallbackStays
<1>3. OpenIsArmed'
  <2>1. e # 0
    BY <1>t DEF RefineInv, OpenIsArmed
  <2> QED
    BY <1>t, <1>f, <1>r, <1>e, <2>1 DEF RefineInv, OpenIsArmed
<1>4. NotYetRestored'
  BY <1>t, <1>f, <1>r, <1>e, <1>p, <1>d DEF RefineInv, NotYetRestored, RunInFlight, PressInFlight
<1>5. TriedFirst'
  BY <1>t, <1>f, <1>r DEF RefineInv, TriedFirst
<1>6. StampOrder'
  BY <1>f, <1>r DEF RefineInv, StampOrder, ArmedAt
<1>7. UNCHANGED W!vars
  BY <1>t, <1>f, <1>r, RunningFrame DEF W!vars
<1> QED
  BY <1>1, <1>2, <1>3, <1>4, <1>5, <1>6, <1>7 DEF StepOK, RefineInv

\* claimReboot: only the current window's goroutine reboots, and only after the
\* attempt that TriedFirst promises.
LEMMA ClaimRebootStep ==
  ASSUME Inv, TypeOK', NEW e \in Epoch, ClaimReboot(e)
  PROVE  StepOK
<1> USE DEF Inv
<1>t. /\ run \in [Epoch -> RunState] /\ fs.rollback \in Nat /\ fs.epoch \in Nat /\ e \in Nat
      /\ fs.rollback <= fs.epoch /\ run[e].pc = "claimReboot" /\ e <= fs.rollback
      /\ Epoch \subseteq Nat /\ fs.rollback \in Epoch /\ 0 \in Epoch
  BY Types DEF TypeOK, FlightInv, WindowOrder, ClaimReboot
<1>r. /\ \A x \in Epoch : x # e => run'[x] = run[x]
      /\ run'[e].pc = "exit"
      /\ rebooted' = IF fs.epoch = e /\ fs.allowReboot THEN rebooted \cup {e} ELSE rebooted
      /\ UNCHANGED <<now, fs, cancelled, press, restored, failed, tried>>
  BY <1>t DEF ClaimReboot, Exit
<1>1. OutcomeInv'
  BY <1>r DEF OutcomeInv, OutcomesKnown, OutcomeFlagsTrue, SuccessIsReal
<1>2. FallbackInv'
  BY <1>t, <1>r DEF FallbackInv, CancelOrder, FallbackStays
<1>3. OpenIsArmed'
  BY <1>t, <1>r DEF RefineInv, OpenIsArmed
<1>4. NotYetRestored'
  BY <1>t, <1>r DEF RefineInv, NotYetRestored, RunInFlight, PressInFlight
<1>5. TriedFirst'
  BY <1>t, <1>r DEF RefineInv, TriedFirst
<1>6. StampOrder'
  BY <1>r DEF RefineInv, StampOrder, ArmedAt
<1>7. Running' = Running
  BY <1>t, <1>r, RunningFrame
<1>8. CASE fs.epoch = e /\ fs.allowReboot
  <2>1. fs.rollback = e
    BY <1>t, <1>8
  <2>2. e \in tried /\ ~fs.pending
    BY <1>t, <1>8 DEF RefineInv, TriedFirst
  <2>3. W!Reboot
    BY <1>r, <1>7, <1>8, <2>1, <2>2 DEF W!Reboot
  <2> QED
    BY <1>1, <1>2, <1>3, <1>4, <1>5, <1>6, <2>3 DEF StepOK, RefineInv, W!Next
<1>9. CASE ~(fs.epoch = e /\ fs.allowReboot)
  <2>1. UNCHANGED W!vars
    BY <1>r, <1>7, <1>9 DEF W!vars
  <2> QED
    BY <1>1, <1>2, <1>3, <1>4, <1>5, <1>6, <2>1 DEF StepOK, RefineInv
<1> QED
  BY <1>8, <1>9

\* Where the goroutine goes after the tick agrees with what the tick did.
LEMMA TickDirects ==
  ASSUME fs \in Manager, NEW t \in Nat, NEW h \in Health
  PROVE  /\ AfterTick(t, h) \in {"claimReboot", "claim", "exit", "wait"}
         /\ AfterTick(t, h) = "claimReboot"
              => fs.pending /\ fs.rolledBack /\ ~TickHealth(t, h).pending
         /\ TickHealth(t, h).rolledBack /\ ~fs.rolledBack => AfterTick(t, h) = "claim"
<1>1. AfterTick(t, h) \in {"claimReboot", "claim", "exit", "wait"}
  BY DEF AfterTick
<1>2. CASE ~fs.pending
  <2>1. TickHealth(t, h) = fs /\ AfterTick(t, h) = "wait"
    BY <1>2 DEF TickHealth, AfterTick
  <2> QED
    BY <2>1
<1>3. CASE fs.pending /\ h = "unknown"
  <2>1. TickHealth(t, h) = TickUnknown(t) /\ AfterTick(t, h) = "wait"
    BY <1>3 DEF TickHealth, AfterTick
  <2>2. TickUnknown(t).rolledBack = fs.rolledBack
    BY DEF TickUnknown, Manager
  <2> QED
    BY <2>1, <2>2
<1>4. CASE fs.pending /\ h = "up"
  <2>1. TickHealth(t, h) = TickUp(t) /\ AfterTick(t, h) \in {"exit", "wait"}
    BY <1>4 DEF TickHealth, AfterTick
  <2>2. TickUp(t).rolledBack = fs.rolledBack
    BY DEF TickUp, Manager
  <2> QED
    BY <2>1, <2>2
<1>5. CASE fs.pending /\ h = "down"
  <2>1. TickHealth(t, h) = TickDown(t)
    BY <1>5 DEF TickHealth
  <2>2. /\ TickDown(t).rolledBack = (fs.rolledBack \/ RollbackDue(t))
        /\ TickDown(t).pending = ~RebootDue(t)
    BY DEF TickDown, Manager
  <2>3. ~(RebootDue(t) /\ RollbackDue(t)) /\ (RebootDue(t) => fs.rolledBack)
    BY DEF RebootDue, RollbackDue
  <2>4. AfterTick(t, h) = IF RebootDue(t) THEN "claimReboot"
                          ELSE IF RollbackDue(t) THEN "claim" ELSE "wait"
    BY <1>5, <2>3 DEF AfterTick
  <2> QED
    BY <1>5, <2>1, <2>2, <2>3, <2>4
<1> QED
  BY <1>1, <1>2, <1>3, <1>4, <1>5 DEF Health

\* A tick of a replaced window's goroutine never finds the rollback due that is
\* its successor's: its stamp is too old.
LEMMA StaleTickNotDue ==
  ASSUME Inv, NEW e \in Epoch, run[e].pc = "probing", e # fs.rollback, fs.bad
  PROVE  ~(run[e].at - fs.badSince >= RollbackAfter)
<1>1. run[e].at <= ArmedAt /\ fs.badSince >= ArmedAt - ProbeMax
  BY DEF Inv, RefineInv, StampOrder
<1>2. /\ run[e].at \in Nat /\ ArmedAt \in Int /\ fs.badSince \in Int
      /\ ProbeMax \in Nat /\ RollbackAfter \in Nat /\ ProbeMax < RollbackAfter
  BY Types, FailSafeAssumption DEF Inv
<1> HIDE DEF ArmedAt
<1> QED
  BY <1>1, <1>2

\* A tick closes the window or leaves it, whosever goroutine it comes from; the
\* rollback it finds due is claimed next by the window's own goroutine.
LEMMA TickStep ==
  ASSUME Inv, TypeOK', NEW e \in Epoch, NEW h \in Answers, Tick(e, h)
  PROVE  StepOK
<1> USE DEF history
<1> DEFINE at == run[e].at
<1>t. /\ run \in [Epoch -> RunState] /\ fs \in Manager /\ fs.rollback \in Nat
      /\ fs.epoch \in Nat /\ e \in Nat /\ at \in Nat /\ h \in Health
      /\ fs.rollback <= fs.epoch /\ run[e].pc = "probing" /\ e <= fs.rollback /\ e # 0
      /\ Epoch \subseteq Nat /\ fs.rollback \in Epoch /\ 0 \in Epoch /\ fs.epoch \in Epoch
  BY Types, FailSafeAssumption
     DEF Inv, TypeOK, FlightInv, WindowOrder, Tick, Health, RefineInv, OpenIsArmed
<1>a. fs' = TickHealth(at, h) /\ UNCHANGED <<now, cancelled, press, history>>
  BY DEF Tick
<1> HIDE DEF at
<1>f. /\ fs'.rollback = fs.rollback /\ fs'.epoch = fs.epoch /\ fs'.cancel = fs.cancel
      /\ fs'.dispatched = fs.dispatched /\ fs'.rollbackDone = fs.rollbackDone
      /\ fs'.rollbackFailed = fs.rollbackFailed /\ fs'.deadline = fs.deadline
      /\ fs'.phase = "rollback_failed" => fs.phase = "rollback_failed"
      /\ fs'.pending => fs.pending
  BY <1>t, <1>a, TickEffect
<1>b. /\ fs'.rolledBack => \/ fs.rolledBack
                           \/ fs.pending /\ fs.bad /\ at - fs.badSince >= RollbackAfter
      /\ fs'.bad => \/ fs.bad /\ fs'.badSince = fs.badSince
                    \/ ~fs.bad /\ fs'.badSince = at
                    \/ /\ fs.bad /\ fs'.badSince \in Int
                       /\ fs.badSince <= fs'.badSince \/ at <= fs'.badSince
  BY <1>t, <1>a, TickEffect
<1>d. /\ AfterTick(at, h) \in {"claimReboot", "claim", "exit", "wait"}
      /\ AfterTick(at, h) = "claimReboot" => fs.pending /\ fs.rolledBack /\ ~fs'.pending
      /\ fs'.rolledBack /\ ~fs.rolledBack => AfterTick(at, h) = "claim"
  BY <1>t, <1>a, TickDirects
<1>r. /\ \A x \in Epoch : x # e => run'[x] = run[x]
      /\ run'[e].pc = AfterTick(at, h)
  BY <1>t DEF Tick, Goto, Exit, RunState, at
<1>1. OutcomeInv'
  BY <1>t, <1>a, <1>f, <1>d, <1>r DEF Inv, OutcomeInv, OutcomesKnown, OutcomeFlagsTrue, SuccessIsReal
<1>2. FallbackInv'
  BY <1>t, <1>a, <1>f, <1>r DEF Inv, FallbackInv, CancelOrder, FallbackStays
<1>3. OpenIsArmed'
  BY <1>t, <1>a, <1>f, <1>r DEF Inv, RefineInv, OpenIsArmed
<1>4. NotYetRestored'
  BY <1>t, <1>a, <1>f, <1>d, <1>r DEF Inv, RefineInv, NotYetRestored, RunInFlight, PressInFlight
<1>5. TriedFirst'
  <2>0. TriedFirst
    BY DEF Inv, RefineInv
  <2>1. fs'.dispatched /\ fs'.epoch = fs'.rollback => fs'.rollback \in tried'
    BY <1>a, <1>f, <2>0 DEF TriedFirst
  <2>2. ASSUME fs'.rolledBack, fs'.epoch = fs'.rollback
        PROVE  fs'.rollback \in tried' \/ run'[fs'.rollback].pc = "claim"
    <3>1. CASE fs.rolledBack
      BY <1>t, <1>a, <1>f, <1>r, <2>0, <2>2, <3>1 DEF TriedFirst
    <3>2. CASE ~fs.rolledBack
      <4>1. e = fs.rollback
        BY <1>b, <1>t, <2>2, <3>2, StaleTickNotDue DEF at
      <4> QED
        BY <1>d, <1>f, <1>r, <2>2, <3>2, <4>1
    <3> QED
      BY <3>1, <3>2
  <2>3. ASSUME NEW x \in Epoch, run'[x].pc = "claimReboot", fs'.epoch = x
        PROVE  x \in tried' /\ ~fs'.pending
    <3>1. CASE x # e
      BY <1>a, <1>f, <1>r, <2>0, <2>3, <3>1 DEF TriedFirst
    <3>2. CASE x = e
      <4>1. fs.pending /\ fs.rolledBack /\ ~fs'.pending
        BY <1>d, <1>r, <2>3, <3>2
      <4>2. fs.epoch = fs.rollback /\ fs.rollback = e
        BY <1>f, <2>3, <3>2, <4>1 DEF Inv, RefineInv, OpenIsArmed
      <4> QED
        BY <1>a, <1>t, <2>0, <3>2, <4>1, <4>2 DEF TriedFirst
    <3> QED
      BY <3>1, <3>2
  <2> QED
    BY <2>1, <2>2, <2>3 DEF TriedFirst
<1>6. StampOrder'
  <2>0. StampOrder /\ ArmedAt' = ArmedAt /\ now' = now
    BY <1>a, <1>f DEF Inv, RefineInv, ArmedAt
  <2>1. /\ ArmedAt \in Int /\ now \in Nat /\ fs.badSince \in Int /\ ProbeMax \in Nat
    BY Types, FailSafeAssumption DEF Inv
  <2>2. fs'.bad => fs'.badSince >= ArmedAt - ProbeMax
    <3>1. ArmedAt <= now /\ now <= at + ProbeMax /\ (fs.bad => fs.badSince >= ArmedAt - ProbeMax)
      BY <1>t, <2>0 DEF StampOrder, at
    <3> HIDE DEF ArmedAt
    <3> QED
      BY <1>b, <1>t, <2>1, <3>1
  <2>3. \A x \in Epoch : run'[x].pc = "probing" => x # e
    BY <1>d, <1>r
  <2> HIDE DEF ArmedAt
  <2> QED
    BY <1>f, <1>r, <2>0, <2>2, <2>3 DEF StampOrder
<1>7. Running' = Running
  BY <1>a, <1>d, <1>r, <1>t, RunningFrame
<1>8. [W!Close]_(W!vars)
  <2>1. CASE fs.pending /\ ~fs'.pending
    BY <1>a, <1>f, <1>7, <2>1 DEF W!Close
  <2>2. CASE ~(fs.pending /\ ~fs'.pending)
    <3>1. fs'.pending = fs.pending
      BY <1>f, <2>2 DEF Inv, TypeOK, Manager
    <3> QED
      BY <1>a, <1>f, <1>7, <3>1 DEF W!vars
  <2> QED
    BY <2>1, <2>2
<1> QED
  BY <1>1, <1>2, <1>3, <1>4, <1>5, <1>6, <1>8 DEF StepOK, RefineInv, W!Next

-----------------------------------------------------------------------------
(* The presses                                                              *)

\* A press that only looks: it is made, names its window, is refused, finds its
\* window replaced, failed, or returns.
LEMMA QuietPressSteps ==
  ASSUME Inv, TypeOK', NEW c \in Callers,
         \/ Press(c) \/ NameWindow(c) \/ RollbackRefused(c)
         \/ TailReplaced(c) \/ TailFails(c) \/ PressReturns(c)
  PROVE  StepOK
<1> USE DEF history
<1>t. press \in [Callers -> PressState] /\ press[c] \in PressState
  BY DEF Inv, TypeOK
<1>z. (fs.pending => fs.rollback # 0) /\ (press[c].pc # "idle" => fs.rollback # 0)
  BY DEF Inv, RefineInv, OpenIsArmed
<1>u. UNCHANGED <<now, fs, cancelled, run, history>>
  BY DEF Press, NameWindow, RollbackRefused, TailReplaced, TailFails, PressReturns
<1>o. \A x \in Callers : x # c => press'[x] = press[x]
  BY <1>t DEF Press, NameWindow, RollbackRefused, TailReplaced, TailFails, PressReturns, Answer
<1>1. CASE Press(c)
  <2>1. press'[c].pc = "pressed" /\ press[c].pc = "idle" /\ fs.pending
    BY <1>t, <1>1 DEF Press, NoPress
  <2> QED
    BY <1>z, <1>u, <1>o, <2>1, QuietPress
<1>2. CASE NameWindow(c)
  <2>1. press'[c].pc = "pressed" /\ press[c].pc = "pressed"
    BY <1>t, <1>2 DEF NameWindow, PressState
  <2> QED
    BY <1>z, <1>u, <1>o, <2>1, QuietPress
<1>3. CASE RollbackRefused(c)
  <2>1. press'[c].pc = "answered" /\ press'[c].res # "ok" /\ press[c].pc = "pressed"
    BY <1>t, <1>3 DEF RollbackRefused, Answer, NoPress
  <2> QED
    BY <1>z, <1>u, <1>o, <2>1, QuietPress
<1>4. CASE TailReplaced(c)
  <2>1. /\ press'[c].pc = "answered" /\ press'[c].res = press[c].res
        /\ press'[c].win = press[c].win /\ press[c].pc = "tail"
    BY <1>t, <1>4 DEF TailReplaced, Answer, NoPress
  <2>2. press[c].res = "ok" => press[c].win \in restored
    BY <2>1 DEF Inv, OutcomeInv, OutcomesKnown
  <2> QED
    BY <1>z, <1>u, <1>o, <2>1, <2>2, QuietPress
<1>5. CASE TailFails(c)
  <2>1. /\ press'[c].pc = "failTail" /\ press'[c].res = press[c].res /\ press[c].res # "ok"
        /\ press'[c].win = press[c].win /\ press'[c].ep = press[c].ep /\ press[c].pc = "tail"
    BY <1>t, <1>5 DEF TailFails, PressState
  <2> QED
    BY <1>z, <1>u, <1>o, <2>1, QuietPress
<1>6. CASE PressReturns(c)
  <2>1. press'[c].pc = "idle" /\ press[c].pc = "answered"
    BY <1>t, <1>6 DEF PressReturns, NoPress
  <2> QED
    BY <1>z, <1>u, <1>o, <2>1, QuietPress
<1> QED
  BY <1>1, <1>2, <1>3, <1>4, <1>5, <1>6

\* A press finishes what is restored already: it finalizes an earlier success,
\* or its own closure's.
LEMMA FinishStep ==
  ASSUME Inv, TypeOK', NEW c \in Callers, RollbackFinalized(c) \/ TailSucceeds(c)
  PROVE  StepOK
<1> USE DEF history
<1>t. /\ press \in [Callers -> PressState] /\ fs.rollback \in Nat /\ fs.epoch \in Nat
      /\ fs.rollback <= fs.epoch /\ fs.rollback \in Epoch /\ fs.cancel \in Epoch
      /\ Epoch \subseteq Nat /\ press[c].ep \in Nat /\ press[c].win \in Nat
  BY Types DEF Inv, TypeOK, FlightInv, WindowOrder
<1>f. /\ fs'.rollback = fs.rollback /\ fs'.epoch = fs.epoch /\ fs'.cancel = fs.cancel
      /\ fs'.pending = FALSE /\ fs'.phase = "rolled_back" /\ fs'.bad = fs.bad
      /\ fs'.badSince = fs.badSince /\ fs'.deadline = fs.deadline
      /\ fs.dispatched => fs'.dispatched
      /\ fs'.rollbackDone = TRUE /\ fs'.rollbackFailed = FALSE
  <2>1. CASE RollbackFinalized(c)
    BY <2>1 DEF RollbackFinalized, PriorSucceeded, Inv, TypeOK, Manager
  <2>2. CASE TailSucceeds(c)
    BY <2>2 DEF TailSucceeds, Inv, TypeOK, Manager
  <2> QED
    BY <2>1, <2>2
<1>p. /\ \A x \in Callers : x # c => press'[x] = press[x]
      /\ press'[c].pc = "answered" /\ press'[c].res = "ok" /\ press[c].pc \in {"pressed", "tail"}
      /\ cancelled' = cancelled \cup ({fs.cancel} \ {0})
      /\ UNCHANGED <<now, run, history>>
  <2>1. CASE RollbackFinalized(c)
    BY <1>t, <2>1 DEF RollbackFinalized, NoPress, CancelRun
  <2>2. CASE TailSucceeds(c)
    BY <1>t, <2>2 DEF TailSucceeds, Answer, NoPress, CancelRun
  <2> QED
    BY <2>1, <2>2
<1>k. /\ fs.rollback \in restored /\ press'[c].win = fs.rollback /\ fs.rollback # 0
      /\ fs.epoch = fs.rollback => fs.dispatched
      /\ fs.rollbackDone \/ fs.dispatched
  <2>1. fs.rollback # 0
    BY <1>p DEF Inv, RefineInv, OpenIsArmed
  <2>2. CASE RollbackFinalized(c)
    <3>1. fs.rollbackDone /\ press'[c].win = fs.rollback
      BY <1>t, <2>2 DEF RollbackFinalized, PriorSucceeded, NoPress
    <3> QED
      BY <2>1, <3>1 DEF Inv, OutcomeInv, OutcomeFlagsTrue, RefineInv, NotYetRestored
  <2>3. CASE TailSucceeds(c)
    <3>1. /\ press[c].pc = "tail" /\ fs.epoch = press[c].ep /\ press[c].res = "ok"
          /\ press'[c].win = press[c].win
      BY <1>t, <2>3 DEF TailSucceeds, Replaced, Answer, NoPress
    <3>2. press[c].win = fs.rollback
      BY <1>t, <3>1 DEF Inv, FlightInv, WindowOrder, PressInFlight
    <3>3. fs.dispatched
      BY <3>1, <3>2 DEF Inv, FlightInv, FlightFlags, PressInFlight
    <3> QED
      BY <2>1, <3>1, <3>2, <3>3 DEF Inv, OutcomeInv, OutcomesKnown
  <2> QED
    BY <2>2, <2>3
<1>n. fs.epoch = fs.rollback => fs.rollback \in tried
  BY <1>k DEF Inv, RefineInv, TriedFirst
<1>1. OutcomeInv'
  BY <1>f, <1>p, <1>k DEF Inv, OutcomeInv, OutcomesKnown, OutcomeFlagsTrue, SuccessIsReal
<1>2. CancelOrder'
  BY <1>t, <1>f, <1>p DEF Inv, FallbackInv, CancelOrder, TypeOK
<1>3. FallbackStays'
  BY <1>f, <1>p, <1>k DEF FallbackStays
<1>4. OpenIsArmed'
  BY <1>f, <1>p, <1>k DEF Inv, RefineInv, OpenIsArmed
<1>5. NotYetRestored'
  <2>1. NotYetRestored
    BY DEF Inv, RefineInv
  <2>2. fs'.rollbackDone /\ fs'.epoch = fs'.rollback => fs'.dispatched
    BY <1>f, <1>k
  <2>3. ~(~fs'.dispatched /\ ~fs'.rollbackDone) /\ ~fs'.rollbackFailed
    BY <1>f
  <2> QED
    BY <1>f, <1>p, <2>1, <2>2, <2>3 DEF NotYetRestored, RunInFlight, PressInFlight
<1>6. TriedFirst'
  BY <1>f, <1>p, <1>n DEF Inv, RefineInv, TriedFirst
<1>7. StampOrder'
  BY <1>f, <1>p DEF Inv, RefineInv, StampOrder, ArmedAt
<1>8. Running' = Running
  BY <1>p, RunningFrame
<1>9. [W!Close]_(W!vars)
  <2>1. CASE fs.pending
    BY <1>f, <1>p, <1>8, <2>1 DEF W!Close
  <2>2. CASE ~fs.pending
    <3>1. fs.pending = FALSE
      BY <2>2 DEF Inv, TypeOK, Manager
    <3> QED
      BY <1>f, <1>p, <1>8, <3>1 DEF W!vars
  <2> QED
    BY <2>1, <2>2
<1> QED
  BY <1>1, <1>2, <1>3, <1>4, <1>5, <1>6, <1>7, <1>9 DEF StepOK, FallbackInv, RefineInv, W!Next

\* A press claims the rollback of the window armed last.
LEMMA PressClaimStep ==
  ASSUME Inv, TypeOK', NEW c \in Callers, RollbackClaimed(c)
  PROVE  StepOK
<1>t. /\ press \in [Callers -> PressState] /\ fs.rollback \in Nat /\ fs.rollback \in Epoch
      /\ press[c].pc = "pressed" /\ fs.rollback # 0
  BY Types DEF Inv, TypeOK, RollbackClaimed, RefineInv, OpenIsArmed
<1>f. /\ fs'.rollback = fs.rollback /\ fs'.epoch = fs.epoch /\ fs'.cancel = fs.cancel
      /\ fs'.pending = fs.pending /\ fs'.phase = fs.phase /\ fs'.bad = fs.bad
      /\ fs'.badSince = fs.badSince /\ fs'.deadline = fs.deadline /\ fs'.rolledBack = fs.rolledBack
      /\ fs'.dispatched = TRUE /\ fs'.rollbackDone = FALSE /\ fs'.rollbackFailed = FALSE
  BY DEF RollbackClaimed, Claimed, Inv, TypeOK, Manager
<1>p. /\ \A x \in Callers : x # c => press'[x] = press[x]
      /\ press'[c].pc = "closure" /\ press'[c].win = fs.rollback
      /\ tried' = tried \cup {fs.rollback}
      /\ UNCHANGED <<now, cancelled, run, restored, failed, rebooted>>
  BY <1>t DEF RollbackClaimed, NoPress
<1>n. fs.rollback \notin restored
  BY DEF RollbackClaimed, InFlight, PriorSucceeded, Inv, RefineInv, NotYetRestored
<1>q. ~RunInFlight(fs.rollback)
      /\ \A x \in Callers : PressInFlight(x) => press[x].win # fs.rollback
  BY DEF RollbackClaimed, InFlight, PriorSucceeded, Inv, FlightInv, FlightFlags
<1>1. OutcomeInv'
  BY <1>f, <1>p DEF Inv, OutcomeInv, OutcomesKnown, OutcomeFlagsTrue, SuccessIsReal
<1>2. FallbackInv'
  BY <1>f, <1>p DEF Inv, FallbackInv, CancelOrder, FallbackStays
<1>3. OpenIsArmed'
  BY <1>t, <1>f, <1>p DEF Inv, RefineInv, OpenIsArmed
<1>4. NotYetRestored'
  BY <1>f, <1>p, <1>n DEF Inv, RefineInv, NotYetRestored
<1>5. TriedFirst'
  BY <1>f, <1>p DEF Inv, RefineInv, TriedFirst
<1>6. StampOrder'
  BY <1>f, <1>p DEF Inv, RefineInv, StampOrder, ArmedAt
<1>7. fs.rollback \notin Running /\ Running' = Running \cup {fs.rollback}
  BY <1>t, <1>p, <1>q DEF Running, RunInFlight, PressInFlight
<1>8. W!Start
  BY <1>t, <1>f, <1>p, <1>n, <1>7 DEF W!Start
<1> QED
  BY <1>1, <1>2, <1>3, <1>4, <1>5, <1>6, <1>8 DEF StepOK, RefineInv, W!Next

\* The press's closure ended.
LEMMA PressClosureStep ==
  ASSUME Inv, TypeOK', NEW c \in Callers, NEW res \in Outcome, PressClosure(c, res)
  PROVE  StepOK
<1> DEFINE w == press[c].win
<1>t. /\ press \in [Callers -> PressState] /\ fs.rollback \in Nat /\ fs.epoch \in Nat
      /\ fs.rollback <= fs.epoch /\ press[c].pc = "closure" /\ w \in Epoch /\ w \in Nat
      /\ w <= fs.rollback /\ Epoch \subseteq Nat /\ fs.rollback # 0 /\ fs.rollback \in Epoch
      /\ \A x \in Callers : press[x].win \in Epoch
  BY Types DEF Inv, TypeOK, FlightInv, WindowOrder, PressClosure, PressInFlight, RefineInv, OpenIsArmed
<1>p. /\ \A x \in Callers : x # c => press'[x] = press[x]
      /\ press'[c].pc = "tail" /\ press'[c].res = res /\ press'[c].win = w
      /\ press'[c].ep = press[c].ep
      /\ restored' = IF res = "ok" THEN restored \cup {w} ELSE restored
      /\ failed' = IF res = "ok" THEN failed ELSE failed \cup {w}
      /\ UNCHANGED <<now, fs, cancelled, run, tried, rebooted>>
  BY <1>t DEF PressClosure, NoteOutcome, PressState
<1>e. res = "ok" => fs.epoch = w /\ fs.rollback = w
  BY <1>t DEF PressClosure, ClosureOutcome
<1>q. /\ ~RunInFlight(w)
      /\ \A x \in Callers : x # c /\ PressInFlight(x) => press[x].win # w
  BY <1>t DEF Inv, FlightInv, OneFlight, PressInFlight
<1>d. w = fs.rollback => fs.dispatched /\ ~fs.rollbackFailed
  BY <1>t DEF Inv, FlightInv, FlightFlags, PressInFlight
<1> HIDE DEF w
<1>1. OutcomeInv'
  BY <1>p DEF Inv, OutcomeInv, OutcomesKnown, OutcomeFlagsTrue, SuccessIsReal
<1>2. FallbackInv'
  BY <1>p DEF Inv, FallbackInv, CancelOrder, FallbackStays
<1>3. OpenIsArmed'
  BY <1>t, <1>p DEF Inv, RefineInv, OpenIsArmed
<1>4. NotYetRestored'
  <2>1. NotYetRestored
    BY DEF Inv, RefineInv
  <2>2. CASE res = "ok"
    BY <1>t, <1>p, <1>e, <1>q, <1>d, <2>1, <2>2 DEF NotYetRestored, RunInFlight, PressInFlight
  <2>3. CASE res # "ok"
    BY <1>t, <1>p, <2>1, <2>3 DEF NotYetRestored, RunInFlight, PressInFlight, w
  <2> QED
    BY <2>2, <2>3
<1>5. TriedFirst'
  BY <1>p DEF Inv, RefineInv, TriedFirst
<1>6. StampOrder'
  BY <1>p DEF Inv, RefineInv, StampOrder, ArmedAt
<1>7. w \in Running /\ Running' = Running \ {w}
  <2>1. w \in Running
    BY <1>t DEF Running, w
  <2>2. run[w].pc # "closure" /\ \A x \in Callers : x # c /\ press[x].pc = "closure" => press[x].win # w
    BY <1>q DEF RunInFlight, PressInFlight
  <2> QED
    BY <1>t, <1>p, <2>1, <2>2 DEF Running, w
<1>8. W!Finish(w, res = "ok")
  BY <1>p, <1>e, <1>7 DEF W!Finish
<1> QED
  BY <1>1, <1>2, <1>3, <1>4, <1>5, <1>6, <1>7, <1>8 DEF StepOK, RefineInv, W!Next

\* The press marks that its closure failed, if its window is still current.
LEMMA PressMarkStep ==
  ASSUME Inv, TypeOK', NEW c \in Callers, PressMarksFailed(c)
  PROVE  StepOK
<1> USE DEF history
<1>t. /\ press \in [Callers -> PressState] /\ fs.rollback \in Nat /\ fs.epoch \in Nat
      /\ fs.rollback <= fs.epoch /\ press[c].pc = "failTail" /\ fs.rollback # 0
      /\ press[c].ep \in Nat /\ press[c].win \in Nat
  BY Types DEF Inv, TypeOK, FlightInv, WindowOrder, PressMarksFailed, RefineInv, OpenIsArmed
<1>p. /\ \A x \in Callers : x # c => press'[x] = press[x]
      /\ press'[c].pc = "answered" /\ press'[c].res = "fail"
      /\ UNCHANGED <<now, cancelled, run, history>>
  BY <1>t DEF PressMarksFailed, Answer, NoPress
<1>1. CASE fs.epoch # press[c].ep
  <2>1. fs' = fs
    BY <1>1 DEF PressMarksFailed, MarkFailed
  <2> QED
    BY <1>t, <1>p, <2>1, QuietPress
<1>2. CASE fs.epoch = press[c].ep
  <2>f. /\ fs'.rollback = fs.rollback /\ fs'.epoch = fs.epoch /\ fs'.cancel = fs.cancel
        /\ fs'.pending = fs.pending /\ fs'.bad = fs.bad
        /\ fs'.badSince = fs.badSince /\ fs'.deadline = fs.deadline
        /\ fs'.rolledBack = fs.rolledBack /\ fs'.dispatched = fs.dispatched
        /\ fs'.rollbackDone = fs.rollbackDone /\ fs'.rollbackFailed = TRUE
    BY <1>2 DEF PressMarksFailed, MarkFailed, Inv, TypeOK, Manager
  <2>w. press[c].win = fs.rollback
    BY <1>t, <1>2 DEF Inv, FlightInv, WindowOrder, PressInFlight
  <2>k. press[c].win \in failed /\ press[c].res # "ok"
    BY <1>t DEF Inv, OutcomeInv, OutcomesKnown
  <2>d. fs.dispatched
    BY <1>t, <2>w DEF Inv, FlightInv, FlightFlags, PressInFlight
  <2>n. fs.rollback \notin restored
    BY <1>t, <1>2, <2>w, <2>k DEF Inv, RefineInv, NotYetRestored, PressInFlight
  <2>1. OutcomeInv'
    BY <1>p, <2>f, <2>w, <2>k DEF Inv, OutcomeInv, OutcomesKnown, OutcomeFlagsTrue, SuccessIsReal
  <2>2. FallbackInv'
    BY <1>p, <2>f DEF Inv, FallbackInv, CancelOrder, FallbackStays
  <2>3. OpenIsArmed'
    BY <1>t, <1>p, <2>f DEF Inv, RefineInv, OpenIsArmed
  <2>4. NotYetRestored'
    BY <1>p, <2>f, <2>d, <2>n DEF Inv, RefineInv, NotYetRestored, PressInFlight
  <2>5. TriedFirst'
    BY <1>p, <2>f DEF Inv, RefineInv, TriedFirst
  <2>6. StampOrder'
    BY <1>p, <2>f DEF Inv, RefineInv, StampOrder, ArmedAt
  <2>7. UNCHANGED W!vars
    BY <1>t, <1>p, <2>f, RunningFrame DEF W!vars
  <2> QED
    BY <2>1, <2>2, <2>3, <2>4, <2>5, <2>6, <2>7 DEF StepOK, RefineInv
<1> QED
  BY <1>1, <1>2

-----------------------------------------------------------------------------
(* The theorems                                                             *)

\* A step that touches neither the manager nor its goroutines and presses: the
\* clock, a Keep's record, or none.  Time passes only while no probe overruns.
LEMMA IdleStep ==
  ASSUME Inv, TypeOK', KeepRecords \/ Advance \/ UNCHANGED vars
  PROVE  StepOK
<1> USE DEF history
<1>u. UNCHANGED <<fs, cancelled, run, press, history>>
  BY DEF KeepRecords, Advance, vars
<1>1. OutcomeInv' /\ FallbackInv' /\ OpenIsArmed' /\ NotYetRestored' /\ TriedFirst'
  BY <1>u DEF Inv, OutcomeInv, OutcomesKnown, OutcomeFlagsTrue, SuccessIsReal, FallbackInv,
     CancelOrder, FallbackStays, RefineInv, OpenIsArmed, NotYetRestored, RunInFlight,
     PressInFlight, TriedFirst
<1>2. StampOrder'
  <2>1. CASE Advance
    <3>1. /\ now' = now + 1 /\ \A e \in Epoch : run[e].pc = "probing" => now < run[e].at + ProbeMax
          /\ ArmedAt' = ArmedAt
      BY <1>u, <2>1 DEF Advance, ArmedAt
    <3>2. /\ now \in Nat /\ ArmedAt \in Int /\ ProbeMax \in Nat /\ StampOrder
          /\ \A e \in Epoch : run[e].at \in Nat
      BY Types, FailSafeAssumption DEF Inv, RefineInv
    <3> HIDE DEF ArmedAt
    <3> QED
      BY <1>u, <3>1, <3>2 DEF StampOrder
  <2>2. CASE KeepRecords \/ UNCHANGED vars
    <3>1. now' = now
      BY <2>2 DEF KeepRecords, vars
    <3> QED
      BY <1>u, <3>1 DEF Inv, RefineInv, StampOrder, ArmedAt
  <2> QED
    BY <2>1, <2>2
<1>3. UNCHANGED W!vars
  BY <1>u DEF W!vars, Running
<1> QED
  BY <1>1, <1>2, <1>3 DEF StepOK, RefineInv

\* Every step of the manager preserves the invariants and is a step of Window.
LEMMA EveryStep ==
  ASSUME Inv, TypeOK', [FSNext]_vars
  PROVE  StepOK
<1>1. CASE WindowChange
  <2>1. ASSUME NEW allow \in AutoReboot, ArmHealth(allow), UNCHANGED <<now, press, history>>
        PROVE  StepOK
    BY <2>1, ArmStep
  <2> QED
    BY <1>1, <2>1, CloseStep, MarkRolledBackStep DEF WindowChange
<1>2. ASSUME NEW e \in Epoch, RunStep(e) PROVE StepOK
  BY <1>2, QuietRunSteps, TickStep, ClaimStep, RunMarksStep, ClaimRebootStep DEF RunStep
<1>3. ASSUME NEW c \in Callers, PressStep(c) PROVE StepOK
  BY <1>3, QuietPressSteps, FinishStep, PressClaimStep, PressMarkStep
     DEF PressStep, RollbackNow, PressTail
<1>4. CASE Closures
  BY <1>4, RunClosureStep, PressClosureStep DEF Closures
<1> QED
  BY <1>1, <1>2, <1>3, <1>4, IdleStep DEF FSNext

\* Before the first window nothing runs, is pressed, or was restored.
LEMMA InitOK ==
  ASSUME FSInit
  PROVE  OutcomeInv /\ FallbackInv /\ RefineInv /\ W!Init
<1>1. /\ fs.rollback = 0 /\ fs.epoch = 0 /\ fs.cancel = 0 /\ fs.pending = FALSE /\ fs.phase = "idle"
      /\ fs.bad = FALSE /\ fs.rolledBack = FALSE /\ fs.dispatched = FALSE
      /\ fs.rollbackDone = FALSE /\ fs.rollbackFailed = FALSE
      /\ cancelled = {} /\ restored = {} /\ failed = {} /\ tried = {} /\ rebooted = {}
  BY DEF FSInit, New
<1>2. /\ 0 \in Epoch /\ \A e \in Epoch : run[e].pc = "none"
      /\ \A c \in Callers : press[c].pc = "idle"
  BY FailSafeAssumption DEF FSInit, NoRun, NoPress, Epoch
<1>3. OutcomeInv
  BY <1>1, <1>2 DEF OutcomeInv, OutcomesKnown, OutcomeFlagsTrue, SuccessIsReal
<1>4. FallbackInv
  BY <1>1, <1>2 DEF FallbackInv, CancelOrder, FallbackStays
<1>5. RefineInv
  BY <1>1, <1>2 DEF RefineInv, OpenIsArmed, NotYetRestored, RunInFlight, PressInFlight, TriedFirst,
     StampOrder
<1>6. W!Init
  BY <1>1, <1>2 DEF W!Init, Running
<1> QED
  BY <1>3, <1>4, <1>5, <1>6

\* The invariants behind the outcomes, the fallback and the refinement hold of
\* every behaviour of the manager (failsafe.go's critical sections).
THEOREM ManagerInvariant == FSSpec => [](OutcomeInv /\ FallbackInv /\ RefineInv)
<1>1. FSInit => OutcomeInv /\ FallbackInv /\ RefineInv
  BY InitOK
<1>2. /\ TypeOK /\ TypeOK' /\ FlightInv /\ OutcomeInv /\ FallbackInv /\ RefineInv /\ [FSNext]_vars
      => (OutcomeInv /\ FallbackInv /\ RefineInv)'
  BY EveryStep DEF StepOK, Inv
<1> QED
  BY <1>1, <1>2, TypeCorrect, FlightSafe, PTL DEF FSSpec

\* Roll back answers "rolled back" only for a window that was restored
\* (RollbackNow's return values), for any number of presses and windows.
THEOREM AnswersAreReal == FSSpec => []SuccessIsReal
BY ManagerInvariant, PTL DEF OutcomeInv

\* A late outcome of a replaced window never lands on its successor
\* (markRollbackDone / markRollbackFailed and their epoch gate).
THEOREM OutcomesAreTheWindows == FSSpec => []OutcomeFlagsTrue
BY ManagerInvariant, PTL DEF OutcomeInv

\* The current window's automatic rollback and reboot are called off only once
\* its configuration is back (m.cancel in rollbackNow, Confirm, Disarm).
THEOREM FallbackIsKept == FSSpec => []FallbackStays
BY ManagerInvariant, PTL DEF FallbackInv

\* The manager implements module Window: each critical section of failsafe.go
\* is one of its steps or leaves it alone, so a restored window is never rolled
\* back again, and only the last one armed is restored, or reboots after a try.
THEOREM ManagerImplementsWindow == FSSpec => ImplementsWindow
<1>1. FSInit => W!Init
  BY InitOK
<1>2. /\ TypeOK /\ TypeOK' /\ FlightInv /\ OutcomeInv /\ FallbackInv /\ RefineInv /\ [FSNext]_vars
      => [W!Next]_(W!vars)
  BY EveryStep DEF StepOK, Inv
<1> QED
  BY <1>1, <1>2, TypeCorrect, FlightSafe, ManagerInvariant, PTL DEF FSSpec, ImplementsWindow, W!Spec

=============================================================================
