------------------------------ MODULE FailSafe ------------------------------
(***************************************************************************)
(* The fail-safe window manager (internal/failsafe/failsafe.go).           *)
(*                                                                         *)
(* After a Test (unsaved) Apply the Manager arms a window: a run()         *)
(* goroutine probes connectivity and escalates - degrade, roll back,       *)
(* reboot.  Keep (Confirm), the routing switch (Disarm), a newer Apply     *)
(* (ArmHealth) and a failed Apply that restored the committed              *)
(* configuration (MarkRolledBack) replace the window, and Roll back        *)
(* (RollbackNow / RollbackNowAt) may be pressed at any time from several   *)
(* places.  Every critical section of Manager.mu is one action; what       *)
(* happens between two of them - a probe, the rollback closure, a press    *)
(* parked on the server's lock - is a program counter.                     *)
(*                                                                         *)
(* The rollback closure itself belongs to the server.  Here it is its      *)
(* contract (failsafe.go:96-103, server/failsafe.go:76-145): it restores   *)
(* the committed configuration, fails, or finds its window superseded.     *)
(* ApplyLifecycle replaces the contract by the closure's code.             *)
(***************************************************************************)
EXTENDS Integers, FiniteSets

CONSTANTS
  Callers,        \* presses of Roll back that may be under way at once
  MaxEpoch,       \* bound: windows armed, confirmed, disarmed or marked
  MaxNow,         \* bound: the clock
  Grace,          \* Durations, in clock units
  Interval,
  RollbackAfter,
  RebootAfter,
  KeepWindow,
  ProbeMax,       \* timeout of one connectivity probe
  Answers,        \* what the probes may answer
  AutoReboot,     \* settings of auto-reboot an Apply may run under
  Punctual        \* TRUE: timers fire when due; FALSE: arbitrarily late

ASSUME FailSafeAssumption ==
  /\ MaxEpoch \in Nat
  /\ MaxNow \in Nat
  /\ Grace \in Nat
  /\ Interval \in Nat \ {0}
  /\ RollbackAfter \in Nat \ {0}
  /\ RebootAfter \in Nat
  /\ KeepWindow \in Nat
  /\ ProbeMax \in Nat
  /\ ProbeMax < RollbackAfter
  /\ Answers \subseteq {"unknown", "up", "down"}
  /\ AutoReboot \subseteq BOOLEAN
  /\ Punctual \in BOOLEAN

VARIABLES
  now,        \* the wall clock
  fs,         \* the Manager: every field guarded by Manager.mu
  cancelled,  \* the windows whose run() context was cancelled
  kept,       \* the window whose Test a Keep recorded before its Confirm
  run,        \* run[e]: the goroutine of the window armed as epoch e
  press,      \* press[c]: one RollbackNow / RollbackNowAt under way
  restored,   \* history: windows whose closure restored the configuration
  failed,     \* history: windows one of whose closure runs reported an error
  tried,      \* history: windows whose rollback was claimed
  rebooted    \* history: windows whose reboot() ran

vars == <<now, fs, cancelled, kept, run, press, restored, failed, tried,
          rebooted>>
history == <<restored, failed, tried, rebooted>>

-----------------------------------------------------------------------------
(* Types                                                                   *)

Epoch == 0 .. MaxEpoch            \* 0: no window was armed yet, or a nil func
Health == {"unknown", "up", "down"}
Phase == {"idle", "armed", "degraded", "unverified", "rolled_back",
          "rollback_failed", "committed", "live_unsaved", "reboot"}
Outcome == {"none", "ok", "fail", "superseded"}

Manager ==
  [pending : BOOLEAN, phase : Phase, deadline : Int, bad : BOOLEAN,
   badSince : Int, rolledBack : BOOLEAN, dispatched : BOOLEAN,
   rollbackDone : BOOLEAN, rollbackFailed : BOOLEAN, epoch : Epoch,
   lastAt : Int, rollback : Epoch, allowReboot : BOOLEAN, cancel : Epoch]

RunState ==
  [pc : {"none", "grace", "loop", "probing", "claim", "closure", "mark",
         "claimReboot", "wait", "exit"},
   at : Nat, res : Outcome]

PressState ==
  [pc : {"idle", "pressed", "closure", "tail", "failTail", "answered"},
   only : BOOLEAN, named : Epoch, ep : Epoch, win : Epoch,
   res : Outcome \cup {"busy"}]

NoRun == [pc |-> "none", at |-> 0, res |-> "none"]
NoPress == [pc |-> "idle", only |-> FALSE, named |-> 0, ep |-> 0, win |-> 0,
            res |-> "none"]

\* New: a Manager with no window.
New == [pending |-> FALSE, phase |-> "idle", deadline |-> 0, bad |-> FALSE,
        badSince |-> 0, rolledBack |-> FALSE, dispatched |-> FALSE,
        rollbackDone |-> FALSE, rollbackFailed |-> FALSE, epoch |-> 0,
        lastAt |-> 0, rollback |-> 0, allowReboot |-> FALSE, cancel |-> 0]

FSInit ==
  /\ now = 1
  /\ fs = New
  /\ cancelled = {}
  /\ kept = 0
  /\ run = [e \in Epoch |-> NoRun]
  /\ press = [c \in Callers |-> NoPress]
  /\ restored = {} /\ failed = {} /\ tried = {} /\ rebooted = {}

-----------------------------------------------------------------------------
(* Opening and closing the window                                          *)

\* if m.cancel != nil { m.cancel() }: the goroutine's context is done.
CancelRun == cancelled' = cancelled \cup ({fs.cancel} \ {0})

\* The manager part of ArmHealth: a fresh window under the next epoch.
Armed(allow) ==
  [fs EXCEPT !.epoch = @ + 1, !.cancel = fs.epoch + 1, !.rollback = fs.epoch + 1,
             !.pending = TRUE, !.phase = "armed", !.rolledBack = FALSE,
             !.dispatched = FALSE, !.rollbackDone = FALSE,
             !.rollbackFailed = FALSE, !.bad = FALSE, !.badSince = 0,
             !.deadline = now + KeepWindow, !.allowReboot = allow]

ArmHealth(allow) ==
  /\ fs.epoch < MaxEpoch
  /\ CancelRun
  /\ fs' = Armed(allow)
  /\ run' = [run EXCEPT ![fs.epoch + 1] = [pc |-> "grace", at |-> now, res |-> "none"]]

\* Keep, or a saving Apply: the live configuration is committed.
Confirm ==
  /\ fs.epoch < MaxEpoch
  /\ fs' = [fs EXCEPT !.pending = FALSE, !.phase = "committed", !.epoch = @ + 1]
  /\ CancelRun

\* The routing switch took the router out of the window's hands.
Disarm ==
  /\ fs.epoch < MaxEpoch
  /\ fs' = [fs EXCEPT !.pending = FALSE, !.phase = "idle", !.epoch = @ + 1,
                      !.cancel = 0]
  /\ CancelRun

\* A failed Apply restored the committed configuration in the window's stead.
MarkRolledBack ==
  IF fs.pending \/ fs.phase = "rollback_failed"
  THEN /\ fs.epoch < MaxEpoch
       /\ fs' = [fs EXCEPT !.pending = FALSE, !.phase = "rolled_back",
                           !.rolledBack = TRUE, !.rollbackDone = TRUE,
                           !.rollbackFailed = FALSE, !.epoch = @ + 1]
       /\ CancelRun
       /\ restored' = restored \cup {fs.rollback}
  ELSE UNCHANGED <<fs, cancelled, restored>>
-----------------------------------------------------------------------------
(* One observation: tickHealth(t, h)                                       *)

SmallerOf(a, b) == IF a < b THEN a ELSE b

\* Neither a rollback nor its failure is the window's verdict yet.
NoVerdict == ~fs.rolledBack /\ ~fs.rollbackFailed

\* Mutant: a phase no reader of Status knows.
MutTickUnknown(t) ==
  [fs EXCEPT !.lastAt = t, !.phase = IF NoVerdict THEN "unmeasured" ELSE @]

\* Nothing was measured: hold, and keep the blind time out of the bad timer.
TickUnknown(t) ==
  [fs EXCEPT
    !.badSince = IF fs.bad /\ fs.lastAt > 0 /\ t > fs.lastAt
                 THEN SmallerOf(@ + (t - fs.lastAt), t) ELSE @,
    !.lastAt = t,
    !.phase = IF NoVerdict THEN "unverified" ELSE @]

\* Measured reachable: the window closes after a rollback, or at its deadline.
TickUp(t) ==
  LET closes == fs.rolledBack \/ t >= fs.deadline
  IN [fs EXCEPT
       !.lastAt = t, !.bad = FALSE, !.badSince = 0,
       !.pending = ~closes,
       !.phase = IF ~NoVerdict THEN @
                 ELSE IF closes THEN "live_unsaved" ELSE "armed"]

BadSince(t) == IF fs.bad THEN fs.badSince ELSE t

\* Mutant: with auto-reboot off the last resort no longer closes the window.
MutRebootOff(t) == fs.allowReboot /\ fs.rolledBack /\ t - BadSince(t) >= RebootAfter

RebootDue(t) == fs.rolledBack /\ t - BadSince(t) >= RebootAfter
RollbackDue(t) == ~fs.rolledBack /\ t - BadSince(t) >= RollbackAfter

\* Measured unreachable: degrade, then roll back, then reboot - in this order.
TickDown(t) ==
  [fs EXCEPT
    !.lastAt = t, !.bad = TRUE, !.badSince = BadSince(t),
    !.pending = ~RebootDue(t),
    !.rolledBack = @ \/ RollbackDue(t),
    !.phase = IF RebootDue(t) THEN IF fs.allowReboot THEN "reboot" ELSE @
              ELSE IF RollbackDue(t) THEN "rolled_back"
              ELSE IF NoVerdict THEN "degraded" ELSE @]

TickHealth(t, h) ==
  IF ~fs.pending THEN fs
  ELSE CASE h = "unknown" -> TickUnknown(t)
         [] h = "up"      -> TickUp(t)
         [] h = "down"    -> TickDown(t)

\* Where run() goes on what tickHealth returned: ActRollback, ActReboot,
\* ActDone or ActNone.
AfterTick(t, h) ==
  CASE fs.pending /\ h = "down" /\ RebootDue(t)   -> "claimReboot"
    [] fs.pending /\ h = "down" /\ RollbackDue(t) -> "claim"
    [] fs.pending /\ h = "up" /\ (fs.rolledBack \/ t >= fs.deadline) -> "exit"
    [] OTHER -> "wait"

-----------------------------------------------------------------------------
(* run(): the goroutine of window e                                        *)

Goto(e, pc) == run' = [run EXCEPT ![e].pc = pc]
Exit(e) == run' = [run EXCEPT ![e] = [pc |-> "exit", at |-> 0, res |-> "none"]]

GraceEnds(e) ==
  /\ run[e].pc = "grace" /\ now >= run[e].at + Grace
  /\ run' = [run EXCEPT ![e] = [@ EXCEPT !.pc = "loop", !.at = 0]]
  /\ UNCHANGED <<now, fs, cancelled, kept, press, history>>

\* <-ctx.Done() in either select.
SeesCancel(e) ==
  /\ run[e].pc \in {"grace", "wait"} /\ e \in cancelled
  /\ Exit(e)
  /\ UNCHANGED <<now, fs, cancelled, kept, press, history>>

\* The head of the loop: context, pending, the time stamp, then the probe.
BeginCheck(e) ==
  /\ run[e].pc = "loop"
  /\ IF e \in cancelled \/ ~fs.pending
     THEN Exit(e)
     ELSE run' = [run EXCEPT ![e] = [@ EXCEPT !.pc = "probing", !.at = now]]
  /\ UNCHANGED <<now, fs, cancelled, kept, press, history>>

\* The probe answered; tickHealth takes the stamp read before it started and
\* does not ask whose window it drives.
Tick(e, h) ==
  /\ run[e].pc = "probing"
  /\ fs' = TickHealth(run[e].at, h)
  /\ IF AfterTick(run[e].at, h) = "exit"
     THEN Exit(e) ELSE Goto(e, AfterTick(run[e].at, h))
  /\ UNCHANGED <<now, cancelled, kept, press, history>>

\* claimRollback: only the current window, and only once.
ClaimRollback(e) ==
  /\ run[e].pc = "claim"
  /\ IF fs.epoch = e /\ ~fs.dispatched
     THEN /\ fs' = [fs EXCEPT !.dispatched = TRUE]
          /\ tried' = tried \cup {e}
          /\ Goto(e, "closure")
     ELSE Goto(e, "wait") /\ UNCHANGED <<fs, tried>>
  /\ UNCHANGED <<now, cancelled, kept, press, restored, failed, rebooted>>

\* The server's closure for window w, under the server's lock: it skips when
\* its window was replaced or its Test is already recorded as committed.
ClosureOutcome(w) ==
  IF fs.epoch # w \/ kept = w THEN {"superseded"} ELSE {"ok", "fail"}

NoteOutcome(w, res) ==
  /\ restored' = IF res = "ok" THEN restored \cup {w} ELSE restored
  /\ failed' = IF res = "ok" THEN failed ELSE failed \cup {w}

RunClosure(e, res) ==
  /\ run[e].pc = "closure"
  /\ res \in ClosureOutcome(e)
  /\ run' = [run EXCEPT ![e] = [@ EXCEPT !.pc = "mark", !.res = res]]
  /\ NoteOutcome(e, res)
  /\ UNCHANGED <<now, fs, cancelled, kept, press, tried, rebooted>>

\* markRollbackDone / markRollbackFailed, both gated by the window's epoch.
MarkDone(ep) == IF fs.epoch = ep THEN [fs EXCEPT !.rollbackDone = TRUE] ELSE fs

\* Mutant: a replaced window's outcome lands on its successor.
MutMarkFailed(ep) == [fs EXCEPT !.phase = "rollback_failed", !.rollbackFailed = TRUE]

MarkFailed(ep) ==
  IF fs.epoch = ep
  THEN [fs EXCEPT !.phase = "rollback_failed", !.rollbackFailed = TRUE] ELSE fs

RunMarks(e) ==
  /\ run[e].pc = "mark"
  /\ fs' = IF run[e].res = "ok" THEN MarkDone(e) ELSE MarkFailed(e)
  /\ run' = [run EXCEPT ![e] = [@ EXCEPT !.pc = "wait", !.res = "none"]]
  /\ UNCHANGED <<now, cancelled, kept, press, history>>

\* claimReboot, and reboot() when this window may still reboot.
ClaimReboot(e) ==
  /\ run[e].pc = "claimReboot"
  /\ rebooted' = IF fs.epoch = e /\ fs.allowReboot THEN rebooted \cup {e} ELSE rebooted
  /\ Exit(e)
  /\ UNCHANGED <<now, fs, cancelled, kept, press, restored, failed, tried>>

\* The ticker keeps its own phase and buffers one tick: the next check starts
\* at most one Interval after this one, sooner when this one was late.
NextTick(e) ==
  /\ run[e].pc = "wait" /\ now > run[e].at
  /\ run' = [run EXCEPT ![e] = [@ EXCEPT !.pc = "loop", !.at = 0]]
  /\ UNCHANGED <<now, fs, cancelled, kept, press, history>>

-----------------------------------------------------------------------------
(* RollbackNow / RollbackNowAt: a press of Roll back                       *)

\* The handler saw Status().Pending.
Press(c) ==
  /\ press[c].pc = "idle" /\ fs.pending
  /\ press' = [press EXCEPT ![c] = [NoPress EXCEPT !.pc = "pressed"]]
  /\ UNCHANGED <<now, fs, cancelled, kept, run, history>>

\* A press that names its window reads the epoch under the server's lock, so
\* maybe much later than it saw the window pending.
NameWindow(c) ==
  /\ press[c].pc = "pressed" /\ ~press[c].only
  /\ press' = [press EXCEPT ![c] = [@ EXCEPT !.only = TRUE, !.named = fs.epoch]]
  /\ UNCHANGED <<now, fs, cancelled, kept, run, history>>

Answer(c, res) ==
  press' = [press EXCEPT ![c] = [NoPress EXCEPT !.pc = "answered", !.res = res,
                                                !.win = press[c].win]]

Superseded(c) == press[c].only /\ fs.epoch # press[c].named
InFlight == fs.dispatched /\ ~fs.rollbackDone /\ ~fs.rollbackFailed

\* Mutant: the tick's optimistic mark is taken for a finished rollback.
MutPriorOptimistic == fs.rolledBack /\ ~fs.rollbackFailed

\* Mutant: any earlier outcome, a failed one too, counts as a success.
MutPriorAnswered == fs.rollbackDone \/ fs.rollbackFailed

\* Mutant: a rollback that succeeded is not remembered.
MutPriorForgotten == FALSE

PriorSucceeded == fs.rollbackDone /\ ~fs.rollbackFailed

\* Mutant: a retry keeps the failed flag, so a press during it is let through.
MutClaimed == [fs EXCEPT !.dispatched = TRUE, !.rollbackDone = FALSE]

\* This call's closure is now the one in flight.
Claimed == [fs EXCEPT !.dispatched = TRUE, !.rollbackDone = FALSE,
                      !.rollbackFailed = FALSE]

\* The first critical section of rollbackNow refuses: the named window was
\* replaced, or a rollback is in flight.
RollbackRefused(c) ==
  /\ press[c].pc = "pressed" /\ (Superseded(c) \/ InFlight)
  /\ Answer(c, IF Superseded(c) THEN "superseded" ELSE "busy")
  /\ UNCHANGED <<now, fs, cancelled, kept, run, history>>

\* ... or an earlier dispatch restored the configuration: finalize.
RollbackFinalized(c) ==
  /\ press[c].pc = "pressed" /\ ~Superseded(c) /\ ~InFlight /\ PriorSucceeded
  /\ fs' = [fs EXCEPT !.dispatched = TRUE, !.pending = FALSE,
                      !.phase = "rolled_back", !.rolledBack = TRUE]
  /\ CancelRun
  /\ press' = [press EXCEPT ![c] = [NoPress EXCEPT !.pc = "answered",
                                        !.res = "ok", !.win = fs.rollback]]
  /\ UNCHANGED <<now, kept, run, history>>

\* ... or claims the rollback of the window that is current now.
RollbackClaimed(c) ==
  /\ press[c].pc = "pressed" /\ ~Superseded(c) /\ ~InFlight /\ ~PriorSucceeded
  /\ fs' = Claimed
  /\ press' = [press EXCEPT ![c] = [NoPress EXCEPT !.pc = "closure",
                                        !.ep = fs.epoch, !.win = fs.rollback]]
  /\ tried' = tried \cup {fs.rollback}
  /\ UNCHANGED <<now, cancelled, kept, run, restored, failed, rebooted>>

RollbackNow(c) == RollbackRefused(c) \/ RollbackFinalized(c) \/ RollbackClaimed(c)

PressClosure(c, res) ==
  /\ press[c].pc = "closure"
  /\ res \in ClosureOutcome(press[c].win)
  /\ press' = [press EXCEPT ![c] = [@ EXCEPT !.pc = "tail", !.res = res]]
  /\ NoteOutcome(press[c].win, res)
  /\ UNCHANGED <<now, fs, cancelled, kept, run, tried, rebooted>>

\* The second critical section: once the window was replaced, touch nothing.
Replaced(c) == fs.epoch # press[c].ep \/ press[c].res = "superseded"

TailReplaced(c) ==
  /\ press[c].pc = "tail" /\ Replaced(c)
  /\ Answer(c, press[c].res)
  /\ UNCHANGED <<now, fs, cancelled, kept, run, history>>

TailFails(c) ==
  /\ press[c].pc = "tail" /\ ~Replaced(c) /\ press[c].res = "fail"
  /\ press' = [press EXCEPT ![c] = [@ EXCEPT !.pc = "failTail"]]
  /\ UNCHANGED <<now, fs, cancelled, kept, run, history>>

TailSucceeds(c) ==
  /\ press[c].pc = "tail" /\ ~Replaced(c) /\ press[c].res = "ok"
  /\ fs' = [fs EXCEPT !.pending = FALSE, !.phase = "rolled_back",
                      !.rolledBack = TRUE, !.rollbackDone = TRUE,
                      !.rollbackFailed = FALSE]
  /\ CancelRun
  /\ Answer(c, "ok")
  /\ UNCHANGED <<now, kept, run, history>>

PressTail(c) == TailReplaced(c) \/ TailFails(c) \/ TailSucceeds(c)

\* markRollbackFailed, in a critical section of its own.
PressMarksFailed(c) ==
  /\ press[c].pc = "failTail"
  /\ fs' = MarkFailed(press[c].ep)
  /\ Answer(c, "fail")
  /\ UNCHANGED <<now, cancelled, kept, run, history>>

PressReturns(c) ==
  /\ press[c].pc = "answered"
  /\ press' = [press EXCEPT ![c] = NoPress]
  /\ UNCHANGED <<now, fs, cancelled, kept, run, history>>

-----------------------------------------------------------------------------
(* The clock                                                               *)

\* Goroutines with something to do now, and timers that are due.
Due(e) ==
  \/ run[e].pc \in {"loop", "claim", "closure", "mark", "claimReboot"}
  \/ run[e].pc = "grace" /\ now >= run[e].at + Grace
  \/ run[e].pc = "wait" /\ now >= run[e].at + Interval

\* The probe's own timeout bounds how long it is out; everything else may be
\* late, unless Punctual.
Advance ==
  /\ now < MaxNow
  /\ \A e \in Epoch : run[e].pc = "probing" => now < run[e].at + ProbeMax
  /\ Punctual => \A e \in Epoch : ~Due(e)
  /\ now' = now + 1
  /\ UNCHANGED <<fs, cancelled, kept, run, press, history>>

-----------------------------------------------------------------------------
(* The specification                                                       *)

\* A Test Apply arms; no window is armed so late that the clock's bound would
\* cut it off (Lifetime).
Lifetime == Grace + KeepWindow + RollbackAfter + RebootAfter + 2 * Interval + 2 * ProbeMax

WindowChange ==
  \/ /\ \E allow \in AutoReboot : ArmHealth(allow)
     /\ Punctual => now + Lifetime <= MaxNow
     /\ UNCHANGED <<now, kept, press, history>>
  \/ (Confirm \/ Disarm) /\ UNCHANGED <<now, kept, run, press, history>>
  \/ MarkRolledBack /\ UNCHANGED <<now, kept, run, press, failed, tried, rebooted>>

\* applyConfirm's recordCommit, under the server's lock; Confirm comes later.
KeepRecords ==
  /\ fs.pending /\ kept' = fs.epoch
  /\ UNCHANGED <<now, fs, cancelled, run, press, history>>

RunStep(e) ==
  \/ GraceEnds(e) \/ SeesCancel(e) \/ BeginCheck(e) \/ NextTick(e)
  \/ \E h \in Answers : Tick(e, h)
  \/ ClaimRollback(e) \/ RunMarks(e) \/ ClaimReboot(e)

PressStep(c) ==
  \/ Press(c) \/ NameWindow(c) \/ RollbackNow(c)
  \/ PressTail(c) \/ PressMarksFailed(c) \/ PressReturns(c)

Closures ==
  \E res \in Outcome : \/ \E e \in Epoch : RunClosure(e, res)
                       \/ \E c \in Callers : PressClosure(c, res)

FSNext ==
  \/ WindowChange \/ KeepRecords \/ Closures \/ Advance
  \/ \E e \in Epoch : RunStep(e)
  \/ \E c \in Callers : PressStep(c)

FSSpec == FSInit /\ [][FSNext]_vars

-----------------------------------------------------------------------------
(* Properties                                                              *)

\* Every field keeps its type; epochs stay within their bound.
TypeOK ==
  /\ now \in Nat
  /\ fs \in Manager
  /\ cancelled \subseteq Epoch
  /\ kept \in Epoch
  /\ run \in [Epoch -> RunState]
  /\ press \in [Callers -> PressState]
  /\ restored \subseteq Epoch /\ failed \subseteq Epoch
  /\ tried \subseteq Epoch /\ rebooted \subseteq Epoch

\* Closure runs of window w under way, in its goroutine and in the presses.
ClosuresInFlight(w) ==
  {<<"run", e>> : e \in {x \in {w} : run[x].pc = "closure"}}
  \cup {<<"press", c>> : c \in {x \in Callers : press[x].pc = "closure" /\ press[x].win = w}}

\* However claimRollback, a press and a second press interleave, one window's
\* rollback closure is never run twice at the same time.
OneRollbackInFlight ==
  \A w \in Epoch : \A x, y \in ClosuresInFlight(w) : x = y

\* Roll back answers "rolled back" only for a window whose configuration was
\* restored: not for a rollback in flight, superseded or failed.
SuccessIsReal ==
  \A c \in Callers :
    press[c].pc = "answered" /\ press[c].res = "ok" => press[c].win \in restored

\* The outcome flags describe the window they are kept for: a late outcome of
\* a replaced window's closure never lands on the window that replaced it.
OutcomeFlagsTrue ==
  /\ fs.rollbackDone => fs.rollback \in restored
  /\ fs.rollbackFailed => fs.rollback \in failed

\* While a window is current its goroutine - the automatic rollback and the
\* reboot fallback - is stopped only once its configuration was restored.
FallbackStays ==
  fs.epoch = fs.rollback /\ fs.epoch \in cancelled => fs.epoch \in restored

\* A window whose probes measure something does not stay open for ever.
WindowCloses ==
  \A e \in Epoch : fs.pending /\ fs.epoch = e ~> ~fs.pending \/ fs.epoch # e

-----------------------------------------------------------------------------
(* The abstract windows                                                    *)

\* A closure runs, in a goroutine or in a press, from its claim to its outcome.
Running == {e \in Epoch : run[e].pc = "closure"}
           \cup {press[c].win : c \in {x \in Callers : press[x].pc = "closure"}}

W == INSTANCE Window WITH armed <- fs.rollback, open <- fs.pending, running <- Running

\* With all its flags, epochs, late ticks and presses the manager does no more
\* than the windows of module Window: every critical section is one of their
\* steps or none, so a restored window is never rolled back again and only
\* the last one armed is restored or reboots the router.
ImplementsWindow == W!Spec

-----------------------------------------------------------------------------
(* The inductive invariant behind OneRollbackInFlight                      *)

\* A rollback counts as in flight from its claim to the mark of its outcome.
RunInFlight(e) == run[e].pc \in {"closure", "mark"}
PressInFlight(c) == press[c].pc \in {"closure", "tail", "failTail"}

\* Only armed windows have a goroutine, and a press in flight whose window is
\* no longer the last armed one claimed it before that one was armed.
WindowOrder ==
  /\ fs.rollback <= fs.epoch
  /\ \A e \in Epoch : run[e].pc # "none" => e <= fs.rollback
  /\ \A c \in Callers :
       PressInFlight(c) =>
         /\ press[c].win <= fs.rollback /\ press[c].ep <= fs.epoch
         /\ press[c].win # fs.rollback => press[c].ep < fs.rollback

\* A rollback in flight for the last armed window shows in the flags that
\* claimRollback and rollbackNow read.
FlightFlags ==
  /\ fs.rollbackFailed => fs.dispatched
  /\ RunInFlight(fs.rollback) => fs.dispatched /\ ~fs.rollbackFailed
  /\ \A c \in Callers :
       PressInFlight(c) /\ press[c].win = fs.rollback
         => fs.dispatched /\ ~fs.rollbackFailed

\* At most one rollback of a window is in flight.
OneFlight ==
  /\ \A c \in Callers : PressInFlight(c) => ~RunInFlight(press[c].win)
  /\ \A c, d \in Callers :
       PressInFlight(c) /\ PressInFlight(d) /\ press[c].win = press[d].win => c = d

\* What every critical section preserves, whatever their order: a rollback in
\* flight excludes the next claim until its own outcome is marked.
FlightInv == WindowOrder /\ FlightFlags /\ OneFlight

-----------------------------------------------------------------------------
(* ... and behind the outcomes                                             *)

\* A closure's outcome that is not marked yet is the one it had.
OutcomesKnown ==
  /\ \A e \in Epoch :
       run[e].pc = "mark" => e \in (IF run[e].res = "ok" THEN restored ELSE failed)
  /\ \A c \in Callers :
       press[c].pc = "tail" => press[c].win \in (IF press[c].res = "ok" THEN restored ELSE failed)
  /\ \A c \in Callers :
       press[c].pc = "failTail" => press[c].win \in failed /\ press[c].res # "ok"

OutcomeInv == OutcomesKnown /\ OutcomeFlagsTrue /\ SuccessIsReal

\* Every goroutine but the last armed window's is cancelled, and that one can
\* still be.
CancelOrder ==
  /\ fs.cancel \in {0, fs.rollback}
  /\ fs.cancel = 0 /\ fs.rollback # 0 => fs.rollback \in cancelled
  /\ \A e \in cancelled : e <= fs.rollback
  /\ \A e \in Epoch : e # fs.rollback /\ run[e].pc # "none" => e \in cancelled

FallbackInv == CancelOrder /\ FallbackStays

-----------------------------------------------------------------------------
(* ... and behind the refinement of Window                                 *)

\* The open window is the last one armed; before the first nothing is pressed.
OpenIsArmed ==
  /\ fs.pending => fs.epoch = fs.rollback /\ fs.rollback # 0
  /\ fs.rollback = 0 => /\ fs.phase # "rollback_failed"
                        /\ \A c \in Callers : press[c].pc = "idle"
  /\ run[0].pc = "none"

\* A rollback that may still be claimed, or runs, or failed, did not restore.
NotYetRestored ==
  /\ \A e \in restored : e <= fs.rollback
  /\ ~fs.dispatched /\ ~fs.rollbackDone => fs.rollback \notin restored
  /\ fs.rollbackFailed => fs.rollback \notin restored
  /\ fs.rollbackDone /\ fs.epoch = fs.rollback => fs.dispatched
  /\ RunInFlight(fs.rollback) /\ fs.epoch = fs.rollback
       => \/ run[fs.rollback].pc = "mark" /\ run[fs.rollback].res = "ok"
          \/ fs.rollback \notin restored
  /\ \A c \in Callers :
       PressInFlight(c) /\ press[c].win = fs.rollback /\ press[c].ep = fs.epoch
         => \/ press[c].pc # "closure" /\ press[c].res = "ok"
            \/ fs.rollback \notin restored

\* The goroutine that finds the rollback due claims it next, so the reboot
\* comes after an attempt.
TriedFirst ==
  /\ fs.dispatched /\ fs.epoch = fs.rollback => fs.rollback \in tried
  /\ fs.rolledBack /\ fs.epoch = fs.rollback
       => fs.rollback \in tried \/ run[fs.rollback].pc = "claim"
  /\ \A e \in Epoch : run[e].pc = "claimReboot" /\ fs.epoch = e => e \in tried /\ ~fs.pending

\* When the last window was armed.
ArmedAt == fs.deadline - KeepWindow

\* A probe that is out was begun at most ProbeMax ago, and one of a replaced
\* window not after its successor was armed: two stamps of replaced windows are
\* too close together to make the successor's rollback due.
StampOrder ==
  /\ fs.rollback # 0 => ArmedAt <= now
  /\ fs.bad => fs.badSince >= ArmedAt - ProbeMax
  /\ \A e \in Epoch :
       run[e].pc = "probing" => /\ run[e].at <= now /\ now <= run[e].at + ProbeMax
                                /\ e # fs.rollback => run[e].at <= ArmedAt

RefineInv == OpenIsArmed /\ NotYetRestored /\ TriedFirst /\ StampOrder

=============================================================================
