--------------------------- MODULE ApplyLifecycle ---------------------------
(***************************************************************************)
(* The life of an applied configuration (internal/server: apply.go,        *)
(* applystate.go, applyboot.go, routingswitch.go, failsafe.go).            *)
(*                                                                         *)
(* The apply record says what the router runs: the committed revision, the *)
(* live (Test) one, a mark when the rollback of live failed part way, and  *)
(* the routing switch.  Apply, Keep, Roll back, the window's rollback, the *)
(* routing switch, boot and the reconcile loop move the router and the     *)
(* record together, each holding applyMu: one action each.  A daemon that  *)
(* dies inside one of them leaves the router where the execution was and   *)
(* the record as it was last written.                                      *)
(*                                                                         *)
(* The fail-safe manager is its promise here: a window has at most one     *)
(* rollback in flight (FailSafeProofs!RollbackExclusion), and a rollback   *)
(* waiting for applyMu may find its window replaced.                       *)
(***************************************************************************)
EXTENDS RouterExec

CONSTANTS
  MaxCrash,       \* bound: crashes of the daemon
  Restarts,       \* how it comes back: "daemon", "reboot"
  ApplyRecovers,  \* TRUE: the rollback after a failed Apply succeeds
  CoreRestart     \* TRUE: the core_restart setting holds a schedule

ASSUME LifecycleAssumption ==
  /\ MaxCrash \in Nat
  /\ Restarts \subseteq {"daemon", "reboot"}
  /\ ApplyRecovers \in BOOLEAN
  /\ CoreRestart \in BOOLEAN

VARIABLES
  router,     \* what the router really carries
  rec,        \* the apply record, in memory and on disk
  win,        \* the fail-safe window
  flight,     \* rollback closures dispatched and not yet run
  keeping,    \* a Keep that recorded its commit and has not confirmed yet
  boot,       \* the boot goroutine
  seq,        \* the number of Applies so far
  crashes,
  mishaps,    \* history: crashes inside an Apply or a rollback, reboots
  scheduled   \* a scheduled core restart, checked and not yet executed

vars == <<router, rec, win, flight, keeping, boot, seq, crashes, mishaps, scheduled>>

-----------------------------------------------------------------------------
(* The apply record                                                        *)

NoMark == [id |-> 0, plane |-> "tested"]
NotOff == [on |-> FALSE, leftover |-> Nil, err |-> FALSE]

Record ==
  [committed : Revision, live : Revision, sameBoot : BOOLEAN,
   mark : [id : Id, plane : KernelPlane], inflight : BOOLEAN,
   off : [on : BOOLEAN, leftover : Revision, err : BOOLEAN]]

EmptyRecord == [committed |-> Nil, live |-> Nil, sameBoot |-> FALSE,
                mark |-> NoMark, inflight |-> FALSE, off |-> NotOff]

AppliedBaseline == IF rec.live # Nil THEN rec.live ELSE rec.committed

\* rollbackOutstandingLocked: the mark counts only while it names live.
RollbackOutstanding == rec.live # Nil /\ rec.mark.id = rec.live.id

\* What the supervision loops put back when the router drops it.
SupervisedBaseline ==
  IF ~RollbackOutstanding THEN AppliedBaseline
  ELSE CASE rec.mark.plane = "tested"    -> rec.live
         [] rec.mark.plane = "committed" -> rec.committed
         [] rec.mark.plane = "unknown"   -> Nil

\* recordApplied: a saving Apply becomes committed, a Test becomes live.
RecordApplied(save, rev) ==
  [rec EXCEPT !.committed = IF save THEN rev ELSE @,
              !.live = IF save THEN Nil ELSE rev,
              !.sameBoot = IF save THEN @ ELSE TRUE,
              !.mark = NoMark, !.inflight = FALSE]

RecordCommit == [rec EXCEPT !.committed = rec.live, !.live = Nil, !.mark = NoMark]
RecordRollback == [rec EXCEPT !.live = Nil, !.mark = NoMark, !.inflight = FALSE]

\* Mutant: a retry that never reached the kernel step overwrites the mark.
MutRollbackFailed(live, plane) ==
  IF rec.live.id # live.id THEN rec
  ELSE [rec EXCEPT !.mark = [id |-> live.id, plane |-> plane]]

\* noteRollbackFailed: only while live is still the record's; a retry that
\* stopped before its kernel step keeps what the earlier attempt left.
NoteRollbackFailed(live, plane) ==
  IF rec.live.id # live.id THEN rec
  ELSE [rec EXCEPT !.mark = [id |-> live.id,
          plane |-> IF RollbackOutstanding /\ plane = "tested"
                    THEN rec.mark.plane ELSE plane]]

\* noteLiveRollbackOutstanding: rev becomes live with its rollback outstanding.
NoteLiveOutstanding(record, rev, plane) ==
  [record EXCEPT !.live = rev, !.sameBoot = TRUE,
                 !.mark = [id |-> rev.id, plane |-> plane]]

-----------------------------------------------------------------------------
(* The window                                                              *)

NoWindow == [rev |-> Nil, current |-> FALSE, phase |-> "none"]
WindowPhase == {"none", "open", "over", "committed", "idle", "rolled_back"}

\* Every change of epoch makes the closures already dispatched stale.
Stale == {[f EXCEPT !.current = FALSE] : f \in flight}

Arm(rev) ==
  /\ win' = [rev |-> rev, current |-> TRUE, phase |-> "open"]
  /\ flight' = Stale

Close(phase) ==
  /\ win' = [win EXCEPT !.current = FALSE, !.phase = phase]
  /\ flight' = Stale

-----------------------------------------------------------------------------
(* Apply                                                                   *)

Up == boot.pc # "down"
Next1(sh) == [id |-> seq + 1, native |-> sh.native, core |-> sh.core, kernel |-> sh.kernel]

\* The native objects an Apply retires: its baseline's, and while a rollback
\* is outstanding the committed ones its capture still finds.
Removals ==
  (IF AppliedBaseline.native THEN {AppliedBaseline.id} ELSE {})
  \cup (IF RollbackOutstanding /\ rec.committed.native
        THEN {rec.committed.id} \cap router.native ELSE {})

Forward(m) == Execute(router, m, Retired(AppliedBaseline), Removals)

\* Where a failed Apply goes back to.
RollbackTarget == IF RollbackOutstanding THEN rec.committed ELSE AppliedBaseline

\* Mutant: only this Apply is undone, not the Test whose rollback was outstanding.
MutRecovery(m, o) == RollbackTo(o.r, RollbackTarget, m)

\* The rollback of a failed Apply: while another rollback was outstanding the
\* Test is undone as well, by a second run over the committed configuration.
Recovery(m, o) ==
  LET first == RollbackTo(o.r, RollbackTarget, m)
      second(b) == {[b2 EXCEPT !.plane = IF @ = "tested" THEN "committed" ELSE @] :
                      b2 \in RollbackTo(b.r, RollbackTarget, rec.live)}
  IN IF ~RollbackOutstanding THEN first
     ELSE {b \in first : b.err # "none"}
          \cup UNION {second(b) : b \in {x \in first : x.err = "none"}}

\* The record when the rollback of a failed Apply failed too.
MarkAfter(m, o, b) ==
  LET early == b.plane = "tested"
  IN IF RollbackOutstanding
     THEN NoteRollbackFailed(rec.live, IF early /\ o.plane # "tested" THEN "unknown" ELSE b.plane)
     ELSE IF rec.live # Nil
     THEN NoteRollbackFailed(rec.live,
            IF b.plane = "committed" \/ (early /\ o.plane = "tested") THEN "tested" ELSE "unknown")
     ELSE NoteLiveOutstanding(rec, m,
            IF ~early THEN b.plane
            ELSE CASE o.plane = "tested"    -> "committed"
                   [] o.plane = "unknown"   -> "unknown"
                   [] o.plane = "committed" -> "tested")

\* The configuration runs: saved, or unsaved behind a window.  Saving the
\* router-native state may fail; the Apply is then a Test.
ApplySucceeds(m, o, save) ==
  /\ o.ok
  /\ router' = IF save /\ m.native THEN Saved(o.r) ELSE o.r
  /\ rec' = RecordApplied(save, m)
  /\ IF save THEN Close("committed") ELSE Arm(m)

\* Nothing was touched: recordFailure only clears the in-flight marker.
ApplyRefused(o) ==
  /\ ~o.ok /\ ~o.mutated
  /\ UNCHANGED <<router, rec, win, flight, seq>>

\* The previous configuration is back.  When that also finished an outstanding
\* rollback, MarkRolledBack closes a window still pending, or one that closed
\* on its failed rollback.
ApplyRolledBack(b) ==
  /\ b.err = "none"
  /\ router' = b.r
  /\ IF RollbackOutstanding
     THEN /\ rec' = RecordRollback
          /\ \/ win.phase \in {"open", "over"} /\ Close("rolled_back")
             \/ win.phase # "open" /\ UNCHANGED <<win, flight>>
     ELSE UNCHANGED <<rec, win, flight>>

ApplyNotRolledBack(m, o, b) ==
  /\ b.err # "none" /\ ~ApplyRecovers
  /\ router' = b.r
  /\ rec' = MarkAfter(m, o, b)
  /\ UNCHANGED <<win, flight>>

Apply(sh) ==
  LET m == Next1(sh)
  IN /\ Up /\ ~rec.off.on /\ seq < MaxRev
     /\ \E o \in Forward(m) :
          \/ seq' = seq + 1 /\ \E save \in BOOLEAN : ApplySucceeds(m, o, save)
          \/ ApplyRefused(o)
          \/ /\ ~o.ok /\ o.mutated
             /\ seq' = seq + 1
             /\ \E b \in Recovery(m, o) : ApplyRolledBack(b) \/ ApplyNotRolledBack(m, o, b)
     /\ UNCHANGED <<keeping, boot, crashes, mishaps, scheduled>>

-----------------------------------------------------------------------------
(* Keep and Roll back                                                      *)

\* Mutant: a half-undone Test may be kept.
MutMayKeep == rec.live # Nil

MayKeep == rec.live # Nil /\ ~RollbackOutstanding

\* Keep, under applyMu: the Test becomes the committed configuration.
Keep ==
  /\ Up /\ ~keeping /\ MayKeep
  /\ router' = IF rec.live.native THEN Saved(router) ELSE router
  /\ rec' = RecordCommit
  /\ keeping' = TRUE
  /\ UNCHANGED <<win, flight, boot, seq, crashes, mishaps, scheduled>>

\* failsafe.Confirm, after applyMu was released.
KeepConfirms ==
  /\ keeping
  /\ keeping' = FALSE
  /\ Close("committed")
  /\ UNCHANGED <<router, rec, boot, seq, crashes, mishaps, scheduled>>

\* rollbackTo(committed, live) and what the record says of it.
RollBackLive(live) ==
  \E b \in RollbackTo(router, rec.committed, live) :
    /\ router' = b.r
    /\ rec' = IF b.err = "none" THEN RecordRollback ELSE NoteRollbackFailed(live, b.plane)

\* Roll back when no window was pending as it was pressed; by the time it has
\* the lock a Test may have armed one.
RollBack ==
  /\ Up /\ rec.live # Nil
  /\ RollBackLive(rec.live)
  /\ UNCHANGED <<win, flight, keeping, boot, seq, crashes, mishaps, scheduled>>

\* The window's rollback is claimed: by run() or by Roll back.
Dispatch ==
  /\ Up /\ win.current
  /\ ~\E f \in flight : f.current
  /\ flight' = flight \cup {[rev |-> win.rev, current |-> TRUE]}
  /\ UNCHANGED <<router, rec, win, keeping, boot, seq, crashes, mishaps, scheduled>>

\* Mutant: the closure trusts its window, not the record.
MutClosureRuns(f) == f.current /\ ~rec.off.on

\* The closure got applyMu and its window, the routing switch and the record
\* all still ask for it.
ClosureRuns(f) == f.current /\ ~rec.off.on /\ rec.live.id = f.rev.id

Closure(f) ==
  /\ flight' = flight \ {f}
  /\ IF ClosureRuns(f)
     THEN /\ RollBackLive(f.rev)
          /\ win' = IF rec'.live = Nil THEN [win EXCEPT !.phase = "rolled_back"] ELSE win
     ELSE UNCHANGED <<router, rec, win>>
  /\ UNCHANGED <<keeping, boot, seq, crashes, mishaps, scheduled>>

\* The window's time is over: the Test runs on, unsaved and unguarded.
WindowOver ==
  /\ win.phase = "open"
  /\ win' = [win EXCEPT !.phase = "over"]
  /\ UNCHANGED <<router, rec, flight, keeping, boot, seq, crashes, mishaps, scheduled>>

-----------------------------------------------------------------------------
(* The routing switch                                                      *)

Revs(leftover) == {leftover, rec.committed} \ {Nil}

\* publishRoutingOff(off, dropLive): the Test moves into the off record.
SwitchedOff(err) ==
  [rec EXCEPT !.off = [on |-> TRUE, err |-> err,
                       leftover |-> IF rec.live # Nil THEN rec.live ELSE rec.off.leftover],
              !.live = Nil, !.mark = NoMark, !.inflight = FALSE]

Disarm == Close("idle")

RoutingOff ==
  /\ Up
  /\ Disarm
  /\ \E o \in RemoveRouting(router, Revs(SwitchedOff(FALSE).off.leftover)) :
       router' = o.r /\ rec' = SwitchedOff(~o.ok)
  /\ boot' = [boot EXCEPT !.moved = TRUE]
  /\ UNCHANGED <<keeping, seq, crashes, mishaps, scheduled>>

\* What switching on executes: a rollback over the leftover Test, or converge.
SwitchingOn ==
  IF rec.off.leftover # Nil THEN RollbackTo(router, rec.committed, rec.off.leftover)
  ELSE IF rec.committed # Nil
  THEN {[r |-> o.r, plane |-> o.plane, err |-> IF o.ok THEN "none" ELSE "failed"] :
          o \in Converge(router, rec.committed)}
  ELSE {[r |-> router, plane |-> "committed", err |-> "none"]}

SwitchesOn(o) ==
  /\ o.err # "failed"
  /\ \/ router' = o.r
     \/ rec.committed.native /\ router' = Saved(o.r)
  /\ rec' = IF o.err = "none" THEN [rec EXCEPT !.off = NotOff]
            ELSE NoteLiveOutstanding([rec EXCEPT !.off = NotOff], rec.off.leftover, "committed")

\* What the attempt restored is removed again, and routing stays off.
StaysOff(o) ==
  /\ o.err = "failed"
  /\ \E x \in RemoveRouting(o.r, Revs(rec.off.leftover)) : router' = x.r
  /\ rec' = [rec EXCEPT !.off.err = TRUE]

RoutingOn ==
  /\ Up /\ rec.off.on
  /\ \E o \in SwitchingOn : SwitchesOn(o) \/ StaysOff(o)
  /\ UNCHANGED <<win, flight, keeping, boot, seq, crashes, mishaps, scheduled>>

-----------------------------------------------------------------------------
(* Supervision                                                             *)

\* The firmware rebuilt its firewall and the plane is gone.
FirmwareDrop ==
  /\ router.plane > 0 /\ ~router.lost
  /\ router' = [router EXCEPT !.lost = TRUE]
  /\ UNCHANGED <<rec, win, flight, keeping, boot, seq, crashes, mishaps, scheduled>>

\* One tick of the reconcile loop that finds its plane missing.
Reconcile ==
  LET base == SupervisedBaseline
  IN /\ boot.pc = "idle" /\ ~rec.off.on
     /\ base.kernel /\ (router.lost \/ router.plane # base.id)
     /\ router' \in KernelDamage(router, base, {})
                    \cup {Installed(router, base, {}, {}, {"kernel"})}
     /\ UNCHANGED <<rec, win, flight, keeping, boot, seq, crashes, mishaps, scheduled>>

\* An engine was installed: re-execute what was applied.
ConvergeAfterInstall ==
  /\ Up /\ ~rec.off.on /\ AppliedBaseline.core /\ ~RollbackOutstanding
  /\ \E o \in Converge(router, AppliedBaseline) : router' = o.r
  /\ UNCHANGED <<rec, win, flight, keeping, boot, seq, crashes, mishaps, scheduled>>

CoreDies ==
  /\ router.core # 0
  /\ router' = [router EXCEPT !.core = 0]
  /\ UNCHANGED <<rec, win, flight, keeping, boot, seq, crashes, mishaps, scheduled>>

\* The watchdog starts the config on disk, if the core is still desired.
Watchdog ==
  /\ router.core = 0 /\ router.desired
  /\ router' = [router EXCEPT !.core = router.file]
  /\ UNCHANGED <<rec, win, flight, keeping, boot, seq, crashes, mishaps, scheduled>>

\* coreRestartLoop found a restart due, a core running and routing on; it does
\* not hold applyMu yet.
CoreRestartDue ==
  /\ CoreRestart /\ Up /\ ~scheduled
  /\ router.core # 0 /\ ~rec.off.on
  /\ scheduled' = TRUE
  /\ UNCHANGED <<router, rec, win, flight, keeping, boot, seq, crashes, mishaps>>

\* Reload: stop and start the config on disk; a failure of either leaves the
\* core desired, for the watchdog.
Reload(r) ==
  {[r EXCEPT !.desired = TRUE, !.core = c] : c \in {r.core, 0, r.file}}

\* TryLock: an Apply in progress makes it skip.  With the lock it reloads, and
\* looks at neither the core nor the switch again.
RestartCoreOnSchedule ==
  /\ scheduled
  /\ scheduled' = FALSE
  /\ router' \in Reload(router) \cup {router}
  /\ UNCHANGED <<rec, win, flight, keeping, boot, seq, crashes, mishaps>>

-----------------------------------------------------------------------------
(* The daemon goes down and comes back                                     *)

Down == [pc |-> "down", rev |-> Nil, retry |-> FALSE, moved |-> FALSE, ok |-> FALSE]

MayCrash == Up /\ crashes < MaxCrash

\* The process is gone with its windows, closures and handlers.
GoDown(r, record, how) ==
  /\ crashes' = crashes + 1
  /\ router' = IF how = "reboot" THEN AfterReboot(r) ELSE AfterRestart(r)
  /\ rec' = [record EXCEPT !.sameBoot = @ /\ how # "reboot"]
  /\ boot' = Down
  /\ win' = NoWindow /\ flight' = {} /\ keeping' = FALSE /\ scheduled' = FALSE

\* What history keeps of a crash.
Suffer(what, how) ==
  mishaps' = mishaps \cup what \cup ({how} \cap {"reboot"})

Crash(how) == MayCrash /\ GoDown(router, rec, how) /\ Suffer({}, how) /\ UNCHANGED seq

\* Inside an Apply: setInFlight was written, the router is anywhere along the
\* forward run or the rollback after it.
CrashInApply(sh, how) ==
  LET m == Next1(sh)
  IN /\ MayCrash /\ ~rec.off.on /\ seq < MaxRev
     /\ \E r \in UNION {{o.r} \cup {b.r : b \in IF o.ok THEN {} ELSE Recovery(m, o)} :
                        o \in Forward(m)} :
          GoDown(r, [rec EXCEPT !.inflight = TRUE], how)
     /\ seq' = seq + 1
     /\ Suffer({"apply"}, how)

\* Inside a rollback of live.
CrashInRollback(how) ==
  /\ MayCrash /\ rec.live # Nil
  /\ \E r \in {b.r : b \in RollbackTo(router, rec.committed, rec.live)} : GoDown(r, rec, how)
  /\ Suffer({"rollback"}, how) /\ UNCHANGED seq

\* Switching off: the intent is on disk before anything is removed.
CrashInRoutingOff(how) ==
  /\ MayCrash
  /\ \E r \in {o.r : o \in RemoveRouting(router, Revs(SwitchedOff(FALSE).off.leftover))} :
       GoDown(r, SwitchedOff(FALSE), how)
  /\ Suffer({}, how) /\ UNCHANGED seq

\* Switching on: the switch is cleared only after the run.
CrashInRoutingOn(how) ==
  /\ MayCrash /\ rec.off.on
  /\ \E r \in {o.r : o \in SwitchingOn} : GoDown(r, rec, how)
  /\ Suffer({}, how) /\ UNCHANGED seq

\* Mutant: a Test left by the previous process is forgotten.
MutLiveNeedsRollback == FALSE

\* liveNeedsRollbackOnBoot: only a reboot of KeeneticOS loses the Test.
LiveNeedsRollback == rec.live # Nil /\ ~rec.off.on /\ (~Keenetic \/ rec.sameBoot)

\* The in-flight marker always goes, the Test unless it is kept for its rollback.
DiscardLiveOnBoot(keepLive) ==
  IF keepLive THEN [rec EXCEPT !.inflight = FALSE] ELSE RecordRollback

\* The next process starts: a Test still on the router stays recorded until
\* boot has rolled it back.
StartApply ==
  /\ boot.pc = "down"
  /\ boot' = [pc |-> "start", rev |-> IF LiveNeedsRollback THEN rec.live ELSE Nil,
              retry |-> FALSE, moved |-> FALSE, ok |-> FALSE]
  /\ rec' = DiscardLiveOnBoot(LiveNeedsRollback)
  /\ UNCHANGED <<router, win, flight, keeping, seq, crashes, mishaps, scheduled>>

\* convergeOnBoot picks its task, not under applyMu.
BootPicks ==
  /\ boot.pc = "start"
  /\ boot' = IF rec.off.on THEN [boot EXCEPT !.pc = "off"]
             ELSE IF boot.rev # Nil THEN [boot EXCEPT !.pc = "rollback"]
             ELSE IF rec.committed # Nil
             THEN [boot EXCEPT !.pc = "converge", !.rev = rec.committed]
             ELSE [boot EXCEPT !.pc = "idle", !.ok = TRUE]
  /\ UNCHANGED <<router, rec, win, flight, keeping, seq, crashes, mishaps, scheduled>>

\* An attempt is done, or failed and is retried once.
BootGoesOn(done) ==
  boot' = IF done THEN [boot EXCEPT !.pc = "idle", !.ok = TRUE]
          ELSE IF boot.retry THEN [boot EXCEPT !.pc = "idle"]
          ELSE [boot EXCEPT !.retry = TRUE]

BootConverges(rev) ==
  /\ \E o \in Converge(router, rev) : router' = o.r /\ BootGoesOn(o.ok)
  /\ UNCHANGED rec

BootSkips == BootGoesOn(TRUE) /\ UNCHANGED <<router, rec>>

\* Mutant: the retry does not look at the routing switch again.
MutBootStillWants == rec.committed.id = boot.rev.id /\ rec.live = Nil

\* convergeOnBootOnce re-reads the record under applyMu.
BootStillWants == ~rec.off.on /\ rec.committed.id = boot.rev.id /\ rec.live = Nil

ConvergeOnBootOnce ==
  /\ boot.pc = "converge"
  /\ IF BootStillWants THEN BootConverges(boot.rev) ELSE BootSkips
  /\ UNCHANGED <<win, flight, keeping, seq, crashes, mishaps, scheduled>>

\* Mutant: a Test kept before boot got to it is left as it is.
MutKeptMeanwhile == FALSE

\* Keep made the very revision boot was to undo the committed one.
KeptMeanwhile == ~boot.moved /\ rec.live = Nil /\ rec.committed.id = boot.rev.id

\* rollbackLiveOnBootOnce.  The record compares revisions by pointer: one that
\* went through the routing switch is another (moved).
RollbackLiveOnBootOnce ==
  /\ boot.pc = "rollback"
  /\ IF rec.off.on THEN BootSkips
     ELSE IF KeptMeanwhile THEN BootConverges(boot.rev)
     ELSE IF boot.moved \/ rec.live.id # boot.rev.id THEN BootSkips
     ELSE RollBackLive(rec.live) /\ BootGoesOn(rec'.live = Nil)
  /\ UNCHANGED <<win, flight, keeping, seq, crashes, mishaps, scheduled>>

\* reassertRoutingOff.
ReassertRoutingOff ==
  /\ boot.pc = "off"
  /\ IF ~rec.off.on THEN BootSkips
     ELSE \E o \in RemoveRouting(router, Revs(rec.off.leftover)) :
            /\ router' = o.r
            /\ rec' = [rec EXCEPT !.off.err = ~o.ok]
            /\ BootGoesOn(o.ok)
  /\ UNCHANGED <<win, flight, keeping, seq, crashes, mishaps, scheduled>>

-----------------------------------------------------------------------------
Init ==
  /\ router = Bare
  /\ rec = EmptyRecord
  /\ win = NoWindow /\ flight = {} /\ keeping = FALSE
  /\ boot = [Down EXCEPT !.pc = "idle", !.ok = TRUE]
  /\ seq = 0 /\ crashes = 0 /\ mishaps = {} /\ scheduled = FALSE

Next ==
  \/ \E sh \in Shapes : Apply(sh)
  \/ Keep \/ KeepConfirms \/ RollBack
  \/ Dispatch \/ WindowOver
  \/ \E f \in flight : Closure(f)
  \/ RoutingOff \/ RoutingOn
  \/ FirmwareDrop \/ Reconcile \/ ConvergeAfterInstall \/ CoreDies \/ Watchdog
  \/ CoreRestartDue \/ RestartCoreOnSchedule
  \/ \E how \in Restarts :
       Crash(how) \/ CrashInRollback(how) \/ CrashInRoutingOff(how) \/ CrashInRoutingOn(how)
  \/ \E how \in Restarts, sh \in Shapes : CrashInApply(sh, how)
  \/ StartApply \/ BootPicks
  \/ ConvergeOnBootOnce \/ RollbackLiveOnBootOnce \/ ReassertRoutingOff

Spec == Init /\ [][Next]_vars

-----------------------------------------------------------------------------
(* Properties                                                              *)

\* The state has its type.
TypeOK ==
  /\ router \in Router
  /\ rec \in Record
  /\ win \in [rev : Revision, current : BOOLEAN, phase : WindowPhase]
  /\ flight \subseteq [rev : Revision, current : BOOLEAN]
  /\ keeping \in BOOLEAN /\ scheduled \in BOOLEAN
  /\ boot \in [pc : {"down", "start", "off", "rollback", "converge", "idle"},
               rev : Revision, retry : BOOLEAN, moved : BOOLEAN, ok : BOOLEAN]
  /\ seq \in Id /\ crashes \in 0 .. MaxCrash /\ mishaps \subseteq {"apply", "rollback", "reboot"}

\* The record is not waiting for a rollback and routing is on.
Clean == ~rec.off.on /\ ~RollbackOutstanding

\* While the record is clean, the core runs the configuration the record names
\* or none, and the watchdog would start that one: no order of failed Applies,
\* failed rollbacks, restarts and the switch leaves another one running.
OnlyRecordedRuns ==
  Clean => /\ router.core \in {0, AppliedBaseline.id}
           /\ router.desired => AppliedBaseline.core /\ router.file = AppliedBaseline.id

\* What OnlyRecordedRuns and OffStaysOff rest on.  A revision is known by its
\* id alone wherever the daemon still holds one, and the kernel carries rules
\* only of revisions that asked for its plane.
Held == {Nil, rec.committed, rec.live, rec.off.leftover, boot.rev, win.rev} \cup {f.rev : f \in flight}

IdInv ==
  /\ \A v \in Held : v \in Revision /\ v.id <= seq
  /\ \A v, w \in Held : v.id = w.id => v = w
  /\ router.rules \subseteq 1 .. seq
  /\ \A v \in Held : v.id \in router.rules => v.kernel

\* A closure dispatched for the window that is armed now carries that window's
\* revision, and no closure left from an earlier window does.
ClosureInv ==
  /\ win.current => win.rev # Nil
  /\ \A f \in flight : f.current => win.current /\ f.rev = win.rev
  /\ \A f \in flight : win.current /\ ~f.current => f.rev # win.rev

\* The switch holds the Test it took over, and while it is off, or the daemon
\* is down, nothing wants the core.
OffInv ==
  /\ ~rec.off.on => rec.off = NotOff
  /\ rec.off.on => rec.live = Nil /\ ~router.desired
  /\ boot.pc = "down" => router.core = 0 /\ ~router.desired /\ flight = {} /\ ~keeping
  /\ ~scheduled

\* Boot goes to its rollback only with a Test to undo.
TaskInv == boot.pc = "rollback" => boot.rev # Nil

\* OnlyRecordedRuns holds with routing off as well, unless the switch took over
\* a Test.
CoreInv ==
  Clean \/ (rec.off.on /\ rec.off.leftover = Nil) =>
    /\ router.core \in {0, AppliedBaseline.id}
    /\ router.desired => AppliedBaseline.core /\ router.file = AppliedBaseline.id

\* The plane the reconcile loop would put back is the one the router carries:
\* whatever Apply, rollback, retry or switch failed part way, supervision never
\* undoes what a rollback restored, nor puts the committed plane under a Test
\* that still runs.
SupervisionPairs ==
  LET base == SupervisedBaseline
  IN (~rec.off.on /\ mishaps = {} /\ base.kernel) => router.plane = base.id

\* Once routing is off and the removal reported no error, nothing of WayHop's
\* routes: no rollback, boot, watchdog or reconcile pass puts it back.
OffStaysOff ==
  (rec.off.on /\ ~rec.off.err /\ boot.pc \notin {"down", "start", "off"}) =>
    /\ router.core = 0 /\ ~router.desired
    /\ router.rules \cap {rec.committed.id, rec.off.leftover.id} = {}

\* A rollback only ever undoes the Test the record still names: once it was
\* kept, replaced or already rolled back, a closure that waited for the lock
\* leaves the router alone.
RollbackUndoesTheTest ==
  [][\A f \in flight :
       (flight' = flight \ {f} /\ crashes' = crashes /\ rec.live.id # f.rev.id)
         => router' = router]_vars

\* A clean record means no interface but the recorded configuration's is left
\* on the router: what a rollback could not remove stays on record, through
\* retries, restarts and the routing switch, until it is removed.
NoInterfaceLeft ==
  (Clean /\ mishaps \subseteq {"reboot"}) => router.native \subseteq {AppliedBaseline.id}

\* What the router must carry for base to be running, and what makes it so
\* whenever the core dies: the watchdog wants base's config.
Stands(base, r) ==
  /\ base.core => r.desired /\ r.file = base.id
  /\ base.kernel => r.plane = base.id
  /\ base.native => base.id \in r.native

Runs(base) ==
  /\ base.core => router.core = base.id \/ (router.desired /\ router.file = base.id)
  /\ base.kernel => router.plane = base.id
  /\ base.native => base.id \in router.native

\* Boot ends with the recorded configuration running: also when Keep, an Apply
\* or the switch changed the record while boot waited for its second attempt.
BootEndsRunning ==
  [][(boot.pc \in {"converge", "rollback"} /\ boot'.pc = "idle" /\ boot'.ok /\ Clean')
       => Runs(AppliedBaseline)']_vars

\* What these three rest on.  The switch holds its leftover only while it is
\* off, and takes over the Test; a Test is never the committed revision itself;
\* only a reboot makes the record forget that a Test is still on the router.
SwitchInv ==
  /\ ~rec.off.on => rec.off = NotOff
  /\ rec.off.on => rec.live = Nil

ApartInv ==
  /\ rec.live # Nil => rec.live.id # rec.committed.id
  /\ rec.off.leftover # Nil => rec.off.leftover.id # rec.committed.id

SameBootInv ==
  /\ "reboot" \in mishaps => "reboot" \in Restarts
  /\ rec.live # Nil /\ "reboot" \notin mishaps => rec.sameBoot

\* The revisions whose interfaces may be on the router: with routing off the
\* committed one and the Test the switch took over, while a rollback is
\* outstanding the two it is between, otherwise the recorded one.
Accounted ==
  IF rec.off.on THEN {rec.committed, rec.off.leftover}
  ELSE IF RollbackOutstanding THEN {rec.live, rec.committed}
  ELSE {AppliedBaseline}

LeftInv ==
  mishaps \subseteq {"reboot"} => \A n \in router.native : \E v \in Accounted \ {Nil} : v.id = n

\* Boot still has its Test to undo, or to converge once it was kept.
ToRollBack ==
  /\ ~boot.moved
  /\ \/ rec.live # Nil /\ rec.live = boot.rev
     \/ rec.live = Nil /\ rec.committed = boot.rev

\* While boot has an attempt to make and the record is clean, either the
\* recorded configuration stands already or the attempt is still about it:
\* nothing that changes the record meanwhile lets boot skip a router that runs
\* something else.
BootInv ==
  /\ boot.pc # "idle" => ~boot.ok
  /\ TaskInv
  /\ Clean /\ boot.pc = "start" =>
       \/ Stands(AppliedBaseline, router)
       \/ IF boot.rev # Nil THEN ToRollBack ELSE rec.live = Nil
  /\ Clean /\ boot.pc = "rollback" => Stands(AppliedBaseline, router) \/ ToRollBack
  /\ Clean /\ boot.pc = "converge" =>
       \/ Stands(AppliedBaseline, router)
       \/ rec.live = Nil /\ rec.committed = boot.rev

=============================================================================
