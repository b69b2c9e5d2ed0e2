----------------------------- MODULE RouterExec -----------------------------
(***************************************************************************)
(* What one execution does to the router (internal/server/applyexec.go,    *)
(* apply.go rollbackTo, applyboot.go converge, routingswitch.go            *)
(* removeRouting).                                                         *)
(*                                                                         *)
(* An execution is a fixed program of steps; each may fail, and a failed   *)
(* step leaves its plane half done.  Every operator below is the set of    *)
(* outcomes of one call, for a caller that holds applyMu.                  *)
(*                                                                         *)
(* A revision is one Apply (its Rev and At) with the planes it asks for.   *)
(* The contents of a plane - interfaces, core config, nft or ipset program *)
(* - are the identity of the revision that installed it.  Engine plugins   *)
(* are left out: Sync cannot fail, and is given the exact set each time.   *)
(***************************************************************************)
EXTENDS Integers, Sequences, FiniteSets

CONSTANTS
  MaxRev,     \* bound: Applies that get as far as touching the router
  Shapes,     \* the planes a configuration may ask for
  Keenetic    \* KeeneticOS (TRUE) or OpenWrt

ASSUME RouterAssumption ==
  /\ MaxRev \in Nat
  /\ Keenetic \in BOOLEAN
  /\ Shapes \subseteq [native : BOOLEAN, core : BOOLEAN, kernel : BOOLEAN]

Id == 0 .. MaxRev
Broken == -1

Revision == [id : Id, native : BOOLEAN, core : BOOLEAN, kernel : BOOLEAN]
Nil == [id |-> 0, native |-> FALSE, core |-> FALSE, kernel |-> FALSE]

\* native:  whose interfaces are configured;  saved: those in the startup
\*          configuration (KeeneticOS)
\* core:    whose config sing-box runs, 0 stopped;  file: the config on disk;
\*          desired: the watchdog restarts it
\* plane:   whose kernel plane went in last, 0 none, Broken after a failed
\*          kernel step;  lost: the firmware dropped it
\* rules:   whose ip rules, routes or sets are in the kernel
Router ==
  [native : SUBSET Id, saved : SUBSET Id, core : Id, file : Id,
   desired : BOOLEAN, plane : Id \cup {Broken}, lost : BOOLEAN,
   rules : SUBSET Id]

Bare == [native |-> {}, saved |-> {}, core |-> 0, file |-> 0, desired |-> FALSE,
         plane |-> 0, lost |-> FALSE, rules |-> {}]

KernelPlane == {"tested", "committed", "unknown"}

-----------------------------------------------------------------------------
(* executeMaterialization                                                  *)

\* The steps, in order: the core goes up before the kernel plane and goes
\* away after it.
Program(m) ==
  LET only(c, s) == IF c THEN <<s>> ELSE <<>>
  IN only(m.native, "native_prepare")
     \o only(m.core, "core") \o only(m.kernel, "kernel")
     \o only(~m.core, "core") \o only(~m.kernel, "kernel")
     \o only(m.native, "native_commit") \o <<"postcheck">>

\* bindKernelRetire: only what the previous revision installed is retired.
Retired(prev) == IF prev.kernel THEN {prev.id} ELSE {}

\* The router once the steps in done have succeeded.  Both planes of two
\* revisions live in one table: a new plane replaces it, a retire deletes it,
\* and the ip rules go only if they are named.
Installed(r, m, retire, removals, done) ==
  [r EXCEPT
    !.native = (@ \cup (IF "native_prepare" \in done THEN {m.id} ELSE {}))
               \ (IF "native_commit" \in done THEN removals ELSE {}),
    !.core = IF "core" \notin done THEN @ ELSE IF m.core THEN m.id ELSE 0,
    !.file = IF "core" \in done /\ m.core THEN m.id ELSE @,
    !.desired = IF "core" \in done THEN m.core ELSE @,
    !.plane = IF "kernel" \notin done THEN @
              ELSE IF m.kernel THEN m.id
              ELSE IF retire # {} THEN 0 ELSE @,
    !.lost = @ /\ ~("kernel" \in done /\ (m.kernel \/ retire # {})),
    !.rules = IF "kernel" \notin done THEN @
              ELSE (@ \ retire) \cup Retired(m)]

\* coreStep failed: before or after the config was written, or the core died.
CoreDamage(r, m) ==
  IF m.core
  THEN {r, [r EXCEPT !.file = m.id],
        [r EXCEPT !.file = m.id, !.core = 0, !.desired = TRUE]}
  ELSE {r, [r EXCEPT !.desired = FALSE], [r EXCEPT !.desired = FALSE, !.core = 0]}

\* kernelStep failed: some of the old plane is gone, some of the new is in.
HalfReplaced(r, m, gone, new) ==
  [r EXCEPT !.rules = (@ \ gone) \cup new,
            !.plane = IF @ = m.id THEN @ ELSE Broken,
            !.lost = r.plane = m.id]

KernelDamage(r, m, retire) ==
  IF ~m.kernel /\ retire = {} THEN {r}
  ELSE {HalfReplaced(r, m, gone, new) : gone \in SUBSET retire, new \in SUBSET Retired(m)} \cup {r}

\* What step s may leave when it fails.
Damage(r, m, retire, removals, s) ==
  CASE s = "native_prepare" -> {r, [r EXCEPT !.native = @ \cup {m.id}]}
    [] s = "core"           -> CoreDamage(r, m)
    [] s = "kernel"         -> KernelDamage(r, m, retire)
    [] s = "native_commit"  -> {[r EXCEPT !.native = @ \ gone] : gone \in SUBSET removals}
    [] s = "postcheck"      -> {r}

\* Mutant: a verdict no reader of the mark knows.
MutKernelPlaneAfter(done, s) == IF "kernel" \in done THEN "committed" ELSE s

\* kernelPlaneAfter: how far a failed execution got with the kernel plane.
KernelPlaneAfter(done, s) ==
  IF "kernel" \in done THEN "committed"
  ELSE IF s = "kernel" THEN "unknown" ELSE "tested"

\* What a kernel step that succeeds has retired: KeeneticOS only logs a failure
\* to tear down the plane a new one replaces.
MayRetire(m, retire) == IF Keenetic /\ m.kernel THEN SUBSET retire ELSE {retire}

\* Every outcome of one run.  The first step may refuse untouched, or find its
\* context cancelled: then, and only then, nothing counts as mutated.
Execute(r, m, retire, removals) ==
  LET prog == Program(m)
      upto(k) == {prog[i] : i \in 1 .. k}
      full == Len(prog)
      good(k, gone) == Installed(r, m, gone, removals, upto(k))
      failing(k, gone) ==
        {[r |-> d, ok |-> FALSE, mutated |-> TRUE,
          plane |-> KernelPlaneAfter(upto(k), prog[k + 1])] :
           d \in Damage(good(k, gone), m, retire, removals, prog[k + 1])}
  IN {[r |-> good(full, gone), ok |-> TRUE, mutated |-> TRUE, plane |-> "committed"] :
        gone \in MayRetire(m, retire)}
     \cup {[r |-> r, ok |-> FALSE, mutated |-> FALSE,
            plane |-> KernelPlaneAfter({}, prog[1])]}
     \cup UNION {UNION {failing(k, gone) : k \in 0 .. full - 1} : gone \in MayRetire(m, retire)}

\* persist / routingSave: KeeneticOS makes its whole running configuration the
\* startup one; UCI writes were on flash as they were made.
Saved(r) == [r EXCEPT !.saved = IF Keenetic THEN r.native ELSE @]

\* converge: the removals are stripped, so the run only adds.
Converge(r, m) == Execute(r, m, {}, {})

-----------------------------------------------------------------------------
(* rollbackTo                                                              *)

\* teardownMaterialization, when there is no baseline: it goes on to every
\* plane whatever failed before.
TornDown(r, m, went) ==
  [r |-> [r EXCEPT
           !.core = IF went.stopped THEN 0 ELSE @,
           !.desired = FALSE,
           !.plane = IF ~m.kernel \/ went.torn = "not" THEN @
                     ELSE IF went.torn = "half" THEN Broken ELSE 0,
           !.lost = @ /\ (~m.kernel \/ went.torn = "not"),
           !.rules = IF went.torn = "all" THEN @ \ Retired(m) ELSE @,
           !.native = IF went.aborted /\ m.native THEN @ \ {m.id} ELSE @],
   plane |-> IF went.stopped /\ went.torn = "all" THEN "committed" ELSE "unknown",
   err |-> IF ~went.stopped \/ went.torn # "all" THEN "failed"
           ELSE IF went.aborted THEN "none" ELSE "leftover"]

TeardownMaterialization(r, m) ==
  {TornDown(r, m, went) :
     went \in [stopped : BOOLEAN, aborted : {TRUE, ~m.native},
               torn : IF m.kernel THEN {"all", "half", "not"} ELSE {"all"}]}

\* rollbackMaterialization: reconcile from the failed revision's interfaces to
\* the baseline's, or abort the failed ones and re-apply additively.
RollbackMaterialization(r, base, failed) ==
  LET aborts == {[r |-> [r EXCEPT !.native = @ \ {failed.id}], removals |-> {}, left |-> FALSE],
                 [r |-> r, removals |-> {}, left |-> TRUE]}
  IN IF ~failed.native THEN {[r |-> r, removals |-> {}, left |-> FALSE]}
     ELSE IF ~base.native THEN aborts
     ELSE aborts \cup {[r |-> r, removals |-> {failed.id}, left |-> FALSE]}

\* The baseline goes back over failed.  plane: how far it got; err: "leftover"
\* when only the failed revision's interfaces could not be removed.
RollbackTo(r, base, failed) ==
  IF base = Nil THEN TeardownMaterialization(r, failed)
  ELSE UNION {{[r |-> o.r, plane |-> o.plane,
                err |-> IF ~o.ok THEN "failed" ELSE IF p.left THEN "leftover" ELSE "none"] :
                 o \in Execute(p.r, base, Retired(failed), p.removals)} :
               p \in RollbackMaterialization(r, base, failed)}

-----------------------------------------------------------------------------
(* removeRouting                                                           *)

\* The core, then each revision's kernel plane: every part is removed whatever
\* happened to the one before.  Interfaces stay; their routing is lowered, and
\* when that changed anything the native configuration is saved as it stands.
Removed(r, planes, went) ==
  [r EXCEPT !.core = IF went.stopped THEN 0 ELSE @, !.desired = FALSE,
            !.plane = IF went.half /\ went.gone # planes THEN Broken
                      ELSE IF went.gone = {} THEN @ ELSE 0,
            !.lost = @ /\ went.gone = {} /\ ~went.half,
            !.rules = @ \ went.gone]

RemoveRouting(r, revs) ==
  LET planes == UNION {Retired(v) : v \in revs}
  IN {[r |-> IF went.saved THEN Saved(Removed(r, planes, went)) ELSE Removed(r, planes, went),
       ok |-> went.stopped /\ went.gone = planes /\ went.lowered] :
        went \in [stopped : BOOLEAN, gone : SUBSET planes, lowered : BOOLEAN,
                  half : {FALSE, planes # {}}, saved : {FALSE, \E v \in revs : v.native}]}

-----------------------------------------------------------------------------
(* The daemon or the router goes down                                      *)

\* The core dies with the daemon; strays are reaped at the next start.
AfterRestart(r) == [r EXCEPT !.core = 0, !.desired = FALSE]

\* A reboot also empties the kernel, and KeeneticOS starts from its startup
\* configuration.
AfterReboot(r) ==
  [AfterRestart(r) EXCEPT !.plane = 0, !.lost = FALSE, !.rules = {},
                          !.native = IF Keenetic THEN r.saved ELSE @]
=============================================================================
