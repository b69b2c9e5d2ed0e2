------------------------- MODULE KernelPlaneProofs -------------------------
(* Proofs about KernelPlane, for every set of profiles, endpoints and flows.*)
(* That no rule, route or blackhole outlives the plan that owned it asks a  *)
(* plan for its slots only and holds however a profile is compiled; that    *)
(* packets leave where asked rests on CompilesRight, a condition on Compile *)
(* alone.                                                                   *)
EXTENDS KernelPlane, WellFoundedInduction, TLAPS

PlaneInv == LockInv /\ JobFits /\ OwnedInv

LEMMA EmptyPlan == Plan[None].slots = {}
BY DEF Plan

----------------------------------------------------------------------------
(* Tables: what is in use afterwards, and what has a rule                   *)

\* Clearing gone and setting up in leaves nothing in use but what was used
\* outside gone, and in itself.
LEMMA TablesUse ==
  ASSUME NEW p, NEW in, NEW gone, Tables(p, in, gone)
  PROVE  /\ Used' \subseteq (Used \ gone) \cup in
         /\ rules' = (rules \ gone) \cup in
         /\ dev' = [s \in Slot |-> dev'[s]]
<1>1. rules' \cup hole' \subseteq (Used \ gone) \cup in
  BY DEF Tables, Used
<1>2. ASSUME NEW s \in Slot, dev'[s] # None PROVE s \in (Used \ gone) \cup in
  BY <1>2 DEF Tables, Used
<1> QED
  BY <1>1, <1>2 DEF Used, Tables

LEMMA InstallUse ==
  ASSUME NEW p, NEW prev, Installs(p, prev), Used \subseteq Plan[p].slots \cup Plan[prev].slots
  PROVE  /\ Used' \subseteq Plan[p].slots /\ Plan[p].slots \subseteq rules'
         /\ nft = p /\ nft' = p /\ proof'
         /\ dev' = [s \in Slot |-> dev'[s]]
<1>1. Tables(p, Plan[p].slots, Plan[p].slots \cup Retire(p, prev))
  BY DEF Installs
<1> QED
  BY <1>1, TablesUse DEF Installs, Retire

LEMMA InstallFailsUse ==
  ASSUME NEW p, InstallFails(p), ~proof
  PROVE  /\ Used' \subseteq Used \cup Plan[p].slots
         /\ nft' \in {nft, None} /\ ~proof'
         /\ dev' = [s \in Slot |-> dev'[s]]
<1>1. CASE Tables(None, {}, Plan[p].slots) /\ nft' = None /\ proof' = FALSE
  BY <1>1, TablesUse
<1>2. CASE UNCHANGED <<nft, proof>> /\ \E n \in 0 .. Len(Plan[p].tags) - 1 : Tables(p, UpTo(p, n), Plan[p].slots)
  <2>1. PICK n : Tables(p, UpTo(p, n), Plan[p].slots)
    BY <1>2
  <2>2. UpTo(p, n) \subseteq Plan[p].slots
    BY DEF UpTo
  <2> QED
    BY <1>2, <2>1, <2>2, TablesUse
<1> QED
  BY <1>1, <1>2 DEF InstallFails

\* A removal of every plan that may own something leaves nothing.
LEMMA RemoveUse ==
  ASSUME NEW ps, Removes(ps), LockInv
  PROVE  /\ Used' \subseteq Used \ UNION {Plan[p].slots : p \in ps}
         /\ nft' \in {nft, None} /\ (~(ps \subseteq {None}) => nft' = None)
         /\ proof' => proof /\ nft' # None /\ nft' = nft /\ Plan[nft'].slots \subseteq rules'
         /\ dev' = [s \in Slot |-> dev'[s]]
<1> DEFINE gone == UNION {Plan[p].slots : p \in ps}
<1>1. Tables(None, {}, gone)
  BY DEF Removes
<1>2. Used' \subseteq Used \ gone /\ rules' = rules \ gone /\ dev' = [s \in Slot |-> dev'[s]]
  <2> HIDE DEF gone
  <2> QED
    BY <1>1, TablesUse
<1>3. ASSUME ps \subseteq {None} PROVE gone = {}
  BY <1>3, EmptyPlan
<1>4. nft' = (IF ps \subseteq {None} THEN nft ELSE None) /\ proof' = (proof /\ nft' # None)
  BY DEF Removes
<1>5. ASSUME proof' PROVE proof /\ nft' # None /\ nft' = nft /\ Plan[nft'].slots \subseteq rules'
  <2>1. proof /\ nft' # None
    BY <1>4, <1>5
  <2>2. ps \subseteq {None} /\ nft' = nft
    BY <1>4, <2>1
  <2>3. Plan[nft].slots \subseteq rules
    BY <2>1 DEF LockInv
  <2> HIDE DEF gone
  <2> QED
    BY <1>2, <1>3, <2>1, <2>2, <2>3
<1> QED
  BY <1>2, <1>4, <1>5
----------------------------------------------------------------------------
(* The panel and the reconcile loop take the lock                           *)

LEMMA InitPlane == Init => PlaneInv
<1> SUFFICES ASSUME Init PROVE PlaneInv
  OBVIOUS
<1>1. LockInv
  BY DEF Init, LockInv, Idle, None
<1>2. Used = {}
  BY DEF Init, Used
<1>3. JobFits
  <2>1. job = Idle /\ mark = None /\ torn = {}
    BY DEF Init
  <2> QED
    BY <2>1 DEF JobFits, Idle, None
<1>4. nft \in Owners \cup {None}
  BY DEF Init
<1> QED
  BY <1>1, <1>2, <1>3, <1>4 DEF PlaneInv, OwnedInv

LEMMA BeginsFrame ==
  ASSUME PlaneInv, NEW who, NEW j, Begins(who, j)
  PROVE  /\ job = Idle /\ pass \notin {"elect", "restore"} /\ todo = {}
         /\ lock = None /\ lock' = who /\ job' = j
         /\ nft' = nft /\ proof' = proof /\ rules' = rules /\ dev' = dev /\ Used' = Used
         /\ pass' = pass /\ todo' = todo /\ torn' = torn
<1>1. /\ lock = None /\ lock' = who /\ job' = j
      /\ nft' = nft /\ proof' = proof /\ rules' = rules /\ dev' = dev /\ hole' = hole
      /\ pass' = pass /\ todo' = todo /\ torn' = torn
  BY DEF Begins, kernel, loop
<1>2. Used' = Used
  BY <1>1 DEF Used
<1>3. job = Idle /\ pass \notin {"elect", "restore"} /\ todo = {}
  BY <1>1 DEF PlaneInv, LockInv, None
<1> QED
  BY <1>1, <1>2, <1>3

LEMMA ApplyPlane == ASSUME PlaneInv, NEW p \in Profile, Apply(p) PROVE PlaneInv'
<1>1. Begins("panel", Job("apply", p, Base)) /\ off = "on" /\ UNCHANGED record
  BY DEF Apply
<1>2. committed' = committed /\ live' = live /\ leftover' = leftover /\ mark' = mark /\ off' = off
  BY <1>1 DEF record
<1>3. p # None
  BY PlaneAssumption
<1>4. LockInv'
  BY <1>1, <1>2, <1>3, BeginsFrame DEF PlaneInv, LockInv, Job, Base, Idle, None
<1>5. /\ "flows" \notin torn => nft \in {Base, None}
      /\ "tables" \notin torn => Used \subseteq Plan[Base].slots
  <2>1. Owners = {Base}
    BY <1>1, BeginsFrame DEF Owners, Idle, None
  <2> QED
    BY <2>1 DEF PlaneInv, OwnedInv
<1>6. JobFits' /\ Owners' = {p, Base}
  BY <1>1, <1>2, <1>3, BeginsFrame DEF PlaneInv, JobFits, Owners, Job, Idle, Base, Supervised, None
<1> QED
  BY <1>1, <1>4, <1>5, <1>6, BeginsFrame DEF PlaneInv, OwnedInv

LEMMA RollBackPlane == ASSUME PlaneInv, RollBack PROVE PlaneInv'
<1>1. Begins("panel", Job("rollback", committed, live)) /\ off = "on" /\ live # None /\ UNCHANGED record
  BY DEF RollBack
<1>2. committed' = committed /\ live' = live /\ leftover' = leftover /\ mark' = mark /\ off' = off
  BY <1>1 DEF record
<1>4. LockInv'
  BY <1>1, <1>2, BeginsFrame DEF PlaneInv, LockInv, Job, Base, Idle, None
<1>5. /\ "flows" \notin torn => nft \in {live, None}
      /\ "tables" \notin torn => Used \subseteq Plan[live].slots
  <2>1. Owners = {live}
    BY <1>1, BeginsFrame DEF Owners, Idle, Base, None
  <2> QED
    BY <2>1 DEF PlaneInv, OwnedInv
<1>6. JobFits' /\ Owners' = {committed, live}
  BY <1>1, <1>2, BeginsFrame DEF PlaneInv, JobFits, Owners, Job, None
<1> QED
  BY <1>1, <1>4, <1>5, <1>6, BeginsFrame DEF PlaneInv, OwnedInv

LEMMA RoutingOffPlane == ASSUME PlaneInv, RoutingOff PROVE PlaneInv'
<1>1. /\ Begins("panel", Job("off", None, None)) /\ off' = "off"
      /\ leftover' = (IF live # None THEN live ELSE leftover) /\ live' = None /\ mark' = None
      /\ committed' = committed
  BY DEF RoutingOff
<1>4. LockInv'
  BY <1>1, BeginsFrame DEF PlaneInv, LockInv, Job, Idle, None
<1>5. /\ "flows" \notin torn => nft \in {leftover', committed, None}
      /\ "tables" \notin torn => Used \subseteq Plan[leftover'].slots \cup Plan[committed].slots
  <2>1. CASE off = "on"
    <3>1. Owners = {Base}
      BY <2>1, BeginsFrame, <1>1 DEF Owners, Idle, None
    <3> QED
      BY <1>1, <2>1, <3>1 DEF PlaneInv, OwnedInv, Base
  <2>2. CASE off = "failed"
    <3>1. Owners = {leftover, committed} /\ live = None
      BY <2>2, BeginsFrame, <1>1 DEF Owners, Idle, None, PlaneInv, LockInv
    <3> QED
      BY <1>1, <2>2, <3>1 DEF PlaneInv, OwnedInv
  <2>3. CASE off = "off"
    <3>1. Owners = {None}
      BY <2>3, BeginsFrame, <1>1 DEF Owners, Idle, None
    <3> QED
      BY <3>1, EmptyPlan DEF PlaneInv, OwnedInv
  <2> QED
    BY <2>1, <2>2, <2>3 DEF PlaneInv, LockInv
<1>6. JobFits' /\ Owners' = {leftover', committed}
  BY <1>1, BeginsFrame DEF PlaneInv, JobFits, Owners, Job, None
<1> QED
  BY <1>1, <1>4, <1>5, <1>6, BeginsFrame DEF PlaneInv, OwnedInv

LEMMA RoutingOnPlane == ASSUME PlaneInv, RoutingOn PROVE PlaneInv'
<1>1. Begins("panel", Job("on", committed, leftover)) /\ off # "on" /\ UNCHANGED record
  BY DEF RoutingOn
<1>2. committed' = committed /\ live' = live /\ leftover' = leftover /\ mark' = mark /\ off' = off
  BY <1>1 DEF record
<1>4. LockInv'
  BY <1>1, <1>2, BeginsFrame DEF PlaneInv, LockInv, Job, Base, Idle, None
<1>5. /\ "flows" \notin torn => nft \in {leftover, committed, None}
      /\ "tables" \notin torn => Used \subseteq Plan[leftover].slots \cup Plan[committed].slots
  <2>1. CASE off = "off"
    <3>1. Owners = {None}
      BY <2>1, BeginsFrame, <1>1 DEF Owners, Idle, None
    <3> QED
      BY <3>1, EmptyPlan DEF PlaneInv, OwnedInv
  <2>2. CASE off = "failed"
    <3>1. Owners = {leftover, committed}
      BY <2>2, BeginsFrame, <1>1 DEF Owners, Idle, None
    <3> QED
      BY <3>1 DEF PlaneInv, OwnedInv
  <2> QED
    BY <1>1, <2>1, <2>2 DEF PlaneInv, LockInv
<1>6. JobFits' /\ Owners' = {committed, leftover}
  BY <1>1, <1>2, BeginsFrame DEF PlaneInv, LockInv, JobFits, Owners, Job, Idle, None
<1> QED
  BY <1>1, <1>4, <1>5, <1>6, BeginsFrame DEF PlaneInv, OwnedInv

LEMMA ReconcilePlane == ASSUME PlaneInv, Reconcile PROVE PlaneInv'
<1>1. Begins("reconcile", Job("reconcile", Supervised, None)) /\ off = "on" /\ Supervised # None /\ UNCHANGED record
  BY DEF Reconcile
<1>2. committed' = committed /\ live' = live /\ leftover' = leftover /\ mark' = mark /\ off' = off
  BY <1>1 DEF record
<1>3. Supervised' = Supervised /\ (mark = None => Supervised = Base)
  BY <1>2 DEF Supervised, Base, None
<1>4. LockInv'
  BY <1>1, <1>2, BeginsFrame DEF PlaneInv, LockInv, Job, Base, Idle, None
<1>5. /\ "flows" \notin torn => nft \in {Base, None}
      /\ "tables" \notin torn => Used \subseteq Plan[Base].slots
  <2>1. Owners = {Base}
    BY <1>1, BeginsFrame DEF Owners, Idle, None
  <2> QED
    BY <2>1 DEF PlaneInv, OwnedInv
<1>6. JobFits' /\ Owners' = {Supervised}
  BY <1>1, <1>2, <1>3, BeginsFrame DEF PlaneInv, JobFits, Owners, Job, Idle, None
<1>7. "flows" \notin torn \/ "tables" \notin torn => Supervised = Base
  BY <1>1, <1>3, BeginsFrame DEF PlaneInv, JobFits, Idle, None
<1> QED
  BY <1>1, <1>4, <1>5, <1>6, <1>7, BeginsFrame DEF PlaneInv, OwnedInv

LEMMA KeepPlane == ASSUME PlaneInv, Keep PROVE PlaneInv'
<1>1. /\ lock = None /\ live # None /\ mark = None /\ committed' = live /\ live' = None
      /\ leftover' = leftover /\ mark' = mark /\ off' = off /\ torn' = torn
      /\ nft' = nft /\ proof' = proof /\ rules' = rules /\ dev' = dev /\ hole' = hole
      /\ lock' = lock /\ job' = job /\ pass' = pass /\ todo' = todo
  BY DEF Keep, kernel, loop
<1>2. off = "on" /\ job = Idle /\ todo = {}
  BY <1>1 DEF PlaneInv, LockInv, None
<1>3. Base' = Base
  BY <1>1 DEF Base
<1>4. LockInv'
  BY <1>1, <1>2, <1>3 DEF PlaneInv, LockInv, None
<1>5. Owners = {Base} /\ Owners' = {Base}
  BY <1>1, <1>2, <1>3 DEF Owners, Idle, None
<1>6. JobFits' /\ Used' = Used
  BY <1>1, <1>2 DEF PlaneInv, JobFits, Used, Idle, None
<1> QED
  BY <1>1, <1>4, <1>5, <1>6 DEF PlaneInv, OwnedInv
----------------------------------------------------------------------------
(* The steps of a job                                                       *)

\* A job step that starts another job, or ends one, keeps the rest.
LEMMA JobsOwn ==
  ASSUME PlaneInv, job.at # None
  PROVE  /\ lock \notin {None, "loop"} /\ pass \notin {"elect", "restore"} /\ todo = {}
         /\ job.op \in {"apply", "undo", "rollback", "reconcile", "on", "off", "unroute"}
BY DEF PlaneInv, LockInv, Idle

\* Before its last step a job other than a removal works on its two plans.
LEMMA JobOwners ==
  ASSUME job.op \in {"apply", "undo", "rollback", "reconcile", "on"}
  PROVE  /\ job.at = "flush" => Owners = {job.p}
         /\ Owners \subseteq {job.p, job.prev} /\ job.p \in Owners
         /\ UNION {Plan[p].slots : p \in Owners} \subseteq Plan[job.p].slots \cup Plan[job.prev].slots
         /\ job.at # "flush" /\ job.op # "reconcile" => Owners = {job.p, job.prev}
<1>1. job.op \notin {None, "off", "unroute"}
  BY DEF None
<1>2. CASE job.op = "reconcile"
  <2>1. Owners = {job.p}
    BY <1>1, <1>2 DEF Owners
  <2> QED
    BY <1>2, <2>1
<1>3. CASE job.op # "reconcile"
  <2>1. Owners = IF job.at = "flush" THEN {job.p} ELSE {job.p, job.prev}
    BY <1>1, <1>3 DEF Owners
  <2> QED
    BY <2>1
<1> QED
  BY <1>2, <1>3

LEMMA JobLoadsPlane == ASSUME PlaneInv, JobLoads PROVE PlaneInv'
<1>1. /\ job.at = "load" /\ nft' = job.p /\ proof' = FALSE /\ rules' = rules /\ dev' = dev /\ hole' = hole
      /\ job' = [job EXCEPT !.at = "install"]
      /\ lock' = lock /\ pass' = pass /\ todo' = todo /\ torn' = torn
      /\ committed' = committed /\ live' = live /\ leftover' = leftover /\ mark' = mark /\ off' = off
  BY DEF JobLoads, LoadsNft, Rest, record, loop
<1>2. /\ lock \notin {None, "loop"} /\ pass \notin {"elect", "restore"} /\ todo = {}
      /\ job.op \in {"apply", "undo", "rollback", "reconcile", "on", "off", "unroute"}
  BY <1>1, JobsOwn DEF None
<1>3. job'.op = job.op /\ job'.p = job.p /\ job'.prev = job.prev /\ job'.at = "install"
  BY <1>1
<1>4. LockInv'
  BY <1>1, <1>2, <1>3 DEF PlaneInv, LockInv
<1>5. Used' = Used
  BY <1>1 DEF Used
<1>6. Base' = Base /\ Supervised' = Supervised
  BY <1>1 DEF Base, Supervised
<1>7. job.op \notin {"off", "unroute"} /\ JobFits'
  BY <1>1, <1>3, <1>6 DEF PlaneInv, JobFits
<1>8. Owners' = Owners
  BY <1>1, <1>2, <1>3, <1>7 DEF Owners, None
<1>9. nft' \in Owners
  BY <1>1, <1>2, <1>7, JobOwners
<1> QED
  BY <1>1, <1>4, <1>5, <1>7, <1>8, <1>9 DEF PlaneInv, OwnedInv

LEMMA JobInstallsPlane == ASSUME PlaneInv, JobInstalls PROVE PlaneInv'
<1>1. /\ job.at = "install" /\ Installs(job.p, job.prev)
      /\ job' = [job EXCEPT !.at = "flush"]
      /\ lock' = lock /\ pass' = pass /\ todo' = todo /\ torn' = torn
      /\ committed' = committed /\ live' = live /\ leftover' = leftover /\ mark' = mark /\ off' = off
  BY DEF JobInstalls, Rest, record, loop
<1>2. /\ lock \notin {None, "loop"} /\ pass \notin {"elect", "restore"} /\ todo = {}
      /\ job.op \in {"apply", "undo", "rollback", "reconcile", "on", "off", "unroute"}
  BY <1>1, JobsOwn DEF None
<1>3. job'.op = job.op /\ job'.p = job.p /\ job'.prev = job.prev /\ job'.at = "flush"
  BY <1>1
<1>4. Tables(job.p, Plan[job.p].slots, Plan[job.p].slots \cup Retire(job.p, job.prev)) /\ nft' = job.p
  BY <1>1 DEF Installs
<1>5. dev' = [s \in Slot |-> dev'[s]] /\ Plan[job.p].slots \subseteq rules'
  BY <1>4, TablesUse
<1>6. LockInv'
  BY <1>1, <1>2, <1>3, <1>4, <1>5 DEF PlaneInv, LockInv
<1>7. Base' = Base /\ Supervised' = Supervised
  BY <1>1 DEF Base, Supervised
<1>8. job.op \notin {"off", "unroute"}
  BY <1>1 DEF PlaneInv, JobFits
<1>9. JobFits'
  BY <1>1, <1>3, <1>7, <1>8 DEF PlaneInv, JobFits
<1>10. Owners' = {job.p}
  BY <1>2, <1>3, <1>8 DEF Owners, None
<1>11. ASSUME "tables" \notin torn PROVE Used' \subseteq Plan[job.p].slots
  <2>1. Used \subseteq Plan[job.p].slots \cup Plan[job.prev].slots
    BY <1>2, <1>8, <1>11, JobOwners DEF PlaneInv, OwnedInv
  <2> QED
    BY <1>1, <2>1, InstallUse
<1> QED
  BY <1>1, <1>4, <1>6, <1>9, <1>10, <1>11 DEF PlaneInv, OwnedInv

LEMMA JobRemovesPlane == ASSUME PlaneInv, JobRemoves PROVE PlaneInv'
<1> DEFINE ps == IF job.op \in {"off", "unroute"} THEN {leftover, committed} ELSE {job.prev}
           kept == IF job.op # "off" THEN job.prev ELSE IF leftover # None THEN leftover ELSE committed
<1>1. /\ job.at = "remove" /\ Removes(ps)
      /\ job' = [job EXCEPT !.at = "flush", !.prev = kept]
      /\ lock' = lock /\ pass' = pass /\ todo' = todo /\ torn' = torn
      /\ committed' = committed /\ live' = live /\ leftover' = leftover /\ mark' = mark /\ off' = off
  BY DEF JobRemoves, Rest, record, loop
<1>2. /\ lock \notin {None, "loop"} /\ pass \notin {"elect", "restore"} /\ todo = {}
      /\ job.op \in {"apply", "undo", "rollback", "reconcile", "on", "off", "unroute"}
  BY <1>1, JobsOwn DEF None
<1>3. /\ job'.op = job.op /\ job'.p = job.p /\ job'.at = "flush"
      /\ job.op # "off" => job'.prev = job.prev
  <2>1. job.op # "off" => kept = job.prev
    OBVIOUS
  <2> HIDE DEF kept
  <2> QED
    BY <1>1, <2>1
<1>4. job.p = None
  BY <1>1 DEF PlaneInv, LockInv
<1>5. /\ Used' \subseteq Used \ UNION {Plan[p].slots : p \in ps}
      /\ nft' \in {nft, None} /\ (~(ps \subseteq {None}) => nft' = None)
      /\ proof' => nft' # None /\ Plan[nft'].slots \subseteq rules'
      /\ dev' = [s \in Slot |-> dev'[s]]
  <2> HIDE DEF ps
  <2> QED
    BY <1>1, RemoveUse DEF PlaneInv
<1>6. LockInv'
  <2> HIDE DEF ps, kept
  <2> QED
    BY <1>1, <1>2, <1>3, <1>5 DEF PlaneInv, LockInv
<1>7. Base' = Base /\ Supervised' = Supervised
  BY <1>1 DEF Base, Supervised
<1>8. JobFits'
  <2> HIDE DEF ps, kept
  <2> QED
    BY <1>1, <1>3, <1>4, <1>7 DEF PlaneInv, JobFits
<1>9. Owners' = {None}
  BY <1>2, <1>3, <1>4 DEF Owners, None
<1>10. Owners \subseteq ps \cup {None}
  <2>1. CASE job.op \in {"off", "unroute"}
    BY <1>1, <2>1 DEF Owners, None
  <2>2. CASE job.op \notin {"off", "unroute"}
    <3>1. Owners \subseteq {job.p, job.prev}
      BY <1>2, <2>2, JobOwners
    <3> QED
      BY <1>4, <2>2, <3>1
  <2> QED
    BY <2>1, <2>2
<1> HIDE DEF ps, kept
<1>11. ASSUME "tables" \notin torn PROVE Used' = {}
  <2>1. Used \subseteq UNION {Plan[p].slots : p \in Owners}
    BY <1>11 DEF PlaneInv, OwnedInv
  <2>2. Used \subseteq UNION {Plan[p].slots : p \in ps}
    BY <1>10, <2>1, EmptyPlan
  <2> QED
    BY <1>5, <2>2
<1>12. ASSUME "flows" \notin torn PROVE nft' = None
  <2>1. nft \in Owners \cup {None}
    BY <1>12 DEF PlaneInv, OwnedInv
  <2> QED
    BY <1>5, <1>10, <2>1
<1> QED
  BY <1>1, <1>6, <1>8, <1>9, <1>11, <1>12 DEF PlaneInv, OwnedInv

LEMMA JobSucceedsPlane == ASSUME PlaneInv, JobSucceeds PROVE PlaneInv'
<1>1. /\ job.at = "flush" /\ Verified
      /\ nft' = nft /\ proof' = proof /\ rules' = rules /\ dev' = dev /\ hole' = hole
      /\ pass' = pass /\ todo' = todo
      /\ torn' = (IF job.op = "reconcile" \/ job.p \in {None, job.prev} THEN torn ELSE torn \ {"flows"})
  BY DEF JobSucceeds, kernel, loop
<1>2. ("tables" \in torn' <=> "tables" \in torn) /\ ("flows" \in torn' => "flows" \in torn)
  BY <1>1
<1>3. /\ lock \notin {None, "loop"} /\ pass \notin {"elect", "restore"} /\ todo = {}
      /\ job.op \in {"apply", "undo", "rollback", "reconcile", "on", "off", "unroute"}
  BY <1>1, JobsOwn DEF None
<1>4. Used' = Used
  BY <1>1 DEF Used
<1>5. ASSUME job.op \notin {"off", "unroute"}
      PROVE  /\ "flows" \notin torn' => nft \in {job.p, None}
             /\ "tables" \notin torn' => Used \subseteq Plan[job.p].slots
  <2>1. Owners = {job.p}
    BY <1>1, <1>3, <1>5, JobOwners
  <2>2. "flows" \notin torn => nft \in {job.p, None}
    BY <2>1 DEF PlaneInv, OwnedInv
  <2>3. "flows" \notin torn' => "flows" \notin torn \/ nft = job.p
    BY <1>1 DEF Verified
  <2>4. "tables" \notin torn => Used \subseteq Plan[job.p].slots
    BY <2>1 DEF PlaneInv, OwnedInv
  <2> QED
    BY <1>2, <2>2, <2>3, <2>4
<1>6. JobFits
  BY DEF PlaneInv
<1>7. CASE job.op = "apply"
  <2>1. /\ live' = job.p /\ mark' = None /\ lock' = None /\ job' = Idle
        /\ committed' = committed /\ leftover' = leftover /\ off' = off
    BY <1>7 DEF JobSucceeds, Ends
  <2>2. LockInv'
    BY <1>1, <1>2, <1>3, <1>7, <2>1 DEF PlaneInv, LockInv, Idle, None
  <2>3. Base' = job.p /\ off' = "on"
    BY <1>6, <1>7, <2>1 DEF Base, JobFits, PlaneInv, LockInv
  <2>4. Owners' = {job.p}
    BY <2>1, <2>3 DEF Owners, Idle, None
  <2>5. JobFits'
    BY <1>2, <1>6, <2>1 DEF JobFits, Idle, None
  <2> QED
    BY <1>1, <1>4, <1>5, <1>7, <2>2, <2>4, <2>5 DEF PlaneInv, OwnedInv
<1>8. CASE job.op = "undo" /\ mark # None
  <2>1. /\ lock' = lock /\ job' = Job("rollback", committed, live)
        /\ committed' = committed /\ live' = live /\ leftover' = leftover /\ mark' = mark /\ off' = off
    BY <1>8 DEF JobSucceeds, Then, record
  <2>2. LockInv'
    BY <1>1, <1>2, <1>3, <1>8, <2>1 DEF PlaneInv, LockInv, Job, None
  <2>3. "tables" \in torn' /\ job.p = committed
    BY <1>2, <1>6, <1>8 DEF JobFits
  <2>4. JobFits'
    BY <1>2, <1>6, <1>8, <2>1, <2>3 DEF JobFits, Job, None
  <2>5. Owners' = {committed, live}
    BY <2>1 DEF Owners, Job, None
  <2> QED
    BY <1>1, <1>4, <1>5, <1>8, <2>2, <2>3, <2>4, <2>5 DEF PlaneInv, OwnedInv
<1>9. CASE (job.op = "undo" /\ mark = None) \/ job.op \in {"reconcile", "off", "unroute"}
  <2>1. /\ lock' = None /\ job' = Idle
        /\ committed' = committed /\ live' = live /\ leftover' = leftover /\ mark' = mark
        /\ off' = (IF job.op = "unroute" THEN "off" ELSE off)
    BY <1>9 DEF JobSucceeds, Ends, record
  <2>2. LockInv'
    BY <1>1, <1>2, <1>3, <2>1 DEF PlaneInv, LockInv, Idle, None
  <2>3. job.op # "reconcile" => mark = None
    BY <1>6, <1>9 DEF JobFits, PlaneInv, LockInv
  <2>4. JobFits'
    BY <1>1, <1>2, <1>6, <1>9, <2>1, <2>3 DEF JobFits, Idle, None
  <2>5. CASE job.op \in {"off", "unroute"}
    <3>1. Owners = {None} /\ torn' = torn
      BY <1>1, <1>6, <2>5 DEF Owners, JobFits, None
    <3>2. ("flows" \notin torn => nft = None) /\ ("tables" \notin torn => Used = {})
      BY <3>1, EmptyPlan DEF PlaneInv, OwnedInv
    <3> QED
      BY <1>1, <1>4, <2>2, <2>4, <3>1, <3>2 DEF PlaneInv, OwnedInv
  <2>6. CASE job.op \notin {"off", "unroute"}
    <3>1. Base' = Base /\ off' = "on"
      BY <1>6, <1>9, <2>1, <2>6 DEF Base, PlaneInv, LockInv
    <3>2. Owners' = {Base}
      BY <2>1, <3>1 DEF Owners, Idle, None
    <3>3. mark = None => job.p = Base
      BY <1>6, <1>9, <2>6 DEF JobFits, Supervised, None
    <3>4. mark # None => "flows" \in torn' /\ "tables" \in torn'
      BY <1>1, <1>6, <1>9, <2>3, <2>6 DEF JobFits
    <3> QED
      BY <1>1, <1>4, <1>5, <2>2, <2>4, <2>6, <3>2, <3>3, <3>4 DEF PlaneInv, OwnedInv
  <2> QED
    BY <2>5, <2>6
<1>10. CASE job.op = "rollback"
  <2>1. /\ live' = None /\ mark' = None /\ lock' = None /\ job' = Idle
        /\ committed' = committed /\ leftover' = leftover /\ off' = off
    BY <1>10 DEF JobSucceeds, Ends
  <2>2. LockInv'
    BY <1>1, <1>2, <1>3, <2>1 DEF PlaneInv, LockInv, Idle, None
  <2>3. JobFits'
    BY <1>2, <1>6, <2>1 DEF JobFits, Idle, None
  <2>4. Base' = job.p /\ off' = "on"
    BY <1>6, <1>10, <2>1 DEF Base, JobFits, PlaneInv, LockInv
  <2>5. Owners' = {job.p}
    BY <2>1, <2>4 DEF Owners, Idle, None
  <2> QED
    BY <1>1, <1>4, <1>5, <1>10, <2>2, <2>3, <2>5 DEF PlaneInv, OwnedInv
<1>11. CASE job.op = "on"
  <2>1. /\ off' = "on" /\ leftover' = None /\ lock' = None /\ job' = Idle
        /\ committed' = committed /\ live' = live /\ mark' = mark
    BY <1>11 DEF JobSucceeds, Ends
  <2>2. LockInv'
    BY <1>1, <1>2, <1>3, <2>1 DEF PlaneInv, LockInv, Idle, None
  <2>3. mark = None /\ live = None
    BY <1>11 DEF PlaneInv, LockInv
  <2>4. JobFits'
    BY <1>2, <1>6, <2>1, <2>3 DEF JobFits, Idle, None
  <2>5. Base' = job.p
    BY <1>6, <1>11, <2>1, <2>3 DEF Base, JobFits
  <2>6. Owners' = {job.p}
    BY <2>1, <2>5 DEF Owners, Idle, None
  <2> QED
    BY <1>1, <1>4, <1>5, <1>11, <2>2, <2>4, <2>6 DEF PlaneInv, OwnedInv
<1> QED
  BY <1>3, <1>7, <1>8, <1>9, <1>10, <1>11

\* Whatever a failed step leaves in the kernel belongs to the job's plan or
\* was there before.
LEMMA FailedStep ==
  ASSUME PlaneInv, JobFails
  PROVE  /\ job.at \in {"load", "install", "remove", "flush"}
         /\ Used' \subseteq Used \cup Plan[job.p].slots /\ (job.at # "install" => Used' \subseteq Used)
         /\ nft' \in {nft, None}
         /\ proof' => nft' # None /\ Plan[nft'].slots \subseteq rules'
         /\ dev' = [s \in Slot |-> dev'[s]]
<1>1. CASE job.at = "install" /\ InstallFails(job.p)
  <2>1. ~proof
    BY <1>1 DEF PlaneInv, LockInv
  <2> QED
    BY <1>1, <2>1, InstallFailsUse
<1>2. CASE job.at \in {"load", "remove", "flush"} /\ UNCHANGED kernel
  <2>1. nft' = nft /\ proof' = proof /\ rules' = rules /\ dev' = dev /\ hole' = hole
    BY <1>2 DEF kernel
  <2>2. Used' = Used
    BY <2>1 DEF Used
  <2> QED
    BY <1>2, <2>1, <2>2 DEF PlaneInv, LockInv
<1> QED
  BY <1>1, <1>2 DEF JobFails, RemoveFails

LEMMA JobFailsPlane == ASSUME PlaneInv, JobFails PROVE PlaneInv'
<1>1. pass' = pass /\ todo' = todo /\ torn' = (IF job.op \in {"undo", "rollback"} THEN {"flows", "tables"} ELSE torn)
  BY DEF JobFails, loop
<1>2. /\ job.at \in {"load", "install", "remove", "flush"}
      /\ nft' \in {nft, None}
      /\ proof' => nft' # None /\ Plan[nft'].slots \subseteq rules'
      /\ dev' = [s \in Slot |-> dev'[s]]
  BY FailedStep
<1>3. /\ lock \notin {None, "loop"} /\ pass \notin {"elect", "restore"} /\ todo = {}
      /\ job.op \in {"apply", "undo", "rollback", "reconcile", "on", "off", "unroute"}
  BY <1>2, JobsOwn DEF None
<1>4. /\ JobFits
      /\ "flows" \notin torn => nft \in Owners \cup {None}
      /\ "tables" \notin torn => Used \subseteq UNION {Plan[p].slots : p \in Owners}
  BY DEF PlaneInv, OwnedInv
<1>5. ASSUME job.op \notin {"off", "unroute"}
      PROVE  /\ "flows" \notin torn => nft' \in {job.p, job.prev, None}
             /\ "tables" \notin torn => Used' \subseteq Plan[job.p].slots \cup Plan[job.prev].slots
             /\ job.at = "flush" \/ job.op = "reconcile" =>
                  /\ "flows" \notin torn => nft' \in {job.p, None}
                  /\ "tables" \notin torn => Used' \subseteq Plan[job.p].slots
  <2>1. /\ Owners \subseteq {job.p, job.prev}
        /\ UNION {Plan[p].slots : p \in Owners} \subseteq Plan[job.p].slots \cup Plan[job.prev].slots
    BY <1>3, <1>5, JobOwners
  <2>2. job.at = "flush" \/ job.op = "reconcile" => Owners = {job.p}
    BY <1>3, <1>5, JobOwners DEF Owners, None
  <2> QED
    BY <1>2, <1>4, <2>1, <2>2, FailedStep
<1>6. CASE job.op = "apply"
  <2> DEFINE back == IF mark # None THEN committed ELSE Base
  <2>1. /\ lock' = lock /\ job' = Job("undo", back, job.p) /\ torn' = torn
        /\ committed' = committed /\ live' = live /\ leftover' = leftover /\ mark' = mark /\ off' = off
    BY <1>1, <1>6 DEF JobFails, Then, record
  <2>2. job'.op = "undo" /\ job'.p = back /\ job'.prev = job.p /\ job'.at = (IF back = None THEN "remove" ELSE "load")
    <3> HIDE DEF back
    <3> QED
      BY <2>1 DEF Job
  <2>3. LockInv'
    <3> HIDE DEF back
    <3> QED
      BY <1>1, <1>2, <1>3, <1>6, <2>1, <2>2 DEF PlaneInv, LockInv, None
  <2>4. Base' = Base
    BY <2>1 DEF Base
  <2>5. JobFits'
    BY <1>4, <1>6, <2>1, <2>2, <2>4 DEF JobFits
  <2>6. Owners' = {back, job.p}
    BY <2>2 DEF Owners, None
  <2>7. "flows" \notin torn => back = job.prev
    BY <1>4, <1>6 DEF JobFits
  <2> HIDE DEF back
  <2>8. "tables" \notin torn => "flows" \notin torn
    BY <1>4 DEF JobFits
  <2> QED
    BY <1>5, <1>6, <2>1, <2>3, <2>5, <2>6, <2>7, <2>8 DEF PlaneInv, OwnedInv
<1>7. CASE job.op \in {"undo", "rollback"}
  <2>1. /\ mark' # None /\ lock' = None /\ job' = Idle /\ off' = off /\ leftover' = leftover
        /\ live' = (IF live = None THEN job.prev ELSE live)
        /\ "tables" \in torn' /\ "flows" \in torn'
    <3>1. CASE job.op = "undo"
      BY <1>1, <3>1 DEF JobFails, UndoFails, PlaneAfter, Ends, None
    <3>2. CASE job.op = "rollback"
      BY <1>1, <1>4, <3>2 DEF JobFails, PlaneAfter, Ends, JobFits, None
    <3> QED
      BY <1>7, <3>1, <3>2
  <2>2. LockInv'
    BY <1>1, <1>2, <1>3, <1>7, <2>1 DEF PlaneInv, LockInv, Idle, None
  <2>3. JobFits'
    BY <1>4, <1>7, <2>1 DEF JobFits, Idle, None
  <2> QED
    BY <2>1, <2>2, <2>3 DEF PlaneInv, OwnedInv
<1>8. CASE job.op = "on"
  <2>1. /\ lock' = lock /\ job' = Job("unroute", None, None) /\ torn' = torn
        /\ committed' = committed /\ live' = live /\ leftover' = leftover /\ mark' = mark /\ off' = off
    BY <1>1, <1>8 DEF JobFails, Then, record
  <2>2. LockInv'
    BY <1>1, <1>2, <1>3, <1>8, <2>1 DEF PlaneInv, LockInv, Job, None
  <2>3. JobFits'
    BY <1>4, <1>8, <2>1 DEF JobFits, PlaneInv, LockInv, Job, None
  <2>4. Owners' = {leftover, committed}
    BY <2>1 DEF Owners, Job, None
  <2>5. job.p = committed /\ job.prev = leftover
    BY <1>4, <1>8 DEF JobFits
  <2>6. /\ "flows" \notin torn => nft' \in {leftover, committed, None}
        /\ "tables" \notin torn => Used' \subseteq Plan[leftover].slots \cup Plan[committed].slots
    BY <1>5, <1>8, <2>5
  <2> QED
    BY <2>1, <2>2, <2>3, <2>4, <2>6 DEF PlaneInv, OwnedInv
<1>9. CASE job.op \in {"off", "unroute"}
  <2>1. /\ off' = "failed" /\ lock' = None /\ job' = Idle /\ torn' = torn
        /\ committed' = committed /\ live' = live /\ leftover' = leftover /\ mark' = mark
    BY <1>1, <1>9 DEF JobFails, Ends
  <2>2. LockInv'
    BY <1>1, <1>2, <1>3, <1>9, <2>1 DEF PlaneInv, LockInv, Idle, None
  <2>3. JobFits'
    BY <1>4, <1>9, <2>1 DEF JobFits, PlaneInv, LockInv, Idle, None
  <2>4. Owners' = {leftover, committed}
    BY <2>1 DEF Owners, Idle, None
  <2>5. Owners = IF job.at = "remove" THEN {leftover, committed} ELSE {None}
    BY <1>9 DEF Owners, None
  <2>6. job.at # "install"
    BY <1>4, <1>9 DEF JobFits
  <2>7. Used' \subseteq Used /\ nft' \in {nft, None}
    BY <2>6, FailedStep
  <2>8. /\ "flows" \notin torn => nft' \in {leftover, committed, None}
        /\ "tables" \notin torn => Used' \subseteq Plan[leftover].slots \cup Plan[committed].slots
    BY <1>4, <2>5, <2>7, EmptyPlan
  <2> QED
    BY <2>1, <2>2, <2>3, <2>4, <2>8 DEF PlaneInv, OwnedInv
<1>10. CASE job.op = "reconcile"
  <2>1. /\ lock' = None /\ job' = Idle /\ torn' = torn
        /\ committed' = committed /\ live' = live /\ leftover' = leftover /\ mark' = mark /\ off' = off
    BY <1>1, <1>10 DEF JobFails, Ends, record
  <2>2. LockInv'
    BY <1>1, <1>2, <1>3, <2>1 DEF PlaneInv, LockInv, Idle, None
  <2>3. Base' = Base /\ off' = "on" /\ (mark = None => job.p = Base)
    BY <1>4, <1>10, <2>1 DEF Base, Supervised, JobFits, PlaneInv, LockInv, None
  <2>4. JobFits'
    BY <1>4, <1>10, <2>1 DEF JobFits, Idle, None
  <2>5. Owners' = {Base}
    BY <2>1, <2>3 DEF Owners, Idle, None
  <2>6. mark # None => "flows" \in torn /\ "tables" \in torn
    BY <1>4, <1>10 DEF JobFits
  <2> QED
    BY <1>5, <1>10, <2>1, <2>2, <2>3, <2>4, <2>5, <2>6 DEF PlaneInv, OwnedInv
<1> QED
  BY <1>3, <1>6, <1>7, <1>8, <1>9, <1>10
----------------------------------------------------------------------------
(* The list failover pass                                                   *)

LEMMA LoopPlane == ASSUME PlaneInv, LoopStep PROVE PlaneInv'
<1>1. /\ job' = job /\ torn' = torn
      /\ committed' = committed /\ live' = live /\ leftover' = leftover /\ mark' = mark /\ off' = off
  BY DEF LoopStep, PassChecks, PassLocks, PassWrites, PassRestores, PassEnds, Panel, record
<1>2. nft' = nft /\ proof' = proof /\ rules' = rules /\ hole' = hole
  BY DEF LoopStep, PassChecks, PassLocks, PassWrites, PassRestores, PassEnds, kernel
<1>3. Base' = Base /\ Supervised' = Supervised /\ (JobFits => JobFits')
  BY <1>1 DEF Base, Supervised, JobFits
<1>4. Owners' = Owners
  BY <1>1, <1>3 DEF Owners
<1>5. CASE PassChecks
  <2>1. pass = "idle" /\ pass' = "checked" /\ lock' = lock /\ todo' = todo /\ dev' = dev
    BY <1>5 DEF PassChecks, kernel
  <2>2. LockInv'
    BY <1>1, <1>2, <1>3, <2>1 DEF PlaneInv, LockInv
  <2>3. Used' = Used
    BY <1>2, <2>1 DEF Used
  <2> QED
    BY <1>1, <1>2, <1>3, <1>4, <2>2, <2>3 DEF PlaneInv, OwnedInv
<1>6. CASE PassLocks
  <2>1. pass = "checked" /\ dev' = dev
    BY <1>6 DEF PassLocks, kernel
  <2>2. Used' = Used
    BY <1>2, <2>1 DEF Used
  <2>3. CASE pass' = "idle" /\ lock' = lock /\ todo' = todo
    <3>1. LockInv'
      BY <1>1, <1>2, <1>3, <2>1, <2>3 DEF PlaneInv, LockInv
    <3> QED
      BY <1>1, <1>2, <1>3, <1>4, <2>2, <3>1 DEF PlaneInv, OwnedInv
  <2>4. CASE /\ lock = None /\ PassGoesOn /\ pass' = "elect" /\ lock' = "loop"
             /\ \E read \in {Family, {4}} :
                  todo' = {w \in Repoints(Supervised, read) : w[2] \notin {None, dev[w[1]]}}
    <3>1. off = "on" /\ Supervised # None
      BY <2>4 DEF PassGoesOn
    <3>2. \A w \in todo' : w[1] \in Plan[Supervised].slots
      BY <2>4, <3>1 DEF Repoints
    <3>3. job = Idle
      BY <2>4 DEF PlaneInv, LockInv
    <3>4. LockInv'
      BY <1>1, <1>2, <1>3, <2>1, <2>4, <3>1, <3>2, <3>3 DEF PlaneInv, LockInv, None
    <3> QED
      BY <1>1, <1>2, <1>3, <1>4, <2>2, <3>4 DEF PlaneInv, OwnedInv
  <2> QED
    BY <1>6, <2>3, <2>4 DEF PassLocks
<1>7. CASE PassWrites
  <2>1. lock' = lock /\ pass' = pass
    BY <1>7 DEF PassWrites
  <2>2. PICK w \in todo : todo' = todo \ {w} /\ (dev' = dev \/ dev' = [dev EXCEPT ![w[1]] = w[2]])
    BY <1>7 DEF PassWrites
  <2>3. lock = "loop" /\ job = Idle /\ off = "on" /\ w[1] \in Plan[Supervised].slots
    BY <2>2 DEF PlaneInv, LockInv
  <2>4. dev = [s \in Slot |-> dev[s]]
    BY DEF PlaneInv, LockInv
  <2>5. /\ dev' = [s \in Slot |-> dev'[s]]
        /\ \A s \in Slot : dev'[s] # dev[s] => s = w[1]
    <3> HIDE DEF Slot
    <3>1. CASE dev' = dev
      BY <2>4, <3>1
    <3>2. CASE dev' = [dev EXCEPT ![w[1]] = w[2]]
      <4>1. DOMAIN dev = Slot
        BY <2>4
      <4>2. dev' = [s \in DOMAIN dev |-> IF s = w[1] THEN w[2] ELSE dev[s]]
        BY <3>2, <2>4
      <4> QED
        BY <4>1, <4>2
    <3> QED
      BY <2>2, <3>1, <3>2
  <2>6. "tables" \notin torn => Used' \subseteq Used \cup Plan[Base].slots
    <3>1. Used' \subseteq Used \cup Plan[Supervised].slots
      BY <1>2, <2>3, <2>5 DEF Used
    <3>2. "tables" \notin torn => Supervised = Base
      BY DEF PlaneInv, JobFits, Supervised, None
    <3> QED
      BY <3>1, <3>2
  <2>7. Owners = {Base}
    BY <2>3 DEF Owners, Idle, None
  <2>8. LockInv'
    BY <1>1, <1>2, <1>3, <2>1, <2>2, <2>3, <2>5 DEF PlaneInv, LockInv
  <2> QED
    BY <1>1, <1>2, <1>3, <1>4, <2>6, <2>7, <2>8 DEF PlaneInv, OwnedInv
<1>8. CASE PassRestores
  <2>1. /\ pass = "elect" /\ pass' = "restore" /\ lock' = lock /\ dev' = dev
        /\ todo' = {<<s, TagAt(Supervised, s)>> :
                      s \in {s \in Plan[Supervised].slots : TagAt(Supervised, s) \in link /\ s \in seen}}
    BY <1>8 DEF PassRestores, kernel
  <2>2. lock = "loop"
    BY <2>1 DEF PlaneInv, LockInv
  <2>3. \A w \in todo' : w[1] \in Plan[Supervised].slots
    BY <2>1
  <2>4. LockInv'
    BY <1>1, <1>2, <1>3, <2>1, <2>2, <2>3 DEF PlaneInv, LockInv
  <2>5. Used' = Used
    BY <1>2, <2>1 DEF Used
  <2> QED
    BY <1>1, <1>2, <1>3, <1>4, <2>4, <2>5 DEF PlaneInv, OwnedInv
<1>9. CASE PassEnds
  <2>1. pass = "restore" /\ todo = {} /\ pass' = "idle" /\ lock' = None /\ todo' = todo /\ dev' = dev
    BY <1>9 DEF PassEnds, kernel
  <2>2. lock = "loop" /\ job = Idle
    BY <2>1 DEF PlaneInv, LockInv
  <2>3. LockInv'
    BY <1>1, <1>2, <1>3, <2>1, <2>2 DEF PlaneInv, LockInv, None
  <2>4. Used' = Used
    BY <1>2, <2>1 DEF Used
  <2> QED
    BY <1>1, <1>2, <1>3, <1>4, <2>3, <2>4 DEF PlaneInv, OwnedInv
<1> QED
  BY <1>5, <1>6, <1>7, <1>8, <1>9 DEF LoopStep
----------------------------------------------------------------------------
(* Packets, links and the firewall                                          *)

\* A step that leaves the record, the lock and the jobs alone, adds no rule,
\* route or blackhole and keeps the table or drops it with its marker.
LEMMA AroundPlane ==
  ASSUME PlaneInv, UNCHANGED <<record, lock, job, loop, torn>>, rules' = rules, hole' = hole,
         \/ nft' = nft /\ proof' = proof
         \/ nft' = None /\ proof' = FALSE,
         \/ dev' = dev
         \/ \E i : dev' = [s \in Slot |-> IF dev[s] = i THEN None ELSE dev[s]]
  PROVE  PlaneInv'
<1>1. /\ job' = job /\ torn' = torn /\ lock' = lock /\ pass' = pass /\ todo' = todo
      /\ committed' = committed /\ live' = live /\ leftover' = leftover /\ mark' = mark /\ off' = off
  BY DEF record, loop
<1>2. Base' = Base /\ Supervised' = Supervised /\ (JobFits => JobFits')
  BY <1>1 DEF Base, Supervised, JobFits
<1>3. Owners' = Owners
  BY <1>1, <1>2 DEF Owners
<1>4. dev' = [s \in Slot |-> dev'[s]] /\ \A s \in Slot : dev'[s] \in {dev[s], None}
  <2> HIDE DEF Slot
  <2>1. CASE dev' = dev
    BY <2>1 DEF PlaneInv, LockInv
  <2>2. ASSUME NEW i, dev' = [s \in Slot |-> IF dev[s] = i THEN None ELSE dev[s]]
        PROVE  dev' = [s \in Slot |-> dev'[s]] /\ \A s \in Slot : dev'[s] \in {dev[s], None}
    BY <2>2
  <2> QED
    BY <2>1, <2>2
<1>5. Used' \subseteq Used
  BY <1>4 DEF Used
<1>6. LockInv'
  BY <1>1, <1>2, <1>4 DEF PlaneInv, LockInv
<1> QED
  BY <1>1, <1>2, <1>3, <1>5, <1>6 DEF PlaneInv, OwnedInv

LEMMA WorldPlane ==
  ASSUME PlaneInv,
         \/ \E f \in Flow : Packet(f) \/ FlowEnds(f)
         \/ FirewallReloads
         \/ \E i \in Unsteady : LinkDown(i) \/ LinkUp(i) \/ HealthTurns(i)
         \/ UNCHANGED vars
  PROVE  PlaneInv'
<1>1. UNCHANGED <<record, lock, job, loop, torn>> /\ rules' = rules /\ hole' = hole
  BY DEF Packet, FlowEnds, FirewallReloads, LinkDown, LinkUp, HealthTurns, Around, kernel, vars
<1>2. \/ nft' = nft /\ proof' = proof
      \/ nft' = None /\ proof' = FALSE
  BY DEF Packet, FlowEnds, FirewallReloads, LinkDown, LinkUp, HealthTurns, Around, kernel, vars
<1>3. \/ dev' = dev
      \/ \E i : dev' = [s \in Slot |-> IF dev[s] = i THEN None ELSE dev[s]]
  BY DEF Packet, FlowEnds, FirewallReloads, LinkDown, LinkUp, HealthTurns, Around, kernel, vars
<1> QED
  BY <1>1, <1>2, <1>3, AroundPlane
----------------------------------------------------------------------------

(* Who holds applyMu, what the record says and who may own what is in the   *)
(* kernel belong together in every state of every instance (runApply,       *)
(* rollBack, the routing switch, reconcile and the list failover pass).     *)
THEOREM PlaneCorrect == Spec => []PlaneInv
<1>1. PlaneInv /\ [Next]_vars => PlaneInv'
  <2> SUFFICES ASSUME PlaneInv, [Next]_vars PROVE PlaneInv'
    OBVIOUS
  <2>1. CASE PanelBegins
    BY <2>1, ApplyPlane, RollBackPlane, KeepPlane, RoutingOffPlane, RoutingOnPlane DEF PanelBegins
  <2>2. CASE Reconcile
    BY <2>2, ReconcilePlane
  <2>3. CASE JobStep
    BY <2>3, JobLoadsPlane, JobInstallsPlane, JobRemovesPlane, JobSucceedsPlane, JobFailsPlane DEF JobStep
  <2>4. CASE LoopStep
    BY <2>4, LoopPlane
  <2> QED
    BY <2>1, <2>2, <2>3, <2>4, WorldPlane DEF Next
<1> QED
  BY InitPlane, <1>1, PTL DEF Spec

(* Nothing outlives the plan that owned it: while a plane is in place the   *)
(* tables in use are exactly its own, and once routing is off nothing is    *)
(* left, unless a rollback failed in or after its kernel step.              *)
THEOREM PlaneCleansUp == Spec => []NothingLeftBehind
<1>1. ASSUME PlaneInv PROVE NothingLeftBehind
  <2>1. ASSUME InPlace, "tables" \notin torn
        PROVE  Used \subseteq Plan[Supervised].slots /\ rules = Plan[Supervised].slots
    <3>1. job = Idle /\ off = "on" /\ Supervised = Base /\ nft = Supervised /\ proof
      BY <1>1, <2>1 DEF InPlace, PlaneInv, LockInv, JobFits, Supervised, None
    <3>2. Owners = {Base}
      BY <3>1 DEF Owners, Idle, None
    <3>3. Used \subseteq Plan[Supervised].slots
      BY <1>1, <2>1, <3>1, <3>2 DEF PlaneInv, OwnedInv
    <3>4. Plan[Supervised].slots \subseteq rules
      BY <1>1, <3>1 DEF PlaneInv, LockInv
    <3> QED
      BY <3>3, <3>4 DEF Used
  <2>2. ASSUME off = "off", lock = None, "tables" \notin torn PROVE Used = {} /\ nft = None
    <3>1. job = Idle
      BY <1>1, <2>2 DEF PlaneInv, LockInv
    <3>2. Owners = {None}
      BY <2>2, <3>1 DEF Owners, Idle, None
    <3>3. "flows" \notin torn
      BY <1>1, <2>2 DEF PlaneInv, JobFits
    <3> QED
      BY <1>1, <2>2, <3>2, <3>3, EmptyPlan DEF PlaneInv, OwnedInv
  <2> QED
    BY <2>1, <2>2 DEF NothingLeftBehind
<1> QED
  BY <1>1, PlaneCorrect, PTL
----------------------------------------------------------------------------
(* Flows.  From here on the compiler is taken to be right about each        *)
(* profile on its own (CompilesRight); the question is whether what the     *)
(* panel and the loops do over time keeps packets on the compiled exits.    *)

PacketInv == RecordInv /\ FlowInv /\ TableInv

LEMMA PlanNat ==
  ASSUME CompilesRight, NEW p \in Profile \cup {None}
  PROVE  Plan[p].slots \subseteq Slot /\ \A f \in Flow : Plan[p].mark[f] \in Nat
<1>1. CASE p = None
  <2>1. \A f \in Flow : Plan[p].mark[f] = 0
    BY <1>1 DEF Plan
  <2> QED
    BY <1>1, <2>1, EmptyPlan
<1>2. CASE p # None
  <2>1. p \in Profile
    BY <1>2
  <2>2. Mark \subseteq Nat
    BY DEF Mark
  <2> QED
    BY <2>1, <2>2 DEF CompilesRight
<1> QED
  BY <1>1, <1>2

\* The empty plan owns the WAN's mark alone, so no flow is pinned against it.
LEMMA NoneFits == ASSUME NEW m \in Nat, NEW f \in Flow
                  PROVE  ~(Owns(None, m) /\ Route(Plan[None].mark[f]) # Route(m))
<1>1. Plan[None].tags = <<>> /\ Plan[None].mark[f] = 0
  BY DEF Plan
<1>2. Owns(None, m) => m = 1
  BY <1>1 DEF Owns
<1> QED
  BY <1>1, <1>2 DEF Route

LEMMA FlowKept ==
  ASSUME FlowInv, ct' = ct,
         "flows" \notin torn' =>
           /\ "flows" \notin torn
           /\ off' = "on" /\ job'.op \in {None, "reconcile"} =>
                off = "on" /\ job.op \in {None, "reconcile"} /\ Base' = Base
           /\ job'.op \in {"apply", "undo", "rollback"} /\ job'.p = job'.prev =>
                \/ job.op \in {"apply", "undo", "rollback"} /\ job.p = job.prev /\ job'.p = job.p
                \/ off = "on" /\ job.op \in {None, "reconcile"} /\ job'.p = Base
           /\ off' # "on" /\ leftover' = committed' =>
                \/ off # "on" /\ leftover = committed /\ committed' = committed
                \/ off = "on" /\ job.op \in {None, "reconcile"} /\ committed' = Base
                \/ committed' = None
  PROVE  FlowInv'
<1>1. ct' \in [Flow -> Nat]
  BY DEF FlowInv
<1>2. ASSUME "flows" \notin torn', off' = "on", job'.op \in {None, "reconcile"} PROVE Fits(Base)'
  BY <1>2 DEF FlowInv, Fits, Stale, Owns
<1>3. ASSUME "flows" \notin torn', job'.op \in {"apply", "undo", "rollback"}, job'.p = job'.prev PROVE Fits(job.p)'
  BY <1>3 DEF FlowInv, Fits, Stale, Owns
<1>4. ASSUME "flows" \notin torn', off' # "on", leftover' = committed' PROVE Fits(committed)'
  <2>1. CASE committed' = None
    BY <1>1, <2>1, NoneFits DEF Fits, Stale
  <2>2. CASE committed' # None
    BY <1>4, <2>2 DEF FlowInv, Fits, Stale, Owns
  <2> QED
    BY <2>1, <2>2
<1> QED
  BY <1>1, <1>2, <1>3, <1>4 DEF FlowInv

LEMMA FlushTyped ==
  ASSUME NEW old, NEW cur, ct \in [Flow -> Nat], Flush(old, cur)
  PROVE  ct' \in [Flow -> Nat]
<1>1. ASSUME NEW f \in Flow PROVE ct'[f] \in {ct[f], 0}
  BY DEF Flush
<1>2. \A f \in Flow : ct'[f] \in Nat
  BY <1>1
<1> QED
  BY <1>2 DEF Flush

LEMMA FlushKeeps ==
  ASSUME NEW old, NEW cur, NEW p, Flush(old, cur), Fits(p)
  PROVE  Fits(p)'
<1>1. ASSUME NEW f \in Flow PROVE ct'[f] \in {ct[f], 0}
  BY DEF Flush
<1>2. ~Owns(p, 0)
  BY DEF Owns
<1> QED
  BY <1>1, <1>2 DEF Fits, Stale

\* The flush of a job leaves no flow pinned against the plan it put in.
LEMMA FlushFits ==
  ASSUME CompilesRight, NEW old \in Profile \cup {None}, NEW cur \in Profile \cup {None},
         ct \in [Flow -> Nat], Flush(old, cur), old = cur => Fits(cur)
  PROVE  ct' \in [Flow -> Nat] /\ Fits(cur)'
<1>1. ct' \in [Flow -> Nat]
  BY FlushTyped
<1>2. ASSUME NEW f \in Flow PROVE ~Stale(cur, f)'
  <2>1. CASE old = cur
    <3>1. ct'[f] = ct[f]
      BY <2>1 DEF Flush
    <3> QED
      BY <2>1, <3>1 DEF Fits, Stale
  <2>2. CASE cur = None
    BY <1>1, <2>2, NoneFits DEF Stale
  <2>3. CASE old # cur /\ cur # None
    <3>1. ct'[f] = IF Stale(cur, f) THEN 0 ELSE ct[f]
      BY <2>3 DEF Flush
    <3>2. ~Owns(cur, 0)
      BY DEF Owns
    <3> QED
      BY <3>1, <3>2 DEF Stale
  <2> QED
    BY <2>1, <2>2, <2>3
<1> QED
  BY <1>1, <1>2 DEF Fits

LEMMA PacketFits ==
  ASSUME CompilesRight, RecordInv, FlowInv, NEW f \in Flow, Packet(f)
  PROVE  ct' \in [Flow -> Nat] /\ (Fits(nft) => Fits(nft)')
<1>1. nft # None /\ nft' = nft /\ ct' = [ct EXCEPT ![f] = PacketMark(f)]
  BY DEF Packet, kernel
<1>2. ct \in [Flow -> Nat]
  BY DEF FlowInv
<1>3. PacketMark(f) \in Nat
  BY <1>2, PlanNat DEF PacketMark, RecordInv
<1>4. ct' \in [Flow -> Nat]
  BY <1>1, <1>2, <1>3
<1>5. ASSUME Fits(nft), NEW g \in Flow PROVE ~Stale(nft, g)'
  <2>1. CASE g # f
    BY <1>1, <1>2, <1>5, <2>1 DEF Fits, Stale
  <2>2. CASE g = f
    <3>1. ct'[g] = PacketMark(f)
      BY <1>1, <1>2, <2>2
    <3> QED
      BY <1>1, <1>5, <2>2, <3>1 DEF Fits, Stale, PacketMark
  <2> QED
    BY <2>1, <2>2
<1> QED
  BY <1>1, <1>4, <1>5 DEF Fits

LEMMA RecordStep == ASSUME RecordInv, [Next]_vars PROVE RecordInv'
<1> DEFINE P == Profile \cup {None}
<1>1. /\ committed \in P /\ live \in P /\ leftover \in P /\ nft \in P /\ job.p \in P /\ job.prev \in P
      /\ link \subseteq Endpoint /\ mark \in {None, "tested", "committed", "unknown"}
  BY DEF RecordInv
<1>2. Base \in P /\ None \in P
  BY <1>1 DEF Base
<1> SUFFICES /\ committed' \in P /\ live' \in P /\ leftover' \in P /\ nft' \in P /\ job'.p \in P /\ job'.prev \in P
             /\ link' \subseteq Endpoint /\ mark' \in {None, "tested", "committed", "unknown"}
  BY DEF RecordInv
<1> HIDE DEF P
<1>3. CASE PanelBegins \/ Reconcile
  <2>1. nft' = nft /\ link' = link
    BY <1>3 DEF PanelBegins, Apply, RollBack, Keep, RoutingOff, RoutingOn, Reconcile, Begins, kernel, world
  <2>2. committed' \in P /\ live' \in P /\ leftover' \in P /\ mark' \in {None, "tested", "committed", "unknown"}
    BY <1>1, <1>2, <1>3 DEF PanelBegins, Apply, RollBack, Keep, RoutingOff, RoutingOn, Reconcile, record
  <2>3. job'.p \in P /\ job'.prev \in P
    <3>1. ASSUME NEW p \in Profile, Apply(p) PROVE job'.p \in P /\ job'.prev \in P
      BY <1>2, <3>1 DEF Apply, Begins, Job, P
    <3>2. CASE RollBack
      BY <1>1, <3>2 DEF RollBack, Begins, Job
    <3>3. CASE Keep
      BY <1>1, <3>3 DEF Keep
    <3>4. CASE RoutingOff
      BY <1>2, <3>4 DEF RoutingOff, Begins, Job
    <3>5. CASE RoutingOn
      BY <1>1, <3>5 DEF RoutingOn, Begins, Job
    <3>6. CASE Reconcile
      BY <1>1, <1>2, <3>6 DEF Reconcile, Begins, Job, Supervised
    <3> QED
      BY <1>3, <3>1, <3>2, <3>3, <3>4, <3>5, <3>6 DEF PanelBegins
  <2> QED
    BY <1>1, <2>1, <2>2, <2>3
<1>4. CASE JobLoads
  BY <1>1, <1>4 DEF JobLoads, LoadsNft, Rest, record, world
<1>5. CASE JobInstalls
  BY <1>1, <1>2, <1>5 DEF JobInstalls, Installs, Rest, record, world
<1>6. CASE JobRemoves
  <2>1. /\ nft' \in P /\ link' = link
        /\ committed' = committed /\ live' = live /\ leftover' = leftover /\ mark' = mark
    BY <1>1, <1>2, <1>6 DEF JobRemoves, Removes, Rest, record, world
  <2>2. job'.p = job.p /\ job'.prev \in {job.prev, leftover, committed}
    <3> DEFINE kept == IF job.op # "off" THEN job.prev ELSE IF leftover # None THEN leftover ELSE committed
    <3>1. job' = [job EXCEPT !.at = "flush", !.prev = kept]
      BY <1>6 DEF JobRemoves
    <3>2. kept \in {job.prev, leftover, committed}
      OBVIOUS
    <3> HIDE DEF kept
    <3> QED
      BY <3>1, <3>2
  <2> QED
    BY <1>1, <2>1, <2>2
<1>7. CASE JobSucceeds
  <2>1. nft' = nft /\ link' = link
    BY <1>7 DEF JobSucceeds, kernel, world
  <2>2. committed' \in P /\ live' \in P /\ leftover' \in P /\ mark' \in {None, "tested", "committed", "unknown"}
    BY <1>1, <1>2, <1>7 DEF JobSucceeds, record
  <2>3. job' \in {Idle, Job("rollback", committed, live)}
    BY <1>7 DEF JobSucceeds, Ends, Then
  <2> QED
    BY <1>1, <1>2, <2>1, <2>2, <2>3 DEF Idle, Job
<1>8. CASE JobFails
  <2>1. nft' \in P /\ link' = link
    BY <1>1, <1>2, <1>8 DEF JobFails, InstallFails, RemoveFails, kernel, world
  <2>2. committed' \in P /\ live' \in P /\ leftover' \in P /\ mark' \in {None, "tested", "committed", "unknown"}
    BY <1>1, <1>2, <1>8 DEF JobFails, UndoFails, PlaneAfter, record
  <2>3. job' \in {Idle, Job("unroute", None, None), Job("undo", committed, job.p), Job("undo", Base, job.p)}
    BY <1>8 DEF JobFails, Ends, Then
  <2> QED
    BY <1>1, <1>2, <2>1, <2>2, <2>3 DEF Idle, Job
<1>9. CASE LoopStep
  BY <1>1, <1>9 DEF LoopStep, PassChecks, PassLocks, PassWrites, PassRestores, PassEnds, Panel, record, kernel, world
<1>10. CASE FirewallReloads \/ \E f \in Flow : Packet(f) \/ FlowEnds(f)
  BY <1>1, <1>2, <1>10 DEF FirewallReloads, Packet, FlowEnds, Around, record, kernel, world
<1>11. CASE \E i \in Unsteady : LinkDown(i) \/ LinkUp(i) \/ HealthTurns(i)
  <2>1. Unsteady \subseteq Endpoint
    BY PlaneAssumption
  <2> QED
    BY <1>1, <1>11, <2>1 DEF LinkDown, LinkUp, HealthTurns, Around, record, kernel
<1>12. CASE UNCHANGED vars
  BY <1>1, <1>12 DEF vars, record, kernel, world
<1> QED
  BY <1>3, <1>4, <1>5, <1>6, <1>7, <1>8, <1>9, <1>10, <1>11, <1>12 DEF Next, JobStep

----------------------------------------------------------------------------
(* No flow is pinned against the plan in force                              *)

LEMMA FlowStep ==
  ASSUME CompilesRight, PlaneInv, RecordInv, FlowInv, [Next]_vars
  PROVE  FlowInv'
<1>1. CASE \E p \in Profile : Apply(p)
  <2>1. PICK p \in Profile : Apply(p)
    BY <1>1
  <2>2. Begins("panel", Job("apply", p, Base)) /\ off = "on" /\ off' = off /\ ct' = ct
    BY <2>1 DEF Apply, Begins, record
  <2> QED
    BY <2>2, BeginsFrame, FlowKept DEF Job, Idle, None
<1>2. CASE RollBack
  <2>1. Begins("panel", Job("rollback", committed, live)) /\ off = "on" /\ off' = off /\ live # None /\ ct' = ct
    BY <1>2 DEF RollBack, Begins, record
  <2> QED
    BY <2>1, BeginsFrame, FlowKept DEF Job, Idle, Base, None
<1>3. CASE Keep
  <2>1. /\ lock = None /\ live # None /\ committed' = live /\ live' = None
        /\ off' = off /\ torn' = torn /\ job' = job /\ ct' = ct
    BY <1>3 DEF Keep
  <2>2. Base' = Base /\ job = Idle /\ off = "on"
    BY <2>1 DEF Base, PlaneInv, LockInv
  <2> QED
    BY <2>1, <2>2, FlowKept DEF Idle, None
<1>4. CASE RoutingOff
  <2>1. /\ Begins("panel", Job("off", None, None)) /\ off' = "off" /\ ct' = ct
        /\ committed' = committed /\ leftover' = (IF live # None THEN live ELSE leftover)
    BY <1>4 DEF RoutingOff, Begins
  <2>2. (off = "on" => leftover = None) /\ (off # "on" => live = None)
    BY DEF PlaneInv, LockInv
  <2>3. job = Idle /\ job' = Job("off", None, None) /\ torn' = torn
    BY <2>1, BeginsFrame
  <2>4. leftover' = committed' =>
          \/ off # "on" /\ leftover = committed
          \/ off = "on" /\ committed' = Base
          \/ committed' = None
    BY <2>1, <2>2 DEF Base
  <2> QED
    BY <2>1, <2>3, <2>4, FlowKept DEF Job, Idle, None
<1>5. CASE RoutingOn
  <2>1. /\ Begins("panel", Job("on", committed, leftover)) /\ ct' = ct
        /\ off # "on" /\ off' = off /\ committed' = committed /\ leftover' = leftover
    BY <1>5 DEF RoutingOn, Begins, record
  <2> QED
    BY <2>1, BeginsFrame, FlowKept DEF Job, None
<1>6. CASE Reconcile
  <2>1. /\ Begins("reconcile", Job("reconcile", Supervised, None)) /\ off = "on" /\ ct' = ct
        /\ off' = off /\ committed' = committed /\ live' = live
    BY <1>6 DEF Reconcile, Begins, record
  <2>2. Base' = Base
    BY <2>1 DEF Base
  <2> QED
    BY <2>1, <2>2, BeginsFrame, FlowKept DEF Job, Idle, None
<1>7. CASE JobLoads \/ JobInstalls \/ JobRemoves
  <2>1. ct' = ct /\ torn' = torn /\ off' = off /\ committed' = committed /\ live' = live /\ leftover' = leftover
    BY <1>7 DEF JobLoads, JobInstalls, JobRemoves, Rest, record
  <2>2. Base' = Base
    BY <2>1 DEF Base
  <2>3. job'.op = job.op /\ job'.p = job.p /\ (job.op \in {"apply", "undo", "rollback"} => job'.prev = job.prev)
    <3>1. CASE JobLoads
      BY <3>1 DEF JobLoads
    <3>2. CASE JobInstalls
      BY <3>2 DEF JobInstalls
    <3>3. CASE JobRemoves
      <4> DEFINE kept == IF job.op # "off" THEN job.prev ELSE IF leftover # None THEN leftover ELSE committed
      <4>1. job' = [job EXCEPT !.at = "flush", !.prev = kept]
        BY <3>3 DEF JobRemoves
      <4>2. job.op # "off" => kept = job.prev
        OBVIOUS
      <4> HIDE DEF kept
      <4> QED
        BY <4>1, <4>2
    <3> QED
      BY <1>7, <3>1, <3>2, <3>3
  <2> QED
    BY <2>1, <2>2, <2>3, FlowKept
<1>8. CASE JobFails
  <2>1. /\ ct' = ct
        /\ torn' = (IF job.op \in {"undo", "rollback"} THEN {"flows", "tables"} ELSE torn)
    BY <1>8 DEF JobFails
  <2>2. job.op \in {"apply", "undo", "rollback", "reconcile", "on", "off", "unroute"}
    BY <1>8, FailedStep, JobsOwn DEF None
  <2>3. CASE job.op = "apply"
    <3>1. torn' = torn /\ job' = Job("undo", IF mark # None THEN committed ELSE Base, job.p) /\ off' = "on"
      BY <1>8, <2>1, <2>3 DEF JobFails, Then, record, PlaneInv, LockInv
    <3>2. "flows" \notin torn => mark = None /\ job.prev = Base
      BY <2>3 DEF PlaneInv, JobFits
    <3>3. job'.op = "undo" /\ job'.prev = job.p /\ ("flows" \notin torn => job'.p = job.prev)
      BY <3>1, <3>2 DEF Job
    <3> QED
      BY <2>1, <2>3, <3>1, <3>3, FlowKept DEF None
  <2>4. CASE job.op \in {"undo", "rollback"}
    BY <2>1, <2>4, FlowKept
  <2>5. CASE job.op = "reconcile"
    <3>1. torn' = torn /\ job' = Idle /\ off' = off /\ off = "on" /\ committed' = committed /\ live' = live
      BY <1>8, <2>1, <2>5 DEF JobFails, Ends, record, PlaneInv, LockInv
    <3>2. Base' = Base
      BY <3>1 DEF Base
    <3> QED
      BY <2>1, <2>5, <3>1, <3>2, FlowKept DEF Idle, None
  <2>6. CASE job.op = "on"
    <3>1. /\ torn' = torn /\ job' = Job("unroute", None, None)
          /\ off' = off /\ committed' = committed /\ leftover' = leftover /\ off # "on"
      BY <1>8, <2>1, <2>6 DEF JobFails, Then, record, PlaneInv, LockInv
    <3> QED
      BY <2>1, <3>1, FlowKept DEF Job, None
  <2>7. CASE job.op \in {"off", "unroute"}
    <3>1. /\ torn' = torn /\ job' = Idle /\ off' = "failed"
          /\ committed' = committed /\ leftover' = leftover /\ off # "on"
      BY <1>8, <2>1, <2>7 DEF JobFails, Ends, PlaneInv, LockInv
    <3> QED
      BY <2>1, <3>1, FlowKept DEF Idle, None
  <2> QED
    BY <2>2, <2>3, <2>4, <2>5, <2>6, <2>7
<1>9. CASE JobSucceeds
  <2>1. /\ job.at = "flush"
        /\ torn' = (IF job.op = "reconcile" \/ job.p \in {None, job.prev} THEN torn ELSE torn \ {"flows"})
        /\ job.op # "reconcile" => Flush(job.prev, job.p)
    BY <1>9 DEF JobSucceeds
  <2>2. job.op \in {"apply", "undo", "rollback", "reconcile", "on", "off", "unroute"}
    BY <2>1, JobsOwn DEF None
  <2>3. JobFits /\ ct \in [Flow -> Nat] /\ job.p \in Profile \cup {None} /\ job.prev \in Profile \cup {None}
    BY DEF PlaneInv, FlowInv, RecordInv
  <2>4. CASE job.op = "reconcile"
    <3>1. /\ ct' = ct /\ torn' = torn /\ job' = Idle /\ off' = off /\ off = "on"
          /\ committed' = committed /\ live' = live
      BY <1>9, <2>1, <2>4 DEF JobSucceeds, Ends, record, PlaneInv, LockInv
    <3>2. Base' = Base
      BY <3>1 DEF Base
    <3> QED
      BY <2>4, <3>1, <3>2, FlowKept DEF Idle, None
  <2>5. ASSUME job.op # "reconcile" PROVE ct' \in [Flow -> Nat]
    BY <2>1, <2>3, <2>5, FlushTyped
  <2>6. CASE job.op \in {"off", "unroute"}
    <3>1. /\ job' = Idle /\ off' # "on" /\ off # "on" /\ torn' = torn
          /\ committed' = committed /\ leftover' = leftover
      BY <1>9, <2>1, <2>3, <2>6 DEF JobSucceeds, Ends, record, JobFits, PlaneInv, LockInv
    <3>2. PICK com : com = committed
      OBVIOUS
    <3>3. Fits(com) => Fits(com)'
      BY <2>1, <2>3, <2>6, FlushKeeps
    <3>4. "flows" \notin torn /\ leftover = committed => Fits(committed)'
      BY <3>1, <3>2, <3>3 DEF FlowInv, Fits, Stale
    <3> QED
      BY <2>5, <2>6, <3>1, <3>4 DEF FlowInv, Idle, None
  <2>7. PICK cur \in Profile \cup {None} : cur = job.p
    BY <2>3
  <2>8. ASSUME job.op \in {"apply", "undo", "rollback", "on"}, "flows" \notin torn' PROVE Fits(cur)'
    <3>1. ASSUME job.prev = job.p PROVE Fits(job.p)
      <4>1. CASE job.op \in {"apply", "undo", "rollback"}
        BY <2>1, <2>8, <3>1, <4>1 DEF FlowInv
      <4>2. CASE job.op = "on"
        <5>1. off # "on" /\ leftover = committed /\ job.p = committed
          BY <2>3, <3>1, <4>2 DEF JobFits, PlaneInv, LockInv
        <5> QED
          BY <2>1, <2>8, <3>1, <5>1 DEF FlowInv
      <4> QED
        BY <2>8, <4>1, <4>2
    <3>2. PICK old \in Profile \cup {None} : old = job.prev
      BY <2>3
    <3> QED
      BY <2>1, <2>3, <2>7, <2>8, <3>1, <3>2, FlushFits
  <2>9. CASE job.op = "undo" /\ mark # None
    <3>1. job' = Job("rollback", committed, live) /\ job.p = committed /\ off' = "on"
      BY <1>9, <2>3, <2>9 DEF JobSucceeds, Then, JobFits, record, PlaneInv, LockInv
    <3>2. job'.op = "rollback" /\ job'.p = cur
      BY <2>7, <3>1 DEF Job
    <3> QED
      BY <2>5, <2>8, <2>9, <3>1, <3>2 DEF FlowInv, None
  <2>10. CASE job.op \in {"apply", "rollback", "on"} \/ (job.op = "undo" /\ mark = None)
    <3>1. job' = Idle /\ Base' = job.p /\ off' = "on"
      <4>1. CASE job.op = "apply"
        BY <1>9, <2>3, <4>1 DEF JobSucceeds, Ends, JobFits, Base, PlaneInv, LockInv
      <4>2. CASE job.op = "rollback"
        BY <1>9, <2>3, <4>2 DEF JobSucceeds, Ends, JobFits, Base, PlaneInv, LockInv
      <4>3. CASE job.op = "on"
        BY <1>9, <2>3, <4>3 DEF JobSucceeds, Ends, JobFits, Base, PlaneInv, LockInv
      <4>4. CASE job.op = "undo" /\ mark = None
        BY <1>9, <2>3, <4>4 DEF JobSucceeds, Ends, JobFits, Base, record, PlaneInv, LockInv
      <4> QED
        BY <2>10, <4>1, <4>2, <4>3, <4>4
    <3>2. Base' = cur
      BY <2>7, <3>1
    <3>3. "flows" \notin torn' => Fits(cur)'
      BY <2>8, <2>10
    <3>4. "flows" \notin torn' => Fits(Base)'
      BY <3>2, <3>3 DEF Fits, Stale
    <3> QED
      BY <2>5, <2>10, <3>1, <3>4 DEF FlowInv, Idle, None
  <2> QED
    BY <2>2, <2>4, <2>6, <2>9, <2>10
<1>10. CASE LoopStep \/ FirewallReloads \/ \E i \in Unsteady : LinkDown(i) \/ LinkUp(i) \/ HealthTurns(i)
  <2>1. ct' = ct /\ torn' = torn /\ off' = off /\ committed' = committed /\ live' = live /\ leftover' = leftover /\ job' = job
    BY <1>10 DEF LoopStep, PassChecks, PassLocks, PassWrites, PassRestores, PassEnds, Panel,
                 FirewallReloads, LinkDown, LinkUp, HealthTurns, Around, record
  <2>2. Base' = Base
    BY <2>1 DEF Base
  <2> QED
    BY <2>1, <2>2, FlowKept
<1>11. CASE \E f \in Flow : Packet(f)
  <2>1. PICK f \in Flow : Packet(f)
    BY <1>11
  <2>2. /\ nft # None /\ nft' = nft /\ torn' = torn /\ off' = off /\ job' = job
        /\ committed' = committed /\ live' = live /\ leftover' = leftover
    BY <2>1 DEF Packet, record, kernel
  <2>3. Base' = Base
    BY <2>2 DEF Base
  <2>4. ct' \in [Flow -> Nat] /\ (Fits(nft) => Fits(nft)')
    BY <2>1, PacketFits
  <2>5. PICK cur \in Profile \cup {None} : cur = nft
    BY DEF RecordInv
  <2>6. Fits(cur) => Fits(cur)'
    BY <2>2, <2>4, <2>5 DEF Fits, Stale
  <2>7. ASSUME "flows" \notin torn, off = "on", job.op \in {None, "reconcile"} PROVE Fits(Base)'
    <3>1. Owners = {Base}
      BY <2>7 DEF Owners, PlaneInv, JobFits, Supervised, None
    <3>2. nft = Base
      BY <2>2, <2>7, <3>1 DEF PlaneInv, OwnedInv
    <3>3. Fits(Base)
      BY <2>7 DEF FlowInv
    <3>4. Fits(cur)' /\ cur = Base
      BY <2>5, <2>6, <3>2, <3>3
    <3> QED
      BY <2>3, <3>4 DEF Fits, Stale
  <2>8. ASSUME "flows" \notin torn, job.op \in {"apply", "undo", "rollback"}, job.p = job.prev PROVE Fits(job.p)'
    <3>1. Owners \subseteq {job.p}
      BY <2>8, JobOwners
    <3>2. nft = job.p
      BY <2>2, <2>8, <3>1 DEF PlaneInv, OwnedInv
    <3>3. Fits(job.p)
      BY <2>8 DEF FlowInv
    <3>4. Fits(cur)' /\ cur = job.p
      BY <2>5, <2>6, <3>2, <3>3
    <3> QED
      BY <2>2, <3>4 DEF Fits, Stale
  <2>9. ASSUME "flows" \notin torn, off # "on", leftover = committed PROVE Fits(committed)'
    <3>1. job.op \in {None, "on", "off", "unroute"} /\ off \in {"off", "failed"}
      BY <2>9 DEF PlaneInv, LockInv, Idle, None
    <3>2. job.op = "on" => job.p = committed /\ job.prev = leftover
      BY DEF PlaneInv, JobFits
    <3>3. Owners \subseteq {committed, None}
      BY <2>9, <3>1, <3>2 DEF Owners, None
    <3>4. nft = committed
      BY <2>2, <2>9, <3>3 DEF PlaneInv, OwnedInv
    <3>5. Fits(committed)
      BY <2>9 DEF FlowInv
    <3>6. Fits(cur)' /\ cur = committed
      BY <2>5, <2>6, <3>4, <3>5
    <3> QED
      BY <2>2, <3>6 DEF Fits, Stale
  <2> QED
    BY <2>2, <2>4, <2>7, <2>8, <2>9 DEF FlowInv
<1>12. CASE \E f \in Flow : FlowEnds(f)
  <2>1. PICK f \in Flow : FlowEnds(f)
    BY <1>12
  <2>2. /\ torn' = torn /\ off' = off /\ job' = job /\ committed' = committed /\ live' = live
        /\ leftover' = leftover /\ ct' = [ct EXCEPT ![f] = 0]
    BY <2>1 DEF FlowEnds, record
  <2>3. Base' = Base
    BY <2>2 DEF Base
  <2>4. ct \in [Flow -> Nat]
    BY DEF FlowInv
  <2>5. ct' \in [Flow -> Nat] /\ \A g \in Flow : ct'[g] \in {ct[g], 0}
    BY <2>2, <2>4
  <2>6. ASSUME NEW p, Fits(p) PROVE Fits(p)'
    <3>1. ~Owns(p, 0)
      BY DEF Owns
    <3> QED
      BY <2>5, <2>6, <3>1 DEF Fits, Stale
  <2>7. PICK base, jp, com : base = Base /\ jp = job.p /\ com = committed
    OBVIOUS
  <2>8. /\ Fits(Base) => Fits(Base)'
        /\ Fits(job.p) => Fits(job.p)'
        /\ Fits(committed) => Fits(committed)'
    <3>1. /\ Fits(base) => Fits(base)'
          /\ Fits(jp) => Fits(jp)'
          /\ Fits(com) => Fits(com)'
      BY <2>6
    <3> QED
      BY <2>2, <2>3, <2>7, <3>1 DEF Fits, Stale
  <2> QED
    BY <2>2, <2>5, <2>8 DEF FlowInv
<1>13. CASE UNCHANGED vars
  <2>1. ct' = ct /\ torn' = torn /\ off' = off /\ committed' = committed /\ live' = live /\ leftover' = leftover /\ job' = job
    BY <1>13 DEF vars, record
  <2>2. Base' = Base
    BY <2>1 DEF Base
  <2> QED
    BY <2>1, <2>2, FlowKept
<1> QED
  BY <1>1, <1>2, <1>3, <1>4, <1>5, <1>6, <1>7, <1>8, <1>9, <1>10, <1>11, <1>12, <1>13 DEF Next, PanelBegins, JobStep
----------------------------------------------------------------------------
(* The tables of the plan in force hold what the code wrote to them         *)

LEMMA MinIndex ==
  ASSUME NEW I, I \subseteq Nat, I # {}
  PROVE  Min(I) \in I
<1>1. \E x \in I : \A y \in I : ~ (<<y, x>> \in OpToRel(<, Nat))
  BY NatLessThanWellFounded, WFMin
<1>2. PICK x \in I : \A y \in I : ~(y < x)
  BY <1>1 DEF OpToRel
<1>3. \E y \in I : \A z \in I : y <= z
  BY <1>2
<1> QED
  BY <1>3 DEF Min

\* A group elects one of its own members that is an endpoint, or nobody.
LEMMA ElectedIs ==
  ASSUME NEW g \in Group
  PROVE  Elected(g) = None \/ Elected(g) \in Endpoint \cap ToSet(Members[g])
<1> DEFINE I == {i \in 1..Len(Members[g]) : Members[g][i] \in Endpoint \cap alive}
<1>1. Members[g] \in Seq(Endpoint \cup Group)
  BY PlaneAssumption DEF Group
<1>2. CASE I = {}
  BY <1>2 DEF Elected, SelectInSeq
<1>3. CASE I # {}
  <2>1. I \subseteq Nat
    BY <1>1
  <2>2. Min(I) \in I
    BY <1>3, <2>1, MinIndex
  <2>3. Elected(g) = Members[g][Min(I)]
    BY <1>3, <2>2 DEF Elected, SelectInSeq
  <2>4. Members[g][Min(I)] \in ToSet(Members[g])
    <3>1. DOMAIN Members[g] = 1..Len(Members[g])
      BY <1>1
    <3>2. Min(I) \in DOMAIN Members[g]
      BY <2>2, <3>1
    <3> HIDE DEF I
    <3> QED
      BY <3>2 DEF ToSet
  <2> QED
    BY <2>2, <2>3, <2>4
<1> QED
  BY <1>2, <1>3

LEMMA TableKept ==
  ASSUME CompilesRight, RecordInv, TableInv, todo' \subseteq todo, todo = {} \/ Supervised' = Supervised,
         proof' /\ ("flows" \notin torn' \/ (job'.at = "flush" /\ nft' = job'.p)) =>
           /\ proof /\ ("flows" \notin torn \/ (job.at = "flush" /\ nft = job.p))
           /\ nft' = nft /\ hole' = hole
           /\ \A s \in Slot : dev'[s] \in {dev[s], None}
  PROVE  TableInv'
<1>1. Plan[nft].slots \subseteq Slot
  BY PlanNat DEF RecordInv
<1>2. \A w \in todo' : w[2] \in Written(Supervised', w[1])
  BY DEF TableInv
<1>3. ASSUME proof', "flows" \notin torn' \/ (job'.at = "flush" /\ nft' = job'.p), NEW s \in Plan[nft'].slots
      PROVE  /\ s \in hole' <=> Blackholed(nft', s)
             /\ dev'[s] \in Written(nft', s) \cup {None}
  BY <1>1, <1>3 DEF TableInv
<1> QED
  BY <1>2, <1>3 DEF TableInv

LEMMA TableStep ==
  ASSUME CompilesRight, PlaneInv, RecordInv, TableInv, [Next]_vars
  PROVE  TableInv'
<1>1. CASE PanelBegins \/ Reconcile
  <2>1. ASSUME NEW who, NEW op, NEW p, NEW prev, Begins(who, Job(op, p, prev)) PROVE TableInv'
    <3>1. /\ todo = {} /\ todo' = todo /\ torn' = torn /\ job' = Job(op, p, prev)
          /\ nft' = nft /\ proof' = proof /\ dev' = dev /\ hole' = hole
      BY <2>1, BeginsFrame DEF Begins, kernel
    <3>2. job'.at # "flush"
      BY <3>1 DEF Job
    <3> QED
      BY <3>1, <3>2, TableKept
  <2>2. CASE Keep
    <3>1. /\ lock = None /\ todo' = todo /\ torn' = torn /\ job' = job
          /\ nft' = nft /\ proof' = proof /\ dev' = dev /\ hole' = hole
      BY <2>2 DEF Keep, kernel, loop
    <3>2. todo = {}
      BY <3>1 DEF PlaneInv, LockInv, None
    <3> QED
      BY <3>1, <3>2, TableKept
  <2>3. ASSUME NEW p \in Profile, Apply(p) PROVE TableInv'
    <3>1. Begins("panel", Job("apply", p, Base))
      BY <2>3 DEF Apply
    <3> QED
      BY <3>1, <2>1
  <2>4. CASE RollBack
    BY <2>4, <2>1 DEF RollBack
  <2>5. CASE RoutingOff
    BY <2>5, <2>1 DEF RoutingOff
  <2>6. CASE RoutingOn
    BY <2>6, <2>1 DEF RoutingOn
  <2>7. CASE Reconcile
    BY <2>7, <2>1 DEF Reconcile
  <2> QED
    BY <1>1, <2>2, <2>3, <2>4, <2>5, <2>6, <2>7 DEF PanelBegins
<1>2. CASE JobLoads
  <2>1. todo' = todo /\ proof' = FALSE /\ committed' = committed /\ live' = live /\ mark' = mark
    BY <1>2 DEF JobLoads, LoadsNft, Rest, loop, record
  <2>2. Supervised' = Supervised
    BY <2>1 DEF Base, Supervised
  <2> QED
    BY <2>1, <2>2, TableKept
<1>3. CASE JobInstalls
  <2>1. /\ Tables(job.p, Plan[job.p].slots, Plan[job.p].slots \cup Retire(job.p, job.prev))
        /\ nft' = job.p /\ todo' = todo /\ job.at = "install"
    BY <1>3 DEF JobInstalls, Installs, Rest, loop
  <2>2. todo = {}
    BY <2>1, JobsOwn DEF None
  <2>3. Plan[job.p].slots \subseteq Slot
    BY PlanNat DEF RecordInv
  <2>4. ASSUME NEW s \in Plan[job.p].slots
        PROVE  (s \in hole' <=> Blackholed(job.p, s)) /\ dev'[s] = Seed(job.p, s)
    <3>1. s \in hole' <=> Blackholed(job.p, s)
      BY <2>1 DEF Tables
    <3>2. s \in Slot
      BY <2>3
    <3> HIDE DEF Slot
    <3> QED
      BY <2>1, <3>1, <3>2 DEF Tables
  <2> QED
    BY <2>1, <2>2, <2>4 DEF TableInv, Written
<1>4. CASE JobRemoves
  <2> DEFINE ps == IF job.op \in {"off", "unroute"} THEN {leftover, committed} ELSE {job.prev}
             gone == UNION {Plan[p].slots : p \in ps}
  <2>1. /\ Removes(ps) /\ todo' = todo /\ torn' = torn /\ job.at = "remove"
    BY <1>4 DEF JobRemoves, Rest, loop
  <2>2. todo = {} /\ job.p = None
    BY <2>1, JobsOwn DEF None, PlaneInv, LockInv
  <2>3. /\ Tables(None, {}, gone) /\ nft' = (IF ps \subseteq {None} THEN nft ELSE None)
        /\ proof' = (proof /\ nft' # None)
    BY <2>1 DEF Removes
  <2>4. job'.p = None
    <3>1. job'.p = job.p
      <4> DEFINE kept == IF job.op # "off" THEN job.prev ELSE IF leftover # None THEN leftover ELSE committed
      <4>1. job' = [job EXCEPT !.at = "flush", !.prev = kept]
        BY <1>4 DEF JobRemoves
      <4> HIDE DEF kept
      <4> QED
        BY <4>1
    <3> QED
      BY <2>2, <3>1
  <2>5. ps \subseteq {None} => gone = {}
    BY EmptyPlan
  <2> HIDE DEF ps, gone
  <2>6. ASSUME proof' PROVE proof /\ nft' = nft /\ nft' # None /\ hole' = hole /\ \A s \in Slot : dev'[s] = dev[s]
    <3>1. proof /\ nft' # None
      BY <2>3, <2>6
    <3>2. nft' = nft /\ gone = {}
      BY <2>3, <2>5, <3>1
    <3> QED
      BY <2>3, <3>1, <3>2 DEF Tables
  <2> QED
    BY <2>1, <2>2, <2>4, <2>6, TableKept
<1>5. CASE JobSucceeds
  <2>1. /\ job.at = "flush" /\ Verified
        /\ nft' = nft /\ proof' = proof /\ dev' = dev /\ hole' = hole /\ todo' = todo
        /\ torn' = (IF job.op = "reconcile" \/ job.p \in {None, job.prev} THEN torn ELSE torn \ {"flows"})
    BY <1>5 DEF JobSucceeds, kernel, loop
  <2>2. todo = {}
    BY <2>1, JobsOwn DEF None
  <2>3. job' \in {Idle, Job("rollback", committed, live)}
    BY <1>5 DEF JobSucceeds, Ends, Then
  <2>4. job'.at # "flush"
    BY <2>3 DEF Idle, Job, None
  <2>5. "flows" \notin torn' => "flows" \notin torn \/ nft = job.p
    BY <2>1 DEF Verified
  <2> QED
    BY <2>1, <2>2, <2>4, <2>5, TableKept
<1>6. CASE JobFails
  <2>1. /\ todo' = todo
        /\ torn' = (IF job.op \in {"undo", "rollback"} THEN {"flows", "tables"} ELSE torn)
    BY <1>6 DEF JobFails, loop
  <2>2. todo = {}
    BY <1>6, FailedStep, JobsOwn DEF None
  <2>3. job' \in {Idle, Job("unroute", None, None), Job("undo", committed, job.p), Job("undo", Base, job.p)}
    BY <1>6 DEF JobFails, Ends, Then
  <2>4. job'.at # "flush"
    BY <2>3 DEF Idle, Job, None
  <2>5. proof' => nft' = nft /\ proof' = proof /\ hole' = hole /\ dev' = dev
    <3>1. CASE job.at = "install" /\ InstallFails(job.p)
      <4>1. ~proof
        BY <3>1 DEF PlaneInv, LockInv
      <4> QED
        BY <3>1, <4>1, InstallFailsUse
    <3>2. CASE UNCHANGED kernel
      BY <3>2 DEF kernel
    <3> QED
      BY <1>6, <3>1, <3>2 DEF JobFails, RemoveFails
  <2> QED
    BY <2>1, <2>2, <2>4, <2>5, TableKept
<1>7. CASE PassChecks \/ PassEnds
  <2>1. /\ todo' = todo /\ torn' = torn /\ job' = job /\ committed' = committed /\ live' = live /\ mark' = mark
        /\ nft' = nft /\ proof' = proof /\ dev' = dev /\ hole' = hole
    BY <1>7 DEF PassChecks, PassEnds, Panel, record, kernel
  <2>2. Supervised' = Supervised
    BY <2>1 DEF Base, Supervised
  <2> QED
    BY <2>1, <2>2, TableKept
<1>8. CASE PassLocks
  <2>1. /\ torn' = torn /\ job' = job /\ committed' = committed /\ live' = live /\ mark' = mark
        /\ nft' = nft /\ proof' = proof /\ dev' = dev /\ hole' = hole
    BY <1>8 DEF PassLocks, Panel, record, kernel
  <2>2. Supervised' = Supervised
    BY <2>1 DEF Base, Supervised
  <2>3. CASE todo' = todo
    BY <2>1, <2>2, <2>3, TableKept
  <2>4. CASE /\ PassGoesOn
             /\ \E read \in {Family, {4}} :
                  todo' = {w \in Repoints(Supervised, read) : w[2] \notin {None, dev[w[1]]}}
    <3>2. ASSUME NEW w \in todo' PROVE w[2] \in Written(Supervised, w[1])
      <4>1. PICK s : w = <<s, Elected(TagAt(Supervised, s))>> /\ TagAt(Supervised, s) \in Group /\ w[2] # None
        BY <2>4, <3>2 DEF Repoints
      <4>2. w[1] = s /\ w[2] = Elected(TagAt(Supervised, s))
        BY <4>1
      <4>3. w[2] \in Endpoint \cap ToSet(Members[TagAt(Supervised, s)])
        BY <4>1, <4>2, ElectedIs
      <4> QED
        BY <4>1, <4>2, <4>3 DEF Written
    <3> QED
      BY <2>1, <2>2, <3>2 DEF TableInv
  <2> QED
    BY <1>8, <2>3, <2>4 DEF PassLocks
<1>9. CASE PassRestores
  <2>1. /\ torn' = torn /\ job' = job /\ committed' = committed /\ live' = live /\ mark' = mark /\ pass = "elect"
        /\ nft' = nft /\ proof' = proof /\ dev' = dev /\ hole' = hole
        /\ todo' = {<<s, TagAt(Supervised, s)>> :
                      s \in {s \in Plan[Supervised].slots : TagAt(Supervised, s) \in link /\ s \in seen}}
    BY <1>9 DEF PassRestores, Panel, record, kernel
  <2>2. Supervised' = Supervised
    BY <2>1 DEF Base, Supervised
  <2>4. ASSUME NEW w \in todo' PROVE w[2] \in Written(Supervised, w[1])
    <3>1. PICK s : w = <<s, TagAt(Supervised, s)>> /\ TagAt(Supervised, s) \in link
      BY <2>1, <2>4
    <3>2. w[1] = s /\ w[2] = TagAt(Supervised, s) /\ TagAt(Supervised, s) \in Endpoint
      BY <3>1 DEF RecordInv
    <3> QED
      BY <3>2 DEF Written
  <2> QED
    BY <2>1, <2>2, <2>4 DEF TableInv
<1>10. CASE PassWrites
  <2>1. /\ torn' = torn /\ job' = job /\ committed' = committed /\ live' = live /\ mark' = mark
        /\ nft' = nft /\ proof' = proof /\ hole' = hole
    BY <1>10 DEF PassWrites, Panel, record
  <2>2. PICK w \in todo : todo' = todo \ {w} /\ (dev' = dev \/ dev' = [dev EXCEPT ![w[1]] = w[2]])
    BY <1>10 DEF PassWrites
  <2>3. Supervised' = Supervised
    BY <2>1 DEF Base, Supervised
  <2>4. lock = "loop" /\ job = Idle /\ off = "on" /\ dev = [s \in Slot |-> dev[s]]
    BY <2>2 DEF PlaneInv, LockInv
  <2>5. job.at # "flush" /\ Owners = {Base}
    BY <2>4 DEF Owners, Idle, None
  <2>6. ASSUME proof, "flows" \notin torn, NEW s \in Plan[nft].slots
        PROVE  (s \in hole <=> Blackholed(nft, s)) /\ dev'[s] \in Written(nft, s) \cup {None}
    <3>1. nft = Supervised
      <4>1. nft = Base
        BY <2>5, <2>6 DEF PlaneInv, OwnedInv, LockInv
      <4>2. mark = None
        BY <2>4, <2>6 DEF PlaneInv, JobFits, Idle, None
      <4> QED
        BY <4>1, <4>2 DEF Supervised, None
    <3>2. w[2] \in Written(Supervised, w[1])
      BY <2>2 DEF TableInv
    <3>3. (s \in hole <=> Blackholed(nft, s)) /\ dev[s] \in Written(nft, s) \cup {None}
      BY <2>6 DEF TableInv
    <3>4. s \in Slot
      BY <2>6, PlanNat DEF RecordInv
    <3>5. dev'[s] = dev[s] \/ (s = w[1] /\ dev'[s] = w[2])
      <4> HIDE DEF Slot
      <4>1. DOMAIN dev = Slot
        BY <2>4
      <4> QED
        BY <2>2, <3>4, <4>1
    <3> QED
      BY <3>1, <3>2, <3>3, <3>5
  <2>7. \A v \in todo' : v[2] \in Written(Supervised, v[1])
    BY <2>2 DEF TableInv
  <2> QED
    BY <2>1, <2>3, <2>5, <2>6, <2>7 DEF TableInv
<1>11. CASE FirewallReloads
  <2>1. proof' = FALSE /\ todo' = todo /\ committed' = committed /\ live' = live /\ mark' = mark
    BY <1>11 DEF FirewallReloads, Around, loop, record
  <2>2. Supervised' = Supervised
    BY <2>1 DEF Base, Supervised
  <2> QED
    BY <2>1, <2>2, TableKept
<1>12. CASE \E i \in Unsteady : LinkDown(i)
  <2>1. PICK i : LinkDown(i)
    BY <1>12
  <2>2. /\ todo' = todo /\ torn' = torn /\ job' = job /\ committed' = committed /\ live' = live /\ mark' = mark
        /\ nft' = nft /\ proof' = proof /\ hole' = hole
        /\ dev' = [s \in Slot |-> IF dev[s] = i THEN None ELSE dev[s]]
    BY <2>1 DEF LinkDown, Around, loop, record
  <2>3. Supervised' = Supervised
    BY <2>2 DEF Base, Supervised
  <2> HIDE DEF Slot
  <2>4. \A s \in Slot : dev'[s] \in {dev[s], None}
    BY <2>2
  <2> QED
    BY <2>2, <2>3, <2>4, TableKept
<1>13. CASE \/ \E i \in Unsteady : LinkUp(i) \/ HealthTurns(i)
            \/ \E f \in Flow : Packet(f) \/ FlowEnds(f)
            \/ UNCHANGED vars
  <2>1. /\ todo' = todo /\ torn' = torn /\ job' = job /\ committed' = committed /\ live' = live /\ mark' = mark
        /\ nft' = nft /\ proof' = proof /\ dev' = dev /\ hole' = hole
    BY <1>13 DEF LinkUp, HealthTurns, Packet, FlowEnds, Around, vars, loop, record, kernel
  <2>2. Supervised' = Supervised
    BY <2>1 DEF Base, Supervised
  <2> QED
    BY <2>1, <2>2, TableKept
<1> QED
  BY <1>1, <1>2, <1>3, <1>4, <1>5, <1>6, <1>7, <1>8, <1>9, <1>10, <1>11, <1>12, <1>13
     DEF Next, JobStep, LoopStep
----------------------------------------------------------------------------

LEMMA InitPackets == Init => PacketInv
<1> SUFFICES ASSUME Init PROVE PacketInv
  OBVIOUS
<1>1. /\ committed = None /\ live = None /\ leftover = None /\ nft = None /\ job = Idle /\ link = Endpoint
      /\ mark = None /\ off = "on" /\ ~proof /\ todo = {} /\ ct = [f \in Flow |-> 0]
  BY DEF Init
<1>2. RecordInv /\ TableInv
  BY <1>1 DEF RecordInv, TableInv, Idle
<1>3. Base = None /\ ct \in [Flow -> Nat]
  BY <1>1 DEF Base
<1>4. Fits(Base)
  BY <1>3, NoneFits DEF Fits, Stale
<1>5. FlowInv
  BY <1>1, <1>3, <1>4 DEF FlowInv, Idle, None
<1> QED
  BY <1>2, <1>5 DEF PacketInv

(* No flow that decider.stale can judge stays pinned against the plan in    *)
(* force, also where an unchanged plan skips the flush, and that plan's     *)
(* tables hold only what its install or the list failover pass wrote,       *)
(* whatever order the panel, the reconcile loop and the pass came in.       *)
THEOREM FlowsAreJudged == CompilesRight => (Spec => []PacketInv)
<1> SUFFICES ASSUME CompilesRight PROVE Spec => []PacketInv
  OBVIOUS
<1>1. PlaneInv /\ PacketInv /\ [Next]_vars => PacketInv'
  BY RecordStep, FlowStep, TableStep DEF PacketInv
<1> QED
  BY InitPackets, PlaneCorrect, <1>1, PTL DEF Spec

(* For any profiles the compiler translates as asked, every packet leaves   *)
(* by the exit its rule or list names while a plane is in place: no job,    *)
(* flush, reload, link or failover pass pins a flow to another exit         *)
(* (decider.stale, Flush) or writes a table that is not the plan's.  The    *)
(* flows a zone by MAC, interface or port would decide are left out, as     *)
(* are those a failed rollback has left unflushed.                          *)
THEOREM PacketsFollowTheProfile == CompilesRight => (Spec => []PacketsLeaveWhereAsked)
<1> SUFFICES ASSUME CompilesRight PROVE Spec => []PacketsLeaveWhereAsked
  OBVIOUS
<1>1. ASSUME PlaneInv, PacketInv PROVE PacketsLeaveWhereAsked
  <2> SUFFICES ASSUME InPlace, "flows" \notin torn, NEW f \in Plan[Supervised].judged
               PROVE  Exit(f) \in Asked(Supervised, f)
    BY DEF PacketsLeaveWhereAsked
  <2>1. /\ job = Idle /\ off = "on" /\ Supervised = Base /\ nft = Base /\ Base # None /\ proof
        /\ Base \in Profile
    BY <1>1 DEF InPlace, PlaneInv, LockInv, JobFits, PacketInv, RecordInv, Supervised, Idle, None
  <2>2. f \in Flow /\ f \in Plan[Base].judged
    BY <2>1 DEF Plan
  <2>7. ct[f] \in Nat /\ ~Stale(Base, f)
    BY <1>1, <2>1, <2>2 DEF PacketInv, FlowInv, Fits, Idle
  <2> DEFINE want == Plan[Base].mark[f]
             s == <<f.fam, want - 1>>
             m == PacketMark(f)
  <2>3. want \in Nat /\ (want > 1 => s \in Plan[Base].slots) /\ PlanExits(Base, f) \subseteq Asked(Base, f)
    BY <2>1, <2>2, PlanNat DEF CompilesRight
  <2>4. m \in Nat /\ (want <= 1 <=> m <= 1) /\ (want > 1 => m = want)
    BY <2>1, <2>2, <2>3, <2>7 DEF PacketMark, Stale, Owns, Route
  <2>5. CASE want <= 1
    <3>1. Exit(f) = "main"
      BY <2>1, <2>4, <2>5 DEF Exit
    <3>2. PlanExits(Base, f) = {"main"}
      BY <2>5 DEF PlanExits
    <3> QED
      BY <2>1, <2>3, <3>1, <3>2
  <2>6. CASE want > 1
    <3>1. s \in Plan[Base].slots /\ s \in rules
      BY <1>1, <2>1, <2>3, <2>6 DEF PlaneInv, LockInv
    <3>2. (s \in hole <=> Blackholed(Base, s)) /\ dev[s] \in Written(Base, s) \cup {None}
      BY <1>1, <2>1, <3>1 DEF PacketInv, TableInv
    <3>3. PlanExits(Base, f) = (Written(Base, s) \ {None}) \cup {IF Blackholed(Base, s) THEN "drop" ELSE "main"}
      BY <2>3, <2>6 DEF PlanExits
    <3>4. Exit(f) = IF dev[s] # None THEN dev[s] ELSE IF s \in hole THEN "drop" ELSE "main"
      BY <2>1, <2>3, <2>4, <2>6, <3>1 DEF Exit
    <3> HIDE DEF s
    <3> QED
      BY <2>1, <2>3, <3>2, <3>3, <3>4
  <2> QED
    BY <2>3, <2>5, <2>6
<1> QED
  BY <1>1, PlaneCorrect, FlowsAreJudged, PTL
----------------------------------------------------------------------------
(* Types                                                                    *)

KernelOK ==
  /\ rules \subseteq Slot /\ hole \subseteq Slot
  /\ dev \in [Slot -> Endpoint \cup {None}]
  /\ ct \in [Flow -> Mark]
  /\ lock \in {None, "loop", "panel", "reconcile"}

LEMMA TablesTyped ==
  ASSUME CompilesRight, KernelOK, NEW p \in Profile \cup {None}, NEW in, in \subseteq Plan[p].slots, NEW gone,
         Tables(p, in, gone)
  PROVE  /\ rules' \subseteq Slot /\ hole' \subseteq Slot
         /\ dev' \in [Slot -> Endpoint \cup {None}]
<1>1. in \subseteq Slot /\ \A s \in in : Seed(p, s) \in Endpoint \cup {None}
  <2>1. CASE p = None
    BY <2>1, EmptyPlan
  <2>2. CASE p # None
    BY <2>2 DEF CompilesRight
  <2> QED
    BY <2>1, <2>2
<1>2. rules' \subseteq Slot /\ hole' \subseteq Slot
  BY <1>1 DEF Tables, KernelOK
<1> HIDE DEF Slot
<1>3. dev' \in [Slot -> Endpoint \cup {None}]
  BY <1>1 DEF Tables, KernelOK
<1> QED
  BY <1>2, <1>3

LEMMA KernelOKStep ==
  ASSUME CompilesRight, RecordInv, KernelOK, [Next]_vars
  PROVE  KernelOK'
<1>1. /\ job.p \in Profile \cup {None} /\ None \in Profile \cup {None} /\ nft \in Profile \cup {None}
      /\ link \subseteq Endpoint /\ {} \subseteq Plan[None].slots
  BY DEF RecordInv
<1>2. lock' \in {None, "loop", "panel", "reconcile"}
  BY DEF KernelOK, Next, PanelBegins, Apply, RollBack, Keep, RoutingOff, RoutingOn, Reconcile, Begins,
         JobStep, JobLoads, JobInstalls, JobRemoves, JobSucceeds, JobFails, Ends, Then, Rest,
         LoopStep, PassChecks, PassLocks, PassWrites, PassRestores, PassEnds,
         Packet, FlowEnds, FirewallReloads, LinkDown, LinkUp, HealthTurns, Around, vars
<1>3. rules' \subseteq Slot /\ hole' \subseteq Slot /\ dev' \in [Slot -> Endpoint \cup {None}]
  <2>1. ASSUME rules' = rules, hole' = hole, dev' = dev
        PROVE  rules' \subseteq Slot /\ hole' \subseteq Slot /\ dev' \in [Slot -> Endpoint \cup {None}]
    BY <2>1 DEF KernelOK
  <2>2. CASE JobInstalls
    <3>1. Tables(job.p, Plan[job.p].slots, Plan[job.p].slots \cup Retire(job.p, job.prev))
      BY <2>2 DEF JobInstalls, Installs
    <3> QED
      BY <1>1, <3>1, TablesTyped
  <2>3. CASE JobRemoves
    <3> DEFINE ps == IF job.op \in {"off", "unroute"} THEN {leftover, committed} ELSE {job.prev}
    <3>1. Tables(None, {}, UNION {Plan[p].slots : p \in ps})
      BY <2>3 DEF JobRemoves, Removes
    <3> HIDE DEF ps
    <3> QED
      BY <1>1, <3>1, TablesTyped
  <2>4. CASE JobFails
    <3>1. CASE UNCHANGED kernel
      BY <2>1, <3>1 DEF kernel
    <3>2. CASE Tables(None, {}, Plan[job.p].slots)
      BY <1>1, <3>2, TablesTyped
    <3>3. CASE \E n \in 0 .. Len(Plan[job.p].tags) - 1 : Tables(job.p, UpTo(job.p, n), Plan[job.p].slots)
      <4>1. PICK n : Tables(job.p, UpTo(job.p, n), Plan[job.p].slots)
        BY <3>3
      <4>2. UpTo(job.p, n) \subseteq Plan[job.p].slots
        BY DEF UpTo
      <4> QED
        BY <1>1, <4>1, <4>2, TablesTyped
    <3> QED
      BY <2>4, <3>1, <3>2, <3>3 DEF JobFails, InstallFails, RemoveFails
  <2>5. CASE PassWrites
    <3> HIDE DEF Slot
    <3>1. PICK w \in todo : dev' = dev \/ (w[2] \in link /\ dev' = [dev EXCEPT ![w[1]] = w[2]])
      BY <2>5 DEF PassWrites
    <3>2. dev' \in [Slot -> Endpoint \cup {None}]
      BY <1>1, <3>1 DEF KernelOK
    <3>3. rules' = rules /\ hole' = hole
      BY <2>5 DEF PassWrites
    <3> QED
      BY <3>2, <3>3 DEF KernelOK
  <2>6. CASE \E i \in Unsteady : LinkDown(i)
    <3> HIDE DEF Slot
    <3>1. PICK i : dev' = [s \in Slot |-> IF dev[s] = i THEN None ELSE dev[s]] /\ rules' = rules /\ hole' = hole
      BY <2>6 DEF LinkDown
    <3> QED
      BY <3>1 DEF KernelOK
  <2>7. CASE PanelBegins \/ Reconcile
    BY <2>1, <2>7 DEF PanelBegins, Apply, RollBack, Keep, RoutingOff, RoutingOn, Reconcile, Begins, kernel
  <2>8. CASE JobLoads \/ JobSucceeds
    BY <2>1, <2>8 DEF JobLoads, LoadsNft, JobSucceeds, kernel
  <2>9. CASE PassChecks \/ PassLocks \/ PassRestores \/ PassEnds
    BY <2>1, <2>9 DEF PassChecks, PassLocks, PassRestores, PassEnds, kernel
  <2>10. CASE \/ \E f \in Flow : Packet(f) \/ FlowEnds(f)
              \/ FirewallReloads
              \/ \E i \in Unsteady : LinkUp(i) \/ HealthTurns(i)
              \/ UNCHANGED vars
    BY <2>1, <2>10 DEF Packet, FlowEnds, FirewallReloads, LinkUp, HealthTurns, Around, kernel, vars
  <2> QED
    BY <2>2, <2>3, <2>4, <2>5, <2>6, <2>7, <2>8, <2>9, <2>10 DEF Next, JobStep, LoopStep
<1>4. ct' \in [Flow -> Mark]
  <2>1. 0 \in Mark
    <3>1. Len(TagOrder) \in Nat
      BY PlaneAssumption
    <3> QED
      BY <3>1 DEF Mark
  <2>2. ct \in [Flow -> Mark]
    BY DEF KernelOK
  <2>3. ASSUME NEW f \in Flow, Packet(f) PROVE ct' \in [Flow -> Mark]
    <3>1. nft # None /\ ct' = [ct EXCEPT ![f] = PacketMark(f)]
      BY <2>3 DEF Packet
    <3>2. nft \in Profile
      BY <1>1, <3>1
    <3>3. PacketMark(f) \in Mark
      BY <2>2, <3>2 DEF PacketMark, CompilesRight
    <3> QED
      BY <2>2, <3>1, <3>3
  <2>4. ASSUME NEW f \in Flow, FlowEnds(f) PROVE ct' \in [Flow -> Mark]
    BY <2>1, <2>2, <2>4 DEF FlowEnds
  <2>5. CASE JobSucceeds
    <3>1. CASE ct' = ct
      BY <2>2, <3>1
    <3>2. CASE Flush(job.prev, job.p)
      <4>1. ASSUME NEW f \in Flow PROVE ct'[f] \in {ct[f], 0}
        BY <3>2 DEF Flush
      <4>2. \A f \in Flow : ct'[f] \in Mark
        BY <2>1, <2>2, <4>1
      <4> QED
        BY <3>2, <4>2 DEF Flush
    <3> QED
      BY <2>5, <3>1, <3>2 DEF JobSucceeds
  <2>6. CASE PanelBegins \/ Reconcile
    BY <2>2, <2>6 DEF PanelBegins, Apply, RollBack, Keep, RoutingOff, RoutingOn, Reconcile, Begins
  <2>7. CASE JobLoads \/ JobInstalls \/ JobRemoves \/ JobFails
    BY <2>2, <2>7 DEF JobLoads, JobInstalls, JobRemoves, JobFails, Rest
  <2>8. CASE LoopStep
    BY <2>2, <2>8 DEF LoopStep, PassChecks, PassLocks, PassWrites, PassRestores, PassEnds, Panel
  <2>9. CASE FirewallReloads \/ (\E i \in Unsteady : LinkDown(i) \/ LinkUp(i) \/ HealthTurns(i)) \/ UNCHANGED vars
    BY <2>2, <2>9 DEF FirewallReloads, LinkDown, LinkUp, HealthTurns, Around, vars
  <2> QED
    BY <2>3, <2>4, <2>5, <2>6, <2>7, <2>8, <2>9 DEF Next, JobStep
<1> QED
  BY <1>2, <1>3, <1>4 DEF KernelOK

(* The plane keeps its type, the marks within the number of tables          *)
(* included, and the lock is held exactly by the job or the pass that works *)
(* (applyMu in runApply, reconcile and the list failover pass).             *)
THEOREM PlaneTypes == CompilesRight => (Spec => []TypeOK)
<1> SUFFICES ASSUME CompilesRight PROVE Spec => []TypeOK
  OBVIOUS
<1>1. Init => KernelOK
  <2> SUFFICES ASSUME Init PROVE KernelOK
    OBVIOUS
  <2>1. rules = {} /\ hole = {} /\ dev = [s \in Slot |-> None] /\ ct = [f \in Flow |-> 0] /\ lock = None
    BY DEF Init
  <2>2. 0 \in Mark
    <3>1. Len(TagOrder) \in Nat
      BY PlaneAssumption
    <3> QED
      BY <3>1 DEF Mark
  <2> HIDE DEF Slot, Mark
  <2> QED
    BY <2>1, <2>2 DEF KernelOK
<1>2. RecordInv /\ KernelOK /\ [Next]_vars => KernelOK'
  BY KernelOKStep
<1>3. PlaneInv /\ PacketInv /\ KernelOK => TypeOK
  <2> SUFFICES ASSUME PlaneInv, PacketInv, KernelOK PROVE TypeOK
    OBVIOUS
  <2>1. job.op # None <=> lock \in {"panel", "reconcile"}
    BY DEF PlaneInv, LockInv, KernelOK, Idle, None
  <2>2. lock = "loop" <=> pass \in {"elect", "restore"}
    BY DEF PlaneInv, LockInv
  <2> QED
    BY <2>1, <2>2 DEF TypeOK, PacketInv, RecordInv, KernelOK
<1>4. PacketInv => RecordInv
  BY DEF PacketInv
<1> QED
  BY <1>1, <1>2, <1>3, <1>4, PlaneCorrect, FlowsAreJudged, PTL DEF Spec
============================================================================
