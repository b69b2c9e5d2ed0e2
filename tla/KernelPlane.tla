---------------------------- MODULE KernelPlane ----------------------------
(* The nft/ip routing plane of OpenWrt in fast mode, end to end: a profile  *)
(* compiled into zones, marks and tables (internal/pbr), installed and      *)
(* retired command list by command list (applykernel.go), the flows pinned  *)
(* by their saved mark (internal/ctflush), and the three that write to it   *)
(* under applyMu: Apply with Roll back, Keep and the routing switch, the    *)
(* reconcile loop, and the list failover loop (listfailover.go).            *)
(*                                                                          *)
(* Every endpoint is its own kernel interface.  The egress with the i-th    *)
(* table has mark i + 1; mark 1 is the WAN's, 0 none.  Conntrack can be     *)
(* read and written, and a flush stays below its limit.  The steps of an    *)
(* Apply or a rollback before its kernel step (native, plugins, core) are   *)
(* ApplyLifecycle's and succeed here; a later one may fail.                 *)
EXTENDS Integers, Sequences, FiniteSets, SequencesExt

CONSTANTS
  Endpoint, Members,   \* group -> its members in order, endpoints or groups
  KillSwitch,          \* the groups that fail closed
  TagOrder, NameOrder, \* outbound tags and zone names as sort.Strings has them
  Profile, Entries,    \* profile -> zone name -> a rule or routing list
  Flow,                \* [dev, fam, dst]
  Unseen,              \* the devices a rule knows by MAC, interface or port
  Unsteady,            \* bound: the endpoints whose link and health may change
  MaxFaults            \* bound: see Fault

None == "none"
Direct == "direct"
Block == "block"

ASSUME PlaneAssumption ==
  /\ None \notin Profile
  /\ \A g \in DOMAIN Members : Members[g] \in Seq(Endpoint \cup DOMAIN Members)
  /\ TagOrder \in Seq(Endpoint \cup DOMAIN Members \cup {Block})
  /\ Unsteady \subseteq Endpoint

VARIABLES
  committed, live, leftover, \* the record: profiles, or None
  mark,      \* the plane a failed rollback of live left: "tested", "committed"
             \* or "unknown"; None when none is outstanding
  off,       \* "on", "off", or "failed": off, but not all of it was removed
  nft,       \* whose table is loaded, or None
  proof,     \* its verification marker is in
  rules,     \* {<<family, table>>} with an ip rule for their mark
  dev,       \* <<family, table>> -> the interface of its default, or None
  hole,      \* {<<family, table>>} with a blackhole
  ct,        \* flow -> the mark its conntrack entry saved
  link, alive, \* interfaces that are up; endpoints the monitor calls alive
  lock,      \* who holds applyMu: None, "panel", "reconcile" or "loop"
  job,       \* the kernel work of the first two
  pass, seen, todo, \* where the list failover pass is, the tables it read as empty,
             \* and its writes
  faults,
  torn       \* history: what a failed rollback may have left, until a flush judges
             \* the flows: "flows", "tables"

record == <<committed, live, leftover, mark, off>>
kernel == <<nft, proof, rules, dev, hole>>
world == <<link, alive>>
loop == <<pass, seen, todo>>
vars == <<record, kernel, ct, world, lock, job, loop, faults, torn>>

Family == {4, 6}
Group == DOMAIN Members
----------------------------------------------------------------------------
(* pbr.Compile                                                              *)

(* A group's endpoints, nested groups walked in order.                      *)
Leaves[t \in Endpoint \cup Group] ==
  IF t \in Endpoint THEN <<t>>
  ELSE FlattenSeq([i \in DOMAIN Members[t] |-> Leaves[Members[t][i]]])

(* A rule or list becomes a zone unless it is off or covers no destination  *)
(* or device; only a rule may name devices and no destination.              *)
Zoned(e) ==
  /\ e.on
  /\ e.dst # {} \/ (e.rule /\ e.scope = "only")
  /\ e.scope = "only" => e.devices # {}

Zones(p) == {n \in DOMAIN Entries[p] : Zoned(Entries[p][n])}

Matches(e, f) ==
  /\ e.dst = {} \/ <<f.fam, f.dst>> \in e.dst
  /\ CASE e.scope = "all" -> TRUE
       [] e.scope = "only" -> f.dev \in e.devices
       [] e.scope = "except" -> f.dev \notin e.devices

(* orderZonesForEmit: by name, the blocks last; the last match wins.        *)
Emitted(p) ==
  LET by(block) == SelectSeq(NameOrder, LAMBDA n : n \in Zones(p) /\ (Entries[p][n].out = Block) = block)
  IN by(FALSE) \o by(TRUE)

Tags(p) == SelectSeq(TagOrder, LAMBDA t : \E n \in Zones(p) : Entries[p][n].out = t)

ZoneMark(p, f) ==
  LET hits == SelectSeq(Emitted(p), LAMBDA n : Matches(Entries[p][n], f))
      tag == Entries[p][Last(hits)].out
  IN CASE hits = <<>> -> 0
       [] hits # <<>> /\ tag = Direct -> 1
       [] OTHER -> 1 + CHOOSE i \in DOMAIN Tags(p) : Tags(p)[i] = tag

(* view.eval asks the zones from the last.  Conntrack shows no MAC,         *)
(* interface or port, so a zone scoped by one may match any source, and a   *)
(* flow it would decide is not judged.                                      *)
Hidden(e) == e.scope # "all" /\ e.devices \cap Unseen # {}

Judged(p, f) ==
  LET may == SelectSeq(Emitted(p), LAMBDA n : LET e == Entries[p][n]
                                              IN Matches(IF Hidden(e) THEN [e EXCEPT !.scope = "all"] ELSE e, f))
  IN may # <<>> => ~Hidden(Entries[p][Last(may)])

HasV6(p) == \E n \in Zones(p) : Entries[p][n].dst = {} \/ \E d \in Entries[p][n].dst : d[1] = 6

(* The plan of every profile, and the empty one.                            *)
Plan ==
  [p \in Profile \cup {None} |->
     IF p = None THEN [tags |-> <<>>, mark |-> [f \in Flow |-> 0], judged |-> Flow, slots |-> {}]
     ELSE [tags |-> Tags(p), mark |-> [f \in Flow |-> ZoneMark(p, f)], judged |-> {f \in Flow : Judged(p, f)},
           slots |-> (IF HasV6(p) THEN Family ELSE {4}) \X DOMAIN Tags(p)]]

Slot == Family \X (1 .. Len(TagOrder))
Mark == 0 .. Len(TagOrder) + 1
TagAt(p, s) == Plan[p].tags[s[2]]
Seed(p, s) == IF TagAt(p, s) = Block THEN None ELSE Head(Leaves[TagAt(p, s)])
Blackholed(p, s) == TagAt(p, s) = Block \/ TagAt(p, s) \in KillSwitch
----------------------------------------------------------------------------
(* Packets.  A mark the plan owns is restored before the zones are asked.   *)

Owns(p, m) == m \in 1 .. Len(Plan[p].tags) + 1
PacketMark(f) == IF Owns(nft, ct[f]) THEN ct[f] ELSE Plan[nft].mark[f]

Exit(f) ==
  LET m == IF nft = None THEN 0 ELSE PacketMark(f)
      s == <<f.fam, m - 1>>
  IN CASE m <= 1 -> "main"
       [] m > 1 /\ s \notin rules -> "main"
       [] m > 1 /\ s \in rules /\ dev[s] # None -> dev[s]
       [] OTHER -> IF s \in hole THEN "drop" ELSE "main"

Packet(f) ==
  /\ nft # None /\ PacketMark(f) # 0
  /\ ct' = [ct EXCEPT ![f] = PacketMark(f)]
  /\ UNCHANGED <<record, kernel, world, lock, job, loop, faults, torn>>

FlowEnds(f) ==
  /\ ct[f] # 0 /\ ct' = [ct EXCEPT ![f] = 0]
  /\ UNCHANGED <<record, kernel, world, lock, job, loop, faults, torn>>

(* The WAN's mark and none leave by the same route.                         *)
Route(m) == IF m = 1 THEN 0 ELSE m

(* Mutant: only the marks the new plan does not own are dropped.            *)
MutStale(cur, f) == ct[f] # 0 /\ ~Owns(cur, ct[f])

(* decider.stale: the next packet would be pinned to another exit, as far   *)
(* as the zones can tell.                                                   *)
Stale(cur, f) == f \in Plan[cur].judged /\ Owns(cur, ct[f]) /\ Route(Plan[cur].mark[f]) # Route(ct[f])

Flush(old, cur) ==
  ct' = [f \in Flow |->
    CASE old = cur -> ct[f]
      [] old # cur /\ cur = None -> IF Owns(old, ct[f]) /\ ct[f] # 1 THEN 0 ELSE ct[f]
      [] OTHER -> IF Stale(cur, f) THEN 0 ELSE ct[f]]
----------------------------------------------------------------------------
(* exactKernelAdapter.  A fault is a command refused for no reason of ours, *)
(* a link that goes down or a firewall reload.                              *)

Fault == faults < MaxFaults /\ faults' = faults + 1
Obeys == UNCHANGED faults

(* The state of the tables once those of gone are cleared and p's in are    *)
(* set up.                                                                  *)
Tables(p, in, gone) ==
  /\ rules' = (rules \ gone) \cup in
  /\ hole' = (hole \ gone) \cup {s \in in : Blackholed(p, s)}
  /\ dev' = [s \in Slot |-> IF s \in in THEN Seed(p, s) ELSE IF s \in gone THEN None ELSE dev[s]]

(* The slots of p's first n tables.                                         *)
UpTo(p, n) == {s \in Plan[p].slots : s[2] <= n}

(* bindKernelRetire: the previous plan's tables the new one does not name.  *)
Retire(p, prev) == Plan[prev].slots \ Plan[p].slots

LinksUp(p) == \A s \in Plan[p].slots : Seed(p, s) \in link \cup {None}

LoadsNft(p) == nft' = p /\ proof' = FALSE /\ UNCHANGED <<rules, dev, hole>>

Installs(p, prev) ==
  /\ LinksUp(p) /\ nft = p /\ Obeys
  /\ Tables(p, Plan[p].slots, Plan[p].slots \cup Retire(p, prev))
  /\ proof' = TRUE /\ UNCHANGED nft

(* A command fails, the marker for want of its table too: what is in is     *)
(* torn down again, if that is not refused.                                 *)
InstallFails(p) ==
  \/ /\ IF LinksUp(p) /\ nft = p THEN Fault ELSE Obeys
     /\ Tables(None, {}, Plan[p].slots) /\ nft' = None /\ proof' = FALSE
  \/ /\ Fault /\ UNCHANGED <<nft, proof>>
     /\ \E n \in 0 .. Len(Plan[p].tags) - 1 : Tables(p, UpTo(p, n), Plan[p].slots)

Removes(ps) ==
  /\ Obeys /\ Tables(None, {}, UNION {Plan[p].slots : p \in ps})
  /\ nft' = (IF ps \subseteq {None} THEN nft ELSE None) /\ proof' = (proof /\ nft' # None)

RemoveFails == Fault /\ UNCHANGED kernel
----------------------------------------------------------------------------
(* The panel: each operation takes applyMu, works through load, install (or *)
(* remove) and flush, and records the result.                               *)

Base == IF live # None THEN live ELSE committed

(* supervisedBaseline: what the loops keep installed.                       *)
Supervised ==
  CASE mark \in {None, "tested"} -> Base
    [] mark = "committed" -> committed
    [] OTHER -> None

Idle == [op |-> None, p |-> None, prev |-> None, at |-> None]
Job(op, p, prev) == [op |-> op, p |-> p, prev |-> prev, at |-> IF p = None THEN "remove" ELSE "load"]

Begins(who, j) ==
  /\ lock = None /\ lock' = who /\ job' = j
  /\ UNCHANGED <<kernel, ct, world, loop, faults, torn>>

Apply(p) == off = "on" /\ Begins("panel", Job("apply", p, Base)) /\ UNCHANGED record
RollBack == off = "on" /\ live # None /\ Begins("panel", Job("rollback", committed, live)) /\ UNCHANGED record

Keep ==
  /\ lock = None /\ live # None /\ mark = None
  /\ committed' = live /\ live' = None
  /\ UNCHANGED <<leftover, mark, off, kernel, ct, world, lock, job, loop, faults, torn>>

(* The switch is published before anything is removed; off again retries a  *)
(* removal.                                                                 *)
RoutingOff ==
  /\ off' = "off"
  /\ leftover' = (IF live # None THEN live ELSE leftover) /\ live' = None /\ mark' = None
  /\ Begins("panel", Job("off", None, None)) /\ UNCHANGED committed

RoutingOn ==
  /\ off # "on" /\ Begins("panel", Job("on", committed, leftover)) /\ UNCHANGED record

(* Mutant: a table without the marker of a complete install is enough.      *)
MutIsGone == nft # Supervised

(* kernelPostcheck asks for the marker the install writes last.             *)
IsGone == ~(nft = Supervised /\ proof)

Reconcile ==
  /\ off = "on" /\ Supervised # None /\ IsGone
  /\ Begins("reconcile", Job("reconcile", Supervised, None)) /\ UNCHANGED record

Rest == UNCHANGED <<ct, world, lock, loop, torn>>

JobLoads ==
  /\ job.at = "load" /\ LoadsNft(job.p) /\ Obeys
  /\ job' = [job EXCEPT !.at = "install"] /\ Rest /\ UNCHANGED record

JobInstalls ==
  /\ job.at = "install" /\ Installs(job.p, job.prev)
  /\ job' = [job EXCEPT !.at = "flush"]
  /\ Rest /\ UNCHANGED record

(* A teardown: of the rolled back plan where nothing was committed, or of   *)
(* both revisions the switch knows; a failed switch-on's has no flush.      *)
JobRemoves ==
  /\ job.at = "remove"
  /\ Removes(IF job.op \in {"off", "unroute"} THEN {leftover, committed} ELSE {job.prev})
  /\ job' = [job EXCEPT !.at = "flush", !.prev = IF job.op # "off" THEN @ ELSE IF leftover # None THEN leftover ELSE committed]
  /\ Rest /\ UNCHANGED record

Ends == lock' = None /\ job' = Idle
Then(j) == UNCHANGED lock /\ job' = j

(* kernelPostcheck asks for the marker of the plane just put in.            *)
Verified == job.p = None \/ (nft = job.p /\ proof)

(* Every success but a reconcile's ends with the flush, which an unchanged  *)
(* plan needs none of, and the record.                                      *)
JobSucceeds ==
  /\ job.at = "flush" /\ Verified
  /\ IF job.op = "reconcile" THEN UNCHANGED ct ELSE Flush(job.prev, job.p)
  /\ torn' = (IF job.op = "reconcile" \/ job.p \in {None, job.prev} THEN torn ELSE torn \ {"flows"})
  /\ CASE job.op = "apply" -> live' = job.p /\ mark' = None /\ Ends /\ UNCHANGED <<committed, leftover, off>>
       [] job.op = "undo" /\ mark = None -> Ends /\ UNCHANGED record
       [] job.op = "undo" /\ mark # None -> Then(Job("rollback", committed, live)) /\ UNCHANGED record
       [] job.op = "rollback" -> live' = None /\ mark' = None /\ Ends /\ UNCHANGED <<committed, leftover, off>>
       [] job.op = "on" -> off' = "on" /\ leftover' = None /\ Ends /\ UNCHANGED <<committed, live, mark>>
       [] job.op = "unroute" -> off' = "off" /\ Ends /\ UNCHANGED <<committed, live, leftover, mark>>
       [] OTHER -> Ends /\ UNCHANGED record
  /\ UNCHANGED <<kernel, world, loop, faults>>

(* kernelPlaneAfter: the kernel step of a rollback that failed was done, or *)
(* it is what failed; of a teardown neither can be told.                    *)
PlaneAfter == IF job.at = "flush" /\ job.p # None THEN "committed" ELSE "unknown"

(* runApply's record of an Apply whose rollback failed too: over a Test     *)
(* whose own rollback is outstanding, over another Test, or over none.      *)
UndoFails ==
  /\ live' = (IF live = None THEN job.prev ELSE live)
  /\ mark' = IF live # None /\ mark = None /\ PlaneAfter = "committed" THEN "tested" ELSE PlaneAfter

(* A failed Apply is rolled back to its baseline, or past a Test whose own  *)
(* rollback failed; a failed switch-on is removed again.  The last step can *)
(* also fail for another plane's sake.                                      *)
JobFails ==
  /\ \/ job.at = "load" /\ Fault /\ UNCHANGED kernel
     \/ job.at = "install" /\ InstallFails(job.p)
     \/ job.at = "remove" /\ RemoveFails
     \/ job.at = "flush" /\ (IF Verified THEN Fault ELSE Obeys) /\ UNCHANGED kernel
  /\ CASE job.op = "apply" -> Then(Job("undo", IF mark # None THEN committed ELSE Base, job.p)) /\ UNCHANGED record
       [] job.op = "undo" -> UndoFails /\ Ends /\ UNCHANGED <<committed, leftover, off>>
       [] job.op = "rollback" -> mark' = PlaneAfter /\ Ends /\ UNCHANGED <<committed, live, leftover, off>>
       [] job.op = "on" -> Then(Job("unroute", None, None)) /\ UNCHANGED record
       [] job.op \in {"off", "unroute"} -> off' = "failed" /\ Ends /\ UNCHANGED <<committed, live, leftover, mark>>
       [] OTHER -> Ends /\ UNCHANGED record
  /\ torn' = (IF job.op \in {"undo", "rollback"} THEN {"flows", "tables"} ELSE torn)
  /\ UNCHANGED <<ct, world, loop>>
----------------------------------------------------------------------------
(* The list failover pass                                                   *)

Panel == UNCHANGED <<record, ct, world, job, torn>>

PassChecks ==
  /\ pass = "idle" /\ off = "on" /\ pass' = "checked"
  /\ Panel /\ UNCHANGED <<kernel, lock, seen, todo, faults>>

(* electMember among the members that have a kernel link of their own.      *)
Elected(g) ==
  LET i == SelectInSeq(Members[g], LAMBDA m : m \in Endpoint \cap alive)
  IN IF i = 0 THEN None ELSE Members[g][i]

(* Mutant: only the v4 tables follow the election.                          *)
MutRepoints(p, read) ==
  {<<s, Elected(TagAt(p, s))>> : s \in {s \in Plan[p].slots : s[1] = 4 /\ TagAt(p, s) \in Group}}

(* listFailoverTargetsFrom, for the families that could be read.            *)
Repoints(p, read) ==
  {<<s, Elected(TagAt(p, s))>> : s \in {s \in Plan[p].slots : s[1] \in read /\ TagAt(p, s) \in Group}}

(* Mutant: the switch is not read again under the lock.                     *)
MutPassGoesOn == Supervised # None

PassGoesOn == off = "on" /\ Supervised # None

(* TryLock, the switch again, the plan, and one read of each family; one    *)
(* that cannot be read is left alone, and without v4 nothing is done.       *)
PassLocks ==
  /\ pass = "checked"
  /\ \/ /\ lock = None /\ PassGoesOn
        /\ \E read \in {Family, {4}} :
             /\ IF read = Family THEN Obeys ELSE Fault
             /\ seen' = {s \in Slot : s[1] \in read /\ dev[s] = None}
             /\ todo' = {w \in Repoints(Supervised, read) : w[2] \notin {None, dev[w[1]]}}
        /\ pass' = "elect" /\ lock' = "loop"
     \/ /\ IF lock = None /\ PassGoesOn THEN Fault ELSE Obeys
        /\ pass' = "idle" /\ UNCHANGED <<lock, seen, todo>>
  /\ Panel /\ UNCHANGED kernel

(* ip route replace default dev: refused while the device is down.          *)
PassWrites ==
  /\ \E w \in todo :
       /\ todo' = todo \ {w}
       /\ \/ w[2] \in link /\ Obeys /\ dev' = [dev EXCEPT ![w[1]] = w[2]]
          \/ IF w[2] \in link THEN Fault /\ UNCHANGED dev ELSE Obeys /\ UNCHANGED dev
  /\ Panel /\ UNCHANGED <<nft, proof, rules, hole, lock, pass, seen>>

(* lostTableRoutes: endpoint tables that had no route and whose device is   *)
(* up.                                                                      *)
PassRestores ==
  /\ pass = "elect" /\ todo = {} /\ pass' = "restore"
  /\ todo' = {<<s, TagAt(Supervised, s)>> :
                s \in {s \in Plan[Supervised].slots : TagAt(Supervised, s) \in link /\ s \in seen}}
  /\ Panel /\ UNCHANGED <<kernel, lock, seen, faults>>

(* Mutant: a pass returns with the lock held.                               *)
MutPassEnds ==
  /\ pass = "restore" /\ todo = {} /\ pass' = "idle" /\ seen' = {}
  /\ Panel /\ UNCHANGED <<kernel, lock, todo, faults>>

PassEnds ==
  /\ pass = "restore" /\ todo = {} /\ pass' = "idle" /\ lock' = None
  /\ seen' = {}
  /\ Panel /\ UNCHANGED <<kernel, todo, faults>>
----------------------------------------------------------------------------
(* The world: a firewall reload drops foreign tables, a link that goes down *)
(* takes its routes along.                                                  *)

Around == UNCHANGED <<record, ct, lock, job, loop, torn>>

FirewallReloads ==
  /\ nft # None /\ nft' = None /\ proof' = FALSE
  /\ Fault /\ Around /\ UNCHANGED <<rules, dev, hole, world>>

LinkDown(i) ==
  /\ i \in link /\ link' = link \ {i}
  /\ dev' = [s \in Slot |-> IF dev[s] = i THEN None ELSE dev[s]]
  /\ Fault /\ Around /\ UNCHANGED <<nft, proof, rules, hole, alive>>

LinkUp(i) ==
  /\ i \notin link /\ link' = link \cup {i}
  /\ Around /\ UNCHANGED <<kernel, alive, faults>>

(* The health of an endpoint outside every group is never asked for.        *)
HealthTurns(e) ==
  /\ \E g \in Group : e \in ToSet(Members[g])
  /\ alive' = (alive \cup {e}) \ (alive \cap {e})
  /\ Around /\ UNCHANGED <<kernel, link, faults>>

Init ==
  /\ committed = None /\ live = None /\ leftover = None /\ mark = None /\ off = "on"
  /\ nft = None /\ proof = FALSE /\ rules = {} /\ hole = {} /\ dev = [s \in Slot |-> None]
  /\ ct = [f \in Flow |-> 0] /\ link = Endpoint /\ alive = Endpoint
  /\ lock = None /\ job = Idle
  /\ pass = "idle" /\ seen = {} /\ todo = {} /\ faults = 0 /\ torn = {}

PanelBegins == (\E p \in Profile : Apply(p)) \/ RollBack \/ Keep \/ RoutingOff \/ RoutingOn
JobStep == JobLoads \/ JobInstalls \/ JobRemoves \/ JobSucceeds \/ JobFails
LoopStep == PassChecks \/ PassLocks \/ PassWrites \/ PassRestores \/ PassEnds

Next ==
  \/ PanelBegins \/ Reconcile \/ JobStep \/ LoopStep
  \/ \E f \in Flow : Packet(f) \/ FlowEnds(f)
  \/ FirewallReloads \/ \E i \in Unsteady : LinkDown(i) \/ LinkUp(i) \/ HealthTurns(i)

Spec == Init /\ [][Next]_vars

(* The tickers fire, commands return, and a ticker that finds the lock      *)
(* taken finds it free another time.                                        *)
FairSpec == Spec /\ WF_vars(JobStep) /\ WF_vars(LoopStep) /\ SF_vars(Reconcile)
----------------------------------------------------------------------------
TypeOK ==
  /\ {committed, live, leftover, nft} \subseteq Profile \cup {None}
  /\ mark \in {None, "tested", "committed", "unknown"}
  /\ rules \subseteq Slot /\ hole \subseteq Slot
  /\ dev \in [Slot -> Endpoint \cup {None}]
  /\ ct \in [Flow -> Mark]
  /\ job.op # None <=> lock \in {"panel", "reconcile"}
  /\ lock = "loop" <=> pass \in {"elect", "restore"}

InPlace == lock \in {None, "loop"} /\ off = "on" /\ Supervised # None /\ nft = Supervised /\ proof

(* What the operator asked for, read off the profile.                       *)
Asked(p, f) ==
  LET on == {n \in Zones(p) : Matches(Entries[p][n], f)}
      last == CHOOSE n \in on : \A o \in on \ {n} : \E i, j \in DOMAIN NameOrder : i < j /\ NameOrder[i] = o /\ NameOrder[j] = n
      tag == Entries[p][last].out
  IN CASE on = {} -> {"main"}
       [] \E n \in on : Entries[p][n].out = Block -> {"drop"}
       [] OTHER -> IF tag = Direct THEN {"main"}
                   ELSE ToSet(Leaves[tag]) \cup {IF tag \in KillSwitch THEN "drop" ELSE "main"}

(* The interfaces ever written to table s of p, and the exits the plan      *)
(* gives a flow.                                                            *)
Written(p, s) ==
  LET t == TagAt(p, s)
  IN {Seed(p, s)} \cup (Endpoint \cap ({t} \cup IF t \in Group THEN ToSet(Members[t]) ELSE {}))

PlanExits(p, f) ==
  LET s == <<f.fam, Plan[p].mark[f] - 1>>
  IN IF Plan[p].mark[f] <= 1 THEN {"main"}
     ELSE (Written(p, s) \ {None}) \cup {IF Blackholed(p, s) THEN "drop" ELSE "main"}

(* pbr.Compile on its own: the marks and tables of a profile are what its   *)
(* rules and lists ask for.                                                 *)
CompilesRight ==
  \A p \in Profile :
    /\ Plan[p].slots \subseteq Slot /\ \A s \in Plan[p].slots : Seed(p, s) \in Endpoint \cup {None}
    /\ \A f \in Flow :
         /\ Plan[p].mark[f] \in Mark
         /\ Plan[p].mark[f] > 1 => <<f.fam, Plan[p].mark[f] - 1>> \in Plan[p].slots
         /\ PlanExits(p, f) \subseteq Asked(p, f)

(* While a plane is in place every packet, also of a flow that began under  *)
(* another plan, leaves by the exit its rule or list names, a block is      *)
(* dropped, and a group with the kill switch never falls through to the     *)
(* WAN, whatever the loops, the links and the renumbering did before.  A    *)
(* flow that a zone conntrack cannot see would decide keeps its old mark.   *)
PacketsLeaveWhereAsked ==
  InPlace /\ "flows" \notin torn => \A f \in Plan[Supervised].judged : Exit(f) \in Asked(Supervised, f)

Used == rules \cup hole \cup {s \in Slot : dev[s] # None}

(* No rule, route or blackhole outlives the plan that owned it: a table     *)
(* that is not the plan's would be waiting for the next egress to get its   *)
(* number, and with routing off nothing is left to route by.                *)
NothingLeftBehind ==
  /\ InPlace /\ "tables" \notin torn => Used \subseteq Plan[Supervised].slots /\ rules = Plan[Supervised].slots
  /\ off = "off" /\ lock = None /\ "tables" \notin torn => Used = {} /\ nft = None

(* What the two rest on.  The lock, the switch and the record belong        *)
(* together, and the marker is only in with every rule of its plan.         *)
LockInv ==
  /\ lock \in {None, "loop"} => job = Idle
  /\ lock \notin {None, "loop"} => job.op \in {"apply", "undo", "rollback", "reconcile", "on", "off", "unroute"}
  /\ pass \in {"elect", "restore"} <=> lock = "loop"
  /\ todo # {} \/ lock = "loop" => lock = "loop" /\ off = "on" /\ Supervised # None
  /\ \A w \in todo : w[1] \in Plan[Supervised].slots
  /\ job.op \in {"apply", "undo", "rollback", "reconcile"} => off = "on"
  /\ job.op \in {"on", "off", "unroute"} => off # "on"
  /\ off \in {"on", "off", "failed"} /\ (off # "on" => live = None /\ mark = None)
  /\ off = "on" => leftover = None
  /\ dev = [s \in Slot |-> dev[s]]
  /\ proof => nft # None /\ Plan[nft].slots \subseteq rules
  /\ job.at = "install" => ~proof
  /\ job.at \in {"load", "install"} => job.p # None
  /\ job.at = "remove" => job.p = None

(* What each operation works on, in its step at, and what a rollback that   *)
(* failed leaves on record.                                                 *)
JobFits ==
  /\ job.op = "apply" => job.p # None /\ job.prev = Base
  /\ job.op = "undo" => job.p = (IF mark # None THEN committed ELSE Base) /\ job.prev # None
  /\ job.op = "rollback" => live # None /\ job.p = committed /\ job.prev = live
  /\ job.op = "reconcile" => job.p = Supervised
  /\ job.op = "on" => job.p = committed /\ job.prev = leftover
  /\ job.op \in {"off", "unroute"} => job.p = None /\ job.at \in {"remove", "flush"}
  /\ mark # None => live # None /\ "tables" \in torn /\ (job.op # "rollback" => "flows" \in torn)
  /\ "flows" \in torn => "tables" \in torn

(* The plans that may own what is in the kernel.                            *)
Owners ==
  CASE job.op = None /\ off = "on" -> {Base}
    [] job.op = None /\ off = "off" -> {None}
    [] job.op = None /\ off = "failed" -> {leftover, committed}
    [] job.op \in {"off", "unroute"} -> IF job.at = "remove" THEN {leftover, committed} ELSE {None}
    [] job.op = "reconcile" -> {job.p}
    [] OTHER -> IF job.at = "flush" THEN {job.p} ELSE {job.p, job.prev}

OwnedInv ==
  /\ "flows" \notin torn => nft \in Owners \cup {None}
  /\ "tables" \notin torn => Used \subseteq UNION {Plan[p].slots : p \in Owners}

(* No flow is pinned against the plan in force, nor, where a job puts the   *)
(* same plan in again and has nothing to flush, against that plan, which is *)
(* also what a switch-on finds when the Test was the committed plan.        *)
Fits(p) == \A f \in Flow : ~Stale(p, f)

FlowInv ==
  /\ ct \in [Flow -> Nat]
  /\ "flows" \notin torn =>
       /\ off = "on" /\ job.op \in {None, "reconcile"} => Fits(Base)
       /\ job.op \in {"apply", "undo", "rollback"} /\ job.p = job.prev => Fits(job.p)
       /\ off # "on" /\ leftover = committed => Fits(committed)

(* The tables of the plan in force hold what the install or a pass wrote.   *)
RecordInv ==
  /\ {committed, live, leftover, nft, job.p, job.prev} \subseteq Profile \cup {None}
  /\ link \subseteq Endpoint
  /\ mark \in {None, "tested", "committed", "unknown"}

TableInv ==
  /\ \A w \in todo : w[2] \in Written(Supervised, w[1])
  /\ proof /\ ("flows" \notin torn \/ (job.at = "flush" /\ nft = job.p)) =>
       \A s \in Plan[nft].slots :
         /\ s \in hole <=> Blackholed(nft, s)
         /\ dev[s] \in Written(nft, s) \cup {None}

(* Once links, health and plane settle, every group's table points at its   *)
(* first live member in both families, and an endpoint's table has its      *)
(* route back.                                                              *)
Pointed ==
  \A s \in Plan[Supervised].slots :
    LET t == TagAt(Supervised, s)
    IN /\ t \in Group /\ Elected(t) \in link => dev[s] = Elected(t)
       /\ t \in Endpoint \cap link => dev[s] # None

ListsRecover == <>[]InPlace /\ <>[][FALSE]_world => <>[]Pointed

(* Once the firewall leaves it alone and the links stay up, the reconcile   *)
(* loop brings back a plane that a reload, a failed apply or a link that was *)
(* down had torn out (ApplyKernelPlane and the loop's retries).  The links  *)
(* are needed: a single one that is down fails every apply of the plane.    *)
PlaneComesBack ==
  <>[](off = "on" /\ Supervised # None /\ link = Endpoint) /\ <>[][~FirewallReloads]_vars => []<>InPlace
============================================================================
