------------------------------ MODULE Failover ------------------------------
(* The selection brain of managed failover groups: internal/failover's     *)
(* Runner, Decide, Damper and OutlierDetector.                              *)
(*                                                                          *)
(* The clock is kept as ages: the time since a switch, since a wish, since  *)
(* a suppression, each held at the value past which no comparison of the    *)
(* code changes, so that runs have no horizon.  One tick of the runner is   *)
(* one unit of time.  A penalty decays as time passes; the code brings it   *)
(* up to date when it looks at it, which is the same for an exponential.    *)
(* The health probe, the failure signal, the selector and the user who      *)
(* picks a member by hand are the environment, and move between any two     *)
(* groups of a tick.                                                        *)
EXTENDS Integers, Sequences, FiniteSets, SequencesExt

CONSTANTS
  Member,            \* exits
  Order,             \* group -> its members in preference order
  Assigned,          \* possible policies: group -> GroupSpec.Policy
  Tour,              \* the managed groups in the order Tick visits them
  Latency,           \* what a probe of a live member may measure
  Wired,             \* a FailureSource is set
  Tolerance, MinDwell, FailbackHold,
  FlapPenalty, SuppressAt, ReuseAt, MaxSuppress,
  Decay(_),          \* the penalty one unit of time later
  ConsecutiveFailures, BaseEjection, MaxEjection,
  MaxPenalty,        \* bound: penalties are held here
  MaxChanges         \* bound: what the environment may do

VARIABLES
  health,      \* member -> 0 (dead) or the latency of its last probe
  failing,     \* members that fail real traffic
  policy,      \* group -> GroupSpec.Policy
  sel,         \* group -> selected member, or None
  changes,     \* what the environment has done so far
  todo,        \* groups this Tick has still to visit
  current,     \* Selections() as read when the Tick began
  recorded,    \* members whose traffic outcome this Tick has folded in
  sinceSwitch, \* group -> time since lastSwitch, at most MinDwell
  pending,     \* group -> [to, age], to = None when nothing is pending
  lastAlive,   \* members last seen alive
  penalty, suppressed, suppAge, \* dampState
  fails, ejections, ejectLeft,  \* outlierState
  up,          \* history: group -> member -> time it was alive at every visit, -1 when dead
  torn         \* history: groups whose pending wish an emergency's failed Select left behind

damper == <<penalty, suppressed, suppAge>>
outlier == <<fails, ejections, ejectLeft>>
runner == <<sinceSwitch, pending, lastAlive, damper, outlier>>
history == <<up, torn>>
world == <<health, failing, policy>>
vars == <<world, changes, sel, todo, current, recorded, runner, history>>

None == "none"
Group == DOMAIN Order
NoWish == [to |-> None, age |-> 0]

Policy == {"fallback", "selector", "urltest"}

(* A profile's groups are told apart by their ids: a Tick visits each once. *)
ASSUME FailoverAssumption ==
  /\ None \notin Member
  /\ \A g \in Group : Order[g] \in Seq(Member)
  /\ Assigned \subseteq [Group -> Policy]
  /\ Tour \in Seq(Group) /\ \A i, j \in 1..Len(Tour) : Tour[i] = Tour[j] => i = j
  /\ Latency \subseteq Nat \ {0} /\ Latency # {}
  /\ \A n \in {Tolerance, MinDwell, FailbackHold, FlapPenalty, SuppressAt, ReuseAt, MaxSuppress,
              ConsecutiveFailures, BaseEjection, MaxEjection, MaxPenalty, MaxChanges} : n \in Nat
  /\ Wired \in BOOLEAN
  /\ \A p \in 0..MaxPenalty : Decay(p) \in 0..MaxPenalty

AtMost(n, bound) == IF n < bound THEN n ELSE bound
----------------------------------------------------------------------------
(* Decide.  A view is what MemberHealth answers, with the hidden members    *)
(* marked dead.                                                             *)

Alive(view, m) == m # None /\ view[m] > 0

FirstAlive(g, view) ==
  LET i == SelectInSeq(Order[g], LAMBDA m : Alive(view, m))
  IN IF i = 0 THEN None ELSE Order[g][i]

LowestLatencyAlive(g, view) ==
  LET i == SelectInSeq(Order[g], LAMBDA m :
             Alive(view, m) /\ \A n \in Range(Order[g]) : Alive(view, n) => view[m] <= view[n])
  IN IF i = 0 THEN None ELSE Order[g][i]

Ideal(g, view, cur) ==
  LET first == FirstAlive(g, view)
      best == LowestLatencyAlive(g, view)
  IN IF first = None THEN IF policy[g] = "fallback" THEN None ELSE cur
     ELSE CASE policy[g] = "fallback" -> first
            [] policy[g] = "selector" -> IF Alive(view, cur) THEN cur ELSE first
            [] policy[g] = "urltest" ->
                 IF Alive(view, cur) /\ view[cur] - view[best] <= Tolerance THEN cur ELSE best

(* The member Decide wants to commit now, None when it wants no change.     *)
Decide(g, view, cur, emergency) ==
  LET want == Ideal(g, view, cur)
  IN IF want = cur \/ (~emergency /\ sinceSwitch[g] < MinDwell) THEN None ELSE want
----------------------------------------------------------------------------
(* filteredHealth: record this visit's flaps and traffic outcomes, then     *)
(* hide the suppressed and the ejected, but never everyone.                 *)

Members(g) == Range(Order[g])
Live(g) == {m \in Members(g) : health[m] > 0}
Flapped(g) == (lastAlive \cap Members(g)) \ Live(g)

Penalize(g) == [m \in Member |->
  IF m \in Flapped(g) THEN AtMost(penalty[m] + FlapPenalty, MaxPenalty) ELSE penalty[m]]

(* Mutant: a suppressed member is never released.                           *)
MutSuppress(g) == [m \in Member |-> suppressed[m] \/ (m \in Live(g) /\ penalty[m] > SuppressAt)]

(* Damper.Suppressed, asked about the live members only.                    *)
Suppress(g) == [m \in Member |->
  IF m \notin Live(g) THEN suppressed[m]
  ELSE IF suppressed[m] THEN ~(penalty[m] <= ReuseAt \/ suppAge[m] >= MaxSuppress)
  ELSE penalty[m] > SuppressAt]

Records(g) == IF Wired THEN Members(g) \ recorded ELSE {}

Ejects(g) == {m \in Records(g) \cap failing : fails[m] + 1 >= ConsecutiveFailures /\ ejectLeft[m] = 0}

(* Mutant: the window grows without its cap.                                *)
MutWindow(m) == BaseEjection * (ejections[m] + 1)

Window(m) == AtMost(BaseEjection * (ejections[m] + 1), MaxEjection)

Record(g) ==
  /\ fails' = [m \in Member |->
       IF m \notin Records(g) THEN fails[m]
       ELSE IF m \notin failing \/ m \in Ejects(g) THEN 0
       ELSE AtMost(fails[m] + 1, ConsecutiveFailures)]
  /\ ejections' = [m \in Member |->
       IF m \in Ejects(g) THEN AtMost(ejections[m] + 1, MaxEjection) ELSE ejections[m]]
  /\ ejectLeft' = [m \in Member |->
       IF m \in Ejects(g) THEN Window(m) ELSE ejectLeft[m]]

Hidden(g) == {m \in Live(g) : Suppress(g)[m] \/ (Wired /\ ejectLeft'[m] > 0)}

(* Mutant: the last live member is hidden too.                              *)
MutFilteredHealth(g) == [m \in Member |-> IF m \in Hidden(g) THEN 0 ELSE health[m]]

FilteredHealth(g) ==
  IF Live(g) \subseteq Hidden(g) THEN health
  ELSE [m \in Member |-> IF m \in Hidden(g) THEN 0 ELSE health[m]]

(* currentDeadOrEmpty or currentEjected, both read before this visit's      *)
(* outcomes are recorded.                                                   *)
RawCurrentAlive(g, cur) == cur \in Live(g) /\ ~(Wired /\ ejectLeft[cur] > 0)
----------------------------------------------------------------------------
(* Only urltest groups read latencies; the others need one live answer.      *)
Measured ==
  IF \E g \in Group : policy[g] = "urltest" THEN {0} \cup Latency ELSE {0, CHOOSE l \in Latency : TRUE}

Init ==
  /\ policy \in Assigned
  /\ health \in [Member -> Measured] /\ failing = {}
  /\ sel \in [Group -> {None}]
  /\ changes = 0
  /\ todo = << >> /\ current = sel /\ recorded = {}
  /\ sinceSwitch = [g \in Group |-> MinDwell] /\ pending = [g \in Group |-> NoWish]
  /\ lastAlive = {}
  /\ penalty = [m \in Member |-> 0] /\ suppressed = [m \in Member |-> FALSE]
  /\ suppAge = [m \in Member |-> 0]
  /\ fails = [m \in Member |-> 0] /\ ejections = [m \in Member |-> 0]
  /\ ejectLeft = [m \in Member |-> 0]
  /\ up = [g \in Group |-> [m \in Member |-> -1]]
  /\ torn = {}

(* Tick is called with the clock one unit later, and reads Selections().    *)
TickBegins ==
  /\ todo = << >>
  /\ todo' = Tour /\ current' = sel /\ recorded' = {}
  /\ sinceSwitch' = [g \in Group |-> AtMost(sinceSwitch[g] + 1, MinDwell)]
  /\ pending' = [g \in Group |->
       IF pending[g].to = None THEN NoWish ELSE [pending[g] EXCEPT !.age = AtMost(@ + 1, FailbackHold)]]
  /\ penalty' = [m \in Member |-> Decay(penalty[m])]
  /\ suppAge' = [m \in Member |-> IF suppressed[m] THEN AtMost(suppAge[m] + 1, MaxSuppress) ELSE 0]
  /\ ejectLeft' = [m \in Member |-> IF ejectLeft[m] > 0 THEN ejectLeft[m] - 1 ELSE 0]
  /\ up' = [g \in Group |-> [m \in Member |-> AtMost(up[g][m] + 1, FailbackHold)]]
  /\ UNCHANGED <<world, changes, sel, lastAlive, suppressed, fails, ejections, torn>>

Change == changes < MaxChanges /\ changes' = changes + 1

(* A wish for a live incumbent's replacement starts, goes on, or is         *)
(* granted after FailbackHold.                                              *)
HoldSatisfied(g, want) == pending[g].to = want /\ pending[g].age >= FailbackHold

(* Mutant: a wish survives ticks that do not want it.                       *)
MutWish(g, want) ==
  IF want = None \/ pending[g].to = want THEN pending[g] ELSE [to |-> want, age |-> 0]

Wish(g, want) ==
  IF want = None THEN NoWish
  ELSE IF pending[g].to = want THEN pending[g] ELSE [to |-> want, age |-> 0]

(* Select succeeds or fails; a failure charges neither dwell nor hold.      *)
Commit(g, want, emergency) ==
  \/ /\ sel' = [sel EXCEPT ![g] = want]
     /\ sinceSwitch' = [sinceSwitch EXCEPT ![g] = 0]
     /\ pending' = [pending EXCEPT ![g] = NoWish]
     /\ torn' = torn \ {g} /\ UNCHANGED changes
  \/ /\ Change
     /\ torn' = IF emergency /\ pending[g].to # None THEN torn \cup {g} ELSE torn
     /\ UNCHANGED <<sel, sinceSwitch, pending>>

Visit(g) ==
  LET cur == current[g]
      emergency == ~RawCurrentAlive(g, cur)
  IN /\ todo # << >> /\ g = Head(todo) /\ todo' = Tail(todo)
     /\ penalty' = Penalize(g) /\ suppressed' = Suppress(g)
     /\ suppAge' = [m \in Member |-> IF suppressed'[m] /\ suppressed[m] THEN suppAge[m] ELSE 0]
     /\ lastAlive' = (lastAlive \ Members(g)) \cup Live(g)
     /\ Record(g)
     /\ recorded' = recorded \cup Records(g)
     /\ up' = [up EXCEPT ![g] = [m \in Member |-> IF m \in Live(g) THEN @[m] ELSE -1]]
     /\ LET want == Decide(g, FilteredHealth(g), cur, emergency)
        IN IF want # None /\ (emergency \/ HoldSatisfied(g, want))
           THEN Commit(g, want, emergency)
           ELSE /\ pending' = [pending EXCEPT ![g] = Wish(g, want)]
                /\ torn' = IF pending'[g] = pending[g] THEN torn ELSE torn \ {g}
                /\ UNCHANGED <<sel, sinceSwitch, changes>>
     /\ UNCHANGED <<world, current>>

(* The environment: a probe result, the traffic signal, a pick by hand.     *)
ProbeResult(m) ==
  /\ Change /\ \E h \in Measured \ {health[m]} : health' = [health EXCEPT ![m] = h]
  /\ UNCHANGED <<failing, policy, sel, todo, current, recorded, runner, history>>

TrafficResult(m) ==
  /\ Change /\ Wired
  /\ failing' = IF m \in failing THEN failing \ {m} ELSE failing \cup {m}
  /\ UNCHANGED <<health, policy, sel, todo, current, recorded, runner, history>>

PickByHand(g, m) ==
  /\ Change /\ sel[g] # m /\ sel' = [sel EXCEPT ![g] = m]
  /\ UNCHANGED <<world, todo, current, recorded, runner, history>>

Next ==
  \/ TickBegins
  \/ \E g \in Group : Visit(g) \/ \E m \in Members(g) : PickByHand(g, m)
  \/ \E m \in Member : ProbeResult(m) \/ TrafficResult(m)

Spec == Init /\ [][Next]_vars
(* The monitor loop calls Tick over and over and each call ends; only       *)
(* TickBegins and Visit move todo.                                          *)
Pace == todo' = IF todo = << >> THEN Tour ELSE Tail(todo)
FairSpec == Spec /\ WF_todo(Pace)
----------------------------------------------------------------------------
TypeOK ==
  /\ policy \in [Group -> Policy] /\ changes \in 0..MaxChanges /\ todo \in Seq(Group)
  /\ up \in [Group -> [Member -> -1..FailbackHold]] /\ torn \subseteq Group
  /\ health \in [Member -> {0} \cup Latency] /\ failing \subseteq Member
  /\ sel \in [Group -> Member \cup {None}] /\ current \in [Group -> Member \cup {None}]
  /\ sinceSwitch \in [Group -> 0..MinDwell]
  /\ pending \in [Group -> [to : Member \cup {None}, age : 0..FailbackHold]]
  /\ lastAlive \subseteq Member /\ recorded \subseteq Member
  /\ penalty \in [Member -> 0..MaxPenalty] /\ suppressed \in [Member -> BOOLEAN]
  /\ suppAge \in [Member -> 0..MaxSuppress]
  /\ fails \in [Member -> 0..ConsecutiveFailures]
  /\ ejectLeft \in [Member -> 0..MaxEjection] /\ ejections \in [Member -> 0..MaxEjection]

(* No visit leaves a group on a dead or absent member while one of its      *)
(* members is alive, whatever is suppressed, ejected, held or dwelling: the *)
(* exclusions give way to the last live exit (runner.go filteredHealth) and *)
(* an emergency passes dwell and hold (Decide, Tick).  Only a failed Select *)
(* or a pick by hand after the Tick read the selection excuses it.          *)
NoBlackhole ==
  [][\A g \in Group : Visit(g) /\ Live(g) # {} /\ sel[g] = current[g] /\ changes' = changes
       => sel'[g] \in Live(g)]_vars

Switches(g) == Visit(g) /\ sel'[g] # sel[g]

(* A failback or an optimization is earned: the member that takes traffic   *)
(* from a live incumbent was alive at every visit of the last FailbackHold, *)
(* so one that recovers and flaps never steals traffic back (pendingSwitch).*)
(* Excepted is a wish left over from before an emergency whose Select       *)
(* failed, which the code does not drop.                                    *)
FailbackEarned ==
  [][\A g \in Group : Switches(g) /\ RawCurrentAlive(g, current[g]) /\ g \notin torn
       => up'[g][sel'[g]] >= FailbackHold]_vars

(* Once the world has changed for the last time, every group comes to rest  *)
(* on a live member that carries traffic, if it has one: suppression and    *)
(* ejection end for those that recovered and come back for those that did   *)
(* not, dwell and hold run out, and a strict-priority group is back on its  *)
(* first good member.                                                       *)
Good(g) == {m \in Live(g) : m \notin failing}
Settled(g) ==
  Good(g) # {} =>
    /\ sel[g] \in Good(g)
    /\ policy[g] = "fallback" => \A m \in Good(g) :
         \E i, j \in DOMAIN Order[g] : Order[g][i] = sel[g] /\ Order[g][j] = m /\ i <= j
Converges == <>[](\A g \in Group : Settled(g))
----------------------------------------------------------------------------
(* The inductive invariant of the proofs.                                   *)

OwnMembers == \A g \in Group : {sel[g], current[g]} \subseteq Members(g) \cup {None}

(* A Tick visits a group once, and some time has passed since its last.     *)
VisitsOnce ==
  /\ \A i, j \in 1..Len(todo) : todo[i] = todo[j] => i = j
  /\ \A i \in 1..Len(todo) : \A m \in Member : up[todo[i]][m] >= 0

(* The member a wish is for was alive at every visit since it was made.     *)
WishesBacked ==
  \A g \in Group : pending[g].to # None /\ g \notin torn => pending[g].age <= up[g][pending[g].to]

FailoverInv == TypeOK /\ OwnMembers /\ VisitsOnce /\ WishesBacked
============================================================================
