--------------------------- MODULE FailoverProofs ---------------------------
(* Proofs about Failover: no group is left on a dead member while one is    *)
(* alive, and no live incumbent loses its traffic to a member that has not  *)
(* been alive for the whole hold.                                           *)
EXTENDS Failover, WellFoundedInduction, TLAPS

----------------------------------------------------------------------------
(* The choices that Decide makes                                            *)

LEMMA MinNat ==
  ASSUME NEW T, T \subseteq Nat, T # {}
  PROVE  \E x \in T : \A y \in T : x <= y
<1>1. \E x \in T : \A y \in T : ~ (<<y, x>> \in OpToRel(<, Nat))
  BY NatLessThanWellFounded, WFMin
<1>2. PICK x \in T : \A y \in T : ~(y < x)
  BY <1>1 DEF OpToRel
<1> QED
  BY <1>2

\* The first index of a sequence that passes a test passes it.
LEMMA MinIndex ==
  ASSUME NEW I, I \subseteq Nat, I # {}
  PROVE  Min(I) \in I
BY MinNat DEF Min

LEMMA OrderIndex ==
  ASSUME NEW g \in Group
  PROVE  /\ \A i \in 1..Len(Order[g]) : Order[g][i] \in Members(g) /\ Order[g][i] \in Member
         /\ \A m \in Members(g) : m \in Member /\ m # None /\ \E i \in 1..Len(Order[g]) : Order[g][i] = m
<1>1. Order[g] \in Seq(Member) /\ DOMAIN Order[g] = 1..Len(Order[g])
  BY FailoverAssumption
<1>2. \A i \in 1..Len(Order[g]) : Order[g][i] \in Member
  BY <1>1
<1>3. None \notin Member
  BY FailoverAssumption
<1>4. Members(g) = {Order[g][i] : i \in 1..Len(Order[g])}
  BY <1>1 DEF Members, Range
<1> QED
  BY <1>2, <1>3, <1>4

LEMMA FirstAliveIs ==
  ASSUME NEW g \in Group, NEW view, \E m \in Members(g) : Alive(view, m)
  PROVE  FirstAlive(g, view) \in Members(g) /\ Alive(view, FirstAlive(g, view))
<1> DEFINE I == {i \in 1..Len(Order[g]) : Alive(view, Order[g][i])}
<1>1. I # {}
  BY OrderIndex
<1>2. I \subseteq Nat
  BY FailoverAssumption
<1>3. Min(I) \in I
  BY <1>1, <1>2, MinIndex
<1>4. Min(I) # 0
  BY <1>3
<1>5. FirstAlive(g, view) = Order[g][Min(I)]
  BY <1>1, <1>4 DEF FirstAlive, SelectInSeq
<1> QED
  BY <1>3, <1>5, OrderIndex

LEMMA FirstAliveNone ==
  ASSUME NEW g \in Group, NEW view, ~ \E m \in Members(g) : Alive(view, m)
  PROVE  FirstAlive(g, view) = None
<1> DEFINE I == {i \in 1..Len(Order[g]) : Alive(view, Order[g][i])}
<1>1. I = {}
  BY OrderIndex
<1> QED
  BY <1>1 DEF FirstAlive, SelectInSeq

LEMMA LowestAliveIs ==
  ASSUME NEW g \in Group, NEW view \in [Member -> Nat], \E m \in Members(g) : Alive(view, m)
  PROVE  LowestLatencyAlive(g, view) \in Members(g) /\ Alive(view, LowestLatencyAlive(g, view))
<1> DEFINE A == {m \in Members(g) : Alive(view, m)}
           V == {view[m] : m \in A}
           Best(m) == Alive(view, m) /\ \A n \in Range(Order[g]) : Alive(view, n) => view[m] <= view[n]
           I == {i \in 1..Len(Order[g]) : Best(Order[g][i])}
<1>1. V # {} /\ V \subseteq Nat
  BY OrderIndex
<1>2. PICK x \in V : \A y \in V : x <= y
  BY <1>1, MinNat
<1>3. PICK m \in A : x = view[m]
  BY <1>2
<1>4. Best(m)
  BY <1>2, <1>3 DEF Members
<1>5. PICK i \in 1..Len(Order[g]) : Order[g][i] = m
  BY <1>3, OrderIndex
<1>6. I # {}
  BY <1>4, <1>5
<1>7. I \subseteq Nat
  BY FailoverAssumption
<1>8. Min(I) \in I
  BY <1>6, <1>7, MinIndex
<1>9. Min(I) # 0
  BY <1>8
<1>10. LowestLatencyAlive(g, view) = Order[g][Min(I)]
  BY <1>6, <1>9 DEF LowestLatencyAlive, SelectInSeq
<1> QED
  BY <1>8, <1>10, OrderIndex

\* Decide asks for no change, or for a member that is alive in the view it was given.
LEMMA DecideAlive ==
  ASSUME NEW g \in Group, NEW view \in [Member -> Nat], NEW cur \in Members(g) \cup {None},
         policy[g] \in Policy, NEW emergency
  PROVE  LET want == Decide(g, view, cur, emergency)
         IN want # None => want \in Members(g) /\ Alive(view, want) /\ want # cur
<1> DEFINE want == Ideal(g, view, cur)
<1>1. CASE \E m \in Members(g) : Alive(view, m)
  <2>1. want \in Members(g) /\ Alive(view, want)
    <3>1. FirstAlive(g, view) \in Members(g) /\ Alive(view, FirstAlive(g, view))
      BY <1>1, FirstAliveIs
    <3>2. LowestLatencyAlive(g, view) \in Members(g) /\ Alive(view, LowestLatencyAlive(g, view))
      BY <1>1, LowestAliveIs
    <3>3. FirstAlive(g, view) # None
      BY <3>1 DEF Alive
    <3>4. CASE policy[g] = "fallback"
      BY <3>1, <3>3, <3>4 DEF Ideal
    <3>5. CASE policy[g] = "selector"
      BY <3>1, <3>3, <3>5 DEF Ideal, Alive
    <3>6. CASE policy[g] = "urltest"
      BY <3>2, <3>3, <3>6 DEF Ideal, Alive
    <3> QED
      BY <3>4, <3>5, <3>6 DEF Policy
  <2> QED
    BY <2>1 DEF Decide
<1>2. CASE ~ \E m \in Members(g) : Alive(view, m)
  <2>1. want \in {None, cur}
    BY <1>2, FirstAliveNone DEF Ideal
  <2> QED
    BY <2>1 DEF Decide
<1> QED
  BY <1>1, <1>2

\* In an emergency Decide asks for no change only when the incumbent is alive in its view.
LEMMA EmergencyDecides ==
  ASSUME NEW g \in Group, NEW view \in [Member -> Nat], NEW cur \in Members(g) \cup {None},
         policy[g] \in Policy, \E m \in Members(g) : Alive(view, m), Decide(g, view, cur, TRUE) = None
  PROVE  Alive(view, cur)
<1> DEFINE want == Ideal(g, view, cur)
<1>1. FirstAlive(g, view) \in Members(g) /\ Alive(view, FirstAlive(g, view))
  BY FirstAliveIs
<1>2. LowestLatencyAlive(g, view) \in Members(g) /\ Alive(view, LowestLatencyAlive(g, view))
  BY LowestAliveIs
<1>3. FirstAlive(g, view) # None
  BY <1>1 DEF Alive
<1>4. Alive(view, want)
  <2>1. CASE policy[g] = "fallback"
    BY <1>1, <1>3, <2>1 DEF Ideal
  <2>2. CASE policy[g] = "selector"
    BY <1>1, <1>3, <2>2 DEF Ideal
  <2>3. CASE policy[g] = "urltest"
    BY <1>2, <1>3, <2>3 DEF Ideal
  <2> QED
    BY <2>1, <2>2, <2>3 DEF Policy
<1>5. want # None
  BY <1>4 DEF Alive
<1>6. want = cur
  BY <1>5 DEF Decide
<1> QED
  BY <1>4, <1>6

----------------------------------------------------------------------------
(* The view that filteredHealth hands to Decide                             *)

LEMMA FilteredIs ==
  ASSUME TypeOK, NEW g \in Group
  PROVE  /\ FilteredHealth(g) \in [Member -> Nat]
         /\ \A m \in Members(g) : Alive(FilteredHealth(g), m) => m \in Live(g)
         /\ Live(g) # {} => \E m \in Members(g) : Alive(FilteredHealth(g), m)
<1>1. health \in [Member -> Nat]
  <2>1. {0} \cup Latency \subseteq Nat
    BY FailoverAssumption
  <2>2. health \in [Member -> {0} \cup Latency]
    BY DEF TypeOK
  <2> QED
    BY <2>1, <2>2
<1>2. \A m \in Live(g) : m \in Members(g) /\ m \in Member /\ m # None /\ health[m] > 0
  BY OrderIndex DEF Live
<1>3. CASE Live(g) \subseteq Hidden(g)
  <2>1. FilteredHealth(g) = health
    BY <1>3 DEF FilteredHealth
  <2> QED
    BY <1>1, <1>2, <2>1 DEF Alive, Live
<1>4. CASE ~(Live(g) \subseteq Hidden(g))
  <2>1. FilteredHealth(g) = [m \in Member |-> IF m \in Hidden(g) THEN 0 ELSE health[m]]
    BY <1>4 DEF FilteredHealth
  <2>2. PICK m \in Live(g) : m \notin Hidden(g)
    BY <1>4
  <2>3. Alive(FilteredHealth(g), m)
    BY <1>2, <2>1, <2>2 DEF Alive
  <2>4. \A n \in Members(g) : Alive(FilteredHealth(g), n) => n \in Live(g)
    BY <1>1, <2>1, OrderIndex DEF Alive, Live
  <2> QED
    BY <1>1, <1>2, <2>1, <2>3, <2>4
<1> QED
  BY <1>3, <1>4

----------------------------------------------------------------------------
(* What a visit does                                                        *)

Granted(g, want) ==
  want # None /\ (~RawCurrentAlive(g, current[g]) \/ HoldSatisfied(g, want))

Wanted(g) == Decide(g, FilteredHealth(g), current[g], ~RawCurrentAlive(g, current[g]))

LEMMA VisitIs ==
  ASSUME FailoverInv, NEW g \in Group, Visit(g)
  PROVE  /\ Wanted(g) # None => Wanted(g) \in Live(g) /\ Wanted(g) \in Members(g)
         /\ \/ /\ Granted(g, Wanted(g))
               /\ Commit(g, Wanted(g), ~RawCurrentAlive(g, current[g]))
            \/ /\ ~Granted(g, Wanted(g))
               /\ pending' = [pending EXCEPT ![g] = Wish(g, Wanted(g))]
               /\ torn' = IF pending'[g] = pending[g] THEN torn ELSE torn \ {g}
               /\ UNCHANGED <<sel, sinceSwitch, changes>>
<1>1. /\ TypeOK /\ current[g] \in Members(g) \cup {None} /\ policy[g] \in Policy
  BY DEF FailoverInv, OwnMembers, TypeOK
<1>2. /\ FilteredHealth(g) \in [Member -> Nat]
      /\ \A m \in Members(g) : Alive(FilteredHealth(g), m) => m \in Live(g)
  BY <1>1, FilteredIs
<1>3. Wanted(g) # None => Wanted(g) \in Members(g) /\ Alive(FilteredHealth(g), Wanted(g))
  BY <1>1, <1>2, DecideAlive DEF Wanted
<1>4. \/ /\ Granted(g, Wanted(g))
         /\ Commit(g, Wanted(g), ~RawCurrentAlive(g, current[g]))
      \/ /\ ~Granted(g, Wanted(g))
         /\ pending' = [pending EXCEPT ![g] = Wish(g, Wanted(g))]
         /\ torn' = IF pending'[g] = pending[g] THEN torn ELSE torn \ {g}
         /\ UNCHANGED <<sel, sinceSwitch, changes>>
  BY DEF Visit, Granted, Wanted
<1> QED
  BY <1>2, <1>3, <1>4

LEMMA Bounds ==
  /\ MinDwell \in Nat /\ FailbackHold \in Nat /\ FlapPenalty \in Nat /\ MaxSuppress \in Nat
  /\ ConsecutiveFailures \in Nat /\ BaseEjection \in Nat /\ MaxEjection \in Nat /\ MaxPenalty \in Nat
  /\ MaxChanges \in Nat
BY FailoverAssumption

LEMMA AtMostIn ==
  ASSUME NEW n \in Int, NEW lo \in Int, NEW bound \in Int, lo <= n, lo <= bound
  PROVE  AtMost(n, bound) \in lo..bound
BY DEF AtMost

LEMMA Products ==
  ASSUME NEW a \in Nat, NEW b \in Nat
  PROVE  a * b \in Nat
OBVIOUS

----------------------------------------------------------------------------
(* Types                                                                    *)

LEMMA VisitTypes ==
  ASSUME FailoverInv, NEW g \in Group, Visit(g)
  PROVE  TypeOK'
<1> USE Bounds
<1>1. TypeOK
  BY DEF FailoverInv
<1>2. /\ policy' \in [Group -> Policy] /\ todo' \in Seq(Group)
      /\ health' \in [Member -> {0} \cup Latency] /\ failing' \subseteq Member
      /\ current' \in [Group -> Member \cup {None}]
  BY <1>1 DEF TypeOK, Visit, world
<1>3. Live(g) \subseteq Member /\ Records(g) \subseteq Member
  BY OrderIndex DEF Live, Records
<1>4. lastAlive' \subseteq Member /\ recorded' \subseteq Member
  BY <1>1, <1>3 DEF TypeOK, Visit
<1>5. up' \in [Group -> [Member -> -1..FailbackHold]]
  <2> DEFINE u == [m \in Member |-> IF m \in Live(g) THEN up[g][m] ELSE -1]
  <2>1. u \in [Member -> -1..FailbackHold]
    BY <1>1 DEF TypeOK
  <2>2. up' = [up EXCEPT ![g] = u]
    BY DEF Visit
  <2> HIDE DEF u
  <2> QED
    BY <1>1, <2>1, <2>2 DEF TypeOK
<1>6. penalty' \in [Member -> 0..MaxPenalty]
  <2>1. \A m \in Member : AtMost(penalty[m] + FlapPenalty, MaxPenalty) \in 0..MaxPenalty
    BY <1>1 DEF TypeOK, AtMost
  <2> QED
    BY <1>1, <2>1 DEF TypeOK, Visit, Penalize
<1>7. suppressed' \in [Member -> BOOLEAN]
  <2>1. suppressed \in [Member -> BOOLEAN] /\ suppressed' = Suppress(g)
    BY <1>1 DEF TypeOK, Visit
  <2>2. \A m \in Member : (IF m \notin Live(g) THEN suppressed[m]
                          ELSE IF suppressed[m] THEN ~(penalty[m] <= ReuseAt \/ suppAge[m] >= MaxSuppress)
                          ELSE penalty[m] > SuppressAt) \in BOOLEAN
    <3> TAKE m \in Member
    <3>1. suppressed[m] \in BOOLEAN
      BY <2>1
    <3>2. CASE m \notin Live(g)
      BY <3>1, <3>2
    <3>3. CASE m \in Live(g) /\ suppressed[m]
      BY <3>3, Zenon
    <3>4. CASE m \in Live(g) /\ ~suppressed[m]
      <4>1. (penalty[m] > SuppressAt) \in BOOLEAN
        BY <1>1, FailoverAssumption DEF TypeOK
      <4> QED
        BY <3>4, <4>1, Zenon
    <3> QED
      BY <3>2, <3>3, <3>4
  <2> QED
    BY <2>1, <2>2, Zenon DEF Suppress
<1>8. suppAge' \in [Member -> 0..MaxSuppress]
  BY <1>1 DEF TypeOK, Visit
<1>9. fails' \in [Member -> 0..ConsecutiveFailures]
  <2>1. \A m \in Member : AtMost(fails[m] + 1, ConsecutiveFailures) \in 0..ConsecutiveFailures
    BY <1>1 DEF TypeOK, AtMost
  <2> QED
    BY <1>1, <2>1 DEF TypeOK, Visit, Record
<1>10. ejections' \in [Member -> 0..MaxEjection]
  <2>1. \A m \in Member : AtMost(ejections[m] + 1, MaxEjection) \in 0..MaxEjection
    BY <1>1 DEF TypeOK, AtMost
  <2> QED
    BY <1>1, <2>1 DEF TypeOK, Visit, Record
<1>11. ejectLeft' \in [Member -> 0..MaxEjection]
  <2>1. \A m \in Member : Window(m) \in 0..MaxEjection
    <3> TAKE m \in Member
    <3>1. ejections[m] + 1 \in Nat
      BY <1>1 DEF TypeOK
    <3> DEFINE n == BaseEjection * (ejections[m] + 1)
    <3>2. n \in Nat
      BY <3>1, Products
    <3>3. Window(m) = AtMost(n, MaxEjection)
      BY DEF Window
    <3> HIDE DEF n
    <3> QED
      BY <3>2, <3>3 DEF AtMost
  <2> QED
    BY <1>1, <2>1 DEF TypeOK, Visit, Record
<1>12. /\ sel' \in [Group -> Member \cup {None}] /\ sinceSwitch' \in [Group -> 0..MinDwell]
       /\ pending' \in [Group -> [to : Member \cup {None}, age : 0..FailbackHold]]
       /\ torn' \subseteq Group /\ changes' \in 0..MaxChanges
  <2> DEFINE want == Wanted(g)
  <2>1. want \in Member \cup {None}
    BY VisitIs, OrderIndex
  <2>2. NoWish \in [to : Member \cup {None}, age : 0..FailbackHold]
    BY DEF NoWish
  <2>3. [to |-> want, age |-> 0] \in [to : Member \cup {None}, age : 0..FailbackHold]
    BY <2>1
  <2>4. Wish(g, want) \in [to : Member \cup {None}, age : 0..FailbackHold]
    BY <1>1, <2>2, <2>3 DEF Wish, TypeOK
  <2>5. CASE Commit(g, want, ~RawCurrentAlive(g, current[g])) /\ Granted(g, want)
    <3>1. want \in Member
      BY <2>1, <2>5 DEF Granted
    <3>2. CASE /\ sel' = [sel EXCEPT ![g] = want]
               /\ sinceSwitch' = [sinceSwitch EXCEPT ![g] = 0]
               /\ pending' = [pending EXCEPT ![g] = NoWish]
               /\ torn' = torn \ {g} /\ UNCHANGED changes
      <4> HIDE DEF want
      <4>1. sel' \in [Group -> Member \cup {None}] /\ sinceSwitch' \in [Group -> 0..MinDwell]
        BY <1>1, <3>1, <3>2 DEF TypeOK
      <4>2. pending' \in [Group -> [to : Member \cup {None}, age : 0..FailbackHold]]
        BY <1>1, <2>2, <3>2 DEF TypeOK
      <4> QED
        BY <1>1, <3>2, <4>1, <4>2 DEF TypeOK
    <3>3. CASE /\ Change
               /\ torn' = IF ~RawCurrentAlive(g, current[g]) /\ pending[g].to # None THEN torn \cup {g} ELSE torn
               /\ UNCHANGED <<sel, sinceSwitch, pending>>
      <4>1. changes' \in 0..MaxChanges
        BY <1>1, <3>3 DEF Change, TypeOK
      <4> QED
        BY <1>1, <3>3, <4>1 DEF TypeOK
    <3> QED
      BY <2>5, <3>2, <3>3 DEF Commit
  <2>6. CASE /\ pending' = [pending EXCEPT ![g] = Wish(g, want)]
             /\ torn' = IF pending'[g] = pending[g] THEN torn ELSE torn \ {g}
             /\ UNCHANGED <<sel, sinceSwitch, changes>>
    BY <1>1, <2>4, <2>6 DEF TypeOK
  <2> QED
    BY <2>5, <2>6, VisitIs
<1> QED
  BY <1>2, <1>4, <1>5, <1>6, <1>7, <1>8, <1>9, <1>10, <1>11, <1>12 DEF TypeOK

LEMMA TickTypes ==
  ASSUME TypeOK, TickBegins
  PROVE  TypeOK'
<1> USE Bounds
<1>1. todo' \in Seq(Group)
  BY FailoverAssumption DEF TickBegins
<1>8. /\ policy' \in [Group -> Policy] /\ changes' \in 0..MaxChanges /\ torn' \subseteq Group
      /\ health' \in [Member -> {0} \cup Latency] /\ failing' \subseteq Member
      /\ sel' \in [Group -> Member \cup {None}] /\ current' \in [Group -> Member \cup {None}]
      /\ lastAlive' \subseteq Member /\ recorded' \subseteq Member
      /\ fails' \in [Member -> 0..ConsecutiveFailures] /\ ejections' \in [Member -> 0..MaxEjection]
  BY DEF TypeOK, TickBegins, world
<1>9. suppressed' \in [Member -> BOOLEAN]
  BY DEF TypeOK, TickBegins
<1>2. up' \in [Group -> [Member -> -1..FailbackHold]]
  <2>1. \A g \in Group, m \in Member : up[g][m] \in -1..FailbackHold
    BY DEF TypeOK
  <2>2. \A x \in -1..FailbackHold : AtMost(x + 1, FailbackHold) \in -1..FailbackHold
    BY DEF AtMost
  <2> QED
    BY <2>1, <2>2 DEF TickBegins
<1>3. sinceSwitch' \in [Group -> 0..MinDwell]
  BY DEF TypeOK, TickBegins, AtMost
<1>4. pending' \in [Group -> [to : Member \cup {None}, age : 0..FailbackHold]]
  <2>1. \A p \in [to : Member \cup {None}, age : 0..FailbackHold] :
          [p EXCEPT !.age = AtMost(p.age + 1, FailbackHold)] \in [to : Member \cup {None}, age : 0..FailbackHold]
    BY DEF AtMost
  <2>2. NoWish \in [to : Member \cup {None}, age : 0..FailbackHold]
    BY DEF NoWish
  <2> QED
    BY <2>1, <2>2 DEF TypeOK, TickBegins
<1>5. penalty' \in [Member -> 0..MaxPenalty]
  BY FailoverAssumption DEF TypeOK, TickBegins
<1>6. suppAge' \in [Member -> 0..MaxSuppress]
  BY DEF TypeOK, TickBegins, AtMost
<1>7. ejectLeft' \in [Member -> 0..MaxEjection]
  BY DEF TypeOK, TickBegins
<1> QED
  BY <1>1, <1>2, <1>3, <1>4, <1>5, <1>6, <1>7, <1>8, <1>9 DEF TypeOK

----------------------------------------------------------------------------
(* The inductive invariant                                                  *)

LEMMA FailoverInit == Init => FailoverInv
<1> SUFFICES ASSUME Init PROVE FailoverInv
  OBVIOUS
<1> USE Bounds
<1>1. Measured \subseteq {0} \cup Latency
  BY FailoverAssumption DEF Measured
<1>2. policy \in [Group -> Policy] /\ health \in [Member -> {0} \cup Latency]
  BY <1>1, FailoverAssumption DEF Init
<1>3. NoWish \in [to : Member \cup {None}, age : 0..FailbackHold] /\ NoWish.to = None
  BY DEF NoWish
<1>4. pending \in [Group -> [to : Member \cup {None}, age : 0..FailbackHold]]
  BY <1>3 DEF Init
<1>5. up \in [Group -> [Member -> -1..FailbackHold]]
  <2>1. [m \in Member |-> -1] \in [Member -> -1..FailbackHold]
    OBVIOUS
  <2> QED
    BY <2>1 DEF Init
<1>6. suppressed \in [Member -> BOOLEAN] /\ todo \in Seq(Group) /\ Len(todo) = 0
  BY DEF Init
<1>7. TypeOK
  BY <1>2, <1>4, <1>5, <1>6 DEF Init, TypeOK
<1>8. OwnMembers
  BY DEF Init, OwnMembers
<1>9. VisitsOnce
  BY <1>6 DEF VisitsOnce
<1>10. WishesBacked
  BY <1>3 DEF Init, WishesBacked
<1> QED
  BY <1>7, <1>8, <1>9, <1>10 DEF FailoverInv

LEMMA TickKeeps ==
  ASSUME FailoverInv, TickBegins
  PROVE  FailoverInv'
<1> USE Bounds
<1>1. TypeOK /\ TypeOK'
  BY TickTypes DEF FailoverInv
<1>2. \A g \in Group : \A m \in Member :
        up[g][m] \in -1..FailbackHold /\ up'[g][m] = AtMost(up[g][m] + 1, FailbackHold)
  BY <1>1 DEF TypeOK, TickBegins
<1>3. OwnMembers'
  BY DEF FailoverInv, OwnMembers, TickBegins, Members
<1>4. VisitsOnce'
  <2>1. todo' = Tour /\ Tour \in Seq(Group) /\ \A i, j \in 1..Len(Tour) : Tour[i] = Tour[j] => i = j
    BY FailoverAssumption DEF TickBegins
  <2>2. \A i \in 1..Len(Tour) : Tour[i] \in Group
    BY <2>1
  <2>3. \A g \in Group : \A m \in Member : up'[g][m] >= 0
    BY <1>2 DEF AtMost
  <2> QED
    BY <2>1, <2>2, <2>3 DEF VisitsOnce
<1>5. WishesBacked'
  <2> SUFFICES ASSUME NEW g \in Group, pending'[g].to # None, g \notin torn'
               PROVE  pending'[g].age <= up'[g][pending'[g].to]
    BY DEF WishesBacked
  <2> DEFINE p == pending[g]
  <2>1. p \in [to : Member \cup {None}, age : 0..FailbackHold]
    BY <1>1 DEF TypeOK
  <2>2. p.to # None
    BY DEF TickBegins, NoWish
  <2>3. pending'[g] = [p EXCEPT !.age = AtMost(p.age + 1, FailbackHold)]
    BY <2>2 DEF TickBegins
  <2>4. pending'[g].to = p.to /\ pending'[g].age = AtMost(p.age + 1, FailbackHold)
    BY <2>1, <2>3
  <2>5. p.age <= up[g][p.to]
    BY <2>2 DEF FailoverInv, WishesBacked, TickBegins
  <2> HIDE DEF p
  <2>6. p.to \in Member /\ p.age \in 0..FailbackHold
    BY <2>1, <2>2
  <2> QED
    BY <1>2, <2>4, <2>5, <2>6 DEF AtMost
<1> QED
  BY <1>1, <1>3, <1>4, <1>5 DEF FailoverInv

LEMMA VisitKeeps ==
  ASSUME FailoverInv, NEW g \in Group, Visit(g)
  PROVE  FailoverInv'
<1> USE Bounds
<1> DEFINE want == Wanted(g)
<1>1. TypeOK /\ TypeOK'
  BY VisitTypes DEF FailoverInv
<1>2. want # None => want \in Live(g) /\ want \in Members(g)
  BY VisitIs
<1>3. OwnMembers'
  <2>1. current' = current /\ \A h \in Group : sel'[h] = sel[h] \/ (h = g /\ want # None /\ sel'[h] = want)
    <3>1. current' = current /\ sel \in [Group -> Member \cup {None}]
      BY <1>1 DEF Visit, TypeOK
    <3>2. sel' = sel \/ (want # None /\ sel' = [sel EXCEPT ![g] = want])
      BY VisitIs DEF Commit, Granted
    <3> QED
      BY <3>1, <3>2
  <2> HIDE DEF want
  <2> QED
    BY <1>2, <2>1 DEF FailoverInv, OwnMembers, Members
<1>4. todo \in Seq(Group) /\ todo # << >> /\ todo[1] = g /\ todo' = Tail(todo)
  BY <1>1 DEF TypeOK, Visit
<1>5. \A i \in 1..Len(todo') : i + 1 \in 1..Len(todo) /\ todo'[i] = todo[i + 1] /\ todo[i + 1] \in Group
  BY <1>4
<1>6. up' = [up EXCEPT ![g] = [m \in Member |-> IF m \in Live(g) THEN up[g][m] ELSE -1]]
  BY DEF Visit
<1>7. \A m \in Live(g) : m \in Member /\ up'[g][m] = up[g][m]
  BY <1>1, <1>6, OrderIndex DEF TypeOK, Live
<1>8. \A h \in Group : h # g => up'[h] = up[h]
  BY <1>1, <1>6 DEF TypeOK
<1>9. \A m \in Member : up[g][m] >= 0
  <2>1. 1 \in 1..Len(todo)
    BY <1>4
  <2> QED
    BY <1>4, <2>1 DEF FailoverInv, VisitsOnce
<1>10. VisitsOnce'
  <2>1. \A i, j \in 1..Len(todo') : todo'[i] = todo'[j] => i = j
    <3> TAKE i, j \in 1..Len(todo')
    <3>1. todo'[i] = todo[i + 1] /\ todo'[j] = todo[j + 1] /\ i + 1 \in 1..Len(todo) /\ j + 1 \in 1..Len(todo)
      BY <1>5
    <3>2. todo[i + 1] = todo[j + 1] => i + 1 = j + 1
      BY <3>1 DEF FailoverInv, VisitsOnce
    <3>3. i \in Nat /\ j \in Nat
      BY <1>1 DEF TypeOK
    <3> QED
      BY <3>1, <3>2, <3>3
  <2>2. \A i \in 1..Len(todo') : todo'[i] # g
    <3> TAKE i \in 1..Len(todo')
    <3>1. todo'[i] = todo[i + 1] /\ i + 1 \in 1..Len(todo) /\ 1 \in 1..Len(todo) /\ i \in Nat \ {0}
      BY <1>1, <1>4, <1>5 DEF TypeOK
    <3>2. todo[i + 1] = todo[1] => i + 1 = 1
      BY <3>1 DEF FailoverInv, VisitsOnce
    <3> QED
      BY <1>4, <3>1, <3>2
  <2>3. \A i \in 1..Len(todo') : \A m \in Member : up'[todo'[i]][m] >= 0
    <3> TAKE i \in 1..Len(todo')
    <3>1. up'[todo'[i]] = up[todo[i + 1]] /\ i + 1 \in 1..Len(todo)
      BY <1>5, <1>8, <2>2
    <3> QED
      BY <3>1 DEF FailoverInv, VisitsOnce
  <2> QED
    BY <2>1, <2>2, <2>3 DEF VisitsOnce
<1>11. WishesBacked'
  <2> SUFFICES ASSUME NEW h \in Group, pending'[h].to # None, h \notin torn'
               PROVE  pending'[h].age <= up'[h][pending'[h].to]
    BY DEF WishesBacked
  <2>1. WishesBacked
    BY DEF FailoverInv
  <2>2. CASE h # g
    <3>1. pending'[h] = pending[h] /\ (h \in torn' <=> h \in torn)
      <4>1. pending \in [Group -> [to : Member \cup {None}, age : 0..FailbackHold]]
        BY <1>1 DEF TypeOK
      <4>2. /\ pending' = pending \/ \E w : pending' = [pending EXCEPT ![g] = w]
            /\ torn' \in {torn, torn \ {g}, torn \cup {g}}
        BY VisitIs DEF Commit
      <4> QED
        BY <2>2, <4>1, <4>2
    <3> QED
      BY <1>8, <2>1, <2>2, <3>1 DEF WishesBacked
  <2>3. CASE h = g
    <3>1. CASE Granted(g, want) /\ Commit(g, want, ~RawCurrentAlive(g, current[g]))
      <4>1. pending'[g] = pending[g] /\ g \notin torn /\ RawCurrentAlive(g, current[g])
        <5>1. pending \in [Group -> [to : Member \cup {None}, age : 0..FailbackHold]] /\ NoWish.to = None
          BY <1>1 DEF TypeOK, NoWish
        <5>2. pending' # [pending EXCEPT ![g] = NoWish]
          BY <2>3, <5>1
        <5>3. /\ pending' = pending
              /\ torn' = IF ~RawCurrentAlive(g, current[g]) /\ pending[g].to # None THEN torn \cup {g} ELSE torn
          BY <3>1, <5>2 DEF Commit
        <5> QED
          BY <2>3, <5>3
      <4>2. pending[g].to = want /\ want \in Live(g)
        BY <1>2, <3>1, <4>1 DEF Granted, HoldSatisfied
      <4> HIDE DEF want
      <4> QED
        BY <1>7, <2>1, <2>3, <4>1, <4>2 DEF WishesBacked
    <3>2. CASE /\ pending' = [pending EXCEPT ![g] = Wish(g, want)]
               /\ torn' = IF pending'[g] = pending[g] THEN torn ELSE torn \ {g}
      <4>1. pending'[g] = Wish(g, want)
        BY <1>1, <3>2 DEF TypeOK
      <4>2. want # None
        BY <2>3, <4>1 DEF Wish, NoWish
      <4> HIDE DEF want
      <4>3. CASE pending[g].to = want
        <5>1. pending'[g] = pending[g] /\ g \notin torn
          BY <2>3, <3>2, <4>1, <4>2, <4>3 DEF Wish
        <5> QED
          BY <1>2, <1>7, <2>1, <2>3, <4>2, <4>3, <5>1 DEF WishesBacked
      <4>4. CASE pending[g].to # want
        <5>1. pending'[g] = [to |-> want, age |-> 0]
          BY <4>1, <4>2, <4>4 DEF Wish
        <5>2. up'[g][want] >= 0
          BY <1>2, <1>7, <1>9, <4>2
        <5> QED
          BY <2>3, <5>1, <5>2
      <4> QED
        BY <4>3, <4>4
    <3> QED
      BY <3>1, <3>2, VisitIs
  <2> QED
    BY <2>2, <2>3
<1> QED
  BY <1>1, <1>3, <1>10, <1>11 DEF FailoverInv

\* Probes, traffic outcomes and picks by hand.
LEMMA WorldKeeps ==
  ASSUME FailoverInv,
         \/ \E m \in Member : ProbeResult(m) \/ TrafficResult(m)
         \/ \E g \in Group : \E m \in Members(g) : PickByHand(g, m)
  PROVE  FailoverInv'
<1> USE Bounds
<1>1. TypeOK
  BY DEF FailoverInv
<1>2. /\ UNCHANGED <<policy, todo, current, recorded, runner, history>> /\ changes' \in 0..MaxChanges
  BY <1>1 DEF ProbeResult, TrafficResult, PickByHand, Change, world, TypeOK
<1>3. /\ health' \in [Member -> {0} \cup Latency] /\ failing' \subseteq Member
  <2>1. Measured \subseteq {0} \cup Latency
    BY FailoverAssumption DEF Measured
  <2>2. ASSUME NEW m \in Member, ProbeResult(m) PROVE health' \in [Member -> {0} \cup Latency] /\ failing' = failing
    BY <1>1, <2>1, <2>2 DEF ProbeResult, TypeOK
  <2>3. ASSUME NEW m \in Member, TrafficResult(m) PROVE failing' \subseteq Member /\ health' = health
    BY <1>1, <2>3 DEF TrafficResult, TypeOK
  <2>4. ASSUME NEW g \in Group, NEW m \in Members(g), PickByHand(g, m) PROVE health' = health /\ failing' = failing
    BY <2>4 DEF PickByHand, world
  <2> QED
    BY <1>1, <2>2, <2>3, <2>4 DEF TypeOK
<1>4. /\ sel' \in [Group -> Member \cup {None}]
      /\ \A h \in Group : sel'[h] \in Members(h) \cup {None}
  <2>1. ASSUME NEW g \in Group, NEW m \in Members(g), PickByHand(g, m)
        PROVE  /\ sel' \in [Group -> Member \cup {None}]
               /\ \A h \in Group : sel'[h] \in Members(h) \cup {None}
    BY <1>1, <2>1, OrderIndex DEF PickByHand, FailoverInv, OwnMembers, TypeOK
  <2>2. CASE \E m \in Member : ProbeResult(m) \/ TrafficResult(m)
    BY <1>1, <2>2 DEF ProbeResult, TrafficResult, FailoverInv, OwnMembers, TypeOK
  <2> QED
    BY <2>1, <2>2
<1>5. TypeOK'
  BY <1>1, <1>2, <1>3, <1>4 DEF TypeOK, runner, damper, outlier, history
<1>6. OwnMembers'
  BY <1>2, <1>4 DEF FailoverInv, OwnMembers, Members
<1>7. VisitsOnce' /\ WishesBacked'
  BY <1>2 DEF FailoverInv, VisitsOnce, WishesBacked, runner, history
<1> QED
  BY <1>5, <1>6, <1>7 DEF FailoverInv

LEMMA FailoverStep == FailoverInv /\ [Next]_vars => FailoverInv'
<1> SUFFICES ASSUME FailoverInv, [Next]_vars PROVE FailoverInv'
  OBVIOUS
<1>1. CASE TickBegins
  BY <1>1, TickKeeps
<1>2. CASE \E g \in Group : Visit(g)
  BY <1>2, VisitKeeps
<1>3. CASE \/ \E m \in Member : ProbeResult(m) \/ TrafficResult(m)
           \/ \E g \in Group : \E m \in Members(g) : PickByHand(g, m)
  BY <1>3, WorldKeeps
<1>4. CASE UNCHANGED vars
  <2>1. UNCHANGED <<world, changes, sel, todo, current, recorded, runner, history>>
    BY <1>4 DEF vars
  <2>2. TypeOK'
    BY <2>1 DEF FailoverInv, TypeOK, world, runner, damper, outlier, history
  <2> QED
    BY <2>1, <2>2 DEF FailoverInv, OwnMembers, VisitsOnce, WishesBacked, runner, history, Members
<1> QED
  BY <1>1, <1>2, <1>3, <1>4 DEF Next

----------------------------------------------------------------------------
(* What the runner promises                                                 *)

(* The inductive invariant: a group's selection is one of its own members,  *)
(* a Tick visits it once, and what a wish is for has been alive as long as  *)
(* the wish is old (runner.go, Tick).                                       *)
THEOREM FailoverCorrect == Spec => []FailoverInv
<1>1. Init => FailoverInv
  BY FailoverInit
<1>2. FailoverInv /\ [Next]_vars => FailoverInv'
  BY FailoverStep
<1> QED
  BY <1>1, <1>2, PTL DEF Spec

(* Ages, penalties and windows stay within the bounds that the damper and   *)
(* the outlier detector set (damper.go, outlier.go).                        *)
THEOREM FailoverTypes == Spec => []TypeOK
<1>1. FailoverInv => TypeOK
  BY DEF FailoverInv
<1> QED
  BY <1>1, FailoverCorrect, PTL

(* No visit leaves a group on a dead or absent member while one of its      *)
(* members is alive, whatever is suppressed, ejected, held or dwelling      *)
(* (filteredHealth, Decide, Tick).                                          *)
THEOREM NoGroupBlackholed == Spec => NoBlackhole
<1> DEFINE A == \A g \in Group : Visit(g) /\ Live(g) # {} /\ sel[g] = current[g] /\ changes' = changes
                                => sel'[g] \in Live(g)
<1>1. ASSUME FailoverInv, NEW g \in Group, Visit(g), Live(g) # {}, sel[g] = current[g], changes' = changes
      PROVE  sel'[g] \in Live(g)
  <2> DEFINE want == Wanted(g)
  <2>1. /\ TypeOK /\ current[g] \in Members(g) \cup {None} /\ policy[g] \in Policy
    BY <1>1 DEF FailoverInv, OwnMembers, TypeOK
  <2>2. /\ FilteredHealth(g) \in [Member -> Nat]
        /\ \A m \in Members(g) : Alive(FilteredHealth(g), m) => m \in Live(g)
        /\ \E m \in Members(g) : Alive(FilteredHealth(g), m)
    BY <1>1, <2>1, FilteredIs
  <2>3. want # None => want \in Live(g)
    BY <1>1, VisitIs
  <2>4. CASE Granted(g, want)
    <3>1. Commit(g, want, ~RawCurrentAlive(g, current[g]))
      BY <1>1, <2>4, VisitIs
    <3>2. sel' = [sel EXCEPT ![g] = want]
      <4>1. changes \in Nat
        BY <2>1, Bounds DEF TypeOK
      <4>2. ~Change
        BY <1>1, <4>1 DEF Change
      <4> QED
        BY <3>1, <4>2 DEF Commit
    <3>3. sel'[g] = want
      BY <2>1, <3>2 DEF TypeOK
    <3> QED
      BY <2>3, <2>4, <3>3 DEF Granted
  <2>5. CASE ~Granted(g, want)
    <3>1. sel' = sel
      BY <1>1, <2>5, VisitIs
    <3>2. CASE RawCurrentAlive(g, current[g])
      BY <1>1, <3>1, <3>2 DEF RawCurrentAlive
    <3>3. CASE ~RawCurrentAlive(g, current[g])
      <4>1. Decide(g, FilteredHealth(g), current[g], TRUE) = None
        BY <2>5, <3>3 DEF Granted, Wanted
      <4>2. Alive(FilteredHealth(g), current[g])
        BY <2>1, <2>2, <4>1, EmergencyDecides
      <4>3. current[g] \in Members(g)
        BY <2>1, <4>2 DEF Alive
      <4> QED
        BY <1>1, <2>2, <3>1, <4>2, <4>3
    <3> QED
      BY <3>2, <3>3
  <2> QED
    BY <2>4, <2>5
<1>2. FailoverInv /\ [Next]_vars => [A]_vars
  BY <1>1
<1>3. Spec => [][A]_vars
  <2> HIDE DEF A
  <2> QED
    BY <1>2, FailoverCorrect, PTL DEF Spec
<1> QED
  BY <1>3 DEF NoBlackhole

(* The member that takes traffic from a live incumbent was alive at every   *)
(* visit of the last FailbackHold (pendingSwitch), a wish left over by an   *)
(* emergency whose Select failed excepted.                                  *)
THEOREM FailbacksAreEarned == Spec => FailbackEarned
<1> DEFINE A == \A g \in Group : Switches(g) /\ RawCurrentAlive(g, current[g]) /\ g \notin torn
                                => up'[g][sel'[g]] >= FailbackHold
<1>1. ASSUME FailoverInv, NEW g \in Group, Switches(g), RawCurrentAlive(g, current[g]), g \notin torn
      PROVE  up'[g][sel'[g]] >= FailbackHold
  <2> DEFINE want == Wanted(g)
  <2>1. TypeOK /\ Visit(g) /\ sel'[g] # sel[g]
    BY <1>1 DEF FailoverInv, Switches
  <2>2. Granted(g, want) /\ Commit(g, want, ~RawCurrentAlive(g, current[g]))
    BY <1>1, <2>1, VisitIs
  <2>3. sel'[g] = want
    BY <2>1, <2>2 DEF Commit, TypeOK
  <2>4. want \in Live(g) /\ want # None /\ pending[g].to = want /\ pending[g].age >= FailbackHold
    BY <1>1, <2>1, <2>2, VisitIs DEF Granted, HoldSatisfied
  <2>5. pending[g].age <= up[g][want]
    BY <1>1, <2>4 DEF FailoverInv, WishesBacked
  <2>6. up'[g][want] = up[g][want] /\ want \in Member
    BY <2>1, <2>4, OrderIndex DEF Visit, TypeOK, Live
  <2> HIDE DEF want
  <2>7. pending[g].age \in Nat /\ up[g][want] \in Int
    BY <2>1, <2>6, Bounds DEF TypeOK
  <2> QED
    BY <2>3, <2>4, <2>5, <2>6, <2>7, Bounds
<1>2. FailoverInv /\ [Next]_vars => [A]_vars
  BY <1>1
<1>3. Spec => [][A]_vars
  <2> HIDE DEF A
  <2> QED
    BY <1>2, FailoverCorrect, PTL DEF Spec
<1> QED
  BY <1>3 DEF FailbackEarned
============================================================================
