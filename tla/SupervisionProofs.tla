-------------------------- MODULE SupervisionProofs --------------------------
(* Proofs about Supervision, for every backoff, grace, window and set of    *)
(* configurations.                                                          *)
EXTENDS Supervision, FiniteSetTheorems, TLAPS

-----------------------------------------------------------------------------
(* superviseProc's throttle                                                 *)

\* A power of two, as the number of subsets of an interval: a positive natural.
LEMMA PowerOfTwo ==
  ASSUME NEW k \in Nat
  PROVE  2 ^ k \in Nat /\ 2 ^ k > 0
<1>1. IsFiniteSet(1..k) /\ Cardinality(1..k) = k
  BY FS_Interval
<1>2. IsFiniteSet(SUBSET (1..k)) /\ Cardinality(SUBSET (1..k)) = 2 ^ k
  BY <1>1, FS_SUBSET
<1>3. Cardinality(SUBSET (1..k)) \in Nat
  BY <1>2, FS_CardinalityType
<1>4. SUBSET (1..k) # {}
  OBVIOUS
<1>5. Cardinality(SUBSET (1..k)) # 0
  BY <1>2, <1>4, FS_EmptySet
<1> QED
  BY <1>2, <1>3, <1>5

\* pluginBackoffTicks: within its bound, and 0 only inside the grace.
LEMMA BackoffBounded ==
  ASSUME NEW n \in Nat
  PROVE  /\ BackoffTicks(n) \in 0..MaxCooldown
         /\ BackoffTicks(n) = 0 => n <= RestartGrace
<1> USE SupervisionAssumption
<1>1. CASE n <= RestartGrace
  BY <1>1 DEF BackoffTicks
<1>2. CASE n > RestartGrace
  <2>1. n - RestartGrace - 1 \in Nat
    BY <1>2
  <2>2. 2 ^ (n - RestartGrace - 1) \in Nat /\ 2 ^ (n - RestartGrace - 1) > 0
    BY <2>1, PowerOfTwo
  <2> DEFINE t == 2 ^ (n - RestartGrace - 1)
  <2>3. BackoffTicks(n) = AtMost(t, MaxCooldown)
    BY <1>2 DEF BackoffTicks
  <2>4. t \in Nat /\ t > 0
    BY <2>2
  <2> HIDE DEF t
  <2> QED
    BY <2>3, <2>4 DEF AtMost
<1> QED
  BY <1>1, <1>2

\* A launch changes whether the proc runs and is managed, and nothing the
\* throttle counts.
LEMMA LaunchKeeps ==
  ASSUME NEW s, NEW p \in Proc, NEW q \in Launch(s, p)
  PROVE  q \in Proc /\ q.restarts = p.restarts /\ q.cooldown = p.cooldown
<1>0. 0 \in 0..StableWindow
  BY SupervisionAssumption
<1>1. CASE q = [p EXCEPT !.running = TRUE, !.managed = TRUE, !.age = 0]
  <2>1. q \in Proc
    BY <1>0, <1>1, Zenon DEF Proc
  <2> QED
    BY <1>1, <2>1 DEF Proc
<1>2. ASSUME NEW m \in BOOLEAN, q = [p EXCEPT !.managed = m]
      PROVE  q \in Proc /\ q.restarts = p.restarts /\ q.cooldown = p.cooldown
  <2>1. q \in Proc
    BY <1>2, Zenon DEF Proc
  <2> QED
    BY <1>2, <2>1 DEF Proc
<1>3. p.managed \in BOOLEAN /\ (p.managed \/ s = "conn") \in BOOLEAN
  BY Zenon DEF Proc
<1> QED
  BY <1>1, <1>2, <1>3 DEF Launch

\* A proc that is started anew has nothing counted against it.
LEMMA StartedFresh ==
  ASSUME NEW s, NEW cfg \in Config \cup {None}, NEW q \in Started(s, cfg)
  PROVE  q \in Proc /\ q.restarts = 0 /\ q.cooldown = 0
<1> DEFINE fresh == [NoProc EXCEPT !.cfg = cfg]
<1>0. NoProc \in Proc
  BY SupervisionAssumption DEF NoProc, Proc
<1>1. fresh \in Proc
  BY <1>0, Zenon DEF Proc
<1>2. fresh.restarts = 0 /\ fresh.cooldown = 0
  BY DEF NoProc
<1> QED
  BY <1>1, <1>2, LaunchKeeps DEF Started

-----------------------------------------------------------------------------
(* The manager's slots                                                      *)

\* What SupervisionInv says of one slot: its proc p, whether the process lives,
\* and the relaunches h made in haste.
SlotOK(p, u, h) ==
  /\ p \in Proc /\ (u => p.running) /\ h \in 0..(RestartGrace + 1)
  /\ p.managed => h <= p.restarts
  /\ p.managed /\ p.cooldown = 0 => h <= RestartGrace

SlotsOK ==
  /\ proc \in [Slot -> Proc] /\ up \in [Slot -> BOOLEAN] /\ hasty \in [Slot -> Nat]
  /\ \A s \in Slot : SlotOK(proc[s], up[s], hasty[s])

\* A step that writes one slot needs to be right about that slot only.
LEMMA OneSlot ==
  ASSUME SlotsOK, NEW s \in Slot, NEW p \in Proc, NEW u \in BOOLEAN, NEW h \in Nat,
         proc' = [proc EXCEPT ![s] = p], up' = [up EXCEPT ![s] = u],
         hasty' = [hasty EXCEPT ![s] = h], SlotOK(p, u, h)
  PROVE  SlotsOK'
<1>1. proc' \in [Slot -> Proc] /\ up' \in [Slot -> BOOLEAN] /\ hasty' \in [Slot -> Nat]
  BY Zenon DEF SlotsOK
<1>2. ASSUME NEW x \in Slot
      PROVE  SlotOK(proc'[x], up'[x], hasty'[x])
  <2>1. CASE x = s
    BY <2>1, Zenon DEF SlotsOK
  <2>2. CASE x # s
    BY <2>2, Zenon DEF SlotsOK
  <2> QED
    BY <2>1, <2>2
<1> QED
  BY <1>1, <1>2 DEF SlotsOK

\* Installing a proc starts its slot afresh.
LEMMA InstallSlots ==
  ASSUME SlotsOK, NEW s \in Slot, NEW p \in Proc, Install(s, p)
  PROVE  SlotsOK'
<1>1. p.running \in BOOLEAN /\ p.restarts \in Nat
  BY DEF Proc
<1>2. SlotOK(p, p.running, 0)
  BY <1>1, SupervisionAssumption DEF SlotOK
<1> QED
  BY <1>1, <1>2, OneSlot, Zenon DEF Install

LEMMA NoProcType == NoProc \in Proc
BY SupervisionAssumption DEF NoProc, Proc

\* Sync keeps the slots, and leaves them alone after StopAll.
LEMMA SyncSlots ==
  ASSUME SlotsOK, NEW cfg \in Config \cup {None}, Sync(cfg)
  PROVE  SlotsOK' /\ (shut => UNCHANGED up)
<1>c. "conn" \in Slot
  BY DEF Slot
<1>1. CASE shut
  BY <1>1 DEF Sync, ShutFor, SlotsOK
<1>2. CASE ~shut /\ cfg = None
  BY <1>c, <1>2, NoProcType, InstallSlots DEF Sync, ShutFor
<1>3. CASE ~shut /\ cfg # None /\ proc["conn"].cfg = cfg /\ proc["conn"].running
  <2> DEFINE p == [proc["conn"] EXCEPT !.restarts = 0, !.cooldown = 0]
  <2>1. /\ proc' = [proc EXCEPT !["conn"] = p]
        /\ hasty' = [hasty EXCEPT !["conn"] = 0] /\ UNCHANGED up
    BY <1>3 DEF Sync, ShutFor
  <2>2. proc["conn"] \in Proc
    BY <1>c DEF SlotsOK
  <2>3. p \in Proc
    <3>1. 0 \in Nat /\ 0 \in 0..MaxCooldown
      BY SupervisionAssumption
    <3> QED
      BY <2>2, <3>1, Zenon DEF Proc
  <2>4. p.restarts = 0 /\ p.running = proc["conn"].running
    BY <2>2 DEF Proc
  <2>5. SlotOK(p, up["conn"], 0)
    BY <1>3, <2>3, <2>4, SupervisionAssumption DEF SlotOK
  <2>6. up' = [up EXCEPT !["conn"] = up["conn"]] /\ up["conn"] \in BOOLEAN
    BY <1>c, <2>1 DEF SlotsOK
  <2> HIDE DEF p
  <2>7. 0 \in Nat
    OBVIOUS
  <2> QED
    BY <1>c, <1>3, <2>1, <2>3, <2>5, <2>6, <2>7, OneSlot, Zenon
<1>4. CASE ~shut /\ cfg # None /\ ~(proc["conn"].cfg = cfg /\ proc["conn"].running)
  <2>1. PICK p \in Started("conn", cfg) : Install("conn", p)
    BY <1>4 DEF Sync, ShutFor
  <2> QED
    BY <1>c, <1>4, <2>1, StartedFresh, InstallSlots
<1> QED
  BY <1>1, <1>2, <1>3, <1>4

\* So does RunService.
LEMMA RunServiceSlots ==
  ASSUME SlotsOK, NEW cfg \in Config \cup {None}, RunService(cfg)
  PROVE  SlotsOK' /\ (shut => UNCHANGED up)
<1>c. "svc" \in Slot
  BY DEF Slot
<1>1. CASE shut \/ (cfg # None /\ ServiceKept(cfg))
  BY <1>1 DEF RunService, ShutFor, SlotsOK
<1>2. CASE ~shut /\ cfg = None
  BY <1>c, <1>2, NoProcType, InstallSlots DEF RunService, ShutFor
<1>3. CASE ~shut /\ cfg # None /\ ~ServiceKept(cfg)
  <2>1. PICK p \in Started("svc", cfg) : Install("svc", p)
    BY <1>3 DEF RunService, ShutFor
  <2> QED
    BY <1>c, <1>3, <2>1, StartedFresh, InstallSlots
<1> QED
  BY <1>1, <1>2, <1>3

\* An uninstalled or replaced binary leaves an empty slot.
LEMMA StopByBinSlots ==
  ASSUME SlotsOK, NEW s \in Slot, StopByBin(s), UNCHANGED hasty
  PROVE  SlotsOK'
<1>1. hasty[s] \in Nat /\ hasty' = [hasty EXCEPT ![s] = hasty[s]]
  BY DEF SlotsOK
<1>2. SlotOK(NoProc, FALSE, hasty[s])
  BY NoProcType DEF SlotsOK, SlotOK, NoProc
<1>3. FALSE \in BOOLEAN
  OBVIOUS
<1> QED
  BY <1>1, <1>2, <1>3, NoProcType, OneSlot, Zenon DEF StopByBin

\* A running proc ages; nothing else about it changes.
LEMMA OlderKeeps ==
  ASSUME NEW p \in Proc
  PROVE  /\ Older(p) \in Proc /\ Older(p).managed = p.managed /\ Older(p).running = p.running
         /\ Older(p).restarts = p.restarts /\ Older(p).cooldown = p.cooldown
<1>1. CASE ~p.running
  BY <1>1 DEF Older
<1>2. CASE p.running
  <2> DEFINE a == AtMost(p.age + 1, StableWindow)
  <2>1. a \in 0..StableWindow
    BY SupervisionAssumption DEF AtMost, Proc
  <2>2. Older(p) = [p EXCEPT !.age = a]
    BY <1>2 DEF Older
  <2> HIDE DEF a
  <2>3. Older(p) \in Proc
    BY <2>1, <2>2, Zenon DEF Proc
  <2> QED
    BY <2>2, <2>3 DEF Proc
<1> QED
  BY <1>1, <1>2

\* A relaunch is counted and charged before the process is started.
LEMMA RelaunchedCounted ==
  ASSUME NEW s \in Slot, NEW p \in Proc, p.managed, p.cooldown = 0, NEW q \in Relaunched(s, p)
  PROVE  /\ q \in Proc
         /\ \/ ~q.managed
            \/ /\ q.restarts = AtMost(p.restarts + 1, RestartGrace + MaxCooldown)
               /\ q.cooldown = 0 => q.restarts <= RestartGrace
<1> DEFINE n == AtMost(p.restarts + 1, RestartGrace + MaxCooldown)
           charged == [p EXCEPT !.restarts = n, !.cooldown = BackoffTicks(n), !.running = FALSE]
<1>n. n \in Nat
  BY SupervisionAssumption DEF AtMost, Proc
<1>b. BackoffTicks(n) \in 0..MaxCooldown /\ (BackoffTicks(n) = 0 => n <= RestartGrace)
  BY <1>n, BackoffBounded
<1>1. CASE s \in binary
  <2>1. q \in Launch(s, charged)
    BY <1>1 DEF Relaunched
  <2> HIDE DEF n
  <2>2. charged \in Proc
    BY <1>n, <1>b, Zenon DEF Proc
  <2>3. charged.restarts = n /\ charged.cooldown = BackoffTicks(n)
    BY DEF Proc
  <2> HIDE DEF charged
  <2>4. q \in Proc /\ q.restarts = n /\ q.cooldown = BackoffTicks(n)
    BY <2>1, <2>2, <2>3, LaunchKeeps
  <2> QED
    BY <1>b, <2>4 DEF n
<1>2. CASE s \notin binary
  <2>1. q = [p EXCEPT !.managed = FALSE, !.running = FALSE]
    BY <1>2 DEF Relaunched
  <2>2. q \in Proc
    BY <2>1, Zenon DEF Proc
  <2>3. ~q.managed
    BY <2>1 DEF Proc
  <2> QED
    BY <2>2, <2>3
<1> QED
  BY <1>1, <1>2

\* The relaunches in haste after one tick that left proc q in slot s.
Hasty(s, q) ==
  CASE q.restarts > 0 /\ ~up[s] /\ proc[s].managed /\ proc[s].cooldown = 0
         -> AtMost(hasty[s] + 1, RestartGrace + 2)
    [] up[s] /\ q.age < StableWindow -> hasty[s]
    [] OTHER -> 0

\* superviseProc keeps a slot: it relaunches at once only inside the grace, and
\* a wait or a stable run makes the next relaunch the first again.
LEMMA SuperviseOne ==
  ASSUME SlotsOK, NEW s \in Slot, NEW q \in SuperviseProc(s, Older(proc[s]))
  PROVE  q \in Proc /\ Hasty(s, q) \in Nat /\ SlotOK(q, q.running, Hasty(s, q))
<1> DEFINE p == Older(proc[s])  h == hasty[s]
<1>0. /\ proc[s] \in Proc /\ h \in 0..(RestartGrace + 1) /\ (up[s] => proc[s].running)
      /\ proc[s].managed => h <= proc[s].restarts
      /\ proc[s].managed /\ proc[s].cooldown = 0 => h <= RestartGrace
  BY DEF SlotsOK, SlotOK
<1>1. /\ p \in Proc /\ p.managed = proc[s].managed /\ p.running = proc[s].running
      /\ p.restarts = proc[s].restarts /\ p.cooldown = proc[s].cooldown
  BY <1>0, OlderKeeps
<1>2. p.restarts \in Nat /\ p.cooldown \in 0..MaxCooldown /\ p.age \in 0..StableWindow
  BY <1>1 DEF Proc
<1> HIDE DEF p
<1>s. q \in SuperviseProc(s, p)
  BY DEF p
<1> USE SupervisionAssumption
<1>3. CASE ~p.managed
  <2>1. q = p
    BY <1>3, <1>s DEF SuperviseProc
  <2>2. Hasty(s, q) \in {h, 0}
    BY <1>1, <1>3, <2>1 DEF Hasty
  <2> QED
    BY <1>0, <1>1, <1>3, <2>1, <2>2 DEF SlotOK
<1>4. CASE p.managed /\ p.running /\ up[s] /\ ThrottleClears(p)
  <2>1. q = [p EXCEPT !.restarts = 0, !.cooldown = 0]
    BY <1>4, <1>s DEF SuperviseProc
  <2>2. q \in Proc
    <3>1. 0 \in Nat /\ 0 \in 0..MaxCooldown
      OBVIOUS
    <3> QED
      BY <1>1, <2>1, <3>1, Zenon DEF Proc
  <2>3. q.restarts = 0 /\ q.age = p.age
    BY <1>1, <2>1 DEF Proc
  <2>4. Hasty(s, q) = 0
    BY <1>2, <1>4, <2>3 DEF Hasty, ThrottleClears
  <2> QED
    BY <2>2, <2>3, <2>4 DEF SlotOK
<1>5. CASE p.managed /\ p.running /\ up[s] /\ ~ThrottleClears(p)
  <2>1. q = p
    BY <1>5, <1>s DEF SuperviseProc
  <2>2. Hasty(s, q) \in {h, 0}
    BY <1>5, <2>1 DEF Hasty
  <2> QED
    BY <1>0, <1>1, <1>2, <1>5, <2>1, <2>2 DEF SlotOK
<1>6. CASE p.managed /\ ~(p.running /\ up[s]) /\ p.cooldown > 0
  <2>1. q = [p EXCEPT !.running = FALSE, !.cooldown = p.cooldown - 1]
    BY <1>6, <1>s DEF SuperviseProc
  <2>2. p.cooldown - 1 \in 0..MaxCooldown
    BY <1>2, <1>6
  <2>3. q \in Proc
    BY <1>1, <2>1, <2>2, Zenon DEF Proc
  <2>4. ~up[s] /\ proc[s].cooldown # 0
    BY <1>0, <1>1, <1>2, <1>6
  <2>5. Hasty(s, q) = 0
    BY <2>4 DEF Hasty
  <2>6. q.restarts \in Nat
    BY <2>3 DEF Proc
  <2> QED
    BY <2>3, <2>5, <2>6 DEF SlotOK
<1>7. CASE p.managed /\ ~(p.running /\ up[s]) /\ ~(p.cooldown > 0)
  <2>1. q \in Relaunched(s, p) /\ p.cooldown = 0
    BY <1>2, <1>7, <1>s DEF SuperviseProc
  <2>2. /\ q \in Proc
        /\ \/ ~q.managed
           \/ /\ q.restarts = AtMost(p.restarts + 1, RestartGrace + MaxCooldown)
              /\ q.cooldown = 0 => q.restarts <= RestartGrace
    BY <1>1, <1>7, <2>1, RelaunchedCounted
  <2>3. ~up[s] /\ proc[s].managed /\ proc[s].cooldown = 0 /\ h <= RestartGrace /\ h <= p.restarts
    BY <1>0, <1>1, <1>7, <2>1
  <2>4. q.restarts \in Nat
    BY <2>2 DEF Proc
  <2>5. Hasty(s, q) = IF q.restarts > 0 THEN h + 1 ELSE 0
    <3>1. AtMost(h + 1, RestartGrace + 2) = h + 1
      BY <1>0, <2>3 DEF AtMost
    <3> QED
      BY <2>3, <2>4, <3>1 DEF Hasty
  <2>6. Hasty(s, q) \in 0..(RestartGrace + 1)
    BY <1>0, <2>3, <2>5
  <2>7. q.managed => Hasty(s, q) <= q.restarts
    BY <1>0, <1>2, <2>2, <2>3, <2>4, <2>5 DEF AtMost
  <2>8. q.managed /\ q.cooldown = 0 => Hasty(s, q) <= RestartGrace
    BY <2>2, <2>4, <2>6, <2>7
  <2> QED
    BY <2>2, <2>6, <2>7, <2>8 DEF SlotOK
<1> QED
  BY <1>3, <1>4, <1>5, <1>6, <1>7

\* One tick's Supervise keeps both slots.
LEMMA SuperviseSlots ==
  ASSUME SlotsOK, Supervise
  PROVE  SlotsOK'
<1>1. CASE mu
  BY <1>1 DEF Supervise, SlotsOK
<1>2. CASE ~mu
  <2>1. PICK c \in SuperviseProc("conn", Older(proc["conn"])),
             v \in SuperviseProc("svc", Older(proc["svc"])) :
          LET new == [s \in Slot |-> IF s = "conn" THEN c ELSE v]
          IN /\ proc' = new
             /\ up' = [s \in Slot |-> new[s].running]
             /\ hasty' = [s \in Slot |-> Hasty(s, new[s])]
    BY <1>2 DEF Supervise, Hasty
  <2> DEFINE new == [s \in Slot |-> IF s = "conn" THEN c ELSE v]
  <2>2. ASSUME NEW s \in Slot
        PROVE  new[s] \in SuperviseProc(s, Older(proc[s]))
    BY <2>1 DEF Slot
  <2> HIDE DEF new
  <2>3. ASSUME NEW s \in Slot
        PROVE  /\ new[s] \in Proc /\ Hasty(s, new[s]) \in Nat
               /\ SlotOK(new[s], new[s].running, Hasty(s, new[s]))
    BY <2>2, SuperviseOne
  <2>4. \A s \in Slot : new[s].running \in BOOLEAN
    BY <2>3 DEF Proc
  <2>5. proc' = new /\ up' = [s \in Slot |-> new[s].running] /\ hasty' = [s \in Slot |-> Hasty(s, new[s])]
    BY <2>1 DEF new
  <2>6. proc' \in [Slot -> Proc]
    BY <2>3, <2>5 DEF new
  <2> QED
    BY <2>3, <2>4, <2>5, <2>6 DEF SlotsOK
<1> QED
  BY <1>1, <1>2

-----------------------------------------------------------------------------
(* The core and who may start it                                            *)

CoreTypes ==
  /\ cmd \in {None, "up", "dead"} /\ hand \in [Actor -> {None, "up", "dead"}]
  /\ desired \in BOOLEAN /\ closed \in BOOLEAN
  /\ pc \in [Actor -> Place]

CoreOK == CoreTypes /\ StopperAlone /\ IntentTold

\* A step of the panel that leaves the core alone and does not begin a stop.
LEMMA CoreFrame ==
  ASSUME CoreOK, UNCHANGED <<core, hand, wanted>>,
         \/ UNCHANGED pc
         \/ \E from, to \in {"idle", "sync", "conn", "svc", "again", "bridge"} : Goes("panel", from, to)
  PROVE  CoreOK'
<1> USE DEF CoreOK, CoreTypes, StopperAlone, IntentTold, CoreAlive, Gone, core, Actor, Place, None
<1>1. CASE UNCHANGED pc
  BY <1>1
<1>2. ASSUME NEW from \in {"idle", "sync", "conn", "svc", "again", "bridge"},
             NEW to \in {"idle", "sync", "conn", "svc", "again", "bridge"}, Goes("panel", from, to)
      PROVE  CoreOK'
  BY <1>2 DEF Goes
<1> QED
  BY <1>1, <1>2

\* The panel's operations on the core, and what they do while main shuts down.
LEMMA PanelCore ==
  ASSUME CoreOK,
         \/ PanelStarts \/ PanelStops \/ StopReturns \/ ReloadStarts \/ CoreRemoved
         \/ CoreInstalled \/ CoreCrashes \/ \E a \in Actor : HandDies(a)
  PROVE  CoreOK'
<1> USE DEF CoreOK, CoreTypes, StopperAlone, IntentTold, CoreAlive, Gone, core, Actor, Place, None, Goes, CoreOp
<1>1. CASE PanelStarts
  BY <1>1 DEF PanelStarts, Start, Spawns
<1>2. CASE PanelStops
  BY <1>2 DEF PanelStops, StopBegins
<1>3. CASE StopReturns
  BY <1>3 DEF StopReturns
<1>4. CASE ReloadStarts
  BY <1>4 DEF ReloadStarts, Spawns, IntentKept
<1>5. CASE CoreRemoved
  BY <1>5 DEF CoreRemoved
<1>6. CASE CoreInstalled
  BY <1>6 DEF CoreInstalled
<1>7. CASE CoreCrashes
  BY <1>7 DEF CoreCrashes
<1>8. ASSUME NEW a \in Actor, HandDies(a)
      PROVE  CoreOK'
  BY <1>8 DEF HandDies
<1> QED
  BY <1>1, <1>2, <1>3, <1>4, <1>5, <1>6, <1>7, <1>8

\* The watchdog: its restart decision re-reads the intent under the lock.
LEMMA TickCore ==
  ASSUME CoreOK, Tick
  PROVE  CoreOK'
<1>1. CASE TickBegins \/ ReadsDesired \/ ReadsAlive
  BY <1>1, CoreFrame DEF TickBegins, ReadsDesired, ReadsAlive, TickRest, core
<1>2. CASE Restarts
  BY <1>2 DEF Restarts, StartIfDesiredDead, Start, Spawns, TickRest, CoreOK, CoreTypes,
              StopperAlone, IntentTold, CoreAlive, Gone, Actor, Place, None
<1> QED
  BY <1>1, <1>2 DEF Tick

\* main's shutdown closes the supervisor before it takes the core.
LEMMA MainCore ==
  ASSUME CoreOK, Main
  PROVE  CoreOK'
<1> USE DEF CoreOK, CoreTypes, StopperAlone, IntentTold, CoreAlive, Gone, core, Actor, Place, None, Goes
<1>1. CASE MainEnds
  BY <1>1 DEF MainEnds
<1>2. CASE ShutdownCloses
  BY <1>2 DEF ShutdownCloses
<1>3. CASE ShutdownStops
  BY <1>3 DEF ShutdownStops, StopBegins
<1>4. CASE StopAll
  BY <1>4 DEF StopAll
<1>5. CASE Exit
  BY <1>5 DEF Exit
<1> QED
  BY <1>1, <1>2, <1>3, <1>4, <1>5 DEF Main

PluginStep ==
  \/ SyncBegins \/ SyncEnds \/ SyncAgain \/ BridgeSynced \/ BridgeSet \/ BridgeTimer
  \/ \E s \in Slot : PluginStopped(s) \/ PluginRemoved(s) \/ PluginInstalled(s) \/ PluginCrashes(s)

\* The plugins' operations leave the core alone.
LEMMA PluginCore ==
  ASSUME CoreOK, PluginStep
  PROVE  CoreOK'
<1>1. UNCHANGED <<core, hand, wanted>>
  BY DEF PluginStep, SyncBegins, SyncEnds, SyncAgain, BridgeSynced, BridgeSet, BridgeTimer,
         PluginStopped, PluginRemoved, PluginInstalled, PluginCrashes, PluginOp
<1>2. \/ UNCHANGED pc
      \/ \E from, to \in {"idle", "sync", "conn", "svc", "again", "bridge"} : Goes("panel", from, to)
  BY DEF PluginStep, SyncBegins, SyncEnds, SyncAgain, BridgeSynced, BridgeSet, BridgeTimer,
         PluginStopped, PluginRemoved, PluginInstalled, PluginCrashes, Slot
<1> QED
  BY <1>1, <1>2, CoreFrame

-----------------------------------------------------------------------------
(* The slots, the specifications they come from and the shutdown            *)

PluginOK ==
  /\ SlotsOK /\ ManagerShut /\ {specs, service} \subseteq Config \cup {None}
  /\ pc \in [Actor -> Place]

\* A step after which main is where it was, or short of StopAll: what it leaves
\* in the slots has to be right, and nothing may come up in a shut manager.
LEMMA PluginFrame ==
  ASSUME PluginOK, SlotsOK', CoreTypes', UNCHANGED shut,
         pc'["main"] = pc["main"] \/ pc'["main"] \notin {"stopped", "gone"},
         shut /\ (\A s \in Slot : ~up[s]) => \A s \in Slot : ~up'[s],
         {specs', service'} \subseteq Config \cup {None}
  PROVE  PluginOK'
BY DEF PluginOK, ManagerShut, CoreTypes

\* The panel's and the bridge's operations on the plugins.
LEMMA PluginSlots ==
  ASSUME CoreOK, PluginOK, PluginStep
  PROVE  PluginOK'
<1>t. CoreTypes /\ CoreTypes'
  BY PluginCore DEF CoreOK
<1>0. SlotsOK /\ specs \in Config \cup {None} /\ service \in Config \cup {None} /\ None \in Config \cup {None}
  BY DEF PluginOK
<1>m. pc'["main"] = pc["main"]
  BY <1>t DEF CoreTypes, Place, PluginStep, SyncBegins, SyncEnds, SyncAgain, BridgeSynced, BridgeSet, BridgeTimer,
         PluginStopped, PluginRemoved, PluginInstalled, PluginCrashes, Goes, Actor
<1>1. CASE SyncBegins
  <2>1. UNCHANGED <<specs, service, proc, up, shut, hasty>>
    BY <1>1 DEF SyncBegins
  <2> QED
    BY <1>t, <1>0, <1>m, <2>1, PluginFrame DEF SlotsOK
<1>2. CASE SyncEnds
  <2>1. PICK cfg \in Config \cup {None} : Sync(cfg)
    BY <1>2 DEF SyncEnds
  <2>2. SlotsOK' /\ (shut => UNCHANGED up)
    BY <1>0, <2>1, SyncSlots
  <2>3. specs' \in Config \cup {None} /\ UNCHANGED <<service, shut>>
    BY <1>0, <1>2, <2>1 DEF SyncEnds, Sync
  <2> QED
    BY <1>t, <1>0, <1>m, <2>2, <2>3, PluginFrame
<1>3. CASE SyncAgain
  <2>1. SlotsOK' /\ (shut => UNCHANGED up)
    BY <1>0, <1>3, SyncSlots DEF SyncAgain
  <2>2. specs' \in Config \cup {None} /\ UNCHANGED <<service, shut>>
    BY <1>0, <1>3 DEF SyncAgain, Sync
  <2> QED
    BY <1>t, <1>0, <1>m, <2>1, <2>2, PluginFrame
<1>4. CASE BridgeSynced \/ BridgeTimer
  <2>1. SlotsOK' /\ (shut => UNCHANGED up)
    BY <1>0, <1>4, RunServiceSlots DEF BridgeSynced, BridgeTimer
  <2>2. UNCHANGED <<specs, service, shut>>
    BY <1>4 DEF BridgeSynced, BridgeTimer
  <2> QED
    BY <1>t, <1>0, <1>m, <2>1, <2>2, PluginFrame
<1>5. CASE BridgeSet
  <2>1. PICK cfg \in Config \cup {None} : service' = cfg /\ RunService(cfg)
    BY <1>5 DEF BridgeSet
  <2>2. SlotsOK' /\ (shut => UNCHANGED up)
    BY <1>0, <2>1, RunServiceSlots
  <2>3. UNCHANGED <<specs, shut>>
    BY <1>5 DEF BridgeSet
  <2> QED
    BY <1>t, <1>0, <1>m, <2>1, <2>2, <2>3, PluginFrame
<1>6. ASSUME NEW s \in Slot, PluginStopped(s) \/ PluginInstalled(s)
      PROVE  PluginOK'
  <2>1. StopByBin(s) /\ UNCHANGED <<specs, service, shut, hasty>>
    BY <1>6 DEF PluginStopped, PluginInstalled
  <2>2. SlotsOK'
    BY <1>0, <2>1, StopByBinSlots
  <2>3. (\A x \in Slot : ~up[x]) => \A x \in Slot : ~up'[x]
    BY <1>0, <2>1 DEF StopByBin, SlotsOK
  <2> QED
    BY <1>t, <1>0, <1>m, <2>1, <2>2, <2>3, PluginFrame
<1>7. ASSUME NEW s \in Slot, PluginRemoved(s)
      PROVE  PluginOK'
  <2>1. UNCHANGED plugins
    BY <1>7 DEF PluginRemoved
  <2> QED
    BY <1>t, <1>0, <1>m, <2>1, PluginFrame DEF plugins, SlotsOK
<1>8. ASSUME NEW s \in Slot, PluginCrashes(s)
      PROVE  PluginOK'
  <2>1. up' = [up EXCEPT ![s] = FALSE] /\ UNCHANGED <<specs, service, proc, shut, hasty>>
    BY <1>8 DEF PluginCrashes
  <2>2. up' \in [Slot -> BOOLEAN] /\ \A x \in Slot : up'[x] => up[x]
    BY <1>0, <2>1 DEF SlotsOK
  <2>3. SlotsOK'
    BY <1>0, <2>1, <2>2 DEF SlotsOK, SlotOK
  <2> QED
    BY <1>t, <1>0, <1>m, <2>1, <2>2, <2>3, PluginFrame
<1> QED
  BY <1>1, <1>2, <1>3, <1>4, <1>5, <1>6, <1>7, <1>8 DEF PluginStep

\* The watchdog's tick supervises the plugins only while main runs.
LEMMA TickSlots ==
  ASSUME CoreOK, PluginOK, Tick
  PROVE  PluginOK'
<1>t. CoreTypes /\ CoreTypes' /\ SlotsOK /\ specs \in Config \cup {None} /\ service \in Config \cup {None}
  BY TickCore DEF CoreOK, PluginOK
<1>1. CASE TickBegins
  <2>1. SlotsOK'
    BY <1>1, <1>t, SuperviseSlots DEF TickBegins
  <2>2. UNCHANGED <<pc, specs, service, shut>> /\ pc["main"] \notin {"stopped", "gone"}
    BY <1>1 DEF TickBegins
  <2> QED
    BY <1>t, <2>1, <2>2 DEF PluginOK, ManagerShut
<1>2. CASE ReadsDesired \/ ReadsAlive \/ Restarts
  <2>1. UNCHANGED <<pc, plugins>>
    BY <1>2 DEF ReadsDesired, ReadsAlive, Restarts, TickRest
  <2> QED
    BY <1>t, <2>1, PluginFrame DEF plugins, SlotsOK
<1> QED
  BY <1>1, <1>2 DEF Tick

\* StopAll empties every slot as it shuts the manager.
LEMMA MainSlots ==
  ASSUME CoreOK, PluginOK, Main
  PROVE  PluginOK'
<1>t. CoreTypes /\ CoreTypes' /\ SlotsOK /\ specs \in Config \cup {None} /\ service \in Config \cup {None}
  BY MainCore DEF CoreOK, PluginOK
<1>1. CASE MainEnds \/ ShutdownCloses \/ ShutdownStops
  <2>1. UNCHANGED plugins
    BY <1>1 DEF MainEnds, ShutdownCloses, ShutdownStops
  <2>2. pc'["main"] \notin {"stopped", "gone"}
    BY <1>1, <1>t DEF MainEnds, ShutdownCloses, ShutdownStops, Goes, CoreTypes, Actor
  <2> QED
    BY <1>t, <2>1, <2>2, PluginFrame DEF plugins, SlotsOK
<1>2. CASE StopAll
  <2>1. /\ shut' /\ proc' = [s \in Slot |-> NoProc] /\ up' = [s \in Slot |-> FALSE]
        /\ UNCHANGED <<specs, service, hasty>>
    BY <1>2 DEF StopAll
  <2>2. \A s \in Slot : SlotOK(NoProc, FALSE, hasty[s])
    BY <1>t, NoProcType DEF SlotsOK, SlotOK, NoProc
  <2>3. SlotsOK'
    <3>1. proc' \in [Slot -> Proc] /\ up' \in [Slot -> BOOLEAN] /\ hasty' \in [Slot -> Nat]
      BY <1>t, <2>1, NoProcType DEF SlotsOK
    <3> QED
      BY <2>1, <2>2, <3>1 DEF SlotsOK
  <2> QED
    BY <1>t, <2>1, <2>3 DEF PluginOK, ManagerShut, CoreTypes
<1>3. CASE Exit
  <2>1. UNCHANGED plugins /\ pc["main"] = "stopped"
    BY <1>3 DEF Exit, Goes
  <2> QED
    BY <1>t, <2>1 DEF PluginOK, ManagerShut, plugins, SlotsOK, CoreTypes
<1> QED
  BY <1>1, <1>2, <1>3 DEF Main

\* The panel's operations on the core leave the plugins alone.
LEMMA PanelSlots ==
  ASSUME CoreOK, PluginOK,
         \/ PanelStarts \/ PanelStops \/ StopReturns \/ ReloadStarts \/ CoreRemoved
         \/ CoreInstalled \/ CoreCrashes \/ \E a \in Actor : HandDies(a)
  PROVE  PluginOK'
<1>t. CoreTypes /\ CoreTypes' /\ SlotsOK /\ specs \in Config \cup {None} /\ service \in Config \cup {None}
  BY PanelCore DEF CoreOK, PluginOK
<1>1. UNCHANGED plugins
  BY DEF PanelStarts, PanelStops, StopReturns, ReloadStarts, CoreRemoved, CoreInstalled, CoreCrashes,
         HandDies, CoreOp
<1>2. pc'["main"] = pc["main"]
  BY <1>t DEF PanelStarts, PanelStops, StopReturns, ReloadStarts, CoreRemoved, CoreInstalled, CoreCrashes,
         HandDies, Goes, CoreTypes, Actor
<1> QED
  BY <1>t, <1>1, <1>2, PluginFrame DEF plugins, SlotsOK

-----------------------------------------------------------------------------
(* The watchdog's backoff                                                   *)

BackingOK ==
  /\ backoff \in 0..MaxBackoff /\ wait \in 0..MaxBackoff /\ prev \in 0..MaxBackoff
  /\ sinceRestart \in 0..Stable

\* The charge stays within its bound: Doubled caps it and the wait is drawn
\* from its upper half.
LEMMA TickBacking ==
  ASSUME BackingOK, Tick
  PROVE  BackingOK'
<1> USE SupervisionAssumption DEF BackingOK
<1>1. CASE TickBegins
  BY <1>1 DEF TickBegins, AtMost
<1>2. CASE ReadsDesired
  BY <1>2 DEF ReadsDesired
<1>3. CASE ReadsAlive
  <2>1. Doubled \in 0..MaxBackoff
    BY DEF Doubled, AtMost
  <2> HIDE DEF Doubled
  <2>2. (Doubled \div 2)..Doubled \subseteq 0..MaxBackoff
    BY <2>1
  <2> QED
    BY <1>3, <2>1, <2>2 DEF ReadsAlive
<1>4. CASE Restarts
  BY <1>4 DEF Restarts
<1> QED
  BY <1>1, <1>2, <1>3, <1>4 DEF Tick

-----------------------------------------------------------------------------
\* SupervisionInv is its three parts and the binaries.
LEMMA InvParts ==
  SupervisionInv <=> /\ binary \subseteq {"core"} \cup Slot
                     /\ CoreOK /\ PluginOK /\ BackingOK
BY DEF SupervisionInv, TypeOK, StateOK, CoreOK, CoreTypes, PluginOK, BackingOK, SlotsOK, SlotOK, RelaunchesCounted

\* SupervisionInv holds of every behaviour: whatever the panel, the bridge, the
\* watchdog, crashes and the shutdown do, in any order.
THEOREM SupervisionCorrect == Spec => []SupervisionInv
<1>1. Init => SupervisionInv
  <2> SUFFICES ASSUME Init PROVE SupervisionInv
    OBVIOUS
  <2>1. CoreOK
    BY DEF Init, CoreOK, CoreTypes, StopperAlone, IntentTold, CoreAlive, Gone, Actor, Place, None
  <2>2. PluginOK
    <3>1. \A s \in Slot : SlotOK(NoProc, FALSE, 0)
      BY NoProcType, SupervisionAssumption DEF SlotOK, NoProc
    <3>2. SlotsOK
      BY <3>1, NoProcType DEF Init, SlotsOK
    <3> QED
      BY <2>1, <3>2 DEF Init, PluginOK, ManagerShut, CoreOK, CoreTypes, Actor
  <2>3. BackingOK
    BY SupervisionAssumption DEF Init, BackingOK
  <2> QED
    BY <2>1, <2>2, <2>3, InvParts DEF Init
<1>2. SupervisionInv /\ [Next]_vars => SupervisionInv'
  <2> SUFFICES ASSUME SupervisionInv, [Next]_vars PROVE SupervisionInv'
    OBVIOUS
  <2>0. CoreOK /\ PluginOK /\ BackingOK /\ binary \subseteq {"core"} \cup Slot
    BY InvParts
  <2>p. (CoreOK /\ PluginOK /\ BackingOK /\ binary \subseteq {"core"} \cup Slot)' => SupervisionInv'
    BY DEF SupervisionInv, TypeOK, StateOK, CoreOK, CoreTypes, PluginOK, BackingOK, SlotsOK, SlotOK, RelaunchesCounted
  <2>1. CASE Tick
    <3>1. UNCHANGED binary
      BY <2>1 DEF Tick, TickBegins, ReadsDesired, ReadsAlive, Restarts, TickRest
    <3> QED
      BY <2>0, <2>p, <2>1, <3>1, TickCore, TickSlots, TickBacking
  <2>2. CASE PluginStep
    <3>1. UNCHANGED backing /\ (binary' \subseteq {"core"} \cup Slot)
      BY <2>0, <2>2 DEF PluginStep, SyncBegins, SyncEnds, SyncAgain, BridgeSynced, BridgeSet, BridgeTimer,
         PluginStopped, PluginRemoved, PluginInstalled, PluginCrashes, PluginOp
    <3> QED
      BY <2>0, <2>p, <2>2, <3>1, PluginCore, PluginSlots DEF BackingOK, backing
  <2>3. CASE \/ PanelStarts \/ PanelStops \/ StopReturns \/ ReloadStarts \/ CoreRemoved
             \/ CoreInstalled \/ CoreCrashes \/ \E a \in Actor : HandDies(a)
    <3>1. UNCHANGED backing /\ (binary' \subseteq {"core"} \cup Slot)
      BY <2>0, <2>3 DEF PanelStarts, PanelStops, StopReturns, ReloadStarts, CoreRemoved, CoreInstalled,
         CoreCrashes, HandDies, CoreOp
    <3> QED
      BY <2>0, <2>p, <2>3, <3>1, PanelCore, PanelSlots DEF BackingOK, backing
  <2>4. CASE Main
    <3>1. UNCHANGED <<backing, binary>>
      BY <2>4 DEF Main, MainEnds, ShutdownCloses, ShutdownStops, StopAll, Exit
    <3> QED
      BY <2>0, <2>p, <2>4, <3>1, MainCore, MainSlots DEF BackingOK, backing
  <2>5. CASE UNCHANGED vars
    BY <2>5 DEF vars, core, backing, plugins, SupervisionInv, TypeOK, StateOK, StopperAlone, IntentTold,
       ManagerShut, RelaunchesCounted, CoreAlive, Gone
  <2> QED
    BY <2>1, <2>2, <2>3, <2>4, <2>5 DEF Next, PanelGoesOn, PluginStep
<1> QED
  BY <1>1, <1>2, PTL DEF Spec

\* Type correctness of the core, the watchdog and the plugin manager.
THEOREM SupervisionTypes == Spec => []TypeOK
<1>1. SupervisionInv => TypeOK
  BY DEF SupervisionInv
<1> QED
  BY <1>1, SupervisionCorrect, PTL

\* Never two cores, counting the processes a Stop is still ending: neither a
\* reload, nor the watchdog, nor a handler that outlives the shutdown starts
\* one beside another (core.SingBox Stop, Reload, Shutdown).
THEOREM NeverTwoCores == Spec => []OneCore
<1>1. SupervisionInv => OneCore
  <2> SUFFICES ASSUME SupervisionInv PROVE OneCore
    OBVIOUS
  <2> DEFINE ups == {a \in Actor : hand[a] = "up"}
  <2>1. StopperAlone
    BY DEF SupervisionInv
  <2>2. CASE ups = {}
    BY <2>2, FS_EmptySet DEF OneCore
  <2>3. CASE ups # {}
    <3>1. PICK a : ups = {a}
      BY <2>1, <2>3 DEF StopperAlone, Gone, Actor
    <3>2. Cardinality(ups) = 1
      BY <3>1, FS_Singleton
    <3>3. ~CoreAlive
      BY <2>1, <2>3 DEF StopperAlone, Gone, Actor
    <3> QED
      BY <3>2, <3>3 DEF OneCore
  <2> QED
    BY <2>2, <2>3
<1> QED
  BY <1>1, SupervisionCorrect, PTL

\* What a Stop took down stays down until it is told to run again, whatever the
\* watchdog read before (StartIfDesiredDead decides under the core's lock).
THEOREM StopsHold == Spec => []StopHolds
<1>1. SupervisionInv => StopHolds
  BY DEF SupervisionInv, IntentTold, StopHolds
<1> QED
  BY <1>1, SupervisionCorrect, PTL

\* A crash loop is relaunched at once at most RestartGrace + 1 times in a row,
\* for every grace, cooldown and stable window (superviseProc).
THEOREM CrashLoopsThrottled == Spec => []CrashLoopThrottled
<1>1. SupervisionInv => CrashLoopThrottled
  BY SupervisionAssumption DEF SupervisionInv, RelaunchesCounted, CrashLoopThrottled
<1> QED
  BY <1>1, SupervisionCorrect, PTL

\* Nothing the daemon started survives its shutdown, whatever handler of the
\* panel is still running (StopAll, Shutdown).
THEOREM NothingOutlives == Spec => []NothingSurvives
<1>1. SupervisionInv => NothingSurvives
  BY DEF SupervisionInv, StopperAlone, ManagerShut, NothingSurvives
<1> QED
  BY <1>1, SupervisionCorrect, PTL
=============================================================================
