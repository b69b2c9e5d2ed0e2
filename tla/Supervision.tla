---------------------------- MODULE Supervision ----------------------------
(* Who keeps processes running: the watchdog over the sing-box core         *)
(* (internal/watchdog, internal/core) and, on the same tick, the engine     *)
(* plugins and services (internal/plugin), against the operations of the    *)
(* panel that start, stop and replace them, crashes, and the daemon's       *)
(* shutdown.                                                                *)
(*                                                                          *)
(* applyMu serializes the panel's operations, so they are one actor; main   *)
(* is the other, and the Telegram bridge's loop calls the manager without   *)
(* applyMu.  A behaviour uses one half, the core or the plugins: they share *)
(* only the tick and the shutdown.  One tick is one unit of time.           *)
EXTENDS Integers, FiniteSets

CONSTANTS
  MinBackoff, MaxBackoff, Stable,           \* watchdog, in ticks
  RestartGrace, MaxCooldown, StableWindow,  \* plugins, in ticks
  Config,                                   \* what a plugin may be told to run
  MaxFaults                                 \* bound: launches the system refuses

ASSUME SupervisionAssumption ==
  /\ {MinBackoff, MaxBackoff, Stable, RestartGrace, MaxCooldown, StableWindow, MaxFaults} \subseteq Nat
  /\ MinBackoff <= MaxBackoff /\ MaxCooldown > 0

VARIABLES
  half,     \* "core" or "plugins"
  binary,   \* which binaries are on disk
  cmd,      \* core.SingBox: the tracked process, "none", "up" or "dead"
  desired, closed,
  pc, hand, \* actor -> where it is; the process its Stop took, if any
  wd,       \* where the watchdog's tick is
  backoff, wait, prev, sinceRestart,
  specs,    \* plugin.Manager: lastSpecs, the connection's configuration or None
  service,  \* what the bridge's settings ask for, or None
  proc,     \* slot -> its proc, or NoProc
  up,       \* slot -> the process behind it is alive
  mu,       \* a Sync holds the manager's lock
  shut,     \* StopAll was called
  faults,
  wanted,   \* history: the core was last told to run
  hasty     \* history: slot -> relaunches since it last ran stably or waited

core == <<cmd, desired, closed>>
backing == <<backoff, wait, prev, sinceRestart>>
plugins == <<specs, service, proc, up, mu, shut, faults, hasty>>
vars == <<half, binary, core, pc, hand, wd, backing, plugins, wanted>>

None == "none"
Actor == {"panel", "main"}
Slot == {"conn", "svc"}
Place == {"idle", "stop", "reload", "remove", "sync", "conn", "svc", "again", "bridge",
          "run", "closing", "stopping", "waiting", "stopped", "gone"}
Proc == [cfg : Config \cup {None}, running : BOOLEAN, managed : BOOLEAN,
         restarts : Nat, cooldown : 0..MaxCooldown, age : 0..StableWindow]
NoProc == [cfg |-> None, running |-> FALSE, managed |-> FALSE, restarts |-> 0, cooldown |-> 0, age |-> 0]
AtMost(n, bound) == IF n < bound THEN n ELSE bound
Goes(a, from, to) == pc["main"] # "gone" /\ pc[a] = from /\ pc' = [pc EXCEPT ![a] = to]
----------------------------------------------------------------------------
(* core.SingBox: each definition is one critical section of its lock.       *)

CoreAlive == cmd = "up"

(* startLocked: refused after Shutdown and without a binary.                *)
Spawns == ~closed /\ "core" \in binary

Start ==
  /\ cmd' = IF CoreAlive \/ Spawns THEN "up" ELSE cmd
  /\ desired' = (desired \/ CoreAlive \/ Spawns)

(* Stop takes the process out of the supervisor and ends it outside the     *)
(* lock; the caller goes on only once it is gone.                           *)
StopBegins(a) ==
  /\ hand' = [hand EXCEPT ![a] = cmd]
  /\ cmd' = None /\ desired' = FALSE

(* Mutant: Stop signals and does not wait.                                  *)
MutGone(a) == TRUE

Gone(a) == hand[a] # "up"

(* Mutant: the legacy restart path, an unconditional Start.                 *)
MutStartIfDesiredDead == ~CoreAlive

StartIfDesiredDead == desired /\ ~CoreAlive
----------------------------------------------------------------------------
(* The panel's operations on the core: an Apply's start or stop, a reload,  *)
(* an uninstall with stop, an install.                                      *)

CoreOp == half = "core" /\ UNCHANGED <<half, wd, backing, plugins>>

PanelStarts ==
  /\ Goes("panel", "idle", "idle") /\ Start
  /\ wanted' = (wanted \/ cmd' = "up")
  /\ CoreOp /\ UNCHANGED <<binary, closed, hand>>

(* What follows the Stop: nothing, Reload's Start, or the unlink.           *)
PanelStops ==
  /\ \E then \in {"stop", "reload", "remove"} : Goes("panel", "idle", then)
  /\ StopBegins("panel") /\ wanted' = FALSE
  /\ CoreOp /\ UNCHANGED <<binary, closed>>

StopReturns ==
  /\ Goes("panel", "stop", "idle") /\ Gone("panel")
  /\ CoreOp /\ UNCHANGED <<binary, core, hand, wanted>>

(* Mutant: a failed reload leaves the core unsupervised.                    *)
MutIntentKept == desired' = Spawns

(* Reload re-asserts the intent when its Start fails.                       *)
IntentKept == desired' = TRUE

ReloadStarts ==
  /\ Goes("panel", "reload", "idle") /\ Gone("panel")
  /\ cmd' = (IF Spawns THEN "up" ELSE cmd) /\ IntentKept /\ wanted' = TRUE
  /\ CoreOp /\ UNCHANGED <<binary, closed, hand>>

CoreRemoved ==
  /\ Goes("panel", "remove", "idle") /\ Gone("panel")
  /\ binary' = binary \ {"core"}
  /\ CoreOp /\ UNCHANGED <<core, hand, wanted>>

CoreInstalled ==
  /\ Goes("panel", "idle", "idle") /\ binary' = binary \cup {"core"}
  /\ CoreOp /\ UNCHANGED <<core, hand, wanted>>

CoreCrashes ==
  /\ CoreAlive /\ cmd' = "dead"
  /\ CoreOp /\ UNCHANGED <<binary, desired, closed, pc, hand, wanted>>

(* What is in a stopper's hand dies under it, by signal or by itself.       *)
HandDies(a) ==
  /\ hand[a] = "up" /\ hand' = [hand EXCEPT ![a] = "dead"]
  /\ CoreOp /\ UNCHANGED <<binary, core, pc, wanted>>
----------------------------------------------------------------------------
(* plugin.Manager.  A launch runs, is refused by the system, or runs and is *)
(* ended because its setup failed; only a process that ran is managed.      *)

Launch(s, p) ==
  {[p EXCEPT !.running = TRUE, !.managed = TRUE, !.age = 0]}
  \cup {[p EXCEPT !.managed = m] : m \in IF faults = MaxFaults THEN {} ELSE {p.managed, p.managed \/ s = "conn"}}

Install(s, p) ==
  /\ proc' = [proc EXCEPT ![s] = p] /\ up' = [up EXCEPT ![s] = p.running]
  /\ hasty' = [hasty EXCEPT ![s] = 0]
  /\ faults' = IF p.cfg # None /\ s \in binary /\ ~p.running THEN faults + 1 ELSE faults

(* start, startService: without its binary the proc waits for it.           *)
Started(s, cfg) ==
  LET fresh == [NoProc EXCEPT !.cfg = cfg]
  IN IF s \in binary THEN Launch(s, fresh) ELSE {fresh}

(* Mutant: StopAll does not close the manager.                              *)
MutShutFor == FALSE

(* Sync and RunService do nothing after StopAll.                            *)
ShutFor == shut

(* Sync of one connection: stopped when dropped or changed, started again   *)
(* when it does not run, otherwise only its crash-loop throttle is cleared. *)
Sync(cfg) ==
  IF ShutFor THEN UNCHANGED <<specs, proc, up, hasty, faults>>
  ELSE /\ specs' = cfg
       /\ CASE cfg = None -> Install("conn", NoProc)
            [] cfg # None /\ proc["conn"].cfg = cfg /\ proc["conn"].running ->
                 /\ proc' = [proc EXCEPT !["conn"] = [@ EXCEPT !.restarts = 0, !.cooldown = 0]]
                 /\ hasty' = [hasty EXCEPT !["conn"] = 0] /\ UNCHANGED <<up, faults>>
            [] OTHER -> \E p \in Started("conn", cfg) : Install("conn", p)

(* Mutant: a service that never started counts as running.                  *)
MutServiceKept(cfg) == proc["svc"].cfg = cfg

(* RunService leaves a service alone that runs, or that Supervise restarts. *)
ServiceKept(cfg) == proc["svc"].cfg = cfg /\ (proc["svc"].running \/ proc["svc"].managed)

RunService(cfg) ==
  IF ShutFor THEN UNCHANGED <<proc, up, hasty, faults>>
  ELSE CASE cfg = None -> Install("svc", NoProc)
         [] cfg # None /\ ServiceKept(cfg) -> UNCHANGED <<proc, up, hasty, faults>>
         [] OTHER -> \E p \in Started("svc", cfg) : Install("svc", p)

StopByBin(s) == proc' = [proc EXCEPT ![s] = NoProc] /\ up' = [up EXCEPT ![s] = FALSE]
----------------------------------------------------------------------------
(* superviseProc: one tick for one proc.                                    *)

BackoffTicks(n) ==
  IF n <= RestartGrace THEN 0 ELSE AtMost(2 ^ (n - RestartGrace - 1), MaxCooldown)

(* Mutant: one tick alive clears the throttle.                              *)
MutThrottleClears(p) == TRUE

ThrottleClears(p) == p.age >= StableWindow

Relaunched(s, p) ==
  LET n == AtMost(p.restarts + 1, RestartGrace + MaxCooldown)
  IN IF s \in binary THEN Launch(s, [p EXCEPT !.restarts = n, !.cooldown = BackoffTicks(n), !.running = FALSE])
     ELSE {[p EXCEPT !.managed = FALSE, !.running = FALSE]}

SuperviseProc(s, p) ==
  IF ~p.managed THEN {p}
  ELSE IF p.running /\ up[s]
       THEN IF ThrottleClears(p) THEN {[p EXCEPT !.restarts = 0, !.cooldown = 0]} ELSE {p}
  ELSE IF p.cooldown > 0 THEN {[p EXCEPT !.running = FALSE, !.cooldown = @ - 1]}
  ELSE Relaunched(s, p)

Older(p) == IF p.running THEN [p EXCEPT !.age = AtMost(@ + 1, StableWindow)] ELSE p

Supervise ==
  IF mu THEN UNCHANGED <<proc, up, hasty, faults>>
  ELSE \E c \in SuperviseProc("conn", Older(proc["conn"])), v \in SuperviseProc("svc", Older(proc["svc"])) :
    LET new == [s \in Slot |-> IF s = "conn" THEN c ELSE v]
        relaunched(s) == new[s].restarts > 0 /\ ~up[s] /\ proc[s].managed /\ proc[s].cooldown = 0
    IN /\ proc' = new
       /\ up' = [s \in Slot |-> new[s].running]
       /\ hasty' = [s \in Slot |->
            CASE relaunched(s) -> AtMost(hasty[s] + 1, RestartGrace + 2)
              [] up[s] /\ new[s].age < StableWindow -> hasty[s]
              [] OTHER -> 0]
       /\ faults' = faults + Cardinality({s \in Slot : relaunched(s) /\ s \in binary /\ ~new[s].running})
       /\ faults' <= MaxFaults
----------------------------------------------------------------------------
(* Watchdog.tick: the plugins, Desired, Alive with the charge of the        *)
(* backoff, then the restart decision under the core's lock.                *)

TickBegins ==
  /\ wd = "idle" /\ pc["main"] = "run" /\ wd' = "desired"
  /\ wait' = IF wait > 0 THEN wait - 1 ELSE 0
  /\ sinceRestart' = AtMost(sinceRestart + 1, Stable)
  /\ Supervise
  /\ UNCHANGED <<half, binary, core, pc, hand, backoff, prev, specs, service, mu, shut, wanted>>

TickRest == UNCHANGED <<half, binary, pc, hand, closed, plugins, wanted>>

ReadsDesired ==
  /\ wd = "desired"
  /\ IF desired THEN wd' = "alive" /\ UNCHANGED <<backoff, wait>>
     ELSE wd' = "idle" /\ backoff' = 0 /\ wait' = 0
  /\ TickRest /\ UNCHANGED <<cmd, desired, prev, sinceRestart>>

(* Mutant: the backoff grows without its bound.                             *)
MutDoubled == IF backoff = 0 THEN MinBackoff ELSE 2 * backoff

Doubled == IF backoff = 0 THEN MinBackoff ELSE AtMost(2 * backoff, MaxBackoff)

ReadsAlive ==
  /\ wd = "alive"
  /\ IF CoreAlive \/ wait > 0
     THEN /\ wd' = "idle"
          /\ LET clears == CoreAlive /\ sinceRestart >= Stable
             IN backoff' = (IF clears THEN 0 ELSE backoff) /\ wait' = IF clears THEN 0 ELSE wait
          /\ UNCHANGED prev
     ELSE /\ wd' = "restart" /\ prev' = backoff
          /\ backoff' = Doubled /\ wait' \in (Doubled \div 2)..Doubled
  /\ TickRest /\ UNCHANGED <<cmd, desired, sinceRestart>>

(* A crash is restarted and counted, a deliberate stop gives the charge     *)
(* back.                                                                    *)
Restarts ==
  /\ wd = "restart" /\ wd' = "idle" /\ prev' = 0
  /\ IF StartIfDesiredDead
     THEN Start /\ sinceRestart' = 0 /\ UNCHANGED <<backoff, wait>>
     ELSE backoff' = prev /\ wait' = 0 /\ UNCHANGED <<cmd, desired, sinceRestart>>
  /\ TickRest
----------------------------------------------------------------------------
(* The panel's operations on the plugins, and the bridge's.                 *)

PluginOp == half = "plugins" /\ UNCHANGED <<half, core, hand, wd, backing, wanted>>

(* An Apply's Sync holds the lock while external commands run.              *)
SyncBegins ==
  /\ ~mu /\ mu' = TRUE /\ Goes("panel", "idle", "sync")
  /\ PluginOp /\ UNCHANGED <<binary, specs, service, proc, up, shut, faults, hasty>>

SyncEnds ==
  /\ mu' = FALSE /\ Goes("panel", "sync", "idle")
  /\ \E cfg \in Config \cup {None} : Sync(cfg)
  /\ PluginOp /\ UNCHANGED <<binary, service, shut>>

(* Uninstall: StopByBin, then the file; the bridge's own sync follows.      *)
PluginStopped(s) ==
  /\ ~mu /\ s \in binary /\ Goes("panel", "idle", s) /\ StopByBin(s)
  /\ PluginOp /\ UNCHANGED <<binary, specs, service, mu, shut, faults, hasty>>

PluginRemoved(s) ==
  /\ Goes("panel", s, IF s = "svc" THEN "bridge" ELSE "idle") /\ binary' = binary \ {s}
  /\ PluginOp /\ UNCHANGED plugins

(* Install: what waits for the binary or runs the old one is stopped, and   *)
(* synced again if anything was; then the bridge's own sync.                *)
PluginInstalled(s) ==
  /\ ~mu /\ s \notin binary /\ binary' = binary \cup {s}
  /\ Goes("panel", "idle", IF s = "svc" THEN "bridge" ELSE IF proc[s] = NoProc THEN "idle" ELSE "again")
  /\ StopByBin(s)
  /\ PluginOp /\ UNCHANGED <<specs, service, mu, shut, faults, hasty>>

SyncAgain ==
  /\ ~mu /\ Goes("panel", "again", "idle") /\ Sync(specs)
  /\ PluginOp /\ UNCHANGED <<binary, service, mu, shut>>

BridgeSynced ==
  /\ ~mu /\ Goes("panel", "bridge", "idle") /\ RunService(service)
  /\ PluginOp /\ UNCHANGED <<binary, specs, service, mu, shut>>

(* The bridge's settings change and are applied; its loop applies them      *)
(* again on a timer while it is enabled, until the shutdown.                *)
BridgeSet ==
  /\ ~mu /\ Goes("panel", "idle", "idle")
  /\ \E cfg \in (Config \cup {None}) \ {service} : service' = cfg /\ RunService(cfg)
  /\ PluginOp /\ UNCHANGED <<binary, specs, mu, shut>>

BridgeTimer ==
  /\ ~mu /\ service # None /\ pc["main"] = "run" /\ RunService(service)
  /\ PluginOp /\ UNCHANGED <<binary, specs, service, mu, shut, pc>>

PluginCrashes(s) ==
  /\ up[s] /\ up' = [up EXCEPT ![s] = FALSE]
  /\ PluginOp /\ UNCHANGED <<binary, pc, specs, service, proc, mu, shut, faults, hasty>>
----------------------------------------------------------------------------
(* main, on a signal: no more ticks, the core closed and stopped, then the  *)
(* plugins; a handler of the panel may still be running.                    *)

MainEnds ==
  /\ Goes("main", "run", "closing") /\ UNCHANGED <<half, binary, core, hand, wd, backing, plugins, wanted>>

ShutdownCloses ==
  /\ wd = "idle" /\ Goes("main", "closing", "stopping") /\ closed' = TRUE
  /\ UNCHANGED <<half, binary, cmd, desired, hand, wd, backing, plugins, wanted>>

ShutdownStops ==
  /\ Goes("main", "stopping", "waiting") /\ StopBegins("main")
  /\ UNCHANGED <<half, binary, closed, wd, backing, plugins, wanted>>

StopAll ==
  /\ ~mu /\ Goes("main", "waiting", "stopped") /\ Gone("main")
  /\ shut' = TRUE /\ proc' = [s \in Slot |-> NoProc] /\ up' = [s \in Slot |-> FALSE]
  /\ UNCHANGED <<half, binary, core, hand, wd, backing, specs, service, mu, faults, hasty, wanted>>

Exit == Goes("main", "stopped", "gone") /\ UNCHANGED <<half, binary, core, hand, wd, backing, plugins, wanted>>
----------------------------------------------------------------------------
Init ==
  /\ half \in {"core", "plugins"} /\ binary = {"core"} \cup Slot
  /\ cmd = None /\ desired = FALSE /\ closed = FALSE
  /\ pc = [a \in Actor |-> IF a = "main" THEN "run" ELSE "idle"]
  /\ hand = [a \in Actor |-> None]
  /\ wd = "idle" /\ backoff = 0 /\ wait = 0 /\ prev = 0 /\ sinceRestart = 0
  /\ specs = None /\ service = None /\ proc = [s \in Slot |-> NoProc] /\ up = [s \in Slot |-> FALSE]
  /\ mu = FALSE /\ shut = FALSE /\ faults = 0
  /\ wanted = FALSE /\ hasty = [s \in Slot |-> 0]

Tick == TickBegins \/ ReadsDesired \/ ReadsAlive \/ Restarts
PanelGoesOn == StopReturns \/ ReloadStarts \/ CoreRemoved \/ SyncEnds \/ SyncAgain \/ BridgeSynced
Main == MainEnds \/ ShutdownCloses \/ ShutdownStops \/ StopAll \/ Exit

Next ==
  \/ Tick \/ PanelGoesOn \/ Main
  \/ PanelStarts \/ PanelStops \/ CoreInstalled \/ CoreCrashes
  \/ \E a \in Actor : HandDies(a)
  \/ SyncBegins \/ BridgeSet \/ BridgeTimer
  \/ \E s \in Slot : PluginStopped(s) \/ PluginRemoved(s) \/ PluginInstalled(s) \/ PluginCrashes(s)

Spec == Init /\ [][Next]_vars

(* The ticker fires while the daemon runs, calls return, a signalled        *)
(* process dies, and the bridge's loop comes round.                         *)
FairSpec ==
  Spec /\ WF_vars(Tick) /\ WF_vars(PanelGoesOn) /\ WF_vars(BridgeTimer) /\ WF_vars(HandDies("panel"))
----------------------------------------------------------------------------
TypeOK ==
  /\ binary \subseteq {"core"} \cup Slot
  /\ cmd \in {None, "up", "dead"} /\ hand \in [Actor -> {None, "up", "dead"}]
  /\ desired \in BOOLEAN /\ closed \in BOOLEAN
  /\ backoff \in 0..MaxBackoff /\ wait \in 0..MaxBackoff /\ prev \in 0..MaxBackoff
  /\ sinceRestart \in 0..Stable
  /\ proc \in [Slot -> Proc]
  /\ \A s \in Slot : up[s] => proc[s].running

(* There is never more than one core: neither a reload, nor the watchdog,   *)
(* nor a handler that outlives the shutdown starts one while another still  *)
(* holds the ports and the cache lock (singbox.go Stop, Reload).            *)
OneCore == Cardinality({a \in Actor : hand[a] = "up"}) + (IF CoreAlive THEN 1 ELSE 0) <= 1

(* A core runs only because it was told to: the watchdog does not bring     *)
(* back what a Stop took down, whatever it read before (watchdog.go's       *)
(* TOCTOU note).                                                            *)
StopHolds == CoreAlive => wanted

(* A plugin that keeps crashing before it ran StableWindow is relaunched at *)
(* once at most RestartGrace + 1 times in a row, also when it lives a tick  *)
(* each time (QA-110).                                                      *)
CrashLoopThrottled == \A s \in Slot : hasty[s] <= RestartGrace + 1

(* Nothing survives the daemon: no plugin or service starts after StopAll,  *)
(* no core after Shutdown, whatever handler is still running.               *)
NothingSurvives ==
  /\ pc["main"] \in {"stopped", "gone"} => \A s \in Slot : ~up[s]
  /\ pc["main"] \in {"waiting", "stopped", "gone"} => ~CoreAlive

----------------------------------------------------------------------------
(* What every step preserves.                                               *)

(* A stopper holds a living process only while it waits for it, and from    *)
(* taking it until it goes on nothing wants or has a core; Shutdown closes  *)
(* the supervisor before it stops the core.                                 *)
StopperAlone ==
  /\ pc["panel"] \in {"stop", "reload", "remove"} => ~desired /\ ~CoreAlive
  /\ ~Gone("panel") => pc["panel"] \in {"stop", "reload", "remove"} /\ Gone("main")
  /\ ~Gone("main") => pc["main"] = "waiting"
  /\ pc["main"] \in {"stopping", "waiting", "stopped", "gone"} => closed
  /\ pc["main"] \in {"waiting", "stopped", "gone"} => ~CoreAlive

(* The recorded intent of the core is what it was last told.                *)
IntentTold == (desired \/ CoreAlive) => wanted

(* After StopAll the manager is shut and nothing it started is alive.       *)
ManagerShut == pc["main"] \in {"stopped", "gone"} => shut /\ \A s \in Slot : ~up[s]

(* A supervised proc is due for a relaunch only while its relaunches so far *)
(* are within the grace, and each of them is in its restart counter.        *)
RelaunchesCounted ==
  \A s \in Slot :
    /\ hasty[s] \in 0..(RestartGrace + 1)
    /\ proc[s].managed => hasty[s] <= proc[s].restarts
    /\ proc[s].managed /\ proc[s].cooldown = 0 => hasty[s] <= RestartGrace

(* The types TypeOK leaves out because only these parts read them.          *)
StateOK ==
  /\ pc \in [Actor -> Place]
  /\ {specs, service} \subseteq Config \cup {None}
  /\ up \in [Slot -> BOOLEAN] /\ hasty \in [Slot -> Nat]

SupervisionInv ==
  TypeOK /\ StateOK /\ StopperAlone /\ IntentTold /\ ManagerShut /\ RelaunchesCounted
----------------------------------------------------------------------------
(* A core that is told to run and can, does so again and again, however     *)
(* often it crashes and whichever reload failed before.                     *)
CoreNeverGivenUp ==
  <>[](wanted /\ "core" \in binary /\ pc["main"] = "run") => []<>CoreAlive

(* So does a service the settings ask for, also when its first start was    *)
(* refused or its binary came later, once Applies no longer hold the        *)
(* manager's lock at every tick.                                            *)
ServiceNeverGivenUp ==
  <>[](service # None /\ "svc" \in binary /\ pc["main"] = "run" /\ ~mu) => []<>up["svc"]
============================================================================
