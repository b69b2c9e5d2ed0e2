# WayHop: TLA+ models and proofs

WayHop is a Go daemon for OpenWrt and KeeneticOS routers. It compiles a user's profile into router
interfaces, a sing-box configuration and a kernel routing plane, applies it behind a fail-safe
window, and keeps it running. These modules model the part that must not go wrong on a router nobody
can reach: editing the profile, applying, keeping, rolling back, switching off, rebooting, the window
that rolls back by itself, the kernel tables it all ends in, and what keeps processes and exits alive.
`PROJECT.json` lists the runs, the map from definitions to source lines, the hazards
and the theorems.

## 1. Inventory

### Components that carry the core logic

**Fail-safe window** (`internal/failsafe/failsafe.go`). State: one `Manager` under `mu` (pending,
phase, deadline, bad timer, rolledBack / dispatched / rollbackDone / rollbackFailed, epoch, the
closure of the last armed window, the cancel of its goroutine). Operations: `ArmHealth`, `Confirm`,
`Disarm`, `MarkRolledBack`, `tickHealth`, `claimRollback`, `claimReboot`, `markRollbackDone`,
`markRollbackFailed`, `RollbackNow`, `RollbackNowAt`. Actors: one `run()` goroutine per armed window
(old ones linger until they see their context), any number of presses of Roll back (panel, Telegram
bot), and whoever arms or closes. *Hard*: the probe and the closure run outside `mu`; the closure
waits for the server's `applyMu`, so its window may be replaced meanwhile. *Correct when*: one closure
at a time per window, answers and flags are true, the fallback is not lost, the window ends.

**Apply execution** (`applyexec.go`, `applykernel.go`, `applymaterialize.go`, `apply.go`
`rollbackTo`). No state of its own: a sequence of steps over the router (native prepare, core, kernel,
native commit, postcheck; core before the kernel plane when it comes, after it when it goes), each of
which may fail and leave its plane half done. *Hard*: what is left after a failure in the middle.

**Apply lifecycle** (`apply.go`, `applystate.go`, `applyboot.go`, `routingswitch.go`, the server's
`failsafe.go`). State: the apply record (committed, live Test, a mark for an outstanding rollback and
how far it got with the kernel plane, the in-flight marker, the routing switch with its leftover), kept
in memory and on flash. Operations: Apply (saving, or a Test), Keep, Roll back, the window's closure,
routing off / on, the boot goroutine with its retry, the reconcile loop, converge after an engine
install, the scheduled core restart. All take `applyMu`. *Hard*: Keep confirms after it released the
lock; boot reads the record before it has the lock and retries later; the daemon may die inside any of
them; OpenWrt and KeeneticOS keep different things over a reboot. *Correct when*: what runs is what
the record names, supervision restores what the router had, off stays off, nothing is left behind
unrecorded.

**Core supervisor, watchdog, engine plugins** (`core/singbox.go`, `watchdog/watchdog.go`, `plugin/`).
State: desired, closed, the tracked process, the config on disk; the watchdog's backoff; per plugin its
proc with consecutive restarts, cooldown and launch time. Operations: `Start`, `Stop`, `Reload`,
`Shutdown`, `StartIfDesiredDead`, `tick`; `Sync`, `RunService`, `Supervise`, `StopByBin`, `StopAll`.
*Hard*: `Stop` waits for the process without its lock; the watchdog reads desired and alive separately;
`Supervise` gives up a tick when `Sync` holds the lock; handlers outlive the shutdown. *Correct when*:
one core at most, a stop holds, a crash loop is throttled, nothing outlives the daemon, and nothing that
is wanted is given up.

**Kernel plane** (`pbr/`, `ctflush/`, `applykernel.go`). State on the router: the nft table with its
marks and verification marker, ip rules, per-family route tables with defaults and blackholes, the marks
saved in conntrack. *Hard*: tables and marks are numbered per plan, so another plan gives a number to
another exit, while flows and half-removed tables keep the old meaning. *Correct when*: a packet leaves
by the exit its list names, a kill switch never falls through, no table outlives its plan.

**List failover** (`server/listfailover.go`): points the tables of groups at a healthy member. It checks
the switch, then `TryLock`s `applyMu`, and reads the tables before it writes them. *Correct when*: every
list is eventually pointed at its first live member, and never in a table of another plan.

**Outbound failover** (`failover/`): `Decide`, flap damper, outlier ejection, `Runner.Tick` with dwell
and failback hold. *Hard*: hysteresis over many ticks and two reasons to hide a member. *Correct when*:
a group is not left on a dead exit while another lives, failback is earned, and the choice settles. The
Runner is complete but no production code starts it yet (`runner.go:49`).

**Profile store** (`store/`, `model/validate.go`, `model/dns.go`, the handlers of `server/profile.go`):
copy-on-write profile, validation, durable write then publish, a generation per write, revision checks
per object. *Hard*: every editor reads, takes its time, and writes; removing an object strands what
points at it. *Correct when*: no editor overwrites what it did not see, and a profile that could be
applied still can be after a removal.

**Self-update transaction** (`updatetx/updatetx.go`, `updatetx/verify.sh`, `selfupdate_tx.go`, the init
script). State on flash: the binary, its rollback copy (plain or compressed), the pending marker with a
count of boots, the last result; in RAM the supervisor. Operations: the handler copies, records, swaps (or
leaves that to the package manager) and hands over; `verify.sh` restarts, judges, and keeps or restores;
the init starts it again at boot. *Hard*: the process that decides is the one being replaced, power may go
at any step, and the supervisor drops the marker before it is done. *Correct when*: whatever happens, a
build that answers ends up running, the result is true, and the copy to go back to is never the build under
judgement.

**Telegram bot** (`tgbot/`): bounded outbox, incident pairs, quiet hours. **Panel authentication**
(`server/auth.go`): sessions, lockout. **Change review** (`changeset/`): diff and undo.

Everything else (generator, importers, exporters, model, platform adapters, diagnostics, provisioning,
updater, web panel) is translation, I/O or presentation; `PROJECT.json` lists each with its reason.

### How they interact

- Apply holds `applyMu`, executes, records, and arms (Test) or confirms (saving) the window.
- The window's goroutine and the presses call the closure *without* `mu`; the closure takes `applyMu`,
  re-checks epoch, switch and record, and runs `rollbackTo(committed, live)`.
- The reconcile loop and list failover `TryLock` `applyMu` and work from `supervisedBaseline`, which
  the mark of a failed rollback steers.
- The watchdog needs no lock of the server's: it restarts whatever config is on disk while desired.
- The watchdog's tick also supervises the plugins; main's shutdown closes the core, then stops all plugins,
  while handlers may still be running.
- The store is read by every Apply; nothing but `Validate` protects an Apply from what edits left in it.
- Boot runs in a goroutine beside the HTTP server, so every user action may overtake it.

## 2. Modules

| module | models | state |
|---|---|---|
| `FailSafe` | the window manager, its goroutines and presses | `fs` = the Manager's fields; `run[e]`, `press[c]` = program counters; `cancelled`, `kept`; `restored`, `failed`, `tried`, `rebooted` are history |
| `Window` | what a fail-safe window promises (abstract) | `armed`, `open`, `running`, `restored`, `tried`, `rebooted` |
| `MCFailSafe` | TLC instances, symmetry, fairness | |
| `RouterExec` | outcomes of one execution, rollback, converge, removal, restart | constant-level operators over a `Router` record |
| `ApplyLifecycle` (extends `RouterExec`) | record, window, boot, switch, supervision, crashes | `router`, `rec`, `win`, `flight`, `keeping`, `boot`, `scheduled`, `seq`, `crashes`, `mishaps` |
| `MCApplyLifecycle` | the configuration shapes (tun, fast, hybrid) | |
| `KernelPlane` | compiled plan, installed tables, conntrack, Apply / Roll back / Keep / switch, reconcile and list failover loops | the record with the `mark` of a failed rollback; `nft`, `proof`, `rules`, `dev`, `hole`; `ct`; `link`, `alive`; `lock`, `job`; `pass`, `seen`, `todo` |
| `Supervision` | watchdog, core, plugins, services, install / uninstall, shutdown | core, plugin manager and watchdog fields; program counters of panel, main and tick |
| `Failover` | Decide, damper, outlier, Runner | health, selections, dwell and hold as ages, penalties, ejections |
| `UpdateTx` | a self-update: handler, `verify.sh`, init, power cuts | `bin`, `bak`, `gz`, `marker`, `result` on flash; `svc`, `run`; program counters `job`, `sup` |
| `Store` | profile, validation, edits, removals, slow editors | `profile`, `gen`, the slow reader's `job` |
| `MCKernelPlane`, `MCFailover`, `MCStore` | TLC instances | |
| `FailSafeProofs`, `ApplyLifecycleProofs`, `KernelPlaneProofs`, `SupervisionProofs`, `FailoverProofs`, `UpdateTxProofs`, `StoreProofs` | TLAPS proofs, each about the module it extends | |
| `ApplyRouterProofs` (extends `ApplyLifecycleProofs`) | more proofs about `ApplyLifecycle`: the kernel plane, the interfaces, boot | |

*FailSafe.* One action per critical section of `Manager.mu`. What happens between two sections is a
program counter: `run()` is grace -> loop -> probing -> (claim -> closure -> mark | claimReboot) ->
wait; a press is pressed -> closure -> tail -> failTail -> answered. The probe's time stamp is read
before it and used after it, as in the code. The closure is its contract: when it gets the server's
lock it reports superseded if its window was replaced or its Test is already recorded as committed,
and otherwise restores or fails.

*RouterExec.* Every operator is the set of outcomes of one call, for a caller that holds `applyMu`.
A revision is one Apply with the planes it asks for; the contents of a plane are the identity of the
revision that installed it. `Execute` yields the full success, the untouched refusal, and for every
step the damage that step's failure may leave (`CoreDamage`, `KernelDamage`, partial native commits).
Platform differences are the constant `Keenetic`: a startup configuration that `Saved` overwrites
with the running one, a failed retire that is only logged, interfaces lost on reboot.

*ApplyLifecycle.* One action per operation that holds `applyMu`; Keep is two (record, then Confirm
after the unlock), a rollback closure is two (Dispatch, Closure), the scheduled restart is two
(checks, then lock). Crashes inside an operation leave the router at any outcome its execution could
have reached and the record as it was last written. The window is its promise: one closure in flight
per window, which is what `FailSafeProofs!RollbackExclusion` proves of the manager.

*Window.* The fail-safe window without clocks, probes, presses or flags. `FailSafe!ImplementsWindow` is
`Window!Spec` under the mapping armed = the epoch of the last window, open = pending, running = the
windows whose closure some goroutine or press is inside, and the history variables as they are. It rules
out in one formula a closure run twice, a closure run again after it restored, a replaced window that
restores, and a reboot without an attempt. It is also how `ApplyLifecycle` uses the window.

*KernelPlane.* `Zones`, `Tags`, `Slot`s, marks and `Blackholed` are `pbr.Compile` over a small profile;
`PacketMark` and `Exit` are what the rendered nft program and ip commands do with a packet. An Apply is a job
of steps load, install, (retire,) flush, each of which may be refused and then undoes what the adapter undoes.
`Stale` is the flush's own judgement of a conntrack entry, and it has three answers: conntrack shows neither
the MAC address nor the interface or port a device group may be scoped by, so for a flow that such a zone
would decide the flush knows nothing and keeps it (`Unseen`, `Hidden`, `Judged`; `ctflush_test.go:159-174`).
`PacketsLeaveWhereAsked` therefore speaks of the flows that can be judged. Equal plans need no flush, also
when routing is switched on. A rollback that fails leaves a mark that names the plane it left (`committed`,
`tested` or `unknown`), which `Supervised` turns into the plane the loops put back or into none; flows are
taken for unjudged from there to the next flush (`torn`). The steps of an execution before its kernel step
always succeed here (`ApplyLifecycle` has their failures), an entry's devices are known in both families, and
the flush reaches conntrack and stays below its limit of entries. The list failover pass is checks, lock and
election, writes, restoration. The fault budget counts refused commands, links going down and firewall
reloads.

*Supervision.* One action per critical section of the core's lock and of the plugin manager's; the unlocked
wait of `Stop` is a state of its own (`hand`). Panel operations are one actor because `applyMu` serializes
them; main's shutdown and the bridge's timer are not under it. A killed process dies: `Stop` waits for that
without a bound here, where the code gives up after `killGrace` with an error (`singbox.go:428-442`,
`473-481`). A behaviour uses the core or the plugins; they share the tick and the shutdown only.

*Failover.* Times are ages, held at the value past which no comparison changes, so there is no horizon.
`Visit` is one group's turn of `Tick`; the environment may move between two groups of a tick.

*UpdateTx.* One action per step that touches the flash or the service, so that the daemon's death and a power
cut fall between any two. The handler is link copy -> drop the compressed one -> record -> swap -> spawn; the
supervisor is restart or package -> verify -> (squash -> result) or (undo -> restore -> revive -> result), and
at boot it counts the marker's boots first. A build answers or never does, and an answer may come too late.
What an answer proves depends on the channel: a release is asked for by its commit, a package by its version
without the package revision (`Answers`, with `Releases` the sets of builds of one product version); different
builds are taken to have different commits. Restoring the copy may fail although it is there
(`CannotRestore`). The history variable `torn` records how an update left the supervisor's hands: swapped
without it (`blind`), the daemon died before starting it (`orphan`), no copy to go back to (`stays`), a copy
that could not be put back (`byhand`), power lost after it dropped the marker (`cut`).

*Store.* A write is one action (it holds `wmu`): clone, change, `Accepts`, persist, publish. What takes time
is the reader before it, `job`: a form, a switch through the capability gate, an import with its retry, a feed
fetch, a subscription, the DNS page. An endpoint is on or off, and a VPN that pushes resolvers, another kind,
a draft that lacks what its protocol needs, or one with a field out of range (`Misfilled`: port 70000, no
server, a bad mtu). `Validate` asks for the draft only where it is on and for the fields always; the paths
that store a connection ask about drafts only, and a field error comes before every reference check. A cache
is the source it came from; a revision is the object without its cache.

Abstractions of the lifecycle worth knowing: engine plugins are left out (Sync cannot fail and gets the exact set);
the record is one variable for memory and flash; an Apply that is refused before it touches the router
takes no step number; the window's phases are reduced to open / over / committed / idle / rolled_back.

## 3. Runs

| run | shows |
|---|---|
| `failsafe_presses` | two presses, two windows, every probe answer: `OneRollbackInFlight`, `SuccessIsReal`, `OutcomeFlagsTrue`, types |
| `failsafe_timing` | probes that take time, late timers: `FallbackStays`, the refinement `ImplementsWindow` |
| `failsafe_closes` | liveness: `WindowCloses`, auto-reboot on and off |
| `apply_record` | three Applies, tun and fast mode, any step and any rollback failing: `OnlyRecordedRuns`, `SupervisionPairs`, `RollbackUndoesTheTest`, types |
| `apply_boot` | a daemon crash anywhere on OpenWrt: `OffStaysOff`, `BootEndsRunning` |
| `apply_native` | daemon restart and reboot, scheduled restart, tun mode on OpenWrt: `NoInterfaceLeft` |
| `apply_keenetic` | the same questions on KeeneticOS in fast mode: `NoInterfaceLeft` |
| `store` | edits and removals of every kind of object around one slow editor, fields out of range, a restart of the daemon: `RemovalKeepsApplicable`, `SlowWriteKeepsApplicable`, `EditsSurvive`, `DnsWriteSawItsPlane`, `CacheMatchesSource`, types |
| `failover` | two groups over the same exits, in opposite order: `NoBlackhole`, `FailbackEarned`, `Converges` (liveness), types |
| `supervision` | panel, watchdog, bridge timer and shutdown at every lock: `OneCore`, `StopHolds`, `CrashLoopThrottled`, `NothingSurvives`, and the liveness of `CoreNeverGivenUp` and `ServiceNeverGivenUp`, types |
| `kernel_plane` | two plans that give one table number to different exits, a device the flush cannot see, two faults: `PacketsLeaveWhereAsked`, `NothingLeftBehind`, `ListsRecover` and `PlaneComesBack` (liveness), types |
| `update` | three updates, two power cuts and a crash of the daemon at any step, a build that never answers, a restore that fails: `RollbackWorks`, `Settles` (liveness), types |

Known divergences: what the code does against what its own comments, documents or neighbouring code say.
Each was found while modelling, most of them as TLC counterexamples; no run is kept for them.

- *Single link.* `apply` answers any refused ip command by removing the table, rules and routes of the whole
  plane (`applykernel.go:151`), and the kernel refuses a route through a link that is down: if the
  firewall reloads while one tunnel is down, every reconciliation tears the plane out again and every list and
  kill switch is open until that tunnel is back. `pbr/apply.go:79-80` skips exactly this failure "so a single
  down tunnel can't tear out the WHOLE plane (every carve-out + the kill-switch blackhole", but is not the
  path an Apply or a reconciliation takes. `PlaneComesBack` without its premise that the links stay up shows it.
- *Power cut inside a rollback.* `rollback()` removes the marker first, then stops the service (up to 15 s)
  and restores. Power lost in between leaves the build that failed at the path with nothing to judge it at
  boot (`verify.sh:118`; `updatetx.go:10-11` and the init's comment promise that the boot finishes the
  judgement). `Settles` without the exception `cut` shows it. Power lost while a proven update compresses its
  copy leaves the previous update's result as the last word.
- *Orphan.* The daemon dying between the swap and the start of the supervisor leaves the judgement to the
  next boot; procd runs the new build unjudged until then.
- *Unproven copy.* Where the supervisor could not be started and the restart after it failed too, the running
  build is the old one and the file the new one; the next update copies the file, so its rollback may restore
  a build that never ran (`selfupdate_tx.go:151-158`; `RollbackWorks` excepts `blind`).
- *By hand.* `restore()` may fail with the copy in place (no space for the link or the copy, `verify.sh:113-115`);
  the supervisor then starts the build it had refuted again and leaves the rest to the user ("restore it by hand",
  lines 125-128). `Settles` excepts `byhand`.
- *Package revision.* A package update that changes only the package revision asks for a version which the build it
  replaces answers with too (`selfupdate_tx.go:163-167`, `213`; `verify.sh:72-73`): cut off before its install, it is judged
  and reported as installed at the next boot. What runs is a build that works.
- *Boot count.* The boot pass edits the marker in place with `sed -i` and no sync (`verify.sh:166`), where
  `writeAtomic` takes care against exactly that; the model takes every file operation for durable.

- *Status.* A manual rollback fails and leaves dispatched and rollbackFailed set; a later Down tick past
  `RollbackAfter` sets the phase `rolled_back`, and `claimRollback` refuses, so nothing corrects it
  (`failsafe.go:376`; lines 251-252 promise "rollback_failed" instead of a false "rolled_back").
- *Committed.* `rollbackNow`'s first critical section finalizes an earlier success without asking whether
  its window is current: a press that reaches the lock after a Keep sets `rolled_back` over `committed`
  (`failsafe.go:509`; the second section has the check, lines 530-534).
- *Guard.* `applyConfirm` commits under `applyMu`, unlocks, and then confirms (`apply.go:905`): a Test armed
  in between loses its window and runs unsaved without a fallback.
- *Torn.* After a crash inside an Apply, boot re-executes the committed plan without its removals
  (`applyboot.go:316`); the in-flight revision's interfaces and rules stay and no record names them
  (`applystate.go:58`).
- *Scheduled restart.* `restartCoreOnSchedule` reads the switch before it takes `applyMu` and not after
  (`corerestart.go:79`): switched off in between, the core is started and kept up while routing is off.
- *Detours.* Deleting an endpoint with its references moved to `block` also moves a DNS server's detour
  there (`store.go:1194`). DNS validation refuses such a detour, but with an error `publish` does not stop
  at, so the write is accepted and every later Apply fails (`RemovalKeepsApplicable` excludes this case).
- *Misfilled.* A form may store an enabled connection with port 70000 or without a server: `saveEndpoint` asks only
  `EndpointParamProblem` (`profile.go:238-249`), and every later Apply fails, which its comment means to prevent.
  Moreover `Validate` checks the fields of switched-off connections first (`validate.go:193-247`), so a form that switches a
  used connection off and empties its server gets a plain error, which `publish` lets pass (`store.go:852-858`): rules then
  point at a connection that is off, against "A write may not switch something off while live references still point
  at it" (`store.go:838`). `RemovalKeepsApplicable` and `SlowWriteKeepsApplicable` except writes that bring a
  field out of range; without the exception both fail.
- *Form outbound.* A list form left open while the outbound it names is deleted saves a list with a dangling outbound:
  an unresolved reference is a draft to `publish`. `SlowWriteKeepsApplicable` excepts it, and fails without.
- *Subscription overwrite.* A refresh compares its connections with a profile it read before the capability gate and
  writes without a generation (`subrefresh.go:134`, `191`): a connection saved with the same id in
  between is overwritten, which "the very thing this function's contract forbids" (lines 152-160) is about.
- *Driver.* A goroutine superseded while it probed calls `tickHealth` for the window that replaced its
  own (`failsafe.go:179` has no epoch check; lines 92-94 promise a single driver). The claims after it
  are gated, so nothing fires twice.
- *Leftover.* With `ApplyRecovers = FALSE`, `MaxRev = 3`, hybrid shapes, `NoInterfaceLeft` fails: an Apply
  fails over a live Test, its own rollback fails, and `runApply` marks the Test only (`apply.go:361-378`);
  rolling the Test back clears the record with the failed Apply's interfaces still there.
- *Saved Test.* With `Keenetic = TRUE` and a reboot, an interface of no recorded revision comes back at boot
  without any crash inside an Apply: the routing switch saves the running configuration, a Test's interfaces
  included (`routingswitch.go:361`), although boot relies on "startup-config, which a Test never writes".
- *Plane not retired.* An Apply over an outstanding rollback takes the live Test as what it retires
  (`applynative.go:292`); if the failed rollback had put the committed plane in, an Apply that wants no
  kernel plane leaves that one in force.
- *Generic path.* Where the native plan of a profile cannot be compiled on OpenWrt, Apply takes the generic path
  (`applymaterialize.go:130-135`), which runs no native commit (`applyexec.go:209-214`), so the interfaces of the
  previous Apply stay configured with a clean record; `applymaterialize.go:124-127` names exactly this as the
  reason why one kind of such profile is refused instead.
- *Mark.* A crash inside a rollback after its kernel step, then a boot rollback that fails before its own:
  the mark says `tested`, the router has the committed plane (`applyboot.go:285`).

- *Failover.* An emergency whose `Select` fails leaves another member's pending hold in place (the history
  variable `torn` keeps such groups out of `FailbackEarned`); a member released at the suppression cap may
  be suppressed again in the same tick for a second group; `currentEjected` is asked before this tick's
  outcome is recorded.
- *Supervision.* Reinstalling a plugin's binary after an uninstall does not `Sync` (`updater.go:352-361`);
  the bridge timer's `RunService` is not under `applyMu` and may restart the bridge between `StopByBin`
  and the unlink, so its process may outlive its file; Applies back to back starve
  `Supervise`, so `ServiceNeverGivenUp` assumes ticks that find the lock free.
- *Kernel plane.* Applying Live again after its failed rollback skips the conntrack flush
  (`apply.go:443-447`, `server/ctflush.go:28`; history variable `torn`); the ownership baseline keeps only
  Live's plane (`applynative.go:287-293`); a nested group's table is never pointed elsewhere nor restored,
  because `listFailoverTables` looks at direct members and `lostTableRoutes` skips groups.

`OffStaysOff` is checked where no core restart is scheduled (`CoreRestart = FALSE`, the default setting),
see *Scheduled restart*. `NoInterfaceLeft` is checked where
the rollback of a failed Apply succeeds (`ApplyRecovers = TRUE`), see *Leftover*. `NoInterfaceLeft` also excludes,
through the history variable `mishaps`, a crash *inside* an Apply or a rollback (see *Torn*);
reboots and other crashes are included; and it needs shapes with a native plan, see *Generic path*.
`SupervisionPairs` says that the plane reconciliation would put back *is* the plane the router carries. It
excepts, through `mishaps` again, a router that rebooted (the plane is gone until boot puts it back) and a crash
inside an Apply or a rollback, see *Mark*.

### Bounds

- `MaxEpoch = 2`: a window and its successor. A third adds no relation that two do not have, since
  every comparison in the code is with the current epoch.
- `Callers`: two presses are the smallest number that can race each other and the goroutine; they are
  symmetric.
- `MaxNow`, `RollbackAfter < RebootAfter`, `ProbeMax`: the clock is long enough to pass both
  thresholds, and a probe can straddle a tick. In the liveness run both thresholds are 1, so that rollback and reboot
  fall due together. In the liveness run no window is armed so late that the
  clock's bound would cut it off (`Lifetime`).
- `MaxRev`: 2 gives committed + Test, 3 gives committed + live Test + the Apply over it, which is the
  deepest nesting the record can name. Refused Applies are free.
- `MaxCrash = 1`: boot starts from a record, whatever wrote it; one crash at every point gives every
  record. `Restarts` says whether it is the daemon or the router.
- `Shapes`: tun (native + core), fast (native + kernel), hybrid (all three). Runs use one or two;
  tun and fast together give transitions that add and remove each plane.

- `store`: two endpoints, two groups that may nest, one of every other object, starting from the profiles of a
  small family that between them use every kind of reference; two commits besides the slow editor's own and
  one restart, which is what an editor needs to be overtaken by a delete and by a new generation of the same
  number (770 thousand states).
- `failover`: two members in opposite order of two groups, three changes of the environment (dead, back,
  dead: the least that makes a flap), thresholds so small that one flap suppresses and the cap is reached.
- `supervision`: crashes are unlimited; one refused launch; backoff up to 4 ticks, cooldown up to 2, so
  that every comparison has both outcomes. Uncapped counters are held where they stop mattering.
- `kernel_plane`: a group with a kill switch, an endpoint and a block that take over each other's table
  numbers, two of three links unsteady, two faults in any place: one to break an execution and one its
  rollback or repair. One of the two sources is a device the flush cannot see (541 thousand states).
- `update`: two builds that answer and one that never does and is a package revision of the first, in each of
  the three channels; three updates, so that a copy and a result of an earlier one are there to be mistaken;
  two power cuts, which is what the count of boots tells apart; one crash of the daemon.

Deadlock is checked in the lifecycle runs. In the others it is not: the bound on clock, epochs, writes or
changes, or the daemon's exit, ends every behaviour.

### Fairness

`failsafe_closes`: weak fairness of the clock, of each `run()` goroutine, of a closure
that was entered (its exec calls have deadlines), and of a press once it is under way. That is Go's
scheduler and timers. Presses, Keeps and Applies may never come. `Punctual` lets time pass only when no
goroutine has work due, and `Answers` excludes "unknown", because a window nobody can measure is held
open on purpose (`tickHealth`, the unknown branch).

`failover`: the runner's ticks go on (`Pace`, weak fairness of the tour of groups); the environment moves
finitely often. `supervision`: the watchdog's ticker, the bridge's timer, a panel operation that began, and
the death of a process that was killed; crashes and requests are not fair. `kernel_plane`: work under the
lock ends (`JobStep`: commands have deadlines), the failover ticker goes on, and reconciliation, which
only tries the lock on its tick, is strongly fair: it runs if the lock is free again and again. Its liveness
premise is that links and health stop changing. `update`: the handler and the script go on while
their process lives, procd respawns the service, and a router that lost power gets it back; updates, crashes and
power cuts need not come and are finitely many.

## 4. Proofs

Each proof module extends the module it is about, so the theorems are about the very definitions the runs
check, for every value of the constants. Every invariant behind a proof is stated in the model's module
(a few conjunctions in the proof module) and was checked with TLC on the run's instance first.

| theorem | states | module |
|---|---|---|
| `TypeCorrect`, `RollbackExclusion` (from `FlightSafe`) | `TypeOK`, `OneRollbackInFlight` | `FailSafeProofs` |
| `AnswersAreReal`, `OutcomesAreTheWindows`, `FallbackIsKept` (from `ManagerInvariant`) | `SuccessIsReal`, `OutcomeFlagsTrue`, `FallbackStays` | `FailSafeProofs` |
| `ManagerImplementsWindow` | `ImplementsWindow`, the refinement of `Window` | `FailSafeProofs` |
| `LifecycleTypes`, `RollbacksUndoTheTest` (from `RecordCorrect`) | `TypeOK`, `RollbackUndoesTheTest` | `ApplyLifecycleProofs` |
| `OnlyTheRecordedRuns`, `RoutingStaysOff` (from `CoreCorrect`) | `~CoreRestart =>` `OnlyRecordedRuns`, `OffStaysOff` | `ApplyLifecycleProofs` |
| `SupervisionIsPaired`, `BootEndsWithTheRecordRunning` (from `RecordSound`) | `SupervisionPairs`, `BootEndsRunning` | `ApplyRouterProofs` |
| `InterfacesAreAccounted` (from `RecordSound`) | under `Tracked`: `NoInterfaceLeft` | `ApplyRouterProofs` |
| `PlaneCleansUp` (from `PlaneCorrect`) | `NothingLeftBehind` | `KernelPlaneProofs` |
| `PacketsFollowTheProfile`, `PlaneTypes` (from `FlowsAreJudged`) | `CompilesRight =>` `PacketsLeaveWhereAsked`, `TypeOK` | `KernelPlaneProofs` |
| `NeverTwoCores`, `StopsHold`, `CrashLoopsThrottled`, `NothingOutlives`, `SupervisionTypes` (from `SupervisionCorrect`) | `OneCore`, `StopHolds`, `CrashLoopThrottled`, `NothingSurvives`, `TypeOK` | `SupervisionProofs` |
| `NoGroupBlackholed`, `FailbacksAreEarned`, `FailoverTypes` (from `FailoverCorrect`) | `NoBlackhole`, `FailbackEarned`, `TypeOK` | `FailoverProofs` |
| `RollbackAlwaysWorks`, `UpdateTypes` (from `UpdateCorrect`) | `RollbackWorks`, `TypeOK` | `UpdateTxProofs` |
| `DnsPageSawItsPlane`, `StoreTypes` (from `StoreCorrect`) | `DnsWriteSawItsPlane`, `TypeOK` | `StoreProofs` |
| `RemovalsLeaveItApplicable` (from `StoreCorrect`) | `RemovalKeepsApplicable` | `StoreProofs` |
| `CachesFollowSources`, `NoLostEdits`, `SlowWritersLeaveItApplicable` | `SendsRev =>` `CacheMatchesSource`, `EditsSurvive`, `SlowWriteKeepsApplicable` | `StoreProofs` |

### Assumptions

Each is an `ASSUME` of the module that declares the constants, evaluated by TLC in the runs.

- `FailSafeAssumption`: naturals, a positive interval and rollback threshold, answers among the three
  verdicts, and a probe that takes less than `RollbackAfter` (its deadline is 8 s, the threshold 45 s).
- `RouterAssumption`, `LifecycleAssumption`, `SupervisionAssumption`, `FailoverAssumption`: constants have
  their types; backoff bounds are ordered, the cap of the cooldown is positive, a tour visits a group once, and
  the decay of a penalty does not leave its range.
- `UpdateAssumption`, `PlaneAssumption`: `None` is not a build, a marker or a profile, groups and their order
  are sequences of known names.
- `ReleaseAssumption`: every build is of exactly one product version.
- `StoreAssumption`, `FormsAssumption`: ids of different kinds differ; the profile the daemon opens has its
  type, caches that came from their sources and no connection switched on that cannot be loaded (a new
  profile has none of either); what a form submits has the form's type, and carries a cache only of its source.

Some theorems have a hypothesis, because the statement is false without it:

- `~CoreRestart`, no `core_restart` schedule is set: `restartCoreOnSchedule` reads the switch before it takes
  `applyMu` and not after (*Scheduled restart* above), so with a schedule the core may come up while routing is
  off, and under a record that no longer asks for one.
- `SendsRev`, forms send the revision they were loaded at: the panel's forms do; for a client that sends none,
  `checkRev` accepts the write by design, and it may overwrite what it did not see.
- `Tracked`, three conditions on the constants, each for a divergence above: the rollback after a failed Apply
  succeeds (*Leftover*), every shape has a native plan (*Generic path*), and on KeeneticOS only the daemon
  restarts, not the router (*Saved Test*). `apply_native` and `apply_keenetic` are instances of it.
- `CompilesRight`, `pbr.Compile` taken by itself gives every profile's flows the marks and tables its lists
  ask for. It speaks about the constants only (no state), and is the part that would need induction over the
  lists of a profile; TLC evaluates it on the instance of `kernel_plane` (`CompileAssumption`). What the theorem
  adds is everything after the compiler: installs, failures, undos, flushes, reloads and the loops.

### The arguments

*FailSafe.* `OneRollbackInFlight` is not inductive: that no second closure *runs* depends on the flags the
next claimant will read. `FlightInv` adds `WindowOrder` (only armed windows have a goroutine; a press whose
window is no longer the last armed one claimed it under an older epoch, so its late mark is refused by the
epoch gate), `FlightFlags` (a rollback in flight - from its claim to the *mark* of its outcome, not only while
the closure runs - shows as dispatched and not failed) and `OneFlight`. The refinement then needs more than
the exclusion: that a rollback which may be claimed has not restored yet (`NotYetRestored`), that the open
window is the last armed one (`OpenIsArmed`), that a reboot is claimed only after the closure was
(`TriedFirst`; with `StampOrder`, two late stamps of replaced windows are too close together to make their
successor's rollback due, so the goroutine that finds it due is the one that claims it next), and that every
goroutine but the last one is cancelled (`CancelOrder`). Each step is then shown to be one of `Window`'s or a
stutter.

*ApplyLifecycle.* The first half is about `RouterExec`: lemmas that say of *every* outcome of `Execute`,
`RollbackTo`, `RemoveRouting` and of a crash inside them what core, config file, intent and rules can be
afterwards (`Touches`, and `Reached` for a run that went through). The second half is the record. `IdInv` says
that an id names one revision wherever the daemon holds one (record, window, closure, boot goroutine), which
the code's pointer comparisons rely on; `ClosureInv` that a closure of the armed window carries that window's
revision and no older closure does, which is what makes the re-check under `applyMu` sufficient. `OffInv`,
`TaskInv` and `CoreInv` add what is true while routing is off, while the daemon is down and between boot's look
at the record and its turn at the lock.

What the router carries takes a second pass over every operation. `Ran` says of one execution, and `Undid` of a
rollback with its second run, whether the verdict on the kernel plane that goes into the mark is true, which
interfaces are added and taken, and that a plane or core config which is the target's already survives any
failure. `Moves` lists the five ways a step may change the record (kept, settled, a new revision, turned off,
turned on), and `Effect` joins the two: `StepEffect` shows for every action how the router moves *relative to*
the record. Three arguments then share it. `SupervisionPairs` is inductive next to `Sound`: the switch holds its
leftover only while it is off (`SwitchInv`), a Test is never the committed revision (`ApartInv`, or a rollback
could not tell its two sides apart), and only a reboot makes the record forget a Test (`SameBootInv`). For
`BootEndsRunning`, boot's guess at the record may be stale when it gets the lock; `BootInv` says that with a
clean record either what it names *stands* already (`Stands`, stronger than `Runs`: also what the watchdog would
restart) or boot's attempt is still about it. For `NoInterfaceLeft`, `Accounted` is the set of revisions whose
interfaces may be on the router - two while a rollback is outstanding or a switched-off router holds a Test, one
otherwise - and `LeftInv` confines the interfaces to them.

*KernelPlane.* `Owners` is the set of plans that may own something in the kernel, which depends on the job
under way and on how far it got; `LockInv` and `JobFits` tie the job to the record, `OwnedInv` confines what
is installed. For packets, `FlowInv` says that no flow the flush can judge is pinned against the plan in force, nor
against a plan that is put in again without a flush because it equals the one before; and `TableInv` that
the tables of the plan in force hold only what its install or a failover pass of the *same* plan wrote.

*Supervision.* `StopperAlone`: from the moment a `Stop` took the process until it goes on, nothing wants or has
a core, and the shutdown closes the supervisor first. `RelaunchesCounted` links the history counter to the
restart counter and the cooldown; powers of two are bounded through the cardinality of a powerset.

*UpdateTx.* `HandOver` says which of marker, copy and supervisor exist at each step of the handler, and
`CopyWorks` that the copy an update will go back to is a build that answers unless an earlier update was
swapped blind. *Failover.* `WishesBacked`: the member a pending switch is for has been alive as long as the
wish is old; the rest is what `Decide` returns. *Store.* `JobFresh`: generations only grow, restarts included,
so a job that finds its generation published finds what it read; one lemma per writer shows it keeps types and
stores no draft switched on, which the removals below need. For slow writers, the DNS page and an import rest
on their generation, a form on its revision (scope and via are still the stored ones, `ListWriteIsValid`), and
a subscription, which has neither, on not taking a target away and on `publish`, which refuses to strand a
resolver. For removals, `Moved` says that no reference is left to what goes and that new ones exist, `Calmer`
that parking and moving resolvers costs no live DNS rule its server. `publish` refuses only errors about
references that are *switched off*, so the proof has to show that none of the other checks can fail: no group
empties, no member dangles, and no cycle closes when groups take a replacement for a connection
(`TakingOverStaysAcyclic`: the groups the replacement reaches form a closed set without the connection).

### Only model-checked

- Liveness under fairness: `WindowCloses`, `Converges`, `CoreNeverGivenUp`, `ServiceNeverGivenUp`,
  `ListsRecover`, `PlaneComesBack`, `Settles`. The prover has no rules for fairness and ENABLED.
- `CompilesRight`, on the profiles of `kernel_plane`: induction over a profile's lists.

Every invariant and every action property the runs check is stated by a theorem.

## 5. Plan

In order:

1. `ApplyLifecycle` with two copies of the record (memory, flash): failing writes, Keep's persist before
   its commit, the two writes of switching on; `Window` as the window of `ApplyLifecycle`.
2. `Outbox`, `Auth`, the monitor's debouncing.

The entries under *Known divergences* keep their place until they are fixed, so that a fix can be
checked against the property named in the text.

## 6. Not modelled

The fail-safe and lifecycle models leave out: a record write that fails, a crash between Keep's persist and
its commit, engine plugins, the review plan, timeouts inside one execution (a cancelled context is a failed
step), and the texts and phases shown to the user beyond the ones named above. `KernelPlane` is OpenWrt's nft
plane: the ipset plane and NDM policies of KeeneticOS, domain sets, the bypass set, the v4-only posture and
flow offload are not in it. `Supervision` renders no engine configuration. `UpdateTx` leaves out the
installers, space planning and a package manager that stops half-way. `Store` leaves out the order of rules
and secrets, and four writers: `Replace` (backup restore, import of a whole profile: `backup.go:118`,
`profile.go:171`), which stores only what `Validate` accepts; `Reconcile` (change-set undo,
`changesetapi.go:57`, and the tunnel discovery, `vpndiscover.go:46`), whose change is a function of the whole
profile; and the adoption of a router's tunnel and Set up Server, which end in an unconditional
`UpsertEndpoint` (`vpndiscover.go:240`, `initserver.go:303`). Most of the repository by size (generator,
importers, planning and capture, the Telegram views, diagnostics, the panel's handlers) translates data or
talks to the network and has no model here. Liveness under fairness is out of the prover's reach and stays
with TLC. Components outside the core are listed with reasons in `PROJECT.json`.
