------------------------------ MODULE UpdateTx ------------------------------
(* Replacing WayHop's own binary (internal/updatetx, selfupdate_tx.go,      *)
(* updater.SelfUpdateWith): the daemon makes a rollback copy, records the   *)
(* update on flash and swaps the binary; a supervisor outside the daemon    *)
(* (verify.sh) restarts the service, judges the new build and puts the copy *)
(* back; the init script finishes the judgement after a power cut.          *)
(*                                                                          *)
(* A build answers once it runs, or never does, and says its own commit.    *)
(* Every file operation is durable when it returns, and a package manager   *)
(* that fails leaves the binary alone.  The installers' own use of the      *)
(* marker is left out.                                                      *)
EXTENDS Naturals

CONSTANTS
  None,                \* nothing there
  Build, Works,        \* all builds, and those that answer
  Releases,            \* product versions, each the set of its package revisions
  Channels,            \* who owns the binary: "asset" (WayHop itself), "apk", "opkg"
  MaxUpdates, MaxCuts, MaxDeaths  \* bounds: updates begun, power cuts, daemon deaths

ASSUME UpdateAssumption ==
  /\ Works \subseteq Build /\ None \notin Build
  /\ Channels \subseteq {"asset", "apk", "opkg"}
  /\ {MaxUpdates, MaxCuts, MaxDeaths} \subseteq Nat
  /\ None \notin [to : Build, rollback : BOOLEAN, boots : 0..1]

ASSUME ReleaseAssumption ==
  UNION Releases = Build /\ \A v, w \in Releases : v \cap w # {} => v = w

VARIABLES
  channel,
  bin, bak, gz,  \* on flash: the binary, its rollback copy, the compressed one
  marker,        \* update.pending, or None
  stale,         \* it is older than PendingStale
  result,        \* update-result.json
  svc,           \* "off", "starting" (the init was called at boot) or "on"
  run,           \* the build whose process runs, or None
  job,           \* the daemon's update handler: where it is, the build, and whether it is judged
  sup,           \* the supervisor: where it is, and what it read from the marker
  restartDue,    \* a swap without a supervisor asked for a restart
  powered, spent,
  torn           \* history: what took an update out of the supervisor's hands

flash == <<bin, bak, gz, marker, result>>
vars == <<channel, flash, stale, svc, run, job, sup, restartDue, powered, spent, torn>>

Marker == [to : Build, rollback : BOOLEAN, boots : 0..1]
Result == [what : {"ok", "rolled_back", "failed"}, to : Build]
JobState == [at : {"idle", "link", "gz", "record", "swap", "spawn"}, to : Build \cup {None},
             judged : BOOLEAN, copied : BOOLEAN]
SupState == [at : {"idle", "restart", "pm", "kept", "boot", "verify", "squash", "squashed", "prove",
                   "undo", "restore", "revive", "told"},
             to : Build \cup {None}, rollback : BOOLEAN]
NoJob == [at |-> "idle", to |-> None, judged |-> FALSE, copied |-> FALSE]
NoSup == [at |-> "idle", to |-> None, rollback |-> FALSE]
Spend(what, bound) == spent[what] < bound /\ spent' = [spent EXCEPT ![what] = @ + 1]
-----------------------------------------------------------------------------
(* The daemon.  Its handlers hold applyMu from the check to the swap, so    *)
(* there is one of them; it goes with its process.                          *)

\* Mutant: only the marker is asked, which the supervisor drops before it is done.
MutUpdateInFlight == marker # None /\ ~stale

\* updateInFlight: a live supervisor refuses on its own, a marker while it is young.
UpdateInFlight == sup.at # "idle" \/ (marker # None /\ ~stale)

\* autoInstall: a release that was rolled back or failed is not tried again unattended.
AutoInstalls(to) == result # None /\ result.to = to => result.what = "ok"

(* selfSwapAndJudge and selfInstallPM up to the rollback copy: without a    *)
(* script to judge it a release is swapped all the same, a package is not.  *)
Begins(to, by, judged) ==
  /\ powered /\ run \in Works /\ job.at = "idle" /\ to # run
  /\ ~UpdateInFlight /\ (by = "auto" => channel = "asset" /\ AutoInstalls(to))
  /\ channel # "asset" => judged
  /\ job' = [at |-> IF channel = "opkg" THEN "record" ELSE "link", to |-> to, judged |-> judged, copied |-> FALSE]
  /\ Spend("updates", MaxUpdates)
  /\ UNCHANGED <<channel, flash, stale, svc, run, sup, restartDue, powered, torn>>

JobFrame == UNCHANGED <<channel, svc, powered, spent>>

\* The download, the sanity run, the copy or the record failed: nothing was swapped.
GivesUp ==
  /\ job.at \in {"link", "gz", "record"} /\ job' = NoJob
  /\ JobFrame /\ UNCHANGED <<flash, stale, run, sup, restartDue, torn>>

\* linkRollback: the copy takes its name in one rename, then the compressed one goes.
LinkRollback == bak' = bin

Links ==
  /\ job.at = "link" /\ LinkRollback /\ job' = [job EXCEPT !.at = "gz", !.copied = TRUE]
  /\ JobFrame /\ UNCHANGED <<bin, gz, marker, result, stale, run, sup, restartDue, torn>>

\* A package that cannot be copied is installed all the same, without a rollback.
NoCopy ==
  /\ job.at = "link" /\ channel = "apk" /\ job' = [job EXCEPT !.at = "record"]
  /\ JobFrame /\ UNCHANGED <<flash, stale, run, sup, restartDue, torn>>

DropsGz ==
  /\ job.at = "gz" /\ gz' = None /\ job' = [job EXCEPT !.at = "record"]
  /\ JobFrame /\ UNCHANGED <<bin, bak, marker, result, stale, run, sup, restartDue, torn>>

Records ==
  /\ job.at = "record"
  /\ marker' = IF job.judged THEN [to |-> job.to, rollback |-> job.copied, boots |-> 0] ELSE marker
  /\ stale' = (stale /\ ~job.judged)
  /\ job' = [job EXCEPT !.at = IF channel = "asset" THEN "swap" ELSE "spawn"]
  /\ JobFrame /\ UNCHANGED <<bin, bak, gz, result, run, sup, restartDue, torn>>

Swaps ==
  /\ job.at = "swap" /\ bin' = job.to
  /\ IF job.judged
     THEN job' = [job EXCEPT !.at = "spawn"] /\ UNCHANGED <<restartDue, torn>>
     ELSE job' = NoJob /\ restartDue' = TRUE /\ torn' = torn \cup {"blind"}
  /\ JobFrame /\ UNCHANGED <<bak, gz, marker, result, stale, run, sup>>

\* The rename failed: the record of it goes, before the lock does.
SwapFails ==
  /\ job.at = "swap" /\ job' = NoJob
  /\ marker' = IF job.judged THEN None ELSE marker
  /\ JobFrame /\ UNCHANGED <<bin, bak, gz, result, stale, run, sup, restartDue, torn>>

\* verify.sh reads the marker as it starts, and exits if there is none.
Reads(at) ==
  IF marker = None THEN NoSup
  ELSE [at |-> at, to |-> marker.to, rollback |-> marker.rollback]

Spawns ==
  /\ job.at = "spawn" /\ job' = NoJob
  /\ sup' = Reads(IF channel = "asset" THEN "restart" ELSE "pm")
  /\ JobFrame /\ UNCHANGED <<flash, stale, run, restartDue, torn>>

\* The supervisor did not start: a swapped binary is restarted without it.
SpawnFails ==
  /\ job.at = "spawn" /\ job' = NoJob /\ marker' = None
  /\ IF channel = "asset" THEN restartDue' = TRUE /\ torn' = torn \cup {"blind"}
     ELSE UNCHANGED <<restartDue, torn>>
  /\ JobFrame /\ UNCHANGED <<bin, bak, gz, result, stale, run, sup>>

\* restartCommand: the init's restart, which may not start at all.
PlainRestart ==
  /\ restartDue /\ restartDue' = FALSE
  /\ \/ run' = bin /\ job' = NoJob
     \/ UNCHANGED <<run, job>>
  /\ JobFrame /\ UNCHANGED <<flash, stale, sup, torn>>

JobStep ==
  GivesUp \/ Links \/ NoCopy \/ DropsGz \/ Records \/ Swaps \/ SwapFails \/ Spawns \/ SpawnFails \/ PlainRestart
-----------------------------------------------------------------------------
(* verify.sh                                                                *)

Kept == UNCHANGED <<channel, restartDue, powered, spent>>
SupFrame == Kept /\ UNCHANGED <<stale, torn>>
Goes(from, to) == sup.at = from /\ sup' = [sup EXCEPT !.at = to]
Says(what) == result' = [what |-> what, to |-> sup.to]
Ends(what) == sup' = NoSup /\ Says(what)

Restarts ==
  /\ Goes("restart", "verify") /\ run' = bin /\ job' = NoJob /\ svc' = "on"
  /\ SupFrame /\ UNCHANGED flash

\* The package manager found nothing to install: the copy of what is in place goes.
PmKeeps ==
  /\ Goes("pm", "kept") /\ bak' = IF sup.rollback /\ bak = bin THEN None ELSE bak
  /\ SupFrame /\ UNCHANGED <<bin, gz, marker, result, svc, run, job>>

\* That, or it failed.
PmFails ==
  /\ sup.at \in {"pm", "kept"} /\ Ends("failed") /\ marker' = None
  /\ SupFrame /\ UNCHANGED <<bin, bak, gz, svc, run, job>>

\* The maintainer scripts restart the service.
PmInstalls ==
  /\ Goes("pm", "verify") /\ bin' = sup.to /\ run' = sup.to /\ job' = NoJob /\ svc' = "on"
  /\ SupFrame /\ UNCHANGED <<bak, gz, marker, result>>

\* Mutant: any answer is the proof.
MutJudge == run \in Works

(* What an answer of b's proves to be in place.  A release is asked for by  *)
(* its commit, a package by its version without the package revision        *)
(* (pkgVersionCore), which every revision of the product answers with.      *)
Answers(b, to) ==
  IF channel = "asset" THEN b = to ELSE \E v \in Releases : {b, to} \subseteq v

\* judge: what answers is what was wanted.
Judge == run \in Works /\ Answers(run, sup.to)

Proven ==
  /\ Judge /\ Goes("verify", "squash") /\ marker' = None
  /\ SupFrame /\ UNCHANGED <<bin, bak, gz, result, svc, run, job>>

\* The window went by; a slow start is enough.
Refuted ==
  /\ Goes("verify", "undo") /\ marker' = None
  /\ SupFrame /\ UNCHANGED <<bin, bak, gz, result, svc, run, job>>

\* squash_if_tight: the copy is kept compressed where the flash is nearly full, and then goes.
Squashes ==
  /\ \/ Goes("squash", "squashed") /\ sup.rollback /\ bak \notin {None, bin} /\ gz' = bak /\ UNCHANGED bak
     \/ Goes("squashed", "prove") /\ bak' = None /\ UNCHANGED gz
  /\ SupFrame /\ UNCHANGED <<bin, marker, result, svc, run, job>>

Proves ==
  /\ sup.at \in {"squash", "prove"} /\ Ends("ok")
  /\ SupFrame /\ UNCHANGED <<bin, bak, gz, marker, svc, run, job>>

\* rollback: without a copy the new build stays; else the service is stopped first.
NoRollback ==
  /\ sup.at = "undo" /\ ~sup.rollback /\ Ends("failed") /\ torn' = torn \cup {"stays"}
  /\ Kept /\ UNCHANGED <<bin, bak, gz, marker, stale, svc, run, job>>

StopWait ==
  /\ sup.rollback /\ Goes("undo", "restore") /\ run' = None /\ job' = NoJob
  /\ svc' = IF svc = "on" THEN "off" ELSE svc
  /\ SupFrame /\ UNCHANGED flash

\* restore: the copy takes the binary's name in one rename.
Restore ==
  /\ bak # None /\ Goes("restore", "revive") /\ bin' = bak
  /\ SupFrame /\ UNCHANGED <<bak, gz, marker, result, svc, run, job>>

(* There is no copy, or the link, its mode, the sync or the rename failed:  *)
(* what is at the path is started again, to be restored by hand.            *)
CannotRestore ==
  /\ sup.at = "restore" /\ Ends("failed") /\ svc' = "on" /\ run' = bin
  /\ torn' = IF bak = None THEN torn ELSE torn \cup {"byhand"}
  /\ Kept /\ UNCHANGED <<bin, bak, gz, marker, stale, job>>

\* A restart, so that no instance of the failed build survives it.
Revives ==
  /\ Goes("revive", "told") /\ run' = bin /\ job' = NoJob /\ svc' = "on"
  /\ SupFrame /\ UNCHANGED flash

TellsRolledBack ==
  /\ sup.at = "told" /\ Ends("rolled_back")
  /\ SupFrame /\ UNCHANGED <<bin, bak, gz, marker, svc, run, job>>

\* Mutant: the boots are not counted.
MutBootAgain(boots) == "verify"

\* A second boot inside the window rolls back at once.
BootAgain(boots) == IF boots >= 2 THEN "undo" ELSE "verify"

BootPass ==
  /\ sup.at = "boot"
  /\ LET boots == marker.boots + 1
     IN /\ sup' = [sup EXCEPT !.at = BootAgain(boots)]
        /\ marker' = IF BootAgain(boots) = "undo" THEN None ELSE [marker EXCEPT !.boots = boots]
  /\ stale' = FALSE
  /\ Kept /\ UNCHANGED torn /\ UNCHANGED <<bin, bak, gz, result, svc, run, job>>

SupStep ==
  \/ Restarts \/ PmKeeps \/ PmFails \/ PmInstalls \/ Proven \/ Refuted \/ Squashes \/ Proves \/ NoRollback
  \/ StopWait \/ Restore \/ CannotRestore \/ Revives \/ TellsRolledBack \/ BootPass
-----------------------------------------------------------------------------
(* Around them                                                              *)

\* PendingStale went by, or the clock jumped over it.
Stale ==
  /\ marker # None /\ ~stale /\ job.at = "idle" /\ stale' = TRUE
  /\ UNCHANGED <<channel, flash, svc, run, job, sup, restartDue, powered, spent, torn>>

\* A crash of the daemon; with the update recorded and not handed over, nobody judges it until a boot.
DaemonDies ==
  /\ powered /\ run # None /\ Spend("deaths", MaxDeaths)
  /\ run' = None /\ job' = NoJob
  /\ torn' = IF job.at = "spawn" \/ (job.at = "swap" /\ job.judged) THEN torn \cup {"orphan"} ELSE torn
  /\ UNCHANGED <<channel, flash, stale, svc, sup, restartDue, powered>>

\* procd starts what is at the path.
Respawn ==
  /\ powered /\ svc = "on" /\ run = None /\ run' = bin
  /\ UNCHANGED <<channel, flash, stale, svc, job, sup, restartDue, powered, spent, torn>>

\* RAM is lost; a supervisor past its marker is resumed by nobody.
PowerCut ==
  /\ powered /\ Spend("cuts", MaxCuts) /\ powered' = FALSE
  /\ run' = None /\ job' = NoJob /\ sup' = NoSup /\ restartDue' = FALSE /\ svc' = "off"
  /\ torn' = IF sup.at # "idle" /\ marker = None THEN torn \cup {"cut"} ELSE torn
  /\ UNCHANGED <<channel, flash, stale>>

\* boot: the supervisor is detached if an update is pending, and the service starts beside it.
Boot ==
  /\ ~powered /\ powered' = TRUE /\ svc' = "starting"
  /\ sup' = Reads("boot")
  /\ UNCHANGED <<channel, flash, stale, run, job, restartDue, spent, torn>>

\* start_service, unless a restart of the supervisor's came first.
Starts ==
  /\ svc = "starting" /\ svc' = "on" /\ run' = bin
  /\ UNCHANGED <<channel, flash, stale, job, sup, restartDue, powered, spent, torn>>

Init ==
  /\ channel \in Channels /\ bin \in Works /\ run = bin
  /\ bak = None /\ gz = None /\ marker = None /\ stale = FALSE /\ result = None
  /\ svc = "on" /\ job = NoJob /\ sup = NoSup /\ restartDue = FALSE /\ powered = TRUE
  /\ spent = [what \in {"updates", "cuts", "deaths"} |-> 0] /\ torn = {}

Next ==
  \/ \E to \in Build, by \in {"user", "auto"}, judged \in BOOLEAN : Begins(to, by, judged)
  \/ JobStep \/ SupStep \/ Stale \/ DaemonDies \/ Respawn \/ PowerCut \/ Boot \/ Starts

Spec == Init /\ [][Next]_vars

(* The handler and the script run on while their process does, procd        *)
(* respawns, and a router that lost its power gets it back.                 *)
Fairness ==
  /\ WF_vars(JobStep) /\ WF_vars(SupStep)
  /\ WF_vars(Respawn) /\ WF_vars(Boot) /\ WF_vars(Starts)

FairSpec == Spec /\ Fairness
-----------------------------------------------------------------------------
\* Type correctness; a marker met by two boots is never left for a third.
TypeOK ==
  /\ channel \in Channels /\ bin \in Build /\ bak \in Build \cup {None} /\ gz \in Build \cup {None}
  /\ run \in Build \cup {None} /\ marker \in Marker \cup {None}
  /\ stale \in BOOLEAN /\ restartDue \in BOOLEAN /\ powered \in BOOLEAN
  /\ result \in Result \cup {None} /\ svc \in {"off", "starting", "on"}
  /\ job \in JobState /\ sup \in SupState /\ spent \in [{"updates", "cuts", "deaths"} -> Nat]
  /\ torn \subseteq {"blind", "orphan", "stays", "byhand", "cut"}

(* While an update can still be rolled back, what the rollback would leave  *)
(* at the path is a build that answers: no later update, compression of the *)
(* copy, crash or boot takes the good copy away or replaces it by the build *)
(* under judgement (updateInFlight).  A swap nobody judged is excepted: its *)
(* build is copied by the next update although it never proved itself.      *)
RollbackWorks ==
  LET pending == \/ marker # None /\ marker.rollback
                 \/ sup.at \in {"undo", "restore"} /\ sup.rollback
  IN pending /\ "blind" \notin torn => (IF bak = None THEN bin ELSE bak) \in Works

-----------------------------------------------------------------------------
(* What every step preserves.                                               *)

\* The handler and the supervisor are never both at work, and neither is without power;
\* the handler hands over by the marker, which the supervisor holds until it has judged.
HandOver ==
  /\ job.at # "idle" => sup.at = "idle" /\ powered /\ job.to \in Build
  /\ ~powered => job.at = "idle" /\ sup.at = "idle" /\ svc = "off"
  /\ job.at = "swap" => channel = "asset"
  /\ job.at # "idle" /\ channel # "asset" => job.judged
  /\ job.at = "spawn" \/ (job.at = "swap" /\ job.judged) => marker # None /\ marker.rollback = job.copied
  /\ sup.at # "idle" => sup.to \in Build
  /\ sup.at \in {"restart", "pm", "kept", "boot", "verify"} => marker # None /\ marker.rollback = sup.rollback
  /\ sup.at \in {"squash", "squashed", "prove", "undo", "restore", "revive", "told"} => marker = None

\* Unless a swap went unjudged, what runs is what is at the path but between a swap and the
\* restart after it, so an update copies a build that answers.
CopyWorks ==
  "blind" \notin torn =>
    /\ ~restartDue
    /\ \/ run \in {bin, None}
       \/ job.at = "spawn" /\ channel = "asset"
       \/ sup.at \in {"restart", "revive"}
    /\ svc = "starting" \/ ~powered => run = None
    /\ job.at # "idle" => run \in Works
    /\ job.copied => job.at # "idle" /\ bak \in Works
    /\ sup.at \in {"restart", "pm"} /\ sup.rollback => bak \in Works

UpdateInv == TypeOK /\ HandOver /\ CopyWorks /\ RollbackWorks
-----------------------------------------------------------------------------
\* The router runs a build that answers, nothing is pending, and the last result says what is
\* installed: of a package, the product's version (its revision is never compared).
Settled ==
  /\ powered /\ marker = None /\ sup.at = "idle" /\ job.at = "idle"
  /\ run = bin /\ bin \in Works
  /\ result # None => /\ result.what = "ok" => Answers(bin, result.to)
                      /\ result.what = "rolled_back" => bin # result.to

(* Every update ends, through power cuts, crashes of the daemon and builds  *)
(* that never answer, with a working build running and a truthful result    *)
(* (verify.sh and the init's boot), unless it was taken out of the          *)
(* supervisor's hands: swapped without one, the daemon dying before it was  *)
(* started, no copy to go back to, a copy that could not be put back, or    *)
(* power lost after the marker was dropped.                                 *)
Settles == []<>(Settled \/ torn # {})
=============================================================================
