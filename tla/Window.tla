------------------------------- MODULE Window -------------------------------
(* What the fail-safe windows of internal/failsafe promise, without clocks, *)
(* probes, presses or flags: every unsaved Apply opens a window; a window's *)
(* rollback is run by one at a time, restores the configuration at most     *)
(* once and is not run again after it did; only the window armed last can   *)
(* be restored or reboot the router, and not before a rollback was tried.   *)
EXTENDS Naturals

VARIABLES
  armed,     \* the window armed last, 0 before the first
  open,      \* it still guards an unsaved configuration
  running,   \* the windows whose rollback is running
  restored,  \* the windows whose configuration was put back
  tried,     \* the windows whose rollback was started
  rebooted   \* the windows that rebooted the router

vars == <<armed, open, running, restored, tried, rebooted>>

Init == armed = 0 /\ ~open /\ running = {} /\ restored = {} /\ tried = {} /\ rebooted = {}

(* A newer Apply: windows are numbered, not always without a gap.           *)
Arm ==
  /\ armed' > armed /\ open'
  /\ UNCHANGED <<running, restored, tried, rebooted>>

(* Kept, switched off, given up, or the connection is back.                 *)
Close ==
  /\ open /\ ~open'
  /\ UNCHANGED <<armed, running, restored, tried, rebooted>>

Start ==
  /\ armed > 0 /\ armed \notin running \cup restored
  /\ running' = running \cup {armed} /\ tried' = tried \cup {armed}
  /\ UNCHANGED <<armed, open, restored, rebooted>>

(* A rollback ends; it restores nothing once its window was replaced.       *)
Finish(w, ok) ==
  /\ w \in running /\ running' = running \ {w}
  /\ ok => w = armed
  /\ restored' = IF ok THEN restored \cup {w} ELSE restored
  /\ UNCHANGED <<armed, open, tried, rebooted>>

(* A failed Apply restored the configuration in the window's stead.         *)
RestoredElsewhere ==
  /\ armed > 0 /\ restored' = restored \cup {armed} /\ ~open'
  /\ UNCHANGED <<armed, running, tried, rebooted>>

Reboot ==
  /\ armed \in tried /\ ~open /\ rebooted' = rebooted \cup {armed}
  /\ UNCHANGED <<armed, open, running, restored, tried>>

Next ==
  \/ Arm \/ Close \/ Start \/ RestoredElsewhere \/ Reboot
  \/ \E w \in running, ok \in BOOLEAN : Finish(w, ok)

Spec == Init /\ [][Next]_vars
=============================================================================
