--------------------------- MODULE UpdateTxProofs ---------------------------
(* Proofs about UpdateTx, for every set of builds and every bound.          *)
EXTENDS UpdateTx, TLAPS

\* The handler's and the supervisor's records as they are written.
LEMMA RecordTypes ==
  /\ NoJob \in JobState /\ NoSup \in SupState
  /\ \A j \in JobState, at \in {"gz", "record", "swap", "spawn"} :
       /\ [j EXCEPT !.at = at] \in JobState /\ [j EXCEPT !.at = at, !.copied = TRUE] \in JobState
  /\ \A p \in SupState, at \in {"kept", "verify", "squash", "squashed", "prove", "undo", "restore", "revive", "told"} :
       [p EXCEPT !.at = at] \in SupState
<1>1. NoJob \in JobState /\ NoSup \in SupState
  BY DEF NoJob, NoSup, JobState, SupState
<1>2. ASSUME NEW j \in JobState, NEW at \in {"gz", "record", "swap", "spawn"}
      PROVE  /\ [j EXCEPT !.at = at] \in JobState /\ [j EXCEPT !.at = at, !.copied = TRUE] \in JobState
  BY Zenon DEF JobState
<1>3. ASSUME NEW p \in SupState,
             NEW at \in {"kept", "verify", "squash", "squashed", "prove", "undo", "restore", "revive", "told"}
      PROVE  [p EXCEPT !.at = at] \in SupState
  BY Zenon DEF SupState
<1> QED
  BY <1>1, <1>2, <1>3

\* Whatever the marker says, the supervisor that reads it is well typed.
LEMMA ReadsType ==
  ASSUME marker \in Marker \cup {None}, NEW at \in {"restart", "pm", "boot"}
  PROVE  Reads(at) \in SupState
BY UpdateAssumption, RecordTypes DEF Reads, Marker, SupState

\* A bounded event is spent.
LEMMA SpendType ==
  ASSUME spent \in [{"updates", "cuts", "deaths"} -> Nat], NEW what \in {"updates", "cuts", "deaths"}, NEW bound, Spend(what, bound)
  PROVE  spent' \in [{"updates", "cuts", "deaths"} -> Nat]
BY DEF Spend

Handler == 
  \/ \E to \in Build, by \in {"user", "auto"}, judged \in BOOLEAN : Begins(to, by, judged)
  \/ JobStep

\* The handler's steps keep the types.
LEMMA JobType ==
  ASSUME UpdateInv, Handler
  PROVE  TypeOK'
<1> USE DEF TypeOK, JobFrame, flash
<1>t. TypeOK /\ HandOver
  BY DEF UpdateInv
<1>1. ASSUME NEW to \in Build, NEW by \in {"user", "auto"}, NEW judged \in BOOLEAN, Begins(to, by, judged)
      PROVE  TypeOK'
  <2>1. job' \in JobState
    BY <1>1 DEF Begins, JobState
  <2>2. spent' \in [{"updates", "cuts", "deaths"} -> Nat]
    BY <1>t, <1>1, SpendType DEF Begins
  <2> QED
    BY <1>t, <1>1, <2>1, <2>2 DEF Begins
<1>2. CASE GivesUp
  <2>1. job' \in JobState
    BY <1>2, RecordTypes, Zenon DEF GivesUp
  <2> QED
    BY <1>t, <1>2, <2>1 DEF GivesUp
<1>3. CASE Links
  <2>1. job' \in JobState
    BY <1>t, <1>3, RecordTypes, Zenon DEF Links
  <2> QED
    BY <1>t, <1>3, <2>1 DEF Links, LinkRollback
<1>4. CASE NoCopy
  <2>1. job' \in JobState
    BY <1>t, <1>4, RecordTypes, Zenon DEF NoCopy
  <2> QED
    BY <1>t, <1>4, <2>1 DEF NoCopy
<1>5. CASE DropsGz
  <2>1. job' \in JobState
    BY <1>t, <1>5, RecordTypes, Zenon DEF DropsGz
  <2> QED
    BY <1>t, <1>5, <2>1 DEF DropsGz
<1>6. CASE Records
  <2>1. job' \in JobState
    BY <1>t, <1>6, RecordTypes, Zenon DEF Records
  <2>2. marker' \in Marker \cup {None}
    <3>1. job.to \in Build /\ job.copied \in BOOLEAN /\ 0 \in 0..1
      BY <1>t, <1>6 DEF HandOver, Records, JobState
    <3> QED
      BY <1>t, <1>6, <3>1 DEF Records, Marker
  <2>3. stale' \in BOOLEAN
    BY <1>6 DEF Records
  <2> QED
    BY <1>t, <1>6, <2>1, <2>2, <2>3 DEF Records
<1>7. CASE Swaps
  <2>1. job' \in JobState
    BY <1>t, <1>7, RecordTypes, Zenon DEF Swaps
  <2>2. bin' \in Build
    BY <1>t, <1>7 DEF Swaps, HandOver
  <2> QED
    BY <1>t, <1>7, <2>1, <2>2 DEF Swaps
<1>8. CASE SwapFails
  <2>1. job' \in JobState
    BY <1>8, RecordTypes, Zenon DEF SwapFails
  <2> QED
    BY <1>t, <1>8, <2>1 DEF SwapFails
<1>9. CASE Spawns
  <2>1. job' \in JobState
    BY <1>9, RecordTypes, Zenon DEF Spawns
  <2>2. sup' \in SupState
    BY <1>t, <1>9, ReadsType DEF Spawns
  <2> QED
    BY <1>t, <1>9, <2>1, <2>2 DEF Spawns
<1>10. CASE SpawnFails
  <2>1. job' \in JobState
    BY <1>10, RecordTypes, Zenon DEF SpawnFails
  <2> QED
    BY <1>t, <1>10, <2>1 DEF SpawnFails
<1>11. CASE PlainRestart
  <2>1. job' \in JobState
    BY <1>t, <1>11, RecordTypes, Zenon DEF PlainRestart
  <2> QED
    BY <1>t, <1>11, <2>1 DEF PlainRestart
<1> QED
  BY <1>1, <1>2, <1>3, <1>4, <1>5, <1>6, <1>7, <1>8, <1>9, <1>10, <1>11 DEF Handler, JobStep

\* The supervisor's steps keep the types.
LEMMA SupType ==
  ASSUME UpdateInv, SupStep
  PROVE  TypeOK'
<1> USE DEF TypeOK, SupFrame, Kept, flash
<1>t. TypeOK /\ HandOver
  BY DEF UpdateInv
<1>s. ASSUME NEW what \in {"ok", "rolled_back", "failed"}, Ends(what), sup.at # "idle"
      PROVE  sup' \in SupState /\ result' \in Result
  BY <1>t, <1>s, RecordTypes DEF Ends, Says, Result, HandOver
<1>b. sup.at # "idle" => sup.to \in Build
  BY <1>t DEF HandOver
<1>j. NoJob \in JobState
  BY RecordTypes
<1>1. CASE Restarts
  <2>1. sup' \in SupState
    BY <1>t, <1>1, RecordTypes, Zenon DEF Restarts, Goes
  <2> QED
    BY <1>t, <1>j, <1>1, <2>1 DEF Restarts
<1>2. CASE PmKeeps
  <2>1. sup' \in SupState
    BY <1>t, <1>2, RecordTypes, Zenon DEF PmKeeps, Goes
  <2> QED
    BY <1>t, <1>2, <2>1 DEF PmKeeps
<1>3. CASE PmFails
  BY <1>t, <1>s, <1>3 DEF PmFails
<1>4. CASE PmInstalls
  <2>1. sup' \in SupState
    BY <1>t, <1>4, RecordTypes, Zenon DEF PmInstalls, Goes
  <2>2. sup.to \in Build
    BY <1>b, <1>4 DEF PmInstalls, Goes
  <2> QED
    BY <1>t, <1>j, <1>4, <2>1, <2>2 DEF PmInstalls
<1>5. CASE Proven \/ Refuted
  <2>1. sup' \in SupState
    BY <1>t, <1>5, RecordTypes, Zenon DEF Proven, Refuted, Goes
  <2> QED
    BY <1>t, <1>5, <2>1 DEF Proven, Refuted
<1>6. CASE Squashes
  <2>1. sup' \in SupState
    BY <1>t, <1>6, RecordTypes, Zenon DEF Squashes, Goes
  <2> QED
    BY <1>t, <1>6, <2>1 DEF Squashes
<1>7. CASE Proves
  BY <1>t, <1>s, <1>7 DEF Proves
<1>8. CASE NoRollback
  BY <1>t, <1>s, <1>8 DEF NoRollback
<1>9. CASE StopWait
  <2>1. sup' \in SupState
    BY <1>t, <1>9, RecordTypes, Zenon DEF StopWait, Goes
  <2> QED
    BY <1>t, <1>j, <1>9, <2>1 DEF StopWait
<1>10. CASE Restore
  <2>1. sup' \in SupState
    BY <1>t, <1>10, RecordTypes, Zenon DEF Restore, Goes
  <2> QED
    BY <1>t, <1>10, <2>1 DEF Restore
<1>11. CASE CannotRestore
  BY <1>t, <1>s, <1>11 DEF CannotRestore
<1>12. CASE Revives
  <2>1. sup' \in SupState
    BY <1>t, <1>12, RecordTypes, Zenon DEF Revives, Goes
  <2> QED
    BY <1>t, <1>j, <1>12, <2>1 DEF Revives
<1>13. CASE TellsRolledBack
  BY <1>t, <1>s, <1>13 DEF TellsRolledBack
<1>14. CASE BootPass
  <2>1. BootAgain(marker.boots + 1) \in {"undo", "verify"}
    BY DEF BootAgain
  <2>2. sup' \in SupState
    BY <1>t, <1>14, <2>1, RecordTypes, Zenon DEF BootPass
  <2>3. marker \in Marker
    BY <1>t, <1>14 DEF BootPass, HandOver
  <2>4. marker' \in Marker \cup {None}
    <3>1. CASE marker.boots + 1 >= 2
      BY <1>14, <3>1 DEF BootPass, BootAgain
    <3>2. CASE ~(marker.boots + 1 >= 2)
      <4>1. marker.boots + 1 \in 0..1
        BY <2>3, <3>2 DEF Marker
      <4>2. marker' = [marker EXCEPT !.boots = marker.boots + 1]
        BY <1>14, <3>2 DEF BootPass, BootAgain
      <4> QED
        BY <2>3, <4>1, <4>2, Zenon DEF Marker
    <3> QED
      BY <3>1, <3>2
  <2> QED
    BY <1>t, <1>14, <2>2, <2>4 DEF BootPass
<1> QED
  BY <1>1, <1>2, <1>3, <1>4, <1>5, <1>6, <1>7, <1>8, <1>9, <1>10, <1>11, <1>12, <1>13, <1>14 DEF SupStep

Around == Stale \/ DaemonDies \/ Respawn \/ PowerCut \/ Boot \/ Starts

\* So do crashes, power cuts and boots.
LEMMA AroundType ==
  ASSUME UpdateInv, Around
  PROVE  TypeOK'
<1> USE DEF TypeOK, flash
<1>t. TypeOK
  BY DEF UpdateInv
<1>j. NoJob \in JobState /\ NoSup \in SupState
  BY RecordTypes
<1>1. CASE Stale
  BY <1>t, <1>1 DEF Stale
<1>2. CASE DaemonDies
  <2>1. spent' \in [{"updates", "cuts", "deaths"} -> Nat]
    BY <1>t, <1>2, SpendType DEF DaemonDies
  <2> QED
    BY <1>t, <1>j, <1>2, <2>1 DEF DaemonDies
<1>3. CASE Respawn
  BY <1>t, <1>3 DEF Respawn
<1>4. CASE PowerCut
  <2>1. spent' \in [{"updates", "cuts", "deaths"} -> Nat]
    BY <1>t, <1>4, SpendType DEF PowerCut
  <2> QED
    BY <1>t, <1>j, <1>4, <2>1 DEF PowerCut
<1>5. CASE Boot
  <2>1. sup' \in SupState
    BY <1>t, <1>5, ReadsType DEF Boot
  <2> QED
    BY <1>t, <1>5, <2>1 DEF Boot
<1>6. CASE Starts
  BY <1>t, <1>6 DEF Starts
<1> QED
  BY <1>1, <1>2, <1>3, <1>4, <1>5, <1>6 DEF Around

\* The handler writes the marker before it swaps or spawns, and works alone.
LEMMA JobHandOver ==
  ASSUME UpdateInv, TypeOK', Handler
  PROVE  HandOver'
<1> USE UpdateAssumption DEF TypeOK, flash, JobState, SupState, NoJob, NoSup, Marker, JobFrame, HandOver
<1>t. TypeOK /\ HandOver /\ CopyWorks /\ RollbackWorks
  BY DEF UpdateInv
<1>1. ASSUME NEW to \in Build, NEW by \in {"user", "auto"}, NEW judged \in BOOLEAN, Begins(to, by, judged)
      PROVE  HandOver'
  BY <1>t, <1>1 DEF Begins, UpdateInFlight
<1>2. CASE GivesUp
  BY <1>t, <1>2 DEF GivesUp
<1>3. CASE Links
  BY <1>t, <1>3 DEF Links, LinkRollback
<1>4. CASE NoCopy
  BY <1>t, <1>4 DEF NoCopy
<1>5. CASE DropsGz
  BY <1>t, <1>5 DEF DropsGz
<1>6. CASE Records
  BY <1>t, <1>6 DEF Records
<1>7. CASE Swaps
  BY <1>t, <1>7 DEF Swaps
<1>8. CASE SwapFails
  BY <1>t, <1>8 DEF SwapFails
<1>9. CASE Spawns
  BY <1>t, <1>9 DEF Spawns, Reads
<1>10. CASE SpawnFails
  BY <1>t, <1>10 DEF SpawnFails
<1>11. CASE PlainRestart
  BY <1>t, <1>11 DEF PlainRestart
<1> QED
  BY <1>1, <1>2, <1>3, <1>4, <1>5, <1>6, <1>7, <1>8, <1>9, <1>10, <1>11 DEF Handler, JobStep

\* The supervisor drops the marker with its verdict, never before.
LEMMA SupHandOver ==
  ASSUME UpdateInv, TypeOK', SupStep
  PROVE  HandOver'
<1> USE UpdateAssumption DEF TypeOK, flash, JobState, SupState, NoJob, NoSup, Marker, SupFrame, Kept, Goes, Says, Ends, HandOver
<1>t. TypeOK /\ HandOver /\ CopyWorks /\ RollbackWorks
  BY DEF UpdateInv
<1>1. CASE Restarts
  BY <1>t, <1>1 DEF Restarts
<1>2. CASE PmKeeps
  BY <1>t, <1>2 DEF PmKeeps
<1>3. CASE PmFails
  BY <1>t, <1>3 DEF PmFails
<1>4. CASE PmInstalls
  BY <1>t, <1>4 DEF PmInstalls
<1>5. CASE Proven
  BY <1>t, <1>5 DEF Proven, Judge
<1>6. CASE Refuted
  BY <1>t, <1>6 DEF Refuted
<1>7. CASE Squashes
  BY <1>t, <1>7 DEF Squashes
<1>8. CASE Proves
  BY <1>t, <1>8 DEF Proves
<1>9. CASE NoRollback
  BY <1>t, <1>9 DEF NoRollback
<1>10. CASE StopWait
  BY <1>t, <1>10 DEF StopWait
<1>11. CASE Restore
  BY <1>t, <1>11 DEF Restore
<1>12. CASE CannotRestore
  BY <1>t, <1>12 DEF CannotRestore
<1>13. CASE Revives
  BY <1>t, <1>13 DEF Revives
<1>14. CASE TellsRolledBack
  BY <1>t, <1>14 DEF TellsRolledBack
<1>15. CASE BootPass
  BY <1>t, <1>15 DEF BootPass, BootAgain
<1> QED
  BY <1>1, <1>2, <1>3, <1>4, <1>5, <1>6, <1>7, <1>8, <1>9, <1>10, <1>11, <1>12, <1>13, <1>14, <1>15 DEF SupStep

\* A power cut ends both; a boot resumes the supervisor only from a marker.
LEMMA AroundHandOver ==
  ASSUME UpdateInv, TypeOK', Around
  PROVE  HandOver'
<1> USE UpdateAssumption DEF TypeOK, flash, JobState, SupState, NoJob, NoSup, Marker, HandOver
<1>t. TypeOK /\ HandOver /\ CopyWorks /\ RollbackWorks
  BY DEF UpdateInv
<1>1. CASE Stale
  BY <1>t, <1>1 DEF Stale
<1>2. CASE DaemonDies
  BY <1>t, <1>2 DEF DaemonDies
<1>3. CASE Respawn
  BY <1>t, <1>3 DEF Respawn
<1>4. CASE PowerCut
  BY <1>t, <1>4 DEF PowerCut
<1>5. CASE Boot
  BY <1>t, <1>5 DEF Boot, Reads
<1>6. CASE Starts
  BY <1>t, <1>6 DEF Starts
<1> QED
  BY <1>1, <1>2, <1>3, <1>4, <1>5, <1>6 DEF Around

\* The handler copies what runs, and what runs answered when it began.
LEMMA JobCopy ==
  ASSUME UpdateInv, TypeOK', Handler
  PROVE  CopyWorks'
<1> USE UpdateAssumption DEF TypeOK, flash, JobState, SupState, NoJob, NoSup, Marker, JobFrame, HandOver, CopyWorks
<1>t. TypeOK /\ HandOver /\ CopyWorks /\ RollbackWorks
  BY DEF UpdateInv
<1>1. ASSUME NEW to \in Build, NEW by \in {"user", "auto"}, NEW judged \in BOOLEAN, Begins(to, by, judged)
      PROVE  CopyWorks'
  BY <1>t, <1>1 DEF Begins, UpdateInFlight
<1>2. CASE GivesUp
  BY <1>t, <1>2 DEF GivesUp
<1>3. CASE Links
  BY <1>t, <1>3 DEF Links, LinkRollback
<1>4. CASE NoCopy
  BY <1>t, <1>4 DEF NoCopy
<1>5. CASE DropsGz
  BY <1>t, <1>5 DEF DropsGz
<1>6. CASE Records
  BY <1>t, <1>6 DEF Records
<1>7. CASE Swaps
  BY <1>t, <1>7 DEF Swaps
<1>8. CASE SwapFails
  BY <1>t, <1>8 DEF SwapFails
<1>9. CASE Spawns
  BY <1>t, <1>9 DEF Spawns, Reads
<1>10. CASE SpawnFails
  BY <1>t, <1>10 DEF SpawnFails
<1>11. CASE PlainRestart
  BY <1>t, <1>11 DEF PlainRestart
<1> QED
  BY <1>1, <1>2, <1>3, <1>4, <1>5, <1>6, <1>7, <1>8, <1>9, <1>10, <1>11 DEF Handler, JobStep

\* The supervisor leaves the service running what is at the path, but while it restores.
LEMMA SupCopy ==
  ASSUME UpdateInv, TypeOK', SupStep
  PROVE  CopyWorks'
<1> USE UpdateAssumption DEF TypeOK, flash, JobState, SupState, NoJob, NoSup, Marker, SupFrame, Kept, Goes, Says, Ends, HandOver, CopyWorks
<1>t. TypeOK /\ HandOver /\ CopyWorks /\ RollbackWorks
  BY DEF UpdateInv
<1>1. CASE Restarts
  BY <1>t, <1>1 DEF Restarts
<1>2. CASE PmKeeps
  BY <1>t, <1>2 DEF PmKeeps
<1>3. CASE PmFails
  BY <1>t, <1>3 DEF PmFails
<1>4. CASE PmInstalls
  BY <1>t, <1>4 DEF PmInstalls
<1>5. CASE Proven
  BY <1>t, <1>5 DEF Proven, Judge
<1>6. CASE Refuted
  BY <1>t, <1>6 DEF Refuted
<1>7. CASE Squashes
  BY <1>t, <1>7 DEF Squashes
<1>8. CASE Proves
  BY <1>t, <1>8 DEF Proves
<1>9. CASE NoRollback
  BY <1>t, <1>9 DEF NoRollback
<1>10. CASE StopWait
  BY <1>t, <1>10 DEF StopWait
<1>11. CASE Restore
  BY <1>t, <1>11 DEF Restore
<1>12. CASE CannotRestore
  BY <1>t, <1>12 DEF CannotRestore
<1>13. CASE Revives
  BY <1>t, <1>13 DEF Revives
<1>14. CASE TellsRolledBack
  BY <1>t, <1>14 DEF TellsRolledBack
<1>15. CASE BootPass
  BY <1>t, <1>15 DEF BootPass, BootAgain
<1> QED
  BY <1>1, <1>2, <1>3, <1>4, <1>5, <1>6, <1>7, <1>8, <1>9, <1>10, <1>11, <1>12, <1>13, <1>14, <1>15 DEF SupStep

\* A crash or a boot starts what is at the path.
LEMMA AroundCopy ==
  ASSUME UpdateInv, TypeOK', Around
  PROVE  CopyWorks'
<1> USE UpdateAssumption DEF TypeOK, flash, JobState, SupState, NoJob, NoSup, Marker, HandOver, CopyWorks
<1>t. TypeOK /\ HandOver /\ CopyWorks /\ RollbackWorks
  BY DEF UpdateInv
<1>1. CASE Stale
  BY <1>t, <1>1 DEF Stale
<1>2. CASE DaemonDies
  BY <1>t, <1>2 DEF DaemonDies
<1>3. CASE Respawn
  BY <1>t, <1>3 DEF Respawn
<1>4. CASE PowerCut
  BY <1>t, <1>4 DEF PowerCut
<1>5. CASE Boot
  BY <1>t, <1>5 DEF Boot, Reads
<1>6. CASE Starts
  BY <1>t, <1>6 DEF Starts
<1> QED
  BY <1>1, <1>2, <1>3, <1>4, <1>5, <1>6 DEF Around

\* No update takes the copy of one that can still be rolled back, unless it is a good one.
LEMMA JobRollback ==
  ASSUME UpdateInv, TypeOK', Handler
  PROVE  RollbackWorks'
<1> USE UpdateAssumption DEF TypeOK, flash, JobState, SupState, NoJob, NoSup, Marker, JobFrame, HandOver, CopyWorks, RollbackWorks
<1>t. TypeOK /\ HandOver /\ CopyWorks /\ RollbackWorks
  BY DEF UpdateInv
<1>1. ASSUME NEW to \in Build, NEW by \in {"user", "auto"}, NEW judged \in BOOLEAN, Begins(to, by, judged)
      PROVE  RollbackWorks'
  BY <1>t, <1>1 DEF Begins, UpdateInFlight
<1>2. CASE GivesUp
  BY <1>t, <1>2 DEF GivesUp
<1>3. CASE Links
  BY <1>t, <1>3 DEF Links, LinkRollback
<1>4. CASE NoCopy
  BY <1>t, <1>4 DEF NoCopy
<1>5. CASE DropsGz
  BY <1>t, <1>5 DEF DropsGz
<1>6. CASE Records
  BY <1>t, <1>6 DEF Records
<1>7. CASE Swaps
  BY <1>t, <1>7 DEF Swaps
<1>8. CASE SwapFails
  BY <1>t, <1>8 DEF SwapFails
<1>9. CASE Spawns
  BY <1>t, <1>9 DEF Spawns, Reads
<1>10. CASE SpawnFails
  BY <1>t, <1>10 DEF SpawnFails
<1>11. CASE PlainRestart
  BY <1>t, <1>11 DEF PlainRestart
<1> QED
  BY <1>1, <1>2, <1>3, <1>4, <1>5, <1>6, <1>7, <1>8, <1>9, <1>10, <1>11 DEF Handler, JobStep

\* Neither the package manager nor the judgement costs a pending update its copy.
LEMMA SupRollback ==
  ASSUME UpdateInv, TypeOK', SupStep
  PROVE  RollbackWorks'
<1> USE UpdateAssumption DEF TypeOK, flash, JobState, SupState, NoJob, NoSup, Marker, SupFrame, Kept, Goes, Says, Ends, HandOver, CopyWorks, RollbackWorks
<1>t. TypeOK /\ HandOver /\ CopyWorks /\ RollbackWorks
  BY DEF UpdateInv
<1>1. CASE Restarts
  BY <1>t, <1>1 DEF Restarts
<1>2. CASE PmKeeps
  BY <1>t, <1>2 DEF PmKeeps
<1>3. CASE PmFails
  BY <1>t, <1>3 DEF PmFails
<1>4. CASE PmInstalls
  BY <1>t, <1>4 DEF PmInstalls
<1>5. CASE Proven
  BY <1>t, <1>5 DEF Proven, Judge
<1>6. CASE Refuted
  BY <1>t, <1>6 DEF Refuted
<1>7. CASE Squashes
  BY <1>t, <1>7 DEF Squashes
<1>8. CASE Proves
  BY <1>t, <1>8 DEF Proves
<1>9. CASE NoRollback
  BY <1>t, <1>9 DEF NoRollback
<1>10. CASE StopWait
  BY <1>t, <1>10 DEF StopWait
<1>11. CASE Restore
  BY <1>t, <1>11 DEF Restore
<1>12. CASE CannotRestore
  BY <1>t, <1>12 DEF CannotRestore
<1>13. CASE Revives
  BY <1>t, <1>13 DEF Revives
<1>14. CASE TellsRolledBack
  BY <1>t, <1>14 DEF TellsRolledBack
<1>15. CASE BootPass
  BY <1>t, <1>15 DEF BootPass, BootAgain
<1> QED
  BY <1>1, <1>2, <1>3, <1>4, <1>5, <1>6, <1>7, <1>8, <1>9, <1>10, <1>11, <1>12, <1>13, <1>14, <1>15 DEF SupStep

\* Nothing outside the handler and the supervisor touches the copy.
LEMMA AroundRollback ==
  ASSUME UpdateInv, TypeOK', Around
  PROVE  RollbackWorks'
<1> USE UpdateAssumption DEF TypeOK, flash, JobState, SupState, NoJob, NoSup, Marker, HandOver, CopyWorks, RollbackWorks
<1>t. TypeOK /\ HandOver /\ CopyWorks /\ RollbackWorks
  BY DEF UpdateInv
<1>1. CASE Stale
  BY <1>t, <1>1 DEF Stale
<1>2. CASE DaemonDies
  BY <1>t, <1>2 DEF DaemonDies
<1>3. CASE Respawn
  BY <1>t, <1>3 DEF Respawn
<1>4. CASE PowerCut
  BY <1>t, <1>4 DEF PowerCut
<1>5. CASE Boot
  BY <1>t, <1>5 DEF Boot, Reads
<1>6. CASE Starts
  BY <1>t, <1>6 DEF Starts
<1> QED
  BY <1>1, <1>2, <1>3, <1>4, <1>5, <1>6 DEF Around

-----------------------------------------------------------------------------
\* UpdateInv holds of every behaviour, through any number of updates, power
\* cuts and deaths of the daemon.
THEOREM UpdateCorrect == Spec => []UpdateInv
<1>1. Init => UpdateInv
  <2> SUFFICES ASSUME Init PROVE UpdateInv
    OBVIOUS
  <2>1. TypeOK
    BY UpdateAssumption, RecordTypes DEF Init, TypeOK
  <2>2. HandOver /\ CopyWorks /\ RollbackWorks
    BY UpdateAssumption DEF Init, HandOver, CopyWorks, RollbackWorks, NoJob, NoSup
  <2> QED
    BY <2>1, <2>2 DEF UpdateInv
<1>2. UpdateInv /\ [Next]_vars => UpdateInv'
  <2> SUFFICES ASSUME UpdateInv, [Next]_vars PROVE UpdateInv'
    OBVIOUS
  <2>1. CASE Handler
    BY <2>1, JobType, JobHandOver, JobCopy, JobRollback DEF UpdateInv
  <2>2. CASE SupStep
    BY <2>2, SupType, SupHandOver, SupCopy, SupRollback DEF UpdateInv
  <2>3. CASE Around
    BY <2>3, AroundType, AroundHandOver, AroundCopy, AroundRollback DEF UpdateInv
  <2>4. CASE UNCHANGED vars
    BY <2>4 DEF vars, flash, UpdateInv, TypeOK, HandOver, CopyWorks, RollbackWorks
  <2> QED
    BY <2>1, <2>2, <2>3, <2>4 DEF Next, Handler, Around
<1> QED
  BY <1>1, <1>2, PTL DEF Spec

\* Type correctness of the transaction; in particular no marker is met by a
\* third boot (verify.sh's boot count).
THEOREM UpdateTypes == Spec => []TypeOK
<1>1. UpdateInv => TypeOK
  BY DEF UpdateInv
<1> QED
  BY <1>1, UpdateCorrect, PTL

\* While an update can still be rolled back, the rollback leaves a build that
\* answers at the path: no later update, package manager, compression, crash
\* or boot takes the good copy away (updateInFlight, linkRollback, verify.sh).
THEOREM RollbackAlwaysWorks == Spec => []RollbackWorks
<1>1. UpdateInv => RollbackWorks
  BY DEF UpdateInv
<1> QED
  BY <1>1, UpdateCorrect, PTL
=============================================================================
