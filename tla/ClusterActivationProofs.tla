----------------------- MODULE ClusterActivationProofs -----------------------
(***************************************************************************)
(* Theorems about ClusterActivation, for every set of packages, every      *)
(* number of generated files and every number and kind of faults: what an  *)
(* activation reports is true of the host, and the pointer, the records    *)
(* and PGDATA change only after the proof they need.                       *)
(*                                                                         *)
(* The activation is sequential, so the invariant says at which label what *)
(* is known of the host; what it has to survive is that a kill or a reboot *)
(* may leave any of it behind for the activations to come.                 *)
(***************************************************************************)
EXTENDS ClusterActivation, TLAPS

-----------------------------------------------------------------------------
(* The labels of each phase.                                               *)

\* The predecessor is being proved again.
Adopting == {"resume", "resume_observe", "adopt_receipt", "adopt_stop",
             "adopt_start", "adopt_observe", "adopt_publish", "adopt_restore",
             "adopt_restore_stop", "adopt_restart", "adopt_restored", "upgrade"}

\* The candidate is selected and being proved.
Proving == {"start", "bootstrap", "observe", "restart_stop", "restart_start",
            "restart_observe", "commit"}

\* Everything from the first change to the commit.
Staging == Proving \cup {"install", "directories", "select", "unstage",
                         "staged", "initdb"}

\* The pointer has moved, the records are not written.
Committed == {"fields", "receipt"}

Undoing == {"undo_stop", "undo_files", "undo_runtime", "undo_start",
            "undo_observe"}
RecoverUndo == {"recover_stop", "recover_files", "recover_runtime"}
FreshOnly == {"fresh", "directories", "unstage", "staged", "initdb", "bootstrap",
              "fresh_stop", "fresh_clean", "fresh_remove"}

-----------------------------------------------------------------------------
(* The inductive invariant.                                                *)

\* The records of the host, at every label and after every crash: nothing has
\* a result before a first commit, a result has a receipt, and the unit never
\* executes a package that has a result and was superseded.  The last is why a
\* replay, which looks at everything except the pointer, is about the active
\* package.
RecordsFollow ==
  /\ active = None => results = {}
  /\ \A p \in results : receipts[p] # "none"
  /\ runtime \in results => runtime = active

\* The path that was dispatched is the one whose labels are passed.
PathFits ==
  /\ pc # "idle" => job.pkg \in Packages
  /\ pc \in Adopting \cup {"adopt"} => job.path = "adopt"
  /\ pc \in Undoing \cup {"up_stop"} => job.path = "upgrade"
  /\ pc \in RecoverUndo \cup {"recover"} => job.path = "recover"
  /\ pc \in FreshOnly => job.path = "fresh"
  /\ pc \in Staging \cup Committed => job.path \in {"upgrade", "recover", "fresh"}

\* Only a package without a result is staged.
PackageIsNew ==
  pc \in Staging \cup Committed \cup Adopting
           \cup {"adopt", "recover", "fresh", "up_stop"} =>
    job.pkg \notin results

InUpgrade == pc \in Staging \cup {"up_stop"} /\ job.path = "upgrade"
OnBareHost == job.path \in {"recover", "fresh"}
NoFiles == \A f \in Files : files[f] = None

\* An upgrade keeps the pointer on its predecessor until it commits.
Superseding ==
  /\ pc = "adopt" => active # None
  /\ pc \in Adopting \cup Undoing \/ InUpgrade => active = job.pred /\ active # None
  /\ pc \in Adopting => Selected(job.pred)
  /\ pc = "upgrade" \/ InUpgrade => receipts[job.pred] = "current"
  /\ pc \in {"undo_start", "undo_observe"} => runtime = job.pred
  /\ pc = "rolled_back" => Serves(job.pred)

\* A fresh activation and a recovery have no product to replace, and a fresh
\* one finds nothing but what it makes itself.
Founding ==
  /\ pc \in {"recover", "fresh", "fresh_clean"} => active = None
  /\ pc \in Staging /\ OnBareHost => active = None
  /\ pc \in RecoverUndo => results = {}
  /\ pc \in Committed /\ OnBareHost => results = {}
  /\ pc = "dispatch" /\ active = None /\ data # "cluster" => NoFiles
  /\ pc = "fresh" => NoFiles
  /\ pc \in Staging \cup Committed \cup {"fresh_stop", "fresh_clean"}
       /\ job.path = "fresh" =>
     /\ runtime \in {None, job.pkg}
     /\ \A f \in Files : files[f] \in {None, job.pkg}
  /\ pc \in {"install", "directories"} /\ job.path = "fresh" => data = "absent"
  /\ pc \in {"select", "staged", "initdb"} /\ job.path = "fresh" => data = "empty"
  /\ pc \in {"fresh_remove", "removed"} =>
     active = None /\ runtime = None /\ server = None /\ NoFiles
  /\ pc = "removed" => data = "absent"

\* What has been observed of the candidate.
Proven ==
  /\ pc \in Proving \cup Committed \cup {"staged", "initdb"} => runtime = job.pkg
  /\ pc = "commit" => Verified(job.pkg) /\ pid # job.pid1
  /\ pc \in Committed => job.committed
  /\ pc \in Committed \cup {"result"} => active = job.pkg
  /\ pc = "result" => receipts[job.pkg] # "none"
  /\ pc \in {"running", "verify", "activated"} => job.pkg \in results
  /\ pc = "activated" => Serves(job.pkg)

Phases == RecordsFollow /\ PathFits /\ PackageIsNew /\ Superseding /\ Founding /\ Proven

\* What the last activation reported stays true until the next begins.
Reported == SuccessIsCoherent /\ ProvenRollbackIsTrue

ActivationInv == TypeOK /\ Phases /\ Reported

-----------------------------------------------------------------------------
(* The local variables of an activation.                                   *)

LEMMA JobFlags ==
  ASSUME NEW j \in Jobs, NEW b \in BOOLEAN
  PROVE  /\ [j EXCEPT !.stopped = b] \in Jobs
         /\ [j EXCEPT !.started = b] \in Jobs
         /\ [j EXCEPT !.committed = b] \in Jobs
BY DEF Jobs

LEMMA JobFields ==
  ASSUME NEW j \in Jobs, NEW p \in Generations, NEW n \in Pids, NEW l \in Paths,
         NEW fs \in [Files -> Generations]
  PROVE  /\ [j EXCEPT !.pkg = p] \in Jobs
         /\ [j EXCEPT !.pred = p] \in Jobs
         /\ [j EXCEPT !.pid1 = n] \in Jobs
         /\ [j EXCEPT !.path = l] \in Jobs
         /\ [j EXCEPT !.path = l, !.backups = fs] \in Jobs
         /\ [j EXCEPT !.backups = fs, !.prevRuntime = p] \in Jobs
BY DEF Jobs

\* The path an activation takes.
LEMMA DispatchChoice ==
  ASSUME Dispatch
  PROVE  /\ job.pkg \in results => pc' = "running"
         /\ job.pkg \notin results /\ active # None => pc' = "adopt"
         /\ job.pkg \notin results /\ active = None /\ data = "cluster" => pc' = "recover"
         /\ job.pkg \notin results /\ active = None /\ data # "cluster" => pc' = "fresh"
BY DEF Dispatch

LEMMA NewJob ==
  ASSUME NEW p \in Generations
  PROVE  NoJob \in Jobs /\ [NoJob EXCEPT !.pkg = p] \in Jobs
<1>1. NoJob \in Jobs
  BY DEF NoJob, Jobs, Generations, Pids, Paths
<1>2. QED
  BY <1>1 DEF Jobs

-----------------------------------------------------------------------------
(* Type correctness.                                                       *)

\* The steps that neither begin nor end an activation.
Working ==
  \/ Dispatch \/ EnsureRunning \/ VerifyRunning
  \/ AdoptPreflight \/ ResumePredecessor \/ ResumeObserve \/ AdoptReceipt
  \/ AdoptStop \/ AdoptStart \/ AdoptObserve \/ AdoptPublish
  \/ AdoptRestore \/ AdoptRestoreStop \/ AdoptRestart \/ AdoptRestored
  \/ UpgradePreflight \/ StopPredecessor \/ RecoverPreflight \/ FreshPreflight
  \/ InstallFile \/ CreateDirectories \/ SelectRuntime \/ Unstage \/ WriteStaged
  \/ Initdb \/ StartCandidate \/ Bootstrap \/ ObserveCandidate
  \/ RestartStop \/ RestartStart \/ RestartObserve
  \/ Commit \/ LifecycleFields \/ WriteReceipt \/ WriteResult
  \/ UndoStop \/ RestoreFile \/ UndoRuntime \/ UndoStart \/ UndoObserve
  \/ FreshStop \/ FreshClean \/ FreshRemove \/ RecoverStop \/ RecoverRuntime

LEMMA WorkingTypes ==
  ASSUME TypeOK, Phases, Working
  PROVE  TypeOK' /\ pc' # "idle"
<1>0. /\ job.pkg \in Generations /\ job.pred \in Generations
      /\ job.prevRuntime \in Generations
      /\ job.backups \in [Files -> Generations]
      /\ job.started \in BOOLEAN
  BY DEF TypeOK, Jobs
<1> USE <1>0, NoneAssumption, BoundsAssumption
    DEF TypeOK, Generations, Paths, Labels, Endings, Pids,
        Check, Fault, StartCommand, StopCommand, Started, Stopped, Handler,
        StageHandler, host, process, records
<1>1. CASE Dispatch
  <2>1. pc' \in {"running", "adopt", "recover", "fresh"}
    BY <1>1 DEF Dispatch
  <2>2. job' \in Jobs
    <3>1. (IF pc' = "running" THEN "replay" ELSE pc') \in Paths
      BY <2>1
    <3>2. QED
      BY <1>1, <3>1, JobFields DEF Dispatch
  <2>3. QED
    BY <1>1, <2>1, <2>2 DEF Dispatch
<1>2. CASE EnsureRunning
  BY <1>2 DEF EnsureRunning
<1>3. CASE VerifyRunning
  BY <1>3 DEF VerifyRunning
<1>4. CASE AdoptPreflight
  <2>1. job' \in Jobs
    BY <1>4, JobFields DEF AdoptPreflight
  <2>2. QED
    BY <1>4, <2>1 DEF AdoptPreflight
<1>5. CASE ResumePredecessor
  BY <1>5 DEF ResumePredecessor
<1>6. CASE ResumeObserve
  BY <1>6 DEF ResumeObserve
<1>7. CASE AdoptReceipt
  <2>1. job' \in Jobs
    BY <1>7, JobFields DEF AdoptReceipt
  <2>2. QED
    BY <1>7, <2>1 DEF AdoptReceipt
<1>8. CASE AdoptStop
  BY <1>8 DEF AdoptStop
<1>9. CASE AdoptStart
  BY <1>9 DEF AdoptStart
<1>10. CASE AdoptObserve
  BY <1>10 DEF AdoptObserve
<1>11. CASE AdoptPublish
  <2>1. [receipts EXCEPT ![job.pred] = "current"]
          \in [Packages -> {"none", "old", "current"}]
    OBVIOUS
  <2>2. receipts' \in [Packages -> {"none", "old", "current"}]
    BY <1>11, <2>1 DEF AdoptPublish
  <2>3. QED
    BY <1>11, <2>2 DEF AdoptPublish
<1>12. CASE AdoptRestore
  BY <1>12 DEF AdoptRestore
<1>13. CASE AdoptRestoreStop
  BY <1>13 DEF AdoptRestoreStop
<1>14. CASE AdoptRestart
  BY <1>14 DEF AdoptRestart
<1>15. CASE AdoptRestored
  BY <1>15 DEF AdoptRestored
<1>16. CASE UpgradePreflight
  <2>1. job' \in Jobs
    BY <1>16, JobFields DEF UpgradePreflight
  <2>2. QED
    BY <1>16, <2>1 DEF UpgradePreflight
<1>17. CASE StopPredecessor
  <2>1. job' \in Jobs
    BY <1>17, JobFlags DEF StopPredecessor
  <2>2. QED
    BY <1>17, <2>1 DEF StopPredecessor
<1>18. CASE RecoverPreflight
  <2>1. job' \in Jobs
    BY <1>18, JobFields DEF RecoverPreflight
  <2>2. QED
    BY <1>18, <2>1 DEF RecoverPreflight
<1>19. CASE FreshPreflight
  BY <1>19 DEF FreshPreflight
<1>20. CASE InstallFile
  BY <1>20 DEF InstallFile
<1>21. CASE CreateDirectories
  BY <1>21 DEF CreateDirectories
<1>22. CASE SelectRuntime
  BY <1>22 DEF SelectRuntime
<1>23. CASE Unstage
  BY <1>23 DEF Unstage
<1>24. CASE WriteStaged
  BY <1>24 DEF WriteStaged
<1>25. CASE Initdb
  BY <1>25 DEF Initdb
<1>26. CASE StartCandidate
  <2>1. job' \in Jobs
    BY <1>26, JobFlags DEF StartCandidate
  <2>2. QED
    BY <1>26, <2>1 DEF StartCandidate
<1>27. CASE Bootstrap
  BY <1>27 DEF Bootstrap
<1>28. CASE ObserveCandidate
  <2>1. job' \in Jobs
    BY <1>28, JobFields DEF ObserveCandidate
  <2>2. QED
    BY <1>28, <2>1 DEF ObserveCandidate
<1>29. CASE RestartStop
  <2>1. job' \in Jobs
    BY <1>29, JobFlags DEF RestartStop
  <2>2. QED
    BY <1>29, <2>1 DEF RestartStop
<1>30. CASE RestartStart
  <2>1. job' \in Jobs
    BY <1>30, JobFlags DEF RestartStart
  <2>2. QED
    BY <1>30, <2>1 DEF RestartStart
<1>31. CASE RestartObserve
  BY <1>31 DEF RestartObserve
<1>32. CASE Commit
  <2>1. job' \in Jobs
    BY <1>32, JobFlags DEF Commit
  <2>2. QED
    BY <1>32, <2>1 DEF Commit
<1>33. CASE LifecycleFields
  BY <1>33 DEF LifecycleFields
<1>34. CASE WriteReceipt
  <2>1. [receipts EXCEPT ![job.pkg] = "current"]
          \in [Packages -> {"none", "old", "current"}]
    OBVIOUS
  <2>2. receipts' \in [Packages -> {"none", "old", "current"}]
    BY <1>34, <2>1 DEF WriteReceipt
  <2>3. QED
    BY <1>34, <2>2 DEF WriteReceipt
<1>35. CASE WriteResult
  <2>1. job.pkg \in Packages
    BY <1>35 DEF WriteResult, Phases, PathFits
  <2>2. results' \subseteq Packages
    BY <1>35, <2>1 DEF WriteResult
  <2>3. QED
    BY <1>35, <2>2 DEF WriteResult
<1>36. CASE UndoStop
  BY <1>36 DEF UndoStop
<1>37. CASE RestoreFile
  <2>1. files' \in [Files -> Generations]
    <3>1. \A f : f \in Files => job.backups[f] \in Generations
      BY <1>0
    <3>2. \A f : [files EXCEPT ![f] = job.backups[f]] \in [Files -> Generations]
      BY <3>1
    <3>3. QED
      BY <1>37, <3>2 DEF RestoreFile
  <2>2. QED
    BY <1>37, <2>1 DEF RestoreFile
<1>38. CASE UndoRuntime
  BY <1>38 DEF UndoRuntime
<1>39. CASE UndoStart
  BY <1>39 DEF UndoStart
<1>40. CASE UndoObserve
  BY <1>40 DEF UndoObserve
<1>41. CASE FreshStop
  BY <1>41 DEF FreshStop
<1>42. CASE FreshClean
  BY <1>42 DEF FreshClean
<1>43. CASE FreshRemove
  BY <1>43, ZenonT(60) DEF FreshRemove
<1>44. CASE RecoverStop
  BY <1>44 DEF RecoverStop
<1>45. CASE RecoverRuntime
  BY <1>45 DEF RecoverRuntime
<1>46. QED
  BY
     <1>1, <1>2, <1>3, <1>4, <1>5, <1>6, <1>7, <1>8, <1>9, <1>10, <1>11,
     <1>12, <1>13, <1>14, <1>15, <1>16, <1>17, <1>18, <1>19, <1>20, <1>21,
     <1>22, <1>23, <1>24, <1>25, <1>26, <1>27, <1>28, <1>29, <1>30, <1>31,
     <1>32, <1>33, <1>34, <1>35, <1>36, <1>37, <1>38, <1>39, <1>40, <1>41,
     <1>42, <1>43, <1>44, <1>45
     DEF Working

LEMMA WorkingPhases ==
  ASSUME TypeOK, Phases, Working
  PROVE  Phases'
<1> USE NoneAssumption, BoundsAssumption
    DEF TypeOK, Jobs, Generations,
        Phases, RecordsFollow, PathFits, PackageIsNew, Superseding, Founding,
        Proven, InUpgrade, OnBareHost, NoFiles, Adopting, Undoing,
        RecoverUndo, FreshOnly, Proving, Staging, Committed, Configured,
        Selected, Verified, Serves, Check, Fault, StartCommand, StopCommand,
        Started, Stopped, Handler, StageHandler, host, process, records
<1>1. CASE Dispatch
  <2>1. /\ job'.pkg = job.pkg
        /\ pc' # "running" => job'.path = pc'
    BY <1>1 DEF Dispatch
  <2>2. QED
    BY <1>1, <2>1, DispatchChoice DEF Dispatch
<1>2. CASE EnsureRunning
  BY <1>2 DEF EnsureRunning
<1>3. CASE VerifyRunning
  BY <1>3 DEF VerifyRunning
<1>4. CASE AdoptPreflight
  BY <1>4 DEF AdoptPreflight
<1>5. CASE ResumePredecessor
  BY <1>5 DEF ResumePredecessor
<1>6. CASE ResumeObserve
  BY <1>6 DEF ResumeObserve
<1>7. CASE AdoptReceipt
  BY <1>7 DEF AdoptReceipt
<1>8. CASE AdoptStop
  BY <1>8 DEF AdoptStop
<1>9. CASE AdoptStart
  BY <1>9 DEF AdoptStart
<1>10. CASE AdoptObserve
  BY <1>10 DEF AdoptObserve
<1>11. CASE AdoptPublish
  BY <1>11 DEF AdoptPublish
<1>12. CASE AdoptRestore
  BY <1>12 DEF AdoptRestore
<1>13. CASE AdoptRestoreStop
  BY <1>13 DEF AdoptRestoreStop
<1>14. CASE AdoptRestart
  BY <1>14 DEF AdoptRestart
<1>15. CASE AdoptRestored
  BY <1>15 DEF AdoptRestored
<1>16. CASE UpgradePreflight
  BY <1>16 DEF UpgradePreflight
<1>17. CASE StopPredecessor
  BY <1>17 DEF StopPredecessor
<1>18. CASE RecoverPreflight
  BY <1>18 DEF RecoverPreflight
<1>19. CASE FreshPreflight
  BY <1>19 DEF FreshPreflight
<1>20. CASE InstallFile
  BY <1>20 DEF InstallFile
<1>21. CASE CreateDirectories
  BY <1>21 DEF CreateDirectories
<1>22. CASE SelectRuntime
  BY <1>22 DEF SelectRuntime
<1>23. CASE Unstage
  BY <1>23 DEF Unstage
<1>24. CASE WriteStaged
  BY <1>24 DEF WriteStaged
<1>25. CASE Initdb
  BY <1>25 DEF Initdb
<1>26. CASE StartCandidate
  BY <1>26 DEF StartCandidate
<1>27. CASE Bootstrap
  BY <1>27 DEF Bootstrap
<1>28. CASE ObserveCandidate
  BY <1>28 DEF ObserveCandidate
<1>29. CASE RestartStop
  BY <1>29 DEF RestartStop
<1>30. CASE RestartStart
  BY <1>30 DEF RestartStart
<1>31. CASE RestartObserve
  BY <1>31 DEF RestartObserve
<1>32. CASE Commit
  BY <1>32, ZenonT(60) DEF Commit
<1>33. CASE LifecycleFields
  BY <1>33 DEF LifecycleFields
<1>34. CASE WriteReceipt
  BY <1>34 DEF WriteReceipt
<1>35. CASE WriteResult
  BY <1>35 DEF WriteResult
<1>36. CASE UndoStop
  BY <1>36 DEF UndoStop
<1>37. CASE RestoreFile
  BY <1>37 DEF RestoreFile
<1>38. CASE UndoRuntime
  BY <1>38 DEF UndoRuntime
<1>39. CASE UndoStart
  BY <1>39 DEF UndoStart
<1>40. CASE UndoObserve
  BY <1>40 DEF UndoObserve
<1>41. CASE FreshStop
  BY <1>41 DEF FreshStop
<1>42. CASE FreshClean
  BY <1>42 DEF FreshClean
<1>43. CASE FreshRemove
  BY <1>43 DEF FreshRemove
<1>44. CASE RecoverStop
  BY <1>44 DEF RecoverStop
<1>45. CASE RecoverRuntime
  BY <1>45 DEF RecoverRuntime
<1>46. QED
  BY
     <1>1, <1>2, <1>3, <1>4, <1>5, <1>6, <1>7, <1>8, <1>9, <1>10, <1>11,
     <1>12, <1>13, <1>14, <1>15, <1>16, <1>17, <1>18, <1>19, <1>20, <1>21,
     <1>22, <1>23, <1>24, <1>25, <1>26, <1>27, <1>28, <1>29, <1>30, <1>31,
     <1>32, <1>33, <1>34, <1>35, <1>36, <1>37, <1>38, <1>39, <1>40, <1>41,
     <1>42, <1>43, <1>44, <1>45
     DEF Working

-----------------------------------------------------------------------------
(* The beginning, the end and the faults of an activation.                 *)

\* Nothing but the records is known of the host between two activations.
Between == pc = "idle" /\ RecordsFollow

LEMMA IdlePhases == Between => Phases
BY DEF Between, Phases, PathFits, PackageIsNew, Superseding, Founding, Proven, InUpgrade,
       Adopting, Undoing, RecoverUndo, FreshOnly, Proving, Staging, Committed

LEMMA InitInv == Init => ActivationInv
<1> SUFFICES ASSUME Init PROVE ActivationInv
  OBVIOUS
<1>1. PICK kind \in Starts, p \in Packages :
        LET q == IF kind = "fresh" THEN None ELSE p
        IN  /\ active = q /\ runtime = q /\ server = q
            /\ files = [f \in Files |-> q]
            /\ data = IF kind = "fresh" THEN "absent" ELSE "cluster"
            /\ booted = (kind # "fresh")
            /\ receipts = [r \in Packages |->
                              IF r # q THEN "none"
                              ELSE IF kind = "current" THEN "current" ELSE "old"]
            /\ results = IF kind = "current" THEN {p} ELSE {}
  BY DEF Init
<1>2. pc = "idle" /\ outcome = NoOutcome
  BY DEF Init
<1>3. TypeOK
  <2>1. job \in Jobs
    BY NewJob DEF Init, Generations
  <2>2. /\ active \in Generations /\ runtime \in Generations
        /\ server \in Generations /\ files \in [Files -> Generations]
        /\ data \in {"absent", "cluster"} /\ results \subseteq Packages
    BY <1>1 DEF Generations
  <2>3. booted \in BOOLEAN
    BY <1>1
  <2>4. receipts \in [Packages -> {"none", "old", "current"}]
    BY <1>1
  <2>5. pid \in Pids /\ faults \in 0 .. MaxFaults
    BY BoundsAssumption DEF Init, Pids
  <2>6. /\ pc \in Labels \cup Endings
        /\ outcome \in [kind : Endings \cup {"none"}, pkg : Generations, pred : Generations]
    BY <1>2 DEF Labels, NoOutcome, Generations
  <2>7. QED
    BY <2>1, <2>2, <2>3, <2>4, <2>5, <2>6 DEF TypeOK
<1>4. RecordsFollow
  BY <1>1, NoneAssumption DEF RecordsFollow
<1>5. Reported
  BY <1>2 DEF Reported, SuccessIsCoherent, ProvenRollbackIsTrue, NoOutcome
<1>6. QED
  BY <1>2, <1>3, <1>4, <1>5, IdlePhases DEF ActivationInv, Between

LEMMA RecoveryStep ==
  ASSUME ActivationInv, NEW p \in Wanted, CandidateRecovery(p)
  PROVE  ActivationInv'
<1>0. p \in Packages
  BY WantedAssumption
<1>1. job' \in Jobs /\ job'.pkg = p
  <2>1. NoJob \in Jobs
    BY NewJob DEF Generations
  <2>2. [NoJob EXCEPT !.pkg = p].pkg = p
    BY <2>1 DEF Jobs
  <2>3. QED
    BY <1>0, <2>2, NewJob DEF CandidateRecovery, Generations
<1>2. pc' \in {"dispatch", "failed"} /\ faults' \in 0 .. MaxFaults
  BY BoundsAssumption DEF CandidateRecovery, Check, Fault, ActivationInv, TypeOK
<1>3. TypeOK'
  BY <1>1, <1>2
     DEF CandidateRecovery, ActivationInv, TypeOK, NoOutcome, Generations, Labels,
         Endings, process, records
<1>4. RecordsFollow'
  BY DEF CandidateRecovery, ActivationInv, Phases, RecordsFollow, records
<1>5. pc' = "dispatch" /\ active' = None /\ data' # "cluster" => NoFiles'
  BY DEF CandidateRecovery, Check, NoFiles, ActivationInv, TypeOK
<1>6. Phases'
  BY <1>0, <1>1, <1>2, <1>4, <1>5
     DEF Phases, PathFits, PackageIsNew, Superseding, Founding, Proven, InUpgrade,
         Adopting, Undoing, RecoverUndo, FreshOnly, Proving, Staging, Committed
<1>7. Reported'
  BY <1>2 DEF Reported, SuccessIsCoherent, ProvenRollbackIsTrue
<1>8. QED
  BY <1>3, <1>6, <1>7 DEF ActivationInv

\* What the activation ends with is what it has just observed.
LEMMA EndStep ==
  ASSUME ActivationInv, EndActivation
  PROVE  ActivationInv'
<1>1. TypeOK'
  <2>1. job' \in Jobs
    BY NewJob DEF EndActivation, Generations
  <2>2. outcome' \in [kind : Endings \cup {"none"}, pkg : Generations, pred : Generations]
    BY DEF EndActivation, ActivationInv, TypeOK, Jobs
  <2>3. QED
    BY <2>1, <2>2
       DEF EndActivation, ActivationInv, TypeOK, Labels, host, process, records
<1>2. Between'
  BY DEF Between, EndActivation, ActivationInv, Phases, RecordsFollow, host, records
<1>3. Phases'
  BY <1>2, IdlePhases, PTL
<1>4. SuccessIsCoherent'
  BY DEF EndActivation, SuccessIsCoherent, ActivationInv, Phases, RecordsFollow,
         Proven, Serves, Selected, Verified, Configured, host, process, records
<1>5. ProvenRollbackIsTrue'
  BY DEF EndActivation, ProvenRollbackIsTrue, ActivationInv, Phases, Superseding,
         Founding, NoFiles, Serves, Selected, Verified, Configured, host, process
<1>6. QED
  BY <1>1, <1>3, <1>4, <1>5 DEF ActivationInv, Reported

\* A kill or a reboot leaves the records, and a report of nothing.
LEMMA FaultStep ==
  ASSUME ActivationInv, Kill \/ Reboot
  PROVE  ActivationInv'
<1>1. TypeOK'
  <2>1. job' \in Jobs
    BY NewJob DEF Kill, Reboot, Generations
  <2>2. /\ faults' \in 0 .. MaxFaults
        /\ pid' \in Pids
    BY BoundsAssumption
       DEF Kill, Reboot, Fault, ActivationInv, TypeOK, Pids, process
  <2>3. QED
    BY <2>1, <2>2
       DEF Kill, Reboot, ActivationInv, TypeOK, NoOutcome, Generations, Labels,
           host, process, records
<1>2. Between' /\ outcome' = NoOutcome
  BY DEF Between, Kill, Reboot, ActivationInv, Phases, RecordsFollow, host, records
<1>3. Phases'
  BY <1>2, IdlePhases, PTL
<1>4. Reported'
  BY <1>2 DEF Reported, SuccessIsCoherent, ProvenRollbackIsTrue, NoOutcome
<1>5. QED
  BY <1>1, <1>3, <1>4 DEF ActivationInv

LEMMA ActivationStep == ActivationInv /\ [Next]_vars => ActivationInv'
<1> SUFFICES ASSUME ActivationInv, [Next]_vars PROVE ActivationInv'
  OBVIOUS
<1>1. CASE Working
  <2>1. TypeOK' /\ pc' # "idle" /\ Phases'
    BY <1>1, WorkingTypes, WorkingPhases DEF ActivationInv
  <2>2. Reported'
    BY <2>1 DEF Reported, SuccessIsCoherent, ProvenRollbackIsTrue
  <2>3. QED
    BY <2>1, <2>2 DEF ActivationInv
<1>2. CASE UNCHANGED vars
  BY <1>2
     DEF ActivationInv, TypeOK, Reported, SuccessIsCoherent, ProvenRollbackIsTrue,
         Phases, RecordsFollow, PathFits, PackageIsNew, Superseding, Founding,
         Proven, InUpgrade, OnBareHost, NoFiles, Serves, Selected, Verified,
         Configured, vars, host, process, records
<1>3. Progress => Working \/ EndActivation
  BY DEF Progress, Working
<1>4. QED
  BY <1>1, <1>2, <1>3, RecoveryStep, EndStep, FaultStep DEF Next

LEMMA ActivationInvariance == Spec => []ActivationInv
BY InitInv, ActivationStep, PTL DEF Spec

-----------------------------------------------------------------------------
(* What follows.                                                           *)

\* Every variable of the host, the records and the activation keeps its type.
THEOREM TypeCorrect == Spec => []TypeOK
<1>1. ActivationInv => TypeOK
  BY DEF ActivationInv
<1>2. QED
  BY <1>1, ActivationInvariance, PTL

\* The pointer /opt/laplace/current is moved by commit_plan alone.
LEMMA OnlyCommitMoves ==
  ASSUME ActivationInv, [Next]_vars, active' # active
  PROVE  Commit /\ active' = job.pkg
<1>1. CASE Commit
  BY <1>1 DEF Commit
<1>2. CASE Progress /\ ~Commit
  BY <1>2
     DEF Progress, Dispatch, EnsureRunning, VerifyRunning, EndActivation,
         AdoptPreflight, ResumePredecessor, ResumeObserve, AdoptReceipt,
         AdoptStop, AdoptStart, AdoptObserve, AdoptPublish, AdoptRestore,
         AdoptRestoreStop, AdoptRestart, AdoptRestored, UpgradePreflight,
         StopPredecessor, RecoverPreflight, FreshPreflight, InstallFile,
         CreateDirectories, SelectRuntime, Unstage, WriteStaged, Initdb,
         StartCandidate, Bootstrap, ObserveCandidate, RestartStop, RestartStart,
         RestartObserve, LifecycleFields, WriteReceipt, WriteResult, UndoStop,
         RestoreFile, UndoRuntime, UndoStart, UndoObserve, FreshStop, FreshClean,
         FreshRemove, RecoverStop, RecoverRuntime, host
<1>3. CASE (\E p \in Wanted : CandidateRecovery(p)) \/ Kill \/ Reboot
  BY <1>3 DEF CandidateRecovery, Kill, Reboot, host
<1>4. CASE UNCHANGED vars
  BY <1>4 DEF vars, host
<1>5. QED
  BY <1>1, <1>2, <1>3, <1>4 DEF Next, Progress

\* PGDATA stops being a cluster by the removal of a fresh candidate alone.
LEMMA OnlyRemovalRemoves ==
  ASSUME ActivationInv, [Next]_vars, data = "cluster", data' # "cluster"
  PROVE  FreshRemove
<1>1. CASE FreshRemove
  BY <1>1
<1>2. CASE CreateDirectories \/ Initdb \/ Unstage \/ Kill
             \/ \E p \in Wanted : CandidateRecovery(p)
  BY <1>2
     DEF CreateDirectories, Initdb, Unstage, Kill, CandidateRecovery,
         ActivationInv, Phases, PathFits, Founding, FreshOnly
<1>3. CASE Progress /\ ~(FreshRemove \/ CreateDirectories \/ Initdb \/ Unstage)
  BY <1>3
     DEF Progress, Dispatch, EnsureRunning, VerifyRunning, EndActivation,
         AdoptPreflight, ResumePredecessor, ResumeObserve, AdoptReceipt,
         AdoptStop, AdoptStart, AdoptObserve, AdoptPublish, AdoptRestore,
         AdoptRestoreStop, AdoptRestart, AdoptRestored, UpgradePreflight,
         StopPredecessor, RecoverPreflight, FreshPreflight, InstallFile,
         SelectRuntime, WriteStaged, StartCandidate, Bootstrap,
         ObserveCandidate, RestartStop, RestartStart, RestartObserve, Commit,
         LifecycleFields, WriteReceipt, WriteResult, UndoStop, RestoreFile,
         UndoRuntime, UndoStart, UndoObserve, FreshStop, FreshClean,
         RecoverStop, RecoverRuntime, host
<1>4. CASE Reboot \/ UNCHANGED vars
  BY <1>4 DEF Reboot, vars, host
<1>5. QED
  BY <1>1, <1>2, <1>3, <1>4 DEF Next

\* Whatever was left behind and whatever fails on the way: an activation that
\* returns success leaves one coherent generation (execute), a rollback that is
\* recorded as proven is one (upgrade_product, activate_product), the pointer
\* moves only over a candidate proven across a restart and away from a
\* receipted predecessor (commit_plan), and a cluster is removed only stopped
\* and uncommitted (_rollback_uncommitted_candidate).
THEOREM ActivationReportsAreTrue == Spec => ActivationIsTrue
<1> DEFINE True == /\ SuccessIsCoherent' /\ ProvenRollbackIsTrue'
                   /\ CommitIsProven /\ ClusterRemovedOnlyWhenStopped
<1>1. ASSUME ActivationInv, [Next]_vars PROVE CommitIsProven
  <2> SUFFICES ASSUME active' # active
               PROVE  /\ Selected(active') /\ Verified(active')
                      /\ pid # job.pid1
                      /\ active # None => receipts[active] = "current"
    BY DEF CommitIsProven
  <2>1. Commit /\ active' = job.pkg
    BY <1>1, OnlyCommitMoves
  <2>2. pc = "commit" /\ (job.path = "upgrade" => active = job.pred)
    BY <2>1 DEF Commit, Check, Handler
  <2>3. runtime = job.pkg /\ Verified(job.pkg) /\ pid # job.pid1
    BY <1>1, <2>2 DEF ActivationInv, Phases, Proven, Proving
  <2>4. active # None => receipts[active] = "current"
    BY <1>1, <2>2
       DEF ActivationInv, Phases, PathFits, Superseding, Founding, InUpgrade,
           OnBareHost, Staging, Proving
  <2>5. QED
    BY <2>1, <2>3, <2>4 DEF Selected, Verified
<1>2. ASSUME ActivationInv, [Next]_vars PROVE ClusterRemovedOnlyWhenStopped
  <2>1. FreshRemove => server = None /\ active = None
    BY <1>2 DEF FreshRemove, ActivationInv, Phases, Founding
  <2>2. QED
    BY <1>2, <2>1, OnlyRemovalRemoves DEF ClusterRemovedOnlyWhenStopped
<1>3. ActivationInv' => SuccessIsCoherent' /\ ProvenRollbackIsTrue'
  BY DEF ActivationInv, Reported
<1>4. ActivationInv /\ [Next]_vars => True
  BY <1>1, <1>2, <1>3, ActivationStep
<1>5. QED
  BY <1>4, ActivationInvariance, PTL DEF Spec, ActivationIsTrue
=============================================================================
