-------------------------- MODULE ClusterActivation --------------------------
(***************************************************************************)
(* How one package generation of the PostgreSQL product becomes the active *)
(* one: the recovery of empty candidate leaves, the dispatch between a     *)
(* replay, an upgrade of an active product, the recovery of a preserved    *)
(* cluster and a fresh activation, with the rollback of each.              *)
(*                                                                         *)
(* One activation runs at a time (tools/host/run-exclusive.sh).  One       *)
(* action is one command, one check or one file replacement; the tool may  *)
(* be killed between any two, a command may fail before its effect or      *)
(* after it (a timeout), and the host may reboot.  A generated file is     *)
(* identified by the package whose plan rendered it.                       *)
(***************************************************************************)
EXTENDS Naturals, FiniteSets

CONSTANTS
    Packages,       \* package generations
    None,           \* no package, no file
    NumFiles,       \* generated configuration files, replaced in plan order
    Wanted,         \* the packages that activations are requested for
    Starts,         \* kinds of host an execution starts from
    FaultKinds,     \* "before", "after", "crash", "reboot"
    MaxFaults       \* bound on faults in one execution

ASSUME NoneAssumption == None \notin Packages
ASSUME WantedAssumption == Wanted \subseteq Packages
ASSUME StartsAssumption == Starts \subseteq {"fresh", "historical", "current"}
ASSUME BoundsAssumption == NumFiles \in Nat \ {0} /\ MaxFaults \in Nat

VARIABLES
    active,     \* /opt/laplace/current
    runtime,    \* /opt/laplace/runtime/refactor, what the system unit executes
    files,      \* the generated configuration on disk
    server,     \* the package the running postmaster executes
    pid,        \* its postmaster
    data,       \* PGDATA and the directories created with it
    booted,     \* bootstrap.sql has run in the cluster
    receipts,   \* activation-complete.json of each package
    results,    \* packages with an activation-result.json
    pc,         \* where the activation is
    job,        \* its local variables
    outcome,    \* how the last activation ended
    faults      \* faults so far

host == <<active, runtime, files, data, booted>>
process == <<server, pid>>
records == <<receipts, results>>
vars == <<host, process, records, pc, job, outcome, faults>>

Files == 1 .. NumFiles
Generations == Packages \cup {None}
Pids == 0 .. 2    \* enough that a new postmaster differs from the last two

NoJob == [pkg |-> None, path |-> "none", pred |-> None,
          backups |-> [f \in Files |-> None], prevRuntime |-> None,
          stopped |-> FALSE, started |-> FALSE, committed |-> FALSE, pid1 |-> 0]

NoOutcome == [kind |-> "none", pkg |-> None, pred |-> None]

Paths == {"none", "replay", "adopt", "upgrade", "recover", "fresh"}

Labels == {"idle", "dispatch", "adopt", "resume", "resume_observe", "adopt_receipt",
           "adopt_stop", "adopt_start", "adopt_observe", "adopt_publish",
           "adopt_restore", "adopt_restore_stop", "adopt_restart", "adopt_restored",
           "upgrade", "up_stop", "recover", "fresh", "install", "directories",
           "select", "staged", "initdb", "start", "bootstrap", "observe",
           "restart_stop", "restart_start", "restart_observe", "commit", "fields",
           "receipt", "result", "running", "verify",
           "undo_stop", "undo_files", "undo_runtime", "undo_start", "undo_observe",
           "unstage", "fresh_stop", "fresh_clean", "fresh_remove",
           "recover_stop", "recover_files", "recover_runtime"}

\* How an activation can end; "rolled_back" and "removed" are the endings whose
\* record says that the rollback was proven.
Endings == {"activated", "failed", "undo_failed", "rolled_back", "removed"}

-----------------------------------------------------------------------------
(* What the tools observe of the host. *)

\* Every generated file on disk is the one of p's plan.
Configured(p) == \A f \in Files : files[f] = p

\* Owner.selection: the unit will execute p under p's configuration.
Selected(p) == runtime = p /\ Configured(p)

\* Owner.action refuses a postmaster of another package.
Commandable(p) == Selected(p) /\ server \in {None, p}

\* observe_loaded_live and verify_loaded.
Verified(p) == server = p /\ Configured(p) /\ booted

\* One fault of the environment.
Fault(kind) == kind \in FaultKinds /\ faults < MaxFaults /\ faults' = faults + 1

\* A check or a write that is atomic on the host: it may fail without effect.
Check(cond, next, fail) ==
    \/ cond /\ pc' = next /\ UNCHANGED faults
    \/ ~cond /\ pc' = fail /\ UNCHANGED faults
    \/ pc' = fail /\ Fault("before")

\* systemctl start: no effect on a postmaster that runs already.
Started(p) == /\ server' = p
              /\ pid' = IF server = None THEN (pid + 1) % 3 ELSE pid

\* systemctl stop.
Stopped == server' = None /\ UNCHANGED pid

\* execute_plan_command for start: refused, failed without or in spite of its
\* effect, or done.
StartCommand(p, next, fail) ==
    \/ /\ Commandable(p) /\ data = "cluster"
       /\ Started(p)
       /\ \/ pc' = next /\ UNCHANGED faults
          \/ pc' = fail /\ Fault("after")
    \/ /\ UNCHANGED process
       /\ pc' = fail
       /\ \/ ~(Commandable(p) /\ data = "cluster") /\ UNCHANGED faults
          \/ Fault("before")

\* execute_plan_command for stop, which also proves the postmaster gone.
StopCommand(p, next, fail) ==
    \/ /\ Commandable(p)
       /\ Stopped
       /\ \/ pc' = next /\ UNCHANGED faults
          \/ pc' = fail /\ Fault("after")
    \/ /\ UNCHANGED process
       /\ pc' = fail
       /\ \/ ~Commandable(p) /\ UNCHANGED faults
          \/ Fault("before")

\* Where an exception of the present step is handled.
Handler ==
    CASE job.path = "upgrade" /\ ~job.committed -> "undo_stop"
      [] job.path = "recover" -> "recover_stop"
      [] job.path = "fresh" -> "fresh_stop"
      [] OTHER -> "failed"

\* While a fresh candidate is staged apply_plan cleans up after itself.
StageHandler == IF job.path = "fresh" THEN "unstage" ELSE Handler

FirstOf(S) == CHOOSE f \in S : \A g \in S : f <= g

-----------------------------------------------------------------------------
(* The head of an activation. *)

\* cluster_candidate_recovery: without a product and without a cluster, empty
\* leaves are removed and anything else left of a candidate is refused.
CandidateRecovery(p) ==
    LET bare == active = None /\ data # "cluster"
        occupied == data = "partial" \/ \E f \in Files : files[f] # None
    IN  /\ pc = "idle"
        /\ Check(~(bare /\ occupied), "dispatch", "failed")
        /\ data' = IF pc' = "dispatch" /\ data = "empty" THEN "absent" ELSE data
        /\ job' = [NoJob EXCEPT !.pkg = p]
        /\ outcome' = NoOutcome
        /\ UNCHANGED <<active, runtime, files, booted, process, records>>

\* execute and reconcile_cluster_activation choose the path.
Dispatch ==
    /\ pc = "dispatch"
    /\ pc' = IF job.pkg \in results THEN "running"
             ELSE IF active # None THEN "adopt"
             ELSE IF data = "cluster" THEN "recover"
             ELSE "fresh"
    /\ job' = [job EXCEPT !.path = IF pc' = "running" THEN "replay" ELSE pc']
    /\ UNCHANGED <<host, process, records, outcome, faults>>

\* ensure_cluster_running: start the product if it is stopped, ...
EnsureRunning ==
    /\ pc = "running"
    /\ IF server = None
       THEN StartCommand(job.pkg, "verify", "failed")
       ELSE pc' = "verify" /\ UNCHANGED <<process, faults>>
    /\ UNCHANGED <<host, records, job, outcome>>

\* Fault: a postmaster that answers is taken for the requested package.
VerifyAnswering ==
    /\ pc = "verify"
    /\ Check(server # None, "activated", "failed")
    /\ UNCHANGED <<host, process, records, job, outcome>>

\* ... then observe it.
VerifyRunning ==
    /\ pc = "verify"
    /\ Check(Verified(job.pkg) /\ Selected(job.pkg), "activated", "failed")
    /\ UNCHANGED <<host, process, records, job, outcome>>

\* The activation returns or raises.
EndActivation ==
    /\ pc \in Endings
    /\ pc' = "idle"
    /\ job' = NoJob
    /\ outcome' = [kind |-> pc, pkg |-> job.pkg, pred |-> job.pred]
    /\ UNCHANGED <<host, process, records, faults>>

-----------------------------------------------------------------------------
(* ensure_current_predecessor_receipt: before an upgrade the active package *)
(* must have a receipt, and one of an older shape is proved again.          *)

AdoptPreflight ==
    /\ pc = "adopt"
    /\ Check(receipts[active] # "none" /\ Selected(active),
             IF server = None THEN "resume" ELSE "adopt_receipt", "failed")
    /\ job' = [job EXCEPT !.pred = active]
    /\ UNCHANGED <<host, process, records, outcome>>

ResumePredecessor ==
    /\ pc = "resume"
    /\ StartCommand(job.pred, "resume_observe", "failed")
    /\ UNCHANGED <<host, records, job, outcome>>

ResumeObserve ==
    /\ pc = "resume_observe"
    /\ Check(Verified(job.pred), "adopt_receipt", "failed")
    /\ UNCHANGED <<host, process, records, job, outcome>>

\* A current receipt needs no new proof.
AdoptReceipt ==
    /\ pc = "adopt_receipt"
    /\ IF receipts[job.pred] = "current"
       THEN pc' = "upgrade" /\ UNCHANGED faults
       ELSE Check(Verified(job.pred), "adopt_stop", "failed")
    /\ job' = [job EXCEPT !.pid1 = pid]
    /\ UNCHANGED <<host, process, records, outcome>>

AdoptStop ==
    /\ pc = "adopt_stop"
    /\ StopCommand(job.pred, "adopt_start", "adopt_restore")
    /\ UNCHANGED <<host, records, job, outcome>>

AdoptStart ==
    /\ pc = "adopt_start"
    /\ StartCommand(job.pred, "adopt_observe", "adopt_restore")
    /\ UNCHANGED <<host, records, job, outcome>>

AdoptObserve ==
    /\ pc = "adopt_observe"
    /\ Check(Verified(job.pred) /\ pid # job.pid1, "adopt_publish", "adopt_restore")
    /\ UNCHANGED <<host, process, records, job, outcome>>

AdoptPublish ==
    /\ pc = "adopt_publish"
    /\ Check(TRUE, "upgrade", "failed")
    /\ receipts' = IF pc' = "upgrade"
                   THEN [receipts EXCEPT ![job.pred] = "current"] ELSE receipts
    /\ UNCHANGED <<host, process, results, job, outcome>>

\* _restore_predecessor_after_failure: one stop and start unless the
\* predecessor is live; a failed stop is ignored, a postmaster that is left is
\* not.
AdoptRestore ==
    /\ pc = "adopt_restore"
    /\ Check(Verified(job.pred), "rolled_back", "adopt_restore_stop")
    /\ UNCHANGED <<host, process, records, job, outcome>>

AdoptRestoreStop ==
    /\ pc = "adopt_restore_stop"
    /\ StopCommand(job.pred, "adopt_restart", "adopt_restart")
    /\ UNCHANGED <<host, records, job, outcome>>

AdoptRestart ==
    /\ pc = "adopt_restart"
    /\ IF server = None
       THEN StartCommand(job.pred, "adopt_restored", "undo_failed")
       ELSE pc' = "undo_failed" /\ UNCHANGED <<process, faults>>
    /\ UNCHANGED <<host, records, job, outcome>>

AdoptRestored ==
    /\ pc = "adopt_restored"
    /\ Check(Verified(job.pred), "rolled_back", "undo_failed")
    /\ UNCHANGED <<host, process, records, job, outcome>>

-----------------------------------------------------------------------------
(* What precedes the first change on each path. *)

\* upgrade_product: the same package is only observed again; a predecessor must
\* be live under its own plan before anything changes.
UpgradePreflight ==
    /\ pc = "upgrade"
    /\ IF job.pred = job.pkg
       THEN Check(runtime = job.pkg /\ Verified(job.pkg), "result", "failed")
       ELSE Check(runtime = job.pred /\ Verified(job.pred), "up_stop", "failed")
    /\ job' = [job EXCEPT !.path = "upgrade", !.backups = files]
    /\ UNCHANGED <<host, process, records, outcome>>

\* The predecessor counts as stopped only once the command has returned.
StopPredecessor ==
    /\ pc = "up_stop"
    /\ StopCommand(job.pred, "install", Handler)
    /\ job' = [job EXCEPT !.stopped = pc' = "install"]
    /\ UNCHANGED <<host, records, outcome>>

\* recover_preserved_cluster: no process may be left of an unselected cluster.
RecoverPreflight ==
    /\ pc = "recover"
    /\ Check(server = None, "install", "failed")
    /\ job' = [job EXCEPT !.backups = files, !.prevRuntime = runtime]
    /\ UNCHANGED <<host, process, records, outcome>>

\* activate_product and apply_plan refuse whatever exists already.
FreshPreflight ==
    /\ pc = "fresh"
    /\ Check(data = "absent" /\ runtime = None /\ server = None, "install", "failed")
    /\ UNCHANGED <<host, process, records, job, outcome>>

-----------------------------------------------------------------------------
(* Staging. *)

\* _install_generated_files and apply_plan: one file after the other.
InstallFile ==
    LET pending == {f \in Files : files[f] # job.pkg}
    IN  /\ pc = "install"
        /\ \/ /\ pending = {}
              /\ pc' = IF job.path = "fresh" THEN "directories" ELSE "select"
              /\ UNCHANGED <<files, faults>>
           \/ /\ pending # {}
              /\ Check(TRUE, "install", StageHandler)
              /\ files' = IF pc' = "install"
                          THEN [files EXCEPT ![FirstOf(pending)] = job.pkg] ELSE files
        /\ UNCHANGED <<active, runtime, data, booted, process, records, job, outcome>>

CreateDirectories ==
    /\ pc = "directories"
    /\ Check(TRUE, "select", "unstage")
    /\ data' = IF pc' = "select" THEN "empty" ELSE data
    /\ UNCHANGED <<active, runtime, files, booted, process, records, job, outcome>>

\* _replace_runtime: the unit will execute the candidate.
SelectRuntime ==
    LET next == IF job.path = "fresh" THEN "staged" ELSE "start"
    IN  /\ pc = "select"
        /\ Check(TRUE, next, StageHandler)
        /\ runtime' = IF pc' = next THEN job.pkg ELSE runtime
        /\ UNCHANGED <<active, files, data, booted, process, records, job, outcome>>

\* apply_plan removes what it has installed.
Unstage ==
    /\ pc = "unstage"
    /\ pc' = "failed"
    /\ runtime' = IF runtime = job.pkg THEN None ELSE runtime
    /\ files' = [f \in Files |-> IF files[f] = job.pkg THEN None ELSE files[f]]
    /\ data' = IF data = "empty" THEN "absent" ELSE data
    /\ UNCHANGED <<active, booted, process, records, job, outcome, faults>>

\* activation-staged.json is written before the try block.
WriteStaged ==
    /\ pc = "staged"
    /\ Check(TRUE, "initdb", "failed")
    /\ UNCHANGED <<host, process, records, job, outcome>>

-----------------------------------------------------------------------------
(* The proof of a candidate and its commit: execute_cluster_activation, and   *)
(* the same steps in upgrade_product.                                         *)

Initdb ==
    /\ pc = "initdb"
    /\ Check(TRUE, "start", Handler)
    /\ data' = IF pc' = "start" THEN "cluster" ELSE data
    /\ UNCHANGED <<active, runtime, files, booted, process, records, job, outcome>>

StartCandidate ==
    LET next == IF job.path = "fresh" THEN "bootstrap" ELSE "observe"
    IN  /\ pc = "start"
        /\ StartCommand(job.pkg, next, Handler)
        /\ job' = [job EXCEPT !.started = pc' = next]
        /\ UNCHANGED <<host, records, outcome>>

Bootstrap ==
    /\ pc = "bootstrap"
    /\ Check(TRUE, "observe", Handler)
    /\ booted' = (pc' = "observe")
    /\ UNCHANGED <<active, runtime, files, data, process, records, job, outcome>>

ObserveCandidate ==
    /\ pc = "observe"
    /\ Check(Verified(job.pkg), "restart_stop", Handler)
    /\ job' = [job EXCEPT !.pid1 = pid]
    /\ UNCHANGED <<host, process, records, outcome>>

RestartStop ==
    /\ pc = "restart_stop"
    /\ StopCommand(job.pkg, "restart_start", Handler)
    /\ job' = [job EXCEPT !.started = job.started /\ pc' # "restart_start"]
    /\ UNCHANGED <<host, records, outcome>>

RestartStart ==
    /\ pc = "restart_start"
    /\ StartCommand(job.pkg, "restart_observe", Handler)
    /\ job' = [job EXCEPT !.started = pc' = "restart_observe"]
    /\ UNCHANGED <<host, records, outcome>>

RestartObserve ==
    /\ pc = "restart_observe"
    /\ Check(Verified(job.pkg) /\ pid # job.pid1, "commit", Handler)
    /\ UNCHANGED <<host, process, records, job, outcome>>

\* commit_plan: one rename of /opt/laplace/current.
Commit ==
    /\ pc = "commit"
    /\ Check(job.path = "upgrade" => active = job.pred, "fields", Handler)
    /\ active' = IF pc' = "fields" THEN job.pkg ELSE active
    /\ job' = [job EXCEPT !.committed = pc' = "fields"]
    /\ UNCHANGED <<runtime, files, data, booted, process, records, outcome>>

\* lifecycle_result_fields observes the system unit after the commit.
LifecycleFields ==
    /\ pc = "fields"
    /\ Check(Selected(job.pkg) /\ server = job.pkg, "receipt", Handler)
    /\ UNCHANGED <<host, process, records, job, outcome>>

\* activation-complete.json; activate_product writes it outside its try block.
WriteReceipt ==
    /\ pc = "receipt"
    /\ Check(TRUE, "result", IF job.path = "fresh" THEN "failed" ELSE Handler)
    /\ receipts' = IF pc' = "result"
                   THEN [receipts EXCEPT ![job.pkg] = "current"] ELSE receipts
    /\ UNCHANGED <<host, process, results, job, outcome>>

\* activation-result.json, the record a replay goes by.
WriteResult ==
    /\ pc = "result"
    /\ Check(TRUE, "running", "failed")
    /\ results' = IF pc' = "running" THEN results \cup {job.pkg} ELSE results
    /\ UNCHANGED <<host, process, receipts, job, outcome>>

-----------------------------------------------------------------------------
(* Rollback of an upgrade. *)

\* The successor is stopped only if its start has returned.
UndoStop ==
    /\ pc = "undo_stop"
    /\ IF job.started
       THEN StopCommand(job.pkg, "undo_files", "undo_failed")
       ELSE pc' = "undo_files" /\ UNCHANGED <<process, faults>>
    /\ UNCHANGED <<host, records, job, outcome>>

\* _restore_generated_files, here and after a failed recovery.
RestoreFile ==
    LET changed == {f \in Files : files[f] # job.backups[f]}
    IN  /\ pc \in {"undo_files", "recover_files"}
        /\ \/ /\ changed = {}
              /\ pc' = IF pc = "undo_files" THEN "undo_runtime" ELSE "recover_runtime"
              /\ UNCHANGED <<files, faults>>
           \/ /\ changed # {}
              /\ Check(TRUE, pc, "undo_failed")
              /\ files' = IF pc' = pc
                          THEN LET f == FirstOf(changed)
                               IN  [files EXCEPT ![f] = job.backups[f]]
                          ELSE files
        /\ UNCHANGED <<active, runtime, data, booted, process, records, job, outcome>>

UndoRuntime ==
    /\ pc = "undo_runtime"
    /\ Check(TRUE, "undo_start", "undo_failed")
    /\ runtime' = IF pc' = "undo_start" THEN job.pred ELSE runtime
    /\ UNCHANGED <<active, files, data, booted, process, records, job, outcome>>

UndoStart ==
    /\ pc = "undo_start"
    /\ IF job.stopped
       THEN StartCommand(job.pred, "undo_observe", "undo_failed")
       ELSE pc' = "undo_observe" /\ UNCHANGED <<process, faults>>
    /\ UNCHANGED <<host, records, job, outcome>>

UndoObserve ==
    /\ pc = "undo_observe"
    /\ Check(Verified(job.pred) /\ active = job.pred, "rolled_back", "undo_failed")
    /\ UNCHANGED <<host, process, records, job, outcome>>

-----------------------------------------------------------------------------
(* Rollback of a fresh candidate: _rollback_uncommitted_candidate. *)

\* Refused under a committed product; a failed stop is ignored.
FreshStop ==
    /\ pc = "fresh_stop"
    /\ IF active = None /\ data = "cluster"
       THEN StopCommand(job.pkg, "fresh_clean", "fresh_clean")
       ELSE /\ pc' = IF active = None THEN "fresh_clean" ELSE "undo_failed"
            /\ UNCHANGED <<process, faults>>
    /\ UNCHANGED <<host, records, job, outcome>>

\* _stopped_live is the authority for removing anything.
FreshClean ==
    /\ pc = "fresh_clean"
    /\ IF server = None
       THEN /\ pc' = "fresh_remove"
            /\ runtime' = IF runtime = job.pkg THEN None ELSE runtime
            /\ files' = [f \in Files |-> IF files[f] = job.pkg THEN None ELSE files[f]]
       ELSE pc' = "undo_failed" /\ UNCHANGED <<runtime, files>>
    /\ UNCHANGED <<active, data, booted, process, records, job, outcome, faults>>

FreshRemove ==
    /\ pc = "fresh_remove"
    /\ pc' = "removed"
    /\ data' = "absent"
    /\ booted' = FALSE
    /\ UNCHANGED <<active, runtime, files, process, records, job, outcome, faults>>

-----------------------------------------------------------------------------
(* Rollback of a recovered cluster; it does not ask whether it was committed. *)

RecoverStop ==
    /\ pc = "recover_stop"
    /\ IF runtime = job.pkg /\ server # None
       THEN StopCommand(job.pkg, "recover_files", "undo_failed")
       ELSE pc' = "recover_files" /\ UNCHANGED <<process, faults>>
    /\ UNCHANGED <<host, records, job, outcome>>

RecoverRuntime ==
    /\ pc = "recover_runtime"
    /\ Check(TRUE, "failed", "undo_failed")
    /\ runtime' = IF pc' = "failed" /\ runtime = job.pkg THEN job.prevRuntime ELSE runtime
    /\ UNCHANGED <<active, files, data, booted, process, records, job, outcome>>

-----------------------------------------------------------------------------
(* The environment. *)

\* The tool is killed.  An initdb that is cut leaves an incomplete PGDATA.
Kill ==
    /\ pc # "idle"
    /\ Fault("crash")
    /\ pc' = "idle"
    /\ job' = NoJob
    /\ outcome' = NoOutcome
    /\ data' \in {data} \cup (IF pc = "initdb" THEN {"partial"} ELSE {})
    /\ UNCHANGED <<active, runtime, files, booted, process, records>>

\* The host reboots; the enabled unit starts whatever the runtime link names.
Reboot ==
    /\ Fault("reboot")
    /\ pc' = "idle"
    /\ job' = NoJob
    /\ outcome' = NoOutcome
    /\ server' = IF data = "cluster" THEN runtime ELSE None
    /\ pid' = (pid + 1) % 3
    /\ UNCHANGED <<host, records>>

-----------------------------------------------------------------------------

\* A bare host, or one with a product p whose receipt is current or older.
Init ==
    /\ \E kind \in Starts, p \in Packages :
          LET q == IF kind = "fresh" THEN None ELSE p
          IN  /\ active = q
              /\ runtime = q
              /\ files = [f \in Files |-> q]
              /\ server = q
              /\ data = IF kind = "fresh" THEN "absent" ELSE "cluster"
              /\ booted = (kind # "fresh")
              /\ receipts = [r \in Packages |->
                                IF r # q THEN "none"
                                ELSE IF kind = "current" THEN "current" ELSE "old"]
              /\ results = IF kind = "current" THEN {p} ELSE {}
    /\ pid = 0
    /\ pc = "idle"
    /\ job = NoJob
    /\ outcome = NoOutcome
    /\ faults = 0

\* The steps of an activation once it is requested.
Progress ==
    \/ Dispatch \/ EnsureRunning \/ VerifyRunning \/ EndActivation
    \/ AdoptPreflight \/ ResumePredecessor \/ ResumeObserve \/ AdoptReceipt
    \/ AdoptStop \/ AdoptStart \/ AdoptObserve \/ AdoptPublish
    \/ AdoptRestore \/ AdoptRestoreStop \/ AdoptRestart \/ AdoptRestored
    \/ UpgradePreflight \/ StopPredecessor \/ RecoverPreflight \/ FreshPreflight
    \/ InstallFile \/ CreateDirectories \/ SelectRuntime \/ Unstage \/ WriteStaged
    \/ Initdb \/ StartCandidate \/ Bootstrap \/ ObserveCandidate
    \/ RestartStop \/ RestartStart \/ RestartObserve
    \/ Commit \/ LifecycleFields \/ WriteReceipt \/ WriteResult
    \/ UndoStop \/ RestoreFile \/ UndoRuntime \/ UndoStart \/ UndoObserve
    \/ FreshStop \/ FreshClean \/ FreshRemove \/ RecoverStop \/ RecoverRuntime

Next ==
    \/ \E p \in Wanted : CandidateRecovery(p)
    \/ Progress
    \/ Kill
    \/ Reboot

Spec == Init /\ [][Next]_vars

\* Every step of the tool returns, and activations are requested again and again.
FairSpec ==
    /\ Spec
    /\ WF_vars(Progress)
    /\ WF_vars(\E p \in Wanted : CandidateRecovery(p))

-----------------------------------------------------------------------------
(* Properties. *)

Jobs == [pkg : Generations, path : Paths, pred : Generations,
         backups : [Files -> Generations], prevRuntime : Generations,
         stopped : BOOLEAN, started : BOOLEAN, committed : BOOLEAN, pid1 : Pids]

TypeOK ==
    /\ active \in Generations /\ runtime \in Generations /\ server \in Generations
    /\ files \in [Files -> Generations]
    /\ pid \in Pids
    /\ data \in {"absent", "empty", "partial", "cluster"}
    /\ booted \in BOOLEAN
    /\ receipts \in [Packages -> {"none", "old", "current"}]
    /\ results \subseteq Packages
    /\ pc \in Labels \cup Endings
    /\ job \in Jobs
    /\ outcome \in [kind : Endings \cup {"none"}, pkg : Generations, pred : Generations]
    /\ faults \in 0 .. MaxFaults

\* The whole host is of one generation p, which runs.
Serves(p) == active = p /\ Selected(p) /\ Verified(p)

\* An activation that returns success (execute, product_activation_runner.py)
\* leaves one generation: pointer, runtime link, configuration, postmaster and
\* both records are those of the package it was asked for, whatever was left
\* behind by the activations before it.
SuccessIsCoherent ==
    pc = "idle" /\ outcome.kind = "activated" =>
        /\ Serves(outcome.pkg)
        /\ outcome.pkg \in results
        /\ receipts[outcome.pkg] # "none"

\* A record that says the rollback was proven (rollback_proven of
\* upgrade_product, candidate_rolled_back of activate_product, a re-proof that
\* ends with its own error) is true: the predecessor serves again, or nothing of
\* the candidate is left.
ProvenRollbackIsTrue ==
    pc = "idle" =>
        /\ outcome.kind = "rolled_back" => Serves(outcome.pred)
        /\ outcome.kind = "removed" =>
              /\ active = None /\ runtime = None /\ server = None
              /\ data = "absent" /\ \A f \in Files : files[f] = None

\* /opt/laplace/current only ever moves to a package that runs under its own
\* configuration in a second postmaster, and only away from a package whose
\* activation has a current receipt (commit_plan, upgrade_product).
CommitIsProven ==
    active' # active =>
        /\ Selected(active') /\ Verified(active')
        /\ pid # job.pid1
        /\ active # None => receipts[active] = "current"

\* A PGDATA that holds a cluster is removed only while no postmaster runs on it
\* and no product is committed, however the rollback came to be
\* (_rollback_uncommitted_candidate).
ClusterRemovedOnlyWhenStopped ==
    data = "cluster" /\ data' # "cluster" => server = None /\ active = None

\* What an activation reports is true of the host, and what it does on the way
\* is proven before: the four statements above, at every step.
ActivationIsTrue ==
    [][/\ SuccessIsCoherent' /\ ProvenRollbackIsTrue'
       /\ CommitIsProven /\ ClusterRemovedOnlyWhenStopped]_vars

(* What the documentation says and the code does not do. *)

\* "A failed uncommitted candidate must not permanently wedge the host."
CandidateNeverWedges == <>(active # None)

\* "a pre-commit failure restores exact predecessor configuration/runtime
\* selection and restarts/reverifies the predecessor before returning failure."
FailedUpgradeRestoresPredecessor ==
    pc = "idle" /\ outcome.kind = "undo_failed" /\ active # None => Serves(active)

\* "the current package comes from /opt/laplace/current and must have a durable
\* completed cluster receipt and plan."
CurrentHasReceipt ==
    pc = "idle" /\ active # None => receipts[active] # "none"

\* "If uncommitted activation fails, rollback ...": no step of a rollback undoes
\* a package that /opt/laplace/current names.
RollbackOnlyWhenUncommitted ==
    pc \in {"undo_stop", "undo_files", "undo_runtime", "fresh_clean", "fresh_remove",
            "recover_stop", "recover_files", "recover_runtime"} => active # job.pkg

=============================================================================
