-------------------------- MODULE ExecutionRuntime --------------------------
(***************************************************************************)
(* execution_run_work over the oneAPI provider (engine/src/                *)
(* execution_oneapi.cpp): callers that plan, prepare, run their chunks on  *)
(* the provider's workers, and finish or abort.  Callers may hold one      *)
(* provider state between them, as the API lets them; its lifecycle word   *)
(* is the only thing that keeps them apart.  The serial provider is the    *)
(* case of one worker and no lifecycle.                                    *)
(***************************************************************************)
EXTENDS Integers, FiniteSets, FiniteSetsExt, Sequences

CONSTANTS
    Callers,
    Workers,     \* the outer workers of every plan
    Items,       \* [Callers -> item counts]
    ChunkItems,  \* [Callers -> items of a chunk]
    StateOf,     \* [Callers -> provider states]: which state a caller was given
    Serial       \* the callers that got the serial provider

\* What laplace_execution_plan_work validates: items are counted, a chunk has at least one.
PlanAssumption ==
    /\ Items \in [Callers -> Nat]
    /\ ChunkItems \in [Callers -> Nat \ {0}]

VARIABLES
    lifecycle,  \* of every provider state: "idle", "prepared", "running"
    held,       \* of every provider state: the caller whose plan it holds
    pc,         \* of every caller: "start", "prepared", "running", "ran", or its status
    result,     \* of every caller: the state of every chunk
    next,       \* of every caller: next_chunk
    failed,     \* of every caller: first_failure is set
    worker,     \* of every caller and worker: the chunk in hand, 0 between chunks, -1 done
    receipt     \* of every caller: completed chunks and items, and the status

runtimeVars == <<lifecycle, held, pc, result, next, failed, worker, receipt>>

States == {StateOf[c] : c \in Callers}
ChunkCount(c) == (Items[c] \div ChunkItems[c]) + (IF Items[c] % ChunkItems[c] = 0 THEN 0 ELSE 1)
Chunks(c) == 1 .. ChunkCount(c)

\* The chunks of a plan: every one takes the plan's items, the last what remains.
ChunkSize(c, k) ==
    LET first == (k - 1) * ChunkItems[c]
    IN Min({ChunkItems[c], Items[c] - first})

Crew(c) == IF c \in Serial THEN {CHOOSE w \in Workers : TRUE} ELSE Workers

RuntimeInit ==
    /\ lifecycle = [s \in States |-> "idle"]
    /\ held = [s \in States |-> {}]
    /\ pc = [c \in Callers |-> "start"]
    /\ result = [c \in Callers |-> [k \in Chunks(c) |-> "not_started"]]
    /\ next = [c \in Callers |-> 1]
    /\ failed = [c \in Callers |-> FALSE]
    /\ worker = [c \in Callers |-> [w \in Workers |-> -1]]
    /\ receipt = [c \in Callers |-> [status |-> "none", chunks |-> 0, items |-> 0]]

Goto(c, l) == pc' = [pc EXCEPT ![c] = l]
SetLife(s, l) == lifecycle' = [lifecycle EXCEPT ![s] = l]
Publish(c, status) == receipt' = [receipt EXCEPT ![c].status = status]

-----------------------------------------------------------------------------
\* provider_abort stores idle whoever prepared the state.
AbortState(c) == IF c \in Serial THEN UNCHANGED lifecycle ELSE SetLife(StateOf[c], "idle")

\* prepare: idle to prepared in one exchange, then the grant and the plan are
\* copied.  A loser aborts, with the state that is not its own.
PrepareWins(c) ==
    /\ pc[c] = "start"
    /\ c \in Serial \/ lifecycle[StateOf[c]] = "idle"
    /\ IF c \in Serial THEN UNCHANGED <<lifecycle, held>>
       ELSE /\ SetLife(StateOf[c], "prepared")
            /\ held' = [held EXCEPT ![StateOf[c]] = {c}]
    /\ Goto(c, "prepared")
    /\ UNCHANGED <<result, next, failed, worker, receipt>>

\* A request without a plan, an invalid provider or no memory for the chunks: the
\* provider is never called.
Refuse(c) ==
    /\ pc[c] = "start"
    /\ Goto(c, "done") /\ Publish(c, "refused")
    /\ UNCHANGED <<lifecycle, held, result, next, failed, worker>>

PrepareLoses(c) ==
    /\ pc[c] = "start"
    /\ c \notin Serial /\ lifecycle[StateOf[c]] # "idle"
    /\ SetLife(StateOf[c], "idle")
    /\ Goto(c, "done") /\ Publish(c, "prepare_failed")
    /\ UNCHANGED <<held, result, next, failed, worker>>

\* Two callers whose plans are equal field by field are told apart by nothing.
SamePlan(c, d) == Items[c] = Items[d] /\ ChunkItems[c] = ChunkItems[d]

RunStarts(c) ==
    /\ pc[c] = "prepared"
    /\ c \in Serial \/ /\ \A d \in held[StateOf[c]] : SamePlan(c, d)
                       /\ lifecycle[StateOf[c]] = "prepared"
    /\ IF c \in Serial THEN UNCHANGED lifecycle ELSE SetLife(StateOf[c], "running")
    /\ Goto(c, "running")
    /\ worker' = [worker EXCEPT ![c] = [w \in Workers |-> IF w \in Crew(c) THEN 0 ELSE -1]]
    /\ UNCHANGED <<held, result, next, failed, receipt>>

RunRefused(c) ==
    /\ pc[c] = "prepared" /\ c \notin Serial
    /\ \/ \E d \in held[StateOf[c]] : ~SamePlan(c, d)
       \/ lifecycle[StateOf[c]] # "prepared"
    /\ SetLife(StateOf[c], "idle")
    /\ Goto(c, "done") /\ Publish(c, "run_failed")
    /\ UNCHANGED <<held, result, next, failed, worker>>

-----------------------------------------------------------------------------
(* Workers.                                                                *)

\* Fault: reads the counter before the workers take it.
TakesStale(c, w) ==
    /\ worker[c][w] = 0
    /\ next[c] <= ChunkCount(c)
    /\ worker' = [worker EXCEPT ![c][w] = next[c]]
    /\ next' = [next EXCEPT ![c] = IF \E v \in Workers \ {w} : worker[c][v] = 0 THEN @ ELSE @ + 1]

\* first_failure is loaded, then next_chunk is taken: between the two another
\* worker's failure goes unseen, so that a chunk may start after it.
Takes(c, w) ==
    /\ worker[c][w] = 0
    /\ next[c] <= ChunkCount(c)
    /\ worker' = [worker EXCEPT ![c][w] = next[c]]
    /\ next' = [next EXCEPT ![c] = @ + 1]

Take(c, w) ==
    /\ pc[c] = "running"
    /\ Takes(c, w)
    /\ UNCHANGED <<lifecycle, held, pc, result, failed, receipt>>

\* Fault: compares the counter for equality.
WorkerEndsAtCount(c, w) ==
    /\ pc[c] = "running" /\ worker[c][w] = 0
    /\ failed[c] \/ next[c] = ChunkCount(c) + 1
    /\ worker' = [worker EXCEPT ![c][w] = -1]
    /\ next' = [next EXCEPT ![c] = @ + 1]
    /\ UNCHANGED <<lifecycle, held, pc, result, failed, receipt>>

WorkerEnds(c, w) ==
    /\ pc[c] = "running" /\ worker[c][w] = 0
    /\ failed[c] \/ next[c] > ChunkCount(c)
    /\ worker' = [worker EXCEPT ![c][w] = -1]
    /\ next' = [next EXCEPT ![c] = IF next[c] > ChunkCount(c) THEN @ + 1 ELSE @]
    /\ UNCHANGED <<lifecycle, held, pc, result, failed, receipt>>

TaskSucceeds(c, w) ==
    /\ pc[c] = "running" /\ worker[c][w] > 0
    /\ result' = [result EXCEPT ![c][worker[c][w]] =
                    IF @ = "not_started" THEN "complete" ELSE "twice"]
    /\ worker' = [worker EXCEPT ![c][w] = 0]
    /\ UNCHANGED <<lifecycle, held, pc, next, failed, receipt>>

\* The serial provider returns at the first failure.
TaskFails(c, w) ==
    /\ pc[c] = "running" /\ worker[c][w] > 0
    /\ result' = [result EXCEPT ![c][worker[c][w]] =
                    IF @ = "not_started" THEN "failed" ELSE "twice"]
    /\ failed' = [failed EXCEPT ![c] = TRUE]
    /\ worker' = [worker EXCEPT ![c][w] = IF c \in Serial THEN -1 ELSE 0]
    /\ UNCHANGED <<lifecycle, held, pc, next, receipt>>

\* The exception of a task, or of the arena, ends the run; what was in hand stays
\* not started.
RunThrows(c) ==
    /\ pc[c] = "running" /\ c \notin Serial
    /\ worker' = [worker EXCEPT ![c] = [w \in Workers |-> -1]]
    /\ failed' = [failed EXCEPT ![c] = TRUE]
    /\ SetLife(StateOf[c], "prepared")
    /\ Goto(c, "ran")
    /\ UNCHANGED <<held, result, next, receipt>>

RunEnds(c) ==
    /\ pc[c] = "running"
    /\ \A w \in Workers : worker[c][w] = -1
    /\ IF c \in Serial THEN UNCHANGED lifecycle ELSE SetLife(StateOf[c], "prepared")
    /\ Goto(c, "ran")
    /\ UNCHANGED <<held, result, next, failed, worker, receipt>>

-----------------------------------------------------------------------------
(* The receipt.                                                            *)

Completed(c) == {k \in Chunks(c) : result[c][k] = "complete"}
ItemsOf(c, chunks) == MapThenSumSet(LAMBDA k : ChunkSize(c, k), chunks)
CompletedItems(c) == ItemsOf(c, Completed(c))

AllComplete(c) == Cardinality(Completed(c)) = ChunkCount(c) /\ CompletedItems(c) = Items[c]

\* finish moves prepared to idle, and fails when the state is not prepared.
FinishSucceeds(c) == c \in Serial \/ lifecycle[StateOf[c]] = "prepared"

Outcome(c) ==
    IF failed[c] THEN "run_failed"
    ELSE IF ~AllComplete(c) THEN "result_invalid"
    ELSE IF ~FinishSucceeds(c) THEN "finish_failed"
    ELSE "ok"

\* finish stores idle; every other outcome aborts, which stores idle too.
Release(c) == AbortState(c)

Conclude(c) ==
    /\ pc[c] = "ran"
    /\ Release(c)
    /\ Goto(c, "done")
    /\ receipt' = [receipt EXCEPT ![c] = [status |-> Outcome(c), chunks |-> Cardinality(Completed(c)),
                                          items |-> CompletedItems(c)]]
    /\ UNCHANGED <<held, result, next, failed, worker>>

Work(c, w) == Take(c, w) \/ WorkerEnds(c, w) \/ TaskSucceeds(c, w) \/ TaskFails(c, w)
Control(c) == Refuse(c) \/ PrepareWins(c) \/ PrepareLoses(c) \/ RunStarts(c) \/ RunRefused(c)
                  \/ RunEnds(c) \/ Conclude(c)

RuntimeNext ==
    \/ \E c \in Callers : Control(c) \/ RunThrows(c)
    \/ \E c \in Callers, w \in Workers : Work(c, w)

\* Every thread runs until its call returns, a task always returns.
Fairness ==
    /\ \A c \in Callers : WF_runtimeVars(Control(c))
    /\ \A c \in Callers, w \in Workers : WF_runtimeVars(Work(c, w))
RuntimeSpec == RuntimeInit /\ [][RuntimeNext]_runtimeVars /\ Fairness

-----------------------------------------------------------------------------
(* Properties.                                                             *)

\* A receipt that says ok is about every item, each worked on exactly once, whatever
\* other callers did to the provider state in the meantime.
OkIsComplete ==
    \A c \in Callers : receipt[c].status = "ok" =>
        /\ \A k \in Chunks(c) : result[c][k] = "complete"
        /\ receipt[c].items = Items[c] /\ receipt[c].chunks = ChunkCount(c)

\* No chunk is run twice, on any interleaving of the workers.
ChunksRunOnce == \A c \in Callers : \A k \in Chunks(c) : result[c][k] # "twice"

\* The receipt of a failed run counts exactly the chunks that did complete, and no
\* worker is still writing when it is made.
PartialReceiptIsExact ==
    \A c \in Callers : pc[c] = "done" =>
        /\ \A w \in Workers : worker[c][w] = -1
        /\ receipt[c].chunks = Cardinality(Completed(c))
        /\ receipt[c].items = CompletedItems(c)

\* When every caller is done a provider state can be prepared again.
AllReturned == \A c \in Callers : pc[c] = "done"
StateIsReusable == AllReturned => \A s \in States : lifecycle[s] = "idle"

\* Whatever the callers and their workers interleave, what a call reports is what
\* its workers did, and what it leaves behind can be used again.
RunsAreExact == OkIsComplete /\ ChunksRunOnce /\ PartialReceiptIsExact /\ StateIsReusable

=============================================================================
