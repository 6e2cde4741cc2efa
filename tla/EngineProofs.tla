---------------------------- MODULE EngineProofs ----------------------------
(***************************************************************************)
(* Five of the engine's components, proved for every value of their        *)
(* constants: the execution runtime (any number of callers, workers,       *)
(* items and provider states, whichever callers share a state), the        *)
(* framework's activation receipts (any offers, contexts and streams), the *)
(* canonical spool (any batches, totals of any width), the instruction set *)
(* (any programs, views, operations and grants) and the perfcache layout   *)
(* (any widths, contracts and artifacts, however they were changed).       *)
(***************************************************************************)
EXTENDS ExecutionRuntime, IsaProgram, FrameworkActivation, Spool, PerfcacheLayout, FiniteSetTheorems,
        SequenceTheorems, WellFoundedInduction, TLAPS

(***************************************************************************)
(* The execution runtime.                                                  *)
(***************************************************************************)

(* The inductive invariant, part by part.                                  *)

\* The types; the value "twice" is not one of a chunk's.
RunTypes ==
    /\ lifecycle \in [States -> {"idle", "prepared", "running"}]
    /\ pc \in [Callers -> {"start", "prepared", "running", "ran", "done"}]
    /\ DOMAIN result = Callers
    /\ \A c \in Callers : result[c] \in [Chunks(c) -> {"not_started", "complete", "failed"}]
    /\ next \in [Callers -> Nat \ {0}]
    /\ failed \in [Callers -> BOOLEAN]
    /\ worker \in [Callers -> [Workers -> Nat \cup {-1}]]

\* The chunk a worker has in hand was taken from the counter and not worked on.
InHand ==
    \A c \in Callers, w \in Workers : worker[c][w] > 0 =>
        /\ worker[c][w] \in Chunks(c)
        /\ worker[c][w] < next[c]
        /\ result[c][worker[c][w]] = "not_started"

\* No chunk is in two workers' hands.
Apart ==
    \A c \in Callers, v, w \in Workers : worker[c][v] > 0 /\ worker[c][v] = worker[c][w] => v = w

\* What the counter has not reached is not started.
Untaken ==
    \A c \in Callers, k \in Int : k \in Chunks(c) /\ k >= next[c] => result[c][k] = "not_started"

\* Only a running caller has workers.
Quiet == \A c \in Callers, w \in Workers : pc[c] # "running" => worker[c][w] = -1

\* Before the run nothing is started.
Fresh == \A c \in Callers : pc[c] \in {"start", "prepared"} => next[c] = 1

WorkInv == RunTypes /\ InHand /\ Apart /\ Untaken /\ Quiet /\ Fresh

\* A caller's receipt is empty until it returns; from then on it counts what
\* completed, and says ok of the whole plan only.
ReportOf(c) ==
    /\ receipt[c] = [status |-> receipt[c].status, chunks |-> receipt[c].chunks, items |-> receipt[c].items]
    /\ pc[c] # "done" =>
         receipt[c].status = "none" /\ receipt[c].chunks = 0 /\ receipt[c].items = 0
    /\ pc[c] = "done" =>
         receipt[c].chunks = Cardinality(Completed(c)) /\ receipt[c].items = CompletedItems(c)
    /\ receipt[c].status = "ok" =>
         /\ \A k \in Chunks(c) : result[c][k] = "complete"
         /\ receipt[c].items = Items[c] /\ receipt[c].chunks = ChunkCount(c)
Reported == DOMAIN receipt = Callers /\ \A c \in Callers : ReportOf(c)

\* A provider state that is not idle is some caller's that has not returned.
Occupied ==
    \A s \in States : lifecycle[s] # "idle" =>
        \E c \in Callers \ Serial : StateOf[c] = s /\ pc[c] \in {"prepared", "running", "ran"}

RuntimeInv == WorkInv /\ Reported /\ Occupied

-----------------------------------------------------------------------------
(* Chunks.                                                                 *)

LEMMA ChunkCounts ==
    ASSUME PlanAssumption, NEW c \in Callers
    PROVE  ChunkCount(c) \in Int
BY DEF PlanAssumption, ChunkCount

LEMMA InitWork == PlanAssumption /\ RuntimeInit => WorkInv
<1> SUFFICES ASSUME PlanAssumption, RuntimeInit PROVE WorkInv OBVIOUS
<1>1. RunTypes
  BY DEF RuntimeInit, RunTypes, States
<1>2. InHand /\ Apart /\ Quiet /\ Fresh
  BY DEF RuntimeInit, InHand, Apart, Quiet, Fresh
<1>3. Untaken
  BY DEF RuntimeInit, Untaken
<1> QED BY <1>1, <1>2, <1>3 DEF WorkInv

\* The steps of a caller outside its run touch no chunk.
LEMMA CallerKeepsWork ==
    ASSUME PlanAssumption, WorkInv, NEW c \in Callers,
           Refuse(c) \/ PrepareWins(c) \/ PrepareLoses(c) \/ RunRefused(c) \/ RunEnds(c) \/ Conclude(c)
    PROVE  WorkInv'
<1>a. StateOf[c] \in States
  BY DEF States
<1>b. UNCHANGED <<result, next, failed, worker>>
  BY DEF Refuse, PrepareWins, PrepareLoses, RunRefused, RunEnds, Conclude
<1>l. lifecycle' \in [States -> {"idle", "prepared", "running"}]
  BY <1>a DEF WorkInv, RunTypes, Refuse, PrepareWins, PrepareLoses, RunRefused, RunEnds, Conclude,
     Release, AbortState, SetLife
<1>p. PICK l \in {"prepared", "ran", "done"} : pc' = [pc EXCEPT ![c] = l]
  BY DEF Refuse, PrepareWins, PrepareLoses, RunRefused, RunEnds, Conclude, Goto
<1>q. \A w \in Workers : worker[c][w] = -1
  BY DEF WorkInv, Quiet, Refuse, PrepareWins, PrepareLoses, RunRefused, RunEnds, Conclude
<1>r. l = "prepared" => pc[c] = "start"
  BY <1>p DEF WorkInv, RunTypes, Refuse, PrepareWins, PrepareLoses, RunRefused, RunEnds, Conclude, Goto
<1>1. RunTypes'
  BY <1>b, <1>l, <1>p DEF WorkInv, RunTypes, Chunks, ChunkCount, States
<1>2. InHand' /\ Apart' /\ Untaken'
  BY <1>b DEF WorkInv, InHand, Apart, Untaken, Chunks, ChunkCount
<1>3. Quiet' /\ Fresh'
  BY <1>b, <1>p, <1>q, <1>r DEF WorkInv, RunTypes, Quiet, Fresh
<1> QED BY <1>1, <1>2, <1>3 DEF WorkInv

LEMMA RunStartsKeepsWork ==
    ASSUME PlanAssumption, WorkInv, NEW c \in Callers, RunStarts(c)
    PROVE  WorkInv'
<1>a. StateOf[c] \in States
  BY DEF States
<1>b. UNCHANGED <<result, next, failed>> /\ pc' = [pc EXCEPT ![c] = "running"]
  BY DEF RunStarts, Goto
<1>w. \A d \in Callers, w \in Workers : worker'[d][w] > 0 => d # c /\ worker'[d][w] = worker[d][w]
  BY DEF RunStarts, WorkInv, RunTypes
<1>x. \A d \in Callers : d # c => worker'[d] = worker[d] /\ pc'[d] = pc[d]
  BY <1>b DEF RunStarts, WorkInv, RunTypes
<1>1. RunTypes'
  <2>1. lifecycle' \in [States -> {"idle", "prepared", "running"}]
    BY <1>a DEF WorkInv, RunTypes, RunStarts, SetLife
  <2>2. worker' \in [Callers -> [Workers -> Nat \cup {-1}]]
    BY DEF WorkInv, RunTypes, RunStarts
  <2> QED BY <1>b, <2>1, <2>2 DEF WorkInv, RunTypes, Chunks, ChunkCount, States
<1>2. InHand' /\ Apart' /\ Untaken'
  BY <1>b, <1>w, <1>x DEF WorkInv, RunTypes, InHand, Apart, Untaken, Chunks, ChunkCount
<1>3. Quiet' /\ Fresh'
  BY <1>b, <1>x DEF WorkInv, RunTypes, Quiet, Fresh
<1> QED BY <1>1, <1>2, <1>3 DEF WorkInv

\* The counter hands out a chunk nobody has, and moves past it.
LEMMA TakeKeepsWork ==
    ASSUME PlanAssumption, WorkInv, NEW c \in Callers, NEW w \in Workers, Take(c, w)
    PROVE  WorkInv'
<1>a. ChunkCount(c) \in Int
  BY ChunkCounts
<1>b. UNCHANGED <<lifecycle, pc, result, failed>> /\ pc[c] = "running"
  BY DEF Take
<1>n. /\ next[c] \in Nat \ {0} /\ next[c] <= ChunkCount(c)
      /\ next' = [next EXCEPT ![c] = next[c] + 1]
      /\ worker' = [worker EXCEPT ![c][w] = next[c]]
  BY DEF WorkInv, RunTypes, Take, Takes
<1>x. \A d \in Callers, v \in Workers :
         worker'[d][v] = IF d = c /\ v = w THEN next[c] ELSE worker[d][v]
  BY <1>n DEF WorkInv, RunTypes
<1>y. \A d \in Callers : next'[d] = IF d = c THEN next[c] + 1 ELSE next[d]
  BY <1>n DEF WorkInv, RunTypes
<1>1. RunTypes'
  BY <1>b, <1>n DEF WorkInv, RunTypes, Chunks, ChunkCount, States
<1>2. InHand'
  <2> SUFFICES ASSUME NEW d \in Callers, NEW v \in Workers, worker'[d][v] > 0
               PROVE  worker'[d][v] \in Chunks(d) /\ worker'[d][v] < next'[d]
                      /\ result[d][worker'[d][v]] = "not_started"
    BY <1>b DEF InHand, Chunks, ChunkCount
  <2>1. CASE d = c /\ v = w
    BY <2>1, <1>a, <1>n, <1>x, <1>y DEF WorkInv, Untaken, Chunks
  <2>2. CASE ~(d = c /\ v = w)
    BY <2>2, <1>x, <1>y, <1>n DEF WorkInv, RunTypes, InHand
  <2> QED BY <2>1, <2>2
<1>3. Apart'
  BY <1>x, <1>n DEF WorkInv, RunTypes, InHand, Apart
<1>4. Untaken'
  BY <1>b, <1>y, <1>n DEF WorkInv, RunTypes, Untaken, Chunks, ChunkCount
<1>5. Quiet' /\ Fresh'
  BY <1>b, <1>x, <1>y DEF WorkInv, RunTypes, Quiet, Fresh
<1> QED BY <1>1, <1>2, <1>3, <1>4, <1>5 DEF WorkInv

LEMMA WorkerEndsKeepsWork ==
    ASSUME PlanAssumption, WorkInv, NEW c \in Callers, NEW w \in Workers, WorkerEnds(c, w)
    PROVE  WorkInv'
<1>b. UNCHANGED <<lifecycle, pc, result, failed>> /\ pc[c] = "running"
  BY DEF WorkerEnds
<1>x. \A d \in Callers, v \in Workers :
         worker'[d][v] = IF d = c /\ v = w THEN -1 ELSE worker[d][v]
  BY DEF WorkInv, RunTypes, WorkerEnds
<1>y. \A d \in Callers : next'[d] = next[d] \/ (d = c /\ next'[d] = next[d] + 1)
  BY DEF WorkInv, RunTypes, WorkerEnds
<1>1. RunTypes'
  <2>1. next' \in [Callers -> Nat \ {0}] /\ worker' \in [Callers -> [Workers -> Nat \cup {-1}]]
    BY DEF WorkInv, RunTypes, WorkerEnds
  <2> QED BY <1>b, <2>1 DEF WorkInv, RunTypes, Chunks, ChunkCount, States
<1>2. InHand'
  BY <1>b, <1>x, <1>y DEF WorkInv, RunTypes, InHand, Chunks, ChunkCount
<1>3. Apart'
  BY <1>x DEF WorkInv, RunTypes, Apart
<1>4. Untaken'
  <2> SUFFICES ASSUME NEW d \in Callers, NEW k \in Int, k \in Chunks(d), k >= next'[d]
               PROVE  result[d][k] = "not_started"
    BY <1>b DEF Untaken, Chunks, ChunkCount
  <2>1. next[d] \in Nat /\ k >= next[d]
    BY <1>y DEF WorkInv, RunTypes
  <2> QED BY <2>1 DEF WorkInv, Untaken
<1>5. Quiet' /\ Fresh'
  BY <1>b, <1>x, <1>y DEF WorkInv, RunTypes, Quiet, Fresh
<1> QED BY <1>1, <1>2, <1>3, <1>4, <1>5 DEF WorkInv

\* A task writes the result of its own chunk, once.
LEMMA TaskKeepsWork ==
    ASSUME PlanAssumption, WorkInv, NEW c \in Callers, NEW w \in Workers,
           TaskSucceeds(c, w) \/ TaskFails(c, w)
    PROVE  WorkInv'
<1>k. /\ pc[c] = "running" /\ worker[c][w] > 0 /\ worker[c][w] \in Nat /\ worker[c][w] \in Chunks(c)
      /\ worker[c][w] < next[c] /\ result[c][worker[c][w]] = "not_started"
  BY DEF WorkInv, RunTypes, InHand, TaskSucceeds, TaskFails
<1>b. UNCHANGED <<lifecycle, pc, next>>
  BY DEF TaskSucceeds, TaskFails
<1>f. failed' \in [Callers -> BOOLEAN]
  BY DEF WorkInv, RunTypes, TaskSucceeds, TaskFails
<1>r. PICK r \in {"complete", "failed"} : result' = [result EXCEPT ![c][worker[c][w]] = r]
  BY <1>k DEF TaskSucceeds, TaskFails
<1>w. PICK m \in {0, -1} : worker' = [worker EXCEPT ![c][w] = m]
  BY DEF TaskSucceeds, TaskFails
<1>x. \A d \in Callers, v \in Workers :
         worker'[d][v] = IF d = c /\ v = w THEN m ELSE worker[d][v]
  BY <1>w DEF WorkInv, RunTypes
<1>y. \A d \in Callers : \A j \in Chunks(d) :
         result'[d][j] = IF d = c /\ j = worker[c][w] THEN r ELSE result[d][j]
  BY <1>r, <1>k DEF WorkInv, RunTypes
<1>1. RunTypes'
  <2>1. worker' \in [Callers -> [Workers -> Nat \cup {-1}]]
    BY <1>w DEF WorkInv, RunTypes
  <2>2. DOMAIN result' = Callers
    BY <1>r DEF WorkInv, RunTypes
  <2>3. \A d \in Callers : result'[d] \in [Chunks(d) -> {"not_started", "complete", "failed"}]
    BY <1>r, <1>k DEF WorkInv, RunTypes
  <2> QED BY <1>b, <1>f, <2>1, <2>2, <2>3 DEF WorkInv, RunTypes, Chunks, ChunkCount, States
<1>2. InHand'
  <2> SUFFICES ASSUME NEW d \in Callers, NEW v \in Workers, worker'[d][v] > 0
               PROVE  worker'[d][v] \in Chunks(d) /\ worker'[d][v] < next[d]
                      /\ result'[d][worker'[d][v]] = "not_started"
    BY <1>b DEF InHand, Chunks, ChunkCount
  <2>1. ~(d = c /\ v = w) /\ worker'[d][v] = worker[d][v]
    BY <1>x
  <2>2. ~(d = c /\ worker[d][v] = worker[c][w])
    BY <2>1, <1>k DEF WorkInv, Apart
  <2> QED BY <2>1, <2>2, <1>y DEF WorkInv, InHand
<1>3. Apart'
  BY <1>x DEF WorkInv, RunTypes, Apart
<1>4. Untaken'
  BY <1>b, <1>k, <1>y, SMTT(20) DEF WorkInv, RunTypes, Untaken, Chunks, ChunkCount
<1>5. Quiet' /\ Fresh'
  BY <1>b, <1>k, <1>x DEF WorkInv, RunTypes, Quiet, Fresh
<1> QED BY <1>1, <1>2, <1>3, <1>4, <1>5 DEF WorkInv

LEMMA RunThrowsKeepsWork ==
    ASSUME PlanAssumption, WorkInv, NEW c \in Callers, RunThrows(c)
    PROVE  WorkInv'
<1>a. StateOf[c] \in States
  BY DEF States
<1>b. UNCHANGED <<result, next>> /\ pc' = [pc EXCEPT ![c] = "ran"]
  BY DEF RunThrows, Goto
<1>x. \A d \in Callers, v \in Workers : worker'[d][v] = IF d = c THEN -1 ELSE worker[d][v]
  BY DEF WorkInv, RunTypes, RunThrows
<1>1. RunTypes'
  <2>1. /\ lifecycle' \in [States -> {"idle", "prepared", "running"}]
        /\ worker' \in [Callers -> [Workers -> Nat \cup {-1}]]
        /\ failed' \in [Callers -> BOOLEAN]
    BY <1>a DEF WorkInv, RunTypes, RunThrows, SetLife
  <2> QED BY <1>b, <2>1 DEF WorkInv, RunTypes, Chunks, ChunkCount, States
<1>2. InHand'
  BY <1>b, <1>x DEF WorkInv, RunTypes, InHand, Chunks, ChunkCount
<1>3. Apart'
  <2> SUFFICES ASSUME NEW d \in Callers, NEW v \in Workers, NEW w \in Workers,
                      worker'[d][v] > 0, worker'[d][v] = worker'[d][w]
               PROVE  v = w
    BY DEF Apart
  <2>1. d # c
    BY <1>x
  <2> QED BY <2>1, <1>x DEF WorkInv, Apart
<1>4. Untaken'
  BY <1>b DEF WorkInv, Untaken, Chunks, ChunkCount
<1>5. Quiet' /\ Fresh'
  BY <1>b, <1>x DEF WorkInv, RunTypes, Quiet, Fresh
<1> QED BY <1>1, <1>2, <1>3, <1>4, <1>5 DEF WorkInv

LEMMA StepWork == PlanAssumption /\ WorkInv /\ [RuntimeNext]_runtimeVars => WorkInv'
<1> SUFFICES ASSUME PlanAssumption, WorkInv, [RuntimeNext]_runtimeVars PROVE WorkInv' OBVIOUS
<1>1. CASE UNCHANGED runtimeVars
  BY <1>1 DEF runtimeVars, WorkInv, RunTypes, InHand, Apart, Untaken, Quiet, Fresh, Chunks, ChunkCount, States
<1>2. ASSUME NEW c \in Callers, Control(c) \/ RunThrows(c) PROVE WorkInv'
  BY <1>2, CallerKeepsWork, RunStartsKeepsWork, RunThrowsKeepsWork DEF Control
<1>3. ASSUME NEW c \in Callers, NEW w \in Workers, Work(c, w) PROVE WorkInv'
  BY <1>3, TakeKeepsWork, WorkerEndsKeepsWork, TaskKeepsWork DEF Work
<1> QED BY <1>1, <1>2, <1>3 DEF RuntimeNext

-----------------------------------------------------------------------------
(* Receipts.                                                               *)

LEMMA NoItems ==
    ASSUME NEW c
    PROVE  ItemsOf(c, {}) = 0
<1> DEFINE Iter(f) == f = [s \in SUBSET {} |->
        IF s = {} THEN 0
        ELSE LET x == CHOOSE x \in s : TRUE IN ChunkSize(c, x) + f[s \ {x}]]
<1>1. Iter([s \in SUBSET {} |-> 0])
  OBVIOUS
<1>2. Iter(CHOOSE f : Iter(f))
  <2> HIDE DEF Iter
  <2> QED BY <1>1, Zenon
<1>3. (CHOOSE f : Iter(f))[{}] = 0
  BY <1>2
<1>4. ItemsOf(c, {}) = (CHOOSE f : Iter(f))[{}]
  BY Zenon DEF ItemsOf, MapThenSumSet, MapThenFoldSet
<1> QED BY <1>3, <1>4

\* Among the chunks of a plan, as many as there are chunks are all of them.
LEMMA AllOfThem ==
    ASSUME PlanAssumption, NEW c \in Callers, NEW S \in SUBSET Chunks(c), Cardinality(S) = ChunkCount(c)
    PROVE  S = Chunks(c)
<1>1. ChunkCount(c) \in Int
  BY ChunkCounts
<1>2. IsFiniteSet(Chunks(c)) /\ Cardinality(Chunks(c)) = IF 1 > ChunkCount(c) THEN 0 ELSE ChunkCount(c) - 1 + 1
  BY <1>1, FS_Interval DEF Chunks
<1>3. CASE 1 > ChunkCount(c)
  <2>1. Chunks(c) = {}
    BY <1>3, <1>1 DEF Chunks
  <2> QED BY <2>1
<1>4. CASE ~(1 > ChunkCount(c))
  <2>1. Cardinality(S) = Cardinality(Chunks(c))
    BY <1>1, <1>2, <1>4
  <2>2. IsFiniteSet(Chunks(c))
    BY <1>2
  <2> HIDE DEF Chunks
  <2> QED BY <2>1, <2>2, FS_Subset, Zenon
<1> QED BY <1>3, <1>4

\* What a caller that has not run reports is exact: nothing completed.
LEMMA NothingCompleted ==
    ASSUME PlanAssumption, WorkInv, NEW c \in Callers, pc[c] \in {"start", "prepared"}
    PROVE  Cardinality(Completed(c)) = 0 /\ CompletedItems(c) = 0
<1>1. \A k \in Chunks(c) : result[c][k] = "not_started"
  BY DEF WorkInv, RunTypes, Fresh, Untaken, Chunks
<1>2. Completed(c) = {}
  BY <1>1 DEF Completed
<1> QED BY <1>2, NoItems, FS_EmptySet DEF CompletedItems

\* Nothing a caller that has returned reported changes.
Settled(d) == pc'[d] = pc[d] /\ receipt'[d] = receipt[d] /\ result'[d] = result[d]

LEMMA SettledKeepsReport ==
    ASSUME NEW d, ReportOf(d), Settled(d) PROVE ReportOf(d)'
<1>1. Completed(d)' = Completed(d)
  BY DEF Settled, Completed, Chunks, ChunkCount
<1>2. CompletedItems(d)' = CompletedItems(d)
  BY <1>1 DEF CompletedItems
<1> QED BY <1>1, <1>2 DEF Settled, ReportOf, Chunks, ChunkCount

\* A caller that goes on has not reported.
LEMMA RunningKeepsReport ==
    ASSUME NEW d, ReportOf(d), pc[d] # "done", pc'[d] # "done", receipt'[d] = receipt[d] PROVE ReportOf(d)'
BY DEF ReportOf

LEMMA InitReported == PlanAssumption /\ RuntimeInit => Reported
BY DEF RuntimeInit, Reported, ReportOf

\* A caller turned away says so with an empty receipt.
LEMMA TurnedAway ==
    ASSUME PlanAssumption, WorkInv, Reported, NEW c \in Callers,
           Refuse(c) \/ PrepareLoses(c) \/ RunRefused(c)
    PROVE  Reported'
<1>r. DOMAIN receipt = Callers /\ \A d \in Callers : ReportOf(d)
  BY DEF Reported
<1>p. pc[c] \in {"start", "prepared"} /\ pc' = [pc EXCEPT ![c] = "done"] /\ result' = result
  BY DEF Refuse, PrepareLoses, RunRefused, Goto
<1>s. PICK s \in {"refused", "prepare_failed", "run_failed"} : receipt' = [receipt EXCEPT ![c].status = s]
  BY DEF Refuse, PrepareLoses, RunRefused, Publish
<1>1. DOMAIN receipt' = Callers
  BY <1>r, <1>s
<1>2. \A d \in Callers : d # c => Settled(d)
  BY <1>r, <1>p, <1>s DEF WorkInv, RunTypes, Settled
<1>3. ReportOf(c)'
  <2>1. receipt'[c] = [status |-> s, chunks |-> 0, items |-> 0]
    BY <1>r, <1>s, <1>p DEF ReportOf
  <2>2. Cardinality(Completed(c)) = 0 /\ CompletedItems(c) = 0
    BY <1>p, NothingCompleted
  <2>3. Completed(c)' = Completed(c)
    BY <1>p DEF Completed, Chunks, ChunkCount
  <2>4. CompletedItems(c)' = CompletedItems(c)
    BY <2>3 DEF CompletedItems
  <2>5. pc'[c] = "done"
    BY <1>p DEF WorkInv, RunTypes
  <2> QED BY <2>1, <2>2, <2>3, <2>4, <2>5 DEF ReportOf
<1>4. \A d \in Callers : ReportOf(d)'
  BY <1>2, <1>3, <1>r, SettledKeepsReport
<1> QED BY <1>1, <1>4 DEF Reported

\* The receipt of a run counts what completed, and is ok only of all of it.
LEMMA ConcludeReports ==
    ASSUME PlanAssumption, WorkInv, Reported, NEW c \in Callers, Conclude(c)
    PROVE  Reported'
<1>r. DOMAIN receipt = Callers /\ \A d \in Callers : ReportOf(d)
  BY DEF Reported
<1>p. pc' = [pc EXCEPT ![c] = "done"] /\ result' = result
  BY DEF Conclude, Goto
<1>s. receipt' = [receipt EXCEPT ![c] = [status |-> Outcome(c), chunks |-> Cardinality(Completed(c)),
                                         items |-> CompletedItems(c)]]
  BY DEF Conclude
<1>1. DOMAIN receipt' = Callers
  BY <1>r, <1>s
<1>2. \A d \in Callers : d # c => Settled(d)
  BY <1>r, <1>p, <1>s DEF WorkInv, RunTypes, Settled
<1>3. ReportOf(c)'
  <2>1. receipt'[c] = [status |-> Outcome(c), chunks |-> Cardinality(Completed(c)), items |-> CompletedItems(c)]
    BY <1>r, <1>s
  <2>2. Outcome(c) = "ok" => Cardinality(Completed(c)) = ChunkCount(c) /\ CompletedItems(c) = Items[c]
    BY DEF Outcome, AllComplete
  <2>3. Outcome(c) = "ok" => \A k \in Chunks(c) : result[c][k] = "complete"
    <3>1. Completed(c) \in SUBSET Chunks(c)
      BY DEF Completed
    <3>2. Outcome(c) = "ok" => Completed(c) = Chunks(c)
      BY <2>2, <3>1, AllOfThem
    <3> QED BY <3>2 DEF Completed
  <2>4. Completed(c)' = Completed(c)
    BY <1>p DEF Completed, Chunks, ChunkCount
  <2>5. CompletedItems(c)' = CompletedItems(c)
    BY <2>4 DEF CompletedItems
  <2>6. pc'[c] = "done"
    BY <1>p DEF WorkInv, RunTypes
  <2> HIDE DEF Outcome
  <2> QED BY <2>1, <2>2, <2>3, <2>4, <2>5, <2>6, <1>p DEF ReportOf, Chunks, ChunkCount
<1>4. \A d \in Callers : ReportOf(d)'
  BY <1>2, <1>3, <1>r, SettledKeepsReport
<1> QED BY <1>1, <1>4 DEF Reported

\* Every other step is one of a caller that has not returned.
LEMMA OthersKeepReports ==
    ASSUME PlanAssumption, WorkInv, Reported, NEW c \in Callers,
           PrepareWins(c) \/ RunStarts(c) \/ RunEnds(c) \/ RunThrows(c) \/ (\E w \in Workers : Work(c, w))
    PROVE  Reported'
<1>r. DOMAIN receipt = Callers /\ \A d \in Callers : ReportOf(d)
  BY DEF Reported
<1>p. pc[c] # "done" /\ receipt' = receipt
  BY DEF PrepareWins, RunStarts, RunEnds, RunThrows, Work, Take, WorkerEnds, TaskSucceeds, TaskFails
<1>q. pc'[c] # "done"
  BY DEF PrepareWins, RunStarts, RunEnds, RunThrows, Work, Take, WorkerEnds, TaskSucceeds, TaskFails, Goto,
     WorkInv, RunTypes
<1>2. \A d \in Callers : d # c => pc'[d] = pc[d] /\ result'[d] = result[d]
  BY DEF PrepareWins, RunStarts, RunEnds, RunThrows, Work, Take, WorkerEnds, TaskSucceeds, TaskFails, Goto,
     WorkInv, RunTypes
<1>3. \A d \in Callers : d # c => Settled(d)
  BY <1>2, <1>p DEF Settled
<1>4. \A d \in Callers : ReportOf(d)'
  BY <1>3, <1>p, <1>q, <1>r, SettledKeepsReport, RunningKeepsReport
<1>5. DOMAIN receipt' = Callers
  BY <1>r, <1>p
<1> QED BY <1>4, <1>5 DEF Reported

LEMMA StepReported == PlanAssumption /\ WorkInv /\ Reported /\ [RuntimeNext]_runtimeVars => Reported'
<1> SUFFICES ASSUME PlanAssumption, WorkInv, Reported, [RuntimeNext]_runtimeVars PROVE Reported' OBVIOUS
<1>1. CASE UNCHANGED runtimeVars
  <2>1. \A d \in Callers : ReportOf(d)'
    BY <1>1, SettledKeepsReport DEF runtimeVars, Settled, Reported
  <2>2. DOMAIN receipt' = Callers
    BY <1>1 DEF runtimeVars, Reported
  <2> QED BY <2>1, <2>2 DEF Reported
<1>2. ASSUME NEW c \in Callers, Control(c) \/ RunThrows(c) PROVE Reported'
  BY <1>2, TurnedAway, ConcludeReports, OthersKeepReports DEF Control
<1>3. ASSUME NEW c \in Callers, NEW w \in Workers, Work(c, w) PROVE Reported'
  BY <1>3, OthersKeepReports
<1> QED BY <1>1, <1>2, <1>3 DEF RuntimeNext

-----------------------------------------------------------------------------
(* Provider states.                                                        *)

LEMMA StepOccupied == WorkInv /\ Occupied /\ [RuntimeNext]_runtimeVars => Occupied'
<1> SUFFICES ASSUME WorkInv, Occupied, [RuntimeNext]_runtimeVars PROVE Occupied' OBVIOUS
<1>1. CASE UNCHANGED runtimeVars
  BY <1>1 DEF runtimeVars, Occupied, States
<1>2. ASSUME NEW c \in Callers, Control(c) \/ RunThrows(c) PROVE Occupied'
  <2>s. StateOf[c] \in States
    BY DEF States
  <2>p. \A d \in Callers : d # c => pc'[d] = pc[d]
    BY <1>2 DEF Control, Refuse, PrepareWins, PrepareLoses, RunStarts, RunRefused, RunEnds, RunThrows, Conclude,
       Goto, WorkInv, RunTypes
  <2>l. \A s \in States : s # StateOf[c] => lifecycle'[s] = lifecycle[s]
    BY <1>2 DEF Control, Refuse, PrepareWins, PrepareLoses, RunStarts, RunRefused, RunEnds, RunThrows, Conclude,
       Release, AbortState, SetLife, WorkInv, RunTypes
  <2>c. \/ lifecycle'[StateOf[c]] = "idle"
        \/ c \notin Serial /\ pc'[c] \in {"prepared", "running", "ran"}
        \/ lifecycle'[StateOf[c]] = lifecycle[StateOf[c]] /\ pc[c] \notin {"prepared", "running", "ran"}
        \/ c \in Serial /\ lifecycle'[StateOf[c]] = lifecycle[StateOf[c]]
    BY <1>2, <2>s DEF Control, Refuse, PrepareWins, PrepareLoses, RunStarts, RunRefused, RunEnds, RunThrows, Conclude,
       Release, AbortState, SetLife, Goto, WorkInv, RunTypes
  <2> SUFFICES ASSUME NEW s \in States, lifecycle'[s] # "idle"
               PROVE  \E d \in Callers \ Serial : StateOf[d] = s /\ pc'[d] \in {"prepared", "running", "ran"}
    BY DEF Occupied, States
  <2>1. CASE s # StateOf[c]
    BY <2>1, <2>p, <2>l DEF Occupied
  <2>2. CASE s = StateOf[c] /\ c \notin Serial /\ pc'[c] \in {"prepared", "running", "ran"}
    BY <2>2
  <2>3. CASE /\ s = StateOf[c] /\ lifecycle'[s] = lifecycle[s]
             /\ c \in Serial \/ pc[c] \notin {"prepared", "running", "ran"}
    BY <2>3, <2>p DEF Occupied
  <2> QED BY <2>1, <2>2, <2>3, <2>c
<1>3. ASSUME NEW c \in Callers, NEW w \in Workers, Work(c, w) PROVE Occupied'
  BY <1>3 DEF Work, Take, WorkerEnds, TaskSucceeds, TaskFails, Occupied, States
<1> QED BY <1>1, <1>2, <1>3 DEF RuntimeNext

-----------------------------------------------------------------------------
(* Theorems.  The hypothesis is what laplace_execution_plan_work validates *)
(* of a plan.                                                              *)

LEMMA RuntimeInvariant == PlanAssumption => (RuntimeSpec => []RuntimeInv)
<1> SUFFICES ASSUME PlanAssumption PROVE RuntimeSpec => []RuntimeInv OBVIOUS
<1>1. RuntimeInit => RuntimeInv
  <2>1. RuntimeInit => Occupied
    BY DEF RuntimeInit, Occupied
  <2> QED BY <2>1, InitWork, InitReported DEF RuntimeInv
<1>2. RuntimeInv /\ [RuntimeNext]_runtimeVars => RuntimeInv'
  BY StepWork, StepReported, StepOccupied DEF RuntimeInv
<1> QED BY <1>1, <1>2, PTL DEF RuntimeSpec

\* No chunk is run twice, on any interleaving of any number of workers: the
\* counter hands every chunk to one worker (the fetch_add of the worker loop).
THEOREM NoChunkTwice == PlanAssumption => (RuntimeSpec => []ChunksRunOnce)
<1>1. RuntimeInv => ChunksRunOnce
  BY DEF RuntimeInv, WorkInv, RunTypes, ChunksRunOnce
<1> QED BY <1>1, RuntimeInvariant, PTL

\* A receipt that says ok is about every chunk and every item, whatever other
\* callers did to the provider state meanwhile (execution_run_work).
THEOREM OkIsWhole == PlanAssumption => (RuntimeSpec => []OkIsComplete)
<1>1. RuntimeInv => OkIsComplete
  BY DEF RuntimeInv, Reported, ReportOf, OkIsComplete
<1> QED BY <1>1, RuntimeInvariant, PTL

\* However a call ends, its receipt counts exactly what completed, and none of
\* its workers is still at work (execution_run_work's aggregation).
THEOREM ReceiptIsExact == PlanAssumption => (RuntimeSpec => []PartialReceiptIsExact)
<1>1. RuntimeInv => PartialReceiptIsExact
  BY DEF RuntimeInv, WorkInv, Quiet, Reported, ReportOf, PartialReceiptIsExact
<1> QED BY <1>1, RuntimeInvariant, PTL

\* When all callers have returned, every provider state is idle again, however
\* they disturbed each other (oneapi_finish, oneapi_abort).
THEOREM StatesAreReusable == PlanAssumption => (RuntimeSpec => []StateIsReusable)
<1>1. RuntimeInv => StateIsReusable
  BY DEF RuntimeInv, Occupied, StateIsReusable, AllReturned
<1> QED BY <1>1, RuntimeInvariant, PTL

\* The four together: what a call of the execution runtime reports and leaves
\* behind is exact (execution_run_work over the oneAPI provider).
THEOREM RuntimeIsExact == PlanAssumption => (RuntimeSpec => []RunsAreExact)
BY NoChunkTwice, OkIsWhole, ReceiptIsExact, StatesAreReusable, PTL DEF RunsAreExact

-----------------------------------------------------------------------------

(***************************************************************************)
(* The framework's activation receipts.                                    *)
(***************************************************************************)

\* A state of the provider as the functions of the module pass it on.
StShape(st) ==
    /\ DOMAIN st = {"active", "reservation", "act", "switches"}
    /\ DOMAIN st.act = Providers
    /\ \A p \in Providers : DOMAIN st.act[p] = {"prepared", "ticket", "receipt"}
    /\ st.reservation \in Providers \cup {NoEpoch}

\* Who holds a ticket: the provider of the one reservation, reserved over the
\* active epoch, for a stream somebody staged from the provider's context.
TicketOf(st, p) ==
    /\ st.act[p].ticket <=> st.reservation = p
    /\ st.reservation = p =>
          /\ st.act[p].receipt = GenerationReceipt(p, "RESERVED")
          /\ st.active = Offer[p].expected
          /\ \E s \in Staged : s.id = Offer[p].staged /\ s.ctx = Offer[p].ctx

\* A receipt of an admission by the provider that could commit it.
AdmittedBy(r, p) ==
    /\ r.preparation = GenerationReceipt(p, "RESERVED")
    /\ r.ctx = Offer[p].ctx /\ r.staged = Offer[p].staged /\ r.request.next = Offer[p].epoch
    /\ \E s \in Staged : s.id = r.staged /\ s.ctx = r.ctx
    /\ r.request.slot = Perfcache
    /\ ~r.ctx.readOnly /\ r.ctx.epochs[Perfcache] = r.request.expected

ReceiptShape(r) ==
    DOMAIN r = {"status", "effect", "ctx", "staged", "request", "preparation", "activation"}

\* Every receipt was admitted, and one that says activated names a switch.
ReceiptTrue(r, switched) ==
    /\ ReceiptShape(r)
    /\ \E p \in Providers : AdmittedBy(r, p)
    /\ r.effect = "ACTIVATED" =>
          \E w \in switched : /\ w.to = r.request.next
                              /\ Offer[w.provider].staged = r.staged
                              /\ Offer[w.provider].ctx = r.ctx
                              /\ r.activation = GenerationReceipt(w.provider, "ACTIVATED")

Backed(st, rs) ==
    st.reservation # NoEpoch =>
        \E r \in rs : /\ r.status = "OK" /\ r.effect = "ADMITTED"
                      /\ r.preparation = st.act[st.reservation].receipt

Switched(st) == \A w \in st.switches : w.from = Offer[w.provider].expected

StGood(st) == StShape(st) /\ Switched(st) /\ \A p \in Providers : TicketOf(st, p)

Good(st, rs) ==
    /\ StGood(st)
    /\ \A r \in rs : ReceiptTrue(r, st.switches)
    /\ Backed(st, rs)

-----------------------------------------------------------------------------

\* Giving up a ticket.
LEMMA AbortGivesUp ==
  ASSUME NEW st, NEW p \in Providers, StGood(st), OfferAssumption
  PROVE  /\ StGood(ProviderAbort(st, p))
         /\ ProviderAbort(st, p).switches = st.switches
         /\ st.reservation = p => ProviderAbort(st, p).reservation = NoEpoch
         /\ st.reservation # p => ProviderAbort(st, p) = st
<1> DEFINE t == ProviderAbort(st, p)
<1>1. CASE st.reservation # p
  <2>1. t = st
    BY <1>1 DEF ProviderAbort
  <2> QED BY <2>1, <1>1
<1>2. CASE st.reservation = p
  <2>1. st.act[p].ticket
    BY <1>2 DEF StGood, TicketOf
  <2>2. t = [st EXCEPT !.reservation = NoEpoch, !.act[p].ticket = FALSE,
                    !.act[p].receipt = GenerationReceipt(p, "ABORTED")]
    BY <1>2, <2>1 DEF ProviderAbort
  <2> HIDE DEF t
  <2>3. DOMAIN t = DOMAIN st /\ t.reservation = NoEpoch /\ t.active = st.active /\ t.switches = st.switches
    BY <2>2 DEF StGood, StShape
  <2>4. t.act = [st.act EXCEPT ![p].ticket = FALSE, ![p].receipt = GenerationReceipt(p, "ABORTED")]
    BY <2>2 DEF StGood, StShape
  <2>5. /\ DOMAIN t.act = Providers
        /\ \A q \in Providers : q # p => t.act[q] = st.act[q]
        /\ DOMAIN t.act[p] = {"prepared", "ticket", "receipt"}
        /\ ~t.act[p].ticket
    BY <2>4 DEF StGood, StShape
  <2>6. StShape(t)
    BY <2>3, <2>5 DEF StGood, StShape
  <2>7. Switched(t)
    BY <2>3 DEF StGood, Switched
  <2>8. ASSUME NEW q \in Providers PROVE TicketOf(t, q)
    BY <2>3, <2>5, <1>2, <2>8 DEF StGood, TicketOf, OfferAssumption
  <2> QED BY <2>3, <2>6, <2>7, <2>8, <1>2 DEF StGood, t
<1> QED BY <1>1, <1>2

\* Admission by the provider: a refusal without effect on its ticket, or a
\* reservation for the very context, stream and request of its offer.
LEMMA PrepareReserves ==
  ASSUME NEW st, NEW p \in Providers, StGood(st), OfferAssumption,
         NEW c, NEW s \in Staged, NEW q, s.ctx = c
  PROVE  LET d == ProviderPrepare(st, p, c, s, q)
         IN /\ d.ok \in BOOLEAN
            /\ StGood(d.st) /\ d.st.switches = st.switches
            /\ ~d.ok => /\ d.st.reservation = st.reservation
                        /\ st.reservation # NoEpoch =>
                              d.st.act[st.reservation].receipt = st.act[st.reservation].receipt
            /\ d.ok => /\ d.st.reservation = p
                       /\ d.fingerprint = GenerationReceipt(p, "RESERVED")
                       /\ q.slot = Perfcache /\ q.next = Offer[p].epoch
                       /\ c = Offer[p].ctx /\ s.id = Offer[p].staged
<1> DEFINE d == ProviderPrepare(st, p, c, s, q)
           mine == /\ st.act[p].prepared /\ ~st.act[p].ticket
                   /\ q.slot = Perfcache
                   /\ c = Offer[p].ctx /\ s.id = Offer[p].staged /\ q.next = Offer[p].epoch
                   /\ Offer[p].expected # NoEpoch => q.expected = Offer[p].expected
           outcome == Reserve(st, p)
<1>1. CASE ~mine
  <2>1. d = [ok |-> FALSE, st |-> st, fingerprint |-> NoEpoch]
    BY <1>1 DEF ProviderPrepare
  <2> QED BY <2>1
<1>2. CASE mine /\ outcome # "OK"
  <2> DEFINE t == [st EXCEPT !.act[p].receipt = GenerationReceipt(p, outcome)]
  <2>1. d = [ok |-> FALSE, fingerprint |-> NoEpoch, st |-> t]
    BY <1>2 DEF ProviderPrepare
  <2>2. st.reservation # p
    BY <1>2 DEF StGood, TicketOf
  <2> HIDE DEF mine, outcome
  <2>3. /\ DOMAIN t = DOMAIN st /\ t.reservation = st.reservation /\ t.active = st.active
        /\ t.switches = st.switches
        /\ t.act = [st.act EXCEPT ![p].receipt = GenerationReceipt(p, outcome)]
    BY DEF StGood, StShape
  <2> HIDE DEF t
  <2>4. /\ DOMAIN t.act = Providers
        /\ \A x \in Providers : x # p => t.act[x] = st.act[x]
        /\ DOMAIN t.act[p] = {"prepared", "ticket", "receipt"}
        /\ t.act[p].ticket = st.act[p].ticket
    BY <2>3 DEF StGood, StShape
  <2>5. StShape(t) /\ Switched(t)
    BY <2>3, <2>4 DEF StGood, StShape, Switched
  <2>6. ASSUME NEW x \in Providers PROVE TicketOf(t, x)
    BY <2>2, <2>3, <2>4, <2>6 DEF StGood, TicketOf
  <2>7. StGood(t)
    BY <2>5, <2>6 DEF StGood
  <2>8. st.reservation # NoEpoch => t.act[st.reservation].receipt = st.act[st.reservation].receipt
    BY <2>2, <2>4 DEF StGood, StShape
  <2>9. d.ok = FALSE /\ d.st = t
    BY <2>1
  <2> HIDE DEF d
  <2>10. StGood(d.st) /\ d.st.switches = st.switches /\ d.st.reservation = st.reservation
    BY <2>3, <2>7, <2>9
  <2>11. st.reservation # NoEpoch => d.st.act[st.reservation].receipt = st.act[st.reservation].receipt
    BY <2>8, <2>9
  <2> QED BY <2>9, <2>10, <2>11 DEF d
<1>3. CASE mine /\ outcome = "OK"
  <2> DEFINE t == [st EXCEPT !.reservation = p,
                          !.act[p] = [prepared |-> FALSE, ticket |-> TRUE,
                                      receipt |-> GenerationReceipt(p, "RESERVED")]]
  <2>1. d = [ok |-> TRUE, fingerprint |-> GenerationReceipt(p, "RESERVED"), st |-> t]
    BY <1>3 DEF ProviderPrepare
  <2>2. st.reservation = NoEpoch /\ Offer[p].expected = st.active
    BY <1>3 DEF Reserve
  <2>3. /\ DOMAIN t = DOMAIN st /\ t.reservation = p /\ t.active = st.active
        /\ t.switches = st.switches
        /\ t.act = [st.act EXCEPT ![p] = [prepared |-> FALSE, ticket |-> TRUE,
                                      receipt |-> GenerationReceipt(p, "RESERVED")]]
    BY DEF StGood, StShape
  <2> HIDE DEF t
  <2>4. /\ DOMAIN t.act = Providers
        /\ \A x \in Providers : x # p => t.act[x] = st.act[x]
        /\ DOMAIN t.act[p] = {"prepared", "ticket", "receipt"}
        /\ t.act[p].ticket
        /\ t.act[p].receipt = GenerationReceipt(p, "RESERVED")
    BY <2>3 DEF StGood, StShape
  <2>5. StShape(t) /\ Switched(t)
    BY <2>3, <2>4 DEF StGood, StShape, Switched
  <2>6. ASSUME NEW x \in Providers PROVE TicketOf(t, x)
    <3>1. CASE x = p
      BY <1>3, <2>2, <2>3, <2>4, <3>1 DEF TicketOf
    <3>2. CASE x # p
      <4>1. ~st.act[x].ticket
        BY <2>2 DEF StGood, TicketOf, OfferAssumption
      <4> QED BY <4>1, <3>2, <2>3, <2>4 DEF TicketOf
    <3> QED BY <3>1, <3>2
  <2>7. StGood(t)
    BY <2>5, <2>6 DEF StGood
  <2> QED BY <1>3, <2>1, <2>3, <2>7
<1> QED BY <1>1, <1>2, <1>3

\* The switch of a commit that the provider accepts.
LEMMA CommitSwitches ==
  ASSUME NEW st, NEW p \in Providers, StGood(st), OfferAssumption, NEW fingerprint
  PROVE  LET d == ProviderCommit(st, p, fingerprint)
             w == [provider |-> p, from |-> st.active, to |-> Offer[p].epoch]
         IN /\ d.ok \in BOOLEAN
            /\ d.ok => /\ StGood(d.st) /\ d.st.switches = st.switches \cup {w}
                       /\ d.st.reservation = NoEpoch
                       /\ d.fingerprint = GenerationReceipt(p, "ACTIVATED")
                       /\ st.reservation = p /\ fingerprint = GenerationReceipt(p, "RESERVED")
            /\ st.reservation = p /\ fingerprint = GenerationReceipt(p, "RESERVED") => d.ok
<1> DEFINE d == ProviderCommit(st, p, fingerprint)
           w == [provider |-> p, from |-> st.active, to |-> Offer[p].epoch]
           can == st.act[p].ticket /\ fingerprint = st.act[p].receipt /\ st.reservation = p
<1>1. CASE ~can
  <2>1. d = [ok |-> FALSE, st |-> st, fingerprint |-> NoEpoch]
    BY <1>1 DEF ProviderCommit
  <2>2. ~(st.reservation = p /\ fingerprint = GenerationReceipt(p, "RESERVED"))
    BY <1>1 DEF StGood, TicketOf
  <2> QED BY <2>1, <2>2
<1>2. CASE can
  <2> DEFINE t == [st EXCEPT !.active = Offer[p].epoch, !.reservation = NoEpoch,
             !.switches = @ \cup {w},
             !.act[p].ticket = FALSE,
             !.act[p].receipt = GenerationReceipt(p, "ACTIVATED")]
  <2>1. d = [ok |-> TRUE, fingerprint |-> GenerationReceipt(p, "ACTIVATED"), st |-> t]
    BY <1>2 DEF ProviderCommit
  <2>2. fingerprint = GenerationReceipt(p, "RESERVED") /\ st.active = Offer[p].expected
    BY <1>2 DEF StGood, TicketOf
  <2> HIDE DEF w
  <2>3. /\ DOMAIN t = DOMAIN st /\ t.reservation = NoEpoch /\ t.switches = st.switches \cup {w}
        /\ t.act = [st.act EXCEPT ![p].ticket = FALSE, ![p].receipt = GenerationReceipt(p, "ACTIVATED")]
    BY DEF StGood, StShape
  <2> HIDE DEF t
  <2>4. /\ DOMAIN t.act = Providers
        /\ \A x \in Providers : x # p => t.act[x] = st.act[x]
        /\ DOMAIN t.act[p] = {"prepared", "ticket", "receipt"}
        /\ ~t.act[p].ticket
    BY <2>3 DEF StGood, StShape
  <2>5. StShape(t)
    BY <2>3, <2>4 DEF StGood, StShape
  <2>6. Switched(t)
    BY <2>2, <2>3 DEF StGood, Switched, w
  <2>7. ASSUME NEW x \in Providers PROVE TicketOf(t, x)
    BY <1>2, <2>3, <2>4, <2>7 DEF StGood, TicketOf, OfferAssumption
  <2>8. StGood(t)
    BY <2>5, <2>6, <2>7 DEF StGood
  <2> QED BY <1>2, <2>1, <2>2, <2>3, <2>8 DEF w
<1> QED BY <1>1, <1>2

-----------------------------------------------------------------------------

\* More switches and fewer tickets leave receipts true.
LEMMA ReceiptsStayTrue ==
  ASSUME NEW old, NEW new, old \subseteq new, NEW r, ReceiptTrue(r, old)
  PROVE  ReceiptTrue(r, new)
BY DEF ReceiptTrue

\* An abort keeps what holds of the receipts.
LEMMA AbortKeeps ==
  ASSUME NEW st, NEW rs, NEW p \in Providers, Good(st, rs), OfferAssumption
  PROVE  Good(ProviderAbort(st, p), rs)
<1>1. StGood(ProviderAbort(st, p)) /\ ProviderAbort(st, p).switches = st.switches
  BY AbortGivesUp DEF Good
<1>2. Backed(ProviderAbort(st, p), rs)
  BY AbortGivesUp DEF Good, Backed
<1> QED BY <1>1, <1>2 DEF Good

\* What an admission leaves: its receipt, if it hands one out, and the ticket.
AdmitOutcome(a, rs, p) ==
    /\ a.receipt.status # "OK" => Good(a.st, rs)
    /\ a.receipt.status = "OK" =>
          /\ Good(a.st, rs \cup {a.receipt})
          /\ a.st.reservation = p
          /\ a.receipt.preparation = GenerationReceipt(p, "RESERVED")

\* Admitting a stream keeps every receipt true, and one that says OK is backed.
LEMMA AdmitKeeps ==
  ASSUME NEW st, NEW rs, NEW p \in Providers, Good(st, rs), OfferAssumption,
         NEW c, NEW s \in Staged, NEW q
  PROVE  AdmitOutcome(AdmitStagedStream(st, p, c, s, q), rs, p)
<1> DEFINE a == AdmitStagedStream(st, p, c, s, q)
           d == ProviderPrepare(st, p, c, s, q)
           accepted == RequestValid(c, s, q) /\ ~c.readOnly /\ ContextHolds(c, q)
<1>1. CASE ~accepted
  <2>1. a.st = st /\ a.receipt.status # "OK"
    BY <1>1 DEF AdmitStagedStream, Receipt
  <2> QED BY <2>1 DEF AdmitOutcome
<1>2. CASE accepted /\ ~d.ok
  <2>1. a = [st |-> ProviderAbort(d.st, p),
             receipt |-> Receipt("ADMISSION_FAILED", "STAGED_INERT", c, s, q, NoEpoch, NoEpoch)]
    BY <1>2 DEF AdmitStagedStream
  <2>2. a.st = ProviderAbort(d.st, p) /\ a.receipt.status # "OK"
    BY <2>1 DEF Receipt
  <2>3. s.ctx = c /\ StGood(st)
    BY <1>2 DEF RequestValid, Good
  <2>4. /\ StGood(d.st) /\ d.st.switches = st.switches /\ d.st.reservation = st.reservation
        /\ st.reservation # NoEpoch => d.st.act[st.reservation].receipt = st.act[st.reservation].receipt
    BY <1>2, <2>3, PrepareReserves
  <2> HIDE DEF d, a, accepted
  <2>5. Backed(d.st, rs)
    BY <2>4 DEF Good, Backed
  <2>6. Good(d.st, rs)
    BY <2>4, <2>5 DEF Good
  <2>7. Good(ProviderAbort(d.st, p), rs)
    BY <2>6, AbortKeeps
  <2> QED BY <2>2, <2>7 DEF a, AdmitOutcome
<1>3. CASE accepted /\ d.ok
  <2>1. a = [st |-> d.st, receipt |-> Receipt("OK", "ADMITTED", c, s, q, d.fingerprint, NoEpoch)]
    BY <1>3 DEF AdmitStagedStream
  <2>2. s.ctx = c /\ StGood(st) /\ ~c.readOnly /\ c.epochs[q.slot] = q.expected
    BY <1>3 DEF RequestValid, ContextHolds, Good
  <2>3. /\ StGood(d.st) /\ d.st.switches = st.switches /\ d.st.reservation = p
        /\ d.fingerprint = GenerationReceipt(p, "RESERVED")
        /\ q.slot = Perfcache /\ q.next = Offer[p].epoch
        /\ c = Offer[p].ctx /\ s.id = Offer[p].staged
    BY <1>3, <2>2, PrepareReserves
  <2> DEFINE r == a.receipt
  <2>4. r = [status |-> "OK", effect |-> "ADMITTED", ctx |-> c, staged |-> s.id,
             request |-> q, preparation |-> GenerationReceipt(p, "RESERVED"), activation |-> NoEpoch]
    BY <2>1, <2>3 DEF Receipt
  <2>5. a.st = d.st
    BY <2>1
  <2> HIDE DEF d, a, accepted, r
  <2>6. ReceiptTrue(r, d.st.switches)
    <3>1. ReceiptShape(r) /\ r.effect # "ACTIVATED"
      BY <2>4 DEF ReceiptShape
    <3>2. AdmittedBy(r, p)
      BY <2>2, <2>3, <2>4 DEF AdmittedBy
    <3> QED BY <3>1, <3>2 DEF ReceiptTrue
  <2>7. d.st.act[p].receipt = GenerationReceipt(p, "RESERVED")
    BY <2>3 DEF StGood, TicketOf
  <2>8. Backed(d.st, rs \cup {r})
    BY <2>3, <2>4, <2>7 DEF Backed
  <2>9. Good(d.st, rs \cup {r})
    BY <2>3, <2>6, <2>8 DEF Good
  <2>10. r.status = "OK" /\ r.effect = "ADMITTED" /\ r.preparation = GenerationReceipt(p, "RESERVED")
    BY <2>4
  <2> QED BY <2>3, <2>5, <2>9, <2>10 DEF a, r, AdmitOutcome
<1>4. d.ok \/ ~d.ok
  OBVIOUS
<1> QED BY <1>1, <1>2, <1>3, <1>4

\* A commit of a receipt that may not have been handed out yet.
LEMMA CommitKeeps ==
  ASSUME NEW st, NEW rs, NEW p \in Providers, NEW r, Good(st, rs \cup {r}), OfferAssumption,
         r.status = "OK"
  PROVE  LET a == CommitAdmittedStream(st, p, r)
         IN /\ a.receipt.status = "OK" => Good(a.st, rs \cup {a.receipt})
            /\ a.receipt.status # "OK" => Good(a.st, rs \cup {r})
            /\ st.reservation = p /\ r.preparation = GenerationReceipt(p, "RESERVED") =>
                  a.receipt.status = "OK"
<1> DEFINE a == CommitAdmittedStream(st, p, r)
           d == ProviderCommit(st, p, r.preparation)
           w == [provider |-> p, from |-> st.active, to |-> Offer[p].epoch]
<1>1. StGood(st) /\ ReceiptTrue(r, st.switches) /\ \A x \in rs : ReceiptTrue(x, st.switches)
  BY DEF Good
<1>2. ReceiptShape(r)
  BY <1>1 DEF ReceiptTrue
<1>3. CASE ~d.ok
  <2>1. a = [st |-> ProviderAbort(st, p), receipt |-> [r EXCEPT !.status = "COMMIT_FAILED"]]
    BY <1>3 DEF CommitAdmittedStream
  <2>2. a.st = ProviderAbort(st, p) /\ a.receipt.status = "COMMIT_FAILED"
    BY <2>1, <1>2 DEF ReceiptShape
  <2>3. ~(st.reservation = p /\ r.preparation = GenerationReceipt(p, "RESERVED"))
    BY <1>1, <1>3, CommitSwitches
  <2>4. Good(ProviderAbort(st, p), rs \cup {r})
    BY AbortKeeps
  <2> HIDE DEF a, d
  <2> QED BY <2>2, <2>3, <2>4 DEF a
<1>4. CASE d.ok
  <2>1. a = [st |-> d.st, receipt |-> [r EXCEPT !.effect = "ACTIVATED", !.activation = d.fingerprint]]
    BY <1>4 DEF CommitAdmittedStream
  <2>2. /\ StGood(d.st) /\ d.st.switches = st.switches \cup {w} /\ d.st.reservation = NoEpoch
        /\ d.fingerprint = GenerationReceipt(p, "ACTIVATED")
        /\ st.reservation = p /\ r.preparation = GenerationReceipt(p, "RESERVED")
    BY <1>1, <1>4, CommitSwitches
  <2> DEFINE n == a.receipt
  <2>3. a.st = d.st /\ n = [r EXCEPT !.effect = "ACTIVATED", !.activation = d.fingerprint]
    BY <2>1
  <2> HIDE DEF a, d, n
  <2>4. /\ ReceiptShape(n) /\ n.status = "OK" /\ n.effect = "ACTIVATED"
        /\ n.activation = GenerationReceipt(p, "ACTIVATED")
        /\ n.ctx = r.ctx /\ n.staged = r.staged /\ n.request = r.request /\ n.preparation = r.preparation
    BY <1>2, <2>2, <2>3 DEF ReceiptShape
  <2>5. PICK x \in Providers : AdmittedBy(r, x)
    BY <1>1 DEF ReceiptTrue
  <2>6. AdmittedBy(n, x)
    BY <2>4, <2>5 DEF AdmittedBy
  <2>7. Offer[x].epoch = Offer[p].epoch /\ Offer[x].staged = Offer[p].staged
    BY <2>2, <2>5 DEF AdmittedBy, GenerationReceipt
  <2>8. Offer[p].ctx = r.ctx
    <3>1. PICK s \in Staged : s.id = Offer[p].staged /\ s.ctx = Offer[p].ctx
      BY <1>1, <2>2 DEF StGood, TicketOf
    <3>2. PICK y \in Staged : y.id = r.staged /\ y.ctx = r.ctx
      BY <2>5 DEF AdmittedBy
    <3>3. r.staged = Offer[p].staged
      BY <2>5, <2>7 DEF AdmittedBy
    <3> QED BY <3>1, <3>2, <3>3 DEF OfferAssumption
  <2>9. /\ w \in d.st.switches /\ w.to = n.request.next
        /\ Offer[w.provider].staged = n.staged /\ Offer[w.provider].ctx = n.ctx
        /\ n.activation = GenerationReceipt(w.provider, "ACTIVATED")
    BY <2>2, <2>4, <2>5, <2>7, <2>8 DEF AdmittedBy
  <2> HIDE DEF w
  <2>10. ReceiptTrue(n, d.st.switches)
    BY <2>4, <2>6, <2>9 DEF ReceiptTrue
  <2>11. \A y \in rs : ReceiptTrue(y, d.st.switches)
    BY <1>1, <2>2, ReceiptsStayTrue
  <2>12. Good(d.st, rs \cup {n})
    BY <2>2, <2>10, <2>11 DEF Good, Backed
  <2> QED BY <2>3, <2>4, <2>12 DEF a, n
<1> QED BY <1>3, <1>4

\* An abort's receipt says inert, whatever the provider did.
LEMMA AbortReceiptKeeps ==
  ASSUME NEW st, NEW rs, NEW p \in Providers, NEW r \in rs, Good(st, rs), OfferAssumption,
         r.status = "OK"
  PROVE  LET a == AbortAdmittedStream(st, p, r)
         IN a.receipt.status = "OK" /\ Good(a.st, rs \cup {a.receipt})
<1> DEFINE a == AbortAdmittedStream(st, p, r)
           n == a.receipt
<1>1. ReceiptTrue(r, st.switches) /\ ReceiptShape(r)
  BY DEF Good, ReceiptTrue
<1>2. n = [r EXCEPT !.effect = "STAGED_INERT", !.activation = NoEpoch] /\ a.st = ProviderAbort(st, p)
  BY DEF AbortAdmittedStream
<1>3. Good(ProviderAbort(st, p), rs)
  BY AbortKeeps
<1> HIDE DEF a, n
<1>4. /\ ReceiptShape(n) /\ n.status = "OK" /\ n.effect = "STAGED_INERT"
      /\ n.ctx = r.ctx /\ n.staged = r.staged /\ n.request = r.request /\ n.preparation = r.preparation
  BY <1>1, <1>2 DEF ReceiptShape
<1>5. PICK x \in Providers : AdmittedBy(r, x)
  BY <1>1 DEF ReceiptTrue
<1>6. AdmittedBy(n, x)
  BY <1>4, <1>5 DEF AdmittedBy
<1>7. ReceiptTrue(n, ProviderAbort(st, p).switches)
  BY <1>4, <1>6 DEF ReceiptTrue
<1>8. Good(ProviderAbort(st, p), rs \cup {n})
  BY <1>3, <1>7 DEF Good, Backed
<1> QED BY <1>2, <1>4, <1>8 DEF a, n

-----------------------------------------------------------------------------

ActivationInv == Good(St, receipts) /\ \A r \in receipts : r.status = "OK"

\* A state is as good as its four fields.
LEMMA GoodByFields ==
  ASSUME NEW t, NEW rs, Good(t, rs)
  PROVE  Good([active |-> t.active, reservation |-> t.reservation, act |-> t.act, switches |-> t.switches], rs)
BY DEF Good, StGood, StShape, Switched, TicketOf, Backed

\* What a call leaves in the variables.
LEMMA ApplyKeeps ==
  ASSUME NEW a, Apply(a), ActivationInv,
         a.receipt.status = "OK" => Good(a.st, receipts \cup {a.receipt}),
         a.receipt.status # "OK" => Good(a.st, receipts)
  PROVE  ActivationInv'
<1>1. Good(a.st, receipts')
  BY DEF Apply
<1> DEFINE t == [active |-> a.st.active, reservation |-> a.st.reservation, act |-> a.st.act,
                 switches |-> a.st.switches]
<1>2. Good(t, receipts')
  BY <1>1, GoodByFields
<1>3. St' = t
  BY DEF St, Apply
<1>4. \A r \in receipts' : r.status = "OK"
  BY DEF ActivationInv, Apply
<1> HIDE DEF t
<1>5. Good(St', receipts')
  BY <1>2, <1>3
<1>6. Good(St, receipts)'
  BY <1>5 DEF Good, StGood, StShape, Switched, TicketOf, Backed, ReceiptTrue, ReceiptShape, AdmittedBy, GenerationReceipt
<1> QED BY <1>4, <1>6 DEF ActivationInv

LEMMA InitActivation == OfferAssumption /\ ActivationInit => ActivationInv
BY DEF OfferAssumption, ActivationInit, ActivationInv, Good, StGood, StShape, Switched, TicketOf, Backed, St

LEMMA StepActivation == OfferAssumption /\ ActivationInv /\ [ActivationNext]_activationVars => ActivationInv'
<1> SUFFICES ASSUME OfferAssumption, ActivationInv, [ActivationNext]_activationVars PROVE ActivationInv'
  OBVIOUS
<1>g. Good(St, receipts) /\ \A r \in receipts : r.status = "OK"
  BY DEF ActivationInv
<1>1. CASE UNCHANGED activationVars
  <2>1. St' = St /\ receipts' = receipts
    BY <1>1 DEF St, activationVars
  <2> QED BY <2>1, <1>g DEF ActivationInv, Good, StGood, StShape, Switched, TicketOf, Backed, ReceiptTrue, ReceiptShape, AdmittedBy, GenerationReceipt
<1>2. ASSUME NEW p \in Providers, NEW c \in Contexts, NEW s \in Staged, NEW q \in Requests, Admit(p, c, s, q)
      PROVE  ActivationInv'
  <2> DEFINE a == AdmitStagedStream(St, p, c, s, q)
  <2>1. Apply(a)
    BY <1>2 DEF Admit
  <2>2. AdmitOutcome(a, receipts, p)
    BY <1>g, AdmitKeeps
  <2> HIDE DEF a
  <2> QED BY <2>1, <2>2, ApplyKeeps DEF AdmitOutcome
<1>3. ASSUME NEW p \in Providers, NEW c \in Contexts, NEW s \in Staged, NEW q \in Requests, Activate(p, c, s, q)
      PROVE  ActivationInv'
  <2> DEFINE a == AdmitStagedStream(St, p, c, s, q)
  <2>1. Apply(IF a.receipt.status = "OK" THEN CommitAdmittedStream(a.st, p, a.receipt) ELSE a)
    BY <1>3 DEF Activate
  <2>2. AdmitOutcome(a, receipts, p)
    BY <1>g, AdmitKeeps
  <2> HIDE DEF a
  <2>3. CASE a.receipt.status = "OK"
    <3> DEFINE t == a.st
               r == a.receipt
               b == CommitAdmittedStream(t, p, r)
    <3>g. /\ Good(t, receipts \cup {r}) /\ r.status = "OK"
          /\ t.reservation = p /\ r.preparation = GenerationReceipt(p, "RESERVED")
      BY <2>2, <2>3 DEF AdmitOutcome
    <3> HIDE DEF t, r
    <3>c. /\ b.receipt.status = "OK" => Good(b.st, receipts \cup {b.receipt})
          /\ b.receipt.status # "OK" => Good(b.st, receipts \cup {r})
          /\ t.reservation = p /\ r.preparation = GenerationReceipt(p, "RESERVED") =>
                  b.receipt.status = "OK"
      BY <3>g, CommitKeeps, Zenon
    <3>1. b.receipt.status = "OK" /\ Good(b.st, receipts \cup {b.receipt})
      BY <3>g, <3>c, Zenon
    <3>2. Apply(b)
      BY <2>1, <2>3 DEF t, r
    <3> HIDE DEF b
    <3> QED BY <3>1, <3>2, ApplyKeeps
  <2>4. CASE a.receipt.status # "OK"
    <3>1. Apply(a)
      BY <2>1, <2>4
    <3> QED BY <2>2, <2>4, <3>1, ApplyKeeps DEF AdmitOutcome
  <2> QED BY <2>3, <2>4
<1>4. ASSUME NEW p \in Providers, NEW r \in receipts, Commit(p, r)
      PROVE  ActivationInv'
  <2> DEFINE a == CommitAdmittedStream(St, p, r)
  <2>1. Apply(a)
    BY <1>4 DEF Commit
  <2>2. r.status = "OK" /\ receipts \cup {r} = receipts
    BY <1>g
  <2>3. /\ a.receipt.status = "OK" => Good(a.st, receipts \cup {a.receipt})
        /\ a.receipt.status # "OK" => Good(a.st, receipts \cup {r})
    BY <1>g, <2>2, CommitKeeps
  <2> HIDE DEF a
  <2> QED BY <2>1, <2>2, <2>3, ApplyKeeps
<1>5. ASSUME NEW p \in Providers, NEW r \in receipts, Abort(p, r)
      PROVE  ActivationInv'
  <2> DEFINE a == AbortAdmittedStream(St, p, r)
  <2>1. Apply(a)
    BY <1>5 DEF Abort
  <2>2. a.receipt.status = "OK" /\ Good(a.st, receipts \cup {a.receipt})
    BY <1>g, AbortReceiptKeeps
  <2> HIDE DEF a
  <2> QED BY <2>1, <2>2, ApplyKeeps
<1>6. ASSUME NEW p \in Providers, Recreate(p)
      PROVE  ActivationInv'
  <2> DEFINE t == ProviderAbort(St, p)
             fresh == [prepared |-> TRUE, ticket |-> FALSE, receipt |-> NoEpoch]
             u == [active |-> t.active, reservation |-> t.reservation,
                   act |-> [t.act EXCEPT ![p] = fresh], switches |-> t.switches]
  <2>1. Good(t, receipts)
    BY <1>g, AbortKeeps
  <2>2. t.reservation # p
    BY <1>g, AbortGivesUp DEF Good, OfferAssumption
  <2>3. t.active = active /\ t.switches = switches
    BY DEF ProviderAbort, St
  <2>4. St' = u /\ receipts' = receipts
    BY <1>6, <2>3 DEF Recreate, St
  <2> HIDE DEF t
  <2>5. StShape(u) /\ Switched(u)
    BY <2>1 DEF Good, StGood, StShape, Switched
  <2>6. ASSUME NEW x \in Providers PROVE TicketOf(u, x)
    <3>1. CASE x = p
      BY <2>1, <2>2, <3>1 DEF Good, StGood, StShape, TicketOf
    <3>2. CASE x # p
      <4>1. u.act[x] = t.act[x]
        BY <2>1, <3>2 DEF Good, StGood, StShape
      <4>2. TicketOf(t, x)
        BY <2>1 DEF Good, StGood
      <4> QED BY <4>1, <4>2 DEF TicketOf
    <3> QED BY <3>1, <3>2
  <2>7. Backed(u, receipts)
    <3>1. t.reservation # NoEpoch => u.act[t.reservation] = t.act[t.reservation]
      BY <2>1, <2>2 DEF Good, StGood, StShape
    <3> QED BY <2>1, <3>1 DEF Good, Backed
  <2>8. Good(u, receipts)
    BY <2>1, <2>5, <2>6, <2>7 DEF Good, StGood
  <2> HIDE DEF u
  <2>9. Good(St, receipts)'
    BY <2>4, <2>8 DEF Good, StGood, StShape, Switched, TicketOf, Backed, ReceiptTrue, ReceiptShape, AdmittedBy, GenerationReceipt
  <2> QED BY <2>4, <2>9, <1>g DEF ActivationInv
<1> QED BY <1>1, <1>2, <1>3, <1>4, <1>5, <1>6 DEF ActivationNext

LEMMA ActivationInvariant == OfferAssumption => (ActivationSpec => []ActivationInv)
<1> SUFFICES ASSUME OfferAssumption PROVE ActivationSpec => []ActivationInv OBVIOUS
<1>1. ActivationInit => ActivationInv
  BY InitActivation
<1>2. ActivationInv /\ [ActivationNext]_activationVars => ActivationInv'
  BY StepActivation
<1> QED BY <1>1, <1>2, PTL DEF ActivationSpec

\* A provider holds a ticket only for a stream that was staged, from the context
\* and over the epoch it was offered for: the ABI's prepare and the framework's
\* admission agree on every interleaving (laplace_framework_admit_staged_stream).
THEOREM TicketsAreAdmitted == OfferAssumption => (ActivationSpec => []ReservationIsAdmitted)
<1> SUFFICES ASSUME OfferAssumption PROVE ActivationSpec => []ReservationIsAdmitted OBVIOUS
<1>1. ActivationInv => ReservationIsAdmitted
  BY DEF OfferAssumption, ActivationInv, Good, StGood, TicketOf, Backed, St, ReservationIsAdmitted
<1> QED BY <1>1, ActivationInvariant, PTL

\* Every switch of the active epoch is of a commit that expected the epoch it
\* replaced (laplace_framework_commit_admitted_stream over the provider's commit).
THEOREM SwitchesAreExpected == OfferAssumption => (ActivationSpec => []TransitionsAreExpected)
<1>1. ActivationInv => TransitionsAreExpected
  BY DEF ActivationInv, Good, StGood, Switched, St, TransitionsAreExpected
<1> QED BY <1>1, ActivationInvariant, PTL

\* A receipt chain that validates as committed is of a switch that took place,
\* from a context that could ask for it: what
\* laplace_framework_activation_receipt_validate accepts, happened.
THEOREM ActivationsAreReal == OfferAssumption => (ActivationSpec => []ActivatedIsReal)
<1>1. ActivationInv => ActivatedIsReal
  <2> SUFFICES ASSUME ActivationInv, NEW r \in receipts, CommittedReceiptsValid(r, Admission(r), r)
               PROVE  /\ ~r.ctx.readOnly /\ r.ctx.epochs[Perfcache] = r.request.expected
                      /\ \E w \in switches :
                             /\ w.to = r.request.next
                             /\ Offer[w.provider].staged = r.staged
                             /\ Offer[w.provider].ctx = r.ctx
                             /\ r.activation = GenerationReceipt(w.provider, "ACTIVATED")
    BY DEF ActivatedIsReal
  <2>1. ReceiptTrue(r, switches)
    BY DEF ActivationInv, Good, St
  <2>2. r.effect = "ACTIVATED"
    BY <2>1 DEF CommittedReceiptsValid, ReceiptTrue, ReceiptShape
  <2> QED BY <2>1, <2>2 DEF ReceiptTrue, AdmittedBy
<1> QED BY <1>1, ActivationInvariant, PTL

\* The three together, for any offers, contexts and streams: the receipts of the
\* framework's activation functions are true of the provider.
THEOREM ReceiptsAreSound == OfferAssumption => (ActivationSpec => []ReceiptsAreReal)
<1>1. ReservationIsAdmitted /\ TransitionsAreExpected /\ ActivatedIsReal => ReceiptsAreReal
  BY DEF ReceiptsAreReal
<1> QED BY <1>1, TicketsAreAdmitted, SwitchesAreExpected, ActivationsAreReal, PTL

-----------------------------------------------------------------------------

(***************************************************************************)
(* The canonical spool.                                                    *)
(***************************************************************************)

\* Induction over the naturals, as a set that 0 is in and that is closed under
\* successor: a least number outside of it would have a predecessor inside.
LEMMA NatSetInduction ==
  ASSUME NEW S, 0 \in S, \A n \in Nat : n \in S => n + 1 \in S
  PROVE  Nat \subseteq S
<1> SUFFICES ASSUME ~(Nat \subseteq S) PROVE FALSE
  OBVIOUS
<1> DEFINE T == Nat \ S
           R == OpToRel(<, Nat)
<1>1. T # {} /\ T \subseteq Nat
  OBVIOUS
<1>2. IsWellFoundedOn(R, Nat)
  BY NatLessThanWellFounded
<1>3. PICK m \in T : \A y \in T : ~(<<y, m>> \in R)
  <2> HIDE DEF T, R
  <2> QED BY <1>1, <1>2, WFMin
<1>4. m \in Nat /\ m # 0
  BY <1>3
<1>5. m - 1 \in T
  <2>1. m - 1 \in Nat /\ (m - 1) + 1 = m
    BY <1>4
  <2>2. m \notin S
    BY <1>3
  <2> QED BY <2>1, <2>2
<1>6. <<m - 1, m>> \in R
  BY <1>4 DEF OpToRel
<1> QED BY <1>3, <1>5, <1>6

\* s holds the running totals of w up to n.
Totals(s, w, n) ==
    /\ s \in [0 .. n -> Nat]
    /\ s[0] = 0
    /\ \A i \in 1 .. n : s[i] = s[i - 1] + w[i]

\* The running totals exist, and the recursive function of Spool is them.
LEMMA TotalsExist ==
  ASSUME NEW w \in Seq(Nat)
  PROVE  \E s : Totals(s, w, Len(w))
<1> DEFINE S == {n \in Nat : n <= Len(w) => \E s : Totals(s, w, n)}
<1>1. 0 \in S
  <2>1. Totals([i \in 0 .. 0 |-> 0], w, 0)
    BY DEF Totals
  <2> QED BY <2>1
<1>2. ASSUME NEW n \in Nat, n \in S PROVE n + 1 \in S
  <2>1. CASE n + 1 <= Len(w)
    <3>1. PICK s : Totals(s, w, n)
      BY <1>2, <2>1
    <3> DEFINE t == [i \in 0 .. n + 1 |-> IF i = n + 1 THEN s[n] + w[n + 1] ELSE s[i]]
    <3>2. w[n + 1] \in Nat
      BY <2>1
    <3>3. s \in [0 .. n -> Nat] /\ s[0] = 0 /\ \A i \in 1 .. n : s[i] = s[i - 1] + w[i]
      BY <3>1 DEF Totals
    <3>4. t \in [0 .. n + 1 -> Nat] /\ t[0] = 0
      BY <3>2, <3>3
    <3>5. t[n + 1] = s[n] + w[n + 1] /\ \A i \in 0 .. n : t[i] = s[i]
      OBVIOUS
    <3>6. ASSUME NEW i \in 1 .. n + 1 PROVE t[i] = t[i - 1] + w[i]
      <4> HIDE DEF t
      <4>1. CASE i = n + 1
        BY <4>1, <3>5
      <4>2. CASE i # n + 1
        <5>1. i \in 1 .. n /\ i \in 0 .. n /\ i - 1 \in 0 .. n
          BY <4>2
        <5> QED BY <5>1, <3>5, <3>3
      <4> QED BY <4>1, <4>2
    <3>7. Totals(t, w, n + 1)
      <4> HIDE DEF t
      <4> QED BY <3>4, <3>6 DEF Totals
    <3> QED BY <3>7
  <2>2. CASE ~(n + 1 <= Len(w))
    BY <2>2
  <2> QED BY <2>1, <2>2
<1>3. Nat \subseteq S
  <2> HIDE DEF S
  <2> QED BY <1>1, <1>2, NatSetInduction
<1> QED BY <1>3

LEMMA RunningTotals ==
  ASSUME NEW w \in Seq(Nat)
  PROVE  Totals(Running(w), w, Len(w))
<1> DEFINE F(f) == [n \in 0 .. Len(w) |-> IF n = 0 THEN 0 ELSE f[n - 1] + w[n]]
<1>1. PICK s : Totals(s, w, Len(w))
  BY TotalsExist
<1>2. s = F(s)
  BY <1>1 DEF Totals
<1>3. Running(w) = CHOOSE f : f = F(f)
  BY DEF Running
<1>4. Running(w) = F(Running(w))
  BY <1>2, <1>3
<1>5. Running(w)[0] = 0 /\ \A i \in 1 .. Len(w) : Running(w)[i] = Running(w)[i - 1] + w[i]
  BY <1>4
<1>6. ASSUME NEW n \in Nat PROVE n <= Len(w) => Running(w)[n] \in Nat
  <2> DEFINE S == {k \in Nat : k <= Len(w) => Running(w)[k] \in Nat}
  <2>1. 0 \in S
    BY <1>5
  <2>2. ASSUME NEW k \in Nat, k \in S PROVE k + 1 \in S
    <3>1. CASE k + 1 <= Len(w)
      <4>1. Running(w)[k + 1] = Running(w)[k] + w[k + 1] /\ w[k + 1] \in Nat
        BY <1>5, <3>1
      <4> QED BY <2>2, <3>1, <4>1
    <3>2. CASE ~(k + 1 <= Len(w))
      BY <3>2
    <3> QED BY <3>1, <3>2
  <2>3. Nat \subseteq S
    <3> HIDE DEF S
    <3> QED BY <2>1, <2>2, NatSetInduction
  <2> QED BY <2>3
<1>7. Running(w) \in [0 .. Len(w) -> Nat]
  <2>1. Running(w) = [n \in 0 .. Len(w) |-> Running(w)[n]]
    BY <1>4
  <2> QED BY <2>1, <1>6
<1> QED BY <1>5, <1>7 DEF Totals

\* The running totals of two sequences that agree up to n agree up to n.
LEMMA TotalsOfPrefix ==
  ASSUME NEW v \in Seq(Nat), NEW w \in Seq(Nat), NEW n \in Nat,
         n <= Len(v), n <= Len(w), \A i \in 1 .. n : v[i] = w[i]
  PROVE  Running(v)[n] = Running(w)[n]
<1> DEFINE S == {k \in Nat : k <= n => Running(v)[k] = Running(w)[k]}
<1>1. Totals(Running(v), v, Len(v)) /\ Totals(Running(w), w, Len(w))
  BY RunningTotals
<1>2. 0 \in S
  BY <1>1 DEF Totals
<1>3. ASSUME NEW k \in Nat, k \in S PROVE k + 1 \in S
  <2>1. CASE k + 1 <= n
    <3>1. k + 1 \in 1 .. n /\ k + 1 \in 1 .. Len(v) /\ k + 1 \in 1 .. Len(w) /\ k <= n
      BY <2>1
    <3>2. Running(v)[k + 1] = Running(v)[k] + v[k + 1] /\ Running(w)[k + 1] = Running(w)[k] + w[k + 1]
      BY <3>1, <1>1 DEF Totals
    <3>3. Running(v)[k] = Running(w)[k] /\ v[k + 1] = w[k + 1]
      BY <1>3, <3>1
    <3> QED BY <3>2, <3>3
  <2>2. CASE ~(k + 1 <= n)
    BY <2>2
  <2> QED BY <2>1, <2>2
<1>4. Nat \subseteq S
  <2> HIDE DEF S
  <2> QED BY <1>2, <1>3, NatSetInduction
<1> QED BY <1>4

\* The records and the bytes of the batches of seq.
RecordsOf(seq) == [i \in 1 .. Len(seq) |-> seq[i].records]

\* The totals of batches are numbers, and none before the first batch.
LEMMA TotalsAreNumbers ==
  ASSUME BoundsAssumption, NEW seq \in Seq(Batches), NEW n \in 0 .. Len(seq)
  PROVE  /\ RecordsBefore(seq, n) \in Nat /\ BytesBefore(Lengths(seq), n) \in Nat
         /\ RecordsBefore(seq, 0) = 0 /\ BytesBefore(Lengths(seq), 0) = 0
         /\ RecordsOf(seq) \in Seq(Nat) /\ Len(RecordsOf(seq)) = Len(seq)
         /\ Lengths(seq) \in Seq(Nat) /\ Len(Lengths(seq)) = Len(seq)
<1>1. \A i \in 1 .. Len(seq) : seq[i].records \in Nat /\ Len(seq[i].bytes) \in Nat
  BY DEF BoundsAssumption
<1>2. RecordsOf(seq) \in Seq(Nat) /\ Len(RecordsOf(seq)) = Len(seq)
  BY <1>1 DEF RecordsOf
<1>3. Lengths(seq) \in Seq(Nat) /\ Len(Lengths(seq)) = Len(seq)
  BY <1>1 DEF Lengths
<1>4. Totals(Running(RecordsOf(seq)), RecordsOf(seq), Len(seq))
  BY <1>2, RunningTotals
<1>5. Totals(Running(Lengths(seq)), Lengths(seq), Len(seq))
  BY <1>3, RunningTotals
<1>6. RecordsBefore(seq, n) \in Nat /\ RecordsBefore(seq, 0) = 0
  BY <1>4 DEF Totals, RecordsBefore, RecordsOf
<1>7. BytesBefore(Lengths(seq), n) \in Nat /\ BytesBefore(Lengths(seq), 0) = 0
  BY <1>5 DEF Totals, BytesBefore
<1> QED BY <1>2, <1>3, <1>6, <1>7

\* An appended batch adds its own records and bytes, and changes no earlier total.
LEMMA TotalsOfAppend ==
  ASSUME BoundsAssumption, NEW seq \in Seq(Batches), NEW b \in Batches
  PROVE  /\ \A n \in 0 .. Len(seq) :
              /\ RecordsBefore(Append(seq, b), n) = RecordsBefore(seq, n)
              /\ BytesBefore(Lengths(Append(seq, b)), n) = BytesBefore(Lengths(seq), n)
         /\ RecordsBefore(Append(seq, b), Len(seq) + 1) = RecordsBefore(seq, Len(seq)) + b.records
         /\ BytesBefore(Lengths(Append(seq, b)), Len(seq) + 1)
              = BytesBefore(Lengths(seq), Len(seq)) + Len(b.bytes)
<1> DEFINE t == Append(seq, b)
<1>1. t \in Seq(Batches) /\ Len(t) = Len(seq) + 1
      /\ (\A i \in 1 .. Len(seq) : t[i] = seq[i]) /\ t[Len(seq) + 1] = b
  OBVIOUS
<1> HIDE DEF t
<1>2. /\ RecordsOf(seq) \in Seq(Nat) /\ Len(RecordsOf(seq)) = Len(seq)
      /\ Lengths(seq) \in Seq(Nat) /\ Len(Lengths(seq)) = Len(seq)
  BY TotalsAreNumbers
<1>3. /\ RecordsOf(t) \in Seq(Nat) /\ Len(RecordsOf(t)) = Len(seq) + 1
      /\ Lengths(t) \in Seq(Nat) /\ Len(Lengths(t)) = Len(seq) + 1
  BY TotalsAreNumbers, <1>1
<1>4. \A i \in 1 .. Len(seq) : RecordsOf(t)[i] = RecordsOf(seq)[i] /\ Lengths(t)[i] = Lengths(seq)[i]
  BY <1>1 DEF RecordsOf, Lengths
<1>5. RecordsOf(t)[Len(seq) + 1] = b.records /\ Lengths(t)[Len(seq) + 1] = Len(b.bytes)
  BY <1>1 DEF RecordsOf, Lengths
<1>6. ASSUME NEW n \in 0 .. Len(seq)
      PROVE  /\ RecordsBefore(t, n) = RecordsBefore(seq, n)
             /\ BytesBefore(Lengths(t), n) = BytesBefore(Lengths(seq), n)
  <2>1. n \in Nat /\ n <= Len(seq) /\ n <= Len(seq) + 1 /\ \A i \in 1 .. n : i \in 1 .. Len(seq)
    OBVIOUS
  <2>2. Running(RecordsOf(t))[n] = Running(RecordsOf(seq))[n]
    BY <2>1, <1>2, <1>3, <1>4, TotalsOfPrefix
  <2>3. Running(Lengths(t))[n] = Running(Lengths(seq))[n]
    BY <2>1, <1>2, <1>3, <1>4, TotalsOfPrefix
  <2> QED BY <2>2, <2>3 DEF RecordsBefore, RecordsOf, BytesBefore
<1>7. RecordsBefore(t, Len(seq) + 1) = RecordsBefore(t, Len(seq)) + b.records
  <2>1. Totals(Running(RecordsOf(t)), RecordsOf(t), Len(seq) + 1)
    BY <1>3, RunningTotals
  <2>2. Running(RecordsOf(t))[Len(seq) + 1] = Running(RecordsOf(t))[Len(seq)] + b.records
    BY <2>1, <1>5 DEF Totals
  <2> QED BY <2>2 DEF RecordsBefore, RecordsOf
<1>8. BytesBefore(Lengths(t), Len(seq) + 1) = BytesBefore(Lengths(t), Len(seq)) + Len(b.bytes)
  <2>1. Totals(Running(Lengths(t)), Lengths(t), Len(seq) + 1)
    BY <1>3, RunningTotals
  <2> QED BY <2>1, <1>5 DEF Totals, BytesBefore
<1> QED BY <1>6, <1>7, <1>8 DEF t

-----------------------------------------------------------------------------

\* The metadata of a batch.
Places == [offset : Nat, bytes : Nat, records : Nat, ordinal : Nat]

\* What the object holds: its fields, and the totals of what was acknowledged.
ObjectOfAcked ==
    /\ acked \in Seq(Batches)
    /\ file \in Seq(Bytes)
    /\ spool.exists \in BOOLEAN
    /\ spool.exists =>
          /\ DOMAIN spool = DOMAIN Empty
          /\ spool.sealed \in BOOLEAN /\ spool.failed \in BOOLEAN
          /\ spool.count = Len(acked)
          /\ spool.records = RecordsBefore(acked, Len(acked))
          /\ spool.bytes = BytesBefore(Lengths(acked), Len(acked))
          /\ spool.records <= MaxTotal /\ spool.bytes <= MaxTotal

\* The metadata of the acknowledged batches are their places in the file; more
\* are there only when the spool failed.
MetadataOfAcked ==
    spool.exists =>
        /\ spool.metadata \in Seq(Places)
        /\ Len(acked) <= Len(spool.metadata)
        /\ ~spool.failed => Len(spool.metadata) = Len(acked)
        /\ \A i \in 1 .. Len(acked) :
              /\ spool.metadata[i].offset = BytesBefore(Lengths(acked), i - 1)
              /\ spool.metadata[i].offset + spool.metadata[i].bytes = BytesBefore(Lengths(acked), i)
              /\ spool.metadata[i].bytes = Len(acked[i].bytes)
              /\ spool.metadata[i].ordinal + spool.metadata[i].records = RecordsBefore(acked, i)
              /\ spool.metadata[i].offset + spool.metadata[i].bytes <= spool.bytes

\* Until a failure the file holds the acknowledged bytes and no others.
FileOfAcked ==
    spool.exists /\ ~spool.failed =>
        /\ Len(file) = spool.bytes
        /\ \A i \in 1 .. Len(acked) : \A k \in 1 .. spool.metadata[i].bytes :
              file[spool.metadata[i].offset + k] = acked[i].bytes[k]

\* A sealed spool has not failed and maps the acknowledged bytes.
SealedOfAcked ==
    spool.exists /\ spool.sealed =>
        /\ ~spool.failed
        /\ spool.batches = [i \in DOMAIN acked |-> acked[i].bytes]

\* What was read is a prefix of what was acknowledged, and the cursor is behind it.
ReaderOfAcked ==
    /\ DOMAIN reader = DOMAIN NoReader
    /\ reader.open \in BOOLEAN
    /\ reader.open =>
          /\ spool.exists /\ spool.sealed
          /\ reader.got \in Seq(Seq(Bytes))
          /\ reader.index = Len(reader.got)
          /\ Len(reader.got) <= Len(acked)
          /\ \A i \in 1 .. Len(reader.got) : reader.got[i] = acked[i].bytes
          /\ reader.cursor = <<Len(reader.got), RecordsBefore(acked, Len(reader.got)),
                               BytesBefore(Lengths(acked), Len(reader.got))>>

SpoolInv ==
    ObjectOfAcked /\ MetadataOfAcked /\ FileOfAcked /\ SealedOfAcked /\ ReaderOfAcked

LEMMA InitSpool == BoundsAssumption /\ SpoolInit => SpoolInv
<1> SUFFICES ASSUME BoundsAssumption, SpoolInit PROVE SpoolInv
  OBVIOUS
<1>1. ~spool.exists /\ spool.exists \in BOOLEAN /\ acked = <<>> /\ file = <<>> /\ reader = NoReader
  BY DEF SpoolInit, NoSpool
<1>2. ObjectOfAcked /\ MetadataOfAcked /\ FileOfAcked /\ SealedOfAcked
  BY <1>1 DEF ObjectOfAcked, MetadataOfAcked, FileOfAcked, SealedOfAcked
<1>3. ReaderOfAcked
  BY <1>1 DEF ReaderOfAcked, NoReader
<1> QED BY <1>2, <1>3 DEF SpoolInv

LEMMA CreateKeeps == BoundsAssumption /\ SpoolInv /\ Create => SpoolInv'
<1> SUFFICES ASSUME BoundsAssumption, SpoolInv, Create PROVE SpoolInv'
  OBVIOUS
<1>1. ~spool.exists /\ acked' = <<>> /\ file' = <<>> /\ reader' = reader
  BY DEF Create
<1>2. ~reader.open /\ ReaderOfAcked'
  BY <1>1 DEF SpoolInv, ReaderOfAcked, NoReader
<1>3. CASE spool' = Empty
  <2>1. /\ spool'.exists /\ spool'.metadata = <<>> /\ spool'.records = 0 /\ spool'.bytes = 0
        /\ spool'.count = 0 /\ ~spool'.sealed /\ ~spool'.failed /\ DOMAIN spool' = DOMAIN Empty
        /\ spool'.exists \in BOOLEAN /\ spool'.sealed \in BOOLEAN /\ spool'.failed \in BOOLEAN
    BY <1>3 DEF Empty
  <2>2. RecordsBefore(acked', 0) = 0 /\ BytesBefore(Lengths(acked'), 0) = 0 /\ Len(acked') = 0
    <3>1. acked' \in Seq(Batches) /\ Len(acked') = 0 /\ 0 \in 0 .. Len(acked')
      BY <1>1
    <3> QED BY <3>1, TotalsAreNumbers
  <2>3. ObjectOfAcked'
    BY <1>1, <2>1, <2>2 DEF ObjectOfAcked, BoundsAssumption
  <2>4. MetadataOfAcked' /\ FileOfAcked' /\ SealedOfAcked'
    BY <1>1, <2>1, <2>2 DEF MetadataOfAcked, FileOfAcked, SealedOfAcked
  <2> QED BY <2>3, <2>4, <1>2 DEF SpoolInv
<1>4. CASE spool' = spool
  BY <1>1, <1>2, <1>4 DEF SpoolInv, ObjectOfAcked, MetadataOfAcked, FileOfAcked, SealedOfAcked
<1> QED BY <1>3, <1>4 DEF Create

\* A spool that neither was sealed nor failed has no reader.
LEMMA UnsealedIsUnread ==
  SpoolInv /\ spool.exists /\ ~spool.sealed => ~reader.open
BY DEF SpoolInv, ReaderOfAcked

\* A byte of a piece that ends inside the file is in the file.
LEMMA InsideFile ==
  ASSUME NEW o \in Nat, NEW n \in Nat, NEW total \in Nat, o + n <= total, NEW k \in 1 .. n
  PROVE  o + k \in 1 .. total
OBVIOUS

\* A complete append: one batch more, at the end of everything.
LEMMA AppendKeeps ==
  ASSUME BoundsAssumption, SpoolInv, NEW b \in Batches, spool.exists,
         ~spool.sealed, ~spool.failed, Acceptable(b), Append_(b), reader' = reader
  PROVE  SpoolInv'
<1>1. /\ acked \in Seq(Batches) /\ acked' = Append(acked, b) /\ acked' \in Seq(Batches)
      /\ Len(acked') = Len(acked) + 1 /\ acked'[Len(acked) + 1] = b
      /\ \A i \in 1 .. Len(acked) : acked'[i] = acked[i]
  BY DEF SpoolInv, ObjectOfAcked, Append_
<1>2. /\ DOMAIN spool = DOMAIN Empty
      /\ spool.sealed \in BOOLEAN /\ spool.failed \in BOOLEAN /\ spool.exists \in BOOLEAN
      /\ spool.count = Len(acked)
      /\ spool.records = RecordsBefore(acked, Len(acked))
      /\ spool.bytes = BytesBefore(Lengths(acked), Len(acked))
      /\ file \in Seq(Bytes)
  BY DEF SpoolInv, ObjectOfAcked
<1>3. /\ spool'.exists = spool.exists /\ spool'.sealed = spool.sealed /\ spool'.failed = spool.failed
      /\ spool'.metadata = Append(spool.metadata, Metadata(b))
      /\ spool'.records = spool.records + b.records
      /\ spool'.bytes = spool.bytes + Len(b.bytes)
      /\ spool'.count = spool.count + 1
      /\ DOMAIN spool' = DOMAIN Empty
  BY <1>2 DEF Append_, Empty
<1>4. /\ spool.records \in Nat /\ spool.bytes \in Nat /\ b.records \in Nat /\ b.ordinal \in Nat
      /\ b.bytes \in Seq(Bytes) /\ Len(b.bytes) \in Nat /\ MaxTotal \in Nat
  <2>1. Len(acked) \in 0 .. Len(acked)
    BY <1>1
  <2>2. spool.records \in Nat /\ spool.bytes \in Nat
    BY <2>1, <1>1, <1>2, TotalsAreNumbers
  <2> QED BY <2>2 DEF BoundsAssumption
<1>5. /\ \A n \in 0 .. Len(acked) :
            /\ RecordsBefore(acked', n) = RecordsBefore(acked, n)
            /\ BytesBefore(Lengths(acked'), n) = BytesBefore(Lengths(acked), n)
      /\ RecordsBefore(acked', Len(acked) + 1) = spool'.records
      /\ BytesBefore(Lengths(acked'), Len(acked) + 1) = spool'.bytes
  BY <1>1, <1>2, <1>3, TotalsOfAppend
<1>6. /\ file' = file \o b.bytes /\ file' \in Seq(Bytes) /\ Len(file') = Len(file) + Len(b.bytes)
      /\ \A k \in 1 .. Len(file) : file'[k] = file[k]
      /\ \A k \in 1 .. Len(b.bytes) : file'[Len(file) + k] = b.bytes[k]
  <2>1. file' = file \o b.bytes
    BY DEF Append_
  <2>2. file \in Seq(Bytes) /\ b.bytes \in Seq(Bytes)
    BY <1>2, <1>4
  <2> QED BY <2>1, <2>2, ConcatProperties
<1>7. ObjectOfAcked'
  <2>1. spool'.records <= MaxTotal /\ spool'.bytes <= MaxTotal
    BY <1>3, <1>4 DEF Acceptable
  <2> QED BY <1>1, <1>2, <1>3, <1>5, <1>6, <2>1 DEF ObjectOfAcked
<1>8. /\ spool.metadata \in Seq(Places)
      /\ Len(spool.metadata) = Len(acked)
      /\ Metadata(b) \in Places
  BY <1>4 DEF SpoolInv, MetadataOfAcked, Metadata, Places
<1>9. /\ spool'.metadata \in Seq(Places)
      /\ Len(spool'.metadata) = Len(acked) + 1
      /\ \A i \in 1 .. Len(acked) : spool'.metadata[i] = spool.metadata[i]
      /\ spool'.metadata[Len(acked) + 1] = Metadata(b)
  BY <1>3, <1>8
<1>10. \A i \in 1 .. Len(acked) :
              /\ spool.metadata[i].offset = BytesBefore(Lengths(acked), i - 1)
              /\ spool.metadata[i].offset + spool.metadata[i].bytes = BytesBefore(Lengths(acked), i)
              /\ spool.metadata[i].bytes = Len(acked[i].bytes)
              /\ spool.metadata[i].ordinal + spool.metadata[i].records = RecordsBefore(acked, i)
              /\ spool.metadata[i].offset + spool.metadata[i].bytes <= spool.bytes
              /\ spool.metadata[i].offset \in Nat /\ spool.metadata[i].bytes \in Nat
  <2>1. \A i \in 1 .. Len(acked) :
           spool.metadata[i] \in Places
    BY <1>8
  <2>2. \A i \in 1 .. Len(acked) : spool.metadata[i].offset \in Nat /\ spool.metadata[i].bytes \in Nat
    BY <2>1 DEF Places
  <2> QED BY <2>2 DEF SpoolInv, MetadataOfAcked
<1>11. /\ Metadata(b).offset = spool.bytes /\ Metadata(b).bytes = Len(b.bytes)
       /\ Metadata(b).ordinal = spool.records /\ Metadata(b).records = b.records
  BY DEF Metadata, Acceptable
<1>12. MetadataOfAcked'
  <2>1. ASSUME NEW i \in 1 .. Len(acked')
        PROVE  /\ spool'.metadata[i].offset = BytesBefore(Lengths(acked'), i - 1)
               /\ spool'.metadata[i].offset + spool'.metadata[i].bytes = BytesBefore(Lengths(acked'), i)
               /\ spool'.metadata[i].bytes = Len(acked'[i].bytes)
               /\ spool'.metadata[i].ordinal + spool'.metadata[i].records = RecordsBefore(acked', i)
               /\ spool'.metadata[i].offset + spool'.metadata[i].bytes <= spool'.bytes
    <3>1. CASE i = Len(acked) + 1
      <4>1. spool'.metadata[i] = Metadata(b) /\ acked'[i] = b /\ i - 1 = Len(acked)
        BY <3>1, <1>9, <1>1
      <4>2. BytesBefore(Lengths(acked'), i - 1) = spool.bytes
        BY <4>1, <1>1, <1>2, <1>5
      <4> QED BY <3>1, <4>1, <4>2, <1>11, <1>5, <1>3, <1>4
    <3>2. CASE i # Len(acked) + 1
      <4>1. i \in 1 .. Len(acked) /\ i \in 0 .. Len(acked) /\ i - 1 \in 0 .. Len(acked)
        BY <3>2, <1>1
      <4>2. /\ spool'.metadata[i] = spool.metadata[i] /\ acked'[i] = acked[i]
            /\ BytesBefore(Lengths(acked'), i - 1) = BytesBefore(Lengths(acked), i - 1)
            /\ BytesBefore(Lengths(acked'), i) = BytesBefore(Lengths(acked), i)
            /\ RecordsBefore(acked', i) = RecordsBefore(acked, i)
        BY <4>1, <1>9, <1>1, <1>5
      <4>3. spool.bytes <= spool'.bytes
        BY <1>3, <1>4
      <4>4. spool.metadata[i].offset + spool.metadata[i].bytes <= spool'.bytes
        <5>1. /\ spool.metadata[i].offset + spool.metadata[i].bytes <= spool.bytes
              /\ spool.metadata[i].offset \in Nat /\ spool.metadata[i].bytes \in Nat
          BY <4>1, <1>10
        <5>2. spool'.bytes \in Nat
          BY <1>3, <1>4
        <5>3. spool.bytes \in Nat
          BY <1>4
        <5> DEFINE offset == spool.metadata[i].offset
                   bytes == spool.metadata[i].bytes
        <5>4. offset \in Nat /\ bytes \in Nat /\ offset + bytes <= spool.bytes
          BY <5>1
        <5> HIDE DEF offset, bytes
        <5>5. offset + bytes <= spool'.bytes
          BY <4>3, <5>2, <5>3, <5>4
        <5> QED BY <5>5 DEF offset, bytes
      <4> QED BY <4>1, <4>2, <4>4, <1>10
    <3> QED BY <3>1, <3>2
  <2>2. Len(acked') <= Len(spool'.metadata) /\ Len(spool'.metadata) = Len(acked')
    BY <1>9, <1>1
  <2> QED BY <2>1, <2>2, <1>9 DEF MetadataOfAcked
<1>13. FileOfAcked'
  <2>1. Len(file) = spool.bytes /\ \A i \in 1 .. Len(acked) : \A k \in 1 .. spool.metadata[i].bytes :
              file[spool.metadata[i].offset + k] = acked[i].bytes[k]
    BY DEF SpoolInv, FileOfAcked
  <2>2. ASSUME NEW i \in 1 .. Len(acked'), NEW k \in 1 .. spool'.metadata[i].bytes
        PROVE  file'[spool'.metadata[i].offset + k] = acked'[i].bytes[k]
    <3>1. CASE i = Len(acked) + 1
      <4>1. spool'.metadata[i] = Metadata(b) /\ acked'[i] = b
        BY <3>1, <1>9, <1>1
      <4>2. k \in 1 .. Metadata(b).bytes
        BY <4>1
      <4> QED BY <4>1, <4>2, <1>11, <1>6, <2>1
    <3>2. CASE i # Len(acked) + 1
      <4>1. i \in 1 .. Len(acked)
        BY <3>2, <1>1
      <4>2. spool'.metadata[i] = spool.metadata[i] /\ acked'[i] = acked[i]
        BY <4>1, <1>9, <1>1
      <4>3. spool.metadata[i].offset + k \in 1 .. Len(file)
        <5>1. /\ spool.metadata[i].offset + spool.metadata[i].bytes <= spool.bytes
              /\ spool.metadata[i].offset \in Nat /\ spool.metadata[i].bytes \in Nat
          BY <4>1, <1>10
        <5>2. k \in 1 .. spool.metadata[i].bytes
          BY <4>2
        <5>3. Len(file) = spool.bytes
          BY <2>1
        <5>4. Len(file) \in Nat
          BY <1>2
        <5> QED BY <5>1, <5>2, <5>3, <5>4, InsideFile
      <4> QED BY <4>1, <4>2, <4>3, <1>6, <2>1, SMTT(20)
    <3> QED BY <3>1, <3>2
  <2>3. Len(file') = spool'.bytes
    BY <2>1, <1>3, <1>6
  <2> QED BY <2>2, <2>3 DEF FileOfAcked
<1>14. SealedOfAcked'
  BY <1>3 DEF SealedOfAcked
<1>15. ReaderOfAcked'
  <2>1. ~reader.open
    BY UnsealedIsUnread
  <2> QED BY <2>1 DEF SpoolInv, ReaderOfAcked
<1> QED BY <1>7, <1>12, <1>13, <1>14, <1>15 DEF SpoolInv

\* A failed append leaves the acknowledged batches and their places alone.
LEMMA AppendFailedKeeps ==
  ASSUME BoundsAssumption, SpoolInv, NEW b \in Batches, spool.exists, ~spool.sealed,
         NEW pushed \in BOOLEAN, NEW n \in 0 .. Len(b.bytes),
         AppendFailed(b, pushed, n), b.ordinal = spool.records, reader' = reader
  PROVE  SpoolInv'
<1>1. /\ acked \in Seq(Batches) /\ acked' = acked
      /\ DOMAIN spool = DOMAIN Empty
      /\ spool.sealed \in BOOLEAN /\ spool.failed \in BOOLEAN /\ spool.exists \in BOOLEAN
      /\ file \in Seq(Bytes)
      /\ b.bytes \in Seq(Bytes) /\ b.records \in Nat /\ b.ordinal \in Nat
  BY DEF SpoolInv, ObjectOfAcked, AppendFailed, BoundsAssumption
<1>2. /\ spool'.exists = spool.exists /\ spool'.sealed = spool.sealed /\ spool'.failed = TRUE
      /\ spool'.metadata = IF pushed THEN Append(spool.metadata, Metadata(b)) ELSE spool.metadata
      /\ spool'.records = spool.records /\ spool'.bytes = spool.bytes /\ spool'.count = spool.count
      /\ DOMAIN spool' = DOMAIN Empty
  BY <1>1 DEF AppendFailed, Empty
<1>3. file' \in Seq(Bytes)
  <2>1. file' = file \o SubSeq(b.bytes, 1, n)
    BY DEF AppendFailed
  <2>2. SubSeq(b.bytes, 1, n) \in Seq(Bytes)
    BY <1>1
  <2> QED BY <1>1, <2>1, <2>2, ConcatProperties
<1>4. ObjectOfAcked'
  BY <1>1, <1>2, <1>3 DEF SpoolInv, ObjectOfAcked
<1>5. /\ spool.metadata \in Seq(Places) /\ Len(acked) <= Len(spool.metadata)
  BY DEF SpoolInv, MetadataOfAcked
<1>6. Metadata(b) \in Places
  <2>1. Len(acked) \in 0 .. Len(acked)
    BY <1>1
  <2>2. spool.bytes \in Nat
    BY <2>1, <1>1, TotalsAreNumbers DEF SpoolInv, ObjectOfAcked
  <2>3. Len(b.bytes) \in Nat
    BY <1>1
  <2> QED BY <2>2, <2>3, <1>1 DEF Metadata, Places
<1>7. /\ spool'.metadata \in Seq(Places) /\ Len(acked) <= Len(spool'.metadata)
      /\ \A i \in 1 .. Len(acked) : spool'.metadata[i] = spool.metadata[i]
  <2>1. Len(acked) \in Nat
    BY <1>1
  <2>2. CASE pushed
    BY <2>1, <2>2, <1>2, <1>5, <1>6
  <2>3. CASE ~pushed
    BY <2>3, <1>2, <1>5
  <2> QED BY <2>2, <2>3
<1>8. MetadataOfAcked'
  BY <1>1, <1>2, <1>7 DEF SpoolInv, MetadataOfAcked
<1>9. FileOfAcked' /\ SealedOfAcked'
  BY <1>2 DEF FileOfAcked, SealedOfAcked
<1>10. ReaderOfAcked'
  <2>1. ~reader.open
    BY UnsealedIsUnread
  <2> QED BY <2>1 DEF SpoolInv, ReaderOfAcked
<1> QED BY <1>4, <1>8, <1>9, <1>10 DEF SpoolInv

LEMMA SpoolAppendKeeps ==
  ASSUME BoundsAssumption, SpoolInv, NEW b \in Batches, SpoolAppend(b)
  PROVE  SpoolInv'
<1>1. spool.exists /\ reader' = reader
  BY DEF SpoolAppend
<1>2. CASE spool.sealed \/ spool.failed \/ ~Acceptable(b)
  <2>1. spool' = spool /\ file' = file /\ acked' = acked
    BY <1>2 DEF SpoolAppend
  <2> QED BY <1>1, <2>1 DEF SpoolInv, ObjectOfAcked, MetadataOfAcked, FileOfAcked,
                           SealedOfAcked, ReaderOfAcked
<1>3. CASE ~spool.sealed /\ ~spool.failed /\ Acceptable(b)
  <2>1. CASE Append_(b)
    BY <1>1, <1>3, <2>1, AppendKeeps
  <2>2. ASSUME NEW pushed \in BOOLEAN, NEW n \in 0 .. Len(b.bytes), AppendFailed(b, pushed, n)
        PROVE  SpoolInv'
    <3>1. b.ordinal = spool.records
      BY <1>3 DEF Acceptable
    <3> QED BY <1>1, <1>3, <2>2, <3>1, AppendFailedKeeps
  <2>3. CASE AppendFailed(b, FALSE, 0)
    <3>1. 0 \in 0 .. Len(b.bytes) /\ FALSE \in BOOLEAN
      BY DEF BoundsAssumption
    <3> QED BY <2>2, <2>3, <3>1
  <2>4. CASE \E n \in 0 .. Len(b.bytes) - 1 : AppendFailed(b, TRUE, n)
    <3>1. PICK n \in 0 .. Len(b.bytes) - 1 : AppendFailed(b, TRUE, n)
      BY <2>4
    <3>2. n \in 0 .. Len(b.bytes) /\ TRUE \in BOOLEAN
      BY DEF BoundsAssumption
    <3> QED BY <2>2, <3>1, <3>2
  <2> QED BY <1>3, <2>1, <2>3, <2>4 DEF SpoolAppend
<1> QED BY <1>2, <1>3

\* Sealing a complete file maps the acknowledged bytes: every batch lies inside it.
LEMMA SealMapsAcked ==
  ASSUME BoundsAssumption, SpoolInv, spool.exists, ~spool.failed
  PROVE  [i \in DOMAIN spool.metadata |-> Mapped(file, spool.metadata[i])]
           = [i \in DOMAIN acked |-> acked[i].bytes]
<1>1. /\ acked \in Seq(Batches) /\ spool.metadata \in Seq(Places)
      /\ Len(spool.metadata) = Len(acked) /\ Len(file) = spool.bytes
  BY DEF SpoolInv, ObjectOfAcked, MetadataOfAcked, FileOfAcked
<1>2. DOMAIN spool.metadata = 1 .. Len(acked) /\ DOMAIN acked = 1 .. Len(acked)
  BY <1>1
<1>3. ASSUME NEW i \in 1 .. Len(acked)
      PROVE  Mapped(file, spool.metadata[i]) = acked[i].bytes
  <2>1. spool.metadata[i] \in Places /\ acked[i] \in Batches
    BY <1>1
  <2> DEFINE o == spool.metadata[i].offset
             n == spool.metadata[i].bytes
             s == acked[i].bytes
  <2>2. o \in Nat /\ n \in Nat /\ s \in Seq(Bytes)
    BY <2>1 DEF Places, BoundsAssumption
  <2>3. n = Len(s) /\ o + n <= Len(file) /\ \A k \in 1 .. n : file[o + k] = s[k]
    BY <1>1 DEF SpoolInv, MetadataOfAcked, FileOfAcked
  <2>4. Len(file) \in Nat
    BY DEF SpoolInv, ObjectOfAcked
  <2>5. Mapped(file, spool.metadata[i])
          = [k \in 1 .. n |-> IF o + k <= Len(file) THEN file[o + k] ELSE "beyond"]
    BY DEF Mapped
  <2> HIDE DEF o, n, s
  <2>6. \A k \in 1 .. n : (IF o + k <= Len(file) THEN file[o + k] ELSE "beyond") = s[k]
    <3>1. \A k \in 1 .. n : o + k <= Len(file)
      BY <2>2, <2>3, <2>4
    <3> QED BY <3>1, <2>3
  <2>7. s = [k \in 1 .. n |-> s[k]]
    BY <2>2, <2>3
  <2> QED BY <2>5, <2>6, <2>7 DEF s
<1> QED BY <1>2, <1>3

LEMMA SealKeeps == BoundsAssumption /\ SpoolInv /\ SpoolSeal => SpoolInv'
<1> SUFFICES ASSUME BoundsAssumption, SpoolInv, SpoolSeal PROVE SpoolInv'
  OBVIOUS
<1>1. /\ spool.exists /\ file' = file /\ acked' = acked /\ reader' = reader
      /\ DOMAIN spool = DOMAIN Empty /\ spool.exists \in BOOLEAN
  BY DEF SpoolSeal, SpoolInv, ObjectOfAcked
<1>2. CASE SealRefused
  <2>1. spool' = spool
    BY <1>2 DEF SpoolSeal
  <2> QED BY <1>1, <2>1 DEF SpoolInv, ObjectOfAcked, MetadataOfAcked, FileOfAcked,
                           SealedOfAcked, ReaderOfAcked
<1>3. CASE ~SealRefused
  <2>1. ~spool.sealed /\ ~spool.failed
    BY <1>3 DEF SealRefused
  <2>2. ~reader.open
    BY <1>1, <2>1, UnsealedIsUnread
  <2>3. ReaderOfAcked'
    BY <1>1, <2>2 DEF SpoolInv, ReaderOfAcked
  <2> DEFINE mapped == [i \in DOMAIN spool.metadata |-> Mapped(file, spool.metadata[i])]
  <2>4. mapped = [i \in DOMAIN acked |-> acked[i].bytes]
    BY <1>1, <2>1, SealMapsAcked
  <2>5. CASE spool' = [spool EXCEPT !.mapped = file, !.sealed = TRUE, !.batches = mapped]
    <3> HIDE DEF mapped
    <3>1. /\ spool'.exists = spool.exists /\ spool'.metadata = spool.metadata
          /\ spool'.records = spool.records /\ spool'.bytes = spool.bytes
          /\ spool'.count = spool.count /\ spool'.failed = spool.failed
          /\ spool'.sealed = TRUE /\ spool'.batches = mapped /\ DOMAIN spool' = DOMAIN Empty
      BY <1>1, <2>5 DEF Empty
    <3>2. ObjectOfAcked'
      <4>1. spool'.sealed \in BOOLEAN /\ spool'.failed \in BOOLEAN
        BY <1>1, <3>1 DEF SpoolInv, ObjectOfAcked
      <4> QED BY <1>1, <3>1, <4>1 DEF SpoolInv, ObjectOfAcked
    <3>4. MetadataOfAcked' /\ FileOfAcked'
      BY <1>1, <3>1 DEF SpoolInv, MetadataOfAcked, FileOfAcked
    <3>3. SealedOfAcked'
      BY <1>1, <2>1, <2>4, <3>1 DEF SealedOfAcked
    <3> QED BY <3>2, <3>3, <3>4, <2>3 DEF SpoolInv
  <2>6. CASE spool' = [spool EXCEPT !.failed = TRUE]
    <3>1. /\ spool'.exists = spool.exists /\ spool'.metadata = spool.metadata
          /\ spool'.records = spool.records /\ spool'.bytes = spool.bytes
          /\ spool'.count = spool.count /\ spool'.failed = TRUE
          /\ spool'.sealed = spool.sealed /\ DOMAIN spool' = DOMAIN Empty
      BY <1>1, <2>6 DEF Empty
    <3>2. ObjectOfAcked' /\ MetadataOfAcked' /\ FileOfAcked'
      BY <1>1, <3>1 DEF SpoolInv, ObjectOfAcked, MetadataOfAcked, FileOfAcked
    <3>3. SealedOfAcked'
      BY <2>1, <3>1 DEF SealedOfAcked
    <3> QED BY <3>2, <3>3, <2>3 DEF SpoolInv
  <2> QED BY <1>3, <2>5, <2>6 DEF SpoolSeal
<1> QED BY <1>2, <1>3

\* The next batch read is the next acknowledged one, and moves the cursor behind it.
LEMMA NextKeeps == BoundsAssumption /\ SpoolInv /\ SpoolNext => SpoolInv'
<1> SUFFICES ASSUME BoundsAssumption, SpoolInv, SpoolNext PROVE SpoolInv'
  OBVIOUS
<1> DEFINE i == reader.index + 1
           d == spool.metadata[i]
<1>1. /\ spool' = spool /\ file' = file /\ acked' = acked
      /\ reader.open /\ spool.exists /\ spool.sealed /\ ~spool.failed
      /\ reader.index < Len(spool.batches)
      /\ reader' = [reader EXCEPT !.index = i, !.got = Append(@, spool.batches[i]),
                       !.cursor = <<i, d.ordinal + d.records, d.offset + d.bytes>>]
  BY DEF SpoolNext
<1>2. /\ DOMAIN reader = DOMAIN NoReader /\ reader.open \in BOOLEAN
      /\ reader.got \in Seq(Seq(Bytes)) /\ reader.index = Len(reader.got)
      /\ \A k \in 1 .. Len(reader.got) : reader.got[k] = acked[k].bytes
  BY <1>1 DEF SpoolInv, ReaderOfAcked
<1>3. acked \in Seq(Batches) /\ spool.batches = [k \in 1 .. Len(acked) |-> acked[k].bytes]
  <2>1. acked \in Seq(Batches)
    BY DEF SpoolInv, ObjectOfAcked
  <2>2. spool.batches = [k \in DOMAIN acked |-> acked[k].bytes]
    BY <1>1 DEF SpoolInv, SealedOfAcked
  <2>3. DOMAIN acked = 1 .. Len(acked)
    BY <2>1
  <2> QED BY <2>1, <2>2, <2>3
<1>4. Len(spool.batches) = Len(acked)
  BY <1>3
<1>5. i \in 1 .. Len(acked) /\ i = Len(reader.got) + 1
  BY <1>1, <1>2, <1>3, <1>4
<1>6. spool.batches[i] = acked[i].bytes /\ acked[i].bytes \in Seq(Bytes)
  BY <1>3, <1>5 DEF BoundsAssumption
<1>7. d.ordinal + d.records = RecordsBefore(acked, i) /\ d.offset + d.bytes = BytesBefore(Lengths(acked), i)
  BY <1>1, <1>5 DEF SpoolInv, MetadataOfAcked
<1> HIDE DEF i, d
<1>8. /\ reader'.open = reader.open /\ reader'.index = i /\ reader'.got = Append(reader.got, acked[i].bytes)
      /\ reader'.cursor = <<i, RecordsBefore(acked, i), BytesBefore(Lengths(acked), i)>>
      /\ DOMAIN reader' = DOMAIN NoReader
  BY <1>1, <1>2, <1>6, <1>7 DEF NoReader
<1>9. /\ reader'.got \in Seq(Seq(Bytes)) /\ Len(reader'.got) = i
      /\ \A k \in 1 .. Len(reader'.got) : reader'.got[k] = acked[k].bytes
  BY <1>2, <1>5, <1>6, <1>8
<1>10. ReaderOfAcked'
  <2>1. Len(reader'.got) <= Len(acked') /\ reader'.index = Len(reader'.got)
    BY <1>1, <1>5, <1>8, <1>9
  <2>3. spool'.exists /\ spool'.sealed /\ reader'.open \in BOOLEAN
    BY <1>1, <1>2, <1>8, Zenon
  <2>2. reader'.cursor = <<Len(reader'.got), RecordsBefore(acked', Len(reader'.got)),
                           BytesBefore(Lengths(acked'), Len(reader'.got))>>
    BY <1>1, <1>8, <1>9
  <2> QED BY <1>1, <1>8, <1>9, <2>1, <2>2, <2>3 DEF ReaderOfAcked
<1>11. ObjectOfAcked' /\ MetadataOfAcked' /\ FileOfAcked' /\ SealedOfAcked'
  BY <1>1 DEF SpoolInv, ObjectOfAcked, MetadataOfAcked, FileOfAcked, SealedOfAcked
<1> QED BY <1>10, <1>11 DEF SpoolInv

LEMMA OpenKeeps == BoundsAssumption /\ SpoolInv /\ OpenProducer => SpoolInv'
<1> SUFFICES ASSUME BoundsAssumption, SpoolInv, OpenProducer PROVE SpoolInv'
  OBVIOUS
<1>1. /\ spool' = spool /\ file' = file /\ acked' = acked /\ spool.exists /\ spool.sealed
      /\ reader' = [NoReader EXCEPT !.open = TRUE]
  BY DEF OpenProducer, SpoolPrepare
<1>2. /\ DOMAIN reader' = DOMAIN NoReader /\ reader'.open = TRUE /\ reader'.index = 0
      /\ reader'.got = <<>> /\ reader'.cursor = <<0, 0, 0>>
  BY <1>1 DEF NoReader
<1>3. acked \in Seq(Batches) /\ 0 \in 0 .. Len(acked)
  BY DEF SpoolInv, ObjectOfAcked
<1>4. RecordsBefore(acked, 0) = 0 /\ BytesBefore(Lengths(acked), 0) = 0
  BY <1>3, TotalsAreNumbers
<1>5. ReaderOfAcked'
  <2>1. /\ reader'.got \in Seq(Seq(Bytes)) /\ Len(reader'.got) = 0 /\ Len(reader'.got) <= Len(acked')
    <3>1. reader'.got = <<>>
      BY <1>2
    <3>2. reader'.got \in Seq(Seq(Bytes))
      BY <3>1, EmptySeq
    <3>3. Len(reader'.got) = 0
      BY <3>1, EmptySeq
    <3>4. Len(acked') \in Nat
      BY <1>1, <1>3
    <3> QED BY <3>2, <3>3, <3>4
  <2>3. spool'.exists /\ spool'.sealed /\ reader'.open \in BOOLEAN
    BY <1>1, <1>2, Zenon
  <2>2. reader'.cursor = <<Len(reader'.got), RecordsBefore(acked', Len(reader'.got)),
                           BytesBefore(Lengths(acked'), Len(reader'.got))>>
    BY <1>1, <1>2, <1>4, <2>1
  <2> QED BY <1>2, <2>1, <2>2, <2>3 DEF ReaderOfAcked
<1>6. ObjectOfAcked' /\ MetadataOfAcked' /\ FileOfAcked' /\ SealedOfAcked'
  BY <1>1 DEF SpoolInv, ObjectOfAcked, MetadataOfAcked, FileOfAcked, SealedOfAcked
<1> QED BY <1>5, <1>6 DEF SpoolInv

LEMMA FinishKeeps == BoundsAssumption /\ SpoolInv /\ SpoolFinish => SpoolInv'
<1> SUFFICES ASSUME SpoolInv, SpoolFinish PROVE SpoolInv'
  OBVIOUS
<1>1. ReaderOfAcked'
  BY DEF SpoolFinish, ReaderOfAcked, NoReader
<1>2. ObjectOfAcked' /\ MetadataOfAcked' /\ FileOfAcked' /\ SealedOfAcked'
  BY DEF SpoolFinish, SpoolInv, ObjectOfAcked, MetadataOfAcked, FileOfAcked, SealedOfAcked
<1> QED BY <1>1, <1>2 DEF SpoolInv

LEMMA DestroyKeeps == BoundsAssumption /\ SpoolInv /\ Destroy => SpoolInv'
<1> SUFFICES ASSUME SpoolInv, Destroy PROVE SpoolInv'
  OBVIOUS
<1>1. /\ ~spool'.exists /\ spool'.exists \in BOOLEAN /\ file' = <<>> /\ acked' = <<>>
      /\ reader' = reader /\ ~reader.open
  BY DEF Destroy, NoSpool
<1>2. ReaderOfAcked'
  BY <1>1 DEF SpoolInv, ReaderOfAcked
<1>3. ObjectOfAcked' /\ MetadataOfAcked' /\ FileOfAcked' /\ SealedOfAcked'
  BY <1>1 DEF ObjectOfAcked, MetadataOfAcked, FileOfAcked, SealedOfAcked
<1> QED BY <1>2, <1>3 DEF SpoolInv

LEMMA StepSpool == BoundsAssumption /\ SpoolInv /\ [SpoolStep]_spoolVars => SpoolInv'
<1> SUFFICES ASSUME BoundsAssumption, SpoolInv, [SpoolStep]_spoolVars PROVE SpoolInv'
  OBVIOUS
<1>1. CASE UNCHANGED spoolVars
  BY <1>1 DEF spoolVars, SpoolInv, ObjectOfAcked, MetadataOfAcked, FileOfAcked,
              SealedOfAcked, ReaderOfAcked
<1>2. CASE SpoolStep
  BY <1>2, CreateKeeps, SpoolAppendKeeps, SealKeeps, OpenKeeps, NextKeeps, FinishKeeps,
     DestroyKeeps DEF SpoolStep
<1> QED BY <1>1, <1>2

\* The invariant says what the run checks: the bytes read add up to the cursor.
LEMMA InvariantIsFaithful == BoundsAssumption /\ SpoolInv => SpoolIsFaithful
<1> SUFFICES ASSUME BoundsAssumption, SpoolInv PROVE SpoolIsFaithful
  OBVIOUS
<1>1. SealedIsAcknowledged
  BY DEF SpoolInv, SealedOfAcked, SealedIsAcknowledged
<1>2. TotalsAreAcknowledged
  BY DEF SpoolInv, ObjectOfAcked, TotalsAreAcknowledged
<1>3. CursorIsPrefix
  <2> SUFFICES ASSUME reader.open PROVE CursorIsPrefix
    BY DEF CursorIsPrefix
  <2> DEFINE n == Len(reader.got)
             lengths == [i \in 1 .. n |-> Len(reader.got[i])]
  <2>1. /\ reader.got \in Seq(Seq(Bytes)) /\ n <= Len(acked) /\ acked \in Seq(Batches)
        /\ \A i \in 1 .. n : reader.got[i] = acked[i].bytes
        /\ reader.cursor = <<n, RecordsBefore(acked, n), BytesBefore(Lengths(acked), n)>>
    BY DEF SpoolInv, ReaderOfAcked, ObjectOfAcked
  <2>2. n \in Nat /\ lengths \in Seq(Nat) /\ Len(lengths) = n
    BY <2>1
  <2>3. Lengths(acked) \in Seq(Nat) /\ Len(Lengths(acked)) = Len(acked)
    <3>1. 0 \in 0 .. Len(acked)
      BY <2>1
    <3> QED BY <2>1, <3>1, TotalsAreNumbers
  <2>4. \A i \in 1 .. n : lengths[i] = Lengths(acked)[i]
    BY <2>1, <2>2 DEF Lengths
  <2>5. Running(lengths)[n] = Running(Lengths(acked))[n]
    <3>1. n <= Len(lengths) /\ n <= Len(Lengths(acked))
      BY <2>1, <2>2, <2>3
    <3> HIDE DEF n, lengths
    <3> QED BY <3>1, <2>2, <2>3, <2>4, TotalsOfPrefix
  <2> QED BY <2>1, <2>5 DEF CursorIsPrefix, BytesBefore
<1> QED BY <1>1, <1>2, <1>3 DEF SpoolIsFaithful

\* For any batches and totals of any width: a sealed spool holds exactly the
\* batches append acknowledged, through every refused and torn append, its totals
\* are theirs, and a reader's cursor is the position behind what it read
\* (laplace_canonical_spool_append, _seal and SpoolNext).
THEOREM SpoolFaithful == BoundsAssumption => (SpoolSpec => []SpoolIsFaithful)
<1> SUFFICES ASSUME BoundsAssumption PROVE SpoolSpec => []SpoolIsFaithful
  OBVIOUS
<1>1. SpoolInit => SpoolInv
  BY InitSpool
<1>2. SpoolInv /\ [SpoolStep]_spoolVars => SpoolInv'
  BY StepSpool
<1>3. SpoolInv => SpoolIsFaithful
  BY InvariantIsFaithful
<1> QED BY <1>1, <1>2, <1>3, PTL DEF SpoolSpec

(***************************************************************************)
(* The instruction set.                                                    *)
(***************************************************************************)

IsList(s) == Len(s) \in Nat /\ s = [j \in 1 .. Len(s) |-> s[j]]

\* A function on 1 .. n is a list of n elements.
LEMMA ListOfLength ==
    ASSUME NEW n \in Nat, NEW s, s = [j \in 1 .. n |-> s[j]]
    PROVE  IsList(s) /\ Len(s) = n
<1>1. s \in Seq({s[j] : j \in 1 .. n})
  OBVIOUS
<1>2. Len(s) = n
  BY <1>1
<1> QED BY <1>2 DEF IsList

LEMMA SequenceIsList ==
    ASSUME NEW S, NEW s \in Seq(S)
    PROVE  IsList(s)
BY DEF IsList

\* The lineage kernel returns a list, whatever it keeps.
LEMMA RootsAreAList ==
    ASSUME NEW n \in Nat, NEW s, DOMAIN s = 1 .. n
    PROVE  IsList(RootsOf(s))
<1> DEFINE k == Cardinality(RootPositions(s))
<1>1. k \in Nat
  <2>1. IsFiniteSet(1 .. n)
    BY FS_Interval
  <2>2. IsFiniteSet(RootPositions(s))
    BY <2>1, FS_Subset DEF RootPositions
  <2> QED BY <2>2, FS_CardinalityType
<1>2. RootsOf(s) = [j \in 1 .. k |-> RootsOf(s)[j]]
  BY DEF RootsOf
<1> HIDE DEF k
<1> QED BY <1>1, <1>2, ListOfLength

\* What an instruction stores is a list.
LEMMA ResultIsAList ==
    ASSUME IsaAssumption, NEW op \in DOMAIN Binding, NEW n \in Nat, NEW s, s = [j \in 1 .. n |-> s[j]],
           NEW in, NEW out
    PROVE  IsList(Execution(op, s, in, out).result)
<1>1. Binding[op].kind \in Kinds
  BY DEF IsaAssumption
<1>2. DOMAIN s = 1 .. n
  OBVIOUS
<1>3. IsList(RootsOf(s))
  BY <1>2, RootsAreAList
<1> DEFINE mapped == [i \in DOMAIN s |-> <<op, s[i]>>]
           last == <<op, <<"words", Len(s)>>>>
           one == << <<op, s>> >>
<1>4. mapped = [i \in 1 .. n |-> mapped[i]]
  BY <1>2
<1>5. IsList(mapped) /\ Len(mapped) = n
  BY <1>4, ListOfLength
<1>6. IsList(one)
  BY DEF IsList
<1>7. IsList(Append(mapped, last))
  <2>1. mapped \in Seq({mapped[i] : i \in 1 .. n} \cup {last})
    BY <1>4
  <2> HIDE DEF mapped, last
  <2>2. Append(mapped, last) \in Seq({mapped[i] : i \in 1 .. n} \cup {last})
    BY <2>1
  <2> QED BY <2>2, SequenceIsList
<1> HIDE DEF mapped, last, one
<1>8. CASE Binding[op].kind = "equal"
  <2>1. Execution(op, s, in, out).result = mapped
    BY <1>8 DEF Execution, ExecuteEqual, mapped
  <2> QED BY <2>1, <1>5
<1>9. CASE Binding[op].kind = "lineage"
  BY <1>9, <1>3 DEF Execution, ExecuteLineage
<1>10. CASE Binding[op].kind = "single"
  BY <1>10, <1>6 DEF Execution, ExecuteSingle, one
<1>11. CASE Binding[op].kind = "world"
  BY <1>11, <1>6 DEF Execution, ExecuteWorld, ExecuteSingle, one
<1>12. CASE Binding[op].kind = "catalog"
  BY <1>12, <1>6 DEF Execution, ExecuteCatalog, one
<1>13. CASE Binding[op].kind = "resolve"
  <2>1. Execution(op, s, in, out).result = mapped
    BY <1>13 DEF Execution, ExecuteResolve, mapped
  <2> QED BY <2>1, <1>5
<1>14. CASE Binding[op].kind = "solve"
  BY <1>14, <1>7 DEF Execution, ExecuteSolve, mapped, last
<1> QED BY <1>1, <1>8, <1>9, <1>10, <1>11, <1>12, <1>13, <1>14 DEF Kinds

IsView(v) ==
    /\ DOMAIN v = {"base", "capacity", "count", "type", "packed"}
    /\ v.base \in Nat /\ v.capacity \in Nat /\ v.count \in Nat

LEMMA ElementsAreAList ==
    ASSUME NEW m, NEW v, IsView(v)
    PROVE  /\ Elements(m, v) = [j \in 1 .. v.count |-> Elements(m, v)[j]]
           /\ IsList(Elements(m, v)) /\ Len(Elements(m, v)) = v.count
<1>1. v.count \in Nat
  BY DEF IsView
<1>2. Elements(m, v) = [j \in 1 .. v.count |-> Elements(m, v)[j]]
  BY DEF Elements
<1> QED BY <1>1, <1>2, ListOfLength

\* An instruction that passed its validation is not refused, and its result
\* fits its output.
LEMMA ValidatedFits ==
    ASSUME IsaAssumption, NEW op \in DOMAIN Binding, NEW m, NEW in, NEW out, IsView(in), IsView(out),
           ValidateKind(Binding[op].kind, m, in, out)
    PROVE  LET run == Execution(op, Elements(m, in), in, out)
           IN /\ run.bytes \in Nat /\ run.bytes <= MemoryGrant
              /\ Len(run.result) <= out.capacity /\ InRange(m, in)
<1> DEFINE s == Elements(m, in)
           n == in.count
<1>1. Binding[op].kind \in Kinds /\ MemoryGrant \in Nat \ {0}
  BY DEF IsaAssumption
<1>2. n \in Nat /\ out.capacity \in Nat
  BY DEF IsView
<1>3. s = [j \in 1 .. n |-> s[j]] /\ IsList(s) /\ Len(s) = n
  BY ElementsAreAList
<1> DEFINE mapped == [i \in DOMAIN s |-> <<op, s[i]>>]
           last == <<op, <<"words", Len(s)>>>>
           one == << <<op, s>> >>
<1> HIDE DEF s, n
<1>4. mapped = [i \in 1 .. n |-> mapped[i]]
  BY <1>3
<1>5. Len(mapped) = n
  BY <1>2, <1>4, ListOfLength
<1>6. Len(one) = 1
  OBVIOUS
<1>7. Len(Append(mapped, last)) = n + 1
  <2>1. mapped \in Seq({mapped[i] : i \in 1 .. n} \cup {last})
    BY <1>2, <1>4
  <2> HIDE DEF mapped, last
  <2> QED BY <1>5, <2>1
<1> HIDE DEF mapped, last, one
<1>8. CopyBytes(in, n) \in {0, n} /\ CopyBytes(out, n) \in {0, n} /\ CopyBytes(out, out.capacity) \in {0, out.capacity}
  BY DEF CopyBytes
<1>9. CASE Binding[op].kind = "equal"
  BY <1>9, <1>1, <1>2, <1>5 DEF Execution, ExecuteEqual, ValidateKind, ValidateEqual, mapped, s, n
<1>10. CASE Binding[op].kind = "lineage"
  <2>1. /\ out.capacity + CopyBytes(in, n) <= MemoryGrant /\ InRange(m, in)
        /\ Len(RootsOf(s)) <= out.capacity
    BY <1>10 DEF ValidateKind, ValidateLineage, s, n
  <2>2. /\ Execution(op, s, in, out).bytes = CopyBytes(in, n) + CopyBytes(out, out.capacity)
        /\ Execution(op, s, in, out).result = RootsOf(s)
    BY <1>10 DEF Execution, ExecuteLineage, n
  <2> QED BY <2>1, <2>2, <1>1, <1>2, <1>8 DEF s
<1>11. CASE Binding[op].kind \in {"single", "world"}
  <2>1. /\ CopyBytes(in, n) <= MemoryGrant /\ InRange(m, in) /\ 1 <= out.capacity
    BY <1>11, <1>2 DEF ValidateKind, ValidateSingle, ValidateWorld, n
  <2>2. Execution(op, s, in, out).bytes = CopyBytes(in, n) /\ Execution(op, s, in, out).result = one
    BY <1>11 DEF Execution, ExecuteSingle, ExecuteWorld, one, n
  <2> QED BY <2>1, <2>2, <1>2, <1>6, <1>8 DEF s
<1>12. CASE Binding[op].kind = "catalog"
  <2>1. /\ 2 * n + CopyBytes(in, n) <= MemoryGrant /\ InRange(m, in) /\ 1 <= out.capacity
    BY <1>12, <1>2 DEF ValidateKind, ValidateCatalog, n
  <2>2. Execution(op, s, in, out).bytes = 2 * n + CopyBytes(in, n) /\ Execution(op, s, in, out).result = one
    BY <1>12 DEF Execution, ExecuteCatalog, one, n
  <2> QED BY <2>1, <2>2, <1>2, <1>6, <1>8 DEF s
<1>13. CASE Binding[op].kind = "resolve"
  <2>1. /\ n + CopyBytes(in, n) <= MemoryGrant /\ InRange(m, in) /\ n <= out.capacity
    BY <1>13, <1>2 DEF ValidateKind, ValidateResolve, n
  <2>2. /\ Execution(op, s, in, out).bytes = CopyBytes(in, n) + CopyBytes(out, n)
        /\ Execution(op, s, in, out).result = mapped
    BY <1>13 DEF Execution, ExecuteResolve, mapped, n
  <2> QED BY <2>1, <2>2, <1>1, <1>2, <1>5, <1>8 DEF s
<1>14. CASE Binding[op].kind = "solve"
  <2>1. n + 1 <= out.capacity /\ InRange(m, in)
    BY <1>14, <1>2 DEF ValidateKind, ValidateSolve, n
  <2>2. Execution(op, s, in, out).bytes = 0 /\ Execution(op, s, in, out).result = Append(mapped, last)
    BY <1>14 DEF Execution, ExecuteSolve, mapped, last
  <2> QED BY <2>1, <2>2, <1>1, <1>7 DEF s
<1> QED BY <1>1, <1>9, <1>10, <1>11, <1>12, <1>13, <1>14 DEF Kinds

-----------------------------------------------------------------------------

\* A program with its views and its code.
Shaped(p) ==
    /\ p = [values |-> p.values, code |-> p.code]
    /\ p.values = [k \in DOMAIN p.values |-> p.values[k]]
    /\ Len(p.code) \in Nat /\ DOMAIN p.code = 1 .. Len(p.code)
    /\ \A k \in DOMAIN p.values : IsView(p.values[k])

\* What laplace_isa_validate established of the program as handed in.
ValidAt(m, p) ==
    /\ \A k \in DOMAIN p.values : ValueValid(p.values[k])
    /\ \A i \in DOMAIN p.code :
          LET c == p.code[i]
          IN /\ c.in \in DOMAIN p.values /\ c.out \in DOMAIN p.values
             /\ c.op \in DOMAIN Binding
             /\ ValidateKind(Binding[c.op].kind, m, p.values[c.in], p.values[c.out])
    /\ RangesDisjoint(p)

\* The result of instruction i on the inputs as handed in.
ResultOf(p, i) ==
    LET c == p.code[i]
        in == p.values[c.in]
    IN Execution(c.op, Elements(Memory0, in), in, p.values[c.out]).result

\* Instruction i has run: its output holds its result.
HasRun(i, m, p, p0) ==
    LET out == p.values[p0.code[i].out]
        stored == ResultOf(p0, i)
    IN /\ out.count = Len(stored)
       /\ \A k \in 1 .. Len(stored) : m[out.base + k - 1] = stored[k]

SameView(v, w) == v.base = w.base /\ v.capacity = w.capacity /\ v.type = w.type /\ v.packed = w.packed

\* Instructions 1 .. n - 1 have run and disturbed nothing but their outputs.
Undisturbed(n, m, p, p0) ==
    /\ DOMAIN m = Address
    /\ \A a \in Address : m[a] # Memory0[a] => \E i \in 1 .. n - 1 : a \in OutputSpan(p0, i)
    /\ \A k \in DOMAIN p0.values :
          (\A i \in 1 .. n - 1 : p0.code[i].out # k) => p.values[k] = p0.values[k]
    /\ \A i \in 1 .. n - 1 : HasRun(i, m, p, p0)

Fingerprints(p) == [i \in DOMAIN p.code |-> VectorFingerprint(Memory0, p.values[p.code[i].in])]

IsaShape ==
    /\ Shaped(program) /\ Shaped(initial)
    /\ program.code = initial.code /\ DOMAIN program.values = DOMAIN initial.values
    /\ \A k \in DOMAIN initial.values : SameView(program.values[k], initial.values[k])
    /\ counter \in 1 .. Len(initial.code) + 1
    /\ DOMAIN isaReceipt = {"status", "executed", "inputs", "outputs"}

IsaProgress ==
    /\ phase \in {"idle", "new", "validated", "running", "done", "refused", "failed"}
    /\ phase \in {"idle", "new", "validated", "refused"} =>
          program = initial /\ mem = Memory0 /\ counter = 1
    /\ phase \in {"validated", "running", "done", "failed"} => ValidAt(Memory0, initial)
    /\ phase \in {"running", "done"} => isaReceipt.inputs = Fingerprints(initial)
    /\ phase = "done" => counter = Len(initial.code) + 1
    /\ phase \in {"idle", "new", "validated", "running"} => isaReceipt.status = "NONE"

IsaInv ==
    /\ IsaShape /\ IsaProgress
    /\ ~Chained => Undisturbed(counter, mem, program, initial)
    /\ ValidatedIsNotRefused

LEMMA IsaInitial == ASSUME IsaAssumption, IsaInit PROVE IsaInv
<1>1. Shaped(NoProgram)
  BY DEF Shaped, NoProgram
<1>2. IsaShape
  BY <1>1 DEF IsaShape, IsaInit, NoProgram, NoIsaReceipt
<1>3. IsaProgress
  BY DEF IsaProgress, IsaInit, NoIsaReceipt
<1>4. Undisturbed(counter, mem, program, initial)
  BY DEF Undisturbed, IsaInit, NoProgram, Memory0
<1> QED BY <1>2, <1>3, <1>4 DEF IsaInv, ValidatedIsNotRefused, IsaInit, NoIsaReceipt

LEMMA SubmitKeeps == ASSUME IsaAssumption, IsaInv, Submit PROVE IsaInv'
<1>1. program' \in Programs /\ initial' = program' /\ phase = "idle" /\ phase' = "new"
      /\ mem' = mem /\ counter' = counter /\ isaReceipt' = isaReceipt
  BY DEF Submit
<1>2. mem = Memory0 /\ counter = 1 /\ isaReceipt.status = "NONE"
      /\ DOMAIN isaReceipt = {"status", "executed", "inputs", "outputs"}
  BY <1>1 DEF IsaInv, IsaProgress, IsaShape
<1>3. Shaped(program')
  <2>1. /\ program' = [values |-> program'.values, code |-> program'.code]
        /\ program'.values \in Seq(ToSet(program'.values)) /\ program'.code \in Seq(ToSet(program'.code))
        /\ \A v \in ToSet(program'.values) : IsView(v)
    BY <1>1 DEF IsaAssumption, IsView
  <2> DEFINE values == program'.values
             code == program'.code
  <2>2. values \in Seq(ToSet(values)) /\ code \in Seq(ToSet(code)) /\ \A v \in ToSet(values) : IsView(v)
    BY <2>1
  <2> HIDE DEF values, code
  <2>3. values = [k \in DOMAIN values |-> values[k]] /\ \A k \in DOMAIN values : IsView(values[k])
    BY <2>2 DEF ToSet
  <2>4. Len(code) \in Nat /\ DOMAIN code = 1 .. Len(code)
    BY <2>2
  <2> QED BY <2>1, <2>3, <2>4 DEF Shaped, values, code
<1>4. IsaShape'
  <2>1. counter' \in 1 .. Len(initial'.code) + 1
    BY <1>1, <1>2, <1>3 DEF Shaped
  <2> QED BY <1>1, <1>2, <1>3, <2>1 DEF IsaShape, SameView
<1>5. IsaProgress'
  BY <1>1, <1>2 DEF IsaProgress
<1>6. Undisturbed(counter', mem', program', initial')
  BY <1>1, <1>2 DEF Undisturbed, Memory0
<1> QED BY <1>1, <1>2, <1>4, <1>5, <1>6 DEF IsaInv, ValidatedIsNotRefused

LEMMA ValidateKeeps == ASSUME IsaAssumption, IsaInv, Validate PROVE IsaInv'
<1>1. phase = "new" /\ UNCHANGED <<program, initial, mem, counter>>
  BY DEF Validate
<1>2. mem = Memory0 /\ counter = 1 /\ isaReceipt.status = "NONE" /\ program = initial
      /\ IsaShape /\ (~Chained => Undisturbed(counter, mem, program, initial))
  BY <1>1 DEF IsaInv, IsaProgress
<1>3. (~Chained)' => Undisturbed(counter', mem', program', initial')
  BY <1>1, <1>2 DEF Chained
<1>4. CASE phase' = "validated" /\ UNCHANGED isaReceipt
  <2>1. CASE ~ValidAt(Memory0, initial)
    <3>1. /\ \A v \in ToSet(program.values) : ValueValid(v)
          /\ \A i \in DOMAIN program.code : InstructionValid(program, i)
          /\ RangesDisjoint(program)
      BY <1>4 DEF Validate
    <3>2. \A k \in DOMAIN program.values : ValueValid(program.values[k])
      BY <3>1 DEF ToSet
    <3> QED BY <2>1, <1>2, <3>1, <3>2 DEF ValidAt, InstructionValid
  <2>2. CASE ValidAt(Memory0, initial)
    <3>1. IsaProgress'
      BY <1>1, <1>2, <1>4, <2>2 DEF IsaProgress
    <3>2. IsaShape'
      BY <1>1, <1>2, <1>4 DEF IsaShape
    <3> QED BY <1>2, <1>3, <1>4, <3>1, <3>2 DEF IsaInv, ValidatedIsNotRefused
  <2> QED BY <2>1, <2>2
<1>5. CASE phase' = "refused" /\ isaReceipt' = [isaReceipt EXCEPT !.status = "REFUSED"]
  <2>1. isaReceipt'.status = "REFUSED" /\ DOMAIN isaReceipt' = DOMAIN isaReceipt
    BY <1>2, <1>5 DEF IsaShape
  <2>2. IsaShape' /\ IsaProgress'
    BY <1>1, <1>2, <1>5, <2>1 DEF IsaShape, IsaProgress
  <2> QED BY <1>3, <2>1, <2>2 DEF IsaInv, ValidatedIsNotRefused
<1> QED BY <1>4, <1>5 DEF Validate

LEMMA HashInputsKeeps == ASSUME IsaAssumption, IsaInv, HashInputs PROVE IsaInv'
<1>1. phase = "validated" /\ UNCHANGED <<program, initial, mem, counter>>
  BY DEF HashInputs
<1>2. mem = Memory0 /\ counter = 1 /\ isaReceipt.status = "NONE" /\ program = initial
      /\ IsaShape /\ (~Chained => Undisturbed(counter, mem, program, initial)) /\ ValidAt(Memory0, initial)
  BY <1>1 DEF IsaInv, IsaProgress
<1>3. (~Chained)' => Undisturbed(counter', mem', program', initial')
  BY <1>1, <1>2 DEF Chained
<1>4. CASE phase' = "running" /\ isaReceipt' = [isaReceipt EXCEPT !.inputs =
                [i \in DOMAIN program.code |-> VectorFingerprint(mem, program.values[program.code[i].in])]]
  <2>1. isaReceipt'.inputs = Fingerprints(initial) /\ isaReceipt'.status = "NONE" /\ DOMAIN isaReceipt' = DOMAIN isaReceipt
    BY <1>2, <1>4 DEF IsaShape, Fingerprints
  <2>2. IsaShape'
    BY <1>1, <1>2, <2>1 DEF IsaShape
  <2>3. IsaProgress'
    BY <1>1, <1>2, <1>4, <2>1 DEF IsaProgress
  <2> QED BY <1>3, <2>1, <2>2, <2>3 DEF IsaInv, ValidatedIsNotRefused
<1>5. CASE phase' = "failed" /\ isaReceipt' = [isaReceipt EXCEPT !.status = "RESOURCE"]
  <2>1. isaReceipt'.status = "RESOURCE" /\ DOMAIN isaReceipt' = DOMAIN isaReceipt
    BY <1>2, <1>5 DEF IsaShape
  <2>2. IsaShape'
    BY <1>1, <1>2, <2>1 DEF IsaShape
  <2>3. IsaProgress'
    BY <1>1, <1>2, <1>5, <2>1 DEF IsaProgress
  <2> QED BY <1>3, <2>1, <2>2, <2>3 DEF IsaInv, ValidatedIsNotRefused
<1> QED BY <1>4, <1>5 DEF HashInputs

LEMMA HashOutputsKeeps == ASSUME IsaAssumption, IsaInv, HashOutputs PROVE IsaInv'
<1>1. phase = "running" /\ counter > Len(program.code) /\ UNCHANGED <<program, initial, mem, counter>>
  BY DEF HashOutputs
<1>2. isaReceipt.inputs = Fingerprints(initial) /\ ValidAt(Memory0, initial)
      /\ IsaShape /\ (~Chained => Undisturbed(counter, mem, program, initial))
  BY <1>1 DEF IsaInv, IsaProgress
<1>3. (~Chained)' => Undisturbed(counter', mem', program', initial')
  BY <1>1, <1>2 DEF Chained
<1>4. counter = Len(initial.code) + 1
  BY <1>1, <1>2 DEF IsaShape, Shaped
<1>5. CASE phase' = "done" /\ isaReceipt' = [isaReceipt EXCEPT !.status = "OK", !.outputs =
                [i \in DOMAIN program.code |-> VectorFingerprint(mem, program.values[program.code[i].out])]]
  <2>1. isaReceipt'.inputs = isaReceipt.inputs /\ isaReceipt'.status = "OK" /\ DOMAIN isaReceipt' = DOMAIN isaReceipt
    BY <1>2, <1>5 DEF IsaShape
  <2>2. IsaShape'
    BY <1>1, <1>2, <2>1 DEF IsaShape
  <2>3. IsaProgress'
    BY <1>1, <1>2, <1>4, <1>5, <2>1 DEF IsaProgress
  <2> QED BY <1>3, <2>1, <2>2, <2>3 DEF IsaInv, ValidatedIsNotRefused
<1>6. CASE phase' = "failed" /\ isaReceipt' = [isaReceipt EXCEPT !.status = "RESOURCE"]
  <2>1. isaReceipt'.status = "RESOURCE" /\ DOMAIN isaReceipt' = DOMAIN isaReceipt
    BY <1>2, <1>6 DEF IsaShape
  <2>2. IsaShape'
    BY <1>1, <1>2, <2>1 DEF IsaShape
  <2>3. IsaProgress'
    BY <1>1, <1>2, <1>6, <2>1 DEF IsaProgress
  <2> QED BY <1>3, <2>1, <2>2, <2>3 DEF IsaInv, ValidatedIsNotRefused
<1> QED BY <1>5, <1>6 DEF HashOutputs

\* The inputs of a program without chained instructions are as they were handed
\* in until its end.
LEMMA InputsAreKept ==
    ASSUME IsaInv, ~Chained, ValidAt(Memory0, initial), NEW j \in DOMAIN initial.code
    PROVE  LET in == initial.values[initial.code[j].in]
           IN program.values[initial.code[j].in] = in /\ Elements(mem, in) = Elements(Memory0, in)
<1> DEFINE c == initial.code[j]
           in == initial.values[c.in]
<1>1. /\ Undisturbed(counter, mem, program, initial)
      /\ counter \in 1 .. Len(initial.code) + 1 /\ DOMAIN initial.code = 1 .. Len(initial.code) /\ Len(initial.code) \in Nat
      /\ \A k \in DOMAIN initial.values : IsView(initial.values[k])
  BY DEF IsaInv, IsaShape, Shaped
<1>2. c.in \in DOMAIN initial.values /\ ValueValid(in) /\ RangesDisjoint(initial)
  BY DEF ValidAt
<1>3. IsView(in)
  BY <1>1, <1>2
<1>4. program.values[c.in] = in
  <2>1. \A i \in 1 .. counter - 1 : i \in DOMAIN initial.code
    BY <1>1
  <2>2. \A i \in 1 .. counter - 1 : initial.code[i].out # c.in
    BY <2>1 DEF Chained
  <2> QED BY <1>1, <1>2, <2>2 DEF Undisturbed
<1>5. ASSUME NEW n \in 1 .. in.count PROVE mem[in.base + n - 1] = Memory0[in.base + n - 1]
  <2> DEFINE a == in.base + n - 1
  <2>1. a \in Span(in, in.count) /\ a \in Span(in, in.capacity)
    <3>1. in.base \in Nat /\ in.count \in Nat /\ in.capacity \in Nat /\ in.count <= in.capacity
      BY <1>2, <1>3 DEF IsView, ValueValid
    <3> HIDE DEF in
    <3> QED BY <3>1 DEF Span
  <2>2. a \in Address /\ a \in InputSpan(initial, j)
    BY <1>2, <2>1 DEF ValueValid, InputSpan
  <2>3. \A i \in 1 .. counter - 1 : a \notin OutputSpan(initial, i)
    BY <1>1, <1>2, <2>2 DEF RangesDisjoint
  <2> QED BY <1>1, <2>2, <2>3 DEF Undisturbed
<1>6. Elements(mem, in) = Elements(Memory0, in)
  BY <1>5 DEF Elements
<1> QED BY <1>4, <1>6

LEMMA SpanGrows ==
    ASSUME NEW v, IsView(v), NEW n \in Nat, n <= v.capacity
    PROVE  Span(v, n) \subseteq Span(v, v.capacity)
<1>1. v.base \in Nat /\ v.capacity \in Nat
  BY DEF IsView
<1> QED BY <1>1 DEF Span

\* What an instruction of a validated program computes fits its output.
LEMMA ResultFits ==
    ASSUME IsaAssumption, NEW p, Shaped(p), ValidAt(Memory0, p), NEW i \in DOMAIN p.code
    PROVE  IsList(ResultOf(p, i)) /\ Len(ResultOf(p, i)) <= p.values[p.code[i].out].capacity
<1> DEFINE c == p.code[i]
           in == p.values[c.in]
           out == p.values[c.out]
<1>1. c.op \in DOMAIN Binding /\ IsView(in) /\ IsView(out) /\ ValidateKind(Binding[c.op].kind, Memory0, in, out)
  BY DEF ValidAt, Shaped
<1>2. ResultOf(p, i) = Execution(c.op, Elements(Memory0, in), in, out).result
  BY DEF ResultOf
<1> HIDE DEF c, in, out
<1>3. in.count \in Nat /\ Elements(Memory0, in) = [j \in 1 .. in.count |-> Elements(Memory0, in)[j]]
  BY <1>1, ElementsAreAList DEF IsView
<1>4. IsList(ResultOf(p, i))
  BY <1>1, <1>2, <1>3, ResultIsAList
<1>5. Len(ResultOf(p, i)) <= out.capacity
  BY <1>1, <1>2, ValidatedFits
<1> QED BY <1>4, <1>5 DEF out, c

\* An instruction stores its result where nothing else is.
LEMMA InstructionRuns ==
    ASSUME IsaAssumption, IsaInv, ~Chained, ValidAt(Memory0, initial), counter \in DOMAIN initial.code,
           NEW stored, stored = ResultOf(initial, counter),
           Store(program.code[counter], stored),
           initial' = initial
    PROVE  Undisturbed(counter + 1, mem', program', initial)
<1> DEFINE c == initial.code[counter]
           out == program.values[c.out]
           n == Len(stored)
<1>1. /\ Undisturbed(counter, mem, program, initial) /\ Shaped(program) /\ Shaped(initial)
      /\ program.code = initial.code /\ DOMAIN program.values = DOMAIN initial.values
      /\ \A k \in DOMAIN initial.values : SameView(program.values[k], initial.values[k])
      /\ counter \in 1 .. Len(initial.code)
      /\ DOMAIN initial.code = 1 .. Len(initial.code) /\ Len(initial.code) \in Nat
  BY DEF IsaInv, IsaShape, Shaped
<1>2. c.out \in DOMAIN initial.values /\ ValueValid(initial.values[c.out]) /\ RangesDisjoint(initial)
  BY DEF ValidAt
<1>3. IsView(out) /\ IsView(initial.values[c.out]) /\ SameView(out, initial.values[c.out])
  BY <1>1, <1>2 DEF Shaped
<1>4. n \in Nat /\ n <= out.capacity
  <2>1. IsList(stored) /\ n <= initial.values[c.out].capacity
    BY <1>1, ResultFits
  <2> QED BY <1>3, <2>1 DEF IsList, SameView
<1>5. /\ mem' = [a \in Address \cup Span(out, n) |-> IF a \in Span(out, n) THEN stored[a - out.base + 1] ELSE mem[a]]
      /\ program' = [program EXCEPT !.values[c.out].count = n]
  BY <1>1 DEF Store
<1>6. /\ Span(out, n) \subseteq OutputSpan(initial, counter)
      /\ OutputSpan(initial, counter) \subseteq Address
  <2>1. OutputSpan(initial, counter) = Span(out, out.capacity)
    BY <1>3 DEF OutputSpan, SameView, Span
  <2>2. Span(out, n) \subseteq Span(out, out.capacity)
    BY <1>3, <1>4, SpanGrows
  <2>3. OutputSpan(initial, counter) \subseteq Address
    BY <1>2 DEF OutputSpan, ValueValid
  <2> QED BY <2>1, <2>2, <2>3
<1>7. /\ DOMAIN mem' = Address
      /\ \A a \in Address \ Span(out, n) : mem'[a] = mem[a]
      /\ \A a \in Span(out, n) : mem'[a] = stored[a - out.base + 1]
  BY <1>5, <1>6
<1>8. /\ DOMAIN program'.values = DOMAIN initial.values
      /\ \A k \in DOMAIN initial.values : k # c.out => program'.values[k] = program.values[k]
      /\ program'.values[c.out] = [out EXCEPT !.count = n]
      /\ program'.values[c.out].count = n /\ program'.values[c.out].base = out.base
  <2>1. "values" \in DOMAIN program
    BY <1>1 DEF Shaped
  <2>2. program'.values = [program.values EXCEPT ![c.out].count = n]
    BY <1>5, <2>1
  <2>3. program.values = [k \in DOMAIN program.values |-> program.values[k]]
    BY <1>1 DEF Shaped
  <2> DEFINE values == program.values
             after == program'.values
  <2>4. /\ DOMAIN after = DOMAIN values
        /\ \A k \in DOMAIN values : k # c.out => after[k] = values[k]
        /\ after[c.out] = [values[c.out] EXCEPT !.count = n]
    <3> HIDE DEF n, c
    <3> QED BY <1>1, <1>2, <2>2, <2>3
  <2>5. after[c.out].count = n /\ after[c.out].base = out.base
    <3> HIDE DEF n, c, after
    <3> QED BY <1>3, <2>4 DEF IsView
  <2> QED BY <1>1, <2>4, <2>5
<1> HIDE DEF out, c, n
<1>9. \A i \in 1 .. counter - 1 : i \in DOMAIN initial.code /\ i # counter /\ i \in 1 .. (counter + 1) - 1
  BY <1>1
<1>10. \A a \in Address : mem'[a] # Memory0[a] => \E i \in 1 .. (counter + 1) - 1 : a \in OutputSpan(initial, i)
  <2>1. counter \in 1 .. (counter + 1) - 1
    BY <1>1
  <2> QED BY <1>1, <1>6, <1>7, <1>9, <2>1 DEF Undisturbed
<1>11. \A k \in DOMAIN initial.values :
         (\A i \in 1 .. (counter + 1) - 1 : initial.code[i].out # k) => program'.values[k] = initial.values[k]
  <2>1. counter \in 1 .. (counter + 1) - 1
    BY <1>1
  <2> QED BY <1>1, <1>8, <1>9, <2>1 DEF Undisturbed, c
<1>12. HasRun(counter, mem', program', initial)
  <2>1. program'.values[initial.code[counter].out].count = n /\ program'.values[initial.code[counter].out].base = out.base
    BY <1>8 DEF c
  <2>2. ASSUME NEW k \in 1 .. n PROVE mem'[out.base + k - 1] = stored[k]
    <3>1. out.base \in Nat
      BY <1>3 DEF IsView
    <3>2. out.base + k - 1 \in Span(out, n) /\ (out.base + k - 1) - out.base + 1 = k
      BY <1>4, <3>1 DEF Span
    <3> QED BY <1>7, <3>2
  <2> QED BY <2>1, <2>2 DEF HasRun, n
<1>13. ASSUME NEW i \in 1 .. counter - 1 PROVE HasRun(i, mem', program', initial)
  <2> DEFINE ko == initial.code[i].out
             o == program.values[ko]
             m == Len(ResultOf(initial, i))
  <2>1. ko \in DOMAIN initial.values /\ IsView(o) /\ SameView(o, initial.values[ko]) /\ ValueValid(initial.values[ko])
    BY <1>1, <1>9 DEF ValidAt, Shaped
  <2>2. o.count = m /\ \A k \in 1 .. m : mem[o.base + k - 1] = ResultOf(initial, i)[k]
    BY <1>1 DEF Undisturbed, HasRun
  <2>3. IsList(ResultOf(initial, i)) /\ m \in Nat /\ m <= o.capacity
    <3>1. IsList(ResultOf(initial, i)) /\ m <= initial.values[ko].capacity
      BY <1>1, <1>9, ResultFits
    <3> QED BY <2>1, <3>1 DEF IsList, SameView
  <2>4. OutputSpan(initial, i) = Span(o, o.capacity) /\ OutputSpan(initial, i) \subseteq Address
        /\ OutputSpan(initial, i) \cap OutputSpan(initial, counter) = {}
    BY <1>2, <1>9, <2>1 DEF OutputSpan, Span, SameView, ValueValid, RangesDisjoint
  <2> HIDE DEF ko, o, m
  <2>5. ASSUME NEW k \in 1 .. m PROVE mem'[o.base + k - 1] = mem[o.base + k - 1]
    <3>1. o.base + k - 1 \in Span(o, m)
      BY <2>1, <2>3 DEF Span, IsView
    <3>2. o.base + k - 1 \in OutputSpan(initial, i)
      BY <2>1, <2>3, <2>4, <3>1, SpanGrows
    <3> QED BY <1>6, <1>7, <2>4, <3>2
  <2>6. program'.values[ko].count = m /\ program'.values[ko].base = o.base
    <3>1. CASE ko # c.out
      BY <3>1, <1>8, <2>1, <2>2 DEF o
    <3>2. CASE ko = c.out
      <4>1. o = out
        BY <3>2 DEF o, out
      <4>2. OutputSpan(initial, counter) = OutputSpan(initial, i)
        BY <3>2 DEF OutputSpan, ko, c
      <4>3. Span(o, o.capacity) = {} /\ o.base \in Nat /\ o.capacity \in Nat
        BY <2>1, <2>4, <4>2 DEF IsView
      <4>4. o.capacity = 0
        BY <4>3 DEF Span
      <4>5. m = 0 /\ n = 0
        BY <1>4, <2>3, <4>1, <4>4
      <4> QED BY <3>2, <4>1, <4>5, <1>8
    <3> QED BY <3>1, <3>2
  <2> QED BY <2>2, <2>5, <2>6 DEF HasRun, ko, m
<1>14. \A i \in 1 .. (counter + 1) - 1 : i = counter \/ i \in 1 .. counter - 1
  BY <1>1
<1> QED BY <1>7, <1>10, <1>11, <1>12, <1>13, <1>14 DEF Undisturbed

WithCount(p, o, n) == [p EXCEPT !.values[o].count = n]

\* The count of a view is all that storing a result changes of a program.
LEMMA CountIsSet ==
    ASSUME NEW p, Shaped(p), NEW o \in DOMAIN p.values, NEW n \in Nat, NEW q, q = WithCount(p, o, n),
           NEW p0, DOMAIN p.values = DOMAIN p0.values,
           \A k \in DOMAIN p0.values : SameView(p.values[k], p0.values[k])
    PROVE  /\ Shaped(q) /\ q.code = p.code /\ DOMAIN q.values = DOMAIN p.values
           /\ \A k \in DOMAIN p0.values : SameView(q.values[k], p0.values[k])
<1> DEFINE values == p.values
           after == q.values
<1>1. q = [values |-> after, code |-> p.code] /\ after = [values EXCEPT ![o].count = n]
  BY DEF Shaped, WithCount
<1>2. /\ values = [k \in DOMAIN values |-> values[k]] /\ o \in DOMAIN values
      /\ \A k \in DOMAIN values : IsView(values[k]) /\ SameView(values[k], p0.values[k])
  BY DEF Shaped
<1> HIDE DEF values, after
<1>3. /\ DOMAIN after = DOMAIN values /\ after = [k \in DOMAIN after |-> after[k]]
      /\ \A k \in DOMAIN values : k # o => after[k] = values[k]
      /\ after[o] = [values[o] EXCEPT !.count = n]
  BY <1>1, <1>2
<1>4. IsView(after[o]) /\ SameView(after[o], p0.values[o])
  BY <1>2, <1>3 DEF IsView, SameView
<1>5. \A k \in DOMAIN values : IsView(after[k]) /\ SameView(after[k], p0.values[k])
  BY <1>2, <1>3, <1>4
<1>6. DOMAIN values = DOMAIN p.values /\ q.values = after /\ q.code = p.code
  BY <1>1 DEF values
<1>7. Len(p.code) \in Nat /\ DOMAIN p.code = 1 .. Len(p.code)
  BY DEF Shaped
<1> QED BY <1>1, <1>3, <1>5, <1>6, <1>7 DEF Shaped

LEMMA InstructionKeeps == ASSUME IsaAssumption, IsaInv, Instruction PROVE IsaInv'
<1> DEFINE c == program.code[counter]
           in == program.values[c.in]
           out == program.values[c.out]
           s == Elements(mem, in)
           run == Execution(c.op, s, in, out)
<1>1. phase = "running" /\ counter <= Len(program.code) /\ initial' = initial
  BY DEF Instruction
<1>2. isaReceipt.inputs = Fingerprints(initial) /\ ValidAt(Memory0, initial) /\ isaReceipt.status = "NONE"
      /\ IsaShape /\ (~Chained => Undisturbed(counter, mem, program, initial))
  BY <1>1 DEF IsaInv, IsaProgress
<1>3. counter \in DOMAIN initial.code /\ program.code = initial.code
      /\ counter \in Nat /\ counter + 1 \in 1 .. Len(initial.code) + 1
  BY <1>1, <1>2 DEF IsaShape, Shaped
<1>4. /\ c.in \in DOMAIN program.values /\ c.out \in DOMAIN program.values /\ c.op \in DOMAIN Binding
      /\ IsView(in) /\ IsView(out) /\ IsView(initial.values[c.in]) /\ IsView(initial.values[c.out])
      /\ SameView(out, initial.values[c.out])
      /\ ValidateKind(Binding[c.op].kind, Memory0, initial.values[c.in], initial.values[c.out])
  BY <1>2, <1>3 DEF ValidAt, IsaShape, Shaped
<1>5. IsList(run.result)
  <2>1. in.count \in Nat /\ s = [j \in 1 .. in.count |-> s[j]]
    BY <1>4, ElementsAreAList DEF IsView
  <2> QED BY <2>1, <1>4, ResultIsAList
<1>6. ~Chained => /\ run.result = ResultOf(initial, counter)
                  /\ ~(run.bytes > MemoryGrant) /\ InRange(mem, in)
  <2>1. SUFFICES ASSUME ~Chained PROVE /\ run.result = ResultOf(initial, counter)
                                       /\ ~(run.bytes > MemoryGrant) /\ InRange(mem, in)
    OBVIOUS
  <2> DEFINE in0 == initial.values[c.in]
             out0 == initial.values[c.out]
             run0 == Execution(c.op, Elements(Memory0, in0), in0, out0)
  <2>2. in = in0 /\ Elements(mem, in) = Elements(Memory0, in0)
    BY <2>1, <1>2, <1>3, InputsAreKept
  <2>3. run0.bytes \in Nat /\ run0.bytes <= MemoryGrant /\ InRange(Memory0, in0)
    BY <1>4, ValidatedFits
  <2>4. InRange(mem, in)
    BY <2>2, <2>3 DEF InRange
  <2>5. run = run0
    <3>1. s = Elements(Memory0, in0) /\ out.capacity = out0.capacity /\ out.packed = out0.packed
      BY <2>2, <1>4 DEF SameView
    <3> HIDE DEF s, in0, out0, out, in, c
    <3> QED BY <2>2, <3>1 DEF run, run0, Execution, ExecuteEqual, ExecuteLineage, ExecuteSingle, ExecuteWorld,
          ExecuteCatalog, ExecuteResolve, ExecuteSolve, CopyBytes
  <2>6. run0.result = ResultOf(initial, counter)
    BY <1>3 DEF ResultOf
  <2>7. MemoryGrant \in Nat
    BY DEF IsaAssumption
  <2> HIDE DEF run, run0, in
  <2> QED BY <2>3, <2>4, <2>5, <2>6, <2>7
<1>7. CASE /\ Store(c, run.result)
           /\ counter' = counter + 1
           /\ isaReceipt' = [isaReceipt EXCEPT !.executed = counter]
           /\ UNCHANGED phase
  <2>1. program' = [program EXCEPT !.values[c.out].count = Len(run.result)]
    BY <1>7 DEF Store
  <2>2. /\ isaReceipt'.inputs = isaReceipt.inputs /\ isaReceipt'.status = "NONE"
        /\ DOMAIN isaReceipt' = DOMAIN isaReceipt
    BY <1>2, <1>7 DEF IsaShape
  <2> DEFINE n == Len(run.result)
  <2>3. n \in Nat
    BY <1>5 DEF IsList
  <2> HIDE DEF n, run
  <2>4. Shaped(program') /\ program'.code = program.code /\ DOMAIN program'.values = DOMAIN program.values
        /\ \A k \in DOMAIN initial.values : SameView(program'.values[k], initial.values[k])
    <3>1. /\ Shaped(program) /\ DOMAIN program.values = DOMAIN initial.values
          /\ \A k \in DOMAIN initial.values : SameView(program.values[k], initial.values[k])
      BY <1>2 DEF IsaShape
    <3>2. program' = WithCount(program, c.out, n) /\ c.out \in DOMAIN program.values
      BY <1>4, <2>1 DEF n, WithCount
    <3> HIDE DEF c
    <3> QED BY <2>3, <3>1, <3>2, CountIsSet
  <2>5. IsaShape'
    BY <1>1, <1>2, <1>3, <1>7, <2>2, <2>4 DEF IsaShape
  <2>6. IsaProgress'
    BY <1>1, <1>2, <1>7, <2>2 DEF IsaProgress
  <2>7. (~Chained)' => Undisturbed(counter', mem', program', initial')
    <3>1. (~Chained)' => ~Chained
      BY <1>1 DEF Chained
    <3>2. ~Chained => Undisturbed(counter + 1, mem', program', initial)
      BY <1>1, <1>2, <1>3, <1>6, <1>7, InstructionRuns
    <3> QED BY <3>1, <3>2, <1>1, <1>7
  <2> QED BY <2>2, <2>5, <2>6, <2>7 DEF IsaInv, ValidatedIsNotRefused
<1>8. CASE /\ isaReceipt' = [isaReceipt EXCEPT !.status =
                   IF run.bytes > MemoryGrant THEN "OVER_GRANT"
                   ELSE IF ~InRange(mem, in) THEN "EXECUTION_FAILED" ELSE "NO_MEMORY"]
           /\ phase' = "failed"
           /\ UNCHANGED <<program, mem, counter>>
  <2> HIDE DEF run, in
  <2>1. DOMAIN isaReceipt' = DOMAIN isaReceipt /\ (~Chained => isaReceipt'.status = "NO_MEMORY")
    BY <1>2, <1>6, <1>8 DEF IsaShape
  <2>2. IsaShape'
    BY <1>1, <1>2, <1>8, <2>1 DEF IsaShape
  <2>3. IsaProgress'
    BY <1>1, <1>2, <1>8 DEF IsaProgress
  <2>4. (~Chained)' => ~Chained
    BY <1>1 DEF Chained
  <2> QED BY <1>1, <1>2, <1>8, <2>1, <2>2, <2>3, <2>4 DEF IsaInv, ValidatedIsNotRefused
<1> QED BY <1>7, <1>8 DEF Instruction

LEMMA IsaStep == IsaAssumption /\ IsaInv /\ [IsaNext]_isaVars => IsaInv'
<1>1. CASE UNCHANGED isaVars
  BY <1>1 DEF isaVars, IsaInv, IsaShape, IsaProgress, Undisturbed, ValidatedIsNotRefused, Chained, HasRun, Shaped
<1> QED BY <1>1, SubmitKeeps, ValidateKeeps, HashInputsKeeps, InstructionKeeps, HashOutputsKeeps DEF IsaNext

\* A finished program computed what its instructions say of its inputs.
LEMMA FinishedIsOfItsInputs == IsaAssumption /\ IsaInv => ProgramIsOfItsInputs
<1>1. SUFFICES ASSUME IsaAssumption, IsaInv PROVE ProgramIsOfItsInputs
  OBVIOUS
<1>2. WritesStayInside
  BY <1>1 DEF IsaInv, WritesStayInside, Undisturbed
<1>3. ASSUME phase = "done", ~Chained, NEW i \in DOMAIN initial.code
      PROVE  LET c == initial.code[i]
                 in == initial.values[c.in]
             IN /\ Elements(mem, program.values[c.out])
                     = Execution(c.op, Elements(Memory0, in), in, initial.values[c.out]).result
                /\ isaReceipt.inputs[i] = VectorFingerprint(mem, in)
  <2> DEFINE c == initial.code[i]
             in == initial.values[c.in]
             out == program.values[c.out]
             stored == ResultOf(initial, i)
  <2>1. /\ ValidAt(Memory0, initial) /\ Shaped(initial) /\ isaReceipt.inputs = Fingerprints(initial)
        /\ counter = Len(initial.code) + 1 /\ Undisturbed(counter, mem, program, initial)
    BY <1>1, <1>3 DEF IsaInv, IsaProgress, IsaShape
  <2>2. i \in 1 .. counter - 1
    BY <1>3, <2>1 DEF Shaped
  <2>3. out.count = Len(stored) /\ \A k \in 1 .. Len(stored) : mem[out.base + k - 1] = stored[k]
    BY <2>1, <2>2 DEF Undisturbed, HasRun
  <2>4. IsList(stored)
    BY <1>1, <1>3, <2>1, ResultFits
  <2>5. Elements(mem, out) = stored
    <3> HIDE DEF out, stored
    <3>1. Elements(mem, out) = [j \in 1 .. Len(stored) |-> stored[j]]
      BY <2>3 DEF Elements
    <3> QED BY <2>4, <3>1 DEF IsList
  <2>6. VectorFingerprint(mem, in) = VectorFingerprint(Memory0, in)
    <3>1. Elements(mem, in) = Elements(Memory0, in)
      BY <1>1, <1>3, <2>1, InputsAreKept
    <3> QED BY <3>1 DEF VectorFingerprint
  <2> QED BY <1>3, <2>1, <2>5, <2>6 DEF Fingerprints, ResultOf
<1>4. ResultIsOfTheInputs
  BY <1>3 DEF ResultIsOfTheInputs
<1> QED BY <1>1, <1>2, <1>4 DEF ProgramIsOfItsInputs, IsaInv

\* The instruction set (isa.c), for any programs, views, memory, operations and
\* memory grant: a program whose instructions do not read each other's outputs
\* writes only inside its outputs, ends with every instruction's result on the
\* inputs as they were handed in, fingerprints those very inputs, and once
\* validated is never refused for its grant or its elements.
THEOREM ProgramsAreOfTheirInputs == IsaAssumption => (IsaSpec => []ProgramIsOfItsInputs)
<1> SUFFICES ASSUME IsaAssumption PROVE IsaSpec => []ProgramIsOfItsInputs
  OBVIOUS
<1>1. IsaInit => IsaInv
  BY IsaInitial
<1>2. IsaInv /\ [IsaNext]_isaVars => IsaInv'
  BY IsaStep
<1>3. IsaInv => ProgramIsOfItsInputs
  BY FinishedIsOfItsInputs
<1> QED BY <1>1, <1>2, <1>3, PTL DEF IsaSpec

(***************************************************************************)
(* The perfcache layout.                                                   *)
(***************************************************************************)

\* Products of naturals grow with their factors.
LEMMA ProductMonotone ==
    ASSUME NEW a \in Nat, NEW b \in Nat, NEW s \in Nat, a <= b
    PROVE  a * s \in Nat /\ b * s \in Nat /\ a * s <= b * s
<1>1. PICK d \in Nat : b = a + d
  <2>1. b - a \in Nat /\ b = a + (b - a)
    OBVIOUS
  <2> QED BY <2>1
<1>2. a * s \in Nat /\ d * s \in Nat
  OBVIOUS
<1>3. b * s = a * s + d * s
  BY <1>1
<1> QED BY <1>2, <1>3

\* The comparison with a quotient that measure_layout_internal makes before the
\* product is the comparison of the product.
LEMMA QuotientBound ==
    ASSUME NEW n \in Nat, NEW m \in Nat, NEW s \in Nat \ {0}
    PROVE  n <= m \div s <=> n * s <= m
<1> DEFINE q == m \div s
           r == m % s
<1>1. q \in Nat /\ r \in Nat /\ r < s /\ m = s * q + r
  OBVIOUS
<1>2. q * s = s * q /\ (q + 1) * s = s * q + s /\ n * s \in Nat /\ s * q \in Nat
  BY <1>1
<1> HIDE DEF q, r
<1>3. ASSUME n <= q PROVE n * s <= m
  <2>1. n * s <= q * s
    BY <1>1, <1>3, ProductMonotone
  <2> QED BY <1>1, <1>2, <2>1
<1>4. ASSUME n > q PROVE n * s > m
  <2>1. (q + 1) * s <= n * s
    <3>1. q + 1 \in Nat /\ q + 1 <= n
      BY <1>1, <1>4
    <3> QED BY <3>1, ProductMonotone
  <2> QED BY <1>1, <1>2, <2>1
<1>5. n <= q <=> n * s <= m
  BY <1>1, <1>2, <1>3, <1>4
<1> QED BY <1>5 DEF q

\* A cell inside the records is of one of the records.
LEMMA QuotientInside ==
    ASSUME NEW p \in Nat, NEW n \in Nat, NEW s \in Nat \ {0}, p < n * s
    PROVE  p \div s \in 0 .. n - 1 /\ p % s \in 0 .. s - 1
<1>1. p \div s \in Nat /\ p % s \in 0 .. s - 1
  OBVIOUS
<1>2. ~(n <= p \div s)
  <2>1. n * s \in Nat
    OBVIOUS
  <2> QED BY <2>1, QuotientBound
<1> QED BY <1>1, <1>2

LEMMA ContractShape ==
    ASSUME LayoutAssumption, NEW c \in Contracts
    PROVE  c.key \in Nat /\ c.value \in Nat /\ Stride(c) \in Nat
BY DEF LayoutAssumption, Stride

LEMMA ValidStride ==
    ASSUME LayoutAssumption, NEW c \in Contracts, ContractValid(c)
    PROVE  Stride(c) \in Nat \ {0} /\ c.key <= Stride(c) /\ c.law \in Laws
BY ContractShape DEF ContractValid, Stride

\* A size is measured exactly when the unbounded sum fits.
LEMMA MeasureExact ==
    ASSUME LayoutAssumption, NEW c \in Contracts, ContractValid(c),
           NEW count \in Nat, NEW metadata \in Nat
    PROVE  LET exact == HeaderBytes + count * Stride(c) + metadata + DigestBytes
           IN IF exact <= MaxU
              THEN /\ MeasureLayout(c, count, metadata).status = "ok"
                   /\ MeasureLayout(c, count, metadata).size = exact
              ELSE MeasureLayout(c, count, metadata).status = "overflow"
<1> DEFINE s == Stride(c)
           records == count * s
<1>1. s \in Nat \ {0}
  BY ValidStride
<1>2. MaxU \in Nat /\ HeaderBytes \in Nat /\ DigestBytes \in Nat
  BY DEF LayoutAssumption
<1>3. records \in Nat
  BY <1>1
<1>4. count > MaxU \div s <=> records > MaxU
  <2>1. MaxU \div s \in Nat
    BY <1>1, <1>2
  <2> QED BY <1>1, <1>2, <1>3, <2>1, QuotientBound
<1> DEFINE over == count > MaxU \div s
<1>5. MeasureLayout(c, count, metadata)
        = IF over THEN [status |-> "overflow", size |-> 0]
          ELSE IF MaxU - HeaderBytes < records THEN [status |-> "overflow", size |-> 0]
          ELSE IF MaxU - (HeaderBytes + records) < metadata THEN [status |-> "overflow", size |-> 0]
          ELSE IF MaxU - (HeaderBytes + records + metadata) < DigestBytes THEN [status |-> "overflow", size |-> 0]
          ELSE [status |-> "ok", size |-> HeaderBytes + records + metadata + DigestBytes]
  BY DEF MeasureLayout
<1>6. over <=> records > MaxU
  BY <1>4
<1> HIDE DEF records, over
<1>7. IF HeaderBytes + records + metadata + DigestBytes <= MaxU
      THEN /\ MeasureLayout(c, count, metadata).status = "ok"
           /\ MeasureLayout(c, count, metadata).size = HeaderBytes + records + metadata + DigestBytes
      ELSE MeasureLayout(c, count, metadata).status = "overflow"
  BY <1>2, <1>3, <1>5, <1>6
<1> QED BY <1>7 DEF records

-----------------------------------------------------------------------------
(* Artifacts and what is accepted.                                         *)

HeaderFields == Numbers \cup {"magic", "contract"}
IsHeader(h) ==
    /\ h = [f \in HeaderFields |-> h[f]]
    /\ \A f \in Numbers : h[f] \in Nat
    /\ h.magic \in BOOLEAN
    /\ h.contract \in Contracts
IsArtifact(a) ==
    /\ a = [h |-> a.h, body |-> a.body, digest |-> a.digest, bytes |-> a.bytes]
    /\ IsHeader(a.h)
    /\ a.body \in Seq(Cell)
    /\ a.bytes = HeaderBytes + Len(a.body) + DigestBytes

LEMMA HeaderIsHeader ==
    ASSUME LayoutAssumption, NEW c \in Contracts, NEW count \in Nat, NEW metadata \in Nat
    PROVE  IsHeader(Header(c, count, metadata))
<1> DEFINE h == Header(c, count, metadata)
           records == count * Stride(c)
<1>1. Stride(c) \in Nat /\ HeaderBytes \in Nat /\ DigestBytes \in Nat
  BY ContractShape DEF LayoutAssumption
<1>2. records \in Nat
  BY <1>1
<1>3. h = [magic |-> TRUE, version |-> 1, header |-> HeaderBytes, reserved |-> 0, contract |-> c,
           count |-> count, stride |-> Stride(c), records |-> HeaderBytes,
           recordsBytes |-> records, metadata |-> HeaderBytes + records,
           metadataBytes |-> metadata, digest |-> HeaderBytes + records + metadata]
  BY DEF Header
<1> HIDE DEF h, records
<1>4. /\ h.count \in Nat /\ h.stride \in Nat /\ h.records \in Nat /\ h.recordsBytes \in Nat
      /\ h.metadata \in Nat /\ h.metadataBytes \in Nat /\ h.digest \in Nat
      /\ h.version \in Nat /\ h.header \in Nat /\ h.reserved \in Nat
  BY <1>1, <1>2, <1>3
<1>5. \A f \in Numbers : h[f] \in Nat
  BY <1>4 DEF Numbers
<1>6. h.magic \in BOOLEAN /\ h.contract \in Contracts
  BY <1>3
<1>7. h = [f \in HeaderFields |-> h[f]]
  BY <1>3 DEF HeaderFields, Numbers
<1> QED BY <1>5, <1>6, <1>7 DEF IsHeader, h

LEMMA SealIsArtifact ==
    ASSUME LayoutAssumption, NEW c \in Contracts, NEW count \in Nat, NEW metadata \in Nat,
           NEW body \in Seq(Cell)
    PROVE  IsArtifact(Seal(c, count, metadata, body))
BY HeaderIsHeader DEF Seal, IsArtifact

\* A header is known by its fields.
LEMMA SameHeader ==
    ASSUME NEW h, IsHeader(h), NEW g, IsHeader(g), \A f \in Numbers : h[f] = g[f],
           h.magic = g.magic, h.contract = g.contract
    PROVE  h = g
<1>1. \A f \in HeaderFields : h[f] = g[f]
  BY DEF HeaderFields
<1> QED BY <1>1 DEF IsHeader

LEMMA OkMeans ==
    ASSUME NEW a, NEW c, ValidateStatus(a, c) = "ok"
    PROVE  /\ ContractValid(c) /\ a.h.magic /\ a.h.version = 1
           /\ a.h.header = HeaderBytes /\ a.h.reserved = 0
           /\ a.h.contract = c /\ Sections(a, Stride(c))
           /\ a.digest = Content(a.h, SubSeq(a.body, 1, a.h.digest - HeaderBytes))
           /\ AccessLaw(a.body, a.h.count, c)
BY DEF ValidateStatus

LEMMA OkWhen ==
    ASSUME NEW a, NEW c, ContractValid(c), ~(a.bytes < HeaderBytes + DigestBytes),
           a.h.magic, a.h.version = 1, a.h.header = HeaderBytes, a.h.reserved = 0,
           a.h.contract = c, Sections(a, Stride(c)),
           a.digest = Content(a.h, SubSeq(a.body, 1, a.h.digest - HeaderBytes)),
           AccessLaw(a.body, a.h.count, c)
    PROVE  ValidateStatus(a, c) = "ok"
BY DEF ValidateStatus

LEMMA WholeSeq ==
    ASSUME NEW S, NEW s \in Seq(S)
    PROVE  SubSeq(s, 1, Len(s)) = s
OBVIOUS

\* What validation accepts is what sealing its records and metadata makes.
LEMMA AcceptedIsSealed ==
    ASSUME LayoutAssumption, NEW a, IsArtifact(a), NEW c, ValidateStatus(a, c) = "ok"
    PROVE  /\ c \in Contracts /\ a.h.contract = c /\ ContractValid(c)
           /\ a.h.count \in Nat /\ a.h.metadataBytes \in Nat
           /\ a.h.count * Stride(c) + a.h.metadataBytes = Len(a.body)
           /\ a.h.count * Stride(c) \in Nat
           /\ a = Seal(c, a.h.count, a.h.metadataBytes, a.body)
           /\ AccessLaw(a.body, a.h.count, c)
<1> DEFINE h == a.h
           n == h.count
           metadata == h.metadataBytes
           records == n * Stride(c)
           g == Header(c, n, metadata)
<1>1. /\ ContractValid(c) /\ h.magic /\ h.version = 1 /\ h.header = HeaderBytes /\ h.reserved = 0
      /\ h.contract = c /\ Sections(a, Stride(c))
      /\ a.digest = Content(h, SubSeq(a.body, 1, h.digest - HeaderBytes))
      /\ AccessLaw(a.body, n, c)
  BY OkMeans
<1>2. IsHeader(h) /\ a.body \in Seq(Cell) /\ a.bytes = HeaderBytes + Len(a.body) + DigestBytes
  BY DEF IsArtifact
<1>3. c \in Contracts /\ n \in Nat /\ metadata \in Nat
  BY <1>1, <1>2 DEF IsHeader, Numbers
<1>4. Stride(c) \in Nat \ {0} /\ HeaderBytes \in Nat /\ DigestBytes \in Nat
  BY <1>1, <1>3, ValidStride DEF LayoutAssumption
<1>5. records \in Nat
  BY <1>3, <1>4
<1>6. /\ h.stride = Stride(c) /\ h.records = HeaderBytes /\ h.recordsBytes = records
      /\ h.metadata = HeaderBytes + records /\ h.digest = HeaderBytes + records + metadata
      /\ HeaderBytes + records + metadata + DigestBytes = a.bytes
  BY <1>1 DEF Sections
<1>7. records + metadata = Len(a.body) /\ h.digest - HeaderBytes = Len(a.body)
  <2>1. Len(a.body) \in Nat
    BY <1>2
  <2> HIDE DEF h, records, metadata
  <2> QED BY <1>2, <1>3, <1>4, <1>5, <1>6, <2>1
<1>8. a.digest = Content(h, a.body)
  BY <1>1, <1>2, <1>7, WholeSeq
<1>9. h = g
  <2>1. IsHeader(g)
    BY <1>3, HeaderIsHeader
  <2>2. /\ g.count = n /\ g.stride = Stride(c) /\ g.records = HeaderBytes /\ g.recordsBytes = records
        /\ g.metadata = HeaderBytes + records /\ g.metadataBytes = metadata
        /\ g.digest = HeaderBytes + records + metadata
        /\ g.version = 1 /\ g.header = HeaderBytes /\ g.reserved = 0
        /\ g.magic = TRUE /\ g.contract = c
    BY DEF Header
  <2>3. h.magic = TRUE
    BY <1>1, <1>2 DEF IsHeader
  <2> HIDE DEF h, g, records
  <2>4. \A f \in Numbers : h[f] = g[f]
    BY <1>1, <1>6, <2>2 DEF Numbers, n, metadata
  <2> QED BY <1>1, <1>2, <2>1, <2>2, <2>3, <2>4, SameHeader
<1>10. a = [h |-> g, body |-> a.body, digest |-> Content(g, a.body),
            bytes |-> HeaderBytes + Len(a.body) + DigestBytes]
  <2>1. a = [h |-> a.h, body |-> a.body, digest |-> a.digest, bytes |-> a.bytes]
    BY DEF IsArtifact
  <2> HIDE DEF g
  <2> QED BY <1>2, <1>8, <1>9, <2>1
<1>11. a = Seal(c, n, metadata, a.body)
  BY <1>10 DEF Seal
<1> QED BY <1>1, <1>3, <1>5, <1>7, <1>11

\* A sum that fits does so part by part.
LEMMA FitsInParts ==
    ASSUME NEW h \in Nat, NEW r \in Nat, NEW m \in Nat, NEW d \in Nat, NEW u \in Nat, h + r + m + d <= u
    PROVE  r <= u - h /\ m <= u - (h + r) /\ d <= u - (h + r + m)
OBVIOUS

LEMMA OffsetOfEnd ==
    ASSUME NEW h \in Nat, NEW r \in Nat, NEW m \in Nat, NEW e, e = h + r + m, NEW l, l = r + m
    PROVE  e - h = l
OBVIOUS

LEMMA WiderValues ==
    ASSUME NEW S, NEW T, NEW U, T \subseteq U, NEW f \in [S -> T]
    PROVE  f \in [S -> U]
OBVIOUS

\* The cells are those of the records and the metadata.
Filled(body, c, count, metadata) == Len(body) = count * Stride(c) + metadata

\* What is sealed around as many cells as it says is accepted.
LEMMA SealedIsAccepted ==
    ASSUME LayoutAssumption, NEW c \in Contracts, ContractValid(c), NEW count \in Nat, NEW metadata \in Nat,
           NEW body \in Seq(Cell), Filled(body, c, count, metadata),
           MeasureLayout(c, count, metadata).status = "ok", AccessLaw(body, count, c)
    PROVE  ValidateStatus(Seal(c, count, metadata, body), c) = "ok"
<1> DEFINE a == Seal(c, count, metadata, body)
           h == Header(c, count, metadata)
           records == count * Stride(c)
<1>1. Stride(c) \in Nat \ {0} /\ HeaderBytes \in Nat /\ DigestBytes \in Nat /\ MaxU \in Nat
  BY ValidStride DEF LayoutAssumption
<1>2. records \in Nat
  BY <1>1
<1>3. HeaderBytes + records + metadata + DigestBytes <= MaxU
  BY MeasureExact
<1>4. a.h = h /\ a.body = body /\ a.digest = Content(h, body) /\ a.bytes = HeaderBytes + Len(body) + DigestBytes
  BY DEF Seal
<1>5. /\ h.count = count /\ h.stride = Stride(c) /\ h.records = HeaderBytes /\ h.recordsBytes = records
      /\ h.metadata = HeaderBytes + records /\ h.metadataBytes = metadata
      /\ h.digest = HeaderBytes + records + metadata
      /\ h.version = 1 /\ h.header = HeaderBytes /\ h.reserved = 0
      /\ h.magic = TRUE /\ h.contract = c
  BY DEF Header
<1>6. count <= MaxU \div Stride(c)
  <2>1. records <= MaxU
    BY <1>1, <1>2, <1>3
  <2> QED BY <1>1, <2>1, QuotientBound
<1> HIDE DEF a, h
<1>7. Sections(a, Stride(c))
  <2>1. a.h.count * a.h.stride = records
    BY <1>4, <1>5
  <2>2. a.h.stride = Stride(c) /\ a.h.count <= MaxU \div a.h.stride
    BY <1>4, <1>5, <1>6
  <2>3. a.bytes = HeaderBytes + records + metadata + DigestBytes
    <3>1. Len(body) = records + metadata /\ Len(body) \in Nat
      BY DEF Filled
    <3> HIDE DEF records
    <3> QED BY <1>1, <1>2, <1>4, <3>1
  <2> HIDE DEF records
  <2>4. /\ records <= MaxU - HeaderBytes /\ metadata <= MaxU - (HeaderBytes + records)
        /\ DigestBytes <= MaxU - (HeaderBytes + records + metadata)
    BY <1>1, <1>2, <1>3, FitsInParts
  <2> QED BY <1>4, <1>5, <2>1, <2>2, <2>3, <2>4 DEF Sections
<1>8. a.h.digest - HeaderBytes = Len(a.body)
  <2> HIDE DEF records
  <2>1. Len(a.body) = records + metadata
    BY <1>4 DEF records, Filled
  <2>2. a.h.digest = HeaderBytes + records + metadata
    BY <1>4, <1>5
  <2> DEFINE end == a.h.digest
             length == Len(a.body)
  <2>3. end = HeaderBytes + records + metadata /\ length = records + metadata
    BY <2>1, <2>2
  <2> HIDE DEF end, length
  <2>4. end - HeaderBytes = length
    BY <1>1, <1>2, <2>3, OffsetOfEnd
  <2> QED BY <2>4 DEF end, length
<1>9. a.digest = Content(a.h, SubSeq(a.body, 1, a.h.digest - HeaderBytes))
  BY <1>4, <1>8, WholeSeq
<1>10. ~(a.bytes < HeaderBytes + DigestBytes)
  <2>1. Len(body) \in Nat
    OBVIOUS
  <2> QED BY <1>1, <1>4, <2>1
<1>11. ValidateStatus(a, c) = "ok"
  BY <1>4, <1>5, <1>7, <1>9, <1>10, OkWhen
<1> QED BY <1>11 DEF a

-----------------------------------------------------------------------------
(* The order of keys.                                                      *)

\* A record inside the cells has a key.
LEMMA KeyInside ==
    ASSUME LayoutAssumption, NEW c \in Contracts, ContractValid(c), NEW body \in Seq(Cell),
           NEW n \in Nat, n * Stride(c) <= Len(body), NEW i \in 0 .. n - 1
    PROVE  KeyOf(body, i, c) \in Keys(c)
<1> DEFINE s == Stride(c)
<1>1. s \in Nat \ {0} /\ c.key <= s /\ c.key \in Nat
  BY ValidStride, ContractShape
<1>2. i * s \in Nat /\ i * s + s <= n * s /\ n * s \in Nat
  <2>1. i + 1 \in Nat /\ i + 1 <= n /\ (i + 1) * s = i * s + s /\ i * s \in Nat /\ i \in Nat
    BY <1>1
  <2>2. (i + 1) * s <= n * s /\ n * s \in Nat
    BY <1>1, <2>1, ProductMonotone
  <2> QED BY <2>1, <2>2
<1> DEFINE o == i * s
           e == n * s
<1>3. ASSUME NEW j \in 1 .. c.key PROVE body[o + j] \in Cell
  <2>1. o \in Nat /\ o + s <= e /\ e \in Nat /\ e <= Len(body)
    BY <1>2
  <2> HIDE DEF o, s, e
  <2>2. o + j \in 1 .. Len(body)
    BY <1>1, <2>1
  <2> QED BY <2>2
<1> QED BY <1>3 DEF KeyOf, Keys

LEMMA LessIrreflexive ==
    ASSUME NEW m \in Nat, NEW k \in [1 .. m -> Nat]
    PROVE  ~Less(k, k)
<1>1. \A i \in 1 .. Len(k) : ~(k[i] < k[i])
  BY LenProperties, k \in Seq(Nat)
<1> QED BY <1>1 DEF Less

LEMMA LessTransitive ==
    ASSUME NEW m \in Nat, NEW k \in [1 .. m -> Nat], NEW l \in [1 .. m -> Nat], NEW n \in [1 .. m -> Nat],
           Less(k, l), Less(l, n)
    PROVE  Less(k, n)
<1>1. Len(k) = m /\ Len(l) = m
  OBVIOUS
<1>2. PICK i \in 1 .. m : k[i] < l[i] /\ \A j \in 1 .. (i - 1) : k[j] = l[j]
  BY <1>1 DEF Less
<1>3. PICK p \in 1 .. m : l[p] < n[p] /\ \A j \in 1 .. (p - 1) : l[j] = n[j]
  BY <1>1 DEF Less
<1>4. CASE i <= p
  <2>1. l[i] <= n[i]
    <3>1. i < p => l[i] = n[i]
      BY <1>3
    <3>2. l[i] \in Nat /\ n[i] \in Nat
      OBVIOUS
    <3> QED BY <1>3, <1>4, <3>1, <3>2
  <2>2. k[i] < n[i]
    BY <1>2, <2>1
  <2>3. \A j \in 1 .. (i - 1) : k[j] = n[j]
    BY <1>2, <1>3, <1>4
  <2> QED BY <1>1, <2>2, <2>3 DEF Less
<1>5. CASE p < i
  <2>1. k[p] < n[p]
    BY <1>2, <1>3, <1>5
  <2>2. \A j \in 1 .. (p - 1) : k[j] = n[j]
    BY <1>2, <1>3, <1>5
  <2> QED BY <1>1, <2>1, <2>2 DEF Less
<1> QED BY <1>4, <1>5

\* Neighbours in order are all in order.
LEMMA SortedMeans ==
    ASSUME LayoutAssumption, NEW c \in Contracts, ContractValid(c), NEW body \in Seq(Cell),
           NEW n \in Nat, n * Stride(c) <= Len(body), SortedUnique(body, n, c)
    PROVE  \A j \in 0 .. n - 1 : \A i \in 0 .. j - 1 : Less(KeyOf(body, i, c), KeyOf(body, j, c))
<1> DEFINE K(i) == KeyOf(body, i, c)
           S == {j \in Nat : j < n => \A i \in 0 .. j - 1 : Less(K(i), K(j))}
<1>1. c.key \in Nat /\ \A i \in 0 .. n - 1 : K(i) \in [1 .. c.key -> Nat]
  <2>1. \A i \in 0 .. n - 1 : K(i) \in [1 .. c.key -> Cell]
    BY KeyInside DEF Keys
  <2>2. c.key \in Nat /\ Cell \subseteq Nat
    BY ContractShape DEF LayoutAssumption
  <2> HIDE DEF K
  <2> QED BY <2>1, <2>2, WiderValues
<1>2. \A j \in 1 .. n - 1 : Less(K(j - 1), K(j))
  BY DEF SortedUnique
<1> HIDE DEF K
<1>3. 0 \in S
  OBVIOUS
<1>4. ASSUME NEW j \in Nat, j \in S PROVE j + 1 \in S
  <2> SUFFICES ASSUME j + 1 < n, NEW i \in 0 .. j PROVE Less(K(i), K(j + 1))
    OBVIOUS
  <2>1. Less(K(j), K(j + 1))
    <3>1. j + 1 \in 1 .. n - 1 /\ (j + 1) - 1 = j
      OBVIOUS
    <3> QED BY <1>2, <3>1
  <2>2. CASE i = j
    BY <2>1, <2>2
  <2>3. CASE i # j
    <3>1. Less(K(i), K(j))
      BY <1>4, <2>3
    <3>2. i \in 0 .. n - 1 /\ j \in 0 .. n - 1 /\ j + 1 \in 0 .. n - 1
      OBVIOUS
    <3>3. K(i) \in [1 .. c.key -> Nat] /\ K(j) \in [1 .. c.key -> Nat] /\ K(j + 1) \in [1 .. c.key -> Nat]
      BY <1>1, <3>2
    <3> QED BY <1>1, <2>1, <3>1, <3>3, LessTransitive
  <2> QED BY <2>2, <2>3
<1>5. Nat \subseteq S
  <2> HIDE DEF S
  <2> QED BY <1>3, <1>4, NatSetInduction
<1>6. \A j \in 0 .. n - 1 : \A i \in 0 .. j - 1 : Less(K(i), K(j))
  BY <1>5
<1> QED BY <1>6 DEF K

-----------------------------------------------------------------------------
(* The search: everything below low is less than the key, nothing from     *)
(* high on is.                                                             *)

Bracketed(body, n, c, key, low, high) ==
    /\ low \in Nat /\ high \in Nat /\ low <= high /\ high <= n
    /\ \A i \in 0 .. low - 1 : Less(KeyOf(body, i, c), key)
    /\ \A i \in high .. n - 1 : ~Less(KeyOf(body, i, c), key)

LEMMA BracketNarrows ==
    ASSUME LayoutAssumption, NEW c \in Contracts, ContractValid(c), NEW body \in Seq(Cell),
           NEW n \in Nat, n * Stride(c) <= Len(body), SortedUnique(body, n, c), NEW key \in Keys(c),
           NEW low, NEW high, Bracketed(body, n, c, key, low, high), low < high
    PROVE  LET middle == low + (high - low) \div 2
           IN IF Less(KeyOf(body, middle, c), key)
              THEN Bracketed(body, n, c, key, middle + 1, high)
              ELSE Bracketed(body, n, c, key, low, middle)
<1> DEFINE middle == low + (high - low) \div 2
           K(i) == KeyOf(body, i, c)
<1>1. low \in Nat /\ high \in Nat /\ high <= n
  BY DEF Bracketed
<1>2. middle \in Nat /\ low <= middle /\ middle < high
  BY <1>1
<1>3. c.key \in Nat /\ key \in [1 .. c.key -> Nat] /\ \A i \in 0 .. n - 1 : K(i) \in [1 .. c.key -> Nat]
  <2>1. c.key \in Nat /\ Cell \subseteq Nat
    BY ContractShape DEF LayoutAssumption
  <2>2. \A i \in 0 .. n - 1 : K(i) \in [1 .. c.key -> Cell]
    BY KeyInside DEF Keys
  <2>3. key \in [1 .. c.key -> Cell]
    BY DEF Keys
  <2> HIDE DEF K
  <2> QED BY <2>1, <2>2, <2>3, WiderValues
<1>4. \A j \in 0 .. n - 1 : \A i \in 0 .. j - 1 : Less(K(i), K(j))
  BY SortedMeans
<1>5. /\ \A i \in 0 .. low - 1 : Less(K(i), key)
      /\ \A i \in high .. n - 1 : ~Less(K(i), key)
  BY DEF Bracketed
<1> HIDE DEF K, middle
<1>6. ASSUME Less(K(middle), key) PROVE \A i \in 0 .. middle : Less(K(i), key)
  <2> SUFFICES ASSUME NEW i \in 0 .. middle PROVE Less(K(i), key)
    OBVIOUS
  <2>1. CASE i = middle
    BY <1>6, <2>1
  <2>2. CASE i # middle
    <3>1. i \in 0 .. n - 1 /\ middle \in 0 .. n - 1 /\ i \in 0 .. middle - 1
      BY <1>1, <1>2, <2>2
    <3>2. Less(K(i), K(middle))
      BY <1>4, <3>1
    <3>3. K(i) \in [1 .. c.key -> Nat] /\ K(middle) \in [1 .. c.key -> Nat]
      BY <1>3, <3>1
    <3> QED BY <1>3, <1>6, <3>2, <3>3, LessTransitive
  <2> QED BY <2>1, <2>2
<1>7. ASSUME ~Less(K(middle), key) PROVE \A i \in middle .. n - 1 : ~Less(K(i), key)
  <2> SUFFICES ASSUME NEW i \in middle .. n - 1, Less(K(i), key) PROVE FALSE
    OBVIOUS
  <2>1. i # middle
    BY <1>7
  <2>2. i \in 0 .. n - 1 /\ middle \in 0 .. n - 1 /\ middle \in 0 .. i - 1
    BY <1>1, <1>2, <2>1
  <2>3. Less(K(middle), K(i))
    BY <1>4, <2>2
  <2>4. K(i) \in [1 .. c.key -> Nat] /\ K(middle) \in [1 .. c.key -> Nat]
    BY <1>3, <2>2
  <2>5. Less(K(middle), key)
    BY <1>3, <2>3, <2>4, LessTransitive
  <2> QED BY <1>7, <2>5
<1>8. ASSUME Less(K(middle), key) PROVE Bracketed(body, n, c, key, middle + 1, high)
  <2>1. middle + 1 \in Nat /\ middle + 1 <= high /\ (middle + 1) - 1 = middle
    BY <1>1, <1>2
  <2> QED BY <1>1, <1>5, <1>6, <1>8, <2>1 DEF Bracketed, K
<1>9. ASSUME ~Less(K(middle), key) PROVE Bracketed(body, n, c, key, low, middle)
  <2>1. middle <= n
    BY <1>1, <1>2
  <2> QED BY <1>1, <1>2, <1>5, <1>7, <1>9, <2>1 DEF Bracketed, K
<1> QED BY <1>8, <1>9 DEF K, middle

\* Where the bracket closes, the key is found or nowhere.
LEMMA BracketDecides ==
    ASSUME LayoutAssumption, NEW c \in Contracts, ContractValid(c), NEW body \in Seq(Cell),
           NEW n \in Nat, n * Stride(c) <= Len(body), SortedUnique(body, n, c), NEW key \in Keys(c),
           NEW low, NEW high, Bracketed(body, n, c, key, low, high), low >= high
    PROVE  LET hits == {i \in 0 .. n - 1 : KeyOf(body, i, c) = key}
           IN IF low < n /\ KeyOf(body, low, c) = key THEN hits = {low} ELSE hits = {}
<1> DEFINE K(i) == KeyOf(body, i, c)
           hits == {i \in 0 .. n - 1 : K(i) = key}
<1>1. low \in Nat /\ high = low /\ low <= n
  BY DEF Bracketed
<1>2. ~Less(key, key)
  <2>1. c.key \in Nat /\ key \in [1 .. c.key -> Nat]
    BY ContractShape DEF LayoutAssumption, Keys
  <2> QED BY <2>1, LessIrreflexive
<1>3. \A j \in 0 .. n - 1 : \A i \in 0 .. j - 1 : Less(K(i), K(j))
  BY SortedMeans
<1>4. /\ \A i \in 0 .. low - 1 : Less(K(i), key)
      /\ \A i \in low .. n - 1 : ~Less(K(i), key)
  BY <1>1 DEF Bracketed
<1> HIDE DEF K
<1>5. \A i \in hits : i = low
  <2> SUFFICES ASSUME NEW i \in 0 .. n - 1, K(i) = key, i # low PROVE FALSE
    OBVIOUS
  <2>1. CASE i < low
    <3>1. Less(K(i), key)
      BY <1>1, <1>4, <2>1
    <3> QED BY <1>2, <3>1
  <2>2. CASE i > low
    <3>1. low \in 0 .. i - 1 /\ low \in low .. n - 1
      BY <1>1, <2>2
    <3>2. Less(K(low), key)
      BY <1>3, <3>1
    <3> QED BY <1>4, <3>1, <3>2
  <2> QED BY <1>1, <2>1, <2>2
<1>6. low < n /\ K(low) = key => hits = {low}
  <2> SUFFICES ASSUME low < n, K(low) = key PROVE hits = {low}
    OBVIOUS
  <2>1. low \in hits
    BY <1>1
  <2> QED BY <1>5, <2>1
<1>7. ~(low < n /\ K(low) = key) => hits = {}
  <2>1. hits # {} => low \in hits
    BY <1>5
  <2> QED BY <1>1, <2>1
<1> QED BY <1>6, <1>7 DEF K

\* A dense key is the index of its record.
LEMMA DenseDecides ==
    ASSUME LayoutAssumption, NEW c \in Contracts, ContractValid(c), c.law = "dense", NEW body \in Seq(Cell),
           NEW n \in Nat, n * Stride(c) <= Len(body), DenseKeys(body, n, c), NEW key \in Keys(c)
    PROVE  LET hits == {i \in 0 .. n - 1 : KeyOf(body, i, c) = key}
           IN IF ReadWord(key) < n THEN hits = {ReadWord(key)} ELSE hits = {}
<1> DEFINE K(i) == KeyOf(body, i, c)
           w == ReadWord(key)
           hits == {i \in 0 .. n - 1 : K(i) = key}
<1>1. c.key = WordBytes
  BY DEF ContractValid
<1>2. key \in [1 .. WordBytes -> Cell] /\ \A i \in 0 .. n - 1 : K(i) \in [1 .. WordBytes -> Cell]
  BY <1>1, KeyInside DEF Keys
<1>3. MaxU32 \in Nat /\ w \in 0 .. MaxU32
  BY <1>2 DEF LayoutAssumption
<1>4. \A i \in 0 .. n - 1 : ReadWord(K(i)) = i
  <2> SUFFICES ASSUME NEW i \in 0 .. n - 1 PROVE ReadWord(K(i)) = i
    OBVIOUS
  <2>1. i % (MaxU32 + 1) = i
    <3>1. i \in Nat /\ i < MaxU32 + 1 /\ MaxU32 + 1 \in Nat \ {0}
      BY <1>3 DEF DenseKeys
    <3> QED BY <3>1
  <2>2. ReadWord(K(i)) = i % (MaxU32 + 1)
    BY DEF DenseKeys
  <2> QED BY <2>1, <2>2
<1>5. \A i \in 0 .. n - 1 : K(i) = key <=> w = i
  <2> SUFFICES ASSUME NEW i \in 0 .. n - 1 PROVE K(i) = key <=> w = i
    OBVIOUS
  <2>1. ASSUME w = i PROVE K(i) = key
    <3>1. ReadWord(K(i)) = ReadWord(key)
      BY <1>4, <2>1
    <3> HIDE DEF K
    <3> QED BY <1>2, <3>1 DEF LayoutAssumption
  <2>2. ASSUME K(i) = key PROVE w = i
    <3>1. ReadWord(K(i)) = i
      BY <1>4
    <3> HIDE DEF K
    <3> QED BY <2>2, <3>1
  <2> QED BY <2>1, <2>2
<1> HIDE DEF K, w
<1>6. IF w < n THEN hits = {w} ELSE hits = {}
  BY <1>3, <1>5
<1> QED BY <1>6 DEF K, w

-----------------------------------------------------------------------------
(* The inductive invariant.                                                *)

\* The measurement is of an offered contract, and exact.
MeasuredInv ==
    /\ asked.status # "none" => asked.contract \in Contracts
    /\ MeasureIsExact

ArtifactInv ==
    /\ changes \in Nat
    /\ artifact # NoArtifact => IsArtifact(artifact)
    /\ WrittenIsAccepted

\* A view is of the artifact as it is, which validates.
ViewInv ==
    view # NoView =>
        /\ artifact # NoArtifact
        /\ view = [contract |-> artifact.h.contract, count |-> artifact.h.count,
                   metadata |-> artifact.h.metadataBytes, digest |-> artifact.digest]
        /\ ValidateStatus(artifact, view.contract) = "ok"

SearchInv ==
    search # NoSearch =>
        /\ view # NoView /\ view.contract.law = "sorted"
        /\ search = [key |-> search.key, low |-> search.low, high |-> search.high]
        /\ search.key \in Keys(view.contract)
        /\ Bracketed(artifact.body, view.count, view.contract, search.key, search.low, search.high)

AnswerInv == answer # NoAnswer => view # NoView /\ LookupIsExact

LayoutInv == MeasuredInv /\ ArtifactInv /\ ViewInv /\ SearchInv /\ AnswerInv

\* A view in words of the lemmas.
LEMMA ViewMeans ==
    ASSUME LayoutAssumption, LayoutInv, view # NoView
    PROVE  /\ IsArtifact(artifact) /\ artifact.body \in Seq(Cell)
           /\ view.contract \in Contracts /\ ContractValid(view.contract) /\ view.count \in Nat
           /\ view.metadata \in Nat
           /\ view.count * Stride(view.contract) + view.metadata = Len(artifact.body)
           /\ view.count * Stride(view.contract) <= Len(artifact.body)
           /\ artifact = Seal(view.contract, view.count, view.metadata, artifact.body)
           /\ AccessLaw(artifact.body, view.count, view.contract)
<1> DEFINE c == view.contract
           n == view.count
<1>1. IsArtifact(artifact) /\ ValidateStatus(artifact, c) = "ok"
      /\ n = artifact.h.count /\ view.metadata = artifact.h.metadataBytes /\ artifact.body \in Seq(Cell)
  BY DEF LayoutInv, ArtifactInv, ViewInv, IsArtifact
<1> HIDE DEF c, n
<1>2. /\ c \in Contracts /\ ContractValid(c) /\ n \in Nat /\ view.metadata \in Nat
      /\ n * Stride(c) + view.metadata = Len(artifact.body) /\ n * Stride(c) \in Nat
      /\ artifact = Seal(c, n, view.metadata, artifact.body) /\ AccessLaw(artifact.body, n, c)
  BY <1>1, AcceptedIsSealed
<1>3. n * Stride(c) <= Len(artifact.body)
  BY <1>2
<1> QED BY <1>1, <1>2, <1>3 DEF c, n

LEMMA AccessMeans ==
    ASSUME NEW body, NEW n \in Nat, NEW c, AccessLaw(body, n, c)
    PROVE  /\ c.law = "sorted" => SortedUnique(body, n, c)
           /\ c.law = "dense" /\ n # 0 => DenseKeys(body, n, c)
<1>1. ASSUME n = 0 PROVE SortedUnique(body, n, c)
  BY <1>1 DEF SortedUnique
<1>2. ASSUME n # 0 PROVE /\ c.law = "sorted" => SortedUnique(body, n, c)
                         /\ c.law = "dense" => DenseKeys(body, n, c)
  BY <1>2 DEF AccessLaw
<1> QED BY <1>1, <1>2

LEMMA InitLayout == ASSUME LayoutAssumption, LayoutInit PROVE LayoutInv
BY DEF LayoutInit, LayoutInv, MeasuredInv, MeasureIsExact, ArtifactInv, WrittenIsAccepted, ViewInv,
       SearchInv, AnswerInv, NoMeasure

\* What a step that leaves the artifact and its view alone keeps.
LEMMA SameArtifact ==
    ASSUME ArtifactInv, ViewInv, UNCHANGED <<artifact, changes, view>>
    PROVE  ArtifactInv' /\ ViewInv'
BY DEF ArtifactInv, WrittenIsAccepted, ViewInv

LEMMA SameLookup ==
    ASSUME SearchInv, AnswerInv, UNCHANGED <<artifact, view, search, answer>>
    PROVE  SearchInv' /\ AnswerInv'
BY DEF SearchInv, AnswerInv, LookupIsExact

LEMMA MeasureKeeps ==
    ASSUME LayoutAssumption, LayoutInv, NEW c \in Contracts, NEW count \in Nat, NEW metadata \in Nat,
           LayoutMeasure(c, count, metadata)
    PROVE  LayoutInv'
<1>1. /\ asked'.contract = c /\ asked'.count = count /\ asked'.metadata = metadata
      /\ asked'.status = MeasureLayout(c, count, metadata).status
      /\ asked'.size = MeasureLayout(c, count, metadata).size
      /\ UNCHANGED <<artifact, changes, view, search, answer>>
  BY DEF LayoutMeasure
<1>2. MeasuredInv'
  BY <1>1, MeasureExact DEF MeasuredInv, MeasureIsExact
<1> QED BY <1>1, <1>2, SameArtifact, SameLookup DEF LayoutInv

\* Before there is an artifact there is no view, so no lookup.
LEMMA NothingToRead ==
    ASSUME ViewInv, SearchInv, AnswerInv, artifact = NoArtifact \/ view = NoView
    PROVE  view = NoView /\ search = NoSearch /\ answer = NoAnswer
BY DEF ViewInv, SearchInv, AnswerInv

\* Where nothing is read, a step that begins no reading keeps it so.
LEMMA StillNothing ==
    ASSUME view' = NoView, search' = NoSearch, answer' = NoAnswer
    PROVE  ViewInv' /\ SearchInv' /\ AnswerInv'
BY DEF ViewInv, SearchInv, AnswerInv

LEMMA CellsFill ==
    ASSUME LayoutAssumption, NEW c \in Contracts, ContractValid(c), NEW n \in Nat, NEW metadata \in Nat,
           NEW keys \in [1 .. n -> Keys(c)]
    PROVE  /\ Len(keys) = n
           /\ Cells(c, keys, metadata) \in Seq(Cell)
           /\ Len(Cells(c, keys, metadata)) = n * Stride(c) + metadata
<1> DEFINE s == Stride(c)
           total == n * s + metadata
           At(p) == IF p <= n * s /\ (p - 1) % s < c.key
                    THEN keys[((p - 1) \div s) + 1][((p - 1) % s) + 1] ELSE 0
<1>1. Len(keys) = n
  OBVIOUS
<1>2. s \in Nat \ {0} /\ c.key \in Nat /\ 0 \in Cell
  BY ValidStride, ContractShape DEF LayoutAssumption
<1>3. n * s \in Nat /\ total \in Nat
  BY <1>2
<1>4. Cells(c, keys, metadata) = [p \in 1 .. total |-> At(p)]
  BY <1>1 DEF Cells
<1>5. ASSUME NEW p \in 1 .. total PROVE At(p) \in Cell
  <2>1. CASE p <= n * s /\ (p - 1) % s < c.key
    <3> DEFINE i == (p - 1) \div s
               o == (p - 1) % s
    <3>1. p - 1 \in Nat /\ p - 1 < n * s
      BY <1>3, <2>1
    <3>2. i \in 0 .. n - 1 /\ o \in 0 .. s - 1
      BY <1>2, <3>1, QuotientInside
    <3>3. o < c.key
      BY <2>1
    <3> HIDE DEF i, o
    <3>4. i + 1 \in 1 .. n /\ o + 1 \in 1 .. c.key
      BY <1>2, <3>2, <3>3
    <3>5. keys[i + 1] \in [1 .. c.key -> Cell]
      BY <3>4 DEF Keys
    <3>6. keys[i + 1][o + 1] \in Cell
      BY <3>4, <3>5
    <3> QED BY <2>1, <3>6 DEF i, o
  <2>2. CASE ~(p <= n * s /\ (p - 1) % s < c.key)
    BY <1>2, <2>2
  <2> QED BY <2>1, <2>2
<1> HIDE DEF At, total
<1>6. Cells(c, keys, metadata) \in [1 .. total -> Cell]
  BY <1>4, <1>5
<1>7. Cells(c, keys, metadata) \in Seq(Cell) /\ Len(Cells(c, keys, metadata)) = total
  BY <1>3, <1>6
<1> QED BY <1>1, <1>7 DEF total

LEMMA ArtifactIsNot ==
    ASSUME LayoutAssumption, NEW a, IsArtifact(a)
    PROVE  a # NoArtifact
<1>1. a.bytes # 0
  <2>1. Len(a.body) \in Nat /\ a.bytes = HeaderBytes + Len(a.body) + DigestBytes
    BY DEF IsArtifact
  <2> QED BY <2>1 DEF LayoutAssumption
<1> QED BY <1>1 DEF NoArtifact

LEMMA WriteKeeps ==
    ASSUME LayoutAssumption, LayoutInv, Unbegun, NEW c \in Contracts, ContractValid(c), NEW n \in Nat,
           NEW metadata \in Nat, NEW keys \in [1 .. n -> Keys(c)], Write(c, keys, metadata)
    PROVE  LayoutInv'
<1> DEFINE body == Cells(c, keys, metadata)
<1>1. Len(keys) = n /\ body \in Seq(Cell) /\ Len(body) = n * Stride(c) + metadata
  BY CellsFill
<1>2. /\ MeasureLayout(c, n, metadata).status = "ok" /\ AccessLaw(body, n, c)
      /\ artifact' = Seal(c, n, metadata, body) /\ UNCHANGED <<changes, asked, view, search, answer>>
  BY <1>1 DEF Write
<1> HIDE DEF body
<1>3. IsArtifact(artifact')
  BY <1>1, <1>2, SealIsArtifact
<1>4. ValidateStatus(artifact', c) = "ok"
  BY <1>1, <1>2, SealedIsAccepted DEF Filled
<1>5. artifact'.h.contract = c
  BY <1>2 DEF Seal, Header
<1>6. ArtifactInv'
  BY <1>2, <1>3, <1>4, <1>5 DEF LayoutInv, ArtifactInv, WrittenIsAccepted
<1>7. ViewInv' /\ SearchInv' /\ AnswerInv'
  BY <1>2, NothingToRead, StillNothing DEF LayoutInv, Unbegun
<1>8. MeasuredInv'
  BY <1>2 DEF LayoutInv, MeasuredInv, MeasureIsExact
<1> QED BY <1>6, <1>7, <1>8 DEF LayoutInv

LEMMA DamageIsArtifact ==
    ASSUME NEW a, IsArtifact(a), NEW f \in HeaderFields, NEW v, NEW r \in BOOLEAN,
           f \in Numbers => v \in Nat, f = "magic" => v \in BOOLEAN, f = "contract" => v \in Contracts
    PROVE  IsArtifact(Damage(a, f, v, r))
<1> DEFINE g == [a.h EXCEPT ![f] = v]
           b == Damage(a, f, v, r)
<1>1. IsHeader(a.h) /\ a.h = [x \in HeaderFields |-> a.h[x]]
  BY DEF IsArtifact, IsHeader
<1>2. "magic" \in HeaderFields /\ "contract" \in HeaderFields /\ Numbers \subseteq HeaderFields
      /\ "magic" \notin Numbers /\ "contract" \notin Numbers
  BY DEF HeaderFields, Numbers
<1>3. g = [x \in HeaderFields |-> IF x = f THEN v ELSE a.h[x]]
  BY <1>1
<1> HIDE DEF g
<1>4. g = [x \in HeaderFields |-> g[x]]
  BY <1>3
<1>5. ASSUME NEW x \in Numbers PROVE g[x] \in Nat
  BY <1>1, <1>2, <1>3 DEF IsHeader
<1>6. g.magic \in BOOLEAN
  <2>1. g["magic"] = IF f = "magic" THEN v ELSE a.h["magic"]
    BY <1>2, <1>3
  <2>2. a.h["magic"] \in BOOLEAN
    BY <1>1 DEF IsHeader
  <2> QED BY <2>1, <2>2
<1>7. g.contract \in Contracts
  <2>1. g["contract"] = IF f = "contract" THEN v ELSE a.h["contract"]
    BY <1>2, <1>3
  <2> QED BY <1>1, <2>1 DEF IsHeader
<1>8. IsHeader(g)
  BY <1>4, <1>5, <1>6, <1>7 DEF IsHeader
<1>9. /\ b = [h |-> b.h, body |-> b.body, digest |-> b.digest, bytes |-> b.bytes]
      /\ b.h = g /\ b.body = a.body /\ b.bytes = a.bytes
  <2> DEFINE hh == a.h
             bb == a.body
             dd == a.digest
             nn == a.bytes
             new == IF r THEN Content(g, bb) ELSE dd
  <2>1. a = [h |-> hh, body |-> bb, digest |-> dd, bytes |-> nn]
    BY DEF IsArtifact
  <2>2. b = [a EXCEPT !.h = g, !.digest = new]
    BY DEF Damage, g
  <2> HIDE DEF hh, bb, dd, nn, new, b
  <2>3. b = [h |-> g, body |-> bb, digest |-> new, bytes |-> nn]
    BY <2>1, <2>2
  <2> QED BY <2>3 DEF bb, nn
<1> HIDE DEF b
<1>10. IsArtifact(b)
  BY <1>8, <1>9 DEF IsArtifact
<1> QED BY <1>10 DEF b

LEMMA ResizeIsArtifact ==
    ASSUME NEW a, IsArtifact(a), NEW body \in Seq(Cell)
    PROVE  IsArtifact(Resize(a, body))
<1> DEFINE b == Resize(a, body)
<1>1. /\ b = [h |-> b.h, body |-> b.body, digest |-> b.digest, bytes |-> b.bytes]
      /\ b.h = a.h /\ b.body = body /\ b.bytes = HeaderBytes + Len(body) + DigestBytes
  <2> DEFINE hh == a.h
             bb == a.body
             dd == a.digest
             nn == a.bytes
             total == HeaderBytes + Len(body) + DigestBytes
             new == Content(hh, body)
  <2>1. a = [h |-> hh, body |-> bb, digest |-> dd, bytes |-> nn]
    BY DEF IsArtifact
  <2>2. b = [a EXCEPT !.body = body, !.bytes = total, !.digest = new]
    BY DEF Resize
  <2> HIDE DEF hh, bb, dd, nn, new, b, total
  <2>3. b = [h |-> hh, body |-> body, digest |-> new, bytes |-> total]
    BY <2>1, <2>2
  <2> QED BY <2>3 DEF hh, total
<1> HIDE DEF b
<1>2. IsArtifact(b)
  BY <1>1 DEF IsArtifact
<1> QED BY <1>2 DEF b

LEMMA TamperKeeps ==
    ASSUME LayoutAssumption, LayoutInv, Tamper
    PROVE  LayoutInv'
<1>1. /\ artifact # NoArtifact /\ view = NoView /\ changes' = changes + 1
      /\ UNCHANGED <<asked, view, search, answer>>
  BY DEF Tamper
<1>2. IsArtifact(artifact) /\ artifact.body \in Seq(Cell)
  BY <1>1 DEF LayoutInv, ArtifactInv, IsArtifact
<1> DEFINE body == artifact.body
<1>3. IsArtifact(artifact')
  <2>1. \/ \E f \in Numbers, n \in 0..MaxU, r \in BOOLEAN : artifact' = Damage(artifact, f, n, r)
        \/ \E r \in BOOLEAN : artifact' = Damage(artifact, "magic", FALSE, r)
        \/ \E c \in Contracts, r \in BOOLEAN : artifact' = Damage(artifact, "contract", c, r)
        \/ artifact' = Resize(artifact, Append(body, 0))
        \/ \E n \in 0..(Len(body) - 1) : artifact' = Resize(artifact, SubSeq(body, 1, n))
        \/ \E i \in DOMAIN body, n \in Cell : artifact' = Resize(artifact, [body EXCEPT ![i] = n])
    BY DEF Tamper
  <2>2. "magic" \notin Numbers /\ "contract" \notin Numbers /\ "magic" \in HeaderFields
        /\ "contract" \in HeaderFields /\ Numbers \subseteq HeaderFields /\ "magic" # "contract"
    BY DEF Numbers, HeaderFields
  <2>3. CASE \E f \in Numbers, n \in 0..MaxU, r \in BOOLEAN : artifact' = Damage(artifact, f, n, r)
    <3>1. PICK f \in Numbers, n \in 0..MaxU, r \in BOOLEAN : artifact' = Damage(artifact, f, n, r)
      BY <2>3
    <3>2. n \in Nat
      OBVIOUS
    <3>3. f \in HeaderFields /\ f # "magic" /\ f # "contract"
      BY <2>2
    <3> QED BY <1>2, <3>1, <3>2, <3>3, DamageIsArtifact
  <2>4. CASE \E r \in BOOLEAN : artifact' = Damage(artifact, "magic", FALSE, r)
    <3>1. PICK r \in BOOLEAN : artifact' = Damage(artifact, "magic", FALSE, r)
      BY <2>4
    <3> QED BY <1>2, <2>2, <3>1, DamageIsArtifact
  <2>5. CASE \E c \in Contracts, r \in BOOLEAN : artifact' = Damage(artifact, "contract", c, r)
    <3>1. PICK c \in Contracts, r \in BOOLEAN : artifact' = Damage(artifact, "contract", c, r)
      BY <2>5
    <3> QED BY <1>2, <2>2, <3>1, DamageIsArtifact
  <2>6. CASE artifact' = Resize(artifact, Append(body, 0))
    <3>1. Append(body, 0) \in Seq(Cell)
      BY <1>2 DEF LayoutAssumption
    <3> QED BY <1>2, <2>6, <3>1, ResizeIsArtifact
  <2>7. CASE \E n \in 0..(Len(body) - 1) : artifact' = Resize(artifact, SubSeq(body, 1, n))
    <3>1. PICK n \in 0..(Len(body) - 1) : artifact' = Resize(artifact, SubSeq(body, 1, n))
      BY <2>7
    <3>2. SubSeq(body, 1, n) \in Seq(Cell)
      BY <1>2, SubSeqProperties
    <3> QED BY <1>2, <3>1, <3>2, ResizeIsArtifact
  <2>8. CASE \E i \in DOMAIN body, n \in Cell : artifact' = Resize(artifact, [body EXCEPT ![i] = n])
    <3>1. PICK i \in DOMAIN body, n \in Cell : artifact' = Resize(artifact, [body EXCEPT ![i] = n])
      BY <2>8
    <3>2. [body EXCEPT ![i] = n] \in Seq(Cell)
      <4> HIDE DEF body
      <4>1. body \in Seq(Cell)
        BY <1>2 DEF body
      <4> QED BY <4>1
    <3> QED BY <1>2, <3>1, <3>2, ResizeIsArtifact
  <2> QED BY <2>1, <2>3, <2>4, <2>5, <2>6, <2>7, <2>8
<1>4. ArtifactInv'
  <2>1. changes' \in Nat /\ changes' # 0
    BY <1>1 DEF LayoutInv, ArtifactInv
  <2> QED BY <1>1, <1>3, <2>1 DEF ArtifactInv, WrittenIsAccepted
<1>5. ViewInv' /\ SearchInv' /\ AnswerInv'
  BY <1>1, NothingToRead, StillNothing DEF LayoutInv
<1>6. MeasuredInv'
  BY <1>1 DEF LayoutInv, MeasuredInv, MeasureIsExact
<1> QED BY <1>4, <1>5, <1>6 DEF LayoutInv

LEMMA LayoutValidateKeeps ==
    ASSUME LayoutAssumption, LayoutInv, NEW c \in Contracts, LayoutValidate(c)
    PROVE  LayoutInv'
<1>1. /\ artifact # NoArtifact /\ view = NoView /\ ValidateStatus(artifact, c) = "ok"
      /\ view' = [contract |-> artifact.h.contract, count |-> artifact.h.count,
                  metadata |-> artifact.h.metadataBytes, digest |-> artifact.digest]
      /\ UNCHANGED <<artifact, changes, asked, search, answer>>
  BY DEF LayoutValidate
<1>2. artifact.h.contract = c
  BY <1>1, OkMeans
<1>3. ViewInv'
  BY <1>1, <1>2 DEF ViewInv
<1>4. search' = NoSearch /\ answer' = NoAnswer
  BY <1>1, NothingToRead DEF LayoutInv
<1>5. SearchInv' /\ AnswerInv'
  BY <1>4 DEF SearchInv, AnswerInv
<1>6. ArtifactInv' /\ MeasuredInv'
  BY <1>1 DEF LayoutInv, ArtifactInv, WrittenIsAccepted, MeasuredInv, MeasureIsExact
<1> QED BY <1>3, <1>5, <1>6 DEF LayoutInv

\* What a lookup leaves alone.
LEMMA LookupReads ==
    ASSUME LayoutInv, UNCHANGED <<artifact, changes, asked, view>>
    PROVE  MeasuredInv' /\ ArtifactInv' /\ ViewInv'
BY SameArtifact DEF LayoutInv, MeasuredInv, MeasureIsExact

LEMMA LookupDenseKeeps ==
    ASSUME LayoutAssumption, LayoutInv, view # NoView, NEW key \in Keys(view.contract), LookupDense(key)
    PROVE  LayoutInv'
<1> DEFINE c == view.contract
           n == view.count
           body == artifact.body
           hits == {i \in 0 .. n - 1 : KeyOf(body, i, c) = key}
<1>1. /\ c.law = "dense" /\ search = NoSearch
      /\ answer' = [key |-> key, found |-> ReadWord(key) < n,
                    index |-> IF ReadWord(key) < n THEN ReadWord(key) ELSE MaxU]
      /\ UNCHANGED <<artifact, changes, asked, view, search>>
  BY DEF LookupDense, Answer
<1>2. /\ c \in Contracts /\ ContractValid(c) /\ n \in Nat /\ body \in Seq(Cell)
      /\ n * Stride(c) <= Len(body) /\ AccessLaw(body, n, c)
  BY ViewMeans
<1>3. IF ReadWord(key) < n THEN hits = {ReadWord(key)} ELSE hits = {}
  <2>1. CASE n = 0
    <3>1. ReadWord(key) \in Nat
      <4>1. c.key = WordBytes
        BY <1>1, <1>2 DEF ContractValid
      <4>2. key \in [1 .. WordBytes -> Cell]
        BY <4>1 DEF Keys
      <4> QED BY <4>2 DEF LayoutAssumption
    <3> QED BY <2>1, <3>1
  <2>2. CASE n # 0
    <3>1. DenseKeys(body, n, c)
      BY <1>1, <1>2, <2>2, AccessMeans
    <3> QED BY <1>1, <1>2, <3>1, DenseDecides
  <2> QED BY <2>1, <2>2
<1>4. IF answer'.found THEN hits = {answer'.index} ELSE hits = {}
  <2> HIDE DEF hits
  <2> QED BY <1>1, <1>3
<1>5. answer'.key = key
  BY <1>1
<1>6. AnswerInv'
  BY <1>1, <1>4, <1>5 DEF AnswerInv, LookupIsExact
<1>7. SearchInv'
  BY <1>1 DEF SearchInv
<1> QED BY <1>1, <1>6, <1>7, LookupReads DEF LayoutInv

LEMMA LookupBeginKeeps ==
    ASSUME LayoutAssumption, LayoutInv, view # NoView, NEW key \in Keys(view.contract), LookupBegin(key)
    PROVE  LayoutInv'
<1> DEFINE c == view.contract
           n == view.count
           body == artifact.body
<1>1. /\ c.law = "sorted" /\ search' = [key |-> key, low |-> 0, high |-> n] /\ answer' = NoAnswer
      /\ UNCHANGED <<artifact, changes, asked, view>>
  BY DEF LookupBegin
<1>2. n \in Nat
  BY ViewMeans
<1>3. Bracketed(body, n, c, key, 0, n)
  BY <1>2 DEF Bracketed
<1>4. SearchInv'
  BY <1>1, <1>3 DEF SearchInv
<1>5. AnswerInv'
  BY <1>1 DEF AnswerInv
<1> QED BY <1>1, <1>4, <1>5, LookupReads DEF LayoutInv

\* The search under way, in words of the lemmas.
LEMMA SearchMeans ==
    ASSUME LayoutAssumption, LayoutInv, search # NoSearch
    PROVE  /\ view # NoView /\ view.contract.law = "sorted"
           /\ search = [key |-> search.key, low |-> search.low, high |-> search.high]
           /\ search.key \in Keys(view.contract)
           /\ Bracketed(artifact.body, view.count, view.contract, search.key, search.low, search.high)
           /\ view.contract \in Contracts /\ ContractValid(view.contract)
           /\ artifact.body \in Seq(Cell) /\ view.count \in Nat
           /\ view.count * Stride(view.contract) <= Len(artifact.body)
           /\ SortedUnique(artifact.body, view.count, view.contract)
<1>1. /\ view # NoView /\ view.contract.law = "sorted"
      /\ search = [key |-> search.key, low |-> search.low, high |-> search.high]
      /\ search.key \in Keys(view.contract)
      /\ Bracketed(artifact.body, view.count, view.contract, search.key, search.low, search.high)
  BY DEF LayoutInv, SearchInv
<1>2. /\ view.contract \in Contracts /\ ContractValid(view.contract)
      /\ artifact.body \in Seq(Cell) /\ view.count \in Nat
      /\ view.count * Stride(view.contract) <= Len(artifact.body)
      /\ AccessLaw(artifact.body, view.count, view.contract)
  BY <1>1, ViewMeans
<1>3. SortedUnique(artifact.body, view.count, view.contract)
  BY <1>1, <1>2, AccessMeans
<1> QED BY <1>1, <1>2, <1>3

LEMMA LookupStepKeeps ==
    ASSUME LayoutAssumption, LayoutInv, LookupStep
    PROVE  LayoutInv'
<1> DEFINE c == view.contract
           n == view.count
           body == artifact.body
           key == search.key
           low == search.low
           high == search.high
           middle == low + (high - low) \div 2
           less == Less(KeyOf(body, middle, c), key)
<1>1. /\ search # NoSearch /\ low < high
      /\ search' = IF less THEN [search EXCEPT !.low = middle + 1] ELSE [search EXCEPT !.high = middle]
      /\ UNCHANGED <<artifact, changes, asked, view, answer>>
  BY DEF LookupStep
<1>2. /\ view # NoView /\ c.law = "sorted" /\ key \in Keys(c) /\ c \in Contracts /\ ContractValid(c)
      /\ search = [key |-> key, low |-> low, high |-> high]
      /\ body \in Seq(Cell) /\ n \in Nat /\ n * Stride(c) <= Len(body) /\ SortedUnique(body, n, c)
      /\ Bracketed(body, n, c, key, low, high)
  BY <1>1, SearchMeans
<1>3. IF less THEN Bracketed(body, n, c, key, middle + 1, high) ELSE Bracketed(body, n, c, key, low, middle)
  <2> HIDE DEF c, n, body, key, low, high
  <2> QED BY <1>1, <1>2, BracketNarrows
<1>4. /\ search' = [key |-> search'.key, low |-> search'.low, high |-> search'.high]
      /\ search'.key = key
      /\ IF less THEN search'.low = middle + 1 /\ search'.high = high
                 ELSE search'.low = low /\ search'.high = middle
  <2> HIDE DEF less, middle
  <2> QED BY <1>1, <1>2
<1>5. Bracketed(body, n, c, key, search'.low, search'.high)
  <2> HIDE DEF c, n, body, key, low, high, middle, less
  <2> QED BY <1>3, <1>4
<1>6. SearchInv'
  BY <1>1, <1>2, <1>4, <1>5 DEF SearchInv
<1>7. AnswerInv'
  BY <1>1 DEF LayoutInv, AnswerInv, LookupIsExact
<1> QED BY <1>1, <1>6, <1>7, LookupReads DEF LayoutInv

LEMMA LookupEndKeeps ==
    ASSUME LayoutAssumption, LayoutInv, LookupEnd
    PROVE  LayoutInv'
<1> DEFINE c == view.contract
           n == view.count
           body == artifact.body
           key == search.key
           low == search.low
           high == search.high
           hit == low < n /\ KeyOf(body, low, c) = key
           hits == {i \in 0 .. n - 1 : KeyOf(body, i, c) = key}
<1>1. /\ search # NoSearch /\ low >= high /\ search' = NoSearch
      /\ answer' = [key |-> key, found |-> hit, index |-> IF hit THEN low ELSE MaxU]
      /\ UNCHANGED <<artifact, changes, asked, view>>
  BY DEF LookupEnd, Answer
<1>2. /\ view # NoView /\ key \in Keys(c) /\ c \in Contracts /\ ContractValid(c)
      /\ body \in Seq(Cell) /\ n \in Nat /\ n * Stride(c) <= Len(body) /\ SortedUnique(body, n, c)
      /\ Bracketed(body, n, c, key, low, high)
  BY <1>1, SearchMeans
<1>3. IF hit THEN hits = {low} ELSE hits = {}
  <2> HIDE DEF c, n, body, key, low, high
  <2> QED BY <1>1, <1>2, BracketDecides
<1>4. IF answer'.found THEN hits = {answer'.index} ELSE hits = {}
  <2> HIDE DEF hits, hit
  <2> QED BY <1>1, <1>3
<1>5. answer'.key = key
  BY <1>1
<1>6. AnswerInv'
  BY <1>1, <1>2, <1>4, <1>5 DEF AnswerInv, LookupIsExact
<1>7. SearchInv'
  BY <1>1 DEF SearchInv
<1> QED BY <1>1, <1>6, <1>7, LookupReads DEF LayoutInv

LEMMA StepLayout == ASSUME LayoutAssumption, LayoutInv, [LayoutNext]_layoutVars PROVE LayoutInv'
<1>1. CASE Unbegun /\ \E c \in Contracts, count \in 0..MaxU, metadata \in 0..MaxU :
                        LayoutMeasure(c, count, metadata)
  <2>1. PICK c \in Contracts, count \in 0..MaxU, metadata \in 0..MaxU : LayoutMeasure(c, count, metadata)
    BY <1>1
  <2>2. count \in Nat /\ metadata \in Nat
    OBVIOUS
  <2> QED BY <2>1, <2>2, MeasureKeeps
<1>2. CASE Unbegun /\ \E c \in Contracts : ContractValid(c) /\
                        \E n \in 0..(MaxCells \div Stride(c)), metadata \in 0..MaxMetadata :
                          \E keys \in [1..n -> Keys(c)] : Write(c, keys, metadata)
  <2>1. Unbegun
    BY <1>2
  <2>2. PICK c \in Contracts : ContractValid(c) /\
               \E n \in 0..(MaxCells \div Stride(c)), metadata \in 0..MaxMetadata :
                 \E keys \in [1..n -> Keys(c)] : Write(c, keys, metadata)
    BY <1>2
  <2>3. PICK n \in 0..(MaxCells \div Stride(c)), metadata \in 0..MaxMetadata :
               \E keys \in [1..n -> Keys(c)] : Write(c, keys, metadata)
    BY <2>2
  <2>4. PICK keys \in [1..n -> Keys(c)] : Write(c, keys, metadata)
    BY <2>3
  <2>5. n \in Nat /\ metadata \in Nat
    OBVIOUS
  <2> QED BY <2>1, <2>2, <2>4, <2>5, WriteKeeps
<1>3. CASE Tamper
  BY <1>3, TamperKeeps
<1>4. CASE \E c \in Contracts : LayoutValidate(c)
  BY <1>4, LayoutValidateKeeps
<1>5. CASE view # NoView /\ \E key \in Keys(view.contract) : LookupDense(key)
  BY <1>5, LookupDenseKeeps
<1>6. CASE view # NoView /\ \E key \in Keys(view.contract) : LookupBegin(key)
  BY <1>6, LookupBeginKeeps
<1>7. CASE LookupStep
  BY <1>7, LookupStepKeeps
<1>8. CASE LookupEnd
  BY <1>8, LookupEndKeeps
<1>9. CASE UNCHANGED layoutVars
  <2>1. UNCHANGED <<artifact, changes, asked, view, search, answer>>
    BY <1>9 DEF layoutVars
  <2> QED BY <2>1, LookupReads, SameLookup DEF LayoutInv
<1> QED BY <1>1, <1>2, <1>3, <1>4, <1>5, <1>6, <1>7, <1>8, <1>9 DEF LayoutNext

\* The digest under another epoch is the one a write under that epoch would have.
LEMMA ReferenceRebuilt ==
    ASSUME LayoutAssumption, LayoutInv
    PROVE  ReferenceDigestIsRebuilt
<1> SUFFICES ASSUME view # NoView, NEW e
             PROVE  ReferenceDigest(e) =
                      Seal([view.contract EXCEPT !.epoch = e], view.count, view.metadata, artifact.body).digest
  BY DEF ReferenceDigestIsRebuilt
<1> DEFINE c == view.contract
           d == [c EXCEPT !.epoch = e]
           n == view.count
           metadata == view.metadata
           g == [artifact.h EXCEPT !.contract.epoch = e]
           h == Header(d, n, metadata)
<1>1. /\ c \in Contracts /\ artifact = Seal(c, n, metadata, artifact.body)
  BY ViewMeans
<1>2. artifact.h = Header(c, n, metadata)
  BY <1>1 DEF Seal
<1>3. d.key = c.key /\ d.value = c.value
  BY <1>1 DEF LayoutAssumption
<1>4. Stride(d) = Stride(c)
  BY <1>3 DEF Stride
<1>5. g = h
  <2> DEFINE p == Stride(c)
             records == n * p
  <2>1. Header(c, n, metadata) =
          [magic |-> TRUE, version |-> 1, header |-> HeaderBytes, reserved |-> 0, contract |-> c,
           count |-> n, stride |-> p, records |-> HeaderBytes,
           recordsBytes |-> records, metadata |-> HeaderBytes + records,
           metadataBytes |-> metadata, digest |-> HeaderBytes + records + metadata]
    BY DEF Header
  <2>2. Header(d, n, metadata) =
          [magic |-> TRUE, version |-> 1, header |-> HeaderBytes, reserved |-> 0, contract |-> d,
           count |-> n, stride |-> p, records |-> HeaderBytes,
           recordsBytes |-> records, metadata |-> HeaderBytes + records,
           metadataBytes |-> metadata, digest |-> HeaderBytes + records + metadata]
    BY <1>4 DEF Header
  <2> HIDE DEF p, records, d, n, metadata, c
  <2>3. g = [artifact.h EXCEPT !.contract = [artifact.h.contract EXCEPT !.epoch = e]]
    OBVIOUS
  <2>4. artifact.h.contract = c
    BY <1>2, <2>1
  <2>5. g = [artifact.h EXCEPT !.contract = d]
    BY <2>3, <2>4 DEF d
  <2> DEFINE H == Header(c, n, metadata)
  <2>6. H = [x \in HeaderFields |-> H[x]]
    BY <2>1 DEF HeaderFields, Numbers
  <2>7. h = [x \in HeaderFields |-> h[x]]
    BY <2>2 DEF HeaderFields, Numbers
  <2>8. h["contract"] = d /\ h["magic"] = H["magic"]
    BY <2>1, <2>2
  <2>9. \A x \in Numbers : h[x] = H[x] /\ x # "contract"
    BY <2>1, <2>2 DEF Numbers
  <2> HIDE DEF H, h, g
  <2>10. g = [x \in HeaderFields |-> IF x = "contract" THEN d ELSE H[x]]
    BY <1>2, <2>5, <2>6 DEF H
  <2>11. \A x \in HeaderFields : h[x] = g[x]
    BY <2>8, <2>9, <2>10 DEF HeaderFields
  <2> QED BY <2>7, <2>10, <2>11
<1>6. ReferenceDigest(e) = Content(g, artifact.body)
  BY DEF ReferenceDigest
<1>7. Seal(d, n, metadata, artifact.body).digest = Content(h, artifact.body)
  BY DEF Seal
<1> QED BY <1>5, <1>6, <1>7

\* The perfcache layout (perfcache.c), for any widths, header and digest sizes,
\* contracts, cells and artifacts, and whatever changes storage makes to one:
\* a size is measured exactly or refused, what was written is accepted, what is
\* accepted is bit for bit what writing its content makes, the binary search
\* and the dense lookup find a key exactly when one record has it, and the
\* digest under another epoch is the one a rebuild would have.
THEOREM LayoutCanonical == LayoutAssumption => (LayoutSpec => []LayoutIsCanonical)
<1> SUFFICES ASSUME LayoutAssumption PROVE LayoutSpec => []LayoutIsCanonical
  OBVIOUS
<1>1. LayoutInit => LayoutInv
  BY InitLayout
<1>2. LayoutInv /\ [LayoutNext]_layoutVars => LayoutInv'
  BY StepLayout
<1>3. LayoutInv => LayoutIsCanonical
  <2> SUFFICES ASSUME LayoutInv PROVE LayoutIsCanonical
    OBVIOUS
  <2>1. MeasureIsExact /\ WrittenIsAccepted
    BY DEF LayoutInv, MeasuredInv, ArtifactInv
  <2>2. AcceptedIsCanonical
    BY ViewMeans DEF AcceptedIsCanonical
  <2>3. LookupIsExact
    BY DEF LayoutInv, AnswerInv, LookupIsExact
  <2> QED BY <2>1, <2>2, <2>3, ReferenceRebuilt DEF LayoutIsCanonical
<1> QED BY <1>1, <1>2, <1>3, PTL DEF LayoutSpec

=============================================================================
