-------------------------- MODULE CompositionDeposit --------------------------
(***************************************************************************)
(* src/integrations/postgresql/extension/src/composition_pg.c, with the    *)
(* publication half of src/engine/src/composition.cpp: one call of         *)
(* composition_deposit_batch resolves which candidates are stored, deposits *)
(* what is not, and records the execution under a receipt that depends on  *)
(* the input and on what was found.  Backends run calls in transactions at *)
(* READ COMMITTED; a transaction may hold several calls.                   *)
(*                                                                         *)
(* A row is [id, fields].  How a deposit locks and writes its rows in      *)
(* detail is PersistenceDeposit; here it takes its locks in one step.      *)
(***************************************************************************)
EXTENDS Integers, FiniteSets

CONSTANTS
    Executors,        \* the backends
    Requests,         \* the inputs of calls: [input, candidates, occurrences]
    Plans,            \* the physical choices of a call: grant and batch size
    RowPartition(_),  \* the write partition of an identity
    MaxCalls          \* bound: calls of one backend

\* A request is named by the digest of its input; its candidates are entities
\* and physicalities, its occurrences attestations.
RequestsAssumption ==
    \A q \in Requests :
        /\ \A r \in Requests : (q.input = r.input => q = r) /\ q.candidates \cap r.occurrences = {}
        /\ IsFiniteSet(q.occurrences) /\ \A o \in q.occurrences : o.id \in Int

VARIABLES
    db,      \* the committed state
    txn,     \* each backend's transaction and the call it is in
    locks    \* partition -> the backend whose transaction locks it

compositionVars == <<db, txn, locks>>

NothingStored == [rows |-> {}, deposits |-> {}, receipts |-> {}, members |-> {}]
Merge(d, e) == [f \in DOMAIN d |-> d[f] \cup e[f]]

NoTransaction(calls) ==
    [pc |-> "idle", own |-> NothingStored, request |-> {}, plan |-> {}, novel |-> {}, seen |-> {}, calls |-> calls]

CompositionInit ==
    /\ db = NothingStored
    /\ txn = [b \in Executors |-> NoTransaction(0)]
    /\ locks = [p \in {} |-> ""]

\* What a statement that starts now sees: the committed state and its own.
VisibleState(b) == Merge(db, txn[b].own)

\* The transactions of the other backends that are still open.
Open(b) == {c \in Executors \ {b} : txn[c].pc # "idle"}

-----------------------------------------------------------------------------

\* entity_presence_sql and physicality_presence_sql: 0, 1 or 2.
Disposition(c, rows) ==
    CASE \A r \in rows : r.id # c.id -> "novel"
      [] c \in rows -> "present"
      [] OTHER -> "collision"

\* ApplyPresence with BuildStream: the candidates that are not stored, and
\* every occurrence whether stored or not.
BuildStream(request, novel) == novel \cup request.occurrences

Stream(b) == BuildStream(txn[b].request, txn[b].novel)

\* RefreshSemanticPublicationFingerprints: the working-set receipt covers the
\* input, the dispositions and what follows from them; the plan is left out.
WorkingSetReceipt(b) == [input |-> txn[b].request.input, novel |-> txn[b].novel]

\* The staged stream receipt covers the stream and, through the context
\* fingerprint and the batch count, the plan.
StagedStreamReceipt(b) == [stream |-> Stream(b), plan |-> txn[b].plan]

\* The row of composition_execution_receipt; deposit is NULL without effect.
ExecutionReceipt(b) ==
    [key |-> WorkingSetReceipt(b), deposit |-> IF Stream(b) = {} THEN {} ELSE {StagedStreamReceipt(b)}]

\* laplace_pg_composition_execute up to the presence receipt.  The presence
\* statements are read-only and share the snapshot of the calling statement;
\* a collision raises an error.
ResolvePresence(b) ==
    /\ txn[b].pc \in {"idle", "called"} /\ txn[b].calls < MaxCalls
    /\ \E request \in Requests, plan \in Plans :
          LET found == [c \in request.candidates |-> Disposition(c, VisibleState(b).rows)]
          IN txn' = [txn EXCEPT ![b].pc = IF \E c \in request.candidates : found[c] = "collision"
                                          THEN "collision" ELSE "resolved",
                        ![b].calls = @ + 1, ![b].request = request, ![b].plan = plan,
                        ![b].novel = {c \in request.candidates : found[c] = "novel"}]
    /\ UNCHANGED <<db, locks>>

\* Fault: the attestations of the stream are left out of the locks.
NovelPartitions(b) == {RowPartition(r.id) : r \in txn[b].novel}

\* write_partition_lock_sql over the staged stream.
StreamPartitions(b) == {RowPartition(r.id) : r \in Stream(b)}

\* The seal of the deposit takes its locks; they last to the transaction's end.
LockPartitions(b) ==
    /\ txn[b].pc = "resolved" /\ Stream(b) # {}
    /\ \A p \in StreamPartitions(b) : p \in DOMAIN locks => locks[p] = b
    /\ locks' = [p \in DOMAIN locks \cup StreamPartitions(b) |->
                  IF p \in StreamPartitions(b) THEN b ELSE locks[p]]
    /\ txn' = [txn EXCEPT ![b].pc = "locked"]
    /\ UNCHANGED db

\* LAPLACE_PG_PERSISTENCE_RUN_PRODUCER_SYMBOL: insert what is not stored, wait
\* for whoever is inserting the same identity, verify the rest, and store the
\* deposit receipt.
DepositStream(b) ==
    /\ txn[b].pc = "locked"
    /\ LET new == {r \in Stream(b) : \A x \in VisibleState(b).rows : x.id # r.id}
       IN /\ \A c \in Open(b) : \A r \in new, x \in txn[c].own.rows : r.id # x.id
          /\ IF Stream(b) \subseteq VisibleState(b).rows \cup new
             THEN txn' = [txn EXCEPT ![b].pc = "deposited", ![b].own.rows = @ \cup new,
                             ![b].own.deposits = @ \cup {StagedStreamReceipt(b)}]
             ELSE txn' = [txn EXCEPT ![b].pc = "collision"]
    /\ UNCHANGED <<db, locks>>

\* The statement receipt_sql starts and takes its snapshot; without effect
\* nothing was deposited before it.
ReceiptStatement(b) ==
    /\ txn[b].pc = "deposited" \/ (txn[b].pc = "resolved" /\ Stream(b) = {})
    /\ txn' = [txn EXCEPT ![b].pc = "receipt", ![b].seen = VisibleState(b).receipts]
    /\ UNCHANGED <<db, locks>>

\* Its INSERT ... ON CONFLICT DO NOTHING waits while another transaction has
\* inserted the key; the statement then looks for the row among those it wrote
\* and those its snapshot shows.
InsertReceipt(b) ==
    /\ txn[b].pc = "receipt"
    /\ \A c \in Open(b) : \A q \in txn[c].own.receipts : q.key # WorkingSetReceipt(b)
    /\ LET written == IF \E q \in VisibleState(b).receipts : q.key = WorkingSetReceipt(b)
                      THEN {} ELSE {ExecutionReceipt(b)}
       IN txn' = [txn EXCEPT ![b].own.receipts = @ \cup written,
                     ![b].pc = IF ExecutionReceipt(b) \in written \cup txn[b].seen THEN "members" ELSE "conflict"]
    /\ UNCHANGED <<db, locks>>

\* composition_occurrence_ids: the distinct occurrences, ordered by identity.
OccurrenceIds(b) ==
    LET ids == {o.id : o \in txn[b].request.occurrences}
    IN {[key |-> WorkingSetReceipt(b), occurrence |-> i,
         ordinal |-> Cardinality({j \in ids : j <= i})] : i \in ids}

\* The keys of composition_execution_occurrence_member.
SameMember(m, n) == m.key = n.key /\ (m.occurrence = n.occurrence \/ m.ordinal = n.ordinal)

\* members_sql: insert the members that are new; those there already are
\* exactly members of this execution.
InsertMembers(b) ==
    /\ txn[b].pc = "members"
    /\ LET input == OccurrenceIds(b)
           existing == {m \in VisibleState(b).members : m.key = WorkingSetReceipt(b)}
           written == {m \in input : \A n \in VisibleState(b).members : ~SameMember(m, n)}
       IN txn' = [txn EXCEPT ![b].own.members = @ \cup written,
                     ![b].pc = IF /\ Cardinality(written) + Cardinality(existing \cap input) = Cardinality(input)
                                  /\ existing \subseteq input
                               THEN "called" ELSE "conflict"]
    /\ UNCHANGED <<db, locks>>

ReleasePartitions(b) == locks' = [p \in {q \in DOMAIN locks : locks[q] # b} |-> locks[p]]

\* The transaction ends: what it wrote becomes visible at once, or never.
CommitExecution(b) ==
    /\ txn[b].pc = "called"
    /\ db' = VisibleState(b)
    /\ txn' = [txn EXCEPT ![b] = NoTransaction(@.calls)]
    /\ ReleasePartitions(b)

\* Every ereport(ERROR), an interrupt, a lost connection; LAPLACE_PG_
\* COMPOSITION_DESTROY_SYMBOL frees the working set.
RollbackExecution(b) ==
    /\ txn[b].pc # "idle"
    /\ txn' = [txn EXCEPT ![b] = NoTransaction(@.calls)]
    /\ ReleasePartitions(b)
    /\ UNCHANGED db

CompositionNext ==
    \E b \in Executors :
        \/ ResolvePresence(b) \/ LockPartitions(b) \/ DepositStream(b)
        \/ ReceiptStatement(b) \/ InsertReceipt(b) \/ InsertMembers(b)
        \/ CommitExecution(b) \/ RollbackExecution(b)

CompositionSpec == CompositionInit /\ [][CompositionNext]_compositionVars

-----------------------------------------------------------------------------

RequestOf(input) == CHOOSE q \in Requests : q.input = input

\* Every recorded execution describes the stored world: its candidates, found
\* or deposited, and its occurrences are stored with exactly its fields, though
\* presence was decided on a snapshot older than the deposit.
RecordedIsStored ==
    \A q \in db.receipts :
        LET request == RequestOf(q.key.input)
        IN request.candidates \cup request.occurrences \subseteq db.rows

\* Presence is grounded: what a recorded execution found already stored was
\* novel in another recorded execution.
PresentWasNovelOnce ==
    \A q \in db.receipts :
        \A c \in RequestOf(q.key.input).candidates \ q.key.novel :
            \E other \in db.receipts : other # q /\ c \in other.key.novel

\* The members of a recorded execution are its occurrences, numbered in order,
\* whichever of two racing or repeated executions recorded it.
MembersAreTheOccurrences ==
    \A q \in db.receipts :
        LET ids == {o.id : o \in RequestOf(q.key.input).occurrences}
            mine == {m \in db.members : m.key = q.key}
        IN /\ {m.occurrence : m \in mine} = ids
           /\ {m.ordinal : m \in mine} = 1 .. Cardinality(ids)
           /\ Cardinality(mine) = Cardinality(ids)

\* A call that stages anything is never refused because an equal execution ran
\* beside it: the write partitions keep the other's receipt out until this
\* call's statement can see it.
StagedReplayIsRecognised ==
    \A b \in Executors :
        txn[b].pc = "conflict" /\ Stream(b) # {} => ExecutionReceipt(b) \notin db.receipts

\* composition_pg.c: a committed execution is stored with its rows and members,
\* is grounded in other executions, and is recognised when it is replayed.
ExecutionsAreGrounded ==
    RecordedIsStored /\ PresentWasNovelOnce /\ MembersAreTheOccurrences /\ StagedReplayIsRecognised

\* "Laplace composition execution receipt conflicts with durable state": the
\* call is refused only when the durable receipt differs from its own.
ConflictMeansDifference ==
    \A b \in Executors : txn[b].pc = "conflict" => ExecutionReceipt(b) \notin db.receipts

\* "legal changes in workers, scheduling, presence/deposit batch sizes ... may
\* change execution receipts": a call that differs from a recorded one in its
\* plan only is not refused.
PlanChangeIsAccepted ==
    \A b \in Executors :
        txn[b].pc = "conflict" => \A q \in db.receipts : q.key # WorkingSetReceipt(b) \/ q = ExecutionReceipt(b)

=============================================================================
