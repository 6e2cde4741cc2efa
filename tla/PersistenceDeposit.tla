-------------------------- MODULE PersistenceDeposit --------------------------
(***************************************************************************)
(* src/integrations/postgresql/extension/src/persistence_pg.c: the sink that*)
(* writes a canonical stream to the database.  Each backend stages batches  *)
(* in its temporary tables and at seal locks the write partitions of the    *)
(* staged identities in ascending order, checks references, and inserts and *)
(* verifies one family after another; everything becomes visible with the   *)
(* transaction that called it.                                              *)
(*                                                                          *)
(* A row is [family, id, fields, refs]: fields stands for every column but  *)
(* the key, refs for the <<family, id>> pairs the row names.                *)
(***************************************************************************)
EXTENDS Integers, Sequences, FiniteSets, SequencesExt

CONSTANTS
    Backends,
    Work,          \* backend -> sequence of deposits of one transaction
    Partition(_),  \* get_byte(id, 0) & 63
    BatchGrant,    \* memory_grant_bytes, in rows of a batch
    ReadCommitted, \* the backends at READ COMMITTED; the others keep a snapshot
    Unstorable     \* rows the table constraints refuse

\* The four families that have a table, in the order of the plan sequence.
Families == <<"entity", "physicality", "attestation", "consensus">>

\* The rows the callers deposit are of those families.
RowsOf(deposit) == UNION {ToSet(deposit[i]) : i \in DOMAIN deposit}
AllRows == UNION {UNION {RowsOf(Work[b][d]) : d \in DOMAIN Work[b]} : b \in Backends}
WorkAssumption ==
    /\ \A b \in Backends : Work[b] \in Seq(Seq(Seq(AllRows)))
    /\ \A r \in AllRows : r.family \in ToSet(Families)

VARIABLES
    table,      \* the committed rows
    receipts,   \* canonical_deposit_receipt: the committed deposits
    backend,    \* each backend's sink state and transaction
    held        \* partition -> the backend whose transaction locks it

depositVars == <<table, receipts, backend, held>>

\* persistence_sink_state, and the transaction around it.
NewSink ==
    [pc |-> "idle", deposit |-> 0, batch |-> 0, stage |-> <<>>, waiting |-> {},
     family |-> 1, inserted |-> [f \in ToSet(Families) |-> 0], rows |-> {}, receipts |-> {}, snapshot |-> {}]

DepositInit ==
    /\ table = {}
    /\ receipts = {}
    /\ backend = [b \in Backends |-> NewSink]
    /\ held = [p \in {} |-> ""]

At(b, pc) == backend[b].pc = pc
Deposit(b) == Work[b][backend[b].deposit]
\* The staged rows of a family, by their positions in the stage.
FamilyRows(b, f) == {i \in DOMAIN backend[b].stage : backend[b].stage[i].family = f}
RowsAt(b, positions) == {backend[b].stage[i] : i \in positions}

\* What a statement of the transaction sees.
Visible(b) == (IF b \in ReadCommitted THEN table ELSE backend[b].snapshot) \cup backend[b].rows

\* The transaction ends: its locks go.
Unlock(b) == held' = [p \in {q \in DOMAIN held : held[q] # b} |-> held[p]]

-----------------------------------------------------------------------------

\* sink_begin with initialize_staging_tables and prepare_staging_plans: the
\* temporary tables outlive transactions and are truncated here.
SinkBegin(b) ==
    /\ backend[b].pc \in {"idle", "deposited"} /\ backend[b].deposit < Len(Work[b])
    /\ backend' = [backend EXCEPT ![b].pc = "staging", ![b].deposit = @ + 1, ![b].batch = 0,
                     ![b].stage = <<>>, ![b].family = 1,
                     ![b].snapshot = IF At(b, "idle") THEN table ELSE @]
    /\ UNCHANGED <<table, receipts, held>>

\* sink_stage: the batch fits the grant and its rows go to the stage.
SinkStage(b) ==
    /\ At(b, "staging") /\ backend[b].batch < Len(Deposit(b))
    /\ LET batch == Deposit(b)[backend[b].batch + 1]
       IN /\ Len(batch) <= BatchGrant
          /\ backend' = [backend EXCEPT ![b].stage = @ \o batch, ![b].batch = @ + 1]
    /\ UNCHANGED <<table, receipts, held>>

\* write_partition_lock_sql: the partitions of every staged identity.
WritePartitions(stage) == {Partition(r.id) : r \in ToSet(stage)}

\* sink_seal up to the locks: the counts promised at begin were all staged.
SinkSeal(b) ==
    /\ At(b, "staging") /\ backend[b].batch = Len(Deposit(b))
    /\ backend' = [backend EXCEPT ![b].pc = "locking", ![b].waiting = WritePartitions(backend[b].stage)]
    /\ UNCHANGED <<table, receipts, held>>

\* The ORDER BY of the lock statement: the lowest partition still to be locked.
NextPartition(w) == {p \in w : \A q \in w : p <= q}

\* pg_advisory_xact_lock on one partition; it waits while another holds it.
LockPartition(b) ==
    /\ At(b, "locking") /\ backend[b].waiting # {}
    /\ \E p \in NextPartition(backend[b].waiting) :
          /\ p \in DOMAIN held => held[p] = b
          /\ held' = [q \in DOMAIN held \cup {p} |-> IF q = p THEN b ELSE held[q]]
          /\ backend' = [backend EXCEPT ![b].waiting = @ \ {p}]
    /\ UNCHANGED <<table, receipts>>

\* reference_sql and execute_reference_check: every entity and physicality the
\* stage names is staged or stored, trajectory constituents included.
ReferenceSql(b) ==
    LET staged == ToSet(backend[b].stage)
    IN \A r \in staged : \A ref \in r.refs :
          \E x \in Visible(b) \cup staged : <<x.family, x.id>> = ref

ReferenceCheck(b) ==
    /\ At(b, "locking") /\ backend[b].waiting = {}
    /\ ReferenceSql(b)
    /\ backend' = [backend EXCEPT ![b].pc = "writing"]
    /\ UNCHANGED <<table, receipts, held>>

-----------------------------------------------------------------------------

\* insert_sql: the staged rows whose identity is not stored.
InsertSql(b, f) ==
    {i \in FamilyRows(b, f) :
        \A x \in Visible(b) : x.family = f => x.id # backend[b].stage[i].id}

\* The primary keys, foreign keys and CHECKs of the tables accept the rows: a
\* key committed meanwhile, or twice in the stage, is a unique violation.
Accepted(b, new) ==
    /\ \A i, j \in new : i # j => backend[b].stage[i].id # backend[b].stage[j].id
    /\ \A r \in RowsAt(b, new) :
          /\ r \notin Unstorable
          /\ \A x \in table : x.family = r.family => x.id # r.id

VerifyNothing(b, f, new) == TRUE

\* verify_sql: unless every row was new, every staged row is stored with the
\* very same fields.
VerifySql(b, f, new) ==
    \/ Cardinality(new) = Cardinality(FamilyRows(b, f))
    \/ RowsAt(b, FamilyRows(b, f)) \subseteq Visible(b) \cup RowsAt(b, new)

\* SPI_processed of the insert, added to inserted[kind].
CountInserted(b, f, new) == Cardinality(new)

\* execute_record_family: insert, count, verify, next family.
RecordFamily(b) ==
    /\ At(b, "writing") /\ backend[b].family <= Len(Families)
    /\ LET f == Families[backend[b].family]
           new == InsertSql(b, f)
       IN /\ Accepted(b, new)
          /\ VerifySql(b, f, new)
          /\ backend' = [backend EXCEPT ![b].rows = @ \cup RowsAt(b, new), ![b].family = @ + 1,
                           ![b].inserted[f] = @ + CountInserted(b, f, new)]
    /\ UNCHANGED <<table, receipts, held>>

\* persist_deposit_receipt, and the SPI connection closed: another deposit of
\* the same transaction may follow.
DepositReceipt(b) ==
    /\ At(b, "writing") /\ backend[b].family > Len(Families)
    /\ backend' = [backend EXCEPT ![b].pc = "deposited",
                     ![b].receipts = @ \cup {<<b, backend[b].deposit>>}]
    /\ UNCHANGED <<table, receipts, held>>

\* The transaction commits after its last deposit.
Commit(b) ==
    /\ At(b, "deposited") /\ backend[b].deposit = Len(Work[b])
    /\ table' = table \cup backend[b].rows
    /\ receipts' = receipts \cup backend[b].receipts
    /\ backend' = [backend EXCEPT ![b].pc = "committed"]
    /\ Unlock(b)

\* Every ereport(ERROR), a refused batch, an interrupt: sink_abort and the
\* rollback of the transaction.  Only the temporary tables stay.
Rollback(b) ==
    /\ backend[b].pc \notin {"idle", "committed", "aborted"}
    /\ backend' = [backend EXCEPT ![b] = [NewSink EXCEPT !.pc = "aborted", !.stage = backend[b].stage]]
    /\ Unlock(b)
    /\ UNCHANGED <<table, receipts>>

\* The caller tries the transaction again.
Retry(b) ==
    /\ At(b, "aborted")
    /\ backend' = [backend EXCEPT ![b].pc = "idle"]
    /\ UNCHANGED <<table, receipts, held>>

\* One step of the deposit that the caller runs to its end.
DepositStep(b) ==
    \/ SinkBegin(b) \/ SinkStage(b) \/ SinkSeal(b) \/ LockPartition(b) \/ ReferenceCheck(b)
    \/ RecordFamily(b) \/ DepositReceipt(b) \/ Commit(b)

DepositNext == \E b \in Backends : DepositStep(b) \/ Rollback(b) \/ Retry(b)

DepositSpec == DepositInit /\ [][DepositNext]_depositVars

-----------------------------------------------------------------------------

\* No two transactions ever hold uncommitted rows of the same identity, so an
\* insert never waits for another transaction inside the unique index.
InsertsNeverMeet ==
    \A b, c \in Backends : b # c =>
        \A r \in backend[b].rows, x \in backend[c].rows :
            ~(/\ backend[b].pc \notin {"committed"} /\ backend[c].pc \notin {"committed"}
              /\ r.family = x.family /\ r.id = x.id)

\* Every row a committed row names is committed: trajectory constituents have
\* no foreign key, the reference check alone stands for it.
ReferencesResolve ==
    \A r \in table : \A ref \in r.refs : \E x \in table : <<x.family, x.id>> = ref

\* A committed receipt stands for rows that are stored with exactly the fields
\* deposited, and a stored identity has one row.
ReceiptedIsStored ==
    /\ \A k \in receipts : RowsOf(Work[k[1]][k[2]]) \subseteq table
    /\ \A r, x \in table : r.family = x.family /\ r.id = x.id => r = x

\* The counts of rows inserted that committed deposits report add up to the
\* table: each stored row was reported by one transaction, of its family.
InsertedIsExact ==
    LET Committed == {b \in Backends : At(b, "committed")}
    IN /\ table = UNION {backend[b].rows : b \in Committed}
       /\ \A b, c \in Committed : b # c => backend[b].rows \cap backend[c].rows = {}
       /\ \A b \in Committed, f \in ToSet(Families) :
             backend[b].inserted[f] = Cardinality({r \in backend[b].rows : r.family = f})

\* Transactions that deposit at once never hold the same row uncommitted,
\* committed rows refer to committed rows, and a receipt stands for rows stored
\* with its fields, each counted as inserted by one of them.
DepositsAreExact ==
    InsertsNeverMeet /\ ReferencesResolve /\ ReceiptedIsStored /\ InsertedIsExact

=============================================================================
