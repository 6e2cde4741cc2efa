---------------------------- MODULE DatabaseProofs ---------------------------
(***************************************************************************)
(* Components that write to PostgreSQL, proved for every value of their    *)
(* constants: the deposits of persistence_pg.c (any transactions,          *)
(* partitions and isolation levels), the activation of the reference       *)
(* highway registry (any sessions, builds of the library and contexts),    *)
(* world admission (any sessions, batches, lineages and compositions), the *)
(* deposit of Unicode roots (any roots, tables, requests and calls),       *)
(* standing histories (any participants, requests and sessions) and        *)
(* composition executions (any requests, plans, partitions and backends).  *)
(***************************************************************************)
EXTENDS PersistenceDeposit, HighwayRegistry, WorldAdmission, UnicodeRootDeposit, CompositionDeposit,
        StandingPeriods, FiniteSetTheorems, WellFoundedInduction, TLAPS

(***************************************************************************)
(* Deposits.                                                               *)
(***************************************************************************)

\* b holds the lock of partition p.
Holds(h, p, b) == p \in DOMAIN h /\ h[p] = b

\* The types of a sink.
SinkTypes(s) ==
    /\ DOMAIN s = DOMAIN NewSink
    /\ s.pc \in {"idle", "staging", "locking", "writing", "deposited", "committed", "aborted"}
    /\ s.deposit \in Nat /\ s.batch \in Nat
    /\ s.stage \in Seq(AllRows)
    /\ s.family \in 1 .. 5
    /\ s.rows \in SUBSET AllRows /\ IsFiniteSet(s.rows)
    /\ s.inserted \in [ToSet(Families) -> Nat]

\* The rows staged while references to them count.
StagedNow(s) == IF s.pc = "writing" THEN ToSet(s.stage) ELSE {}

\* A transaction that has not committed holds the partitions of what it wrote.
Locked(s, b, h) ==
    /\ s.pc # "committed" => \A r \in s.rows : Holds(h, Partition(r.id), b)
    /\ s.pc = "locking" => \A r \in ToSet(s.stage) : Partition(r.id) \in s.waiting \/ Holds(h, Partition(r.id), b)
    /\ s.pc = "writing" => \A r \in ToSet(s.stage) : Holds(h, Partition(r.id), b)

\* What it wrote nobody has committed, and it wrote no identity twice.
Fresh(s, t) ==
    s.pc # "committed" => \A r \in s.rows, x \in t : r.family = x.family => r.id # x.id
OwnKeys(s) == \A r, x \in s.rows : r.family = x.family /\ r.id = x.id => r = x

\* The stage holds the batches of the deposit so far.
StageIsDeposit(s, b) ==
    s.pc \in {"staging", "locking", "writing"} =>
        /\ s.deposit \in DOMAIN Work[b]
        /\ \A i \in 1 .. s.batch : i \in DOMAIN Work[b][s.deposit] => ToSet(Work[b][s.deposit][i]) \subseteq ToSet(s.stage)
        /\ s.pc # "staging" => s.batch = Len(Work[b][s.deposit])
        /\ s.pc # "writing" => s.family = 1

\* The families before the present one are stored or written.
FamiliesWritten(s, t) ==
    s.pc = "writing" =>
        \A r \in ToSet(s.stage) : \A k \in 1 .. s.family - 1 : r.family = Families[k] => r \in t \cup s.rows

\* Every reference is to a stored, written or staged row.
Resolved(s, t) ==
    s.pc # "committed" =>
        \A r \in s.rows \cup StagedNow(s) : \A ref \in r.refs :
            \E x \in t \cup s.rows \cup StagedNow(s) : <<x.family, x.id>> = ref

\* A receipt of the transaction stands for rows that are stored or written.
Receipted(s, t) ==
    s.pc # "committed" => \A k \in s.receipts : RowsOf(Work[k[1]][k[2]]) \subseteq t \cup s.rows

\* It counted what it wrote.
Counted(s) ==
    \A f \in ToSet(Families) : s.inserted[f] = Cardinality({r \in s.rows : r.family = f})

\* The invariant of one sink s of backend b, over the table t and the locks h.
SinkInv(s, b, t, h) ==
    /\ SinkTypes(s)
    /\ Locked(s, b, h)
    /\ Fresh(s, t) /\ OwnKeys(s)
    /\ s.snapshot \subseteq t
    /\ StageIsDeposit(s, b)
    /\ FamiliesWritten(s, t)
    /\ Resolved(s, t)
    /\ Receipted(s, t)
    /\ Counted(s)
    /\ s.pc = "committed" => s.rows \subseteq t

SinksInv ==
    /\ DOMAIN backend = Backends
    /\ \A b \in Backends : SinkInv(backend[b], b, table, held)

\* The committed rows are those of the committed transactions, each of one.
DepositInv ==
    /\ SinksInv
    /\ ReferencesResolve
    /\ ReceiptedIsStored
    /\ table = UNION {backend[b].rows : b \in {c \in Backends : At(c, "committed")}}
    /\ \A b, c \in Backends : b # c /\ At(b, "committed") /\ At(c, "committed")
          => backend[b].rows \cap backend[c].rows = {}

-----------------------------------------------------------------------------

\* What others may do to the table and the locks does not disturb a sink.
LEMMA SinkKeeps ==
  ASSUME NEW s, NEW b, NEW t, NEW h, NEW u, NEW g,
         SinkInv(s, b, t, h), t \subseteq u, Fresh(s, u),
         \A p : Holds(h, p, b) => Holds(g, p, b)
  PROVE  SinkInv(s, b, u, g)
<1>1. Locked(s, b, g)
  BY DEF SinkInv, Locked
<1>2. s.snapshot \subseteq u /\ FamiliesWritten(s, u) /\ Receipted(s, u)
  BY DEF SinkInv, FamiliesWritten, Receipted
<1>3. Resolved(s, u)
  BY DEF SinkInv, Resolved
<1> QED BY <1>1, <1>2, <1>3 DEF SinkInv

\* Two transactions that have not committed wrote different identities: each
\* holds the partition of what it wrote.
LEMMA RowsApart ==
  ASSUME SinksInv, NEW b \in Backends, NEW c \in Backends, b # c,
         ~At(b, "committed"), ~At(c, "committed"),
         NEW r \in backend[b].rows, NEW x \in backend[c].rows
  PROVE  r.id # x.id
BY DEF SinksInv, SinkInv, Locked, Holds, At

\* A step of one backend that leaves the table and the others' locks alone.
LEMMA OneSinkMoves ==
  ASSUME DepositInv, NEW b \in Backends, UNCHANGED <<table, receipts>>,
         \A c \in Backends : \A p : c # b /\ Holds(held, p, c) => Holds(held', p, c),
         DOMAIN backend' = Backends, \A c \in Backends : c # b => backend'[c] = backend[c],
         ~At(b, "committed"), backend'[b].pc # "committed",
         SinkInv(backend'[b], b, table, held')
  PROVE  DepositInv'
<1>1. SinksInv'
  <2>1. ASSUME NEW c \in Backends PROVE SinkInv(backend'[c], c, table', held')
    <3>1. CASE c = b
      BY <3>1
    <3>2. CASE c # b
      <4>1. SinkInv(backend[c], c, table, held) /\ Fresh(backend[c], table)
        BY DEF DepositInv, SinksInv, SinkInv
      <4>2. \A p : Holds(held, p, c) => Holds(held', p, c)
        BY <3>2
      <4>3. SinkInv(backend[c], c, table, held')
        BY <4>1, <4>2, SinkKeeps
      <4> QED BY <4>3, <3>2
    <3> QED BY <3>1, <3>2
  <2> QED BY <2>1 DEF SinksInv, SinkInv, SinkTypes, Locked, Fresh, OwnKeys, StageIsDeposit, FamiliesWritten,
        Resolved, Receipted, Counted, StagedNow, Holds
<1>2. ReferencesResolve' /\ ReceiptedIsStored'
  BY DEF DepositInv, ReferencesResolve, ReceiptedIsStored
<1>3. \A c \in Backends : At(c, "committed")' <=> At(c, "committed")
  BY DEF At
<1>4. \A c \in Backends : At(c, "committed") => backend'[c].rows = backend[c].rows
  OBVIOUS
<1>5. UNION {backend'[c].rows : c \in {d \in Backends : At(d, "committed")'}}
        = UNION {backend[c].rows : c \in {d \in Backends : At(d, "committed")}}
  BY <1>3, <1>4
<1>6. \A c, d \in Backends : c # d /\ At(c, "committed")' /\ At(d, "committed")'
          => backend'[c].rows \cap backend'[d].rows = {}
  BY <1>3, <1>4 DEF DepositInv
<1> QED BY <1>1, <1>2, <1>5, <1>6 DEF DepositInv

LEMMA SinkBeginKeeps ==
  ASSUME WorkAssumption, DepositInv, NEW b \in Backends, SinkBegin(b)
  PROVE  DepositInv'
<1> DEFINE s == backend[b]
           t == backend'[b]
<1>1. SinkInv(s, b, table, held) /\ DOMAIN backend = Backends /\ DOMAIN s = DOMAIN NewSink
  BY DEF DepositInv, SinksInv, SinkInv, SinkTypes
<1>2. /\ s.pc \in {"idle", "deposited"} /\ s.deposit < Len(Work[b])
      /\ UNCHANGED <<table, receipts, held>>
  BY DEF SinkBegin
<1>3. /\ DOMAIN backend' = Backends /\ \A c \in Backends : c # b => backend'[c] = backend[c]
      /\ DOMAIN t = DOMAIN NewSink /\ t.pc = "staging" /\ t.deposit = s.deposit + 1 /\ t.batch = 0
      /\ t.stage = <<>> /\ t.family = 1 /\ t.snapshot \in {table, s.snapshot}
      /\ t.rows = s.rows /\ t.receipts = s.receipts /\ t.inserted = s.inserted
  BY <1>1 DEF SinkBegin, NewSink
<1> HIDE DEF s, t
<1>4. s.deposit \in Nat /\ Work[b] \in Seq(Seq(Seq(AllRows)))
  BY <1>1 DEF SinkInv, SinkTypes, WorkAssumption
<1>5. t.deposit \in DOMAIN Work[b] /\ t.deposit \in Nat
  BY <1>2, <1>3, <1>4
<1>6. SinkTypes(t)
  BY <1>1, <1>3, <1>5 DEF SinkInv, SinkTypes
<1>7. Locked(t, b, held) /\ Fresh(t, table) /\ OwnKeys(t) /\ t.snapshot \subseteq table /\ Counted(t)
  BY <1>1, <1>2, <1>3 DEF SinkInv, Locked, Fresh, OwnKeys, Counted
<1>8. StageIsDeposit(t, b) /\ FamiliesWritten(t, table) /\ Receipted(t, table)
  BY <1>1, <1>2, <1>3, <1>5 DEF SinkInv, StageIsDeposit, FamiliesWritten, Receipted
<1>9. Resolved(t, table)
  BY <1>1, <1>2, <1>3 DEF SinkInv, Resolved, StagedNow
<1>10. SinkInv(t, b, table, held)
  BY <1>3, <1>6, <1>7, <1>8, <1>9 DEF SinkInv
<1>11. ~At(b, "committed") /\ t.pc # "committed"
  BY <1>2, <1>3 DEF At, s
<1> QED BY <1>2, <1>3, <1>10, <1>11, OneSinkMoves DEF t

\* Staging adds the rows of the batch to those of the stage.
LEMMA StageGrows ==
  ASSUME NEW S, NEW u \in Seq(S), NEW v \in Seq(S)
  PROVE  u \o v \in Seq(S) /\ ToSet(u \o v) = ToSet(u) \cup ToSet(v)
<1>1. u \o v \in Seq(S) /\ DOMAIN (u \o v) = 1 .. Len(u) + Len(v) /\ Len(u) \in Nat /\ Len(v) \in Nat
  OBVIOUS
<1>2. \A i \in 1 .. Len(u) : (u \o v)[i] = u[i]
  OBVIOUS
<1>3. \A i \in 1 .. Len(v) : (u \o v)[Len(u) + i] = v[i] /\ Len(u) + i \in 1 .. Len(u) + Len(v)
  OBVIOUS
<1>4. ToSet(u) \cup ToSet(v) \subseteq ToSet(u \o v)
  <2>1. ASSUME NEW i \in 1 .. Len(u) PROVE u[i] \in ToSet(u \o v)
    <3>1. i \in DOMAIN (u \o v)
      BY <1>1
    <3> QED BY <3>1, <1>2 DEF ToSet
  <2>2. ASSUME NEW i \in 1 .. Len(v) PROVE v[i] \in ToSet(u \o v)
    <3>1. Len(u) + i \in DOMAIN (u \o v)
      BY <1>1, <1>3
    <3> QED BY <3>1, <1>3 DEF ToSet
  <2>3. ToSet(u) = {u[i] : i \in 1 .. Len(u)} /\ ToSet(v) = {v[i] : i \in 1 .. Len(v)}
    BY DEF ToSet
  <2> QED BY <2>1, <2>2, <2>3
<1>5. ASSUME NEW i \in 1 .. Len(u) + Len(v) PROVE (u \o v)[i] \in ToSet(u) \cup ToSet(v)
  <2>1. CASE i <= Len(u)
    BY <2>1, <1>1, <1>2 DEF ToSet
  <2>2. CASE i > Len(u)
    <3>1. i - Len(u) \in 1 .. Len(v) /\ Len(u) + (i - Len(u)) = i
      BY <2>2, <1>1
    <3>2. (u \o v)[i] = v[i - Len(u)]
      BY <3>1, <1>3
    <3> QED BY <3>1, <3>2 DEF ToSet
  <2> QED BY <2>1, <2>2, <1>1
<1> QED BY <1>1, <1>4, <1>5 DEF ToSet

LEMMA SinkStageKeeps ==
  ASSUME WorkAssumption, DepositInv, NEW b \in Backends, SinkStage(b)
  PROVE  DepositInv'
<1> DEFINE s == backend[b]
           t == backend'[b]
           batch == Work[b][s.deposit][s.batch + 1]
<1>1. SinkInv(s, b, table, held) /\ DOMAIN backend = Backends /\ DOMAIN s = DOMAIN NewSink
  BY DEF DepositInv, SinksInv, SinkInv, SinkTypes
<1>2. /\ s.pc = "staging" /\ s.batch < Len(Work[b][s.deposit])
      /\ UNCHANGED <<table, receipts, held>>
  BY DEF SinkStage, At, Deposit
<1>3. /\ DOMAIN backend' = Backends /\ \A c \in Backends : c # b => backend'[c] = backend[c]
      /\ DOMAIN t = DOMAIN NewSink /\ t.pc = s.pc /\ t.deposit = s.deposit /\ t.batch = s.batch + 1
      /\ t.stage = s.stage \o batch /\ t.family = s.family /\ t.snapshot = s.snapshot
      /\ t.rows = s.rows /\ t.receipts = s.receipts /\ t.inserted = s.inserted
  BY <1>1 DEF SinkStage, NewSink, Deposit
<1>4. s.batch \in Nat /\ Work[b] \in Seq(Seq(Seq(AllRows))) /\ s.deposit \in DOMAIN Work[b] /\ s.family = 1
  BY <1>1, <1>2 DEF SinkInv, SinkTypes, WorkAssumption, StageIsDeposit
<1>5. Work[b][s.deposit] \in Seq(Seq(AllRows)) /\ batch \in Seq(AllRows) /\ s.stage \in Seq(AllRows)
  <2>1. Work[b][s.deposit] \in Seq(Seq(AllRows))
    BY <1>4
  <2>2. s.batch + 1 \in 1 .. Len(Work[b][s.deposit])
    <3>1. Len(Work[b][s.deposit]) \in Nat /\ s.batch \in Nat /\ s.batch < Len(Work[b][s.deposit])
      BY <1>2, <1>4, <2>1
    <3> HIDE DEF s
    <3> QED BY <3>1
  <2>3. s.stage \in Seq(AllRows)
    BY <1>1 DEF SinkInv, SinkTypes
  <2> QED BY <2>1, <2>2, <2>3
<1> HIDE DEF batch, s, t
<1>6. t.stage \in Seq(AllRows) /\ ToSet(t.stage) = ToSet(s.stage) \cup ToSet(batch)
  BY <1>3, <1>5, StageGrows
<1>7. SinkTypes(t)
  <2>1. SinkTypes(s) /\ t.batch \in Nat
    BY <1>1, <1>3, <1>4 DEF SinkInv
  <2> QED BY <1>3, <1>6, <2>1 DEF SinkTypes
<1>8. Locked(t, b, held) /\ Fresh(t, table) /\ OwnKeys(t) /\ t.snapshot \subseteq table /\ Counted(t)
  BY <1>1, <1>2, <1>3 DEF SinkInv, Locked, Fresh, OwnKeys, Counted
<1>9. StageIsDeposit(t, b)
  <2>1. ASSUME NEW i \in 1 .. t.batch, i \in DOMAIN Work[b][t.deposit]
        PROVE  ToSet(Work[b][t.deposit][i]) \subseteq ToSet(t.stage)
    <3>1. CASE i = s.batch + 1
      BY <3>1, <1>3, <1>6 DEF batch
    <3>2. CASE i # s.batch + 1
      <4>1. i \in 1 .. s.batch
        BY <3>2, <1>3, <1>4
      <4> QED BY <2>1, <4>1, <1>1, <1>2, <1>3, <1>6 DEF SinkInv, StageIsDeposit
    <3> QED BY <3>1, <3>2
  <2> QED BY <2>1, <1>2, <1>3, <1>4 DEF StageIsDeposit
<1>10. FamiliesWritten(t, table) /\ Receipted(t, table) /\ Resolved(t, table)
  BY <1>1, <1>2, <1>3 DEF SinkInv, FamiliesWritten, Receipted, Resolved, StagedNow
<1>11. SinkInv(t, b, table, held)
  BY <1>2, <1>3, <1>7, <1>8, <1>9, <1>10 DEF SinkInv
<1>12. ~At(b, "committed") /\ t.pc # "committed"
  BY <1>2, <1>3 DEF At, s
<1> QED BY <1>2, <1>3, <1>11, <1>12, OneSinkMoves DEF t

LEMMA SinkSealKeeps ==
  ASSUME WorkAssumption, DepositInv, NEW b \in Backends, SinkSeal(b)
  PROVE  DepositInv'
<1> DEFINE s == backend[b]
           t == backend'[b]
<1>1. SinkInv(s, b, table, held) /\ DOMAIN backend = Backends /\ DOMAIN s = DOMAIN NewSink
  BY DEF DepositInv, SinksInv, SinkInv, SinkTypes
<1>2. /\ s.pc = "staging" /\ s.batch = Len(Work[b][s.deposit])
      /\ UNCHANGED <<table, receipts, held>>
  BY DEF SinkSeal, At, Deposit
<1>3. /\ DOMAIN backend' = Backends /\ \A c \in Backends : c # b => backend'[c] = backend[c]
      /\ DOMAIN t = DOMAIN NewSink /\ t.pc = "locking" /\ t.deposit = s.deposit /\ t.batch = s.batch
      /\ t.stage = s.stage /\ t.family = s.family /\ t.snapshot = s.snapshot
      /\ t.rows = s.rows /\ t.receipts = s.receipts /\ t.inserted = s.inserted
      /\ t.waiting = WritePartitions(s.stage)
  BY <1>1 DEF SinkSeal, NewSink
<1> HIDE DEF s, t
<1>4. SinkTypes(t) /\ Fresh(t, table) /\ OwnKeys(t) /\ t.snapshot \subseteq table /\ Counted(t)
  BY <1>1, <1>2, <1>3 DEF SinkInv, SinkTypes, Fresh, OwnKeys, Counted
<1>5. Locked(t, b, held)
  BY <1>1, <1>2, <1>3 DEF SinkInv, Locked, WritePartitions
<1>6. StageIsDeposit(t, b) /\ FamiliesWritten(t, table) /\ Receipted(t, table) /\ Resolved(t, table)
  BY <1>1, <1>2, <1>3 DEF SinkInv, StageIsDeposit, FamiliesWritten, Receipted, Resolved, StagedNow
<1>7. SinkInv(t, b, table, held)
  BY <1>3, <1>4, <1>5, <1>6 DEF SinkInv
<1>8. ~At(b, "committed") /\ t.pc # "committed"
  BY <1>2, <1>3 DEF At, s
<1> QED BY <1>2, <1>3, <1>7, <1>8, OneSinkMoves DEF t

LEMMA LockPartitionKeeps ==
  ASSUME WorkAssumption, DepositInv, NEW b \in Backends, LockPartition(b)
  PROVE  DepositInv'
<1> DEFINE s == backend[b]
           t == backend'[b]
<1>1. SinkInv(s, b, table, held) /\ DOMAIN backend = Backends /\ DOMAIN s = DOMAIN NewSink
  BY DEF DepositInv, SinksInv, SinkInv, SinkTypes
<1>2. PICK p \in NextPartition(s.waiting) :
          /\ p \in DOMAIN held => held[p] = b
          /\ held' = [q \in DOMAIN held \cup {p} |-> IF q = p THEN b ELSE held[q]]
          /\ backend' = [backend EXCEPT ![b].waiting = @ \ {p}]
  BY DEF LockPartition
<1>3. s.pc = "locking" /\ UNCHANGED <<table, receipts>>
  BY DEF LockPartition, At
<1>4. /\ DOMAIN backend' = Backends /\ \A c \in Backends : c # b => backend'[c] = backend[c]
      /\ DOMAIN t = DOMAIN NewSink /\ t.pc = s.pc /\ t.deposit = s.deposit /\ t.batch = s.batch
      /\ t.stage = s.stage /\ t.family = s.family /\ t.snapshot = s.snapshot
      /\ t.rows = s.rows /\ t.receipts = s.receipts /\ t.inserted = s.inserted
      /\ t.waiting = s.waiting \ {p}
  BY <1>1, <1>2 DEF NewSink
<1> HIDE DEF s, t
<1>5. Holds(held', p, b) /\ \A c \in Backends : \A q : Holds(held, q, c) => Holds(held', q, c)
  BY <1>2 DEF Holds
<1>6. SinkTypes(t) /\ Fresh(t, table) /\ OwnKeys(t) /\ t.snapshot \subseteq table /\ Counted(t)
  BY <1>1, <1>3, <1>4 DEF SinkInv, SinkTypes, Fresh, OwnKeys, Counted
<1>7. Locked(t, b, held')
  BY <1>1, <1>3, <1>4, <1>5 DEF SinkInv, Locked
<1>8. StageIsDeposit(t, b) /\ FamiliesWritten(t, table) /\ Receipted(t, table) /\ Resolved(t, table)
  BY <1>1, <1>3, <1>4 DEF SinkInv, StageIsDeposit, FamiliesWritten, Receipted, Resolved, StagedNow
<1>9. SinkInv(t, b, table, held')
  BY <1>3, <1>4, <1>6, <1>7, <1>8 DEF SinkInv
<1>10. ~At(b, "committed") /\ t.pc # "committed"
  BY <1>3, <1>4 DEF At, s
<1> QED BY <1>3, <1>4, <1>5, <1>9, <1>10, OneSinkMoves DEF t

\* After the check every reference of the stage is stored, written or staged.
LEMMA ReferenceCheckKeeps ==
  ASSUME WorkAssumption, DepositInv, NEW b \in Backends, ReferenceCheck(b)
  PROVE  DepositInv'
<1> DEFINE s == backend[b]
           t == backend'[b]
<1>1. SinkInv(s, b, table, held) /\ DOMAIN backend = Backends /\ DOMAIN s = DOMAIN NewSink
  BY DEF DepositInv, SinksInv, SinkInv, SinkTypes
<1>2. s.pc = "locking" /\ s.waiting = {} /\ UNCHANGED <<table, receipts, held>>
  BY DEF ReferenceCheck, At
<1>3. /\ DOMAIN backend' = Backends /\ \A c \in Backends : c # b => backend'[c] = backend[c]
      /\ DOMAIN t = DOMAIN NewSink /\ t.pc = "writing" /\ t.deposit = s.deposit /\ t.batch = s.batch
      /\ t.stage = s.stage /\ t.family = s.family /\ t.snapshot = s.snapshot
      /\ t.rows = s.rows /\ t.receipts = s.receipts /\ t.inserted = s.inserted
  BY <1>1 DEF ReferenceCheck, NewSink
<1>4. \A r \in ToSet(s.stage) : \A ref \in r.refs :
          \E x \in table \cup s.rows \cup ToSet(s.stage) : <<x.family, x.id>> = ref
  <2>1. Visible(b) \subseteq table \cup s.rows
    BY <1>1 DEF Visible, SinkInv
  <2> QED BY <2>1 DEF ReferenceCheck, ReferenceSql
<1> HIDE DEF s, t
<1>5. SinkTypes(t) /\ Fresh(t, table) /\ OwnKeys(t) /\ t.snapshot \subseteq table /\ Counted(t)
  BY <1>1, <1>2, <1>3 DEF SinkInv, SinkTypes, Fresh, OwnKeys, Counted
<1>6. Locked(t, b, held)
  BY <1>1, <1>2, <1>3 DEF SinkInv, Locked
<1>7. s.family = 1 /\ StageIsDeposit(t, b) /\ Receipted(t, table)
  BY <1>1, <1>2, <1>3 DEF SinkInv, StageIsDeposit, Receipted
<1>8. FamiliesWritten(t, table)
  BY <1>3, <1>7 DEF FamiliesWritten
<1>9. Resolved(t, table)
  <2>1. StagedNow(t) = ToSet(s.stage) /\ StagedNow(s) = {}
    BY <1>2, <1>3 DEF StagedNow
  <2>2. \A r \in s.rows : \A ref \in r.refs : \E x \in table \cup s.rows : <<x.family, x.id>> = ref
    BY <1>1, <1>2, <2>1 DEF SinkInv, Resolved
  <2> QED BY <1>3, <1>4, <2>1, <2>2 DEF Resolved
<1>10. SinkInv(t, b, table, held)
  BY <1>3, <1>5, <1>6, <1>7, <1>8, <1>9 DEF SinkInv
<1>11. ~At(b, "committed") /\ t.pc # "committed"
  BY <1>2, <1>3 DEF At, s
<1> QED BY <1>2, <1>3, <1>10, <1>11, OneSinkMoves DEF t

\* The rows at different positions are counted once each when their identities differ.
LEMMA CountOfPositions ==
  ASSUME NEW S, IsFiniteSet(S), NEW q, \A i, j \in S : i # j => q[i].id # q[j].id
  PROVE  LET image == {q[i] : i \in S}
         IN IsFiniteSet(image) /\ Cardinality(image) = Cardinality(S)
<1> DEFINE image == {q[i] : i \in S}
           g == [i \in S |-> q[i]]
<1>1. g \in Bijection(S, image)
  BY DEF Bijection, Injection, Surjection, IsInjective
<1>2. ExistsBijection(S, image)
  BY <1>1 DEF ExistsBijection
<1> HIDE DEF image
<1>3. IsFiniteSet(image) /\ Cardinality(image) = Cardinality(S)
  BY <1>2, FS_Bijection
<1> QED BY <1>3 DEF image

\* What one family's insert adds: rows of the stage, of that family, of new and
\* different identities; and with it the whole family is stored or written.
LEMMA FamilyInsert ==
  ASSUME WorkAssumption, SinksInv, NEW b \in Backends, NEW f, NEW new,
         new = InsertSql(b, f), Accepted(b, new), VerifySql(b, f, new)
  PROVE  LET s == backend[b]
             added == RowsAt(b, new)
         IN /\ added \subseteq ToSet(s.stage) /\ added \subseteq AllRows
            /\ \A r \in added : r.family = f
            /\ \A r \in added, x \in table \cup s.rows : r.family = x.family => r.id # x.id
            /\ \A r, x \in added : r.id = x.id => r = x
            /\ \A r \in ToSet(s.stage) : r.family = f => r \in table \cup s.rows \cup added
            /\ IsFiniteSet(added) /\ Cardinality(added) = Cardinality(new)
<1> DEFINE s == backend[b]
           added == RowsAt(b, new)
<1>1. SinkInv(s, b, table, held)
  BY DEF SinksInv
<1>2. s.stage \in Seq(AllRows) /\ s.snapshot \subseteq table
  BY <1>1 DEF SinkInv, SinkTypes
<1>3. /\ FamilyRows(b, f) \subseteq 1 .. Len(s.stage) /\ DOMAIN s.stage = 1 .. Len(s.stage)
      /\ new \subseteq FamilyRows(b, f)
      /\ \A i \in FamilyRows(b, f) : s.stage[i].family = f
  BY <1>2 DEF FamilyRows, InsertSql
<1>4. added = {s.stage[i] : i \in new}
  BY DEF RowsAt
<1>5. added \subseteq ToSet(s.stage) /\ added \subseteq AllRows /\ \A r \in added : r.family = f
  <2>1. \A i \in 1 .. Len(s.stage) : s.stage[i] \in AllRows
    BY <1>2
  <2> QED BY <1>3, <1>4, <2>1 DEF ToSet
<1>6. \A r \in added, x \in table \cup s.rows : r.family = x.family => r.id # x.id
  <2>1. s.rows \subseteq Visible(b)
    BY DEF Visible
  <2>2. \A r \in added, x \in s.rows : x.family = f => x.id # r.id
    BY <1>4, <2>1 DEF InsertSql
  <2>3. \A r \in added, x \in table : x.family = r.family => x.id # r.id
    BY DEF Accepted
  <2> QED BY <1>5, <2>2, <2>3
<1>7. \A i, j \in new : i # j => s.stage[i].id # s.stage[j].id
  BY DEF Accepted
<1>8. \A r, x \in added : r.id = x.id => r = x
  BY <1>4, <1>7
<1>9. IsFiniteSet(FamilyRows(b, f)) /\ IsFiniteSet(new)
      /\ (Cardinality(new) = Cardinality(FamilyRows(b, f)) => new = FamilyRows(b, f))
  <2>1. IsFiniteSet(1 .. Len(s.stage))
    <3> DEFINE n == Len(s.stage)
    <3>1. n \in Nat
      BY <1>2
    <3> HIDE DEF n
    <3>2. IsFiniteSet(1 .. n)
      BY <3>1, FS_Interval, SMT
    <3> QED BY <3>2 DEF n
  <2>2. IsFiniteSet(FamilyRows(b, f))
    BY <1>3, <2>1, FS_Subset
  <2> QED BY <1>3, <2>2, FS_Subset
<1>10. ASSUME NEW r \in ToSet(s.stage), r.family = f PROVE r \in table \cup s.rows \cup added
  <2>1. r \in RowsAt(b, FamilyRows(b, f))
    BY <1>10 DEF ToSet, RowsAt, FamilyRows
  <2>2. Visible(b) \subseteq table \cup s.rows
    BY <1>2 DEF Visible
  <2> QED BY <2>1, <2>2, <1>9 DEF VerifySql
<1>11. IsFiniteSet(added) /\ Cardinality(added) = Cardinality(new)
  BY <1>4, <1>7, <1>9, CountOfPositions
<1> QED BY <1>5, <1>6, <1>8, <1>10, <1>11

\* The insert of a family keeps identities single, counts and references right.
LEMMA RecordFamilyKeeps ==
  ASSUME WorkAssumption, DepositInv, NEW b \in Backends, RecordFamily(b)
  PROVE  DepositInv'
<1> DEFINE s == backend[b]
           t == backend'[b]
           f == Families[s.family]
           new == InsertSql(b, f)
           added == RowsAt(b, new)
<1>1. SinkInv(s, b, table, held) /\ DOMAIN backend = Backends /\ DOMAIN s = DOMAIN NewSink
  BY DEF DepositInv, SinksInv, SinkInv, SinkTypes
<1>2. /\ s.pc = "writing" /\ s.family <= 4 /\ UNCHANGED <<table, receipts, held>>
      /\ Accepted(b, new) /\ VerifySql(b, f, new)
      /\ backend' = [backend EXCEPT ![b].rows = @ \cup added, ![b].family = @ + 1,
                       ![b].inserted[f] = @ + Cardinality(new)]
  BY DEF RecordFamily, At, Families, CountInserted
<1>3. s.inserted \in [ToSet(Families) -> Nat] /\ s.family \in 1 .. 5 /\ s.rows \subseteq AllRows /\ IsFiniteSet(s.rows)
  BY <1>1 DEF SinkInv, SinkTypes
<1>4. f \in ToSet(Families) /\ s.family \in 1 .. 4
  <2>1. s.family \in 1 .. 4
    BY <1>2, <1>3
  <2>2. \A i \in 1 .. 4 : Families[i] \in ToSet(Families)
    BY DEF Families, ToSet
  <2> QED BY <2>1, <2>2
<1> HIDE DEF added, new, f
<1>5. /\ DOMAIN backend' = Backends /\ \A c \in Backends : c # b => backend'[c] = backend[c]
      /\ DOMAIN t = DOMAIN NewSink /\ t.pc = s.pc /\ t.deposit = s.deposit /\ t.batch = s.batch
      /\ t.stage = s.stage /\ t.family = s.family + 1 /\ t.snapshot = s.snapshot
      /\ t.rows = s.rows \cup added /\ t.receipts = s.receipts
      /\ t.inserted = [s.inserted EXCEPT ![f] = @ + Cardinality(new)]
  BY <1>1, <1>2 DEF NewSink
<1>6. /\ added \subseteq ToSet(s.stage) /\ added \subseteq AllRows
      /\ \A r \in added : r.family = f
      /\ \A r \in added, x \in table \cup s.rows : r.family = x.family => r.id # x.id
      /\ \A r, x \in added : r.id = x.id => r = x
      /\ \A r \in ToSet(s.stage) : r.family = f => r \in table \cup s.rows \cup added
      /\ IsFiniteSet(added) /\ Cardinality(added) = Cardinality(new)
  BY <1>2, FamilyInsert DEF DepositInv, added, new
<1> HIDE DEF s, t
<1>7. Cardinality(new) \in Nat /\ IsFiniteSet(t.rows)
  <2>1. Cardinality(added) \in Nat
    BY <1>6, FS_CardinalityType
  <2>2. IsFiniteSet(s.rows \cup added)
    BY <1>3, <1>6, FS_Union
  <2> QED BY <1>5, <1>6, <2>1, <2>2
<1>8. SinkTypes(t)
  <2>1. t.inserted \in [ToSet(Families) -> Nat]
    BY <1>3, <1>4, <1>5, <1>7
  <2>2. t.family \in 1 .. 5
    BY <1>4, <1>5
  <2> QED BY <1>1, <1>3, <1>5, <1>6, <1>7, <2>1, <2>2 DEF SinkInv, SinkTypes
<1>9. Locked(t, b, held)
  BY <1>1, <1>2, <1>5, <1>6 DEF SinkInv, Locked
<1>10. Fresh(t, table) /\ OwnKeys(t)
  BY <1>1, <1>2, <1>5, <1>6 DEF SinkInv, Fresh, OwnKeys
<1>11. StageIsDeposit(t, b) /\ Receipted(t, table) /\ t.snapshot \subseteq table
  BY <1>1, <1>2, <1>5 DEF SinkInv, StageIsDeposit, Receipted
<1>12. FamiliesWritten(t, table)
  <2>1. ASSUME NEW r \in ToSet(s.stage), NEW k \in 1 .. s.family, r.family = Families[k]
        PROVE  r \in table \cup s.rows \cup added
    <3>1. CASE k = s.family
      BY <2>1, <3>1, <1>6 DEF f
    <3>2. CASE k # s.family
      <4>1. k \in 1 .. s.family - 1
        BY <3>2, <1>4
      <4> QED BY <2>1, <4>1, <1>1, <1>2 DEF SinkInv, FamiliesWritten
    <3> QED BY <3>1, <3>2
  <2>2. t.family - 1 = s.family
    BY <1>4, <1>5
  <2> QED BY <2>1, <2>2, <1>5 DEF FamiliesWritten
<1>13. Resolved(t, table)
  <2>1. StagedNow(s) = ToSet(s.stage) /\ StagedNow(t) = ToSet(s.stage)
    BY <1>2, <1>5 DEF StagedNow
  <2> QED BY <2>1, <1>1, <1>2, <1>5, <1>6 DEF SinkInv, Resolved
<1>14. Counted(t)
  <2>1. ASSUME NEW g \in ToSet(Families)
        PROVE  t.inserted[g] = Cardinality({r \in t.rows : r.family = g})
    <3> DEFINE old == {r \in s.rows : r.family = g}
    <3>1. s.inserted[g] = Cardinality(old)
      BY <1>1 DEF SinkInv, Counted
    <3>2. IsFiniteSet(old)
      BY <1>3, FS_Subset
    <3>3. CASE g = f
      <4>1. {r \in t.rows : r.family = g} = old \cup added
        BY <3>3, <1>5, <1>6
      <4>2. old \cap added = {}
        BY <3>3, <1>6
      <4> HIDE DEF old
      <4>3. Cardinality(old \cup added) = Cardinality(old) + Cardinality(added) - Cardinality(old \cap added)
        BY <3>2, <1>6, FS_Union
      <4>4. Cardinality(old \cap added) = 0 /\ Cardinality(old) \in Nat
        BY <4>2, <3>2, FS_EmptySet, FS_CardinalityType
      <4>5. t.inserted[g] = s.inserted[g] + Cardinality(new)
        BY <3>3, <1>3, <1>4, <1>5
      <4>6. Cardinality(added) = Cardinality(new)
        BY <1>6
      <4>7. Cardinality(old \cup added) = Cardinality(old) + Cardinality(new)
        BY <4>3, <4>4, <4>6, <1>7
      <4> QED BY <4>1, <4>5, <4>7, <3>1
    <3>4. CASE g # f
      <4>1. {r \in t.rows : r.family = g} = old
        BY <3>4, <1>5, <1>6
      <4>2. t.inserted[g] = s.inserted[g]
        BY <3>4, <1>3, <1>4, <1>5
      <4> QED BY <4>1, <4>2, <3>1
    <3> QED BY <3>3, <3>4
  <2> QED BY <2>1 DEF Counted
<1>15. SinkInv(t, b, table, held)
  BY <1>2, <1>5, <1>8, <1>9, <1>10, <1>11, <1>12, <1>13, <1>14 DEF SinkInv
<1>16. ~At(b, "committed") /\ t.pc # "committed"
  BY <1>2, <1>5 DEF At, s
<1> QED BY <1>2, <1>5, <1>15, <1>16, OneSinkMoves DEF t

\* A receipt is written when every family of the deposit is stored or written.
LEMMA DepositReceiptKeeps ==
  ASSUME WorkAssumption, DepositInv, NEW b \in Backends, DepositReceipt(b)
  PROVE  DepositInv'
<1> DEFINE s == backend[b]
           t == backend'[b]
<1>1. SinkInv(s, b, table, held) /\ DOMAIN backend = Backends /\ DOMAIN s = DOMAIN NewSink
  BY DEF DepositInv, SinksInv, SinkInv, SinkTypes
<1>2. s.pc = "writing" /\ s.family > 4 /\ UNCHANGED <<table, receipts, held>>
  BY DEF DepositReceipt, At, Families
<1>3. /\ DOMAIN backend' = Backends /\ \A c \in Backends : c # b => backend'[c] = backend[c]
      /\ DOMAIN t = DOMAIN NewSink /\ t.pc = "deposited" /\ t.deposit = s.deposit /\ t.batch = s.batch
      /\ t.stage = s.stage /\ t.family = s.family /\ t.snapshot = s.snapshot
      /\ t.rows = s.rows /\ t.receipts = s.receipts \cup {<<b, s.deposit>>} /\ t.inserted = s.inserted
  BY <1>1 DEF DepositReceipt, NewSink
<1> HIDE DEF s, t
<1>4. s.family = 5 /\ s.stage \in Seq(AllRows)
  BY <1>1, <1>2 DEF SinkInv, SinkTypes
<1>5. ToSet(s.stage) \subseteq table \cup s.rows
  <2>1. ASSUME NEW r \in ToSet(s.stage) PROVE r \in table \cup s.rows
    <3>1. r \in AllRows
      BY <1>4 DEF ToSet
    <3>2. PICK k \in 1 .. 4 : r.family = Families[k]
      BY <3>1 DEF WorkAssumption, ToSet, Families
    <3>3. k \in 1 .. s.family - 1
      BY <1>4
    <3> QED BY <3>2, <3>3, <1>1, <1>2 DEF SinkInv, FamiliesWritten
  <2> QED BY <2>1
<1>6. RowsOf(Work[b][s.deposit]) \subseteq ToSet(s.stage)
  <2>1. /\ s.deposit \in DOMAIN Work[b] /\ s.batch = Len(Work[b][s.deposit])
        /\ \A i \in 1 .. s.batch : i \in DOMAIN Work[b][s.deposit] => ToSet(Work[b][s.deposit][i]) \subseteq ToSet(s.stage)
    BY <1>1, <1>2 DEF SinkInv, StageIsDeposit
  <2>2. Work[b][s.deposit] \in Seq(Seq(AllRows))
    BY <2>1 DEF WorkAssumption
  <2>3. DOMAIN Work[b][s.deposit] = 1 .. s.batch
    BY <2>1, <2>2
  <2> QED BY <2>1, <2>3 DEF RowsOf
<1>7. Receipted(t, table)
  <2>1. \A k \in s.receipts : RowsOf(Work[k[1]][k[2]]) \subseteq table \cup s.rows
    BY <1>1, <1>2 DEF SinkInv, Receipted
  <2>2. \A k \in t.receipts : RowsOf(Work[k[1]][k[2]]) \subseteq table \cup s.rows
    BY <1>3, <1>5, <1>6, <2>1
  <2> QED BY <2>2, <1>3 DEF Receipted
<1>8. SinkTypes(t) /\ Fresh(t, table) /\ OwnKeys(t) /\ t.snapshot \subseteq table /\ Counted(t)
  BY <1>1, <1>2, <1>3 DEF SinkInv, SinkTypes, Fresh, OwnKeys, Counted
<1>9. Locked(t, b, held) /\ StageIsDeposit(t, b) /\ FamiliesWritten(t, table)
  BY <1>1, <1>2, <1>3 DEF SinkInv, Locked, StageIsDeposit, FamiliesWritten
<1>10. Resolved(t, table)
  <2>1. StagedNow(s) = ToSet(s.stage) /\ StagedNow(t) = {}
    BY <1>2, <1>3 DEF StagedNow
  <2> QED BY <2>1, <1>1, <1>2, <1>3, <1>5 DEF SinkInv, Resolved
<1>11. SinkInv(t, b, table, held)
  BY <1>3, <1>7, <1>8, <1>9, <1>10 DEF SinkInv
<1>12. ~At(b, "committed") /\ t.pc # "committed"
  BY <1>2, <1>3 DEF At, s
<1> QED BY <1>2, <1>3, <1>11, <1>12, OneSinkMoves DEF t

\* The end of a transaction gives up its own locks and no other's.
LEMMA UnlockKeepsOthers ==
  ASSUME NEW b, Unlock(b)
  PROVE  \A c, p : c # b /\ Holds(held, p, c) => Holds(held', p, c)
BY DEF Unlock, Holds

\* A transaction that has not written anything.
LEMMA EmptySink ==
  ASSUME NEW t, NEW b, NEW u, NEW h, DOMAIN t = DOMAIN NewSink,
         t.pc \in {"idle", "aborted"}, t.deposit = 0, t.batch = 0, t.stage \in Seq(AllRows), t.family = 1,
         t.rows = {}, t.inserted = [f \in ToSet(Families) |-> 0], t.receipts = {}, t.snapshot = {}
  PROVE  SinkInv(t, b, u, h)
<1>1. SinkTypes(t)
  BY FS_EmptySet DEF SinkTypes
<1>2. Locked(t, b, h) /\ Fresh(t, u) /\ OwnKeys(t) /\ t.snapshot \subseteq u
  BY DEF Locked, Fresh, OwnKeys
<1>3. StageIsDeposit(t, b) /\ FamiliesWritten(t, u) /\ Resolved(t, u) /\ Receipted(t, u)
  BY DEF StageIsDeposit, FamiliesWritten, Resolved, Receipted, StagedNow
<1>4. Counted(t)
  <2>1. \A f \in ToSet(Families) : {r \in t.rows : r.family = f} = {}
    OBVIOUS
  <2> QED BY <2>1, FS_EmptySet DEF Counted
<1> QED BY <1>1, <1>2, <1>3, <1>4 DEF SinkInv

LEMMA RollbackKeeps ==
  ASSUME WorkAssumption, DepositInv, NEW b \in Backends, Rollback(b)
  PROVE  DepositInv'
<1> DEFINE s == backend[b]
           t == backend'[b]
<1>1. SinkInv(s, b, table, held) /\ DOMAIN backend = Backends /\ s.stage \in Seq(AllRows)
  BY DEF DepositInv, SinksInv, SinkInv, SinkTypes
<1>2. s.pc # "committed" /\ UNCHANGED <<table, receipts>> /\ Unlock(b)
  BY DEF Rollback
<1>3. /\ DOMAIN backend' = Backends /\ \A c \in Backends : c # b => backend'[c] = backend[c]
      /\ t = [NewSink EXCEPT !.pc = "aborted", !.stage = s.stage]
  BY <1>1 DEF Rollback
<1> HIDE DEF s, t
<1>4. /\ DOMAIN t = DOMAIN NewSink /\ t.pc = "aborted" /\ t.deposit = 0 /\ t.batch = 0
      /\ t.stage = s.stage /\ t.family = 1 /\ t.rows = {}
      /\ t.inserted = [f \in ToSet(Families) |-> 0] /\ t.receipts = {} /\ t.snapshot = {}
  BY <1>3 DEF NewSink
<1>5. SinkInv(t, b, table, held')
  BY <1>1, <1>4, EmptySink
<1>6. ~At(b, "committed") /\ t.pc # "committed"
  BY <1>2, <1>4 DEF At, s
<1>7. \A c \in Backends : \A p : c # b /\ Holds(held, p, c) => Holds(held', p, c)
  BY <1>2, UnlockKeepsOthers
<1> QED BY <1>2, <1>3, <1>5, <1>6, <1>7, OneSinkMoves DEF t

LEMMA RetryKeeps ==
  ASSUME WorkAssumption, DepositInv, NEW b \in Backends, Retry(b)
  PROVE  DepositInv'
<1> DEFINE s == backend[b]
           t == backend'[b]
<1>1. SinkInv(s, b, table, held) /\ DOMAIN backend = Backends /\ DOMAIN s = DOMAIN NewSink
  BY DEF DepositInv, SinksInv, SinkInv, SinkTypes
<1>2. s.pc = "aborted" /\ UNCHANGED <<table, receipts, held>>
  BY DEF Retry, At
<1>3. /\ DOMAIN backend' = Backends /\ \A c \in Backends : c # b => backend'[c] = backend[c]
      /\ DOMAIN t = DOMAIN NewSink /\ t.pc = "idle" /\ t.deposit = s.deposit /\ t.batch = s.batch
      /\ t.stage = s.stage /\ t.family = s.family /\ t.snapshot = s.snapshot
      /\ t.rows = s.rows /\ t.receipts = s.receipts /\ t.inserted = s.inserted
  BY <1>1 DEF Retry, NewSink
<1> HIDE DEF s, t
<1>4. SinkTypes(t) /\ Fresh(t, table) /\ OwnKeys(t) /\ t.snapshot \subseteq table /\ Counted(t)
  BY <1>1, <1>2, <1>3 DEF SinkInv, SinkTypes, Fresh, OwnKeys, Counted
<1>5. Locked(t, b, held) /\ StageIsDeposit(t, b) /\ FamiliesWritten(t, table)
  BY <1>1, <1>2, <1>3 DEF SinkInv, Locked, StageIsDeposit, FamiliesWritten
<1>6. Receipted(t, table) /\ Resolved(t, table)
  BY <1>1, <1>2, <1>3 DEF SinkInv, Receipted, Resolved, StagedNow
<1>7. SinkInv(t, b, table, held)
  BY <1>3, <1>4, <1>5, <1>6 DEF SinkInv
<1>8. ~At(b, "committed") /\ t.pc # "committed"
  BY <1>2, <1>3 DEF At, s
<1> QED BY <1>2, <1>3, <1>7, <1>8, OneSinkMoves DEF t

\* A commit publishes rows nobody else wrote: the table keeps one row for an
\* identity, and every other transaction what it relied on.
LEMMA CommitDepositKeeps ==
  ASSUME WorkAssumption, DepositInv, NEW b \in Backends, Commit(b)
  PROVE  DepositInv'
<1> DEFINE s == backend[b]
           t == backend'[b]
<1>1. SinkInv(s, b, table, held) /\ DOMAIN backend = Backends /\ DOMAIN s = DOMAIN NewSink
  BY DEF DepositInv, SinksInv, SinkInv, SinkTypes
<1>2. /\ s.pc = "deposited" /\ table' = table \cup s.rows /\ receipts' = receipts \cup s.receipts /\ Unlock(b)
      /\ backend' = [backend EXCEPT ![b].pc = "committed"]
  BY DEF Commit, At
<1>3. /\ DOMAIN backend' = Backends /\ \A c \in Backends : c # b => backend'[c] = backend[c]
      /\ DOMAIN t = DOMAIN NewSink /\ t.pc = "committed" /\ t.deposit = s.deposit /\ t.batch = s.batch
      /\ t.stage = s.stage /\ t.family = s.family /\ t.snapshot = s.snapshot
      /\ t.rows = s.rows /\ t.receipts = s.receipts /\ t.inserted = s.inserted
  BY <1>1, <1>2 DEF NewSink
<1>4. \A c \in Backends : \A p : c # b /\ Holds(held, p, c) => Holds(held', p, c)
  BY <1>2, UnlockKeepsOthers
<1>5. ASSUME NEW c \in Backends, c # b, backend[c].pc # "committed", NEW r \in s.rows, NEW x \in backend[c].rows
      PROVE  r.id # x.id
  BY <1>2, <1>5, RowsApart DEF DepositInv, At
<1>6. \A c \in Backends : (At(c, "committed")' <=> (c = b \/ At(c, "committed"))) /\ backend'[c].rows = backend[c].rows
  BY <1>2, <1>3 DEF At
<1> HIDE DEF s, t
<1>7. SinkInv(t, b, table', held')
  <2>1. SinkTypes(t) /\ OwnKeys(t) /\ t.snapshot \subseteq table' /\ Counted(t)
    BY <1>1, <1>2, <1>3 DEF SinkInv, SinkTypes, OwnKeys, Counted
  <2>2. Locked(t, b, held') /\ Fresh(t, table') /\ StageIsDeposit(t, b) /\ FamiliesWritten(t, table')
    BY <1>3 DEF Locked, Fresh, StageIsDeposit, FamiliesWritten
  <2>3. Resolved(t, table') /\ Receipted(t, table') /\ t.rows \subseteq table'
    BY <1>2, <1>3 DEF Resolved, Receipted
  <2> QED BY <2>1, <2>2, <2>3 DEF SinkInv
<1>8. ASSUME NEW c \in Backends, c # b PROVE SinkInv(backend[c], c, table', held')
  <2>1. SinkInv(backend[c], c, table, held)
    BY DEF DepositInv, SinksInv
  <2>2. Fresh(backend[c], table')
    BY <2>1, <1>2, <1>5, <1>8 DEF SinkInv, Fresh
  <2>3. \A p : Holds(held, p, c) => Holds(held', p, c)
    BY <1>4, <1>8
  <2> QED BY <2>1, <2>2, <2>3, <1>2, SinkKeeps
<1>9. SinksInv'
  <2>1. \A c \in Backends : SinkInv(backend'[c], c, table', held')
    BY <1>3, <1>7, <1>8 DEF t
  <2> QED BY <2>1, <1>3 DEF SinksInv, SinkInv, SinkTypes, Locked, Fresh, OwnKeys, StageIsDeposit, FamiliesWritten,
        Resolved, Receipted, Counted, StagedNow, Holds
<1>10. ReferencesResolve'
  <2>1. \A r \in s.rows : \A ref \in r.refs : \E x \in table \cup s.rows : <<x.family, x.id>> = ref
    <3>1. StagedNow(s) = {}
      BY <1>2 DEF StagedNow
    <3> QED BY <3>1, <1>1, <1>2 DEF SinkInv, Resolved
  <2>2. \A r \in table : \A ref \in r.refs : \E x \in table : <<x.family, x.id>> = ref
    BY DEF DepositInv, ReferencesResolve
  <2> QED BY <2>1, <2>2, <1>2 DEF ReferencesResolve
<1>11. ReceiptedIsStored'
  <2>1. \A k \in receipts' : RowsOf(Work[k[1]][k[2]]) \subseteq table'
    <3>1. \A k \in receipts : RowsOf(Work[k[1]][k[2]]) \subseteq table
      BY DEF DepositInv, ReceiptedIsStored
    <3>2. \A k \in s.receipts : RowsOf(Work[k[1]][k[2]]) \subseteq table \cup s.rows
      BY <1>1, <1>2 DEF SinkInv, Receipted
    <3> QED BY <3>1, <3>2, <1>2
  <2>2. \A r, x \in table' : r.family = x.family /\ r.id = x.id => r = x
    <3>1. \A r, x \in table : r.family = x.family /\ r.id = x.id => r = x
      BY DEF DepositInv, ReceiptedIsStored
    <3>2. \A r, x \in s.rows : r.family = x.family /\ r.id = x.id => r = x
      BY <1>1 DEF SinkInv, OwnKeys
    <3>3. \A r \in s.rows, x \in table : ~(r.family = x.family /\ r.id = x.id)
      BY <1>1, <1>2 DEF SinkInv, Fresh
    <3> QED BY <3>1, <3>2, <3>3, <1>2
  <2> QED BY <2>1, <2>2 DEF ReceiptedIsStored
<1>12. table' = UNION {backend'[c].rows : c \in {d \in Backends : At(d, "committed")'}}
  <2>1. table = UNION {backend[c].rows : c \in {d \in Backends : At(d, "committed")}}
    BY DEF DepositInv
  <2> QED BY <2>1, <1>2, <1>6 DEF s
<1>13. \A c, d \in Backends : c # d /\ At(c, "committed")' /\ At(d, "committed")'
          => backend'[c].rows \cap backend'[d].rows = {}
  <2>1. \A c \in Backends : At(c, "committed") => s.rows \cap backend[c].rows = {}
    <3>1. \A c \in Backends : At(c, "committed") => backend[c].rows \subseteq table
      BY DEF DepositInv
    <3>2. s.rows \cap table = {}
      BY <1>1, <1>2 DEF SinkInv, Fresh
    <3> QED BY <3>1, <3>2
  <2>2. \A c, d \in Backends : c # d /\ At(c, "committed") /\ At(d, "committed")
          => backend[c].rows \cap backend[d].rows = {}
    BY DEF DepositInv
  <2> QED BY <2>1, <2>2, <1>6 DEF s
<1> QED BY <1>9, <1>10, <1>11, <1>12, <1>13 DEF DepositInv

LEMMA InitDeposit == DepositInit => DepositInv
<1> SUFFICES ASSUME DepositInit PROVE DepositInv
  OBVIOUS
<1>1. table = {} /\ receipts = {} /\ DOMAIN backend = Backends /\ \A b \in Backends : backend[b] = NewSink
  BY DEF DepositInit
<1>2. /\ NewSink.pc = "idle" /\ NewSink.deposit = 0 /\ NewSink.batch = 0 /\ NewSink.stage \in Seq(AllRows)
      /\ NewSink.family = 1 /\ NewSink.rows = {} /\ NewSink.inserted = [f \in ToSet(Families) |-> 0]
      /\ NewSink.receipts = {} /\ NewSink.snapshot = {}
  BY DEF NewSink
<1>3. \A b \in Backends : SinkInv(NewSink, b, table, held)
  BY <1>2, EmptySink
<1>4. SinksInv
  BY <1>1, <1>3 DEF SinksInv
<1>5. ReferencesResolve /\ ReceiptedIsStored
  BY <1>1 DEF ReferencesResolve, ReceiptedIsStored
<1>6. {c \in Backends : At(c, "committed")} = {}
  BY <1>1, <1>2 DEF At
<1> QED BY <1>1, <1>4, <1>5, <1>6 DEF DepositInv

LEMMA StepDeposit == WorkAssumption /\ DepositInv /\ [DepositNext]_depositVars => DepositInv'
<1> SUFFICES ASSUME WorkAssumption, DepositInv, [DepositNext]_depositVars PROVE DepositInv'
  OBVIOUS
<1>1. CASE UNCHANGED depositVars
  <2>1. table' = table /\ receipts' = receipts /\ backend' = backend /\ held' = held
    BY <1>1 DEF depositVars
  <2>2. SinksInv'
    <3>1. DOMAIN backend' = Backends /\ \A b \in Backends : SinkInv(backend'[b], b, table', held')
      BY <2>1 DEF DepositInv, SinksInv
    <3> QED BY <3>1 DEF SinksInv, SinkInv, SinkTypes, Locked, Fresh, OwnKeys, StageIsDeposit,
          FamiliesWritten, Resolved, Receipted, Counted, StagedNow, Holds
  <2>3. ReferencesResolve' /\ ReceiptedIsStored'
    BY <2>1 DEF DepositInv, ReferencesResolve, ReceiptedIsStored
  <2>4. \A b \in Backends : At(b, "committed")' <=> At(b, "committed")
    BY <2>1 DEF At
  <2>5. {c \in Backends : At(c, "committed")'} = {c \in Backends : At(c, "committed")}
    BY <2>4
  <2>6. table' = UNION {backend'[b].rows : b \in {c \in Backends : At(c, "committed")'}}
    BY <2>1, <2>5 DEF DepositInv
  <2>7. \A b, c \in Backends : b # c /\ At(b, "committed")' /\ At(c, "committed")'
          => backend'[b].rows \cap backend'[c].rows = {}
    BY <2>1, <2>4 DEF DepositInv
  <2> QED BY <2>2, <2>3, <2>6, <2>7 DEF DepositInv
<1>2. CASE DepositNext
  <2>1. PICK b \in Backends : DepositStep(b) \/ Rollback(b) \/ Retry(b)
    BY <1>2 DEF DepositNext
  <2>2. CASE DepositStep(b)
    BY <2>2, SinkBeginKeeps, SinkStageKeeps, SinkSealKeeps, LockPartitionKeeps, ReferenceCheckKeeps,
       RecordFamilyKeeps, DepositReceiptKeeps, CommitDepositKeeps DEF DepositStep
  <2> QED BY <2>1, <2>2, RollbackKeeps, RetryKeeps
<1> QED BY <1>1, <1>2

\* For any backends, deposits, partitioning and isolation levels: transactions
\* that deposit at once never hold the same row uncommitted, committed rows refer
\* to committed rows, a receipt stands for rows stored with exactly its fields,
\* and every stored row was counted as inserted by one transaction
\* (sink_seal's sorted partition locks, execute_reference_check,
\* execute_record_family and persist_deposit_receipt of persistence_pg.c).
THEOREM DepositsExact == WorkAssumption => (DepositSpec => []DepositsAreExact)
<1> SUFFICES ASSUME WorkAssumption PROVE DepositSpec => []DepositsAreExact
  OBVIOUS
<1>1. DepositInit => DepositInv
  BY InitDeposit
<1>2. DepositInv /\ [DepositNext]_depositVars => DepositInv'
  BY StepDeposit
<1>3. DepositInv => DepositsAreExact
  <2> SUFFICES ASSUME DepositInv PROVE DepositsAreExact
    OBVIOUS
  <2>1. InsertsNeverMeet
    BY RowsApart DEF DepositInv, InsertsNeverMeet, At
  <2>2. InsertedIsExact
    BY DEF DepositInv, SinksInv, SinkInv, Counted, InsertedIsExact
  <2> QED BY <2>1, <2>2 DEF DepositInv, DepositsAreExact
<1> QED BY <1>1, <1>2, <1>3, PTL DEF DepositSpec

-----------------------------------------------------------------------------

(***************************************************************************)
(* The reference highway registry.                                         *)
(***************************************************************************)

(* The inductive invariant, part by part.                                  *)

HighwayEvents ==
    [epoch : Libraries, expected : {x.numeric : x \in CallContexts}, context : CallContexts,
     activation : {FinalReceipt(l, x, n) : l \in Libraries, x \in CallContexts, n \in Nat}]

\* The events are one chain and the control row is its last one.
Chained == events \in Seq(HighwayEvents) /\ ChainIsContiguous

\* Every event left the row of its registry under its own context, and its
\* projections.
Stored ==
    /\ \A n \in DOMAIN events :
         /\ events[n].epoch \in DOMAIN generations
         /\ generations[events[n].epoch] = GenerationRow(events[n].epoch, events[n].context)
    /\ DOMAIN projections = DOMAIN generations
    /\ \A e \in DOMAIN projections : projections[e] = ProjectionsOf(e)

\* What a call keeps.
CallShape(c) ==
    /\ c = [lib |-> c.lib, ctx |-> c.ctx, control |-> c.control, generations |-> c.generations,
            generation |-> c.generation, sequence |-> c.sequence, replayed |-> c.replayed]
    /\ c.lib \in Libraries /\ c.ctx \in CallContexts /\ c.sequence \in Nat /\ c.replayed \in BOOLEAN

\* The snapshot of a call is of a state the tables have been in: its active row is
\* that of an event there is.
Snapshot(c) ==
    c.control.active =>
        /\ c.control.sequence \in DOMAIN events
        /\ events[c.control.sequence].epoch = c.control.epoch
        /\ c.generations[c.control.epoch] =
             GenerationRow(c.control.epoch, events[c.control.sequence].context)

\* What a call that passed prepare will leave: the row of its own registry under
\* its own context, there already or inserted by itself.
Claims(c) ==
    \/ /\ c.lib \in DOMAIN generations /\ c.generation = None
       /\ generations[c.lib] = GenerationRow(c.lib, c.ctx)
    \/ c.lib \notin DOMAIN generations /\ c.generation = c.lib

\* A call that moves the control row holds its lock and continues the chain.
Continues(b, c) ==
    /\ holder = b
    /\ c.sequence = control.sequence + 1
    /\ control.active => control.epoch = c.ctx.numeric

\* A replay found the event it answers with.
Replays(c) ==
    /\ c.generation = None
    /\ c.sequence \in DOMAIN events
    /\ events[c.sequence].epoch = c.lib /\ events[c.sequence].context = c.ctx

CallOf(b) ==
    /\ pc[b] \in {"idle", "lookup", "prepare", "commit", "end"}
    /\ pc[b] = "idle" => call[b] = None
    /\ pc[b] # "idle" => CallShape(call[b])
    /\ pc[b] \in {"lookup", "prepare"} => ~call[b].replayed /\ call[b].generation = None
    /\ pc[b] = "lookup" => Snapshot(call[b])
    /\ pc[b] = "commit" => ~call[b].replayed /\ Claims(call[b])
    /\ pc[b] = "end" => \/ ~call[b].replayed /\ Claims(call[b]) /\ Continues(b, call[b])
                        \/ call[b].replayed /\ Replays(call[b])

Calls ==
    /\ DOMAIN pc = Sessions /\ DOMAIN call = Sessions
    /\ \A b \in Sessions : CallOf(b)

\* No two open transactions have inserted one generation.
Apart == \A a, b \in Sessions : a # b /\ Written(a) # None => Written(a) # Written(b)

HighwayInv == Chained /\ Stored /\ Calls /\ Apart /\ AnswerIsAnEvent

-----------------------------------------------------------------------------
(* Rows.                                                                   *)

\* The ISA receipt in a row tells its registry and its context.
LEMMA RowsDiffer ==
    ASSUME NEW l, NEW x, NEW y
    PROVE  /\ GenerationRow(l, x) = GenerationRow(l, y) => x = y
           /\ GenerationRow(l, x).isa = IsaReceipt(l, x)
           /\ IsaReceipt(l, x) = IsaReceipt(l, y) => x = y
<1>1. GenerationRow(l, x).isa = IsaReceipt(l, x) /\ GenerationRow(l, y).isa = IsaReceipt(l, y)
  BY DEF GenerationRow
<1>2. IsaReceipt(l, x).context = x /\ IsaReceipt(l, y).context = y
  BY DEF IsaReceipt
<1> QED BY <1>1, <1>2

LEMMA CallIsSomething == ASSUME NEW c, CallShape(c) PROVE c # None
<1>1. "lib" \in DOMAIN c
  BY DEF CallShape
<1>2. "lib" \notin DOMAIN None
  BY DEF None
<1> QED BY <1>1, <1>2

LEMMA InitHighway == HighwayInit => HighwayInv
<1> SUFFICES ASSUME HighwayInit PROVE HighwayInv OBVIOUS
<1>1. Chained
  BY DEF HighwayInit, Chained, ChainIsContiguous
<1>2. Stored
  BY DEF HighwayInit, Stored, Empty
<1>3. Calls
  BY DEF HighwayInit, Calls, CallOf
<1>4. Apart
  BY DEF HighwayInit, Apart, Written
<1>5. AnswerIsAnEvent
  BY DEF HighwayInit, AnswerIsAnEvent
<1> QED BY <1>1, <1>2, <1>3, <1>4, <1>5 DEF HighwayInv

-----------------------------------------------------------------------------
(* Steps that write no table.                                              *)

\* Tables only grow.
Grows ==
    /\ \A e \in DOMAIN generations : e \in DOMAIN generations' /\ generations'[e] = generations[e]
    /\ \A n \in DOMAIN events : n \in DOMAIN events' /\ events'[n] = events[n]

\* A call that does not step keeps what it relies on, unless somebody else takes
\* its lock, its place in the chain or its generation.
LEMMA OthersKept ==
    ASSUME NEW o, CallOf(o), pc'[o] = pc[o], call'[o] = call[o], Grows,
           pc[o] = "end" /\ ~call[o].replayed => holder' = holder /\ control' = control,
           pc[o] \in {"commit", "end"} /\ ~call[o].replayed /\ call[o].lib \notin DOMAIN generations
              => call[o].lib \notin DOMAIN generations'
    PROVE  CallOf(o)'
<1>1. pc[o] = "lookup" => Snapshot(call[o])'
  BY DEF CallOf, Snapshot, Grows
<1>2. Claims(call[o]) /\ pc[o] \in {"commit", "end"} /\ ~call[o].replayed => Claims(call[o])'
  BY DEF Claims, Grows
<1>3. pc[o] = "end" /\ ~call[o].replayed => Continues(o, call[o])'
  BY DEF CallOf, Continues
<1>4. pc[o] = "end" /\ call[o].replayed => Replays(call[o])'
  BY DEF CallOf, Replays, Grows
<1>5. CallShape(call[o]) => CallShape(call[o])'
  BY DEF CallShape
<1> QED BY <1>1, <1>2, <1>3, <1>4, <1>5 DEF CallOf

\* A step of one backend that writes no table and takes nobody's lock.
LEMMA QuietStep ==
    ASSUME HighwayInv, NEW b \in Sessions,
           UNCHANGED <<control, generations, projections, events>>,
           DOMAIN pc' = Sessions, DOMAIN call' = Sessions,
           \A o \in Sessions : o # b => pc'[o] = pc[o] /\ call'[o] = call[o] /\ (holder = o => holder' = holder),
           CallOf(b)',
           \A o \in Sessions : o # b /\ Written(b)' # None => Written(o) # Written(b)',
           AnswerIsAnEvent'
    PROVE  HighwayInv'
<1>1. Chained' /\ Stored'
  BY DEF HighwayInv, Chained, ChainIsContiguous, Stored, HighwayEvents, FinalReceipt, GenerationRow, ProjectionsOf
<1>2. Grows
  BY DEF Grows
<1>3. ASSUME NEW o \in Sessions, o # b PROVE CallOf(o)'
  <2>1. CallOf(o)
    BY DEF HighwayInv, Calls
  <2>2. pc[o] = "end" /\ ~call[o].replayed => holder = o
    BY <2>1 DEF CallOf, Continues
  <2> QED BY <1>2, <1>3, <2>1, <2>2, OthersKept
<1>4. Calls'
  BY <1>3 DEF Calls
<1>5. Apart'
  <2>1. \A o \in Sessions : o # b => Written(o)' = Written(o)
    BY DEF Written
  <2> QED BY <2>1 DEF HighwayInv, Apart
<1> QED BY <1>1, <1>4, <1>5 DEF HighwayInv

\* What ends a call: only its own state changes, and the lock is given back if
\* it was the caller's.
LEMMA FailedCall ==
    ASSUME HighwayInv, NEW b \in Sessions, EndCall(b, Failed),
           UNCHANGED <<control, generations, projections, events>>,
           \A o \in Sessions : o # b => (holder = o => holder' = holder)
    PROVE  HighwayInv'
<1>1. DOMAIN pc' = Sessions /\ DOMAIN call' = Sessions
  BY DEF HighwayInv, Calls, EndCall
<1>2. pc'[b] = "idle" /\ call'[b] = None
  BY DEF HighwayInv, Calls, EndCall
<1>3. \A o \in Sessions : o # b => pc'[o] = pc[o] /\ call'[o] = call[o]
  BY DEF HighwayInv, Calls, EndCall
<1>4. CallOf(b)'
  BY <1>2 DEF CallOf
<1>5. Written(b)' = None
  BY <1>2 DEF Written
<1>6. AnswerIsAnEvent'
  BY DEF EndCall, Failed, AnswerIsAnEvent
<1> QED BY <1>1, <1>3, <1>4, <1>5, <1>6, QuietStep

LEMMA RollbackCallKeeps ==
    ASSUME HighwayInv, NEW b \in Sessions, RollbackCall(b) PROVE HighwayInv'
BY FailedCall DEF RollbackCall, Release

\* A call that goes on: its own state only, and no answer.
LEMMA GoesOn ==
    ASSUME HighwayInv, NEW b \in Sessions, NEW l, NEW c,
           UNCHANGED <<control, generations, projections, events, answer>>,
           pc' = [pc EXCEPT ![b] = l], call' = [call EXCEPT ![b] = c],
           \A o \in Sessions : o # b => (holder = o => holder' = holder),
           CallOf(b)', c # None,
           \A o \in Sessions : o # b /\ c.generation # None => Written(o) # c.generation
    PROVE  HighwayInv'
<1>1. DOMAIN pc' = Sessions /\ DOMAIN call' = Sessions
  BY DEF HighwayInv, Calls
<1>3. \A o \in Sessions : o # b => pc'[o] = pc[o] /\ call'[o] = call[o]
  BY DEF HighwayInv, Calls
<1>5. Written(b)' = c.generation
  BY DEF Written, HighwayInv, Calls
<1>6. AnswerIsAnEvent'
  BY DEF HighwayInv, AnswerIsAnEvent
<1> QED BY <1>1, <1>3, <1>5, <1>6, QuietStep

LEMMA StartKeeps ==
    ASSUME HighwayInv, NEW b \in Sessions, NEW lib \in Libraries, NEW ctx \in CallContexts, StartActivate(b, lib, ctx)
    PROVE  HighwayInv'
<1>1. CASE ctx.readOnly /\ EndCall(b, Failed)
  BY <1>1, FailedCall DEF StartActivate
<1>2. CASE ~(ctx.readOnly /\ EndCall(b, Failed))
  <2> DEFINE c == [lib |-> lib, ctx |-> ctx, control |-> control, generations |-> generations,
                   generation |-> None, sequence |-> 0, replayed |-> FALSE]
  <2>1. /\ pc' = [pc EXCEPT ![b] = "lookup"] /\ call' = [call EXCEPT ![b] = c]
        /\ UNCHANGED <<control, generations, projections, events, holder, answer>>
    BY <1>2 DEF StartActivate
  <2>2. pc'[b] = "lookup" /\ call'[b] = c
    BY <2>1 DEF HighwayInv, Calls
  <2>3. CallShape(c)
    BY DEF CallShape
  <2>4. Snapshot(c)
    BY DEF HighwayInv, Chained, ChainIsContiguous, Stored, Snapshot
  <2>5. CallShape(call[b])' /\ Snapshot(call[b])'
    BY <2>1, <2>2, <2>3, <2>4 DEF CallShape, Snapshot
  <2>6. CallOf(b)'
    BY <2>2, <2>5 DEF CallOf
  <2>7. c # None /\ c.generation = None
    BY <2>3, CallIsSomething
  <2> HIDE DEF c
  <2> QED BY <2>1, <2>6, <2>7, GoesOn
<1> QED BY <1>1, <1>2

\* A replay answers with the event its snapshot has for this registry and context.
LEMMA LookupKeeps ==
    ASSUME HighwayInv, NEW b \in Sessions, Lookup(b)
    PROVE  HighwayInv'
<1> DEFINE c == call[b]
<1>u. UNCHANGED <<control, generations, projections, events, holder>> /\ pc[b] = "lookup"
  BY DEF Lookup
<1>c. CallShape(c) /\ Snapshot(c) /\ ~c.replayed /\ c.generation = None
  BY <1>u DEF HighwayInv, Calls, CallOf
<1>1. CASE ReplayFound(c) /\ UNCHANGED answer
           /\ pc' = [pc EXCEPT ![b] = "end"]
           /\ call' = [call EXCEPT ![b].sequence = c.control.sequence, ![b].replayed = TRUE,
                                   ![b].control = None, ![b].generations = None]
  <2> DEFINE d == [lib |-> c.lib, ctx |-> c.ctx, control |-> None, generations |-> None,
                   generation |-> None, sequence |-> c.control.sequence, replayed |-> TRUE]
  <2>1. call' = [call EXCEPT ![b] = d]
    BY <1>1, <1>c DEF CallShape, HighwayInv, Calls
  <2>2. pc'[b] = "end" /\ call'[b] = d
    BY <1>1, <2>1 DEF HighwayInv, Calls
  <2>3. /\ c.control.sequence \in DOMAIN events
        /\ events[c.control.sequence].epoch = c.lib
        /\ events[c.control.sequence].context = c.ctx
    BY <1>1, <1>c, RowsDiffer DEF ReplayFound, Snapshot, EpochOf
  <2>4. DOMAIN events \subseteq Nat
    BY DEF HighwayInv, Chained
  <2>5. CallShape(d)
    BY <1>c, <2>3, <2>4 DEF CallShape
  <2>6. CallShape(call[b])'
    BY <2>2, <2>5 DEF CallShape
  <2>7. Replays(call[b])'
    BY <2>2, <2>3, <1>u DEF Replays
  <2>8. CallOf(b)'
    BY <2>2, <2>6, <2>7 DEF CallOf
  <2>9. d # None /\ d.generation = None
    BY <2>5, CallIsSomething
  <2> HIDE DEF d
  <2> QED BY <1>u, <1>1, <2>1, <2>8, <2>9, GoesOn
<1>2. CASE EndCall(b, Failed)
  BY <1>2, <1>u, FailedCall
<1>3. CASE UNCHANGED answer /\ pc' = [pc EXCEPT ![b] = "prepare"]
           /\ call' = [call EXCEPT ![b].generations = None]
  <2> DEFINE d == [lib |-> c.lib, ctx |-> c.ctx, control |-> c.control, generations |-> None,
                   generation |-> None, sequence |-> c.sequence, replayed |-> c.replayed]
  <2>1. call' = [call EXCEPT ![b] = d]
    <3>1. call' = [call EXCEPT ![b] = [c EXCEPT !.generations = None]]
      BY <1>3
    <3>2. [c EXCEPT !.generations = None] = d
      BY <1>c DEF CallShape
    <3> QED BY <3>1, <3>2
  <2>2. pc'[b] = "prepare" /\ call'[b] = d
    BY <1>3, <2>1 DEF HighwayInv, Calls
  <2>3. CallShape(d)
    BY <1>c DEF CallShape
  <2>4. CallShape(call[b])'
    BY <2>2, <2>3 DEF CallShape
  <2>5. CallOf(b)'
    BY <1>c, <2>2, <2>4 DEF CallOf
  <2>6. d # None /\ d.generation = None
    BY <2>3, CallIsSomething
  <2> HIDE DEF d
  <2> QED BY <1>u, <1>3, <2>1, <2>5, <2>6, GoesOn
<1> QED BY <1>1, <1>2, <1>3 DEF Lookup

\* Prepare finds the row it would write, or inserts it before anybody else can.
LEMMA PrepareKeeps ==
    ASSUME NamesAssumption, HighwayInv, NEW b \in Sessions, Prepare(b)
    PROVE  HighwayInv'
<1> DEFINE c == call[b]
           present == c.lib \in DOMAIN generations
<1>u. UNCHANGED <<control, generations, projections, events, holder>> /\ pc[b] = "prepare"
  BY DEF Prepare
<1>c. CallShape(c) /\ ~c.replayed /\ c.generation = None
  BY <1>u DEF HighwayInv, Calls, CallOf
<1>1. CASE UNCHANGED answer /\ pc' = [pc EXCEPT ![b] = "commit"]
           /\ call' = [call EXCEPT ![b].generation = IF present THEN None ELSE c.lib]
           /\ (present => generations[c.lib] = GenerationRow(c.lib, c.ctx))
  <2> DEFINE d == [lib |-> c.lib, ctx |-> c.ctx, control |-> c.control, generations |-> c.generations,
                   generation |-> IF present THEN None ELSE c.lib, sequence |-> c.sequence, replayed |-> c.replayed]
  <2>1. call' = [call EXCEPT ![b] = d]
    <3>1. call' = [call EXCEPT ![b] = [c EXCEPT !.generation = IF present THEN None ELSE c.lib]]
      BY <1>1
    <3>2. [c EXCEPT !.generation = IF present THEN None ELSE c.lib] = d
      BY <1>c DEF CallShape
    <3> QED BY <3>1, <3>2
  <2>2. pc'[b] = "commit" /\ call'[b] = d
    BY <1>1, <2>1 DEF HighwayInv, Calls
  <2>3. CallShape(d)
    BY <1>c DEF CallShape
  <2>4. CallShape(call[b])'
    BY <2>2, <2>3 DEF CallShape
  <2>5. Claims(d)
    BY <1>1 DEF Claims
  <2>6. Claims(call[b])'
    BY <1>u, <2>2, <2>5 DEF Claims
  <2>7. CallOf(b)'
    BY <1>c, <2>2, <2>4, <2>6 DEF CallOf
  <2>8. d # None /\ (d.generation # None => d.generation = c.lib)
    BY <2>3, CallIsSomething
  <2>9. \A o \in Sessions : o # b => Written(o) # c.lib
    BY DEF Prepare, EpochOf
  <2> HIDE DEF d
  <2> QED BY <1>u, <1>1, <2>1, <2>7, <2>8, <2>9, GoesOn
<1>2. CASE EndCall(b, Failed)
  BY <1>2, <1>u, FailedCall
<1> QED BY <1>1, <1>2 DEF Prepare, EpochOf, GenerationAgrees

LEMMA Numbered ==
    ASSUME NEW c, CallShape(c), NEW n \in Nat
    PROVE  [c EXCEPT !.sequence = n, !.control = None] =
             [lib |-> c.lib, ctx |-> c.ctx, control |-> None, generations |-> c.generations,
              generation |-> c.generation, sequence |-> n, replayed |-> c.replayed]
<1> DEFINE r == [c EXCEPT !.sequence = n, !.control = None]
<1>1. /\ DOMAIN c = {"lib", "ctx", "control", "generations", "generation", "sequence", "replayed"}
      /\ c = [f \in DOMAIN c |-> c[f]]
  BY DEF CallShape
<1>2. /\ DOMAIN r = DOMAIN c /\ r = [f \in DOMAIN c |-> r[f]]
      /\ r.lib = c.lib /\ r.ctx = c.ctx /\ r.control = None /\ r.generations = c.generations
      /\ r.generation = c.generation /\ r.sequence = n /\ r.replayed = c.replayed
  BY <1>1
<1> HIDE DEF r
<1>3. r = [lib |-> c.lib, ctx |-> c.ctx, control |-> None, generations |-> c.generations,
           generation |-> c.generation, sequence |-> n, replayed |-> c.replayed]
  BY <1>1, <1>2
<1> QED BY <1>3 DEF r

\* FOR UPDATE: one backend has the control row and has seen its last version.
LEMMA CommitActivationKeeps ==
    ASSUME NamesAssumption, HighwayInv, NEW b \in Sessions, CommitActivation(b)
    PROVE  HighwayInv'
<1> DEFINE c == call[b]
<1>u. UNCHANGED <<control, generations, projections, events>> /\ pc[b] = "commit" /\ holder = None
  BY DEF CommitActivation
<1>n. \A o \in Sessions : holder # o
  BY <1>u DEF NamesAssumption
<1>c. CallShape(c) /\ ~c.replayed /\ Claims(c)
  BY <1>u DEF HighwayInv, Calls, CallOf
<1>1. CASE UNCHANGED answer /\ ~CommitRefused(control, c.ctx.numeric) /\ holder' = b
           /\ pc' = [pc EXCEPT ![b] = "end"]
           /\ call' = [call EXCEPT ![b].sequence = control.sequence + 1, ![b].control = None]
  <2> DEFINE d == [lib |-> c.lib, ctx |-> c.ctx, control |-> None, generations |-> c.generations,
                   generation |-> c.generation, sequence |-> control.sequence + 1, replayed |-> c.replayed]
  <2>s. control.sequence + 1 \in Nat
    BY DEF HighwayInv, Chained, ChainIsContiguous
  <2>1. call' = [call EXCEPT ![b] = d]
    <3>1. call' = [call EXCEPT ![b] = [c EXCEPT !.sequence = control.sequence + 1, !.control = None]]
      BY <1>1
    <3>2. [c EXCEPT !.sequence = control.sequence + 1, !.control = None] = d
      BY <1>c, <2>s, Numbered
    <3> QED BY <3>1, <3>2
  <2>2. pc'[b] = "end" /\ call'[b] = d
    BY <1>1, <2>1 DEF HighwayInv, Calls
  <2>3. CallShape(d)
    BY <2>s, <1>c DEF CallShape
  <2>4. CallShape(call[b])'
    BY <2>2, <2>3 DEF CallShape
  <2>5. Claims(call[b])'
    BY <1>u, <1>c, <2>2 DEF Claims
  <2>6. Continues(b, call[b])'
    BY <1>u, <1>1, <2>2 DEF Continues, CommitRefused
  <2>7. CallOf(b)'
    BY <1>c, <2>2, <2>4, <2>5, <2>6 DEF CallOf
  <2>8. d # None /\ d.generation = Written(b)
    BY <2>3, <1>c, CallIsSomething DEF Written
  <2>9. \A o \in Sessions : o # b /\ Written(b) # None => Written(o) # Written(b)
    BY DEF HighwayInv, Apart
  <2> HIDE DEF d
  <2> QED BY <1>u, <1>n, <1>1, <2>1, <2>7, <2>8, <2>9, GoesOn
<1>2. CASE EndCall(b, Failed)
  BY <1>2, <1>u, <1>n, FailedCall
<1> QED BY <1>1, <1>2 DEF CommitActivation

LEMMA ResolveKeeps ==
    ASSUME HighwayInv, NEW b \in Sessions, NEW lib \in Libraries, NEW ctx \in CallContexts, Resolve(b, lib, ctx)
    PROVE  HighwayInv'
<1>u. UNCHANGED <<control, generations, projections, events, holder, pc, call>>
  BY DEF Resolve
<1>1. AnswerIsAnEvent'
  BY DEF Resolve, Failed, AnswerIsAnEvent
<1>2. DOMAIN pc' = Sessions /\ DOMAIN call' = Sessions
  BY <1>u DEF HighwayInv, Calls
<1>3. CallOf(b)'
  BY <1>u DEF HighwayInv, Calls, CallOf, CallShape, Snapshot, Claims, Continues, Replays, GenerationRow
<1>4. Written(b)' = Written(b)
  BY <1>u DEF Written
<1>5. \A o \in Sessions : o # b /\ Written(b)' # None => Written(o) # Written(b)'
  BY <1>4 DEF HighwayInv, Apart
<1> QED BY <1>u, <1>1, <1>2, <1>3, <1>5, QuietStep

-----------------------------------------------------------------------------
(* The end of a transaction.                                               *)

\* A replay changes nothing and answers with its event.
LEMMA ReplayEnds ==
    ASSUME HighwayInv, NEW b \in Sessions, CommitTransaction(b), call[b].replayed
    PROVE  HighwayInv'
<1>u. UNCHANGED <<control, generations, projections, events>> /\ pc[b] = "end"
  BY DEF CommitTransaction
<1>c. Replays(call[b]) /\ CallShape(call[b])
  BY <1>u DEF HighwayInv, Calls, CallOf
<1>1. DOMAIN pc' = Sessions /\ DOMAIN call' = Sessions
  BY DEF HighwayInv, Calls, CommitTransaction, EndCall
<1>2. pc'[b] = "idle" /\ call'[b] = None
  BY DEF HighwayInv, Calls, CommitTransaction, EndCall
<1>3. \A o \in Sessions : o # b => pc'[o] = pc[o] /\ call'[o] = call[o] /\ (holder = o => holder' = holder)
  BY DEF HighwayInv, Calls, CommitTransaction, EndCall, Release
<1>4. CallOf(b)'
  BY <1>2 DEF CallOf
<1>5. Written(b)' = None
  BY <1>2 DEF Written
<1>6. AnswerIsAnEvent'
  BY <1>u, <1>c DEF CommitTransaction, EndCall, Replays, AnswerIsAnEvent
<1> QED BY <1>u, <1>1, <1>3, <1>4, <1>5, <1>6, QuietStep

\* What a new activation writes.
LEMMA Writes ==
    ASSUME HighwayInv, NEW b \in Sessions, CommitTransaction(b), ~call[b].replayed
    PROVE  LET c == call[b] IN
           /\ pc[b] = "end" /\ CallShape(c) /\ Claims(c) /\ Continues(b, c)
           /\ control' = [sequence |-> c.sequence, active |-> TRUE, epoch |-> c.lib,
                          admission |-> AdmissionReceipt(c.lib, c.ctx),
                          activation |-> FinalReceipt(c.lib, c.ctx, c.sequence)]
           /\ events' = Append(events, [epoch |-> c.lib, expected |-> c.ctx.numeric, context |-> c.ctx,
                                        activation |-> FinalReceipt(c.lib, c.ctx, c.sequence)])
           /\ DOMAIN generations' = DOMAIN generations \cup {c.lib}
           /\ \A e \in DOMAIN generations : generations'[e] = generations[e]
           /\ generations'[c.lib] = GenerationRow(c.lib, c.ctx)
           /\ DOMAIN projections' = DOMAIN projections \cup {c.lib}
           /\ \A e \in DOMAIN projections' : projections'[e] = ProjectionsOf(e)
<1> DEFINE c == call[b]
<1>1. pc[b] = "end" /\ CallShape(c) /\ Claims(c) /\ Continues(b, c)
  BY DEF HighwayInv, Calls, CallOf, CommitTransaction
<1>2. /\ control' = [sequence |-> c.sequence, active |-> TRUE, epoch |-> c.lib,
                     admission |-> AdmissionReceipt(c.lib, c.ctx),
                     activation |-> FinalReceipt(c.lib, c.ctx, c.sequence)]
      /\ events' = Append(events, [epoch |-> c.lib, expected |-> c.ctx.numeric, context |-> c.ctx,
                                   activation |-> FinalReceipt(c.lib, c.ctx, c.sequence)])
  BY DEF CommitTransaction, EpochOf
<1>3. generations' = [e \in DOMAIN generations \cup {c.lib} |->
                        IF e \in DOMAIN generations THEN generations[e] ELSE GenerationRow(c.lib, c.ctx)]
  BY DEF CommitTransaction, EpochOf
<1>4. projections' = [e \in DOMAIN projections \cup {c.lib} |->
                        IF e \in DOMAIN projections THEN projections[e] ELSE ProjectionsOf(c.lib)]
  BY DEF CommitTransaction, EpochOf
<1>5. generations'[c.lib] = GenerationRow(c.lib, c.ctx)
  BY <1>1, <1>3 DEF Claims
<1>6. \A e \in DOMAIN projections : projections[e] = ProjectionsOf(e)
  BY DEF HighwayInv, Stored
<1>7. \A e \in DOMAIN projections' : projections'[e] = ProjectionsOf(e)
  BY <1>4, <1>6
<1> QED BY <1>1, <1>2, <1>3, <1>4, <1>5, <1>7

LEMMA NewEnds ==
    ASSUME NamesAssumption, HighwayInv, NEW b \in Sessions, CommitTransaction(b), ~call[b].replayed
    PROVE  HighwayInv'
<1> DEFINE c == call[b]
           row == [epoch |-> c.lib, expected |-> c.ctx.numeric, context |-> c.ctx,
                   activation |-> FinalReceipt(c.lib, c.ctx, c.sequence)]
<1>w. /\ pc[b] = "end" /\ CallShape(c) /\ Claims(c) /\ Continues(b, c)
      /\ events' = Append(events, row)
      /\ DOMAIN generations' = DOMAIN generations \cup {c.lib}
      /\ \A e \in DOMAIN generations : generations'[e] = generations[e]
      /\ generations'[c.lib] = GenerationRow(c.lib, c.ctx)
      /\ DOMAIN projections' = DOMAIN projections \cup {c.lib}
      /\ \A e \in DOMAIN projections' : projections'[e] = ProjectionsOf(e)
  BY Writes
<1>k. /\ control'.sequence = c.sequence /\ control'.active /\ control'.epoch = c.lib
      /\ control'.activation = FinalReceipt(c.lib, c.ctx, c.sequence)
  <2>1. control' = [sequence |-> c.sequence, active |-> TRUE, epoch |-> c.lib,
                    admission |-> AdmissionReceipt(c.lib, c.ctx),
                    activation |-> FinalReceipt(c.lib, c.ctx, c.sequence)]
    BY Writes
  <2> QED BY <2>1
<1>r. row \in HighwayEvents
  BY <1>w DEF HighwayEvents, CallShape
<1>e. /\ events \in Seq(HighwayEvents) /\ events' \in Seq(HighwayEvents)
      /\ Len(events') = Len(events) + 1 /\ DOMAIN events' = 1 .. (Len(events) + 1)
      /\ DOMAIN events = 1 .. Len(events) /\ Len(events) \in Nat
      /\ events'[Len(events) + 1] = row
      /\ \A n \in DOMAIN events : events'[n] = events[n]
  <2>1. events \in Seq(HighwayEvents)
    BY DEF HighwayInv, Chained
  <2> HIDE DEF row
  <2> QED BY <2>1, <1>w, <1>r
<1>n. c.sequence = Len(events) + 1
  BY <1>w DEF Continues, HighwayInv, Chained, ChainIsContiguous
<1>g. Grows
  BY <1>e, <1>w DEF Grows
<1>1. Chained'
  <2>1. \A n \in 2 .. Len(events') : events'[n].expected = events'[n - 1].epoch
    <3> SUFFICES ASSUME NEW n \in 2 .. (Len(events) + 1) PROVE events'[n].expected = events'[n - 1].epoch
      BY <1>e
    <3>1. CASE n \in 2 .. Len(events)
      <4>1. n \in DOMAIN events /\ n - 1 \in DOMAIN events
        BY <3>1, <1>e
      <4>2. events[n].expected = events[n - 1].epoch
        BY <3>1 DEF HighwayInv, Chained, ChainIsContiguous
      <4> QED BY <1>e, <4>1, <4>2
    <3>2. CASE n = Len(events) + 1
      <4>1. Len(events) >= 1 /\ events'[n - 1] = events[Len(events)]
        BY <3>2, <1>e
      <4>2. control.active /\ control.epoch = events[Len(events)].epoch
        BY <4>1, <1>e DEF HighwayInv, Chained, ChainIsContiguous
      <4> QED BY <3>2, <4>1, <4>2, <1>e, <1>w DEF Continues
    <3> QED BY <3>1, <3>2, <1>e
  <2>2. events' # <<>>
    BY <1>e
  <2> QED BY <2>1, <2>2, <1>e, <1>k, <1>n DEF Chained, ChainIsContiguous, HighwayEvents, FinalReceipt, AdmissionReceipt
<1>2. Stored'
  <2>1. \A n \in DOMAIN events' : /\ events'[n].epoch \in DOMAIN generations'
                                  /\ generations'[events'[n].epoch] = GenerationRow(events'[n].epoch, events'[n].context)
    <3> SUFFICES ASSUME NEW n \in 1 .. (Len(events) + 1)
                 PROVE  /\ events'[n].epoch \in DOMAIN generations'
                        /\ generations'[events'[n].epoch] = GenerationRow(events'[n].epoch, events'[n].context)
      BY <1>e
    <3>1. CASE n \in DOMAIN events
      BY <3>1, <1>e, <1>w DEF HighwayInv, Stored
    <3>2. CASE n = Len(events) + 1
      BY <3>2, <1>e, <1>w
    <3> QED BY <3>1, <3>2, <1>e
  <2>2. DOMAIN projections = DOMAIN generations
    BY DEF HighwayInv, Stored
  <2> QED BY <2>1, <2>2, <1>w DEF Stored, GenerationRow, ProjectionsOf
<1>3. ASSUME NEW o \in Sessions, o # b PROVE CallOf(o)'
  <2>1. CallOf(o)
    BY DEF HighwayInv, Calls
  <2>2. ~(pc[o] = "end" /\ ~call[o].replayed)
    BY <2>1, <1>3, <1>w DEF CallOf, Continues
  <2>3. pc'[o] = pc[o] /\ call'[o] = call[o]
    BY <1>3 DEF HighwayInv, Calls, CommitTransaction, EndCall
  <2>4. pc[o] \in {"commit", "end"} /\ ~call[o].replayed /\ call[o].lib \notin DOMAIN generations
          => call[o].lib # c.lib
    <3> SUFFICES ASSUME pc[o] = "commit", call[o].lib \notin DOMAIN generations, call[o].lib = c.lib
                 PROVE  FALSE
      BY <2>2
    <3>1. CallShape(call[o]) /\ Claims(call[o])
      BY <2>1 DEF CallOf
    <3>2. call[o].generation = c.lib /\ c.generation = c.lib /\ c.lib # None
      BY <3>1, <1>w DEF Claims, CallShape, NamesAssumption
    <3>3. Written(o) = c.lib /\ Written(b) = c.lib
      BY <3>1, <3>2, <1>w, CallIsSomething DEF Written
    <3> QED BY <3>2, <3>3, <1>3 DEF HighwayInv, Apart
  <2> QED BY <1>g, <1>w, <2>1, <2>2, <2>3, <2>4, OthersKept
<1>4. CallOf(b)' /\ Written(b)' = None
  BY DEF HighwayInv, Calls, CommitTransaction, EndCall, CallOf, Written
<1>5. Calls'
  <2>1. DOMAIN pc' = Sessions /\ DOMAIN call' = Sessions
    BY DEF HighwayInv, Calls, CommitTransaction, EndCall
  <2> QED BY <2>1, <1>3, <1>4 DEF Calls
<1>6. Apart'
  <2>1. \A o \in Sessions : o # b => Written(o)' = Written(o)
    BY DEF HighwayInv, Calls, CommitTransaction, EndCall, Written
  <2> QED BY <2>1, <1>4 DEF HighwayInv, Apart
<1>7. AnswerIsAnEvent'
  <2>1. answer'.lib = c.lib /\ answer'.context = c.ctx /\ answer'.sequence = c.sequence
    BY DEF CommitTransaction, EndCall
  <2>2. c.sequence \in DOMAIN events' /\ events'[c.sequence] = row
    BY <1>e, <1>n
  <2> QED BY <2>1, <2>2 DEF AnswerIsAnEvent
<1> QED BY <1>1, <1>2, <1>5, <1>6, <1>7 DEF HighwayInv

LEMMA StepHighway == NamesAssumption /\ HighwayInv /\ [HighwayNext]_highwayVars => HighwayInv'
<1> SUFFICES ASSUME NamesAssumption, HighwayInv, [HighwayNext]_highwayVars PROVE HighwayInv' OBVIOUS
<1>1. CASE UNCHANGED <<control, generations, projections, events, holder, pc, call, answer>>
  <2>0. Chained'
    <3>1. control' = control /\ events' = events /\ Chained
      BY <1>1 DEF HighwayInv
    <3> QED BY <3>1, SMTT(20) DEF Chained, ChainIsContiguous, HighwayEvents, FinalReceipt
  <2>1. Stored'
    BY <1>1 DEF HighwayInv, Stored, GenerationRow, ProjectionsOf
  <2>2. Calls'
    BY <1>1 DEF HighwayInv, Calls, CallOf, CallShape, Snapshot, Claims, Continues, Replays, GenerationRow
  <2>3. Apart' /\ AnswerIsAnEvent'
    BY <1>1 DEF HighwayInv, Apart, Written, AnswerIsAnEvent
  <2> QED BY <2>0, <2>1, <2>2, <2>3 DEF HighwayInv
<1>2. ASSUME NEW b \in Sessions, ActivationStep(b) \/ RollbackCall(b) PROVE HighwayInv'
  BY <1>2, LookupKeeps, PrepareKeeps, CommitActivationKeeps, ReplayEnds, NewEnds, RollbackCallKeeps DEF ActivationStep
<1>3. ASSUME NEW b \in Sessions, NEW lib \in Libraries, NEW ctx \in CallContexts,
             StartActivate(b, lib, ctx) \/ Resolve(b, lib, ctx)
      PROVE  HighwayInv'
  BY <1>3, StartKeeps, ResolveKeeps
<1> QED BY <1>1, <1>2, <1>3 DEF HighwayNext, PerfcacheMoves, highwayVars

-----------------------------------------------------------------------------
(* Theorems.                                                               *)

LEMMA HighwayInvariant == NamesAssumption => (HighwaySpec => []HighwayInv)
<1> SUFFICES ASSUME NamesAssumption PROVE HighwaySpec => []HighwayInv OBVIOUS
<1>1. HighwayInv /\ [HighwayNext]_highwayVars => HighwayInv'
  BY StepHighway
<1> QED BY <1>1, InitHighway, PTL DEF HighwaySpec

\* The activation events are one chain without gaps, whose last is the control
\* row, however activations interleave (highway_activation_commit).
THEOREM EventsAreAChain == NamesAssumption => (HighwaySpec => []ChainIsContiguous)
<1>1. HighwayInv => ChainIsContiguous
  BY DEF HighwayInv, Chained
<1> QED BY <1>1, HighwayInvariant, PTL

\* A registry is only ever activated from one context, so a registry that returns
\* cannot fool the comparison of epochs (highway_activation_prepare).
THEOREM OneContextPerRegistry == NamesAssumption => (HighwaySpec => []ActivatedFromOneContext)
<1>1. HighwayInv => ActivatedFromOneContext
  BY RowsDiffer DEF HighwayInv, Stored, ActivatedFromOneContext
<1> QED BY <1>1, HighwayInvariant, PTL

\* Every registry an event names has its row and exactly its projections
\* (highway_activation_prepare, load_active_registry).
THEOREM ActivatedIsResolvable == NamesAssumption => (HighwaySpec => []ActiveIsComplete)
<1>1. HighwayInv => ActiveIsComplete
  BY DEF HighwayInv, Stored, ActiveIsComplete, VerifyArrays, ProjectionsOf
<1> QED BY <1>1, HighwayInvariant, PTL

\* What an activation answers, replayed from an old snapshot or new, is a recorded
\* activation of the caller's registry and context (load_active_registry_replay).
THEOREM AnswersAreRecorded == NamesAssumption => (HighwaySpec => []AnswerIsAnEvent)
<1>1. HighwayInv => AnswerIsAnEvent
  BY DEF HighwayInv
<1> QED BY <1>1, HighwayInvariant, PTL

\* The four together (highway_registry_pg.c).
THEOREM HighwayIsSound == NamesAssumption => (HighwaySpec => []HighwayIsOneChain)
BY EventsAreAChain, OneContextPerRegistry, ActivatedIsResolvable, AnswersAreRecorded, PTL DEF HighwayIsOneChain

(***************************************************************************)
(* World admission.                                                        *)
(***************************************************************************)

Kinds == {"profile", "testimony", "world"}

\* The rows a call writes after its execution receipt.
RecordRows(t) == {RecordRow(t.request.kind, t.records[i]) : i \in DOMAIN t.records}
TheReceipt(t) == ReceiptRow(ReceiptTable[t.request.kind], t.request, t.records)

\* The statement a call is at, and how many of its rows are done.
Wanted(t) ==
    IF t.step = "execution" THEN <<ExecutionRow(t.request)>>
    ELSE IF t.step = "records" THEN Statement(t, "records") ELSE Statement(t, "receipt")
Done(t) == Len(t.want) - Len(t.todo)

\* The records of a call are an ascending batch.
RecordsOf(t) ==
    /\ t.request.kind \in Kinds
    /\ t.records \in Seq(ToSet(t.records)) /\ t.records # <<>>
    /\ \A i \in DOMAIN t.records : t.records[i].id \in Nat
    /\ Ascending(t.records)

\* What is left of a statement is its end.
Statements(t) ==
    /\ t.want = Wanted(t)
    /\ t.want \in Seq(ToSet(t.want)) /\ t.todo \in Seq(ToSet(t.want))
    /\ Len(t.todo) <= Len(t.want)
    /\ \A j \in 1 .. Len(t.todo) : t.todo[j] = t.want[j + Done(t)]
    /\ t.step = "commit" => t.todo = <<>>

\* A call owns rows of its own making, in the order of its statements, and the
\* records it owns precede the one it is writing.
OwnedRows(t) ==
    /\ t.wrote \subseteq t.own
    /\ t.own \subseteq {ExecutionRow(t.request)} \cup RecordRows(t) \cup {TheReceipt(t)}
    /\ t.step = "execution" => t.own \subseteq {ExecutionRow(t.request)}
    /\ t.step = "execution" /\ t.todo # <<>> => t.own = {}
    /\ t.step = "records" \/ (t.step = "receipt" /\ t.todo # <<>>)
         => t.own \subseteq {ExecutionRow(t.request)} \cup RecordRows(t)
    /\ t.step = "records" /\ t.todo # <<>>
         => \A x \in t.own : Table(x) = t.request.kind => Key(x) < Key(Head(t.todo))

\* What a call has verified is stored, or its own.
VerifiedRows(t, rows) ==
    /\ t.caller \subseteq rows /\ t.snapshot \subseteq rows
    /\ t.step \in {"receipt", "commit"} => RecordRows(t) \subseteq rows \cup t.own
    /\ t.request.kind = "world" => \A i \in DOMAIN t.records : BoundIn(rows, t.records[i].admission)
    /\ t.step \in {"records", "receipt"}
         => \A i \in 1 .. Done(t) : t.want[i] \in t.own \/ Conflicts(t.want[i], rows)

\* A testimony that was refused met a different stored row.
Refusal(t, rows) ==
    t.reply = "collides" /\ Table(t.want[1]) \in {"testimony", "testimony_receipt"} =>
        \E i \in DOMAIN t.want : \E x \in rows : SameKey(t.want[i], x) /\ x # t.want[i]

CallInv(t, rows) ==
    /\ DOMAIN t = DOMAIN IdleCall
    /\ t.step \in {"idle", "execution", "records", "receipt", "commit"}
    /\ t.step = "idle" => t.own = {} /\ t.todo = <<>> /\ Refusal(t, rows)
    /\ t.step # "idle" => /\ t.reply = "none" /\ RecordsOf(t) /\ Statements(t)
                          /\ OwnedRows(t) /\ VerifiedRows(t, rows)

\* The stored receipts stand for stored rows.
StoredInv(rows) ==
    /\ \A p \in Values(rows, "profile") : p.id \in Nat
    /\ \A b \in Receipts(rows, "profile_receipt") : ToSet(b) \subseteq Values(rows, "profile")
    /\ \A b \in Receipts(rows, "testimony_receipt") :
          ToSet(b) \subseteq Values(rows, "testimony") /\ IsFiniteSet(ToSet(b))
    /\ \A r \in Values(rows, "world") : BoundIn(rows, r.admission)

WorldInv ==
    /\ DOMAIN tx = WorldSessions
    /\ StoredInv(store)
    /\ \A s \in WorldSessions : CallInv(tx[s], store)

-----------------------------------------------------------------------------

\* Rows are only added, and what held of them still holds.
LEMMA RowsGrow ==
  ASSUME NEW rows, NEW more, rows \subseteq more
  PROVE  /\ \A name : Values(rows, name) \subseteq Values(more, name)
         /\ \A name : Receipts(rows, name) \subseteq Receipts(more, name)
         /\ \A a : BoundIn(rows, a) => BoundIn(more, a)
         /\ \A r : Conflicts(r, rows) => Conflicts(r, more)
<1>1. \A name : Values(rows, name) \subseteq Values(more, name)
  BY DEF Values, Rows
<1>2. \A name : Receipts(rows, name) \subseteq Receipts(more, name)
  BY DEF Receipts, Rows
<1>3. ASSUME NEW a, BoundIn(rows, a) PROVE BoundIn(more, a)
  BY <1>1, <1>2, <1>3 DEF BoundIn
<1>4. \A r : Conflicts(r, rows) => Conflicts(r, more)
  BY DEF Conflicts
<1> QED BY <1>1, <1>2, <1>3, <1>4

LEMMA CallKeeps ==
  ASSUME NEW t, NEW rows, NEW more, rows \subseteq more, CallInv(t, rows)
  PROVE  CallInv(t, more)
<1>1. t.step = "idle" => Refusal(t, more)
  BY DEF CallInv, Refusal
<1>2. t.step # "idle" => VerifiedRows(t, more)
  BY RowsGrow DEF CallInv, VerifiedRows
<1> QED BY <1>1, <1>2 DEF CallInv

\* A step of one session that only adds rows.
LEMMA OneCallMoves ==
  ASSUME WorldInv, NEW s \in WorldSessions, NEW t, tx' = [tx EXCEPT ![s] = t],
         store \subseteq store', StoredInv(store'), CallInv(t, store')
  PROVE  WorldInv'
<1>1. DOMAIN tx' = WorldSessions
  BY DEF WorldInv
<1>2. ASSUME NEW o \in WorldSessions PROVE CallInv(tx'[o], store')
  <2>1. CASE o = s
    <3>1. tx'[o] = t
      BY <2>1 DEF WorldInv
    <3> QED BY <3>1
  <2>2. CASE o # s
    <3>1. tx'[o] = tx[o] /\ CallInv(tx[o], store)
      BY <2>2 DEF WorldInv
    <3>2. CallInv(tx[o], store')
      BY <3>1, CallKeeps
    <3> QED BY <3>1, <3>2
  <2> QED BY <2>1, <2>2
<1> QED BY <1>1, <1>2 DEF WorldInv, CallInv, StoredInv, Refusal, RecordsOf, Statements, OwnedRows, VerifiedRows,
        BoundIn, Conflicts, SameKey, Values, Receipts, Rows, RecordRows, TheReceipt, Wanted, Done, Statement,
        IdleCall, Ascending, Table, Key, RecordRow, ReceiptRow, ExecutionRow, ReceiptTable, Kinds, Testimonies

\* What the joins of derive_sql find, and validate_record accepts, is bound.
LEMMA DerivedIsBound ==
  ASSUME WorldAssumption, NEW rows, StoredInv(rows), NEW w, NEW a \in Components(rows, w), ValidateRecord(a)
  PROVE  BoundIn(rows, a) /\ AdmissionId(a) \in Nat
<1>1. PICK p \in Values(rows, "profile"), c \in Compositions :
        /\ a = [profile |-> p, profileReceipt |-> w.profileReceipt, recipe |-> w.recipe, composition |-> c,
                lineage |-> w.lineage, testimony |-> w.testimony]
        /\ w.profileReceipt \in Receipts(rows, "profile_receipt")
        /\ p.count["claims"] = 0 => w.testimony = NoReceipt
        /\ p.count["claims"] # 0 => w.testimony \in Receipts(rows, "testimony_receipt")
  BY DEF Components
<1>2. /\ a.profile = p /\ a.profileReceipt = w.profileReceipt /\ a.composition = c /\ a.testimony = w.testimony
      /\ a.composition.rank \in Nat /\ a.profile.id \in Nat
  BY <1>1 DEF WorldAssumption, StoredInv
<1>3. ToSet(a.profileReceipt) \subseteq Values(rows, "profile")
  BY <1>1, <1>2 DEF StoredInv
<1>4. IsFiniteSet(Testimonies(a)) /\ Testimonies(a) \subseteq Values(rows, "testimony")
  <2>1. CASE a.testimony = NoReceipt
    BY <2>1, FS_EmptySet DEF Testimonies
  <2>2. CASE a.testimony # NoReceipt
    BY <2>2, <1>1, <1>2 DEF Testimonies, StoredInv
  <2> QED BY <2>1, <2>2
<1>5. OfProfile(a) = Testimonies(a) /\ OfRecipe(a) = Testimonies(a) /\ OfLineage(a) = Testimonies(a)
  <2>1. /\ OfProfile(a) \in SUBSET Testimonies(a) /\ OfRecipe(a) \in SUBSET Testimonies(a)
        /\ OfLineage(a) \in SUBSET Testimonies(a)
    BY DEF OfProfile, OfRecipe, OfLineage
  <2>2. /\ Cardinality(OfProfile(a)) = Cardinality(Testimonies(a))
        /\ Cardinality(OfRecipe(a)) = Cardinality(Testimonies(a))
        /\ Cardinality(OfLineage(a)) = Cardinality(Testimonies(a))
    BY DEF ValidateRecord
  <2> QED BY <2>1, <2>2, <1>4, FS_Subset
<1>6. \A t \in Testimonies(a) :
        /\ t.profile = a.profile.id /\ t.recipe = a.recipe /\ t.node \in a.lineage
        /\ OccurrenceOf[t.node] \in a.composition.occurrences
  BY <1>5 DEF OfProfile, OfRecipe, OfLineage
<1>7. Cardinality(Testimonies(a)) = a.profile.count["claims"]
  BY DEF ValidateRecord
<1>8. AdmissionId(a) \in Nat
  BY <1>2 DEF AdmissionId
<1> QED BY <1>1, <1>2, <1>3, <1>4, <1>6, <1>7, <1>8 DEF BoundIn

\* The records of a call that is not refused.
LEMMA RecordsAreSound ==
  ASSUME WorldAssumption, StoredInv(store), NEW q, q.kind \in Kinds, q.batch \in Batches[q.kind],
         Records(q) # <<>>
  PROVE  /\ Records(q) \in Seq(ToSet(Records(q)))
         /\ \A i \in DOMAIN Records(q) : Records(q)[i].id \in Nat
         /\ Ascending(Records(q))
         /\ q.kind = "world" => \A i \in DOMAIN Records(q) : BoundIn(store, Records(q)[i].admission)
<1>1. CASE q.kind = "profile"
  <2>1. Records(q) = q.batch /\ Ascending(q.batch)
    BY <1>1 DEF Records, ValidateBatch
  <2>2. q.batch \in ProfileBatches
    BY <1>1 DEF Batches
  <2>3. q.batch \in Seq(ToSet(q.batch)) /\ \A r \in ToSet(q.batch) : r.id \in Nat
    BY <2>2 DEF WorldAssumption
  <2>4. \A i \in DOMAIN q.batch : q.batch[i] \in ToSet(q.batch)
    BY <2>3
  <2> QED BY <1>1, <2>1, <2>3, <2>4
<1>2. CASE q.kind = "testimony"
  <2>1. Records(q) = q.batch /\ Ascending(q.batch)
    BY <1>2 DEF Records, RecordTestimonyBatch
  <2>2. q.batch \in TestimonyBatches
    BY <1>2 DEF Batches
  <2>3. q.batch \in Seq(ToSet(q.batch)) /\ \A r \in ToSet(q.batch) : r.id \in Nat
    BY <2>2 DEF WorldAssumption
  <2>4. \A i \in DOMAIN q.batch : q.batch[i] \in ToSet(q.batch)
    BY <2>3
  <2> QED BY <1>2, <2>1, <2>3, <2>4
<1>3. CASE q.kind = "world"
  <2> DEFINE r == DeriveDurableRecords(store, q.batch)
             Chosen(i) == CHOOSE x \in Components(store, q.batch[i]) : TRUE
  <2>1. Records(q) = r /\ r # <<>> /\ Ascending(r)
    BY <1>3 DEF Records, CloseBatch
  <2>2. q.batch \in Seq(ToSet(q.batch))
    BY <1>3 DEF Batches, WorldAssumption
  <2>3. /\ \A i \in DOMAIN q.batch : /\ Cardinality(Components(store, q.batch[i])) = 1
                                     /\ \A a \in Components(store, q.batch[i]) : ValidateRecord(a)
        /\ r = [i \in DOMAIN q.batch |-> [id |-> AdmissionId(Chosen(i)), boundary |-> Chosen(i).profile.boundary,
                                          admission |-> Chosen(i)]]
    BY <2>1 DEF DeriveDurableRecords
  <2>4. ASSUME NEW i \in DOMAIN q.batch
        PROVE  BoundIn(store, Chosen(i)) /\ AdmissionId(Chosen(i)) \in Nat
    <3>1. Components(store, q.batch[i]) # {}
      <4> DEFINE found == Components(store, q.batch[i])
      <4>1. Cardinality(found) = 1
        BY <2>3
      <4>2. found = {} => Cardinality(found) = 0
        BY FS_EmptySet
      <4> HIDE DEF found
      <4>3. found # {}
        BY <4>1, <4>2
      <4> QED BY <4>3 DEF found
    <3>2. Chosen(i) \in Components(store, q.batch[i])
      BY <3>1
    <3>3. ValidateRecord(Chosen(i))
      BY <3>2, <2>3
    <3> HIDE DEF Chosen
    <3> QED BY <3>2, <3>3, DerivedIsBound
  <2> HIDE DEF Chosen
  <2>5. /\ DOMAIN r = 1 .. Len(q.batch) /\ Len(q.batch) \in Nat
        /\ \A i \in DOMAIN r : r[i].id \in Nat /\ BoundIn(store, r[i].admission)
    BY <2>2, <2>3, <2>4
  <2> HIDE DEF r
  <2>6. r \in Seq(ToSet(r))
    <3>1. \A i \in 1 .. Len(q.batch) : r[i] \in ToSet(r)
      BY <2>5 DEF ToSet
    <3>2. r = [i \in 1 .. Len(q.batch) |-> r[i]]
      BY <2>3, <2>2 DEF r
    <3> QED BY <3>1, <3>2, <2>5
  <2> QED BY <2>1, <2>5, <2>6
<1> QED BY <1>1, <1>2, <1>3 DEF Kinds

LEMMA CallStarts ==
  ASSUME WorldAssumption, WorldInv, NEW s \in WorldSessions, Call(s)
  PROVE  WorldInv'
<1>0. PICK kind \in DOMAIN Batches, context \in Contexts : \E batch \in Batches[kind] :
        LET q == [kind |-> kind, context |-> context, batch |-> batch]
            t == [IdleCall EXCEPT !.request = q, !.records = Records(q), !.caller = store]
        IN tx' = [tx EXCEPT ![s] = IF t.records = <<>> THEN [IdleCall EXCEPT !.reply = "refused"]
                                   ELSE Begin(t, "execution", <<ExecutionRow(q)>>)]
  BY DEF Call
<1>1. PICK batch \in Batches[kind] :
        LET q == [kind |-> kind, context |-> context, batch |-> batch]
            t == [IdleCall EXCEPT !.request = q, !.records = Records(q), !.caller = store]
        IN tx' = [tx EXCEPT ![s] = IF t.records = <<>> THEN [IdleCall EXCEPT !.reply = "refused"]
                                   ELSE Begin(t, "execution", <<ExecutionRow(q)>>)]
  BY <1>0
<1> DEFINE q == [kind |-> kind, context |-> context, batch |-> batch]
           u == [IdleCall EXCEPT !.request = q, !.records = Records(q), !.caller = store]
           t == Begin(u, "execution", <<ExecutionRow(q)>>)
           refused == [IdleCall EXCEPT !.reply = "refused"]
<1>2. q.kind = kind /\ q.batch = batch /\ q.kind \in Kinds /\ q.batch \in Batches[q.kind]
  BY DEF Batches, Kinds
<1>3. store' = store /\ StoredInv(store) /\ StoredInv(store')
  BY DEF Call, WorldInv
<1>4. CASE u.records = <<>>
  <2>1. tx' = [tx EXCEPT ![s] = refused]
    BY <1>1, <1>4
  <2>2. CallInv(refused, store')
    BY DEF CallInv, IdleCall, Refusal
  <2> HIDE DEF refused
  <2> QED BY <2>1, <2>2, <1>3, OneCallMoves
<1>5. CASE u.records # <<>>
  <2>1. tx' = [tx EXCEPT ![s] = t]
    BY <1>1, <1>5
  <2>2. u.records = Records(q) /\ Records(q) # <<>>
    BY <1>5 DEF IdleCall
  <2> HIDE DEF q
  <2>3. /\ Records(q) \in Seq(ToSet(Records(q)))
        /\ \A i \in DOMAIN Records(q) : Records(q)[i].id \in Nat
        /\ Ascending(Records(q))
        /\ q.kind = "world" => \A i \in DOMAIN Records(q) : BoundIn(store, Records(q)[i].admission)
    BY <1>2, <1>3, <2>2, RecordsAreSound
  <2>4. /\ DOMAIN t = DOMAIN IdleCall /\ t.step = "execution" /\ t.reply = "none"
        /\ t.request = q /\ t.records = Records(q)
        /\ t.want = <<ExecutionRow(q)>> /\ t.todo = <<ExecutionRow(q)>>
        /\ t.own = {} /\ t.wrote = {} /\ t.caller = store /\ t.snapshot = store
    BY DEF Begin, IdleCall
  <2> HIDE DEF t
  <2>5. RecordsOf(t)
    BY <1>2, <2>2, <2>3, <2>4 DEF RecordsOf
  <2>6. Statements(t)
    <3>1. <<ExecutionRow(q)>> \in Seq(ToSet(<<ExecutionRow(q)>>))
      BY DEF ToSet
    <3> QED BY <2>4, <3>1 DEF Statements, Wanted, Done
  <2>7. OwnedRows(t)
    BY <2>4 DEF OwnedRows
  <2>8. VerifiedRows(t, store')
    BY <1>3, <2>3, <2>4 DEF VerifiedRows
  <2>9. CallInv(t, store')
    BY <2>4, <2>5, <2>6, <2>7, <2>8 DEF CallInv
  <2> QED BY <2>1, <2>9, <1>3, OneCallMoves
<1> QED BY <1>4, <1>5

LEMMA Counts ==
  ASSUME NEW n \in Nat \ {0}, NEW m \in Nat, n <= m
  PROVE  m - n \in Nat /\ (m - n) + 1 \in 1 .. m /\ 1 + (m - n) = (m - n) + 1 /\ (m = 1 => n = 1 /\ (m - n) + 1 = 1)
OBVIOUS

LEMMA MoreCounts ==
  ASSUME NEW d \in Nat, NEW n \in Nat, NEW m \in Nat, n >= 1, d + 1 = m - n
  PROVE  d + 2 \in 1 .. m
OBVIOUS

\* The row a call is writing, and its table.
LEMMA NextRow ==
  ASSUME NEW t, NEW rows, CallInv(t, rows), t.todo # <<>>
  PROVE  /\ t.step \in {"execution", "records", "receipt"}
         /\ Len(t.todo) \in Nat \ {0} /\ Done(t) \in Nat /\ Done(t) + 1 \in 1 .. Len(t.want)
         /\ Len(t.want) \in Nat
         /\ Head(t.todo) = t.want[Done(t) + 1]
         /\ t.step = "execution" => Head(t.todo) = ExecutionRow(t.request) /\ Len(t.todo) = 1
         /\ t.step = "records" => /\ Len(t.want) = Len(t.records)
                                  /\ Done(t) + 1 \in DOMAIN t.records
                                  /\ Head(t.todo) = RecordRow(t.request.kind, t.records[Done(t) + 1])
         /\ t.step = "receipt" => Head(t.todo) = TheReceipt(t) /\ Len(t.todo) = 1
<1>1. t.step # "idle" /\ Statements(t) /\ RecordsOf(t)
  BY DEF CallInv
<1>2. t.step \in {"execution", "records", "receipt"}
  BY <1>1 DEF CallInv, Statements
<1>3. /\ Len(t.todo) \in Nat \ {0} /\ Len(t.want) \in Nat /\ Done(t) \in Nat /\ Done(t) + 1 \in 1 .. Len(t.want)
      /\ Len(t.todo) <= Len(t.want)
      /\ Head(t.todo) = t.want[Done(t) + 1]
  <2>1. t.todo \in Seq(ToSet(t.want)) /\ t.want \in Seq(ToSet(t.want)) /\ Len(t.todo) <= Len(t.want)
    BY <1>1 DEF Statements
  <2>2. Len(t.todo) \in Nat \ {0} /\ Len(t.want) \in Nat
    BY <2>1
  <2>3. Head(t.todo) = t.todo[1]
    BY <2>1
  <2>4. 1 \in 1 .. Len(t.todo)
    BY <2>2
  <2>5. t.todo[1] = t.want[1 + Done(t)]
    BY <2>4, <1>1 DEF Statements
  <2>6. Done(t) \in Nat /\ Done(t) + 1 \in 1 .. Len(t.want) /\ 1 + Done(t) = Done(t) + 1
    BY <2>1, <2>2, Counts DEF Done
  <2> QED BY <2>1, <2>2, <2>3, <2>5, <2>6
<1>4. CASE t.step = "execution"
  <2>1. t.want = <<ExecutionRow(t.request)>>
    BY <1>1, <1>4 DEF Statements, Wanted
  <2>2. Len(t.want) = 1 /\ t.want[1] = ExecutionRow(t.request)
    BY <2>1
  <2>3. Len(t.todo) = 1 /\ Done(t) + 1 = 1
    BY <2>2, <1>3, Counts DEF Done
  <2> QED BY <2>2, <2>3, <1>2, <1>3, <1>4
<1>5. CASE t.step = "receipt"
  <2>1. t.want = <<TheReceipt(t)>>
    BY <1>1, <1>5 DEF Statements, Wanted, Statement, TheReceipt
  <2>2. Len(t.want) = 1 /\ t.want[1] = TheReceipt(t)
    BY <2>1
  <2>3. Len(t.todo) = 1 /\ Done(t) + 1 = 1
    BY <2>2, <1>3, Counts DEF Done
  <2> QED BY <2>2, <2>3, <1>2, <1>3, <1>5
<1>6. CASE t.step = "records"
  <2>1. t.want = [i \in DOMAIN t.records |-> RecordRow(t.request.kind, t.records[i])]
    BY <1>1, <1>6 DEF Statements, Wanted, Statement
  <2>2. t.records \in Seq(ToSet(t.records)) /\ DOMAIN t.records = 1 .. Len(t.records) /\ Len(t.records) \in Nat
    BY <1>1 DEF RecordsOf
  <2>3. DOMAIN t.want = 1 .. Len(t.records) /\ t.want \in Seq(ToSet(t.want))
    BY <1>1, <2>1, <2>2 DEF Statements
  <2>4. Len(t.want) = Len(t.records)
    BY <2>2, <2>3, <1>3
  <2> QED BY <2>1, <2>2, <2>4, <1>2, <1>3, <1>6
<1> QED BY <1>2, <1>4, <1>5, <1>6

\* The tables of a call's rows are three different ones.
LEMMA TablesDiffer ==
  ASSUME NEW t, t.request.kind \in Kinds
  PROVE  /\ Table(ExecutionRow(t.request)) = "execution"
         /\ \A x \in RecordRows(t) : Table(x) = t.request.kind
         /\ Table(TheReceipt(t)) = ReceiptTable[t.request.kind]
         /\ ReceiptTable[t.request.kind] \in {"profile_receipt", "testimony_receipt", "world_receipt"}
         /\ t.request.kind # "execution" /\ ReceiptTable[t.request.kind] # "execution"
         /\ ReceiptTable[t.request.kind] # t.request.kind
BY DEF Table, ExecutionRow, RecordRows, RecordRow, TheReceipt, ReceiptRow, ReceiptTable, Kinds

LEMMA RowIsWritten ==
  ASSUME WorldInv, NEW s \in WorldSessions, WriteRow(s)
  PROVE  WorldInv'
<1> DEFINE u == tx[s]
           r == Head(u.todo)
           new == IF Conflicts(r, store \cup u.own) THEN {} ELSE {r}
           t == [u EXCEPT !.todo = Tail(u.todo), !.own = u.own \cup new, !.wrote = u.wrote \cup new]
<1>1. store' = store /\ StoredInv(store') /\ CallInv(u, store) /\ u.todo # <<>>
  BY DEF WriteRow, WorldInv
<1>2. tx' = [tx EXCEPT ![s] = t]
  BY DEF WriteRow, WorldInv
<1>3. /\ u.step \in {"execution", "records", "receipt"} /\ u.step # "idle" /\ u.step # "commit"
      /\ RecordsOf(u) /\ Statements(u) /\ OwnedRows(u) /\ VerifiedRows(u, store)
      /\ DOMAIN u = DOMAIN IdleCall /\ u.reply = "none"
  BY <1>1, NextRow DEF CallInv
<1> HIDE DEF u
<1>4. /\ Len(u.todo) \in Nat \ {0} /\ Done(u) \in Nat /\ Done(u) + 1 \in 1 .. Len(u.want) /\ Len(u.want) \in Nat
      /\ r = u.want[Done(u) + 1]
      /\ u.step = "execution" => r = ExecutionRow(u.request) /\ Len(u.todo) = 1
      /\ u.step = "records" => /\ Len(u.want) = Len(u.records)
                               /\ Done(u) + 1 \in DOMAIN u.records
                               /\ r = RecordRow(u.request.kind, u.records[Done(u) + 1])
      /\ u.step = "receipt" => r = TheReceipt(u) /\ Len(u.todo) = 1
  BY <1>1, NextRow
<1>5. new \subseteq {r} /\ (~Conflicts(r, store \cup u.own) => r \in new)
  OBVIOUS
<1>6. /\ DOMAIN t = DOMAIN IdleCall /\ t.step = u.step /\ t.reply = "none" /\ t.request = u.request
      /\ t.records = u.records /\ t.want = u.want /\ t.todo = Tail(u.todo) /\ t.own = u.own \cup new
      /\ t.wrote = u.wrote \cup new /\ t.caller = u.caller /\ t.snapshot = u.snapshot
  BY <1>3 DEF IdleCall
<1> HIDE DEF t, new
<1>7. /\ t.todo \in Seq(ToSet(u.want)) /\ Len(t.todo) \in Nat /\ Len(t.todo) = Len(u.todo) - 1
      /\ \A j \in 1 .. Len(t.todo) : t.todo[j] = u.todo[j + 1]
  BY <1>3, <1>4, <1>6 DEF Statements
<1>8. Done(t) = Done(u) + 1
  <2>1. Done(t) = Len(u.want) - Len(t.todo) /\ Done(u) = Len(u.want) - Len(u.todo)
    BY <1>6 DEF Done
  <2> QED BY <2>1, <1>4, <1>7
<1>9. RecordsOf(t)
  BY <1>3, <1>6 DEF RecordsOf
<1>10. Statements(t)
  <2>1. t.want = Wanted(t)
    BY <1>3, <1>6 DEF Statements, Wanted, Statement
  <2>2. Len(t.todo) <= Len(t.want)
    BY <1>3, <1>4, <1>6, <1>7 DEF Statements
  <2>3. ASSUME NEW j \in 1 .. Len(t.todo) PROVE t.todo[j] = t.want[j + Done(t)]
    <3>1. j + 1 \in 1 .. Len(u.todo) /\ t.todo[j] = u.todo[j + 1]
      BY <1>4, <1>7
    <3>2. u.todo[j + 1] = u.want[(j + 1) + Done(u)]
      BY <3>1, <1>3 DEF Statements
    <3>3. (j + 1) + Done(u) = j + Done(t)
      BY <1>4, <1>8
    <3> QED BY <3>1, <3>2, <3>3, <1>6
  <2> QED BY <2>1, <2>2, <2>3, <1>3, <1>6, <1>7 DEF Statements
<1>11. RecordRows(t) = RecordRows(u) /\ TheReceipt(t) = TheReceipt(u) /\ ExecutionRow(t.request) = ExecutionRow(u.request)
  BY <1>6 DEF RecordRows, TheReceipt
<1>12. u.step = "records" => r \in RecordRows(u)
  BY <1>4 DEF RecordRows
<1>13. u.request.kind \in Kinds
  BY <1>3 DEF RecordsOf
<1>14. u.step = "records" => /\ \A x \in u.own : Table(x) = u.request.kind => Key(x) < Key(r)
                             /\ \A x \in u.own : Table(x) = u.request.kind => Key(x) \in Nat
                             /\ Key(r) = u.records[Done(u) + 1].id /\ Key(r) \in Nat /\ Table(r) = u.request.kind
  <2>1. SUFFICES ASSUME u.step = "records" PROVE
           /\ \A x \in u.own : Table(x) = u.request.kind => Key(x) < Key(r)
           /\ \A x \in u.own : Table(x) = u.request.kind => Key(x) \in Nat
           /\ Key(r) = u.records[Done(u) + 1].id /\ Key(r) \in Nat /\ Table(r) = u.request.kind
    OBVIOUS
  <2>2. \A x \in u.own : Table(x) = u.request.kind => Key(x) < Key(r)
    BY <2>1, <1>1, <1>3 DEF OwnedRows
  <2>3. \A x \in RecordRows(u) : Key(x) \in Nat
    BY <1>3 DEF RecordRows, RecordRow, Key, RecordsOf
  <2>4. \A x \in u.own : Table(x) = u.request.kind => x \in RecordRows(u)
    BY <2>1, <1>3, <1>13, TablesDiffer DEF OwnedRows
  <2>5. Key(r) = u.records[Done(u) + 1].id /\ Table(r) = u.request.kind
    BY <2>1, <1>4 DEF RecordRow, Key, Table
  <2> QED BY <2>1, <2>2, <2>3, <2>4, <2>5, <1>12
<1>15. t.own \subseteq {ExecutionRow(t.request)} \cup RecordRows(t) \cup {TheReceipt(t)} /\ t.wrote \subseteq t.own
  BY <1>3, <1>4, <1>5, <1>6, <1>11, <1>12 DEF OwnedRows
<1>16. t.step = "execution" => t.own \subseteq {ExecutionRow(t.request)} /\ t.todo = <<>>
  <2>1. t.step = "execution" => Len(t.todo) = 0
    BY <1>4, <1>6, <1>7
  <2>2. t.step = "execution" => t.own \subseteq {ExecutionRow(t.request)}
    BY <1>3, <1>4, <1>5, <1>6 DEF OwnedRows
  <2>3. Len(t.todo) = 0 => t.todo = <<>>
    BY <1>7
  <2> QED BY <2>1, <2>2, <2>3
<1>17. t.step = "receipt" => t.todo = <<>>
  <2>1. t.step = "receipt" => Len(t.todo) = 0
    BY <1>4, <1>6, <1>7
  <2>2. Len(t.todo) = 0 => t.todo = <<>>
    BY <1>7
  <2> QED BY <2>1, <2>2
<1>18. t.step = "records" => t.own \subseteq {ExecutionRow(t.request)} \cup RecordRows(t)
  <2>1. u.step = "records" => u.own \subseteq {ExecutionRow(u.request)} \cup RecordRows(u)
    BY <1>3 DEF OwnedRows
  <2>2. t.step = u.step /\ t.own \subseteq u.own \cup {r}
    BY <1>5, <1>6
  <2> QED BY <2>1, <2>2, <1>11, <1>12
<1>19. ASSUME t.step = "records", t.todo # <<>>, NEW x \in t.own, Table(x) = t.request.kind
       PROVE  Key(x) < Key(Head(t.todo))
  <2>1. Head(t.todo) = u.want[Done(u) + 2] /\ Done(u) + 2 \in 1 .. Len(u.want)
    <3>1. 1 \in 1 .. Len(t.todo) /\ Head(t.todo) = t.todo[1]
      BY <1>19, <1>7
    <3>2. t.todo[1] = t.want[1 + Done(t)]
      BY <3>1, <1>10 DEF Statements
    <3>3. 1 + Done(t) = Done(u) + 2
      BY <1>4, <1>8
    <3>4. Done(t) = Len(u.want) - Len(t.todo) /\ Len(t.todo) >= 1
      BY <3>1, <1>6, <1>7 DEF Done
    <3>5. Done(u) + 2 \in 1 .. Len(u.want)
      <4>1. Len(t.todo) \in Nat /\ Len(t.todo) >= 1 /\ Done(u) + 1 = Len(u.want) - Len(t.todo)
        BY <3>4, <1>7, <1>8
      <4> QED BY <4>1, <1>4, MoreCounts
    <3> QED BY <3>1, <3>2, <3>3, <3>5, <1>6
  <2>2. /\ u.step = "records" /\ Len(u.records) \in Nat /\ DOMAIN u.records = 1 .. Len(u.records)
        /\ Len(u.records) = Len(u.want)
    BY <1>3, <1>4, <1>6, <1>19 DEF RecordsOf
  <2>3. Head(t.todo) = RecordRow(u.request.kind, u.records[Done(u) + 2])
    BY <2>1, <2>2, <1>3 DEF Statements, Wanted, Statement
  <2>4. Done(u) + 1 \in 1 .. (Len(u.records) - 1) /\ (Done(u) + 1) + 1 = Done(u) + 2
    BY <2>1, <2>2, <1>4
  <2>5. u.records[Done(u) + 1].id < u.records[Done(u) + 2].id
    BY <2>4, <1>3 DEF RecordsOf, Ascending
  <2>6. u.records[Done(u) + 2].id \in Nat
    BY <2>1, <2>2, <1>3 DEF RecordsOf
  <2>7. Key(Head(t.todo)) = u.records[Done(u) + 2].id
    BY <2>3 DEF Key, RecordRow
  <2>8. x \in u.own \/ x = r
    BY <1>5, <1>6, <1>19
  <2>9. Key(x) \in Nat /\ Key(x) <= Key(r)
    BY <2>2, <2>8, <1>6, <1>14, <1>19
  <2> QED BY <2>2, <2>5, <2>6, <2>7, <2>9, <1>14
<1>20. OwnedRows(t)
  BY <1>15, <1>16, <1>17, <1>18, <1>19 DEF OwnedRows
<1>21. u.step \in {"records", "receipt"} => r \in t.own \/ Conflicts(r, store)
  <2>1. SUFFICES ASSUME u.step \in {"records", "receipt"}, NEW x \in u.own, SameKey(r, x) PROVE FALSE
    BY <1>5, <1>6 DEF Conflicts
  <2>2. Table(r) = Table(x) /\ Key(r) = Key(x)
    BY <2>1 DEF SameKey
  <2>3. CASE u.step = "records"
    BY <2>2, <2>3, <1>14
  <2>4. CASE u.step = "receipt"
    <3>1. x \in {ExecutionRow(u.request)} \cup RecordRows(u) /\ r = TheReceipt(u)
      BY <2>4, <1>1, <1>3, <1>4 DEF OwnedRows
    <3> QED BY <3>1, <2>2, <1>13, TablesDiffer
  <2> QED BY <2>1, <2>3, <2>4
<1>22. VerifiedRows(t, store')
  <2>1. t.step \in {"receipt", "commit"} => RecordRows(t) \subseteq store \cup t.own
    BY <1>3, <1>6, <1>11 DEF VerifiedRows
  <2>2. t.request.kind = "world" => \A i \in DOMAIN t.records : BoundIn(store, t.records[i].admission)
    BY <1>3, <1>6 DEF VerifiedRows
  <2>3. ASSUME t.step \in {"records", "receipt"}, NEW i \in 1 .. Done(t)
        PROVE  t.want[i] \in t.own \/ Conflicts(t.want[i], store)
    <3>1. i \in 1 .. Done(u) \/ i = Done(u) + 1
      BY <1>4, <1>8
    <3>2. CASE i = Done(u) + 1
      BY <3>2, <2>3, <1>4, <1>6, <1>21
    <3>3. CASE i \in 1 .. Done(u)
      BY <3>3, <2>3, <1>3, <1>6 DEF VerifiedRows
    <3> QED BY <3>1, <3>2, <3>3
  <2> QED BY <2>1, <2>2, <2>3, <1>1, <1>3, <1>6 DEF VerifiedRows
<1>23. CallInv(t, store')
  BY <1>3, <1>6, <1>9, <1>10, <1>20, <1>22 DEF CallInv
<1> QED BY <1>1, <1>2, <1>23, OneCallMoves

LEMMA StatementEnds ==
  ASSUME WorldInv, NEW s \in WorldSessions, Verify(s)
  PROVE  WorldInv'
<1> DEFINE u == tx[s]
           collided == [IdleCall EXCEPT !.reply = "collides", !.want = u.want]
           t == IF u.step = "execution" THEN Begin(u, "records", Statement(u, "records"))
                ELSE IF u.step = "records" THEN Begin(u, "receipt", Statement(u, "receipt"))
                ELSE [u EXCEPT !.step = "commit"]
<1>1. store' = store /\ StoredInv(store') /\ CallInv(u, store) /\ u.todo = <<>>
  BY DEF Verify, WorldInv
<1>2. /\ u.step \in {"execution", "records", "receipt"}
      /\ RecordsOf(u) /\ Statements(u) /\ OwnedRows(u) /\ VerifiedRows(u, store)
      /\ DOMAIN u = DOMAIN IdleCall /\ u.reply = "none"
  BY <1>1 DEF CallInv, Verify
<1>3. /\ ~(ToSet(u.want) \subseteq VisibleRows(u)) => tx' = [tx EXCEPT ![s] = collided]
      /\ ToSet(u.want) \subseteq VisibleRows(u) => tx' = [tx EXCEPT ![s] = t]
  BY DEF Verify, WorldInv
<1> HIDE DEF u
<1>4. u.request.kind \in Kinds /\ Len(u.want) \in Nat /\ DOMAIN u.want = 1 .. Len(u.want) /\ Done(u) = Len(u.want)
  BY <1>1, <1>2 DEF RecordsOf, Statements, Done
<1>5. ASSUME ~(ToSet(u.want) \subseteq VisibleRows(u)) PROVE WorldInv'
  <2>1. /\ DOMAIN collided = DOMAIN IdleCall /\ collided.step = "idle" /\ collided.own = {}
        /\ collided.todo = <<>> /\ collided.reply = "collides" /\ collided.want = u.want
    BY DEF IdleCall
  <2> HIDE DEF collided
  <2>2. ASSUME Table(u.want[1]) \in {"testimony", "testimony_receipt"}
        PROVE  \E i \in DOMAIN u.want : \E x \in store : SameKey(u.want[i], x) /\ x # u.want[i]
    <3>1. u.step # "execution" /\ u.request.kind = "testimony"
      <4>1. u.step = "execution" => u.want[1] = ExecutionRow(u.request)
        BY <1>2 DEF Statements, Wanted
      <4>2. u.step = "records" => u.want[1] \in RecordRows(u)
        BY <1>2 DEF Statements, Wanted, Statement, RecordRows, RecordsOf
      <4>3. u.step = "receipt" => u.want[1] = TheReceipt(u)
        BY <1>2 DEF Statements, Wanted, Statement, TheReceipt
      <4>4. \/ Table(u.want[1]) = "execution" /\ u.step = "execution"
            \/ Table(u.want[1]) = u.request.kind /\ u.step # "execution"
            \/ Table(u.want[1]) = ReceiptTable[u.request.kind] /\ u.step # "execution"
        BY <4>1, <4>2, <4>3, <1>2, <1>4, TablesDiffer
      <4> QED BY <4>4, <2>2, <1>4 DEF Kinds, ReceiptTable
    <3>2. VisibleRows(u) = store \cup u.own
      BY <3>1 DEF VisibleRows
    <3>3. PICK i \in DOMAIN u.want : u.want[i] \notin store \cup u.own
      BY <3>2, <1>5 DEF ToSet
    <3>4. Conflicts(u.want[i], store)
      BY <3>1, <3>3, <1>2, <1>4 DEF VerifiedRows
    <3> QED BY <3>3, <3>4 DEF Conflicts
  <2>3. CallInv(collided, store')
    BY <2>1, <2>2, <1>1 DEF CallInv, Refusal
  <2> QED BY <2>3, <1>1, <1>3, <1>5, OneCallMoves
<1>6. ASSUME ToSet(u.want) \subseteq VisibleRows(u) PROVE WorldInv'
  <2>1. VisibleRows(u) \subseteq store \cup u.own
    BY <1>2 DEF VisibleRows, VerifiedRows, OwnedRows
  <2>2. /\ DOMAIN t = DOMAIN IdleCall /\ t.reply = "none" /\ t.request = u.request /\ t.records = u.records
        /\ t.own = u.own /\ t.caller = u.caller /\ t.wrote \subseteq u.own
        /\ t.snapshot \subseteq store
        /\ u.step = "execution" => /\ t.step = "records" /\ t.todo = Statement(u, "records")
                                   /\ t.want = Statement(u, "records")
        /\ u.step = "records" => /\ t.step = "receipt" /\ t.todo = Statement(u, "receipt")
                                 /\ t.want = Statement(u, "receipt")
        /\ u.step = "receipt" => t.step = "commit" /\ t.todo = u.todo /\ t.want = u.want
    BY <1>2 DEF Begin, IdleCall, OwnedRows, VerifiedRows
  <2> HIDE DEF t
  <2>3. RecordsOf(t)
    BY <1>2, <2>2 DEF RecordsOf
  <2>4. /\ Statement(t, "records") = Statement(u, "records") /\ Statement(t, "receipt") = Statement(u, "receipt")
        /\ RecordRows(t) = RecordRows(u) /\ TheReceipt(t) = TheReceipt(u)
    BY <2>2 DEF Statement, RecordRows, TheReceipt
  <2>5. t.want = Wanted(t) /\ t.step \in {"records", "receipt", "commit"}
    BY <2>2, <2>4, <1>2 DEF Wanted, Statements
  <2>6. t.want \in Seq(ToSet(t.want)) /\ t.todo \in Seq(ToSet(t.want))
    <3>1. CASE u.step = "receipt"
      BY <3>1, <2>2, <1>1, <1>2 DEF Statements
    <3>2. CASE u.step = "records"
      BY <3>2, <2>2 DEF Statement, ToSet
    <3>3. CASE u.step = "execution"
      <4>1. /\ t.want = [i \in 1 .. Len(u.records) |-> RecordRow(u.request.kind, u.records[i])]
            /\ t.todo = t.want /\ Len(u.records) \in Nat
        BY <3>3, <2>2, <1>2 DEF Statement, RecordsOf
      <4>2. \A i \in 1 .. Len(u.records) : RecordRow(u.request.kind, u.records[i]) \in ToSet(t.want)
        BY <4>1 DEF ToSet
      <4> QED BY <4>1, <4>2
    <3> QED BY <3>1, <3>2, <3>3, <1>2
  <2>7. /\ Len(t.want) \in Nat
        /\ t.step = "commit" => t.todo = <<>>
        /\ t.step # "commit" => t.todo = t.want
    BY <2>2, <2>6, <1>1, <1>2
  <2>8. Len(t.todo) \in Nat /\ Len(t.todo) <= Len(t.want) /\ (t.step # "commit" => Done(t) = 0)
    BY <2>7 DEF Done
  <2>9. Statements(t)
    BY <2>5, <2>6, <2>7, <2>8 DEF Statements
  <2>10. OwnedRows(t)
    <3>1. t.own \subseteq {ExecutionRow(t.request)} \cup RecordRows(t) \cup {TheReceipt(t)} /\ t.wrote \subseteq t.own
      BY <1>2, <2>2, <2>4 DEF OwnedRows
    <3>2. t.step \in {"records", "receipt"} => t.own \subseteq {ExecutionRow(t.request)} \cup RecordRows(t)
      BY <1>2, <2>2, <2>4 DEF OwnedRows
    <3>3. t.step = "records" => \A x \in t.own : Table(x) # t.request.kind
      BY <1>2, <1>4, <2>2, TablesDiffer DEF OwnedRows
    <3> QED BY <3>1, <3>2, <3>3, <2>5 DEF OwnedRows
  <2>11. VerifiedRows(t, store')
    <3>1. t.step = "receipt" => RecordRows(t) \subseteq store \cup t.own
      <4>1. u.step = "records" => RecordRows(u) = ToSet(u.want)
        <5>1. u.step = "records" => u.want = Statement(u, "records")
          BY <1>2 DEF Statements, Wanted
        <5>2. ToSet(Statement(u, "records")) = RecordRows(u)
          BY DEF Statement, RecordRows, ToSet
        <5> QED BY <5>1, <5>2
      <4> QED BY <4>1, <1>2, <1>6, <2>1, <2>2, <2>4
    <3>2. t.step = "commit" => RecordRows(t) \subseteq store \cup t.own
      BY <1>2, <2>2, <2>4 DEF VerifiedRows
    <3>3. /\ t.caller \subseteq store /\ t.snapshot \subseteq store
          /\ t.request.kind = "world" => \A i \in DOMAIN t.records : BoundIn(store, t.records[i].admission)
      BY <1>2, <2>2 DEF VerifiedRows
    <3> QED BY <3>1, <3>2, <3>3, <1>1, <2>8 DEF VerifiedRows
  <2>12. CallInv(t, store')
    BY <2>2, <2>3, <2>5, <2>9, <2>10, <2>11 DEF CallInv
  <2> QED BY <2>12, <1>1, <1>3, <1>6, OneCallMoves
<1> QED BY <1>5, <1>6

LEMMA CallCommits ==
  ASSUME WorldInv, NEW s \in WorldSessions, CommitWorld(s)
  PROVE  WorldInv'
<1> DEFINE u == tx[s]
           t == [IdleCall EXCEPT !.reply = "done"]
           more == store \cup u.own
<1>1. store' = more /\ tx' = [tx EXCEPT ![s] = t] /\ CallInv(u, store) /\ u.step = "commit" /\ StoredInv(store)
  BY DEF CommitWorld, WorldInv
<1>2. RecordsOf(u) /\ OwnedRows(u) /\ VerifiedRows(u, store)
  BY <1>1 DEF CallInv
<1> HIDE DEF u
<1>3. store \subseteq more /\ u.request.kind \in Kinds
  BY <1>2 DEF RecordsOf
<1>4. \A x \in u.own : x = ExecutionRow(u.request) \/ x \in RecordRows(u) \/ x = TheReceipt(u)
  BY <1>2 DEF OwnedRows
<1>5. \A k \in Kinds : \A x \in Values(more, k) :
        x \in Values(store, k) \/ (k = u.request.kind /\ \E i \in DOMAIN u.records : x = u.records[i])
  <2>1. SUFFICES ASSUME NEW k \in Kinds, NEW r \in u.own, Table(r) = k
                 PROVE  k = u.request.kind /\ \E i \in DOMAIN u.records : r[3] = u.records[i]
    BY DEF Values, Rows
  <2>2. r \in RecordRows(u) /\ k = u.request.kind
    BY <2>1, <1>3, <1>4, TablesDiffer DEF Kinds
  <2> QED BY <2>2 DEF RecordRows, RecordRow
<1>6. \A name \in {"profile_receipt", "testimony_receipt"} : \A b \in Receipts(more, name) :
        b \in Receipts(store, name) \/ (name = ReceiptTable[u.request.kind] /\ b = u.records)
  <2>1. SUFFICES ASSUME NEW name \in {"profile_receipt", "testimony_receipt"}, NEW r \in u.own, Table(r) = name
                 PROVE  name = ReceiptTable[u.request.kind] /\ Key(r) = u.records
    BY DEF Receipts, Rows
  <2>2. r = TheReceipt(u) /\ name = ReceiptTable[u.request.kind]
    BY <2>1, <1>3, <1>4, TablesDiffer DEF Kinds
  <2> QED BY <2>2 DEF TheReceipt, ReceiptRow, Key
<1>7. ToSet(u.records) \subseteq Values(more, u.request.kind)
  <2>1. RecordRows(u) \subseteq more
    BY <1>1, <1>2 DEF VerifiedRows
  <2>2. ASSUME NEW i \in DOMAIN u.records PROVE u.records[i] \in Values(more, u.request.kind)
    <3> DEFINE r == RecordRow(u.request.kind, u.records[i])
    <3>1. r \in more /\ Table(r) = u.request.kind /\ r[3] = u.records[i]
      BY <2>1 DEF RecordRows, RecordRow, Table
    <3> QED BY <3>1 DEF Values, Rows
  <2> QED BY <2>2 DEF ToSet
<1>8. \A p \in Values(more, "profile") : p.id \in Nat
  BY <1>1, <1>2, <1>5 DEF StoredInv, RecordsOf, Kinds
<1>9. \A b \in Receipts(more, "profile_receipt") : ToSet(b) \subseteq Values(more, "profile")
  <2>1. "profile_receipt" = ReceiptTable[u.request.kind] => u.request.kind = "profile"
    BY <1>3 DEF ReceiptTable, Kinds
  <2>2. Values(store, "profile") \subseteq Values(more, "profile")
    BY <1>3, RowsGrow
  <2> QED BY <2>1, <2>2, <1>1, <1>6, <1>7 DEF StoredInv
<1>10. \A b \in Receipts(more, "testimony_receipt") :
          ToSet(b) \subseteq Values(more, "testimony") /\ IsFiniteSet(ToSet(b))
  <2>1. "testimony_receipt" = ReceiptTable[u.request.kind] => u.request.kind = "testimony"
    BY <1>3 DEF ReceiptTable, Kinds
  <2>2. Values(store, "testimony") \subseteq Values(more, "testimony")
    BY <1>3, RowsGrow
  <2>3. IsFiniteSet(ToSet(u.records))
    <3>1. /\ DOMAIN u.records = 1 .. Len(u.records) /\ Len(u.records) \in Nat
      BY <1>2 DEF RecordsOf
    <3>2. IsFiniteSet(1 .. Len(u.records))
      <4>1. \A n \in Nat : IsFiniteSet(1 .. n)
        BY FS_Interval
      <4> QED BY <4>1, <3>1
    <3>3. u.records \in [1 .. Len(u.records) -> ToSet(u.records)]
      BY <1>2, <3>1 DEF RecordsOf
    <3>4. \A x \in ToSet(u.records) : \E i \in 1 .. Len(u.records) : u.records[i] = x
      BY <3>1 DEF ToSet
    <3>5. u.records \in Surjection(1 .. Len(u.records), ToSet(u.records))
      BY <3>3, <3>4 DEF Surjection
    <3> QED BY <3>2, <3>5, FS_Surjection
  <2> QED BY <2>1, <2>2, <2>3, <1>1, <1>6, <1>7 DEF StoredInv
<1>11. \A r \in Values(more, "world") : BoundIn(more, r.admission)
  <2>1. \A r \in Values(more, "world") : BoundIn(store, r.admission)
    BY <1>1, <1>2, <1>5 DEF StoredInv, VerifiedRows, Kinds
  <2> QED BY <2>1, <1>3, RowsGrow
<1>12. StoredInv(store')
  BY <1>1, <1>8, <1>9, <1>10, <1>11 DEF StoredInv
<1>13. CallInv(t, store')
  BY DEF CallInv, IdleCall, Refusal
<1> HIDE DEF t
<1> QED BY <1>1, <1>3, <1>12, <1>13, OneCallMoves

LEMMA CallAborts ==
  ASSUME WorldInv, NEW s \in WorldSessions, AbortWorld(s)
  PROVE  WorldInv'
<1>1. store' = store /\ StoredInv(store') /\ tx' = [tx EXCEPT ![s] = IdleCall]
  BY DEF AbortWorld, WorldInv
<1>2. CallInv(IdleCall, store')
  BY DEF CallInv, IdleCall, Refusal
<1> QED BY <1>1, <1>2, OneCallMoves

-----------------------------------------------------------------------------

LEMMA InitWorld == WorldInit => WorldInv
<1>1. SUFFICES ASSUME WorldInit PROVE WorldInv
  OBVIOUS
<1>2. CallInv(IdleCall, store)
  BY DEF CallInv, IdleCall, Refusal
<1>3. DOMAIN tx = WorldSessions /\ \A s \in WorldSessions : tx[s] = IdleCall
  BY <1>1 DEF WorldInit
<1>4. StoredInv(store)
  BY <1>1 DEF WorldInit, StoredInv, Values, Receipts, Rows
<1> QED BY <1>2, <1>3, <1>4 DEF WorldInv

LEMMA StepWorld == WorldAssumption /\ WorldInv /\ [WorldNext]_worldVars => WorldInv'
<1>1. SUFFICES ASSUME WorldAssumption, WorldInv, [WorldNext]_worldVars PROVE WorldInv'
  OBVIOUS
<1>2. CASE UNCHANGED worldVars
  <2>1. tx' = tx /\ store' = store
    BY <1>2 DEF worldVars
  <2>2. StoredInv(store') /\ DOMAIN tx' = WorldSessions /\ \A s \in WorldSessions : CallInv(tx'[s], store')
    BY <1>1, <2>1 DEF WorldInv
  <2> QED BY <2>2 DEF WorldInv, CallInv, StoredInv, Refusal, RecordsOf, Statements, OwnedRows, VerifiedRows,
        BoundIn, Conflicts, SameKey, Values, Receipts, Rows, RecordRows, TheReceipt, Wanted, Done, Statement,
        IdleCall, Ascending, Table, Key, RecordRow, ReceiptRow, ExecutionRow, ReceiptTable, Kinds, Testimonies
<1>3. CASE WorldNext
  <2>1. PICK s \in WorldSessions : WorldStep(s)
    BY <1>3 DEF WorldNext
  <2> QED BY <2>1, <1>1, CallStarts, RowIsWritten, StatementEnds, CallCommits, CallAborts DEF WorldStep
<1> QED BY <1>1, <1>2, <1>3

\* No two sessions wait for each other.
LEMMA NobodyWaitsInACircle ==
  ASSUME WorldInv, NEW s \in WorldSessions, NEW o \in WorldSessions, WaitsFor(s, o), WaitsFor(o, s)
  PROVE  FALSE
<1> DEFINE t == tx[s]
           u == tx[o]
<1>1. /\ CallInv(t, store) /\ CallInv(u, store) /\ t.todo # <<>> /\ u.todo # <<>>
      /\ Conflicts(Head(t.todo), u.own) /\ Conflicts(Head(u.todo), t.own)
  BY DEF WorldInv, WaitsFor
<1> HIDE DEF t, u
<1>2. PICK x \in u.own : Table(Head(t.todo)) = Table(x) /\ Key(Head(t.todo)) = Key(x)
  BY <1>1 DEF Conflicts, SameKey
<1>3. PICK y \in t.own : Table(Head(u.todo)) = Table(y) /\ Key(Head(u.todo)) = Key(y)
  BY <1>1 DEF Conflicts, SameKey
<1>4. /\ t.step \in {"execution", "records", "receipt"} /\ u.step \in {"execution", "records", "receipt"}
      /\ t.step = "records" => Head(t.todo) \in RecordRows(t)
      /\ u.step = "records" => Head(u.todo) \in RecordRows(u)
      /\ t.step = "receipt" => Head(t.todo) = TheReceipt(t)
      /\ u.step = "receipt" => Head(u.todo) = TheReceipt(u)
  BY <1>1, NextRow DEF RecordRows
<1>5. /\ OwnedRows(t) /\ RecordsOf(t) /\ t.request.kind \in Kinds
      /\ OwnedRows(u) /\ RecordsOf(u) /\ u.request.kind \in Kinds
  BY <1>1, <1>4 DEF CallInv, RecordsOf
<1>6. /\ t.step # "execution" /\ t.own \subseteq {ExecutionRow(t.request)} \cup RecordRows(t)
      /\ u.step # "execution" /\ u.own \subseteq {ExecutionRow(u.request)} \cup RecordRows(u)
  BY <1>1, <1>2, <1>3, <1>4, <1>5 DEF OwnedRows
<1>7. /\ t.step = "records" => Table(Head(t.todo)) = t.request.kind
      /\ u.step = "records" => Table(Head(u.todo)) = u.request.kind
      /\ t.step = "receipt" => Table(Head(t.todo)) = ReceiptTable[t.request.kind]
      /\ u.step = "receipt" => Table(Head(u.todo)) = ReceiptTable[u.request.kind]
      /\ Table(x) \in {"execution", u.request.kind} /\ Table(y) \in {"execution", t.request.kind}
  BY <1>2, <1>3, <1>4, <1>5, <1>6, TablesDiffer
<1>8. /\ ReceiptTable[t.request.kind] \notin Kinds \cup {"execution"} /\ t.request.kind # "execution"
      /\ ReceiptTable[u.request.kind] \notin Kinds \cup {"execution"} /\ u.request.kind # "execution"
  BY <1>5 DEF Kinds, ReceiptTable
<1>9. t.step = "records" /\ u.step = "records" /\ t.request.kind = u.request.kind
      /\ Table(x) = u.request.kind /\ Table(y) = t.request.kind
  BY <1>2, <1>3, <1>4, <1>5, <1>6, <1>7, <1>8
<1>10. Key(x) < Key(Head(u.todo)) /\ Key(y) < Key(Head(t.todo))
  BY <1>1, <1>5, <1>9 DEF OwnedRows
<1>11. Key(Head(t.todo)) \in Nat /\ Key(Head(u.todo)) \in Nat
  <2>1. \A z \in RecordRows(t) : Key(z) \in Nat
    BY <1>5 DEF RecordRows, RecordRow, Key, RecordsOf
  <2>2. \A z \in RecordRows(u) : Key(z) \in Nat
    BY <1>5 DEF RecordRows, RecordRow, Key, RecordsOf
  <2> QED BY <1>4, <1>9, <2>1, <2>2
<1> QED BY <1>2, <1>3, <1>10, <1>11

\* World admission (world_admission.c, source_profile.c, evidence_testimony.c
\* and their services), for any sessions, batches, lineages and compositions: an
\* admitted world rests on stored rows that speak of it, no two sessions wait
\* for each other, and a testimony that is refused met a different stored row.
THEOREM WorldsAreBound == WorldAssumption => (WorldSpec => []WorldIsBound)
<1>1. SUFFICES ASSUME WorldAssumption PROVE WorldSpec => []WorldIsBound
  OBVIOUS
<1>2. WorldInv /\ [WorldNext]_worldVars => WorldInv'
  BY <1>1, StepWorld
<1>3. WorldInv => WorldIsBound
  <2>1. SUFFICES ASSUME WorldInv PROVE WorldIsBound
    OBVIOUS
  <2>2. AdmissionIsBound
    BY <2>1 DEF WorldInv, StoredInv, AdmissionIsBound
  <2>3. NoWaitCycle
    BY <2>1, NobodyWaitsInACircle DEF NoWaitCycle
  <2>4. ASSUME NEW s \in WorldSessions PROVE ~Spurious(s, {"testimony", "testimony_receipt"})
    <3>1. CallInv(tx[s], store)
      BY <2>1 DEF WorldInv
    <3>2. tx[s].reply = "collides" => Refusal(tx[s], store)
      BY <3>1 DEF CallInv
    <3> QED BY <3>2 DEF Spurious, Refusal
  <2> QED BY <2>2, <2>3, <2>4 DEF WorldIsBound, TestimonyReplayConverges
<1> QED BY <1>2, <1>3, InitWorld, PTL DEF WorldSpec

-----------------------------------------------------------------------------

(***************************************************************************)
(* Deposits of Unicode roots.                                              *)
(***************************************************************************)

\* A row is shared by all roots or keyed by one.
RowTyped(k) == \/ Len(k) = 2 /\ k[1] \in SharedFamilies
               \/ Len(k) = 3 /\ k[1] \in KeyedFamilies

\* What stands in the tables and has exactly its fields.
Has(rows, k) == k \in DOMAIN rows /\ rows[k] = Exact

RootPlans == {<<f, d>> : f \in RootFamilies \cup {"effect", "generation", "receipt"}, d \in {"insert", "verify"}}

\* A call that runs, and the rows it inserted.
BuildShape(s) ==
    /\ DOMAIN s = {"pc", "req", "expected", "staged", "statement", "own", "plans", "generation", "receipt"}
    /\ s.pc \in {"stage", "effects", "generation", "files", "admit", "receipt", "return"}
    /\ s.req \in RootRequests
    /\ s.staged \in 0 .. Len(RootFrames[s.req.root])
    /\ s.statement \in 0 .. Len(BatchPlans)
    /\ s.plans \in Seq(RootPlans)
    /\ IsFiniteSet(DOMAIN s.own) /\ DOMAIN s.own \subseteq RootRows(s.req.root)
    /\ \A k \in DOMAIN s.own : s.own[k] = Exact

\* The staged frames, and of the present batch the families already verified, are
\* visible to it, as is the whole root and no more of it once its effects were counted.
BuildStored(s, t) ==
    LET root == s.req.root
        frames == RootFrames[root]
        seen == Over(s.own, t)
    IN /\ \A i \in 1 .. s.staged, f \in RootFamilies :
            frames[i].kind = KindOf(f) => Has(seen, RowOf(root, f, frames[i].key))
       /\ s.pc = "stage" =>
            /\ s.staged < Len(frames)
            /\ \A n \in 1 .. s.statement : BatchPlans[n][2] = "verify" =>
                 \A k \in RootRowsOf(root, BatchPlans[n][1], BatchOf(s)) : Has(seen, k)
       /\ s.pc # "stage" => s.staged = Len(frames)
       /\ s.pc \notin {"stage", "effects"} => RootSound(root, seen)

\* From its generation row on a call has the generation that is or will be stored.
Sealed(s) == s.pc \in {"files", "admit", "receipt", "return"}
BuildSealed(s, g, a) ==
    /\ Sealed(s) => s.generation # NoPlans /\ (s.req.root \in DOMAIN g => g[s.req.root] = s.generation)
    /\ s.pc \in {"files", "admit", "receipt"} => s.generation = s.plans
    /\ s.pc \in {"admit", "receipt", "return"} => a = ArtifactsOf(s.req)
    /\ s.pc = "return" =>
        /\ s.receipt.root = s.req.root /\ s.receipt.id = s.req.id
        /\ s.receipt.generation = s.generation /\ IsStrictPrefix(s.generation, s.receipt.plans)

Running(s) == s.pc \notin {"idle", "failed", "committed"}
BuildFresh(s, t) == DOMAIN s.own \cap DOMAIN t = {}
BuildInv(s, t, g, a) == Running(s) => BuildShape(s) /\ BuildStored(s, t) /\ BuildFresh(s, t) /\ BuildSealed(s, g, a)

\* No two calls inserted one row or have sealed one root.
BuildsApart(s, x) ==
    Running(s) /\ Running(x) =>
        /\ DOMAIN s.own \cap DOMAIN x.own = {}
        /\ Sealed(s) /\ Sealed(x) => s.req.root # x.req.root

TableTyped(t) == IsFiniteSet(DOMAIN t) /\ \A k \in DOMAIN t : RowTyped(k)

RootInv ==
    /\ TableTyped(storedRows)
    /\ build = [b \in RootBackends |-> build[b]]
    /\ \A b \in RootBackends : BuildInv(build[b], storedRows, rootGenerations, artifacts)
    /\ \A b, o \in RootBackends : b # o => BuildsApart(build[b], build[o])
    /\ DepositedIsWhole
    /\ EpochIsBacked


\* A set of numbers that is not empty and bounded has a greatest.
LEMMA Greatest ==
  ASSUME NEW N \in Nat, NEW S \in SUBSET (0 .. N), S # {}
  PROVE  \E n \in S : \A m \in S : m <= n
<1> DEFINE T == {N - n : n \in S}
           R == OpToRel(<, Nat)
<1>0. \A n \in S : n \in 0 .. N /\ N - n \in Nat
  OBVIOUS
<1>1. T \subseteq Nat /\ T # {}
  BY <1>0
<1>2. IsWellFoundedOn(R, Nat)
  BY NatLessThanWellFounded
<1>3. PICK m \in T : \A y \in T : ~(<<y, m>> \in R)
  <2> HIDE DEF T, R
  <2> QED BY <1>1, <1>2, WFMin
<1>4. \A y \in T : ~(y < m)
  <2> SUFFICES ASSUME NEW y \in T, y < m PROVE FALSE
    OBVIOUS
  <2>1. y \in Nat /\ m \in Nat
    BY <1>1, <1>3
  <2>2. <<y, m>> \in R
    BY <2>1 DEF OpToRel
  <2> QED BY <2>2, <1>3
<1>5. PICK n \in S : m = N - n
  BY <1>3
<1>6. ASSUME NEW k \in S PROVE k <= n
  <2>1. N - k \in T
    OBVIOUS
  <2>2. ~(N - k < N - n)
    BY <2>1, <1>4, <1>5
  <2>3. k \in Int /\ n \in Int
    BY <1>0
  <2> QED BY <2>2, <2>3
<1> QED BY <1>6

\* A batch is the frames from its first ordinal to a later one.
LEMMA BatchIsARun ==
  ASSUME NEW X, NEW frames \in Seq(X), NEW first \in 0 .. Len(frames), first < Len(frames), NEW limit
  PROVE  \E n \in first + 1 .. Len(frames) : BatchAt(frames, first, limit) = SubSeq(frames, first + 1, n)
<1> DEFINE ends == BatchEnds(frames, first, limit)
<1>1. ends \subseteq first + 1 .. Len(frames) /\ first + 1 \in ends
  BY DEF BatchEnds
<1>2. \E n \in ends : \A m \in ends : m <= n
  <2> HIDE DEF ends
  <2>1. Len(frames) \in Nat /\ ends \in SUBSET (0 .. Len(frames)) /\ ends # {}
    BY <1>1
  <2> QED BY <2>1, Greatest
<1>3. (CHOOSE n \in ends : \A m \in ends : m <= n) \in ends
  <2> HIDE DEF ends
  <2> QED BY <1>2
<1> QED BY <1>1, <1>3 DEF BatchAt

\* The frames of a request's root are a sequence without duplicates.
LEMMA RootOfRequest ==
  ASSUME RootAssumption, NEW r \in RootRequests
  PROVE  /\ r.root \in DOMAIN RootFrames
         /\ RootFrames[r.root] \in Seq(ToSet(RootFrames[r.root]))
         /\ Len(RootFrames[r.root]) \in Nat /\ Len(RootFrames[r.root]) > 0
<1>1. r.root \in DOMAIN RootFrames
  BY DEF RootAssumption
<1>2. RootFrames[r.root] \in Seq(ToSet(RootFrames[r.root])) /\ RootFrames[r.root] # <<>>
  BY <1>1 DEF RootAssumption
<1> HIDE DEF RootAssumption
<1>3. Len(RootFrames[r.root]) \in Nat /\ Len(RootFrames[r.root]) # 0
  BY <1>2
<1> QED BY <1>1, <1>2, <1>3

\* What a family becomes of finitely many frames is finite.
LEMMA RowsAreFinite ==
  ASSUME NEW X, NEW frames \in Seq(X), NEW root, NEW f
  PROVE  /\ IsFiniteSet(FramesOf(f, frames)) /\ IsFiniteSet(RootRowsOf(root, f, frames))
         /\ FramesOf(f, frames) \subseteq 1 .. Len(frames)
<1> DEFINE I == FramesOf(f, frames)
           T == RootRowsOf(root, f, frames)
           g == [i \in I |-> RowOf(root, f, frames[i].key)]
<1>1. I \in SUBSET (1 .. Len(frames)) /\ Len(frames) \in Nat
  BY DEF FramesOf
<1>2. IsFiniteSet(I)
  <2>1. IsFiniteSet(1 .. Len(frames))
    BY <1>1, FS_Interval
  <2> QED BY <1>1, <2>1, FS_Subset
<1>3. T = {g[i] : i \in I}
  BY DEF RootRowsOf
<1>4. g \in Surjection(I, T)
  <2>1. g = [i \in I |-> g[i]]
    OBVIOUS
  <2> HIDE DEF g, I, T
  <2> QED BY <1>3, <2>1 DEF Surjection
<1>5. IsFiniteSet(T)
  <2> HIDE DEF g, I, T
  <2> QED BY <1>2, <1>4, FS_Surjection
<1> QED BY <1>1, <1>2, <1>5

\* The rows of a family keyed by the root are as many as its frames.
LEMMA RowsAreCounted ==
  ASSUME RootAssumption, NEW root \in DOMAIN RootFrames, NEW f \in KeyedFamilies
  PROVE  Cardinality(RootRowsOf(root, f, RootFrames[root])) = Cardinality(FramesOf(f, RootFrames[root]))
<1> DEFINE frames == RootFrames[root]
           I == FramesOf(f, frames)
           T == RootRowsOf(root, f, frames)
           g == [i \in I |-> RowOf(root, f, frames[i].key)]
<1>1. frames \in Seq(ToSet(frames))
  BY DEF RootAssumption
<1>2. \A i, j \in DOMAIN frames : frames[i].kind = frames[j].kind /\ frames[i].key = frames[j].key => i = j
  BY DEF RootAssumption
<1> HIDE DEF RootAssumption
<1>3. IsFiniteSet(I)
  BY <1>1, RowsAreFinite
<1>4. T = {g[i] : i \in I}
  BY DEF RootRowsOf
<1>5. \A i, j \in I : g[i] = g[j] => i = j
  <2> SUFFICES ASSUME NEW i \in I, NEW j \in I, g[i] = g[j] PROVE i = j
    OBVIOUS
  <2>1. f \notin SharedFamilies
    BY DEF KeyedFamilies, SharedFamilies
  <2>2. <<f, root, frames[i].key>> = <<f, root, frames[j].key>>
    BY <2>1 DEF RowOf
  <2>3. i \in DOMAIN frames /\ j \in DOMAIN frames /\ frames[i].kind = frames[j].kind
    BY DEF FramesOf
  <2> QED BY <2>2, <2>3, <1>2
<1>6. g \in Bijection(I, T)
  <2>1. g = [i \in I |-> g[i]]
    OBVIOUS
  <2> HIDE DEF g, I, T
  <2> QED BY <1>4, <1>5, <2>1 DEF Bijection, Injection, Surjection, IsInjective
<1>7. Cardinality(T) = Cardinality(I)
  <2> HIDE DEF g, I, T
  <2> QED BY <1>3, <1>6, FS_Bijection DEF ExistsBijection
<1> QED BY <1>7

\* A row of a root is typed, and keyed by that root or by none.
LEMMA RowsOfRoot ==
  ASSUME NEW root, NEW k \in RootRows(root)
  PROVE  RowTyped(k) /\ (Len(k) = 3 => k[2] = root)
<1>1. PICK f \in RootFamilies : k \in RootRowsOf(root, f, RootFrames[root])
  BY DEF RootRows
<1>2. PICK key : k = RowOf(root, f, key)
  BY <1>1 DEF RootRowsOf
<1>3. CASE f \in SharedFamilies
  <2>1. k = <<f, key>>
    BY <1>2, <1>3 DEF RowOf
  <2>2. Len(k) = 2 /\ k[1] = f
    BY <2>1
  <2> QED BY <2>2, <1>3 DEF RowTyped
<1>4. CASE f \notin SharedFamilies
  <2>1. k = <<f, root, key>> /\ f \in KeyedFamilies
    BY <1>2, <1>4 DEF RowOf, RootFamilies
  <2>2. Len(k) = 3 /\ k[1] = f /\ k[2] = root
    BY <2>1
  <2> QED BY <2>1, <2>2 DEF RowTyped
<1> QED BY <1>3, <1>4

\* Equal counts of the keyed families: no row of the root besides its own.
LEMMA CountsShowNoMore ==
  ASSUME RootAssumption, NEW root \in DOMAIN RootFrames, NEW v, TableTyped(v),
         \A k \in RootRows(root) : Has(v, k),
         \A f \in KeyedFamilies : Cardinality(FramesOf(f, RootFrames[root]))
                                   = Cardinality({k \in DOMAIN v : k[1] = f /\ k[2] = root})
  PROVE  RootSound(root, v)
<1>1. ASSUME NEW k \in DOMAIN v, Len(k) = 3, k[2] = root PROVE k \in RootRows(root)
  <2> DEFINE f == k[1]
             rows == RootRowsOf(root, f, RootFrames[root])
             found == {x \in DOMAIN v : x[1] = f /\ x[2] = root}
  <2>1. f \in KeyedFamilies
    BY <1>1 DEF TableTyped, RowTyped
  <2>2. Cardinality(rows) = Cardinality(found)
    <3> HIDE DEF f
    <3> QED BY <2>1, RowsAreCounted
  <2>3. rows \subseteq RootRows(root)
    <3> HIDE DEF f
    <3> QED BY <2>1 DEF RootRows, RootFamilies
  <2>4. rows \in SUBSET found
    <3> HIDE DEF f
    <3> SUFFICES ASSUME NEW x \in rows PROVE x \in found
      OBVIOUS
    <3>1. x \in DOMAIN v
      BY <2>3 DEF Has
    <3>2. PICK key : x = <<f, root, key>>
      <4>1. f \notin SharedFamilies
        BY <2>1 DEF KeyedFamilies, SharedFamilies
      <4> QED BY <4>1 DEF RootRowsOf, RowOf
    <3>3. x[1] = f /\ x[2] = root
      BY <3>2
    <3> QED BY <3>1, <3>3
  <2>5. IsFiniteSet(found)
    <3>1. found \in SUBSET DOMAIN v /\ IsFiniteSet(DOMAIN v)
      BY DEF TableTyped
    <3> HIDE DEF found
    <3> QED BY <3>1, FS_Subset
  <2>6. found = rows
    <3> HIDE DEF found, rows
    <3> QED BY <2>2, <2>4, <2>5, FS_Subset
  <2>7. k \in found
    BY <1>1
  <2> HIDE DEF found, rows
  <2> QED BY <2>3, <2>6, <2>7
<1> QED BY <1>1 DEF RootSound, Has

\* A call that moves alone.
LEMMA OneBuildMoves ==
  ASSUME RootInv, NEW b \in RootBackends, NEW x, build' = [build EXCEPT ![b] = x],
         storedRows' = storedRows, rootGenerations' = rootGenerations, rootReceipts' = rootReceipts,
         rootEpoch' = rootEpoch, artifacts' = artifacts \/ artifacts = NoFiles,
         BuildInv(x, storedRows, rootGenerations, artifacts'),
         \A o \in RootBackends \ {b} : BuildsApart(x, build[o])
  PROVE  RootInv'
<1>1. build = [o \in RootBackends |-> build[o]]
  BY DEF RootInv
<1>2. /\ build' = [o \in RootBackends |-> build'[o]]
      /\ build'[b] = x /\ \A o \in RootBackends \ {b} : build'[o] = build[o]
  BY <1>1
<1>3. \A o \in RootBackends : BuildInv(build[o], storedRows, rootGenerations, artifacts)
  BY DEF RootInv
<1>4. ASSUME NEW o \in RootBackends PROVE BuildInv(build'[o], storedRows, rootGenerations, artifacts')
  <2>1. CASE o = b
    BY <2>1, <1>2
  <2>2. CASE o # b /\ artifacts' = artifacts
    BY <2>2, <1>2, <1>3
  <2>3. CASE o # b /\ artifacts = NoFiles
    <3>1. build'[o] = build[o]
      BY <2>3, <1>2
    <3>2. NoFiles # ArtifactsOf(build[o].req)
      BY DEF NoFiles, ArtifactsOf
    <3>3. BuildSealed(build[o], rootGenerations, artifacts) => BuildSealed(build[o], rootGenerations, artifacts')
      BY <2>3, <3>2 DEF BuildSealed
    <3> QED BY <3>1, <3>3, <1>3 DEF BuildInv
  <2> QED BY <2>1, <2>2, <2>3
<1>5. ASSUME NEW o \in RootBackends, NEW p \in RootBackends, o # p PROVE BuildsApart(build'[o], build'[p])
  <2>1. BuildsApart(build[o], build[p])
    BY <1>5 DEF RootInv
  <2>2. CASE o = b
    <3>1. p \in RootBackends \ {b}
      BY <2>2, <1>5
    <3> QED BY <3>1, <2>2, <1>2
  <2>3. CASE p = b
    <3>1. o \in RootBackends \ {b}
      BY <2>3, <1>5
    <3>2. BuildsApart(x, build[o]) => BuildsApart(build[o], x)
      BY DEF BuildsApart
    <3> QED BY <3>1, <3>2, <2>3, <1>2
  <2>4. CASE o # b /\ p # b
    BY <2>1, <2>4, <1>2
  <2> QED BY <2>2, <2>3, <2>4
<1>6. EpochIsBacked'
  <2>1. EpochIsBacked
    BY DEF RootInv
  <2>2. <<rootEpoch.root, rootEpoch.id>> # NoFiles
    BY DEF NoFiles
  <2> QED BY <2>1, <2>2 DEF EpochIsBacked
<1>7. DepositedIsWhole'
  BY DEF RootInv, DepositedIsWhole
<1>8. TableTyped(storedRows)
  BY DEF RootInv
<1> QED BY <1>2, <1>4, <1>5, <1>6, <1>7, <1>8 DEF RootInv

LEMMA FailBuildKeeps ==
  ASSUME RootInv, NEW b \in RootBackends, FailBuild(b)
  PROVE  RootInv'
<1>1. ~Running(FailedBuild)
  BY DEF Running, FailedBuild
<1>2. BuildInv(FailedBuild, storedRows, rootGenerations, artifacts')
  BY <1>1 DEF BuildInv
<1>3. \A o \in RootBackends \ {b} : BuildsApart(FailedBuild, build[o])
  BY <1>1 DEF BuildsApart
<1>4. /\ build' = [build EXCEPT ![b] = FailedBuild]
      /\ storedRows' = storedRows /\ rootGenerations' = rootGenerations /\ rootReceipts' = rootReceipts
      /\ rootEpoch' = rootEpoch /\ artifacts' = artifacts
  BY DEF FailBuild
<1> HIDE DEF FailedBuild
<1> QED BY <1>2, <1>3, <1>4, OneBuildMoves

LEMMA BuildAndActivateKeeps ==
  ASSUME RootAssumption, RootInv, NEW b \in RootBackends, NEW r \in RootRequests, BuildAndActivate(b, r)
  PROVE  RootInv'
<1> DEFINE x == NewBuild(r)
<1>1. /\ storedRows' = storedRows /\ rootGenerations' = rootGenerations /\ rootReceipts' = rootReceipts
      /\ rootEpoch' = rootEpoch /\ artifacts' = artifacts
      /\ build' = [build EXCEPT ![b] = FailedBuild] \/ build' = [build EXCEPT ![b] = x]
  BY DEF BuildAndActivate
<1>2. CASE build' = [build EXCEPT ![b] = FailedBuild]
  <2>1. ~Running(FailedBuild)
    BY DEF Running, FailedBuild
  <2>2. BuildInv(FailedBuild, storedRows, rootGenerations, artifacts')
    BY <2>1 DEF BuildInv
  <2>3. \A o \in RootBackends \ {b} : BuildsApart(FailedBuild, build[o])
    BY <2>1 DEF BuildsApart
  <2> HIDE DEF FailedBuild
  <2> QED BY <1>1, <1>2, <2>2, <2>3, OneBuildMoves
<1>3. CASE build' = [build EXCEPT ![b] = x]
  <2>1. /\ DOMAIN x = {"pc", "req", "expected", "staged", "statement", "own", "plans", "generation", "receipt"}
        /\ x.pc = "stage" /\ x.req = r /\ x.staged = 0 /\ x.statement = 0 /\ x.own = NoRows /\ x.plans = <<>>
    BY DEF NewBuild
  <2> HIDE DEF x
  <2>2. Len(RootFrames[r.root]) \in Nat /\ Len(RootFrames[r.root]) > 0
    BY RootOfRequest
  <2>3. DOMAIN NoRows = {} /\ IsFiniteSet({})
    BY FS_EmptySet DEF NoRows
  <2>4. BuildShape(x)
    <3>1. <<>> \in Seq(RootPlans)
      OBVIOUS
    <3>2. 0 \in 0 .. Len(BatchPlans)
      BY DEF BatchPlans
    <3> QED BY <2>1, <2>2, <2>3, <3>1, <3>2 DEF BuildShape
  <2>5. BuildStored(x, storedRows)
    BY <2>1, <2>2 DEF BuildStored
  <2>6. BuildFresh(x, storedRows) /\ BuildSealed(x, rootGenerations, artifacts') /\ ~Sealed(x)
    BY <2>1, <2>3 DEF BuildFresh, BuildSealed, Sealed
  <2>7. \A o \in RootBackends \ {b} : BuildsApart(x, build[o])
    BY <2>1, <2>3, <2>6 DEF BuildsApart
  <2>8. BuildInv(x, storedRows, rootGenerations, artifacts')
    BY <2>4, <2>5, <2>6 DEF BuildInv
  <2> QED BY <1>1, <1>3, <2>7, <2>8, OneBuildMoves
<1> QED BY <1>1, <1>2, <1>3

LEMMA BatchFrames ==
  ASSUME RootAssumption, NEW s, BuildShape(s), s.staged < Len(RootFrames[s.req.root])
  PROVE  \E n \in s.staged + 1 .. Len(RootFrames[s.req.root]) :
            /\ BatchOf(s) \in Seq(ToSet(RootFrames[s.req.root]))
            /\ Len(BatchOf(s)) = n - s.staged
            /\ \A j \in 1 .. n - s.staged : BatchOf(s)[j] = RootFrames[s.req.root][s.staged + j]
<1> DEFINE frames == RootFrames[s.req.root]
           X == ToSet(frames)
           first == s.staged
<1>1. frames \in Seq(X) /\ first \in 0 .. Len(frames) /\ first < Len(frames)
  BY RootOfRequest DEF BuildShape
<1>2. BatchOf(s) = BatchAt(frames, first, s.req.limit)
  BY DEF BatchOf
<1> HIDE DEF frames, X, first
<1>3. PICK n \in first + 1 .. Len(frames) : BatchAt(frames, first, s.req.limit) = SubSeq(frames, first + 1, n)
  BY <1>1, BatchIsARun
<1>4. /\ SubSeq(frames, first + 1, n) \in Seq(X)
      /\ Len(SubSeq(frames, first + 1, n)) = n - first
      /\ \A j \in 1 .. n - first : SubSeq(frames, first + 1, n)[j] = frames[first + j]
  <2>1. n \in Int /\ first \in Int /\ first >= 0 /\ n <= Len(frames) /\ first + 1 <= n
    BY <1>1, <1>3
  <2>2. \A i \in first + 1 .. n : frames[i] \in X
    BY <1>1, <2>1
  <2>3. Len(SubSeq(frames, first + 1, n)) = n - first
    BY <1>1, <2>1
  <2>4. \A j \in 1 .. n - first : SubSeq(frames, first + 1, n)[j] = frames[first + j]
    BY <1>1, <2>1
  <2>5. SubSeq(frames, first + 1, n) \in Seq(X)
    BY <1>1, <2>1, <2>2
  <2> QED BY <2>3, <2>4, <2>5
<1> QED BY <1>2, <1>3, <1>4 DEF frames, X, first

\* The rows of a batch are finitely many of its root's.
LEMMA BatchRows ==
  ASSUME RootAssumption, NEW s, BuildShape(s), s.staged < Len(RootFrames[s.req.root]), NEW f \in RootFamilies
  PROVE  /\ IsFiniteSet(RootRowsOf(s.req.root, f, BatchOf(s)))
         /\ RootRowsOf(s.req.root, f, BatchOf(s)) \subseteq RootRows(s.req.root)
<1> DEFINE root == s.req.root
           frames == RootFrames[root]
           batch == BatchOf(s)
<1>1. PICK n \in s.staged + 1 .. Len(frames) :
        /\ batch \in Seq(ToSet(frames)) /\ Len(batch) = n - s.staged
        /\ \A j \in 1 .. n - s.staged : batch[j] = frames[s.staged + j]
  BY BatchFrames
<1>2. frames \in Seq(ToSet(frames)) /\ s.staged \in 0 .. Len(frames)
  BY RootOfRequest DEF BuildShape
<1> HIDE DEF root, frames, batch
<1>3. IsFiniteSet(RootRowsOf(root, f, batch))
  BY <1>1, RowsAreFinite
<1>4. ASSUME NEW k \in RootRowsOf(root, f, batch) PROVE k \in RootRowsOf(root, f, frames)
  <2>1. PICK j \in FramesOf(f, batch) : k = RowOf(root, f, batch[j].key)
    BY DEF RootRowsOf
  <2>2. j \in 1 .. n - s.staged /\ batch[j].kind = KindOf(f)
    BY <1>1 DEF FramesOf
  <2>3. s.staged + j \in DOMAIN frames /\ batch[j] = frames[s.staged + j]
    BY <1>1, <1>2, <2>2
  <2>4. s.staged + j \in FramesOf(f, frames)
    BY <2>2, <2>3 DEF FramesOf
  <2> QED BY <2>1, <2>3, <2>4 DEF RootRowsOf
<1>5. RootRowsOf(root, f, batch) \subseteq RootRows(root)
  BY <1>4 DEF RootRows, frames
<1> QED BY <1>3, <1>5 DEF root, batch

LEMMA PlanFamilies ==
  /\ Len(BatchPlans) = 12
  /\ \A n \in 1 .. 12 : BatchPlans[n][1] \in RootFamilies /\ BatchPlans[n] \in RootPlans
  /\ \A f \in RootFamilies : \E n \in 1 .. 12 : BatchPlans[n][1] = f /\ BatchPlans[n][2] = "verify"
<1>1. Len(BatchPlans) = 12
  BY DEF BatchPlans
<1>2. ASSUME NEW n \in 1 .. 12 PROVE BatchPlans[n][1] \in RootFamilies /\ BatchPlans[n] \in RootPlans
  <2>1. \E f \in RootFamilies, d \in {"insert", "verify"} : BatchPlans[n] = <<f, d>>
    <3>1. CASE n \in 1 .. 4
      BY <3>1 DEF BatchPlans, RootFamilies, SharedFamilies, KeyedFamilies
    <3>2. CASE n \in 5 .. 8
      BY <3>2 DEF BatchPlans, RootFamilies, SharedFamilies, KeyedFamilies
    <3>3. CASE n \in 9 .. 12
      BY <3>3 DEF BatchPlans, RootFamilies, SharedFamilies, KeyedFamilies
    <3> QED BY <3>1, <3>2, <3>3
  <2>3. PICK f \in RootFamilies, d \in {"insert", "verify"} : BatchPlans[n] = <<f, d>>
    BY <2>1
  <2>4. <<f, d>>[1] = f /\ <<f, d>> \in RootPlans
    BY DEF RootPlans
  <2> QED BY <2>3, <2>4
<1>3. ASSUME NEW f \in RootFamilies PROVE \E n \in 1 .. 12 : BatchPlans[n][1] = f /\ BatchPlans[n][2] = "verify"
  <2>1. /\ BatchPlans[2] = <<"entity", "verify">> /\ BatchPlans[4] = <<"physicality", "verify">>
        /\ BatchPlans[6] = <<"attestation", "verify">> /\ BatchPlans[8] = <<"position", "verify">>
        /\ BatchPlans[10] = <<"contraction", "verify">> /\ BatchPlans[12] = <<"normalization", "verify">>
    BY DEF BatchPlans
  <2>2. f \in {"entity", "physicality", "attestation", "position", "contraction", "normalization"}
    BY DEF RootFamilies, SharedFamilies, KeyedFamilies
  <2> QED BY <2>1, <2>2
<1> QED BY <1>1, <1>2, <1>3

\* The step of a call that goes on with its rows, in the same phase or the next.
LEMMA BuildGoesOn ==
  ASSUME NEW s, NEW x, NEW o, BuildsApart(s, o), Running(s), DOMAIN x.own = DOMAIN s.own, x.req = s.req,
         Sealed(x) => Sealed(s)
  PROVE  BuildsApart(x, o)
BY DEF BuildsApart

\* The least statement that was due has run: those before it had run or have no rows.
LEMMA StatementRun ==
  ASSUME NEW s, NEW x, NEW t, BuildShape(s), BuildStored(s, t), s.pc = "stage",
         x.pc = "stage", x.req = s.req, x.staged = s.staged,
         NEW n \in StatementsAfter(s.statement, BatchOf(s)),
         \A m \in StatementsAfter(s.statement, BatchOf(s)) : n <= m,
         x.statement = n,
         \A k : Has(Over(s.own, t), k) => Has(Over(x.own, t), k),
         BatchPlans[n][2] = "verify" =>
            \A k \in RootRowsOf(s.req.root, BatchPlans[n][1], BatchOf(s)) : Has(Over(x.own, t), k)
  PROVE  BuildStored(x, t)
<1> DEFINE root == s.req.root
           frames == RootFrames[root]
           seen == Over(s.own, t)
           after == Over(x.own, t)
           batch == BatchOf(s)
<1>1. /\ \A i \in 1 .. s.staged, f \in RootFamilies :
            frames[i].kind = KindOf(f) => Has(seen, RowOf(root, f, frames[i].key))
      /\ s.staged < Len(frames)
      /\ \A m \in 1 .. s.statement : BatchPlans[m][2] = "verify" =>
            \A k \in RootRowsOf(root, BatchPlans[m][1], batch) : Has(seen, k)
  BY DEF BuildStored
<1>2. BatchOf(x) = batch
  BY DEF BatchOf
<1>3. n \in 1 .. 12 /\ s.statement \in 0 .. 12
  BY PlanFamilies DEF StatementsAfter, BuildShape
<1> HIDE DEF batch, seen, after, frames
<1>4. ASSUME NEW m \in 1 .. n, BatchPlans[m][2] = "verify", NEW k \in RootRowsOf(root, BatchPlans[m][1], batch)
      PROVE  Has(after, k)
  <2>1. CASE m \in 1 .. s.statement
    <3>1. Has(seen, k)
      BY <1>1, <1>4, <2>1
    <3> QED BY <3>1 DEF seen, after
  <2>2. CASE m = n
    BY <1>4, <2>2 DEF batch, after
  <2>3. CASE s.statement < m /\ m < n
    <3>1. m \notin StatementsAfter(s.statement, batch)
      BY <2>3, <1>3 DEF batch
    <3>2. m \in DOMAIN BatchPlans
      BY <1>3, PlanFamilies
    <3>3. FramesOf(BatchPlans[m][1], batch) = {}
      BY <3>1, <3>2, <2>3 DEF StatementsAfter
    <3> QED BY <3>3, <1>4 DEF RootRowsOf
  <2> QED BY <2>1, <2>2, <2>3, <1>3
<1>5. \A i \in 1 .. s.staged, f \in RootFamilies :
            frames[i].kind = KindOf(f) => Has(after, RowOf(root, f, frames[i].key))
  BY <1>1 DEF seen, after
<1> QED BY <1>1, <1>2, <1>4, <1>5 DEF BuildStored, after, frames

LEMMA StageStatementKeeps ==
  ASSUME RootAssumption, RootInv, NEW b \in RootBackends, StageStatement(b)
  PROVE  RootInv'
<1> DEFINE s == build[b]
           batch == BatchOf(s)
           due == StatementsAfter(s.statement, batch)
<1>1. s.pc = "stage"
  BY DEF StageStatement
<1>2. /\ storedRows' = storedRows /\ rootGenerations' = rootGenerations /\ rootReceipts' = rootReceipts
      /\ rootEpoch' = rootEpoch /\ artifacts' = artifacts
  BY DEF StageStatement
<1>3. PICK n \in due :
        /\ \A m \in due : n <= m
        /\ \/ FailBuild(b)
           \/ /\ BatchPlans[n][2] = "insert"
              /\ ~BlockedBy(b, RootRowsOf(s.req.root, BatchPlans[n][1], batch))
              /\ build' = [build EXCEPT ![b] = [[NotePlan(s, BatchPlans[n]) EXCEPT !.statement = n] EXCEPT
                    !.own = Over(@, [k \in RootRowsOf(s.req.root, BatchPlans[n][1], batch) \ DOMAIN storedRows |-> Exact])]]
           \/ /\ BatchPlans[n][2] # "insert"
              /\ VerifiedExactly(b, RootRowsOf(s.req.root, BatchPlans[n][1], batch))
              /\ build' = [build EXCEPT ![b] = [NotePlan(s, BatchPlans[n]) EXCEPT !.statement = n]]
  BY DEF StageStatement
<1>4. BuildShape(s) /\ BuildStored(s, storedRows) /\ BuildFresh(s, storedRows) /\ Running(s)
  BY <1>1 DEF RootInv, BuildInv, Running
<1>5. s.staged < Len(RootFrames[s.req.root])
  BY <1>1, <1>4 DEF BuildStored
<1>6. n \in 1 .. 12 /\ BatchPlans[n][1] \in RootFamilies /\ BatchPlans[n] \in RootPlans
  BY PlanFamilies DEF StatementsAfter
<1> DEFINE rows == RootRowsOf(s.req.root, BatchPlans[n][1], batch)
<1>7. IsFiniteSet(rows) /\ rows \subseteq RootRows(s.req.root)
  BY <1>4, <1>5, <1>6, BatchRows
<1>8. \A o \in RootBackends \ {b} : BuildsApart(s, build[o])
  BY DEF RootInv
<1>9. ASSUME NEW x,
             DOMAIN x = DOMAIN s, x.pc = s.pc, x.req = s.req, x.staged = s.staged, x.statement = n,
             x.plans = Append(s.plans, BatchPlans[n]), BuildStored(x, storedRows),
             IsFiniteSet(DOMAIN x.own), DOMAIN x.own \subseteq RootRows(s.req.root), \A k \in DOMAIN x.own : x.own[k] = Exact,
             BuildFresh(x, storedRows), \A o \in RootBackends \ {b} : BuildsApart(x, build[o]),
             build' = [build EXCEPT ![b] = x]
      PROVE  RootInv'
  <2>1. BuildShape(x)
    <3>1. x.plans \in Seq(RootPlans)
      BY <1>4, <1>6, <1>9 DEF BuildShape
    <3>2. n \in 0 .. Len(BatchPlans)
      BY <1>6, PlanFamilies
    <3> HIDE DEF s
    <3> QED BY <1>4, <1>9, <3>1, <3>2 DEF BuildShape
  <2>2. BuildSealed(x, rootGenerations, artifacts)
    BY <1>1, <1>9 DEF BuildSealed, Sealed
  <2>3. BuildInv(x, storedRows, rootGenerations, artifacts')
    BY <1>2, <1>9, <2>1, <2>2 DEF BuildInv
  <2> QED BY <1>2, <1>9, <2>3, OneBuildMoves
<1>10. CASE FailBuild(b)
  BY <1>10, FailBuildKeeps
<1>11. CASE /\ BatchPlans[n][2] = "insert"
            /\ ~BlockedBy(b, rows)
            /\ build' = [build EXCEPT ![b] = [[NotePlan(s, BatchPlans[n]) EXCEPT !.statement = n] EXCEPT
                    !.own = Over(@, [k \in rows \ DOMAIN storedRows |-> Exact])]]
  <2> DEFINE add == [k \in rows \ DOMAIN storedRows |-> Exact]
             x == [[NotePlan(s, BatchPlans[n]) EXCEPT !.statement = n] EXCEPT !.own = Over(@, add)]
  <2>1. /\ DOMAIN x = DOMAIN s /\ x.pc = s.pc /\ x.req = s.req /\ x.staged = s.staged /\ x.statement = n
        /\ x.plans = Append(s.plans, BatchPlans[n]) /\ x.own = Over(s.own, add)
    <3> HIDE DEF add, s
    <3> QED BY <1>4 DEF BuildShape, NotePlan
  <2>2. build' = [build EXCEPT ![b] = x]
    BY <1>11
  <2>3. DOMAIN add = rows \ DOMAIN storedRows /\ \A k \in DOMAIN add : add[k] = Exact
    OBVIOUS
  <2> HIDE DEF add, x, s, rows
  <2>4. DOMAIN x.own = DOMAIN s.own \cup DOMAIN add
    BY <2>1 DEF Over
  <2>5. \A k \in DOMAIN x.own : x.own[k] = Exact
    BY <1>4, <2>1, <2>3, <2>4 DEF Over, BuildShape
  <2>6. IsFiniteSet(DOMAIN x.own) /\ DOMAIN x.own \subseteq RootRows(s.req.root)
    <3>1. IsFiniteSet(DOMAIN add)
      <4>1. DOMAIN add \in SUBSET rows
        BY <2>3
      <4> QED BY <4>1, <1>7, FS_Subset
    <3>2. IsFiniteSet(DOMAIN s.own) /\ DOMAIN s.own \subseteq RootRows(s.req.root)
      BY <1>4 DEF BuildShape
    <3>3. IsFiniteSet(DOMAIN s.own \cup DOMAIN add)
      BY <3>1, <3>2, FS_Union
    <3> QED BY <3>2, <3>3, <2>3, <2>4, <1>7
  <2>7. BuildFresh(x, storedRows)
    BY <1>4, <2>3, <2>4 DEF BuildFresh
  <2>8. \A k : Has(Over(s.own, storedRows), k) => Has(Over(x.own, storedRows), k)
    <3> SUFFICES ASSUME NEW k, Has(Over(s.own, storedRows), k) PROVE Has(Over(x.own, storedRows), k)
      OBVIOUS
    <3>1. CASE k \in DOMAIN s.own
      BY <3>1, <2>4, <2>5 DEF Has, Over
    <3>2. CASE k \notin DOMAIN s.own
      <4>1. k \in DOMAIN storedRows /\ storedRows[k] = Exact
        BY <3>2 DEF Has, Over
      <4>2. k \notin DOMAIN x.own
        BY <4>1, <2>3, <2>4, <3>2
      <4> QED BY <4>1, <4>2 DEF Has, Over
    <3> QED BY <3>1, <3>2
  <2>9. BuildStored(x, storedRows)
    BY <1>1, <1>3, <1>4, <1>11, <2>1, <2>8, StatementRun
  <2>10. ASSUME NEW o \in RootBackends \ {b} PROVE BuildsApart(x, build[o])
    <3>1. BuildsApart(s, build[o])
      BY <1>8
    <3>2. Running(build[o]) => DOMAIN build[o].own \cap rows = {}
      BY <1>11 DEF BlockedBy, OtherBuilds, Building, Running
    <3>3. ~Sealed(x)
      BY <1>1, <2>1 DEF Sealed
    <3> QED BY <3>1, <3>2, <3>3, <1>4, <2>3, <2>4 DEF BuildsApart
  <2> QED BY <1>9, <2>1, <2>2, <2>5, <2>6, <2>7, <2>9, <2>10
<1>12. CASE /\ BatchPlans[n][2] # "insert"
            /\ VerifiedExactly(b, rows)
            /\ build' = [build EXCEPT ![b] = [NotePlan(s, BatchPlans[n]) EXCEPT !.statement = n]]
  <2> DEFINE x == [NotePlan(s, BatchPlans[n]) EXCEPT !.statement = n]
  <2>1. /\ DOMAIN x = DOMAIN s /\ x.pc = s.pc /\ x.req = s.req /\ x.staged = s.staged /\ x.statement = n
        /\ x.plans = Append(s.plans, BatchPlans[n]) /\ x.own = s.own
    <3> HIDE DEF s
    <3> QED BY <1>4 DEF BuildShape, NotePlan
  <2>2. build' = [build EXCEPT ![b] = x]
    BY <1>12
  <2>3. \A k \in rows : Has(Over(s.own, storedRows), k)
    BY <1>12 DEF VerifiedExactly, VisibleTo, Has
  <2> HIDE DEF x, s, rows
  <2>4. BuildStored(x, storedRows)
    BY <1>1, <1>3, <1>4, <2>1, <2>3, StatementRun DEF rows
  <2>5. IsFiniteSet(DOMAIN x.own) /\ DOMAIN x.own \subseteq RootRows(s.req.root) /\ \A k \in DOMAIN x.own : x.own[k] = Exact
    BY <1>4, <2>1 DEF BuildShape
  <2>6. BuildFresh(x, storedRows)
    BY <1>4, <2>1 DEF BuildFresh
  <2>7. \A o \in RootBackends \ {b} : BuildsApart(x, build[o])
    <3>1. Sealed(x) => Sealed(s)
      BY <2>1 DEF Sealed
    <3> QED BY <3>1, <1>4, <1>8, <2>1, BuildGoesOn
  <2> QED BY <1>9, <2>1, <2>2, <2>4, <2>5, <2>6, <2>7
<1> QED BY <1>3, <1>10, <1>11, <1>12

LEMMA BatchStagedKeeps ==
  ASSUME RootAssumption, RootInv, NEW b \in RootBackends, BatchStaged(b)
  PROVE  RootInv'
<1> DEFINE s == build[b]
           root == s.req.root
           frames == RootFrames[root]
           batch == BatchOf(s)
           staged == s.staged + Len(batch)
           x == [s EXCEPT !.staged = staged, !.statement = 0, !.pc = IF staged = Len(frames) THEN "effects" ELSE "stage"]
<1>1. s.pc = "stage" /\ StatementsAfter(s.statement, batch) = {}
  BY DEF BatchStaged
<1>2. CASE FailBuild(b)
  BY <1>2, FailBuildKeeps
<1>3. CASE ~FailBuild(b)
  <2>1. /\ storedRows' = storedRows /\ rootGenerations' = rootGenerations /\ rootReceipts' = rootReceipts
        /\ rootEpoch' = rootEpoch /\ artifacts' = artifacts
        /\ build' = [build EXCEPT ![b] = x]
    BY <1>3 DEF BatchStaged
  <2>2. BuildShape(s) /\ BuildStored(s, storedRows) /\ BuildFresh(s, storedRows) /\ Running(s)
    BY <1>1 DEF RootInv, BuildInv, Running
  <2>3. s.staged < Len(frames)
    BY <1>1, <2>2 DEF BuildStored
  <2>4. PICK n \in s.staged + 1 .. Len(frames) :
          /\ batch \in Seq(ToSet(frames)) /\ Len(batch) = n - s.staged
          /\ \A j \in 1 .. n - s.staged : batch[j] = frames[s.staged + j]
    BY <2>2, <2>3, BatchFrames
  <2>5. s.staged \in 0 .. Len(frames) /\ Len(frames) \in Nat
    BY <2>2, RootOfRequest DEF BuildShape
  <2>6. staged = n /\ n \in 0 .. Len(frames)
    BY <2>4, <2>5
  <2>7. /\ DOMAIN x = DOMAIN s /\ x.req = s.req /\ x.staged = n /\ x.statement = 0
        /\ x.pc = (IF n = Len(frames) THEN "effects" ELSE "stage")
        /\ x.plans = s.plans /\ x.own = s.own
    <3> HIDE DEF s, staged, frames
    <3> QED BY <2>2, <2>6 DEF BuildShape
  <2> HIDE DEF x, staged, batch
  <2>8. BuildShape(x)
    <3>1. 0 \in 0 .. Len(BatchPlans)
      BY PlanFamilies
    <3>2. x.pc \in {"stage", "effects"}
      BY <2>7
    <3> HIDE DEF s
    <3> QED BY <2>2, <2>6, <2>7, <3>1, <3>2 DEF BuildShape
  <2>9. ASSUME NEW i \in 1 .. n, NEW f \in RootFamilies, frames[i].kind = KindOf(f)
        PROVE  Has(Over(s.own, storedRows), RowOf(root, f, frames[i].key))
    <3>1. CASE i <= s.staged
      <4>1. i \in 1 .. s.staged
        BY <2>5, <3>1
      <4> QED BY <4>1, <2>2, <2>9 DEF BuildStored
    <3>2. CASE i > s.staged
      <4>1. i - s.staged \in 1 .. n - s.staged /\ s.staged + (i - s.staged) = i
        BY <2>4, <2>5, <3>2
      <4>2. batch[i - s.staged] = frames[i] /\ i - s.staged \in DOMAIN batch
        BY <4>1, <2>4
      <4>3. i - s.staged \in FramesOf(f, batch)
        BY <4>2, <2>9 DEF FramesOf
      <4>4. RowOf(root, f, frames[i].key) \in RootRowsOf(root, f, batch)
        BY <4>2, <4>3 DEF RootRowsOf
      <4>5. PICK m \in 1 .. 12 : BatchPlans[m][1] = f /\ BatchPlans[m][2] = "verify"
        BY PlanFamilies
      <4>6. m \in DOMAIN BatchPlans /\ m \notin StatementsAfter(s.statement, batch)
        BY <1>1, PlanFamilies DEF batch
      <4>7. ~(s.statement < m)
        BY <4>3, <4>5, <4>6 DEF StatementsAfter
      <4>8. s.statement \in Int
        BY <2>2, PlanFamilies DEF BuildShape
      <4>9. m \in 1 .. s.statement
        BY <4>7, <4>8
      <4>10. \A k \in RootRowsOf(root, BatchPlans[m][1], batch) : Has(Over(s.own, storedRows), k)
        BY <4>5, <4>9, <1>1, <2>2 DEF BuildStored, batch
      <4> QED BY <4>4, <4>5, <4>10
    <3> QED BY <3>1, <3>2, <2>5
  <2>10. BuildStored(x, storedRows)
    <3>1. n # Len(frames) => n < Len(frames)
      BY <2>5, <2>6
    <3> HIDE DEF s
    <3> QED BY <2>7, <2>9, <3>1 DEF BuildStored
  <2>11. BuildFresh(x, storedRows) /\ BuildSealed(x, rootGenerations, artifacts') /\ ~Sealed(x)
    BY <2>2, <2>7 DEF BuildFresh, BuildSealed, Sealed
  <2>12. \A o \in RootBackends \ {b} : BuildsApart(x, build[o])
    <3>1. \A o \in RootBackends \ {b} : BuildsApart(s, build[o])
      BY DEF RootInv
    <3> HIDE DEF s
    <3> QED BY <3>1, <2>2, <2>7, <2>11, BuildGoesOn
  <2>13. BuildInv(x, storedRows, rootGenerations, artifacts')
    BY <2>8, <2>10, <2>11 DEF BuildInv
  <2> QED BY <2>1, <2>12, <2>13, OneBuildMoves
<1> QED BY <1>2, <1>3

\* The root is visible as a whole once all its frames are staged.
LEMMA StagedIsWhole ==
  ASSUME RootAssumption, NEW s, NEW t, BuildShape(s), BuildStored(s, t), s.pc # "stage"
  PROVE  \A k \in RootRows(s.req.root) : Has(Over(s.own, t), k)
<1> DEFINE root == s.req.root
           frames == RootFrames[root]
<1> SUFFICES ASSUME NEW k \in RootRows(root) PROVE Has(Over(s.own, t), k)
  OBVIOUS
<1>1. frames \in Seq(ToSet(frames))
  BY RootOfRequest DEF BuildShape
<1>2. PICK f \in RootFamilies : k \in RootRowsOf(root, f, frames)
  BY DEF RootRows
<1>3. PICK i \in FramesOf(f, frames) : k = RowOf(root, f, frames[i].key)
  BY <1>2 DEF RootRowsOf
<1>4. i \in 1 .. Len(frames) /\ frames[i].kind = KindOf(f)
  BY <1>1 DEF FramesOf
<1>5. s.staged = Len(frames)
  BY DEF BuildStored
<1> QED BY <1>3, <1>4, <1>5 DEF BuildStored

LEMMA SealEffectsKeeps ==
  ASSUME RootAssumption, RootInv, NEW b \in RootBackends, SealEffects(b)
  PROVE  RootInv'
<1> DEFINE s == build[b]
           root == s.req.root
           x == [NotePlan(s, <<"effect", "verify">>) EXCEPT !.pc = "generation"]
<1>1. s.pc = "effects"
  BY DEF SealEffects
<1>2. CASE FailBuild(b)
  BY <1>2, FailBuildKeeps
<1>3. CASE ~FailBuild(b)
  <2>1. /\ storedRows' = storedRows /\ rootGenerations' = rootGenerations /\ rootReceipts' = rootReceipts
        /\ rootEpoch' = rootEpoch /\ artifacts' = artifacts
        /\ build' = [build EXCEPT ![b] = x]
        /\ EffectsComplete(b, root)
    BY <1>3 DEF SealEffects
  <2>2. BuildShape(s) /\ BuildStored(s, storedRows) /\ BuildFresh(s, storedRows) /\ Running(s)
    BY <1>1 DEF RootInv, BuildInv, Running
  <2>3. RootSound(root, Over(s.own, storedRows))
    <3> DEFINE v == Over(s.own, storedRows)
    <3>1. \A k \in RootRows(root) : Has(v, k)
      BY <1>1, <2>2, StagedIsWhole
    <3>2. DOMAIN v = DOMAIN s.own \cup DOMAIN storedRows
      BY DEF Over
    <3>3. TableTyped(storedRows) /\ IsFiniteSet(DOMAIN s.own) /\ DOMAIN s.own \subseteq RootRows(root)
      BY <2>2 DEF RootInv, BuildShape
    <3>4. TableTyped(v)
      <4>1. IsFiniteSet(DOMAIN s.own \cup DOMAIN storedRows)
        BY <3>3, FS_Union DEF TableTyped
      <4>2. \A k \in DOMAIN s.own : RowTyped(k)
        BY <3>3, RowsOfRoot
      <4> HIDE DEF v
      <4> QED BY <3>2, <3>3, <4>1, <4>2 DEF TableTyped
    <3>5. \A f \in KeyedFamilies : Cardinality(FramesOf(f, RootFrames[root]))
                                   = Cardinality({k \in DOMAIN v : k[1] = f /\ k[2] = root})
      BY <2>1 DEF EffectsComplete, VisibleTo
    <3>6. root \in DOMAIN RootFrames
      BY <2>2, RootOfRequest DEF BuildShape
    <3> HIDE DEF v
    <3>7. RootSound(root, v)
      BY <3>1, <3>4, <3>5, <3>6, CountsShowNoMore
    <3> QED BY <3>7 DEF v
  <2>4. /\ DOMAIN x = DOMAIN s /\ x.req = s.req /\ x.staged = s.staged /\ x.statement = s.statement
        /\ x.pc = "generation" /\ x.plans = Append(s.plans, <<"effect", "verify">>) /\ x.own = s.own
    <3> HIDE DEF s
    <3> QED BY <2>2 DEF BuildShape, NotePlan
  <2> HIDE DEF x
  <2>5. BuildShape(x)
    <3>1. <<"effect", "verify">> \in RootPlans
      BY DEF RootPlans
    <3>2. x.plans \in Seq(RootPlans)
      BY <2>2, <2>4, <3>1 DEF BuildShape
    <3> HIDE DEF s
    <3> QED BY <2>2, <2>4, <3>2 DEF BuildShape
  <2>6. BuildStored(x, storedRows)
    <3> HIDE DEF s
    <3> QED BY <1>1, <2>2, <2>3, <2>4 DEF BuildStored
  <2>7. BuildFresh(x, storedRows) /\ BuildSealed(x, rootGenerations, artifacts') /\ ~Sealed(x)
    BY <2>2, <2>4 DEF BuildFresh, BuildSealed, Sealed
  <2>8. \A o \in RootBackends \ {b} : BuildsApart(x, build[o])
    <3>1. \A o \in RootBackends \ {b} : BuildsApart(s, build[o])
      BY DEF RootInv
    <3> HIDE DEF s
    <3> QED BY <3>1, <2>2, <2>4, <2>7, BuildGoesOn
  <2>9. BuildInv(x, storedRows, rootGenerations, artifacts')
    BY <2>5, <2>6, <2>7 DEF BuildInv
  <2> QED BY <2>1, <2>8, <2>9, OneBuildMoves
<1> QED BY <1>2, <1>3

LEMMA TwoMorePlans ==
  ASSUME NEW p \in Seq(RootPlans), NEW c \in RootPlans, NEW d \in RootPlans
  PROVE  /\ Append(Append(p, c), d) \in Seq(RootPlans)
         /\ Append(Append(p, c), d) # <<>>
         /\ IsStrictPrefix(p, Append(Append(p, c), d))
<1> DEFINE q == Append(Append(p, c), d)
<1>1. Append(p, c) \in Seq(RootPlans) /\ Len(Append(p, c)) = Len(p) + 1
  OBVIOUS
<1>2. q \in Seq(RootPlans) /\ Len(q) = Len(p) + 2
  BY <1>1
<1>3. \A i \in 1 .. Len(p) : q[i] = p[i]
  <2> SUFFICES ASSUME NEW i \in 1 .. Len(p) PROVE q[i] = p[i]
    OBVIOUS
  <2>1. Append(p, c)[i] = p[i]
    OBVIOUS
  <2>2. i \in 1 .. Len(Append(p, c))
    BY <1>1
  <2> QED BY <2>1, <2>2, <1>1
<1> HIDE DEF q
<1>4. SubSeq(p, 1, Len(p)) = SubSeq(q, 1, Len(p))
  BY <1>2, <1>3
<1>5. q # p /\ q # <<>> /\ Len(p) <= Len(q)
  BY <1>2
<1> QED BY <1>2, <1>4, <1>5 DEF IsStrictPrefix, IsPrefix, q

\* A step of a call after its effects were counted: its rows stay as they are.
LEMMA SealedStep ==
  ASSUME RootInv, NEW b \in RootBackends, NEW x, build' = [build EXCEPT ![b] = x],
         build[b].pc \in {"generation", "files", "admit", "receipt"},
         DOMAIN x = DOMAIN build[b], x.req = build[b].req, x.staged = build[b].staged,
         x.statement = build[b].statement, x.own = build[b].own, x.plans \in Seq(RootPlans),
         x.pc \in {"files", "admit", "receipt", "return"},
         storedRows' = storedRows, rootGenerations' = rootGenerations, rootReceipts' = rootReceipts,
         rootEpoch' = rootEpoch, artifacts' = artifacts \/ artifacts = NoFiles,
         BuildSealed(x, rootGenerations, artifacts'),
         build[b].pc = "generation" => \A o \in RootBackends \ {b} : Running(build[o]) /\ Sealed(build[o]) => build[o].req.root # x.req.root
  PROVE  RootInv'
<1> DEFINE s == build[b]
<1>1. BuildShape(s) /\ BuildStored(s, storedRows) /\ BuildFresh(s, storedRows) /\ Running(s)
  BY DEF RootInv, BuildInv, Running
<1>2. \A o \in RootBackends \ {b} : BuildsApart(s, build[o])
  BY DEF RootInv
<1>3. BuildShape(x)
  <2> HIDE DEF s
  <2> QED BY <1>1 DEF BuildShape, s
<1>4. BuildStored(x, storedRows)
  <2>1. /\ s.pc \notin {"stage", "effects"} /\ s.pc # "stage" /\ x.pc \notin {"stage", "effects"} /\ x.pc # "stage"
        /\ x.req = s.req /\ x.staged = s.staged /\ x.own = s.own
    OBVIOUS
  <2> HIDE DEF s
  <2> QED BY <1>1, <2>1 DEF BuildStored
<1>5. BuildFresh(x, storedRows)
  BY <1>1 DEF BuildFresh
<1>6. ASSUME NEW o \in RootBackends \ {b} PROVE BuildsApart(x, build[o])
  <2>1. BuildsApart(s, build[o])
    BY <1>2
  <2>2. CASE s.pc = "generation"
    BY <2>1, <2>2, <1>1 DEF BuildsApart
  <2>3. CASE s.pc # "generation"
    <3>1. Sealed(s)
      BY <2>3 DEF Sealed
    <3> QED BY <2>1, <3>1, <1>1, BuildGoesOn
  <2> QED BY <2>2, <2>3
<1>7. BuildInv(x, storedRows, rootGenerations, artifacts')
  BY <1>3, <1>4, <1>5 DEF BuildInv
<1> HIDE DEF s
<1> QED BY <1>6, <1>7, OneBuildMoves

LEMMA SealGenerationKeeps ==
  ASSUME RootAssumption, RootInv, NEW b \in RootBackends, SealGeneration(b)
  PROVE  RootInv'
<1> DEFINE s == build[b]
           c == <<"generation", "insert">>
           d == <<"generation", "verify">>
           predicted == PredictTwo(s, c, d)
           x == [NotePlan(NotePlan(s, c), d) EXCEPT !.pc = "files", !.generation = predicted]
<1>1. s.pc = "generation"
  BY DEF SealGeneration
<1>2. CASE FailBuild(b)
  BY <1>2, FailBuildKeeps
<1>3. CASE ~FailBuild(b)
  <2>1. /\ storedRows' = storedRows /\ rootGenerations' = rootGenerations /\ rootReceipts' = rootReceipts
        /\ rootEpoch' = rootEpoch /\ artifacts' = artifacts
        /\ build' = [build EXCEPT ![b] = x]
        /\ s.req.root \in DOMAIN rootGenerations => rootGenerations[s.req.root] = predicted
        /\ \A o \in OtherBuilds(b) : build[o].generation # NoPlans => build[o].req.root # s.req.root
    BY <1>3 DEF SealGeneration
  <2>2. BuildShape(s)
    BY <1>1 DEF RootInv, BuildInv, Running
  <2>3. /\ DOMAIN x = DOMAIN s /\ x.req = s.req /\ x.staged = s.staged /\ x.statement = s.statement
        /\ x.pc = "files" /\ x.plans = Append(Append(s.plans, c), d) /\ x.own = s.own /\ x.generation = predicted
    <3> HIDE DEF s, c, d, predicted
    <3> QED BY <2>2 DEF BuildShape, NotePlan
  <2>4. predicted = Append(Append(s.plans, c), d)
    BY DEF PredictTwo
  <2>5. c \in RootPlans /\ d \in RootPlans
    BY DEF RootPlans
  <2> HIDE DEF x, c, d, predicted
  <2>6. x.plans \in Seq(RootPlans) /\ x.plans # <<>>
    BY <2>2, <2>3, <2>5, TwoMorePlans DEF BuildShape
  <2>7. BuildSealed(x, rootGenerations, artifacts')
    BY <2>1, <2>3, <2>4, <2>6 DEF BuildSealed, Sealed, NoPlans
  <2>8. ASSUME NEW o \in RootBackends \ {b}, Running(build[o]), Sealed(build[o]) PROVE build[o].req.root # x.req.root
    <3>1. o \in OtherBuilds(b)
      BY <2>8 DEF OtherBuilds, Building, Running
    <3>2. build[o].generation # NoPlans
      BY <2>8 DEF RootInv, BuildInv, BuildSealed
    <3> QED BY <3>1, <3>2, <2>1, <2>3
  <2>9. s.pc \in {"generation", "files", "admit", "receipt"} /\ x.pc \in {"files", "admit", "receipt", "return"}
    BY <1>1, <2>3
  <2> QED BY <1>1, <2>1, <2>3, <2>6, <2>7, <2>8, <2>9, SealedStep
<1> QED BY <1>2, <1>3

LEMMA SealFilesKeeps ==
  ASSUME RootAssumption, RootInv, NEW b \in RootBackends, SealFiles(b)
  PROVE  RootInv'
<1> DEFINE s == build[b]
           x == [s EXCEPT !.pc = "admit"]
<1>1. s.pc = "files"
  BY DEF SealFiles
<1>2. CASE FailBuild(b)
  BY <1>2, FailBuildKeeps
<1>3. CASE ~FailBuild(b)
  <2>1. /\ storedRows' = storedRows /\ rootGenerations' = rootGenerations /\ rootReceipts' = rootReceipts
        /\ rootEpoch' = rootEpoch /\ artifacts' = ArtifactsOf(s.req)
        /\ build' = [build EXCEPT ![b] = x]
        /\ artifacts' = artifacts \/ artifacts = NoFiles
    BY <1>3 DEF SealFiles, Publishable
  <2>2. BuildShape(s) /\ BuildSealed(s, rootGenerations, artifacts)
    BY <1>1 DEF RootInv, BuildInv, Running
  <2>3. /\ DOMAIN x = DOMAIN s /\ x.req = s.req /\ x.staged = s.staged /\ x.statement = s.statement
        /\ x.pc = "admit" /\ x.plans = s.plans /\ x.own = s.own /\ x.generation = s.generation
    <3> HIDE DEF s
    <3> QED BY <2>2 DEF BuildShape
  <2> HIDE DEF x
  <2>4. x.plans \in Seq(RootPlans)
    BY <2>2, <2>3 DEF BuildShape
  <2>5. BuildSealed(x, rootGenerations, artifacts')
    <3> HIDE DEF s
    <3> QED BY <1>1, <2>1, <2>2, <2>3 DEF BuildSealed, Sealed
  <2>6. s.pc \in {"generation", "files", "admit", "receipt"} /\ s.pc # "generation" /\ x.pc \in {"files", "admit", "receipt", "return"}
    BY <1>1, <2>3
  <2> QED BY <2>1, <2>3, <2>4, <2>5, <2>6, SealedStep
<1> QED BY <1>2, <1>3

LEMMA AdmitRootKeeps ==
  ASSUME RootAssumption, RootInv, NEW b \in RootBackends, AdmitRoot(b)
  PROVE  RootInv'
<1> DEFINE s == build[b]
           x == [s EXCEPT !.pc = "receipt"]
<1>1. s.pc = "admit"
  BY DEF AdmitRoot
<1>2. CASE FailBuild(b)
  BY <1>2, FailBuildKeeps
<1>3. CASE ~FailBuild(b)
  <2>1. /\ storedRows' = storedRows /\ rootGenerations' = rootGenerations /\ rootReceipts' = rootReceipts
        /\ rootEpoch' = rootEpoch /\ artifacts' = artifacts
        /\ build' = [build EXCEPT ![b] = x]
    BY <1>3 DEF AdmitRoot
  <2>2. BuildShape(s) /\ BuildSealed(s, rootGenerations, artifacts)
    BY <1>1 DEF RootInv, BuildInv, Running
  <2>3. /\ DOMAIN x = DOMAIN s /\ x.req = s.req /\ x.staged = s.staged /\ x.statement = s.statement
        /\ x.pc = "receipt" /\ x.plans = s.plans /\ x.own = s.own /\ x.generation = s.generation
    <3> HIDE DEF s
    <3> QED BY <2>2 DEF BuildShape
  <2> HIDE DEF x
  <2>4. x.plans \in Seq(RootPlans)
    BY <2>2, <2>3 DEF BuildShape
  <2>5. BuildSealed(x, rootGenerations, artifacts')
    <3> HIDE DEF s
    <3> QED BY <1>1, <2>1, <2>2, <2>3 DEF BuildSealed, Sealed
  <2>6. s.pc \in {"generation", "files", "admit", "receipt"} /\ s.pc # "generation" /\ x.pc \in {"files", "admit", "receipt", "return"}
    BY <1>1, <2>3
  <2> QED BY <2>1, <2>3, <2>4, <2>5, <2>6, SealedStep
<1> QED BY <1>2, <1>3

LEMMA PersistReceiptKeeps ==
  ASSUME RootAssumption, RootInv, NEW b \in RootBackends, PersistReceipt(b)
  PROVE  RootInv'
<1> DEFINE s == build[b]
           c == <<"receipt", "insert">>
           d == <<"receipt", "verify">>
           predicted == PredictTwo(s, c, d)
           receipt == [root |-> s.req.root, id |-> s.req.id, generation |-> s.generation, plans |-> predicted]
           x == [NotePlan(NotePlan(s, c), d) EXCEPT !.pc = "return", !.receipt = receipt]
<1>1. s.pc = "receipt"
  BY DEF PersistReceipt
<1>2. CASE FailBuild(b)
  BY <1>2, FailBuildKeeps
<1>3. CASE ~FailBuild(b)
  <2>1. /\ storedRows' = storedRows /\ rootGenerations' = rootGenerations /\ rootReceipts' = rootReceipts
        /\ rootEpoch' = rootEpoch /\ artifacts' = artifacts
        /\ build' = [build EXCEPT ![b] = x]
    BY <1>3 DEF PersistReceipt
  <2>2. BuildShape(s) /\ BuildSealed(s, rootGenerations, artifacts)
    BY <1>1 DEF RootInv, BuildInv, Running
  <2>3. /\ DOMAIN x = DOMAIN s /\ x.req = s.req /\ x.staged = s.staged /\ x.statement = s.statement
        /\ x.pc = "return" /\ x.plans = Append(Append(s.plans, c), d) /\ x.own = s.own /\ x.generation = s.generation
        /\ x.receipt = receipt
    <3> HIDE DEF s, c, d, receipt
    <3> QED BY <2>2 DEF BuildShape, NotePlan
  <2>4. predicted = Append(Append(s.plans, c), d)
    BY DEF PredictTwo
  <2>5. c \in RootPlans /\ d \in RootPlans
    BY DEF RootPlans
  <2> HIDE DEF x, c, d, predicted
  <2>6. x.plans \in Seq(RootPlans) /\ IsStrictPrefix(s.plans, predicted)
    BY <2>2, <2>3, <2>4, <2>5, TwoMorePlans DEF BuildShape
  <2>7. s.generation = s.plans /\ s.generation # NoPlans
        /\ (s.req.root \in DOMAIN rootGenerations => rootGenerations[s.req.root] = s.generation)
        /\ artifacts = ArtifactsOf(s.req)
    BY <1>1, <2>2 DEF BuildSealed, Sealed
  <2>8. BuildSealed(x, rootGenerations, artifacts')
    <3> HIDE DEF s
    <3>1. x.receipt.root = x.req.root /\ x.receipt.id = x.req.id /\ x.receipt.generation = x.generation
          /\ x.receipt.plans = predicted
      BY <2>3
    <3> QED BY <2>1, <2>3, <2>6, <2>7, <3>1 DEF BuildSealed, Sealed
  <2>9. s.pc \in {"generation", "files", "admit", "receipt"} /\ s.pc # "generation" /\ x.pc \in {"files", "admit", "receipt", "return"}
    BY <1>1, <2>3
  <2> QED BY <2>1, <2>3, <2>6, <2>8, <2>9, SealedStep
<1> QED BY <1>2, <1>3

\* The rows of another root do not disturb this one.
LEMMA SoundStays ==
  ASSUME NEW root, NEW other, NEW v, NEW w, RootSound(root, v),
         \A k : Has(v, k) => Has(w, k),
         \A k \in DOMAIN w : k \in DOMAIN v \/ k \in RootRows(other)
  PROVE  RootSound(root, w)
<1>1. ASSUME NEW k \in DOMAIN w, Len(k) = 3, k[2] = root PROVE k \in RootRows(root)
  <2>1. CASE k \in DOMAIN v
    BY <1>1, <2>1 DEF RootSound
  <2>2. CASE k \in RootRows(other)
    <3>1. k[2] = other
      BY <1>1, <2>2, RowsOfRoot
    <3> QED BY <1>1, <2>2, <3>1
  <2> QED BY <2>1, <2>2
<1>2. \A k \in RootRows(root) : Has(w, k)
  BY DEF RootSound, Has
<1> QED BY <1>1, <1>2 DEF RootSound, Has

LEMMA CommitRootKeeps ==
  ASSUME RootAssumption, RootInv, NEW b \in RootBackends, CommitRoot(b)
  PROVE  RootInv'
<1> DEFINE s == build[b]
           root == s.req.root
           g == rootGenerations
           t == storedRows
           tt == Over(s.own, t)
           gg == Over(g, [r \in {root} |-> s.generation])
<1>1. /\ s.pc = "return" /\ storedRows' = tt /\ rootGenerations' = gg
      /\ rootReceipts' = rootReceipts \cup {s.receipt}
      /\ rootEpoch' = [sequence |-> rootEpoch.sequence + 1, root |-> root, id |-> s.req.id]
      /\ build' = [build EXCEPT ![b] = CommittedBuild] /\ artifacts' = artifacts
  BY DEF CommitRoot
<1>2. BuildShape(s) /\ BuildStored(s, t) /\ BuildFresh(s, t) /\ BuildSealed(s, g, artifacts) /\ Running(s)
  BY <1>1 DEF RootInv, BuildInv, Running
<1>3. /\ DOMAIN s.own \subseteq RootRows(root) /\ IsFiniteSet(DOMAIN s.own) /\ \A k \in DOMAIN s.own : s.own[k] = Exact
      /\ DOMAIN s.own \cap DOMAIN t = {}
  BY <1>2 DEF BuildShape, BuildFresh
<1>4. /\ artifacts = ArtifactsOf(s.req) /\ s.receipt.root = root /\ s.receipt.id = s.req.id
      /\ s.receipt.generation = s.generation /\ IsStrictPrefix(s.generation, s.receipt.plans)
      /\ root \in DOMAIN g => g[root] = s.generation
      /\ RootSound(root, tt)
  BY <1>1, <1>2 DEF BuildSealed, Sealed, BuildStored
<1>5. DOMAIN tt = DOMAIN s.own \cup DOMAIN t
  BY DEF Over
<1>6. \A k : Has(t, k) => Has(tt, k)
  BY <1>3 DEF Over, Has
<1>7. DOMAIN gg = DOMAIN g \cup {root} /\ gg[root] = s.generation /\ \A r \in DOMAIN g : gg[r] = g[r]
  BY <1>4 DEF Over
<1>8. TableTyped(t)
  BY DEF RootInv
<1>9. build = [o \in RootBackends |-> build[o]]
  BY DEF RootInv
<1>10. /\ build' = [o \in RootBackends |-> build'[o]]
       /\ build'[b] = CommittedBuild /\ \A o \in RootBackends \ {b} : build'[o] = build[o]
  BY <1>1, <1>9
<1>11. ~Running(CommittedBuild)
  BY DEF Running, CommittedBuild
<1> HIDE DEF tt, gg, t, g, CommittedBuild
<1>12. TableTyped(tt)
  <2>1. IsFiniteSet(DOMAIN s.own \cup DOMAIN t)
    BY <1>3, <1>8, FS_Union DEF TableTyped
  <2>2. \A k \in DOMAIN s.own : RowTyped(k)
    BY <1>3, RowsOfRoot
  <2> QED BY <1>5, <1>8, <2>1, <2>2 DEF TableTyped
<1>13. \A k \in DOMAIN tt : k \in DOMAIN t \/ k \in RootRows(root)
  BY <1>3, <1>5
<1>14. ASSUME NEW o \in RootBackends, o # b PROVE BuildInv(build[o], tt, gg, artifacts)
  <2> DEFINE x == build[o]
             seen == Over(x.own, t)
             after == Over(x.own, tt)
  <2>1. BuildInv(x, t, g, artifacts)
    BY DEF RootInv, t, g
  <2>2. BuildsApart(s, x)
    BY <1>14 DEF RootInv
  <2> HIDE DEF x, s
  <2> SUFFICES ASSUME Running(x) PROVE BuildInv(x, tt, gg, artifacts)
    BY DEF BuildInv, x
  <2>3. BuildShape(x) /\ BuildStored(x, t) /\ BuildFresh(x, t) /\ BuildSealed(x, g, artifacts)
    BY <2>1 DEF BuildInv
  <2>4. DOMAIN s.own \cap DOMAIN x.own = {}
    BY <1>2, <2>2 DEF BuildsApart
  <2>5. BuildFresh(x, tt)
    BY <1>5, <2>3, <2>4 DEF BuildFresh
  <2>6. \A k : Has(seen, k) => Has(after, k)
    <3> SUFFICES ASSUME NEW k, Has(seen, k) PROVE Has(after, k)
      OBVIOUS
    <3>1. CASE k \in DOMAIN x.own
      BY <3>1 DEF Has, Over
    <3>2. CASE k \notin DOMAIN x.own
      <4>1. Has(t, k)
        BY <3>2 DEF Has, Over
      <4>2. Has(tt, k)
        BY <4>1, <1>6
      <4> QED BY <3>2, <4>2 DEF Has, Over
    <3> QED BY <3>1, <3>2
  <2>7. \A k \in DOMAIN after : k \in DOMAIN seen \/ k \in RootRows(root)
    BY <1>13 DEF Over
  <2> HIDE DEF seen, after
  <2>8. BuildStored(x, tt)
    <3>1. x.pc \notin {"stage", "effects"} => RootSound(x.req.root, after)
      <4> SUFFICES ASSUME x.pc \notin {"stage", "effects"} PROVE RootSound(x.req.root, after)
        OBVIOUS
      <4>1. RootSound(x.req.root, seen)
        BY <2>3 DEF BuildStored, seen
      <4> QED BY <4>1, <2>6, <2>7, SoundStays
    <3>2. \A i \in 1 .. x.staged, f \in RootFamilies :
            RootFrames[x.req.root][i].kind = KindOf(f)
                => Has(after, RowOf(x.req.root, f, RootFrames[x.req.root][i].key))
      BY <2>3, <2>6 DEF BuildStored, seen
    <3>3. x.pc = "stage" =>
            /\ x.staged < Len(RootFrames[x.req.root])
            /\ \A n \in 1 .. x.statement : BatchPlans[n][2] = "verify" =>
                 \A k \in RootRowsOf(x.req.root, BatchPlans[n][1], BatchOf(x)) : Has(after, k)
      BY <2>3, <2>6 DEF BuildStored, seen
    <3>4. x.pc # "stage" => x.staged = Len(RootFrames[x.req.root])
      BY <2>3 DEF BuildStored
    <3> QED BY <3>1, <3>2, <3>3, <3>4 DEF BuildStored, after
  <2>9. BuildSealed(x, gg, artifacts)
    <3>1. Sealed(x) => x.req.root # root
      <4>1. Sealed(s)
        BY <1>1 DEF Sealed
      <4> QED BY <4>1, <1>2, <2>2 DEF BuildsApart
    <3>2. Sealed(x) => (x.req.root \in DOMAIN gg => gg[x.req.root] = x.generation)
      BY <3>1, <1>7, <2>3 DEF BuildSealed
    <3> QED BY <3>2, <2>3 DEF BuildSealed
  <2> QED BY <2>3, <2>5, <2>8, <2>9 DEF BuildInv
<1>15. \A o \in RootBackends : BuildInv(build'[o], tt, gg, artifacts)
  <2>1. BuildInv(CommittedBuild, tt, gg, artifacts)
    BY <1>11 DEF BuildInv
  <2> QED BY <2>1, <1>10, <1>14
<1>16. \A o, p \in RootBackends : o # p => BuildsApart(build'[o], build'[p])
  <2> SUFFICES ASSUME NEW o \in RootBackends, NEW p \in RootBackends, o # p PROVE BuildsApart(build'[o], build'[p])
    OBVIOUS
  <2>1. CASE o = b \/ p = b
    BY <2>1, <1>10, <1>11 DEF BuildsApart
  <2>2. CASE o # b /\ p # b
    <3>1. BuildsApart(build[o], build[p])
      BY DEF RootInv
    <3> QED BY <3>1, <2>2, <1>10
  <2> QED BY <2>1, <2>2
<1>17. \A r \in DOMAIN gg : RootSound(r, tt)
  <2> SUFFICES ASSUME NEW r \in DOMAIN gg, r # root PROVE RootSound(r, tt)
    BY <1>4
  <2>1. RootSound(r, t)
    BY <1>7 DEF RootInv, DepositedIsWhole, t, g
  <2> QED BY <2>1, <1>6, <1>13, SoundStays
<1>18. EpochIsBacked'
  <2>1. rootEpoch'.root = root /\ rootEpoch'.id = s.req.id
    BY <1>1
  <2>2. artifacts' = <<root, s.req.id>>
    BY <1>1, <1>4 DEF ArtifactsOf
  <2>3. s.receipt \in rootReceipts'
    BY <1>1
  <2> HIDE DEF s, root
  <2>4. rootGenerations'[root] = s.generation /\ root \in DOMAIN rootGenerations'
    BY <1>1, <1>7
  <2> QED BY <2>1, <2>2, <2>3, <2>4, <1>4 DEF EpochIsBacked
<1> QED BY <1>1, <1>10, <1>12, <1>15, <1>16, <1>17, <1>18 DEF RootInv, DepositedIsWhole

LEMMA InitRoot == RootAssumption /\ RootInit => RootInv
<1> SUFFICES ASSUME RootAssumption, RootInit PROVE RootInv
  OBVIOUS
<1>1. TableTyped(storedRows)
  BY DEF RootInit, RootAssumption, TableTyped, RowTyped
<1>2. build = [b \in RootBackends |-> build[b]] /\ \A b \in RootBackends : ~Running(build[b])
  BY DEF RootInit, IdleBuild, Running
<1>3. DepositedIsWhole /\ EpochIsBacked
  BY DEF RootInit, NoRows, DepositedIsWhole, EpochIsBacked, NoRoot
<1> QED BY <1>1, <1>2, <1>3 DEF RootInv, BuildInv, BuildsApart

LEMMA StepRoot == RootAssumption /\ RootInv /\ [RootNext]_rootVars => RootInv'
<1> SUFFICES ASSUME RootAssumption, RootInv, [RootNext]_rootVars PROVE RootInv'
  OBVIOUS
<1>1. CASE RootNext
  <2>1. PICK b \in RootBackends : BuildStep(b)
    BY <1>1 DEF RootNext
  <2>2. CASE \E r \in RootRequests : BuildAndActivate(b, r)
    BY <2>2, BuildAndActivateKeeps
  <2>3. CASE StageStatement(b)
    BY <2>3, StageStatementKeeps
  <2>4. CASE BatchStaged(b)
    BY <2>4, BatchStagedKeeps
  <2>5. CASE SealEffects(b)
    BY <2>5, SealEffectsKeeps
  <2>6. CASE SealGeneration(b)
    BY <2>6, SealGenerationKeeps
  <2>7. CASE SealFiles(b)
    BY <2>7, SealFilesKeeps
  <2>8. CASE AdmitRoot(b)
    BY <2>8, AdmitRootKeeps
  <2>9. CASE PersistReceipt(b)
    BY <2>9, PersistReceiptKeeps
  <2>10. CASE CommitRoot(b)
    BY <2>10, CommitRootKeeps
  <2>11. CASE FaultBuild(b)
    BY <2>11, FailBuildKeeps DEF FaultBuild
  <2> QED BY <2>1, <2>2, <2>3, <2>4, <2>5, <2>6, <2>7, <2>8, <2>9, <2>10, <2>11 DEF BuildStep
<1>2. CASE UNCHANGED rootVars
  BY <1>2 DEF rootVars, RootInv, DepositedIsWhole, EpochIsBacked
<1> QED BY <1>1, <1>2

\* unicode_root_pg.c, for any roots, tables, requests and concurrent calls: a committed
\* generation row means the tables hold that whole root and no row of it besides, and
\* the active epoch is backed by a generation, a receipt and the published artifacts.
THEOREM RootsAreWhole == RootAssumption => (RootSpec => []RootDepositIsWhole)
<1> SUFFICES ASSUME RootAssumption PROVE RootSpec => []RootDepositIsWhole
  OBVIOUS
<1>1. RootInit => RootInv
  BY InitRoot
<1>2. RootInv /\ [RootNext]_rootVars => RootInv'
  BY StepRoot
<1>3. RootInv => RootDepositIsWhole
  BY DEF RootInv, RootDepositIsWhole
<1> QED BY <1>1, <1>2, <1>3, PTL DEF RootSpec

(***************************************************************************)
(* Standing.                                                               *)
(***************************************************************************)

\* The rows committed or inserted by some transaction.
RatedRows == standings \cup UNION {rating[s].own : s \in Raters}

\* No two rows share a unique key.
OneKey(rows) == \A x, y \in rows : UniqueKeys(x) \cap UniqueKeys(y) # {} => x = y

\* A state as it can be named; nothing was rated before the first period.
NamedState(x) == x.ordinal \in Nat /\ x.matches \in Nat /\ (x.ordinal = 0 => x.matches = 0)

RowOfTable(r) ==
    \/ r.table = "state" /\ r = StateRow(r.state) /\ NamedState(r.state)
    \/ r.table \in {"event", "receipt"}

\* A request the calculation accepted, and the rows it may write.
AcceptedRequest(q) ==
    /\ Len(q.events) \in Nat /\ DOMAIN q.events = 1 .. Len(q.events)
    /\ \A i, j \in DOMAIN q.events : q.events[i].root = q.events[j].root => i = j
    /\ \A x \in Parties(q) : NamedState(x)

InitialRows(q) == {StateRow(x) : x \in {y \in Parties(q) : y.ordinal = 0}}
RequestRows(q) == InitialRows(q) \cup EventRows(q) \cup {StateRow(Successor(q)), RatingReceipt(q)}

\* A transaction wrote rows of its request only, and sees what it verified.
RatingInv(t, committed) ==
    LET q == t.request
        seen == committed \cup t.own
    IN /\ t = [step |-> t.step, reply |-> t.reply, todo |-> t.todo, own |-> t.own, request |-> t.request]
       /\ t.step \in {"idle", "states", "events", "successor", "receipt", "commit"}
       /\ t.step = "idle" => t.own = {} /\ t.todo = <<>>
       /\ t.step # "idle" =>
            /\ AcceptedRequest(q) /\ t.own \subseteq RequestRows(q) /\ t.todo \in Seq(RequestRows(q))
       /\ t.step \in {"events", "successor", "receipt", "commit"} => Parties(q) \subseteq StatesIn(seen)
       /\ t.step \in {"successor", "receipt", "commit"} => EventRows(q) \subseteq seen
       /\ t.step \in {"receipt", "commit"} => Successor(q) \in StatesIn(seen)
       /\ t.step = "commit" => RatingReceipt(q) \in seen

Behind(rows, s) == {e \in EventsIn(rows) : e.prior.coord = s.coord /\ e.prior.ordinal < s.ordinal}

\* Every state but a first has its prior, its receipt and the events of its period.
Succeeds(rows) ==
    \A s \in StatesIn(rows) : s.ordinal > 0 =>
        /\ s.prior \in StatesIn(rows) /\ s.prior.coord = s.coord /\ s.prior.ordinal = s.ordinal - 1
        /\ \E r \in ReceiptsIn(rows) : r.successor = s /\ r.members = {e \in EventsIn(rows) : e.prior = s.prior}

\* Every event is a member of a receipt, and a receipt stands with all it names.
ReceiptsStand(rows) ==
    /\ \A e \in EventsIn(rows) : \E r \in ReceiptsIn(rows) : e \in r.members
    /\ \A r \in ReceiptsIn(rows) :
        /\ r.successor \in StatesIn(rows) /\ r.successor.ordinal > 0
        /\ \A e \in r.members : e \in rows /\ e.table = "event" /\ e.prior = r.successor.prior

\* The ordinals of a coordinate have no gap.
Gapless(rows) ==
    \A s \in StatesIn(rows) : \A m \in 0 .. s.ordinal :
        \E t \in StatesIn(rows) : t.coord = s.coord /\ t.ordinal = m

MatchesCounted(rows) ==
    \A s \in StatesIn(rows) : IsFiniteSet(Behind(rows, s)) /\ s.matches = Cardinality(Behind(rows, s))

Published(rows) ==
    /\ \A r \in rows : RowOfTable(r)
    /\ Succeeds(rows) /\ ReceiptsStand(rows) /\ Gapless(rows) /\ MatchesCounted(rows)

StandingInv ==
    /\ DOMAIN rating = Raters
    /\ \A s \in Raters : RatingInv(rating[s], standings)
    /\ \A x \in KnownStates : NamedState(x)
    /\ OneKey(RatedRows)
    /\ Published(standings)

LEMMA StatesOfRows ==
    ASSUME NEW rows, \A r \in rows : RowOfTable(r)
    PROVE  /\ \A x \in StatesIn(rows) : StateRow(x) \in rows /\ NamedState(x)
           /\ \A r \in rows : r.table \in {"state", "event", "receipt"}
BY DEF StatesIn, RowOfTable, StateRow

LEMMA StateInRows == ASSUME NEW rows, NEW x PROVE (StateRow(x) \in rows => x \in StatesIn(rows))
<1>1. StateRow(x).table = "state" /\ StateRow(x).state = x
  BY DEF StateRow
<1> QED BY <1>1 DEF StatesIn

LEMMA TablesGrow ==
    ASSUME NEW rows, NEW more, rows \subseteq more
    PROVE  /\ StatesIn(rows) \subseteq StatesIn(more) /\ EventsIn(rows) \subseteq EventsIn(more)
           /\ ReceiptsIn(rows) \subseteq ReceiptsIn(more)
BY DEF StatesIn, EventsIn, ReceiptsIn

\* What the unique keys of the tables say.
LEMMA OneStatePerOrdinal ==
    ASSUME NEW rows, OneKey(rows), NEW x, NEW y, StateRow(x) \in rows, StateRow(y) \in rows,
           x.coord = y.coord, x.ordinal = y.ordinal
    PROVE  x = y
<1>1. /\ StateRow(x).table = "state" /\ StateRow(x).state = x
      /\ StateRow(y).table = "state" /\ StateRow(y).state = y
  BY DEF StateRow
<1>2. UniqueKeys(StateRow(x)) = StateKeys(x) /\ UniqueKeys(StateRow(y)) = StateKeys(y)
  BY <1>1 DEF UniqueKeys
<1>3. <<"ordinal", x.coord, x.ordinal>> \in StateKeys(x) /\ <<"ordinal", x.coord, x.ordinal>> \in StateKeys(y)
  BY DEF StateKeys
<1>4. StateRow(x) = StateRow(y)
  BY <1>2, <1>3 DEF OneKey
<1> QED BY <1>1, <1>4

LEMMA OneReceiptPerSuccessor ==
    ASSUME NEW rows, OneKey(rows), NEW x \in ReceiptsIn(rows), NEW y \in ReceiptsIn(rows), x.successor = y.successor
    PROVE  x = y
<1>1. UniqueKeys(x) = ReceiptKeys(x) /\ UniqueKeys(y) = ReceiptKeys(y)
  BY DEF UniqueKeys, ReceiptsIn
<1>2. <<"successor", x.successor>> \in ReceiptKeys(x) /\ <<"successor", x.successor>> \in ReceiptKeys(y)
  BY DEF ReceiptKeys
<1> QED BY <1>1, <1>2 DEF OneKey, ReceiptsIn

LEMMA OneEventPerRoot ==
    ASSUME NEW rows, OneKey(rows), NEW x \in EventsIn(rows), NEW y \in EventsIn(rows),
           x.prior.coord = y.prior.coord, x.root = y.root
    PROVE  x = y
<1>1. /\ UniqueKeys(x) = {<<"event", x>>, <<"root", x.prior.coord, x.root>>}
      /\ UniqueKeys(y) = {<<"event", y>>, <<"root", y.prior.coord, y.root>>}
  BY DEF UniqueKeys, EventsIn
<1>2. <<"root", x.prior.coord, x.root>> \in UniqueKeys(x) /\ <<"root", x.prior.coord, x.root>> \in UniqueKeys(y)
  BY <1>1
<1> QED BY <1>2 DEF OneKey, EventsIn

LEMMA SubsetHasOneKey ==
    ASSUME NEW rows, OneKey(rows), NEW some, some \subseteq rows
    PROVE  OneKey(some)
BY DEF OneKey

LEMMA FunctionIsList == ASSUME NEW n \in Nat, NEW S, NEW f \in [1 .. n -> S] PROVE f \in Seq(S) /\ Len(f) = n
OBVIOUS

\* A list of the elements of a finite set has no others.
LEMMA ListOfSet == ASSUME NEW S, IsFiniteSet(S) PROVE SetToSeq(S) \in Seq(S)
<1>1. Cardinality(S) \in Nat /\ ExistsBijection(1 .. Cardinality(S), S)
  BY FS_CardinalityType
<1>2. PICK f \in [1 .. Cardinality(S) -> S] : IsInjective(f)
  BY <1>1 DEF ExistsBijection, Bijection, Injection, IsInjective
<1>3. SetToSeq(S) \in [1 .. Cardinality(S) -> S]
  BY <1>2 DEF SetToSeq
<1> QED BY <1>1, <1>3

LEMMA EventsOfRequest ==
    ASSUME NEW q, AcceptedRequest(q)
    PROVE  /\ IsFiniteSet(EventRows(q)) /\ Cardinality(EventRows(q)) = Len(q.events)
           /\ \A e \in EventRows(q) : e.table = "event" /\ e.prior = q.prior
<1> DEFINE n == Len(q.events)
           f == [i \in 1 .. n |-> EventRow(q, q.events[i])]
<1>1. n \in Nat /\ DOMAIN q.events = 1 .. n
  BY DEF AcceptedRequest
<1>2. EventRows(q) = {f[i] : i \in 1 .. n}
  BY <1>1 DEF EventRows, ToSet
<1>3. \A i \in 1 .. n : f[i].root = q.events[i].root
  BY DEF EventRow
<1> HIDE DEF f
<1>4. \A i, j \in 1 .. n : f[i] = f[j] => i = j
  BY <1>1, <1>3 DEF AcceptedRequest
<1>5. f \in Bijection(1 .. n, EventRows(q))
  <2>1. f \in [1 .. n -> EventRows(q)]
    BY <1>2 DEF f
  <2> QED BY <2>1, <1>2, <1>4 DEF Bijection, Injection, Surjection, IsInjective
<1>6. IsFiniteSet(1 .. n) /\ Cardinality(1 .. n) = n
  BY <1>1, FS_Interval
<1>7. IsFiniteSet(EventRows(q)) /\ Cardinality(EventRows(q)) = n
  BY <1>5, <1>6, FS_Bijection DEF ExistsBijection
<1>8. \A e \in EventRows(q) : e.table = "event" /\ e.prior = q.prior
  BY DEF EventRows, EventRow
<1> QED BY <1>7, <1>8

LEMMA PriorsOfEvents ==
    ASSUME NEW rows, Published(rows), NEW e \in EventsIn(rows)
    PROVE  /\ e.prior \in StatesIn(rows) /\ NamedState(e.prior)
           /\ \E s \in StatesIn(rows) : s.prior = e.prior /\ s.coord = e.prior.coord /\ s.ordinal = e.prior.ordinal + 1
<1>1. PICK r \in ReceiptsIn(rows) : e \in r.members
  BY DEF Published, ReceiptsStand
<1>2. r.successor \in StatesIn(rows) /\ r.successor.ordinal > 0 /\ e.prior = r.successor.prior
  BY <1>1 DEF Published, ReceiptsStand
<1>3. /\ r.successor.prior \in StatesIn(rows) /\ r.successor.prior.coord = r.successor.coord
      /\ r.successor.prior.ordinal = r.successor.ordinal - 1
  BY <1>2 DEF Published, Succeeds
<1>4. NamedState(e.prior) /\ NamedState(r.successor)
  BY <1>2, <1>3, StatesOfRows DEF Published
<1> QED BY <1>2, <1>3, <1>4 DEF NamedState

\* First states of participants change nothing for the others.
LEMMA AddInitial ==
    ASSUME NEW rows, Published(rows), NEW first,
           \A r \in first : \E x : r = StateRow(x) /\ x.ordinal = 0 /\ NamedState(x)
    PROVE  Published(rows \cup first)
<1> DEFINE all == rows \cup first
<1>1. \A r \in first : r.table = "state" /\ r = StateRow(r.state) /\ r.state.ordinal = 0 /\ NamedState(r.state)
  BY DEF StateRow
<1>2. EventsIn(all) = EventsIn(rows) /\ ReceiptsIn(all) = ReceiptsIn(rows)
  BY <1>1 DEF EventsIn, ReceiptsIn
<1>3. StatesIn(rows) \subseteq StatesIn(all)
  BY DEF StatesIn
<1>4. \A s \in StatesIn(all) : s \in StatesIn(rows) \/ (s.ordinal = 0 /\ NamedState(s))
  BY <1>1 DEF StatesIn
<1>5. \A r \in all : RowOfTable(r)
  BY <1>1 DEF Published, RowOfTable
<1>6. \A s : Behind(all, s) = Behind(rows, s)
  BY <1>2 DEF Behind
<1> HIDE DEF all
<1>7. Succeeds(all)
  <2> SUFFICES ASSUME NEW s \in StatesIn(all), s.ordinal > 0
               PROVE  /\ s.prior \in StatesIn(all) /\ s.prior.coord = s.coord /\ s.prior.ordinal = s.ordinal - 1
                      /\ \E r \in ReceiptsIn(all) :
                            r.successor = s /\ r.members = {e \in EventsIn(all) : e.prior = s.prior}
    BY DEF Succeeds
  <2>1. s \in StatesIn(rows)
    BY <1>4
  <2>2. /\ s.prior \in StatesIn(rows) /\ s.prior.coord = s.coord /\ s.prior.ordinal = s.ordinal - 1
        /\ \E r \in ReceiptsIn(rows) :
              r.successor = s /\ r.members = {e \in EventsIn(rows) : e.prior = s.prior}
    BY <2>1 DEF Published, Succeeds
  <2> QED BY <2>2, <1>2, <1>3
<1>8. ReceiptsStand(all)
  <2>1. \A e : e \in rows => e \in all
    BY DEF all
  <2> QED BY <2>1, <1>2, <1>3 DEF Published, ReceiptsStand
<1>9. Gapless(all)
  <2> SUFFICES ASSUME NEW s \in StatesIn(all), NEW m \in 0 .. s.ordinal
               PROVE  \E t \in StatesIn(all) : t.coord = s.coord /\ t.ordinal = m
    BY DEF Gapless
  <2>1. CASE s \in StatesIn(rows)
    BY <2>1, <1>3 DEF Published, Gapless
  <2>2. CASE s.ordinal = 0
    BY <2>2
  <2> QED BY <2>1, <2>2, <1>4
<1>10. MatchesCounted(all)
  <2> SUFFICES ASSUME NEW s \in StatesIn(all)
               PROVE  IsFiniteSet(Behind(rows, s)) /\ s.matches = Cardinality(Behind(rows, s))
    BY <1>6 DEF MatchesCounted
  <2>1. CASE s \in StatesIn(rows)
    BY <2>1 DEF Published, MatchesCounted
  <2>2. CASE s.ordinal = 0 /\ NamedState(s)
    <3>1. \A e \in EventsIn(rows) : e.prior.ordinal \in Nat
      BY PriorsOfEvents DEF NamedState
    <3>2. Behind(rows, s) = {}
      BY <3>1, <2>2 DEF Behind
    <3> QED BY <3>2, <2>2, FS_EmptySet DEF NamedState
  <2> QED BY <2>1, <2>2, <1>4
<1> QED BY <1>5, <1>7, <1>8, <1>9, <1>10 DEF Published, all

\* A period: the events, the successor and the receipt over a stored prior state.
PeriodRows(q) == EventRows(q) \cup {StateRow(Successor(q)), RatingReceipt(q)}

LEMMA AddPeriod ==
    ASSUME NEW rows, Published(rows), NEW q, AcceptedRequest(q), q.prior \in StatesIn(rows),
           Successor(q) \notin StatesIn(rows), OneKey(rows \cup PeriodRows(q))
    PROVE  Published(rows \cup PeriodRows(q))
<1> DEFINE all == rows \cup PeriodRows(q)
           p == q.prior
           next == Successor(q)
           receipt == RatingReceipt(q)
<1>1. NamedState(p) /\ StateRow(p) \in rows
  BY StatesOfRows DEF Published
<1>2. /\ next.coord = p.coord /\ next.prior = p /\ next.ordinal = p.ordinal + 1
      /\ next.matches = p.matches + Len(q.events) /\ Len(q.events) \in Nat
  BY DEF Successor, AcceptedRequest
<1>3. /\ receipt.table = "receipt" /\ receipt.successor = next /\ receipt.members = EventRows(q)
      /\ StateRow(next).table = "state" /\ StateRow(next).state = next
  BY DEF RatingReceipt, StateRow
<1>4. NamedState(next) /\ next.ordinal > 0
  BY <1>1, <1>2 DEF NamedState
<1>5. \A e \in EventRows(q) : e.table = "event" /\ e.prior = p
  BY EventsOfRequest
<1> HIDE DEF next, receipt, p
<1>6. /\ StatesIn(all) = StatesIn(rows) \cup {next}
      /\ EventsIn(all) = EventsIn(rows) \cup EventRows(q)
      /\ ReceiptsIn(all) = ReceiptsIn(rows) \cup {receipt}
  <2>1. PeriodRows(q) = EventRows(q) \cup {StateRow(next), receipt}
    BY DEF PeriodRows, next, receipt
  <2>2. StatesIn(all) = StatesIn(rows) \cup {next}
    BY <2>1, <1>3, <1>5 DEF StatesIn
  <2> QED BY <2>1, <2>2, <1>3, <1>5 DEF EventsIn, ReceiptsIn
<1>7. \A r \in all : RowOfTable(r)
  <2>1. RowOfTable(StateRow(next)) /\ RowOfTable(receipt)
    BY <1>3, <1>4 DEF RowOfTable
  <2>2. \A e \in EventRows(q) : RowOfTable(e)
    BY <1>5 DEF RowOfTable
  <2> QED BY <2>1, <2>2 DEF Published, PeriodRows, next, receipt
<1> HIDE DEF all
\* The coordinate had no later state, and so the prior state had no event.
<1>8. \A s \in StatesIn(rows) : NamedState(s) /\ (s.coord = p.coord => s.ordinal <= p.ordinal)
  <2> SUFFICES ASSUME NEW s \in StatesIn(rows), s.coord = p.coord, s.ordinal > p.ordinal, NamedState(s)
               PROVE  FALSE
    BY <1>1, StatesOfRows DEF Published, NamedState
  <2>1. next.ordinal \in 0 .. s.ordinal
    BY <1>1, <1>2 DEF NamedState
  <2>2. PICK t \in StatesIn(rows) : t.coord = s.coord /\ t.ordinal = next.ordinal
    BY <2>1 DEF Published, Gapless
  <2>3. StateRow(t) \in all /\ StateRow(next) \in all
    BY StatesOfRows DEF Published, PeriodRows, next, all
  <2>4. t = next
    <3>1. OneKey(all)
      BY DEF all
    <3> QED BY <3>1, <2>2, <2>3, <1>2, OneStatePerOrdinal
  <2> QED BY <2>2, <2>4 DEF next
<1>9. \A e \in EventsIn(rows) : NamedState(e.prior) /\ (e.prior.coord = p.coord => e.prior.ordinal < p.ordinal)
  BY <1>1, <1>8, PriorsOfEvents DEF NamedState
<1>10. \A s \in StatesIn(rows) : s.ordinal > 0 => s.prior # p
  <2> SUFFICES ASSUME NEW s \in StatesIn(rows), s.ordinal > 0, s.prior = p PROVE FALSE
    OBVIOUS
  <2>1. s.coord = p.coord /\ p.ordinal = s.ordinal - 1
    BY DEF Published, Succeeds
  <2> QED BY <2>1, <1>1, <1>8 DEF NamedState
<1>11. Succeeds(all)
  <2> SUFFICES ASSUME NEW s \in StatesIn(all), s.ordinal > 0
               PROVE  /\ s.prior \in StatesIn(all) /\ s.prior.coord = s.coord /\ s.prior.ordinal = s.ordinal - 1
                      /\ \E r \in ReceiptsIn(all) :
                            r.successor = s /\ r.members = {e \in EventsIn(all) : e.prior = s.prior}
    BY DEF Succeeds
  <2>1. CASE s \in StatesIn(rows)
    <3>1. {e \in EventsIn(all) : e.prior = s.prior} = {e \in EventsIn(rows) : e.prior = s.prior}
      BY <2>1, <1>5, <1>6, <1>10
    <3>2. /\ s.prior \in StatesIn(rows) /\ s.prior.coord = s.coord /\ s.prior.ordinal = s.ordinal - 1
          /\ \E r \in ReceiptsIn(rows) :
                r.successor = s /\ r.members = {e \in EventsIn(rows) : e.prior = s.prior}
      BY <2>1 DEF Published, Succeeds
    <3> QED BY <3>1, <3>2, <1>6
  <2>2. CASE s = next
    <3>1. \A e \in EventsIn(rows) : e.prior # p
      BY <1>1, <1>9 DEF NamedState
    <3>2. {e \in EventsIn(all) : e.prior = p} = EventRows(q)
      BY <3>1, <1>5, <1>6
    <3>3. p \in StatesIn(all)
      BY <1>6 DEF p
    <3>4. receipt \in ReceiptsIn(all) /\ receipt.members = {e \in EventsIn(all) : e.prior = s.prior}
      BY <3>2, <2>2, <1>2, <1>3, <1>6
    <3>5. p.ordinal = next.ordinal - 1
      BY <1>1, <1>2 DEF NamedState
    <3> QED BY <3>3, <3>4, <3>5, <2>2, <1>2, <1>3
  <2> QED BY <2>1, <2>2, <1>6
<1>12. ReceiptsStand(all)
  <2>1. \A e \in EventsIn(all) : \E r \in ReceiptsIn(all) : e \in r.members
    BY <1>3, <1>6 DEF Published, ReceiptsStand
  <2>2. ASSUME NEW r \in ReceiptsIn(all)
        PROVE  /\ r.successor \in StatesIn(all) /\ r.successor.ordinal > 0
               /\ \A e \in r.members : e \in all /\ e.table = "event" /\ e.prior = r.successor.prior
    <3>1. CASE r \in ReceiptsIn(rows)
      BY <3>1, <1>6 DEF Published, ReceiptsStand, all
    <3>2. CASE r = receipt
      BY <3>2, <1>2, <1>3, <1>4, <1>5, <1>6 DEF PeriodRows, all
    <3> QED BY <3>1, <3>2, <1>6
  <2> QED BY <2>1, <2>2 DEF ReceiptsStand
<1>13. Gapless(all)
  <2> SUFFICES ASSUME NEW s \in StatesIn(all), NEW m \in 0 .. s.ordinal
               PROVE  \E t \in StatesIn(all) : t.coord = s.coord /\ t.ordinal = m
    BY DEF Gapless
  <2>1. CASE s \in StatesIn(rows)
    BY <2>1, <1>6 DEF Published, Gapless
  <2>2. CASE s = next /\ m = next.ordinal
    BY <2>2, <1>6
  <2>3. CASE s = next /\ m # next.ordinal
    <3>1. m \in 0 .. p.ordinal
      BY <2>3, <1>1, <1>2 DEF NamedState
    <3>2. p \in StatesIn(rows)
      BY DEF p
    <3>3. \E t \in StatesIn(rows) : t.coord = p.coord /\ t.ordinal = m
      BY <3>1, <3>2 DEF Published, Gapless
    <3> QED BY <3>3, <2>3, <1>2, <1>6
  <2> QED BY <2>1, <2>2, <2>3, <1>6
<1>14. MatchesCounted(all)
  <2>1. ASSUME NEW s \in StatesIn(rows) PROVE Behind(all, s) = Behind(rows, s)
    <3>1. NamedState(s) /\ (s.coord = p.coord => s.ordinal <= p.ordinal)
      BY <1>8
    <3>2. \A e \in EventRows(q) : ~(e.prior.coord = s.coord /\ e.prior.ordinal < s.ordinal)
      BY <3>1, <1>1, <1>5 DEF NamedState
    <3> QED BY <3>2, <1>6 DEF Behind
  <2>2. Behind(all, next) = Behind(rows, p) \cup EventRows(q)
    <3>1. \A e \in EventRows(q) : e.prior.coord = next.coord /\ e.prior.ordinal < next.ordinal
      BY <1>1, <1>2, <1>5 DEF NamedState
    <3>2. \A e \in EventsIn(rows) : (e.prior.coord = next.coord /\ e.prior.ordinal < next.ordinal)
                                      <=> (e.prior.coord = p.coord /\ e.prior.ordinal < p.ordinal)
      <4> SUFFICES ASSUME NEW e \in EventsIn(rows), e.prior.coord = p.coord
                   PROVE  e.prior.ordinal < next.ordinal <=> e.prior.ordinal < p.ordinal
        BY <1>2
      <4> QED BY <1>1, <1>2, <1>9 DEF NamedState
    <3> QED BY <3>1, <3>2, <1>6 DEF Behind
  <2>3. Behind(rows, p) \cap EventRows(q) = {}
    BY <1>1, <1>5 DEF Behind, NamedState
  <2>4. IsFiniteSet(Behind(rows, p)) /\ p.matches = Cardinality(Behind(rows, p))
    BY DEF Published, MatchesCounted, p
  <2>5. IsFiniteSet(EventRows(q)) /\ Cardinality(EventRows(q)) = Len(q.events)
    BY EventsOfRequest
  <2>6. IsFiniteSet(Behind(all, next)) /\ Cardinality(Behind(all, next)) = p.matches + Len(q.events)
    <3>1. Cardinality(Behind(rows, p) \cap EventRows(q)) = 0
      BY <2>3, FS_EmptySet
    <3>2. /\ IsFiniteSet(Behind(rows, p) \cup EventRows(q))
          /\ Cardinality(Behind(rows, p) \cup EventRows(q)) =
                Cardinality(Behind(rows, p)) + Cardinality(EventRows(q)) - Cardinality(Behind(rows, p) \cap EventRows(q))
      BY <2>4, <2>5, FS_Union
    <3>3. p.matches \in Nat
      BY <1>1 DEF NamedState
    <3> QED BY <3>1, <3>2, <3>3, <2>2, <2>4, <2>5, <1>2
  <2>7. \A s \in StatesIn(rows) : IsFiniteSet(Behind(rows, s)) /\ s.matches = Cardinality(Behind(rows, s))
    BY DEF Published, MatchesCounted
  <2> QED BY <2>1, <2>6, <2>7, <1>2, <1>6 DEF MatchesCounted
<1> QED BY <1>7, <1>11, <1>12, <1>13, <1>14 DEF Published, all

LEMMA RowsOfRequest ==
    ASSUME NEW q, AcceptedRequest(q)
    PROVE  /\ \A r \in InitialRows(q) : \E x : r = StateRow(x) /\ x.ordinal = 0 /\ NamedState(x)
           /\ \A r \in RequestRows(q) :
                \/ r \in InitialRows(q) /\ r.table = "state"
                \/ r \in EventRows(q) /\ r.table = "event"
                \/ r = StateRow(Successor(q)) /\ r.table = "state"
                \/ r = RatingReceipt(q) /\ r.table = "receipt"
           /\ \A r \in RequestRows(q) : r.table = "state" => r = StateRow(r.state)
           /\ NamedState(Successor(q)) /\ Successor(q).ordinal > 0
           /\ Successor(q).ordinal # q.prior.ordinal /\ RatingReceipt(q).successor = Successor(q)
<1>1. \A x : StateRow(x).table = "state" /\ StateRow(x).state = x
  BY DEF StateRow
<1>2. RatingReceipt(q).table = "receipt" /\ RatingReceipt(q).successor = Successor(q)
  BY DEF RatingReceipt
<1>3. \A e \in EventRows(q) : e.table = "event"
  BY EventsOfRequest
<1>4. \A r \in InitialRows(q) : \E x : r = StateRow(x) /\ x.ordinal = 0 /\ NamedState(x)
  BY DEF InitialRows, AcceptedRequest
<1>5. NamedState(q.prior)
  BY DEF AcceptedRequest, Parties
<1>6. Successor(q).ordinal = q.prior.ordinal + 1 /\ Successor(q).matches = q.prior.matches + Len(q.events)
  BY DEF Successor
<1>7. NamedState(Successor(q)) /\ Successor(q).ordinal > 0 /\ Successor(q).ordinal # q.prior.ordinal
  BY <1>5, <1>6 DEF NamedState, AcceptedRequest
<1>8. \A r \in RequestRows(q) : \/ r \in InitialRows(q) /\ r.table = "state"
                                \/ r \in EventRows(q) /\ r.table = "event"
                                \/ r = StateRow(Successor(q)) /\ r.table = "state"
                                \/ r = RatingReceipt(q) /\ r.table = "receipt"
  BY <1>1, <1>2, <1>3, <1>4 DEF RequestRows
<1>9. \A r \in RequestRows(q) : r.table = "state" => r = StateRow(r.state)
  BY <1>1, <1>4, <1>8
<1> QED BY <1>2, <1>4, <1>7, <1>8, <1>9

\* A transaction that verified all four statements may publish what it wrote: it
\* repeats a period that stands, or is the only one to write it.
LEMMA CommitPublishes ==
    ASSUME NEW committed, NEW own, NEW q, Published(committed), AcceptedRequest(q), own \subseteq RequestRows(q),
           OneKey(committed \cup own), Parties(q) \subseteq StatesIn(committed \cup own),
           EventRows(q) \subseteq committed \cup own, Successor(q) \in StatesIn(committed \cup own),
           RatingReceipt(q) \in committed \cup own
    PROVE  Published(committed \cup own)
<1> DEFINE seen == committed \cup own
           first == own \cap InitialRows(q)
           base == committed \cup first
<1>1. Published(base)
  BY AddInitial, RowsOfRequest
<1>2. \A x \in StatesIn(seen) : StateRow(x) \in seen
  BY RowsOfRequest, StatesOfRows DEF StatesIn, Published, RowOfTable
<1>3. CASE RatingReceipt(q) \in committed
  <2>1. RatingReceipt(q) \in ReceiptsIn(committed)
    BY <1>3 DEF ReceiptsIn, RatingReceipt
  <2>2. Successor(q) \in StatesIn(committed) /\ EventRows(q) \subseteq committed
    BY <2>1 DEF Published, ReceiptsStand, RatingReceipt
  <2>3. StateRow(Successor(q)) \in committed
    BY <2>2, StatesOfRows DEF Published
  <2>4. seen = base
    BY <2>2, <2>3, <1>3 DEF RequestRows
  <2> QED BY <1>1, <2>4
<1>4. CASE RatingReceipt(q) \notin committed
  <2>1. PeriodRows(q) \subseteq seen
    BY <1>2 DEF PeriodRows
  <2>2. seen = base \cup PeriodRows(q)
    BY <2>1 DEF RequestRows, PeriodRows
  <2>3. ReceiptsIn(base) \subseteq committed
    BY RowsOfRequest DEF ReceiptsIn, StateRow
  <2>4. Successor(q) \notin StatesIn(base)
    <3> SUFFICES ASSUME Successor(q) \in StatesIn(base) PROVE FALSE
      OBVIOUS
    <3>1. PICK r \in ReceiptsIn(base) : r.successor = Successor(q)
      BY <1>1, RowsOfRequest DEF Published, Succeeds
    <3>2. r \in ReceiptsIn(seen) /\ RatingReceipt(q) \in ReceiptsIn(seen)
      BY <3>1 DEF ReceiptsIn, RatingReceipt
    <3>3. r = RatingReceipt(q)
      BY <3>1, <3>2, RowsOfRequest, OneReceiptPerSuccessor
    <3> QED BY <3>1, <3>3, <2>3, <1>4
  <2>5. q.prior \in StatesIn(base)
    <3>1. StateRow(q.prior) \in seen
      BY <1>2 DEF Parties
    <3>2. StateRow(q.prior) \notin PeriodRows(q)
      <4>1. StateRow(q.prior).table = "state" /\ StateRow(q.prior).state = q.prior /\ StateRow(Successor(q)).state = Successor(q)
        BY DEF StateRow
      <4>2. q.prior # Successor(q)
        BY RowsOfRequest
      <4>3. RatingReceipt(q).table = "receipt"
        BY DEF RatingReceipt
      <4> QED BY <4>1, <4>2, <4>3, EventsOfRequest DEF PeriodRows
    <3> QED BY <3>1, <3>2, <2>2, StateInRows
  <2>6. OneKey(base \cup PeriodRows(q))
    BY <2>2
  <2>7. Published(base \cup PeriodRows(q))
    <3> HIDE DEF base
    <3> QED BY <1>1, <2>4, <2>5, <2>6, AddPeriod
  <2> QED BY <2>2, <2>7
<1> QED BY <1>3, <1>4

LEMMA RatingSeesMore ==
    ASSUME NEW t, NEW committed, NEW more, committed \subseteq more, RatingInv(t, committed)
    PROVE  RatingInv(t, more)
<1>1. committed \cup t.own \subseteq more \cup t.own
  OBVIOUS
<1>2. StatesIn(committed \cup t.own) \subseteq StatesIn(more \cup t.own)
  BY <1>1, TablesGrow
<1> QED BY <1>1, <1>2 DEF RatingInv

\* What the calculation accepts, and the rows of its first statement.
LEMMA RateAccepts ==
    ASSUME StandingAssumption, \A x \in KnownStates : NamedState(x),
           NEW prior \in KnownStates, NEW period, NEW list \in RootLists, NEW met \in EventsOf(list),
           NEW q, q = [prior |-> prior, period |-> period, events |-> met], Calculable(q)
    PROVE  AcceptedRequest(q) /\ RatingRows(q, "states") \in Seq(RequestRows(q))
<1>1. list \in Seq(ToSet(list)) /\ Len(list) \in Nat
  BY DEF StandingAssumption
<1>2. PICK o \in [1 .. Len(list) -> KnownStates] :
          met = [i \in 1 .. Len(list) |-> [root |-> list[i], opponent |-> o[i]]]
  BY DEF EventsOf
<1>3. /\ met \in Seq([root : ToSet(list), opponent : KnownStates]) /\ Len(met) = Len(list)
      /\ DOMAIN met = 1 .. Len(list) /\ \A i \in 1 .. Len(list) : met[i].opponent \in KnownStates
  <2>1. \A i \in 1 .. Len(list) : list[i] \in ToSet(list)
    BY <1>1 DEF ToSet
  <2>2. met \in [1 .. Len(list) -> [root : ToSet(list), opponent : KnownStates]]
    BY <1>2, <2>1
  <2>3. met \in Seq([root : ToSet(list), opponent : KnownStates])
    BY <1>1, <2>2, FunctionIsList
  <2>4. DOMAIN met = 1 .. Len(list)
    BY <2>2
  <2>5. Len(met) = Len(list)
    BY <1>1, <2>2, FunctionIsList
  <2>6. \A i \in 1 .. Len(list) : met[i].opponent \in KnownStates
    BY <2>2
  <2> QED BY <2>3, <2>4, <2>5, <2>6
<1>4. q.prior = prior /\ q.events = met
  OBVIOUS
<1>5. \A x \in Parties(q) : NamedState(x)
  BY <1>3, <1>4 DEF Parties, ToSet
<1>6. AcceptedRequest(q)
  BY <1>1, <1>3, <1>4, <1>5 DEF AcceptedRequest, Calculable
<1>7. IsFiniteSet(InitialRows(q))
  <2>1. IsFiniteSet(1 .. Len(list))
    BY <1>1, FS_Interval
  <2>2. IsFiniteSet({met[i].opponent : i \in 1 .. Len(list)})
    <3> DEFINE f == [i \in 1 .. Len(list) |-> met[i].opponent]
    <3>1. f \in Surjection(1 .. Len(list), {met[i].opponent : i \in 1 .. Len(list)})
      BY DEF Surjection
    <3> QED BY <3>1, <2>1, FS_Surjection DEF ExistsSurjection
  <2>3. Parties(q) = {met[i].opponent : i \in 1 .. Len(list)} \cup {prior}
    <3>1. ToSet(met) = {met[i] : i \in 1 .. Len(list)}
      BY <1>3 DEF ToSet
    <3>2. {e.opponent : e \in ToSet(met)} = {met[i].opponent : i \in 1 .. Len(list)}
      BY <3>1
    <3> QED BY <3>2, <1>4 DEF Parties
  <2>4. IsFiniteSet(Parties(q))
    BY <2>2, <2>3, FS_AddElement
  <2>5. IsFiniteSet({y \in Parties(q) : y.ordinal = 0})
    BY <2>4, FS_Subset
  <2> DEFINE start == {y \in Parties(q) : y.ordinal = 0}
             g == [x \in start |-> StateRow(x)]
  <2>6. g \in Surjection(start, InitialRows(q))
    BY DEF Surjection, InitialRows
  <2> QED BY <2>5, <2>6, FS_Surjection DEF ExistsSurjection
<1>8. RatingRows(q, "states") = SetToSeq(InitialRows(q))
  BY DEF RatingRows, InitialRows
<1>9. InitialRows(q) \subseteq RequestRows(q)
  BY DEF RequestRows
<1> QED BY <1>6, <1>7, <1>8, <1>9, ListOfSet

LEMMA HeadAndTail == ASSUME NEW S, NEW list \in Seq(S), list # <<>> PROVE Head(list) \in S /\ Tail(list) \in Seq(S)
OBVIOUS

\* A transaction and the fields a step gives it.
Fields(t, step, reply, todo, own, request) ==
    /\ t = [step |-> t.step, reply |-> t.reply, todo |-> t.todo, own |-> t.own, request |-> t.request]
    /\ t.step = step /\ t.reply = reply /\ t.todo = todo /\ t.own = own /\ t.request = request

LEMMA FieldsOf ==
    ASSUME NEW step, NEW reply, NEW todo, NEW own, NEW request
    PROVE  Fields([step |-> step, reply |-> reply, todo |-> todo, own |-> own, request |-> request], step, reply, todo, own, request)
BY DEF Fields

LEMMA FieldsAfterStep ==
    ASSUME NEW t, NEW step, NEW reply, NEW todo, NEW own, NEW request, Fields(t, step, reply, todo, own, request), NEW v
    PROVE  /\ Fields([t EXCEPT !.step = v], v, reply, todo, own, request)
           /\ Fields([t EXCEPT !.todo = v], step, reply, v, own, request)
           /\ Fields([t EXCEPT !.own = v], step, reply, todo, v, request)
           /\ Fields([t EXCEPT !.request = v], step, reply, todo, own, v)
<1>1. t = [step |-> step, reply |-> reply, todo |-> todo, own |-> own, request |-> request]
  BY DEF Fields
<1>2. [t EXCEPT !.step = v] = [step |-> v, reply |-> reply, todo |-> todo, own |-> own, request |-> request]
  BY <1>1
<1>3. [t EXCEPT !.todo = v] = [step |-> step, reply |-> reply, todo |-> v, own |-> own, request |-> request]
  BY <1>1
<1>4. [t EXCEPT !.own = v] = [step |-> step, reply |-> reply, todo |-> todo, own |-> v, request |-> request]
  BY <1>1
<1>5. [t EXCEPT !.request = v] = [step |-> step, reply |-> reply, todo |-> todo, own |-> own, request |-> v]
  BY <1>1
<1> QED BY <1>2, <1>3, <1>4, <1>5, FieldsOf

LEMMA IdleTransaction == ASSUME NEW word, NEW rows PROVE RatingInv([NotRating EXCEPT !.reply = word], rows)
<1> DEFINE t == [NotRating EXCEPT !.reply = word]
<1>1. /\ t = [step |-> t.step, reply |-> t.reply, todo |-> t.todo, own |-> t.own, request |-> t.request]
      /\ t.step = "idle" /\ t.own = {} /\ t.todo = <<>>
  BY DEF NotRating
<1> HIDE DEF t
<1>2. RatingInv(t, rows)
  BY <1>1 DEF RatingInv
<1> QED BY <1>2 DEF t

LEMMA OwnRows == ASSUME NEW s \in Raters PROVE standings \cup rating[s].own \subseteq RatedRows
BY DEF RatedRows

\* A step of one session that leaves the committed rows: its transaction and the keys are what changes.
LEMMA SessionStep ==
    ASSUME StandingInv, NEW s \in Raters, NEW t, rating' = [rating EXCEPT ![s] = t], standings' = standings,
           RatingInv(t, standings), OneKey(RatedRows \cup t.own), \A x \in KnownStates' : NamedState(x)
    PROVE  StandingInv'
<1>1. DOMAIN rating' = Raters /\ rating'[s] = t /\ \A o \in Raters \ {s} : rating'[o] = rating[o]
  BY DEF StandingInv
<1>2. \A o \in Raters : RatingInv(rating'[o], standings')
  BY <1>1 DEF StandingInv
<1>3. RatedRows' \subseteq RatedRows \cup t.own
  BY <1>1 DEF RatedRows
<1>4. OneKey(RatedRows')
  BY <1>3, SubsetHasOneKey
<1> QED BY <1>1, <1>2, <1>4 DEF StandingInv

LEMMA StandingRate ==
    ASSUME StandingAssumption, StandingInv, NEW s \in Raters, RateStep(s)
    PROVE  StandingInv'
<1>1. PICK prior \in KnownStates, period \in RatingPeriods, list \in RootLists : \E met \in EventsOf(list) :
          Rate(s, [prior |-> prior, period |-> period, events |-> met])
  BY DEF RateStep
<1>2. PICK met \in EventsOf(list) : Rate(s, [prior |-> prior, period |-> period, events |-> met])
  BY <1>1
<1> DEFINE q == [prior |-> prior, period |-> period, events |-> met]
<1>3. Rate(s, q)
  BY <1>2
<1>4. \A x \in KnownStates : NamedState(x)
  BY DEF StandingInv
<1>5. Calculable(q) => AcceptedRequest(q) /\ RatingRows(q, "states") \in Seq(RequestRows(q))
  BY <1>4, RateAccepts
<1> HIDE DEF q
<1>6. CASE recipeAdmitted /\ Calculable(q)
  <2> DEFINE t == [NotRating EXCEPT !.step = "states", !.request = q, !.todo = RatingRows(q, "states")]
  <2>1. rating' = [rating EXCEPT ![s] = t] /\ standings' = standings /\ calculated' = calculated \cup {Successor(q)}
    BY <1>3, <1>6 DEF Rate
  <2>2. /\ t = [step |-> t.step, reply |-> t.reply, todo |-> t.todo, own |-> t.own, request |-> t.request]
        /\ t.step = "states" /\ t.own = {} /\ t.request = q /\ t.todo = RatingRows(q, "states")
    <3>1. Fields(NotRating, "idle", "none", <<>>, {}, <<>>)
      BY FieldsOf DEF NotRating
    <3>2. Fields([NotRating EXCEPT !.step = "states"], "states", "none", <<>>, {}, <<>>)
      BY <3>1, FieldsAfterStep
    <3>3. Fields([[NotRating EXCEPT !.step = "states"] EXCEPT !.request = q], "states", "none", <<>>, {}, q)
      BY <3>2, FieldsAfterStep
    <3>4. Fields(t, "states", "none", RatingRows(q, "states"), {}, q)
      BY <3>3, FieldsAfterStep
    <3> HIDE DEF t
    <3> QED BY <3>4 DEF Fields
  <2> HIDE DEF t
  <2>3. RatingInv(t, standings)
    BY <2>2, <1>5, <1>6 DEF RatingInv
  <2>4. NamedState(Successor(q))
    BY <1>5, <1>6, RowsOfRequest
  <2>5. \A x \in KnownStates' : NamedState(x)
    BY <1>4, <2>1, <2>4 DEF KnownStates
  <2>6. OneKey(RatedRows \cup t.own)
    BY <2>2 DEF StandingInv
  <2> QED BY <2>1, <2>3, <2>5, <2>6, SessionStep
<1>7. CASE ~(recipeAdmitted /\ Calculable(q))
  <2> DEFINE t == [NotRating EXCEPT !.reply = "refused"]
  <2>1. rating' = [rating EXCEPT ![s] = t] /\ standings' = standings /\ calculated' = calculated
    BY <1>3, <1>7 DEF Rate
  <2>2. RatingInv(t, standings) /\ t.own = {}
    BY IdleTransaction DEF NotRating
  <2>3. \A x \in KnownStates' : NamedState(x)
    BY <1>4, <2>1 DEF KnownStates
  <2>4. OneKey(RatedRows \cup t.own)
    BY <2>2 DEF StandingInv
  <2> HIDE DEF t
  <2> QED BY <2>1, <2>2, <2>3, <2>4, SessionStep
<1> QED BY <1>6, <1>7

LEMMA StandingInsert ==
    ASSUME StandingInv, NEW s \in Raters, InsertRow(s)
    PROVE  StandingInv'
<1> DEFINE r == Head(rating[s].todo)
           own == rating[s].own
           wider == IF KeyTaken(r, standings \cup own) THEN own ELSE own \cup {r}
           t == [rating[s] EXCEPT !.todo = Tail(rating[s].todo), !.own = wider]
           q == rating[s].request
<1>1. /\ rating[s].todo # <<>> /\ ~KeyTaken(r, OthersRows(s)) /\ standings' = standings /\ calculated' = calculated
      /\ rating' = [rating EXCEPT ![s] = t]
  BY DEF InsertRow, StandingInv
<1>2. RatingInv(rating[s], standings)
  BY DEF StandingInv
<1>3. rating[s].step # "idle" /\ AcceptedRequest(q) /\ own \subseteq RequestRows(q) /\ rating[s].todo \in Seq(RequestRows(q))
  BY <1>1, <1>2 DEF RatingInv
<1>4. r \in RequestRows(q) /\ Tail(rating[s].todo) \in Seq(RequestRows(q))
  BY <1>1, <1>3, HeadAndTail
<1>5. /\ t = [step |-> t.step, reply |-> t.reply, todo |-> t.todo, own |-> t.own, request |-> t.request]
      /\ t.step = rating[s].step /\ t.own = wider /\ t.request = q /\ t.todo = Tail(rating[s].todo)
  <2>1. Fields(rating[s], rating[s].step, rating[s].reply, rating[s].todo, own, q)
    BY <1>2 DEF RatingInv, Fields
  <2> HIDE DEF wider, own, q
  <2>2. Fields([rating[s] EXCEPT !.todo = Tail(rating[s].todo)], rating[s].step, rating[s].reply, Tail(rating[s].todo), own, q)
    BY <2>1, FieldsAfterStep
  <2>3. Fields(t, rating[s].step, rating[s].reply, Tail(rating[s].todo), wider, q)
    BY <2>2, FieldsAfterStep
  <2> HIDE DEF t
  <2> QED BY <2>3 DEF Fields
<1>6. own \subseteq wider /\ wider \subseteq RequestRows(q)
  BY <1>3, <1>4
<1> HIDE DEF t, wider
<1>7. RatingInv(t, standings)
  <2>1. standings \cup own \subseteq standings \cup t.own
    BY <1>5, <1>6
  <2>2. StatesIn(standings \cup own) \subseteq StatesIn(standings \cup t.own)
    BY <2>1, TablesGrow
  <2> QED BY <2>1, <2>2, <1>2, <1>3, <1>4, <1>5, <1>6 DEF RatingInv
\* A row is inserted only where none holds one of its keys, committed or not.
<1>8. OneKey(RatedRows \cup t.own)
  <2>1. own \subseteq RatedRows /\ OneKey(RatedRows)
    BY OwnRows DEF StandingInv
  <2>2. CASE KeyTaken(r, standings \cup own)
    <3>1. RatedRows \cup t.own = RatedRows
      BY <2>1, <2>2, <1>5 DEF wider
    <3> QED BY <2>1, <3>1
  <2>3. CASE ~KeyTaken(r, standings \cup own)
    <3>1. RatedRows \cup t.own = RatedRows \cup {r}
      BY <2>1, <2>3, <1>5 DEF wider
    <3>2. RatedRows \subseteq standings \cup own \cup OthersRows(s)
      BY DEF RatedRows, OthersRows
    <3>3. \A x \in RatedRows : UniqueKeys(x) \cap UniqueKeys(r) = {}
      BY <3>2, <2>3, <1>1 DEF KeyTaken
    <3> HIDE DEF r
    <3>4. OneKey(RatedRows \cup {r})
      <4> SUFFICES ASSUME NEW x \in RatedRows \cup {r}, NEW y \in RatedRows \cup {r},
                          UniqueKeys(x) \cap UniqueKeys(y) # {}
                   PROVE  x = y
        BY DEF OneKey
      <4>1. CASE x \in RatedRows /\ y \in RatedRows
        BY <4>1, <2>1 DEF OneKey
      <4>2. CASE x = r /\ y = r
        BY <4>2
      <4>3. CASE x = r /\ y \in RatedRows
        BY <4>3, <3>3
      <4>4. CASE x \in RatedRows /\ y = r
        BY <4>4, <3>3
      <4> QED BY <4>1, <4>2, <4>3, <4>4
    <3> QED BY <3>1, <3>4
  <2> QED BY <2>2, <2>3
<1>9. \A x \in KnownStates' : NamedState(x)
  BY <1>1 DEF StandingInv, KnownStates
<1> QED BY <1>1, <1>7, <1>8, <1>9, SessionStep

\* The rows of the later statements.
LEMMA LaterStatements ==
    ASSUME NEW q, AcceptedRequest(q), NEW to \in {"events", "successor", "receipt"}
    PROVE  RatingRows(q, to) \in Seq(RequestRows(q))
<1>1. CASE to = "events"
  <2>1. RatingRows(q, to) = [i \in 1 .. Len(q.events) |-> EventRow(q, q.events[i])]
    BY <1>1 DEF RatingRows
  <2>2. \A i \in 1 .. Len(q.events) : EventRow(q, q.events[i]) \in RequestRows(q)
    BY DEF AcceptedRequest, RequestRows, EventRows, ToSet
  <2>3. RatingRows(q, to) \in [1 .. Len(q.events) -> RequestRows(q)]
    BY <2>1, <2>2
  <2> QED BY <2>3, FunctionIsList DEF AcceptedRequest
<1>2. CASE to = "successor"
  <2>1. RatingRows(q, to) = <<StateRow(Successor(q))>> /\ StateRow(Successor(q)) \in RequestRows(q)
    BY <1>2 DEF RatingRows, RequestRows
  <2> QED BY <2>1
<1>3. CASE to = "receipt"
  <2>1. RatingRows(q, to) = <<RatingReceipt(q)>> /\ RatingReceipt(q) \in RequestRows(q)
    BY <1>3 DEF RatingRows, RequestRows
  <2> QED BY <2>1
<1> QED BY <1>1, <1>2, <1>3

LEMMA StandingIdle ==
    ASSUME StandingInv, NEW s \in Raters, NEW word, rating' = [rating EXCEPT ![s] = [NotRating EXCEPT !.reply = word]],
           standings' = standings, calculated' = calculated
    PROVE  StandingInv'
<1> DEFINE t == [NotRating EXCEPT !.reply = word]
<1>1. RatingInv(t, standings) /\ t.own = {}
  BY IdleTransaction DEF NotRating
<1>2. OneKey(RatedRows \cup t.own) /\ \A x \in KnownStates' : NamedState(x)
  BY <1>1 DEF StandingInv, KnownStates
<1>3. rating' = [rating EXCEPT ![s] = t]
  OBVIOUS
<1> HIDE DEF t
<1> QED BY <1>1, <1>2, <1>3, SessionStep

LEMMA StandingVerify ==
    ASSUME StandingInv, NEW s \in Raters, VerifyStatement(s)
    PROVE  StandingInv'
<1> DEFINE u == rating[s]
           q == u.request
           to == NextStep[u.step]
<1>1. /\ u.step \in {"states", "events", "successor", "receipt"} /\ u.todo = <<>>
      /\ standings' = standings /\ calculated' = calculated
      /\ rating' = [rating EXCEPT ![s] =
            IF ~Verified(s) THEN [NotRating EXCEPT !.reply = "conflict"]
            ELSE IF to = "commit" THEN [u EXCEPT !.step = to]
            ELSE [u EXCEPT !.step = to, !.todo = RatingRows(q, to)]]
  BY DEF VerifyStatement, NextStep
<1>2. /\ u.step = "states" => to = "events"
      /\ u.step = "events" => to = "successor"
      /\ u.step = "successor" => to = "receipt"
      /\ u.step = "receipt" => to = "commit"
  BY DEF NextStep
<1>3. RatingInv(u, standings) /\ AcceptedRequest(q) /\ u.own \subseteq RequestRows(q)
  BY <1>1 DEF StandingInv, RatingInv
<1>4. CASE ~Verified(s)
  BY <1>1, <1>4, StandingIdle
<1>5. CASE Verified(s)
  <2> DEFINE rows == IF to = "commit" THEN <<>> ELSE RatingRows(q, to)
             t == IF to = "commit" THEN [u EXCEPT !.step = to] ELSE [u EXCEPT !.step = to, !.todo = RatingRows(q, to)]
  <2>1. rating' = [rating EXCEPT ![s] = t]
    BY <1>1, <1>5
  <2>2. Fields(t, to, u.reply, rows, u.own, q)
    <3>1. Fields(u, u.step, u.reply, <<>>, u.own, q)
      BY <1>1, <1>3 DEF RatingInv, Fields
    <3> HIDE DEF to, u, q
    <3>2. Fields([u EXCEPT !.step = to], to, u.reply, <<>>, u.own, q)
      BY <3>1, FieldsAfterStep
    <3>3. Fields([u EXCEPT !.step = to, !.todo = RatingRows(q, to)], to, u.reply, RatingRows(q, to), u.own, q)
      BY <3>2, FieldsAfterStep
    <3> QED BY <3>2, <3>3
  <2>3. rows \in Seq(RequestRows(q))
    <3>1. CASE to = "commit"
      BY <3>1
    <3>2. CASE to # "commit"
      <4>1. to \in {"events", "successor", "receipt"}
        BY <3>2, <1>1, <1>2
      <4> HIDE DEF to
      <4> QED BY <4>1, <3>2, <1>3, LaterStatements
    <3> QED BY <3>1, <3>2
  <2>4. /\ u.step = "states" => Parties(q) \subseteq StatesIn(standings \cup u.own)
        /\ u.step = "events" => EventRows(q) \subseteq standings \cup u.own
        /\ u.step = "successor" => Successor(q) \in StatesIn(standings \cup u.own)
        /\ u.step = "receipt" => RatingReceipt(q) \in standings \cup u.own
    BY <1>5 DEF Verified, SeenBy
  <2> HIDE DEF t, rows, to
  <2>5. RatingInv(t, standings)
    <3>1. /\ t = [step |-> t.step, reply |-> t.reply, todo |-> t.todo, own |-> t.own, request |-> t.request]
          /\ t.step = to /\ t.todo = rows /\ t.own = u.own /\ t.request = q
      BY <2>2 DEF Fields
    <3> HIDE DEF q, u
    <3>2. CASE u.step = "states"
      BY <3>1, <3>2, <2>3, <2>4, <1>2, <1>3 DEF RatingInv, q
    <3>3. CASE u.step = "events"
      BY <3>1, <3>3, <2>3, <2>4, <1>2, <1>3 DEF RatingInv, q
    <3>4. CASE u.step = "successor"
      BY <3>1, <3>4, <2>3, <2>4, <1>2, <1>3 DEF RatingInv, q
    <3>5. CASE u.step = "receipt"
      BY <3>1, <3>5, <2>3, <2>4, <1>2, <1>3 DEF RatingInv, q
    <3> QED BY <3>2, <3>3, <3>4, <3>5, <1>1
  <2>6. OneKey(RatedRows \cup t.own)
    <3>1. RatedRows \cup t.own = RatedRows
      BY <2>2, OwnRows DEF Fields
    <3> QED BY <3>1 DEF StandingInv
  <2>7. \A x \in KnownStates' : NamedState(x)
    BY <1>1 DEF StandingInv, KnownStates
  <2> QED BY <2>1, <2>5, <2>6, <2>7, <1>1, SessionStep
<1> QED BY <1>4, <1>5

LEMMA StandingCommit ==
    ASSUME StandingInv, NEW s \in Raters, CommitRating(s)
    PROVE  StandingInv'
<1> DEFINE own == rating[s].own
           t == [NotRating EXCEPT !.reply = "ok"]
<1>1. /\ rating[s].step = "commit" /\ standings' = standings \cup own /\ calculated' = calculated
      /\ rating' = [rating EXCEPT ![s] = t]
  BY DEF CommitRating
<1>2. OneKey(standings \cup own)
  BY OwnRows, SubsetHasOneKey DEF StandingInv
<1>3. Published(standings \cup own)
  <2>1. RatingInv(rating[s], standings) /\ Published(standings)
    BY DEF StandingInv
  <2> DEFINE q == rating[s].request
  <2>2. /\ AcceptedRequest(q) /\ own \subseteq RequestRows(q) /\ Parties(q) \subseteq StatesIn(standings \cup own)
        /\ EventRows(q) \subseteq standings \cup own /\ Successor(q) \in StatesIn(standings \cup own)
        /\ RatingReceipt(q) \in standings \cup own
    BY <2>1, <1>1 DEF RatingInv
  <2> QED BY <2>1, <2>2, <1>2, CommitPublishes
<1>4. t.own = {} /\ RatingInv(t, standings')
  BY IdleTransaction DEF NotRating
<1>5. DOMAIN rating' = Raters /\ rating'[s] = t /\ \A o \in Raters \ {s} : rating'[o] = rating[o]
  BY <1>1 DEF StandingInv
<1> HIDE DEF t
<1>6. \A o \in Raters : RatingInv(rating'[o], standings')
  <2>1. \A o \in Raters : RatingInv(rating[o], standings')
    BY <1>1, RatingSeesMore DEF StandingInv
  <2> QED BY <2>1, <1>4, <1>5
<1>7. RatedRows' \subseteq RatedRows
  BY <1>1, <1>4, <1>5 DEF RatedRows
<1>8. OneKey(RatedRows')
  BY <1>7, SubsetHasOneKey DEF StandingInv
<1>9. Published(standings') /\ \A x \in KnownStates' : NamedState(x)
  BY <1>1, <1>3 DEF StandingInv, KnownStates
<1> QED BY <1>5, <1>6, <1>8, <1>9 DEF StandingInv

LEMMA StandingStarts == ASSUME StandingAssumption, StandingInit PROVE StandingInv
<1>1. DOMAIN rating = Raters /\ \A s \in Raters : rating[s] = NotRating
  BY DEF StandingInit
<1>2. \A rows : RatingInv(NotRating, rows)
  <2>1. NotRating = [NotRating EXCEPT !.reply = "none"]
    BY DEF NotRating
  <2> QED BY <2>1, IdleTransaction
<1>3. RatedRows = {}
  BY <1>1 DEF StandingInit, RatedRows, NotRating
<1>4. \A x \in KnownStates : NamedState(x)
  BY DEF StandingInit, StandingAssumption, KnownStates, NamedState
<1>5. Published({})
  BY DEF Published, Succeeds, ReceiptsStand, Gapless, MatchesCounted, StatesIn, EventsIn, ReceiptsIn
<1> QED BY <1>1, <1>2, <1>3, <1>4, <1>5 DEF StandingInit, StandingInv, OneKey

LEMMA StandingSteps == ASSUME StandingAssumption, StandingInv, [StandingNext]_standingVars PROVE StandingInv'
<1>1. CASE AdmitRecipe
  <2>1. UNCHANGED <<rating, standings, calculated>>
    BY <1>1 DEF AdmitRecipe
  <2> QED BY <2>1 DEF StandingInv, RatedRows, KnownStates
<1>2. ASSUME NEW s \in Raters, RateStep(s) \/ InsertRow(s) \/ VerifyStatement(s) \/ CommitRating(s) \/ AbortRating(s)
      PROVE  StandingInv'
  <2>1. CASE RateStep(s)
    BY <2>1, StandingRate
  <2>2. CASE InsertRow(s)
    BY <2>2, StandingInsert
  <2>3. CASE VerifyStatement(s)
    BY <2>3, StandingVerify
  <2>4. CASE CommitRating(s)
    BY <2>4, StandingCommit
  <2>5. CASE AbortRating(s)
    BY <2>5, StandingIdle DEF AbortRating
  <2> QED BY <1>2, <2>1, <2>2, <2>3, <2>4, <2>5
<1>3. CASE UNCHANGED standingVars
  BY <1>3 DEF standingVars, StandingInv, RatedRows, KnownStates
<1> QED BY <1>1, <1>2, <1>3 DEF StandingNext

\* The invariant says what the readers of a history rely on.
LEMMA InvariantIsWhole == ASSUME StandingInv PROVE StandingIsWhole
<1>1. Published(standings) /\ OneKey(standings)
  <2>1. standings \subseteq RatedRows
    BY DEF RatedRows
  <2> QED BY <2>1, SubsetHasOneKey DEF StandingInv
<1>2. HistoriesAreWhole
  <2>1. \A s, t \in StatesIn(standings) : t.coord = s.coord /\ t.ordinal = s.ordinal => t = s
    BY <1>1, StatesOfRows, OneStatePerOrdinal DEF Published
  <2>2. Succeeds(standings)
    BY <1>1 DEF Published
  <2> QED BY <2>1, <2>2 DEF HistoriesAreWhole, Succeeds
<1>3. ASSUME NEW s \in StatesIn(standings)
      PROVE  /\ s.matches = Cardinality({e.root : e \in EventsBehind(s)})
             /\ s.matches = Cardinality(EventsBehind(s))
  <2> DEFINE behind == EventsBehind(s)
             roots == {e.root : e \in behind}
             f == [e \in behind |-> e.root]
  <2>1. IsFiniteSet(behind) /\ s.matches = Cardinality(behind)
    BY <1>1 DEF Published, MatchesCounted, Behind, EventsBehind
  <2>2. \A x, y \in behind : x.root = y.root => x = y
    BY <1>1, OneEventPerRoot DEF EventsBehind
  <2> HIDE DEF behind
  <2>3. f \in Bijection(behind, roots)
    BY <2>2 DEF Bijection, Injection, Surjection, IsInjective
  <2>4. Cardinality(roots) = Cardinality(behind)
    BY <2>1, <2>3, FS_Bijection DEF ExistsBijection
  <2> QED BY <2>1, <2>4 DEF behind
<1> QED BY <1>2, <1>3 DEF StandingIsWhole, MatchesAreDistinctRoots

\* standing_calculation_pg.c: for any participants, requests and number of sessions, a
\* participant has one history without gaps, each period of it stands with the receipt of
\* exactly its events, and its match counts are of distinct evidence roots.
THEOREM StandingsAreWhole == StandingAssumption => (StandingSpec => []StandingIsWhole)
<1> SUFFICES ASSUME StandingAssumption PROVE StandingSpec => []StandingIsWhole
  OBVIOUS
<1>1. StandingInit => StandingInv
  BY StandingStarts
<1>2. StandingInv /\ [StandingNext]_standingVars => StandingInv'
  BY StandingSteps
<1>3. StandingInv => StandingIsWhole
  BY InvariantIsWhole
<1> QED BY <1>1, <1>2, <1>3, PTL DEF StandingSpec

-----------------------------------------------------------------------------
(***************************************************************************)
(* Composition executions: the invariant.                                  *)
(***************************************************************************)

\* The fields of a store and of a transaction with its call.
IsStore(d) == DOMAIN d = {"rows", "deposits", "receipts", "members"}
IsCall(t) ==
    /\ DOMAIN t = {"pc", "own", "request", "plan", "novel", "seen", "calls"}
    /\ IsStore(t.own)
    /\ t.pc \in {"idle", "called", "resolved", "collision", "locked", "deposited", "receipt", "members", "conflict"}
    /\ t.pc = "idle" => t.own = NothingStored

\* What a call stages, the key it records under and the row it records.
StreamOf(t) == t.novel \cup t.request.occurrences
KeyOf(t) == [input |-> t.request.input, novel |-> t.novel]
ReceiptOf(t) ==
    [key |-> KeyOf(t),
     deposit |-> IF StreamOf(t) = {} THEN {} ELSE {[stream |-> StreamOf(t), plan |-> t.plan]}]

\* The members of an execution, by its key, and those among given members.
IdsOf(key) == {o.id : o \in RequestOf(key.input).occurrences}
RankIn(ids, i) == Cardinality({j \in ids : j <= i})
MembersFor(key) == {[key |-> key, occurrence |-> i, ordinal |-> RankIn(IdsOf(key), i)] : i \in IdsOf(key)}
MembersOf(members, key) == {m \in members : m.key = key}

\* Some receipt found c novel.
WasNovel(c, recorded) == \E q \in recorded : c \in q.key.novel

\* A receipt is true of these rows and receipts.
IsTrueOf(q, rows, recorded) ==
    LET request == RequestOf(q.key.input)
    IN /\ request \in Requests
       /\ request.candidates \cup request.occurrences \subseteq rows
       /\ \A c \in request.candidates \ q.key.novel : WasNovel(c, recorded)

\* A row came as an occurrence or as something a receipt found novel.
HasOrigin(r, recorded) == (\E s \in Requests : r \in s.occurrences) \/ WasNovel(r, recorded)

\* The committed state.
CommittedIsWhole(d) ==
    /\ IsStore(d)
    /\ \A q \in d.receipts : IsTrueOf(q, d.rows, d.receipts) /\ MembersOf(d.members, q.key) = MembersFor(q.key)
    /\ \A r \in d.rows : HasOrigin(r, d.receipts)
    /\ \A m \in d.members : \E q \in d.receipts : q.key = m.key

\* The call in progress: what it found present is stored and was novel in
\* another execution; after the deposit all of its rows are stored.
InCall == {"resolved", "locked", "deposited", "receipt", "members"}
CallIsGrounded(t, d) ==
    t.pc \in InCall =>
        /\ t.request \in Requests
        /\ t.request.candidates \ t.novel \subseteq d.rows \cup t.own.rows
        /\ \A c \in t.request.candidates \ t.novel : WasNovel(c, d.receipts \cup t.own.receipts)
        /\ t.pc \in {"deposited", "receipt", "members"} => StreamOf(t) \subseteq d.rows \cup t.own.rows

\* What the transaction wrote so far would be true if it committed now, but for
\* the call in progress.
OwnIsTrue(t, d) ==
    /\ \A q \in t.own.receipts : IsTrueOf(q, d.rows \cup t.own.rows, d.receipts \cup t.own.receipts)
    /\ \A r \in t.own.rows :
          HasOrigin(r, d.receipts \cup t.own.receipts) \/ (t.pc \in {"deposited", "receipt"} /\ r \in t.novel)

\* Its executions are new, and have their members but for the one in progress.
OwnIsNew(t, d) ==
    /\ \A q \in t.own.receipts, p \in d.receipts : q.key # p.key
    /\ \A m \in t.own.members : \E q \in t.own.receipts : q.key = m.key
    /\ \A q \in t.own.receipts :
          \/ MembersOf(t.own.members, q.key) = MembersFor(q.key)
          \/ t.pc = "members" /\ q.key = KeyOf(t) /\ MembersOf(t.own.members, q.key) = {}
    /\ t.pc = "members" => ReceiptOf(t) \in d.receipts \cup t.own.receipts

\* It locks the partitions of its stream and of every stream it recorded.
LockedBy(h, p, b) == p \in DOMAIN h /\ h[p] = b
StreamsAreLocked(b, t, h) ==
    /\ t.pc \in {"locked", "deposited", "receipt", "members", "conflict"} =>
          \A r \in StreamOf(t) : LockedBy(h, RowPartition(r.id), b)
    /\ \A q \in t.own.receipts : \A s \in q.deposit : \A r \in s.stream : LockedBy(h, RowPartition(r.id), b)

\* The snapshot of the receipt's statement shows every equal receipt.
SnapshotSuffices(t, d) ==
    /\ t.pc = "receipt" => t.seen \subseteq d.receipts \cup t.own.receipts
    /\ t.pc = "receipt" /\ StreamOf(t) # {} /\ ReceiptOf(t) \in d.receipts => ReceiptOf(t) \in t.seen
    /\ t.pc = "conflict" /\ StreamOf(t) # {} => ReceiptOf(t) \notin d.receipts

CallIsSound(b, t, d, h) ==
    /\ IsCall(t) /\ CallIsGrounded(t, d) /\ OwnIsTrue(t, d) /\ OwnIsNew(t, d)
    /\ StreamsAreLocked(b, t, h) /\ SnapshotSuffices(t, d)

\* Two transactions record no execution twice.
RecordedApart ==
    \A b, c \in Executors : b # c =>
        \A q \in txn[b].own.receipts, p \in txn[c].own.receipts : q.key # p.key

CompositionInv ==
    /\ DOMAIN txn = Executors
    /\ CommittedIsWhole(db)
    /\ \A b \in Executors : CallIsSound(b, txn[b], db, locks)
    /\ RecordedApart

-----------------------------------------------------------------------------

LEMMA MergedStores ==
    ASSUME NEW d, NEW e, IsStore(d)
    PROVE  /\ IsStore(Merge(d, e))
           /\ Merge(d, e).rows = d.rows \cup e.rows
           /\ Merge(d, e).receipts = d.receipts \cup e.receipts
           /\ Merge(d, e).members = d.members \cup e.members
BY DEF IsStore, Merge

\* The operators of the model, in terms of the record of the call.
LEMMA CallsByRecord ==
    ASSUME NEW b \in Executors, IsStore(db)
    PROVE  /\ Stream(b) = StreamOf(txn[b])
           /\ WorkingSetReceipt(b) = KeyOf(txn[b])
           /\ ExecutionReceipt(b) = ReceiptOf(txn[b])
           /\ VisibleState(b).rows = db.rows \cup txn[b].own.rows
           /\ VisibleState(b).receipts = db.receipts \cup txn[b].own.receipts
           /\ VisibleState(b).members = db.members \cup txn[b].own.members
           /\ IsStore(VisibleState(b))
<1>1. Stream(b) = StreamOf(txn[b]) /\ WorkingSetReceipt(b) = KeyOf(txn[b])
    BY DEF Stream, BuildStream, StreamOf, WorkingSetReceipt, KeyOf
<1>2. ExecutionReceipt(b) = ReceiptOf(txn[b])
    BY <1>1 DEF ExecutionReceipt, ReceiptOf, StagedStreamReceipt
<1> QED BY <1>1, <1>2, MergedStores DEF VisibleState

\* A request is found by its input.
LEMMA RequestFound ==
    ASSUME RequestsAssumption, NEW request \in Requests
    PROVE  RequestOf(request.input) = request
BY DEF RequestsAssumption, RequestOf

\* More rows and receipts keep what is true.
LEMMA TrueOfMore ==
    ASSUME NEW q, NEW rows, NEW recorded, NEW rows2, NEW recorded2,
           rows \subseteq rows2, recorded \subseteq recorded2, IsTrueOf(q, rows, recorded)
    PROVE  IsTrueOf(q, rows2, recorded2)
BY DEF IsTrueOf, WasNovel

LEMMA OriginOfMore ==
    ASSUME NEW r, NEW recorded, NEW recorded2, recorded \subseteq recorded2, HasOrigin(r, recorded)
    PROVE  HasOrigin(r, recorded2)
BY DEF HasOrigin, WasNovel

\* The places of finitely many integers in their order are 1, 2, ...
LEMMA RanksAreOneToN ==
    ASSUME NEW ids, IsFiniteSet(ids), ids \subseteq Int
    PROVE  {RankIn(ids, i) : i \in ids} = 1 .. Cardinality(ids)
<1> DEFINE n == Cardinality(ids)
           below(i) == {j \in ids : j <= i}
           rank == [i \in ids |-> RankIn(ids, i)]
           T == {rank[i] : i \in ids}
<1>1. n \in Nat BY FS_CardinalityType
<1>2. ASSUME NEW i \in ids PROVE rank[i] \in 1 .. n
    <2>1. IsFiniteSet(below(i)) /\ Cardinality(below(i)) <= n /\ Cardinality(below(i)) \in Nat
        BY FS_Subset, FS_CardinalityType, below(i) \in SUBSET ids
    <2>2. i \in below(i) OBVIOUS
    <2>3. Cardinality(below(i)) # 0 BY <2>1, <2>2, FS_EmptySet
    <2> QED BY <1>1, <2>1, <2>3 DEF RankIn
<1>3. ASSUME NEW i \in ids, NEW j \in ids, i < j PROVE rank[i] < rank[j]
    <2>1. IsFiniteSet(below(j)) BY FS_Subset, below(j) \in SUBSET ids
    <2>2. i \in Int /\ j \in Int /\ \A k \in ids : k \in Int OBVIOUS
    <2>a. \A k \in ids : k <= i => k <= j BY <2>2, <1>3
    <2>b. below(i) \subseteq below(j) BY <2>a
    <2>c. j \in below(j) /\ j \notin below(i) BY <2>2, <1>3
    <2>3. below(i) \in SUBSET below(j) /\ below(i) # below(j) BY <2>b, <2>c
    <2>4. /\ Cardinality(below(i)) \in Nat /\ Cardinality(below(j)) \in Nat
          /\ Cardinality(below(i)) <= Cardinality(below(j)) /\ Cardinality(below(i)) # Cardinality(below(j))
        BY <2>1, <2>3, FS_Subset, FS_CardinalityType
    <2> QED BY <2>4 DEF RankIn
<1>4. ASSUME NEW i \in ids, NEW j \in ids, rank[i] = rank[j] PROVE i = j
    <2>1. i \in Int /\ j \in Int OBVIOUS
    <2>2. rank[i] \in Int /\ rank[j] \in Int BY <1>1, <1>2
    <2>3. CASE i < j BY <2>2, <2>3, <1>3, <1>4
    <2>4. CASE j < i BY <2>2, <2>4, <1>3, <1>4
    <2> HIDE DEF rank
    <2> QED BY <2>1, <2>3, <2>4
<1>5. rank \in Bijection(ids, T)
    <2>1. rank \in [ids -> T] OBVIOUS
    <2>2. \A i, j \in ids : rank[i] = rank[j] => i = j BY <1>4
    <2>3. \A y \in T : \E i \in ids : rank[i] = y OBVIOUS
    <2> HIDE DEF rank, T
    <2> QED BY <2>1, <2>2, <2>3 DEF Bijection, IsInjective, Injection, Surjection
<1>6. IsFiniteSet(T) /\ Cardinality(T) = n BY <1>5, FS_Bijection, Zenon DEF ExistsBijection
<1>7. T \in SUBSET (1 .. n) BY <1>2
<1>8. IsFiniteSet(1 .. n) /\ Cardinality(1 .. n) = n BY <1>1, FS_Interval
<1>9. T = 1 .. n BY <1>6, <1>7, <1>8, FS_Subset
<1> QED BY <1>9
-----------------------------------------------------------------------------
(* A step of b changes its call from t to u; the other calls stay.          *)

\* A step of b leaves the committed state, the locks and the other calls.
OwnStep(b, u) == /\ txn' = [txn EXCEPT ![b] = u] /\ UNCHANGED <<db, locks>>

LEMMA OwnStepKeeps ==
    ASSUME CompositionInv, NEW b \in Executors, NEW u, OwnStep(b, u), CallIsSound(b, u, db, locks),
           \A c \in Executors \ {b} : \A q \in u.own.receipts, p \in txn[c].own.receipts : q.key # p.key
    PROVE  CompositionInv'
<1>1. DOMAIN txn' = Executors /\ CommittedIsWhole(db)' /\ txn'[b] = u
    BY DEF CompositionInv, OwnStep, CommittedIsWhole
<1>2. \A c \in Executors \ {b} : txn'[c] = txn[c] BY DEF CompositionInv, OwnStep
<1>3. ASSUME NEW c \in Executors PROVE CallIsSound(c, txn'[c], db', locks')
    <2>1. db' = db /\ locks' = locks BY DEF OwnStep
    <2>2. CASE c = b BY <1>1, <2>1, <2>2
    <2>3. CASE c # b BY <1>2, <2>1, <2>3 DEF CompositionInv
    <2> QED BY <2>2, <2>3
<1>4. RecordedApart'
    <2> SUFFICES ASSUME NEW c \in Executors, NEW e \in Executors, c # e,
                        NEW q \in txn'[c].own.receipts, NEW p \in txn'[e].own.receipts
                 PROVE  q.key # p.key
        BY DEF RecordedApart
    <2>1. CASE c = b BY <2>1, <1>1, <1>2
    <2>2. CASE e = b BY <2>2, <1>1, <1>2
    <2>3. CASE c # b /\ e # b BY <2>3, <1>2 DEF CompositionInv, RecordedApart
    <2> QED BY <2>1, <2>2, <2>3
<1> QED BY <1>1, <1>3, <1>4 DEF CompositionInv

\* A call whose step leaves what the transaction wrote.
LEMMA SameOwnKeepsApart ==
    ASSUME CompositionInv, NEW b \in Executors, NEW u, u.own.receipts = txn[b].own.receipts
    PROVE  \A c \in Executors \ {b} : \A q \in u.own.receipts, p \in txn[c].own.receipts : q.key # p.key
BY DEF CompositionInv, RecordedApart

LEMMA ResolveStep ==
    ASSUME RequestsAssumption, CompositionInv, NEW b \in Executors, ResolvePresence(b)
    PROVE  CompositionInv'
<1> DEFINE t == txn[b]
           d == db
<1>1. PICK request \in Requests, plan \in Plans :
          LET found == [c \in request.candidates |-> Disposition(c, VisibleState(b).rows)]
          IN txn' = [txn EXCEPT ![b].pc = IF \E c \in request.candidates : found[c] = "collision"
                                          THEN "collision" ELSE "resolved",
                        ![b].calls = @ + 1, ![b].request = request, ![b].plan = plan,
                        ![b].novel = {c \in request.candidates : found[c] = "novel"}]
    BY Zenon DEF ResolvePresence
<1> DEFINE rows == d.rows \cup t.own.rows
           found == [c \in request.candidates |-> Disposition(c, rows)]
           u == [t EXCEPT !.pc = IF \E c \in request.candidates : found[c] = "collision"
                                 THEN "collision" ELSE "resolved",
                   !.calls = @ + 1, !.request = request, !.plan = plan,
                   !.novel = {c \in request.candidates : found[c] = "novel"}]
<1>2. CallIsSound(b, t, d, locks) /\ CommittedIsWhole(d) BY DEF CompositionInv
<1>3. VisibleState(b).rows = rows BY <1>2, CallsByRecord DEF CommittedIsWhole
<1>4. OwnStep(b, u)
    <2>1. txn' = [txn EXCEPT ![b] = u] BY <1>1, <1>3, Zenon
    <2> QED BY <2>1 DEF OwnStep, ResolvePresence
<1>5. /\ u.pc \in {"collision", "resolved"} /\ u.request = request /\ u.own = t.own
      /\ u.novel = {c \in request.candidates : found[c] = "novel"} /\ t.pc \in {"idle", "called"}
      /\ u.pc = "resolved" => \A c \in request.candidates : found[c] # "collision"
      /\ DOMAIN u = DOMAIN t
    BY <1>2 DEF CallIsSound, IsCall, ResolvePresence
<1>6. IsCall(u)
    <2>1. u.pc # "idle" BY <1>5
    <2> HIDE DEF u
    <2> QED BY <1>2, <1>5, <2>1 DEF CallIsSound, IsCall
<1> HIDE DEF u
<1>7. CallIsGrounded(u, d)
    <2> SUFFICES ASSUME u.pc = "resolved"
                 PROVE  \A c \in request.candidates \ u.novel :
                            c \in rows /\ WasNovel(c, d.receipts \cup t.own.receipts)
        BY <1>5 DEF CallIsGrounded, InCall
    <2> TAKE c \in request.candidates \ u.novel
    <2>1. Disposition(c, rows) \notin {"novel", "collision"} BY <1>5
    <2>2. c \in rows BY <2>1 DEF Disposition
    <2>3. ~ \E s \in Requests : c \in s.occurrences BY DEF RequestsAssumption
    <2>4. HasOrigin(c, d.receipts \cup t.own.receipts)
        <3>1. CASE c \in d.rows BY <3>1, <1>2, OriginOfMore DEF CommittedIsWhole
        <3>2. CASE c \in t.own.rows BY <3>2, <1>2, <1>5 DEF CallIsSound, OwnIsTrue
        <3> QED BY <2>2, <3>1, <3>2
    <2> QED BY <2>2, <2>3, <2>4 DEF HasOrigin
<1>8. OwnIsTrue(u, d) /\ OwnIsNew(u, d) BY <1>2, <1>5 DEF CallIsSound, OwnIsTrue, OwnIsNew
<1>9. StreamsAreLocked(b, u, locks) /\ SnapshotSuffices(u, d)
    BY <1>2, <1>5 DEF CallIsSound, StreamsAreLocked, SnapshotSuffices
<1>10. CallIsSound(b, u, d, locks) BY <1>6, <1>7, <1>8, <1>9 DEF CallIsSound
<1> QED BY <1>4, <1>5, <1>10, OwnStepKeeps, SameOwnKeepsApart

LEMMA StagedDepositStep ==
    ASSUME RequestsAssumption, CompositionInv, NEW b \in Executors, DepositStream(b)
    PROVE  CompositionInv'
<1> DEFINE t == txn[b]
           d == db
           rows == d.rows \cup t.own.rows
           new == {r \in StreamOf(t) : \A x \in rows : x.id # r.id}
           stored == [t EXCEPT !.pc = "deposited", !.own.rows = @ \cup new,
                               !.own.deposits = @ \cup {StagedStreamReceipt(b)}]
           refused == [t EXCEPT !.pc = "collision"]
<1>1. CallIsSound(b, t, d, locks) /\ CommittedIsWhole(d) BY DEF CompositionInv
<1>2. VisibleState(b).rows = rows /\ Stream(b) = StreamOf(t) BY <1>1, CallsByRecord DEF CommittedIsWhole
<1>3. /\ t.pc = "locked" /\ UNCHANGED <<db, locks>>
      /\ IF StreamOf(t) \subseteq rows \cup new
         THEN txn' = [txn EXCEPT ![b].pc = "deposited", ![b].own.rows = @ \cup new,
                                 ![b].own.deposits = @ \cup {StagedStreamReceipt(b)}]
         ELSE txn' = [txn EXCEPT ![b].pc = "collision"]
    <2> DEFINE raw == {r \in Stream(b) : \A x \in VisibleState(b).rows : x.id # r.id}
    <2>1. /\ txn[b].pc = "locked" /\ UNCHANGED <<db, locks>>
          /\ IF Stream(b) \subseteq VisibleState(b).rows \cup raw
             THEN txn' = [txn EXCEPT ![b].pc = "deposited", ![b].own.rows = @ \cup raw,
                                     ![b].own.deposits = @ \cup {StagedStreamReceipt(b)}]
             ELSE txn' = [txn EXCEPT ![b].pc = "collision"]
        BY Zenon DEF DepositStream
    <2>2. raw = new BY <1>2
    <2> HIDE DEF raw, new
    <2> QED BY <1>2, <2>1, <2>2
<1>4. CASE StreamOf(t) \subseteq rows \cup new
    <2> DEFINE u == stored
    <2>1. txn' = [txn EXCEPT ![b] = u] BY <1>3, <1>4, Zenon
    <2>2. OwnStep(b, u) BY <1>3, <2>1 DEF OwnStep
    <2>3. /\ u.pc = "deposited" /\ u.request = t.request /\ u.novel = t.novel /\ u.plan = t.plan
          /\ u.own.rows = t.own.rows \cup new /\ u.own.receipts = t.own.receipts
          /\ u.own.members = t.own.members /\ DOMAIN u = DOMAIN t /\ DOMAIN u.own = DOMAIN t.own
        BY <1>1 DEF CallIsSound, IsCall, IsStore
    <2> HIDE DEF u
    <2>4. IsCall(u) BY <1>1, <2>3 DEF CallIsSound, IsCall, IsStore
    <2>5. StreamOf(u) = StreamOf(t) BY <2>3 DEF StreamOf
    <2>6. /\ t.request \in Requests
          /\ t.request.candidates \ t.novel \subseteq rows
          /\ \A c \in t.request.candidates \ t.novel : WasNovel(c, d.receipts \cup t.own.receipts)
        BY <1>1, <1>3 DEF CallIsSound, CallIsGrounded, InCall
    <2>7. CallIsGrounded(u, d) BY <1>4, <2>3, <2>5, <2>6 DEF CallIsGrounded
    <2>8. OwnIsTrue(u, d)
        <3>1. ASSUME NEW q \in u.own.receipts
              PROVE  IsTrueOf(q, d.rows \cup u.own.rows, d.receipts \cup u.own.receipts)
            <4>1. IsTrueOf(q, rows, d.receipts \cup t.own.receipts)
                BY <1>1, <2>3 DEF CallIsSound, OwnIsTrue
            <4> QED BY <2>3, <4>1, TrueOfMore
        <3>2. ASSUME NEW r \in u.own.rows
              PROVE  HasOrigin(r, d.receipts \cup u.own.receipts) \/ r \in u.novel
            <4>1. CASE r \in t.own.rows BY <4>1, <1>1, <1>3, <2>3 DEF CallIsSound, OwnIsTrue
            <4>2. CASE r \in new BY <4>2, <2>3, <2>6 DEF StreamOf, HasOrigin
            <4> QED BY <2>3, <4>1, <4>2
        <3> QED BY <2>3, <3>1, <3>2 DEF OwnIsTrue
    <2>9. OwnIsNew(u, d) BY <1>1, <1>3, <2>3 DEF CallIsSound, OwnIsNew
    <2>10. StreamsAreLocked(b, u, locks) BY <1>1, <1>3, <2>3, <2>5 DEF CallIsSound, StreamsAreLocked
    <2>11. CallIsSound(b, u, d, locks) BY <2>3, <2>4, <2>7, <2>8, <2>9, <2>10 DEF CallIsSound, SnapshotSuffices
    <2> QED BY <2>2, <2>3, <2>11, OwnStepKeeps, SameOwnKeepsApart
<1>5. CASE ~(StreamOf(t) \subseteq rows \cup new)
    <2> DEFINE u == refused
    <2>1. txn' = [txn EXCEPT ![b] = u] BY <1>3, <1>5, Zenon
    <2>2. OwnStep(b, u) BY <1>3, <2>1 DEF OwnStep
    <2>3. u.pc = "collision" /\ u.own = t.own /\ DOMAIN u = DOMAIN t
        BY <1>1 DEF CallIsSound, IsCall
    <2> HIDE DEF u
    <2>4. CallIsSound(b, u, d, locks)
        BY <1>1, <1>3, <2>3
        DEF CallIsSound, IsCall, CallIsGrounded, InCall, OwnIsTrue, OwnIsNew, StreamsAreLocked, SnapshotSuffices
    <2> QED BY <2>2, <2>3, <2>4, OwnStepKeeps, SameOwnKeepsApart
<1> QED BY <1>4, <1>5

LEMMA ReceiptStatementStep ==
    ASSUME CompositionInv, NEW b \in Executors, ReceiptStatement(b)
    PROVE  CompositionInv'
<1> DEFINE t == txn[b]
           d == db
           recorded == d.receipts \cup t.own.receipts
           u == [t EXCEPT !.pc = "receipt", !.seen = recorded]
<1>1. CallIsSound(b, t, d, locks) /\ CommittedIsWhole(d) BY DEF CompositionInv
<1>2. VisibleState(b).receipts = recorded /\ Stream(b) = StreamOf(t)
    BY <1>1, CallsByRecord DEF CommittedIsWhole
<1>3. t.pc = "deposited" \/ (t.pc = "resolved" /\ StreamOf(t) = {}) BY <1>2, Zenon DEF ReceiptStatement
<1>4. OwnStep(b, u)
    <2>1. txn' = [txn EXCEPT ![b] = u] BY <1>2, Zenon DEF ReceiptStatement
    <2> QED BY <2>1 DEF OwnStep, ReceiptStatement
<1>5. /\ u.pc = "receipt" /\ u.seen = recorded /\ u.own = t.own /\ DOMAIN u = DOMAIN t
      /\ u.request = t.request /\ u.novel = t.novel /\ u.plan = t.plan
    BY <1>1 DEF CallIsSound, IsCall
<1> HIDE DEF u
<1>6. StreamOf(u) = StreamOf(t) /\ ReceiptOf(u) = ReceiptOf(t) BY <1>5 DEF StreamOf, ReceiptOf, KeyOf
<1>7. IsCall(u) BY <1>1, <1>5 DEF CallIsSound, IsCall
<1>8. CallIsGrounded(u, d) BY <1>1, <1>3, <1>5, <1>6 DEF CallIsSound, CallIsGrounded, InCall
<1>9. OwnIsTrue(u, d) /\ OwnIsNew(u, d) BY <1>1, <1>3, <1>5 DEF CallIsSound, OwnIsTrue, OwnIsNew
<1>10. StreamsAreLocked(b, u, locks) BY <1>1, <1>3, <1>5, <1>6 DEF CallIsSound, StreamsAreLocked
<1>11. SnapshotSuffices(u, d) BY <1>5 DEF SnapshotSuffices
<1>12. CallIsSound(b, u, d, locks) BY <1>7, <1>8, <1>9, <1>10, <1>11 DEF CallIsSound
<1> QED BY <1>4, <1>5, <1>12, OwnStepKeeps, SameOwnKeepsApart

LEMMA InsertReceiptStep ==
    ASSUME RequestsAssumption, CompositionInv, NEW b \in Executors, InsertReceipt(b)
    PROVE  CompositionInv'
<1> DEFINE t == txn[b]
           d == db
           recorded == d.receipts \cup t.own.receipts
           known == \E q \in recorded : q.key = KeyOf(t)
           written == IF known THEN {} ELSE {ReceiptOf(t)}
           u == [t EXCEPT !.own.receipts = @ \cup written,
                          !.pc = IF ReceiptOf(t) \in written \cup t.seen THEN "members" ELSE "conflict"]
<1>1. CallIsSound(b, t, d, locks) /\ CommittedIsWhole(d) BY DEF CompositionInv
<1>2. /\ VisibleState(b).receipts = recorded /\ WorkingSetReceipt(b) = KeyOf(t)
      /\ ExecutionReceipt(b) = ReceiptOf(t)
    BY <1>1, CallsByRecord DEF CommittedIsWhole
<1>3. /\ t.pc = "receipt" /\ UNCHANGED <<db, locks>>
      /\ \A c \in Open(b) : \A q \in txn[c].own.receipts : q.key # KeyOf(t)
    BY <1>2, Zenon DEF InsertReceipt
<1>4. OwnStep(b, u)
    <2>1. txn' = [txn EXCEPT ![b] = u] BY <1>2, Zenon DEF InsertReceipt
    <2> QED BY <1>3, <2>1 DEF OwnStep
<1>5. /\ u.pc = IF ReceiptOf(t) \in written \cup t.seen THEN "members" ELSE "conflict"
      /\ u.own.receipts = t.own.receipts \cup written
      /\ u.own.rows = t.own.rows /\ u.own.members = t.own.members
      /\ u.request = t.request /\ u.novel = t.novel /\ u.plan = t.plan
      /\ DOMAIN u = DOMAIN t /\ DOMAIN u.own = DOMAIN t.own
    BY <1>1 DEF CallIsSound, IsCall, IsStore
<1> HIDE DEF u
<1>6. StreamOf(u) = StreamOf(t) /\ ReceiptOf(u) = ReceiptOf(t) /\ KeyOf(u) = KeyOf(t)
    BY <1>5 DEF StreamOf, ReceiptOf, KeyOf
<1>7. IsCall(u) BY <1>1, <1>5 DEF CallIsSound, IsCall, IsStore
<1>8. /\ t.request \in Requests /\ RequestOf(t.request.input) = t.request
      /\ t.request.candidates \ t.novel \subseteq d.rows \cup t.own.rows
      /\ \A c \in t.request.candidates \ t.novel : WasNovel(c, recorded)
      /\ StreamOf(t) \subseteq d.rows \cup t.own.rows
    BY <1>1, <1>3, RequestFound DEF CallIsSound, CallIsGrounded, InCall
<1>9. recorded \subseteq d.receipts \cup u.own.receipts BY <1>5
<1>10. CallIsGrounded(u, d) BY <1>5, <1>6, <1>8 DEF CallIsGrounded, WasNovel
<1>11. ReceiptOf(t).key = KeyOf(t) /\ KeyOf(t).input = t.request.input /\ KeyOf(t).novel = t.novel
    BY DEF ReceiptOf, KeyOf
<1>12. IsTrueOf(ReceiptOf(t), d.rows \cup t.own.rows, recorded)
    BY <1>8, <1>11 DEF IsTrueOf, StreamOf
<1>13. OwnIsTrue(u, d)
    <2>1. ASSUME NEW q \in u.own.receipts
          PROVE  IsTrueOf(q, d.rows \cup u.own.rows, d.receipts \cup u.own.receipts)
        <3>1. IsTrueOf(q, d.rows \cup t.own.rows, recorded)
            BY <1>1, <1>5, <1>12 DEF CallIsSound, OwnIsTrue
        <3> QED BY <1>5, <1>9, <3>1, TrueOfMore
    <2>2. ASSUME NEW r \in u.own.rows PROVE HasOrigin(r, d.receipts \cup u.own.receipts)
        <3>1. CASE HasOrigin(r, recorded) BY <1>9, <3>1, OriginOfMore
        <3>2. CASE r \in t.novel
            <4>1. \E q \in d.receipts \cup u.own.receipts : q.key = KeyOf(t) BY <1>5, <1>11
            <4> QED BY <1>11, <3>2, <4>1 DEF HasOrigin, WasNovel
        <3> QED BY <1>1, <1>5, <3>1, <3>2 DEF CallIsSound, OwnIsTrue
    <2> QED BY <2>1, <2>2 DEF OwnIsTrue
<1>14. OwnIsNew(u, d)
    <2>1. ASSUME NEW q \in u.own.receipts, NEW p \in d.receipts PROVE q.key # p.key
        BY <1>1, <1>5, <1>11 DEF CallIsSound, OwnIsNew
    <2>2. \A m \in u.own.members : \E q \in u.own.receipts : q.key = m.key
        BY <1>1, <1>5 DEF CallIsSound, OwnIsNew
    <2>3. ASSUME NEW q \in u.own.receipts
          PROVE  \/ MembersOf(u.own.members, q.key) = MembersFor(q.key)
                 \/ u.pc = "members" /\ q.key = KeyOf(u) /\ MembersOf(u.own.members, q.key) = {}
        <3>1. CASE q \in t.own.receipts BY <1>1, <1>3, <1>5, <3>1 DEF CallIsSound, OwnIsNew
        <3>2. CASE q \in written
            <4>1. q = ReceiptOf(t) /\ ~known BY <3>2
            <4>2. MembersOf(t.own.members, q.key) = {}
                BY <1>1, <1>11, <4>1 DEF CallIsSound, OwnIsNew, MembersOf
            <4> QED BY <1>5, <1>6, <1>11, <3>2, <4>1, <4>2
        <3> QED BY <1>5, <3>1, <3>2
    <2>4. u.pc = "members" => ReceiptOf(u) \in d.receipts \cup u.own.receipts
        BY <1>1, <1>3, <1>5, <1>6 DEF CallIsSound, SnapshotSuffices
    <2> QED BY <2>1, <2>2, <2>3, <2>4 DEF OwnIsNew
<1>15. StreamsAreLocked(b, u, locks)
    <2>1. \A r \in StreamOf(t) : LockedBy(locks, RowPartition(r.id), b)
        BY <1>1, <1>3 DEF CallIsSound, StreamsAreLocked
    <2>2. ASSUME NEW q \in u.own.receipts, NEW s \in q.deposit, NEW r \in s.stream
          PROVE  LockedBy(locks, RowPartition(r.id), b)
        <3>1. CASE q \in t.own.receipts BY <1>1, <3>1 DEF CallIsSound, StreamsAreLocked
        <3>2. CASE q = ReceiptOf(t) BY <2>1, <3>2 DEF ReceiptOf
        <3> QED BY <1>5, <3>1, <3>2
    <2> QED BY <1>6, <2>1, <2>2 DEF StreamsAreLocked
<1>16. SnapshotSuffices(u, d) BY <1>1, <1>3, <1>5, <1>6 DEF CallIsSound, SnapshotSuffices
<1>17. CallIsSound(b, u, d, locks) BY <1>7, <1>10, <1>13, <1>14, <1>15, <1>16 DEF CallIsSound
<1>18. ASSUME NEW c \in Executors \ {b}, NEW q \in u.own.receipts, NEW p \in txn[c].own.receipts
       PROVE  q.key # p.key
    <2>1. CASE q \in t.own.receipts BY <2>1 DEF CompositionInv, RecordedApart
    <2>2. CASE q = ReceiptOf(t)
        <3>1. CASE txn[c].pc = "idle" BY <3>1 DEF CompositionInv, CallIsSound, IsCall, NothingStored
        <3>2. CASE txn[c].pc # "idle" BY <1>3, <1>11, <2>2, <3>2 DEF Open
        <3> QED BY <3>1, <3>2
    <2> QED BY <1>5, <2>1, <2>2
<1> QED BY <1>4, <1>17, <1>18, OwnStepKeeps

\* The occurrences of a request and the members of its execution are finitely many.
LEMMA MembersAreFinite ==
    ASSUME RequestsAssumption, NEW key, RequestOf(key.input) \in Requests
    PROVE  IsFiniteSet(IdsOf(key)) /\ IdsOf(key) \subseteq Int /\ IsFiniteSet(MembersFor(key))
<1> DEFINE occurrences == RequestOf(key.input).occurrences
           id == [o \in occurrences |-> o.id]
           member == [i \in IdsOf(key) |-> [key |-> key, occurrence |-> i, ordinal |-> RankIn(IdsOf(key), i)]]
<1>1. IsFiniteSet(occurrences) /\ \A o \in occurrences : o.id \in Int BY DEF RequestsAssumption
<1>2. id \in Surjection(occurrences, IdsOf(key)) BY DEF Surjection, IdsOf
<1>3. IsFiniteSet(IdsOf(key)) BY <1>1, <1>2, FS_Surjection
<1>4. member \in Surjection(IdsOf(key), MembersFor(key)) BY DEF Surjection, MembersFor
<1>5. IsFiniteSet(MembersFor(key)) BY <1>3, <1>4, FS_Surjection
<1> QED BY <1>1, <1>3, <1>5 DEF IdsOf

\* When the members are inserted their execution is recorded, and has all of
\* its members or none: the members inserted are as many as the check expects.
LEMMA InsertMembersStep ==
    ASSUME RequestsAssumption, CompositionInv, NEW b \in Executors, InsertMembers(b)
    PROVE  CompositionInv'
<1> DEFINE t == txn[b]
           d == db
           members == d.members \cup t.own.members
           k == KeyOf(t)
           input == MembersFor(k)
           existing == {m \in members : m.key = k}
           written == {m \in input : \A n \in members : ~SameMember(m, n)}
           fits == /\ Cardinality(written) + Cardinality(existing \cap input) = Cardinality(input)
                   /\ existing \subseteq input
           u == [t EXCEPT !.own.members = @ \cup written, !.pc = IF fits THEN "called" ELSE "conflict"]
<1>1. CallIsSound(b, t, d, locks) /\ CommittedIsWhole(d) BY DEF CompositionInv
<1>2. VisibleState(b).members = members /\ WorkingSetReceipt(b) = k
    BY <1>1, CallsByRecord DEF CommittedIsWhole
<1>3. t.pc = "members" /\ UNCHANGED <<db, locks>> BY DEF InsertMembers
<1>4. /\ t.request \in Requests /\ RequestOf(t.request.input) = t.request
      /\ k.input = t.request.input
    BY <1>1, <1>3, RequestFound DEF CallIsSound, CallIsGrounded, InCall, KeyOf
<1>5. OccurrenceIds(b) = input
    BY <1>2, <1>4, Zenon DEF OccurrenceIds, MembersFor, IdsOf, RankIn
<1>6. OwnStep(b, u)
    <2> DEFINE raw == {m \in OccurrenceIds(b) : \A n \in VisibleState(b).members : ~SameMember(m, n)}
               found == {m \in VisibleState(b).members : m.key = WorkingSetReceipt(b)}
               agrees == /\ Cardinality(raw) + Cardinality(found \cap OccurrenceIds(b)) = Cardinality(OccurrenceIds(b))
                         /\ found \subseteq OccurrenceIds(b)
    <2>1. txn' = [txn EXCEPT ![b].own.members = @ \cup raw, ![b].pc = IF agrees THEN "called" ELSE "conflict"]
        BY Zenon DEF InsertMembers
    <2>2. raw = written /\ found = existing BY <1>2, <1>5
    <2>3. agrees <=> fits
        <3> HIDE DEF raw, found, written, existing, input
        <3> QED BY <1>5, <2>2
    <2> HIDE DEF raw, written, agrees, fits
    <2>4. txn' = [txn EXCEPT ![b] = u] BY <2>1, <2>2, <2>3
    <2> QED BY <1>3, <2>4 DEF OwnStep
<1>7. Cardinality(input) \in Nat
    <2>1. IsFiniteSet(input) BY <1>4, MembersAreFinite
    <2> QED BY <2>1, FS_CardinalityType
<1>8. \A m \in input : m.key = k BY DEF MembersFor
<1>9. ReceiptOf(t) \in d.receipts \cup t.own.receipts /\ ReceiptOf(t).key = k
    BY <1>1, <1>3 DEF CallIsSound, OwnIsNew, ReceiptOf
<1>10. /\ \A q \in t.own.receipts, p \in d.receipts : q.key # p.key
       /\ \A m \in t.own.members : \E q \in t.own.receipts : q.key = m.key
       /\ \A m \in d.members : \E q \in d.receipts : q.key = m.key
       /\ \A q \in t.own.receipts :
             \/ MembersOf(t.own.members, q.key) = MembersFor(q.key)
             \/ q.key = k /\ MembersOf(t.own.members, q.key) = {}
       /\ \A q \in d.receipts : MembersOf(d.members, q.key) = MembersFor(q.key)
    BY <1>1 DEF CallIsSound, OwnIsNew, CommittedIsWhole
\* Recorded by another transaction with its members, by this one with its
\* members, or by this one just now.
<1>11. \/ /\ existing = input
          /\ \A q \in t.own.receipts : q.key = k => MembersOf(t.own.members, k) = input
       \/ /\ existing = {} /\ ReceiptOf(t) \in t.own.receipts /\ MembersOf(t.own.members, k) = {}
    <2>1. CASE ReceiptOf(t) \in d.receipts
        <3>1. MembersOf(d.members, k) = input BY <1>9, <1>10, <2>1
        <3>2. \A q \in t.own.receipts : q.key # k BY <1>9, <1>10, <2>1
        <3>3. \A m \in t.own.members : m.key # k BY <1>10, <3>2
        <3> HIDE DEF input
        <3> QED BY <3>1, <3>2, <3>3 DEF MembersOf
    <2>2. CASE ReceiptOf(t) \in t.own.receipts
        <3>1. \A m \in d.members : m.key # k BY <1>9, <1>10, <2>2
        <3>2. existing = MembersOf(t.own.members, k) BY <3>1 DEF MembersOf
        <3>3. \A q \in t.own.receipts : q.key = k =>
                 MembersOf(t.own.members, k) = input \/ MembersOf(t.own.members, k) = {}
            BY <1>10
        <3> HIDE DEF input
        <3> QED BY <1>9, <2>2, <3>2, <3>3
    <2> QED BY <1>9, <2>1, <2>2
<1> HIDE DEF input, k
<1>12. /\ fits /\ IF existing = input THEN written = {} ELSE written = input
    <2>1. CASE existing = input
        <3>1. written = {} BY <2>1 DEF SameMember
        <3>2. existing \cap input = input /\ existing \subseteq input BY <2>1
        <3> HIDE DEF written, existing
        <3> QED BY <1>7, <2>1, <3>1, <3>2, FS_EmptySet
    <2>2. CASE existing # input /\ existing = {}
        <3>1. written = input BY <1>8, <2>2 DEF SameMember
        <3>2. existing \cap input = {} /\ existing \subseteq input BY <2>2
        <3> HIDE DEF written, existing
        <3> QED BY <1>7, <2>2, <3>1, <3>2, FS_EmptySet
    <2>3. existing = input \/ existing = {} BY <1>11
    <2> HIDE DEF fits, written, existing
    <2> QED BY <2>1, <2>2, <2>3
<1>13. /\ u.pc = "called" /\ u.own.members = t.own.members \cup written
       /\ u.own.receipts = t.own.receipts /\ u.own.rows = t.own.rows
       /\ DOMAIN u = DOMAIN t /\ DOMAIN u.own = DOMAIN t.own
    <2> HIDE DEF fits, written
    <2> QED BY <1>1, <1>12 DEF CallIsSound, IsCall, IsStore
<1> HIDE DEF u, fits
<1>14. OwnIsNew(u, d)
    <2>1. ASSUME NEW m \in u.own.members PROVE \E q \in u.own.receipts : q.key = m.key
        <3>1. CASE m \in t.own.members BY <1>10, <1>13, <3>1
        <3>2. CASE m \in written /\ m \notin t.own.members
            BY <1>8, <1>9, <1>11, <1>12, <1>13, <3>2
        <3> QED BY <1>13, <3>1, <3>2
    <2>2. ASSUME NEW q \in u.own.receipts PROVE MembersOf(u.own.members, q.key) = MembersFor(q.key)
        <3>1. CASE q.key = k
            <4>1. CASE existing = input
                <5>1. u.own.members = t.own.members BY <1>12, <1>13, <4>1
                <5> QED BY <1>11, <1>12, <1>13, <3>1, <4>1, <5>1 DEF input, MembersOf
            <4>2. CASE existing # input
                <5>1. MembersOf(u.own.members, k) = input BY <1>8, <1>11, <1>12, <1>13, <4>2 DEF MembersOf
                <5> QED BY <3>1, <5>1 DEF input
            <4> QED BY <4>1, <4>2
        <3>2. CASE q.key # k
            <4>1. MembersOf(u.own.members, q.key) = MembersOf(t.own.members, q.key)
                BY <1>8, <1>12, <1>13, <3>2 DEF MembersOf
            <4> QED BY <1>10, <1>13, <3>2, <4>1
        <3> QED BY <3>1, <3>2
    <2> QED BY <1>10, <1>13, <2>1, <2>2 DEF OwnIsNew
<1>15. IsCall(u) BY <1>1, <1>13 DEF CallIsSound, IsCall, IsStore
<1>16. CallIsGrounded(u, d) /\ SnapshotSuffices(u, d) BY <1>13 DEF CallIsGrounded, InCall, SnapshotSuffices
<1>17. OwnIsTrue(u, d) /\ StreamsAreLocked(b, u, locks)
    BY <1>1, <1>3, <1>13 DEF CallIsSound, OwnIsTrue, StreamsAreLocked
<1>18. CallIsSound(b, u, d, locks) BY <1>14, <1>15, <1>16, <1>17 DEF CallIsSound
<1> QED BY <1>6, <1>13, <1>18, OwnStepKeeps, SameOwnKeepsApart

\* Locks are only added, and cover the stream of b.
LEMMA LockStep ==
    ASSUME CompositionInv, NEW b \in Executors, LockPartitions(b)
    PROVE  CompositionInv'
<1> DEFINE t == txn[b]
           d == db
           u == [t EXCEPT !.pc = "locked"]
<1>1. DOMAIN txn = Executors /\ CommittedIsWhole(d) /\ \A c \in Executors : CallIsSound(c, txn[c], d, locks)
    BY DEF CompositionInv
<1>2. t.pc = "resolved" /\ txn' = [txn EXCEPT ![b] = u] /\ db' = db
    BY DEF LockPartitions
<1>3. StreamPartitions(b) = {RowPartition(r.id) : r \in StreamOf(t)}
    BY <1>1, CallsByRecord DEF StreamPartitions, CommittedIsWhole
<1>4. \A p, c : LockedBy(locks, p, c) => LockedBy(locks', p, c)
    BY DEF LockPartitions, LockedBy
<1>5. \A r \in StreamOf(t) : LockedBy(locks', RowPartition(r.id), b)
    BY <1>3 DEF LockPartitions, LockedBy
<1>6. /\ u.pc = "locked" /\ u.own = t.own /\ u.request = t.request /\ u.novel = t.novel
      /\ DOMAIN u = DOMAIN t
    BY <1>1 DEF CallIsSound, IsCall
<1> HIDE DEF u
<1>7. StreamOf(u) = StreamOf(t) BY <1>6 DEF StreamOf
<1>8. CallIsSound(b, u, d, locks')
    <2>1. CallIsSound(b, t, d, locks) BY <1>1
    <2>2. IsCall(u) BY <1>6, <2>1 DEF CallIsSound, IsCall
    <2>3. CallIsGrounded(u, d) BY <1>2, <1>6, <2>1 DEF CallIsSound, CallIsGrounded, InCall
    <2>4. OwnIsTrue(u, d) /\ OwnIsNew(u, d) BY <1>2, <1>6, <2>1 DEF CallIsSound, OwnIsTrue, OwnIsNew
    <2>5. StreamsAreLocked(b, u, locks')
        BY <1>4, <1>5, <1>6, <1>7, <2>1 DEF CallIsSound, StreamsAreLocked
    <2>6. SnapshotSuffices(u, d) BY <1>6 DEF SnapshotSuffices
    <2> QED BY <2>2, <2>3, <2>4, <2>5, <2>6 DEF CallIsSound
<1>9. txn'[b] = u /\ \A c \in Executors \ {b} : txn'[c] = txn[c] BY <1>1, <1>2
<1>10. ASSUME NEW c \in Executors PROVE CallIsSound(c, txn'[c], db', locks')
    <2>1. CASE c = b BY <1>2, <1>8, <1>9, <2>1
    <2>2. CASE c # b
        <3>1. StreamsAreLocked(c, txn[c], locks') BY <1>1, <1>4 DEF CallIsSound, StreamsAreLocked
        <3> QED BY <1>1, <1>2, <1>9, <2>2, <3>1 DEF CallIsSound
    <2> QED BY <2>1, <2>2
<1>11. \A c \in Executors : txn'[c].own = txn[c].own BY <1>6, <1>9
<1>12. RecordedApart' BY <1>11 DEF CompositionInv, RecordedApart
<1>13. DOMAIN txn' = Executors /\ CommittedIsWhole(db') BY <1>1, <1>2
<1> QED BY <1>10, <1>12, <1>13 DEF CompositionInv

\* A transaction that ends leaves a call that is sound by itself.
LEMMA IdleIsSound ==
    ASSUME NEW b, NEW d, NEW h, NEW calls
    PROVE  CallIsSound(b, NoTransaction(calls), d, h)
<1> DEFINE u == NoTransaction(calls)
<1>1. /\ u.pc = "idle" /\ u.own.rows = {} /\ u.own.receipts = {} /\ u.own.members = {}
      /\ IsCall(u)
    BY DEF NoTransaction, NothingStored, IsCall, IsStore
<1> HIDE DEF u
<1>2. CallIsSound(b, u, d, h)
    BY <1>1 DEF CallIsSound, CallIsGrounded, InCall, OwnIsTrue, OwnIsNew, StreamsAreLocked, SnapshotSuffices
<1> QED BY <1>2 DEF u

\* What a transaction of another backend keeps when locks of b are released and
\* the committed state grows by what b wrote.
LEMMA OtherTransactionKept ==
    ASSUME CompositionInv, NEW b \in Executors, NEW c \in Executors \ {b}, NEW d, NEW h,
           d = db \/ d = VisibleState(b),
           \A p : LockedBy(locks, p, c) => LockedBy(h, p, c)
    PROVE  CallIsSound(c, txn[c], d, h)
<1> DEFINE t == txn[c]
<1>1. /\ CallIsSound(c, t, db, locks) /\ CallIsSound(b, txn[b], db, locks) /\ IsStore(db)
      /\ \A q \in t.own.receipts, p \in txn[b].own.receipts : q.key # p.key
    BY DEF CompositionInv, CommittedIsWhole, RecordedApart
<1>2. /\ db.rows \subseteq d.rows /\ db.receipts \subseteq d.receipts
      /\ d.receipts \subseteq db.receipts \cup txn[b].own.receipts
    BY <1>1, CallsByRecord
<1>3. IsCall(t) BY <1>1 DEF CallIsSound
<1>4. CallIsGrounded(t, d) BY <1>1, <1>2 DEF CallIsSound, CallIsGrounded, WasNovel
<1>5. OwnIsTrue(t, d)
    <2>1. ASSUME NEW q \in t.own.receipts
          PROVE  IsTrueOf(q, d.rows \cup t.own.rows, d.receipts \cup t.own.receipts)
        <3>1. IsTrueOf(q, db.rows \cup t.own.rows, db.receipts \cup t.own.receipts)
            BY <1>1 DEF CallIsSound, OwnIsTrue
        <3> QED BY <1>2, <3>1, TrueOfMore
    <2>2. ASSUME NEW r \in t.own.rows
          PROVE  HasOrigin(r, d.receipts \cup t.own.receipts) \/ (t.pc \in {"deposited", "receipt"} /\ r \in t.novel)
        <3>1. CASE HasOrigin(r, db.receipts \cup t.own.receipts) BY <1>2, <3>1, OriginOfMore
        <3> QED BY <1>1, <3>1 DEF CallIsSound, OwnIsTrue
    <2> QED BY <2>1, <2>2 DEF OwnIsTrue
<1>6. OwnIsNew(t, d) BY <1>1, <1>2 DEF CallIsSound, OwnIsNew
<1>7. StreamsAreLocked(c, t, h) BY <1>1 DEF CallIsSound, StreamsAreLocked
\* An equal receipt of b would need a partition that c has locked.
<1>8. ASSUME t.pc \in {"receipt", "conflict"}, StreamOf(t) # {} PROVE ReceiptOf(t) \notin txn[b].own.receipts
    <2> SUFFICES ASSUME ReceiptOf(t) \in txn[b].own.receipts PROVE FALSE OBVIOUS
    <2>1. PICK r \in StreamOf(t) : TRUE BY <1>8
    <2>2. LockedBy(locks, RowPartition(r.id), c) BY <1>1, <1>8, <2>1 DEF CallIsSound, StreamsAreLocked
    <2>3. \E s \in ReceiptOf(t).deposit : s.stream = StreamOf(t) BY <1>8 DEF ReceiptOf
    <2>4. LockedBy(locks, RowPartition(r.id), b) BY <1>1, <2>1, <2>3 DEF CallIsSound, StreamsAreLocked
    <2> QED BY <2>2, <2>4 DEF LockedBy
<1>9. SnapshotSuffices(t, d) BY <1>1, <1>2, <1>8 DEF CallIsSound, SnapshotSuffices
<1> QED BY <1>3, <1>4, <1>5, <1>6, <1>7, <1>9 DEF CallIsSound

\* The end of a transaction of b, committed or not.
LEMMA TransactionEnds ==
    ASSUME CompositionInv, NEW b \in Executors, ReleasePartitions(b),
           txn' = [txn EXCEPT ![b] = NoTransaction(@.calls)],
           db' = db \/ db' = VisibleState(b), CommittedIsWhole(db')
    PROVE  CompositionInv'
<1>1. DOMAIN txn = Executors BY DEF CompositionInv
<1>2. /\ DOMAIN txn' = Executors /\ txn'[b] = NoTransaction(txn[b].calls)
      /\ \A c \in Executors \ {b} : txn'[c] = txn[c]
    BY <1>1
<1>3. \A c \in Executors \ {b} : \A p : LockedBy(locks, p, c) => LockedBy(locks', p, c)
    BY DEF ReleasePartitions, LockedBy
<1>4. ASSUME NEW c \in Executors PROVE CallIsSound(c, txn'[c], db', locks')
    <2>1. CASE c = b BY <1>2, <2>1, IdleIsSound
    <2>2. CASE c # b BY <1>2, <1>3, <2>2, OtherTransactionKept
    <2> QED BY <2>1, <2>2
<1>5. RecordedApart'
    <2>1. txn'[b].own.receipts = {} BY <1>2 DEF NoTransaction, NothingStored
    <2> QED BY <1>2, <2>1 DEF CompositionInv, RecordedApart
<1> QED BY <1>2, <1>4, <1>5 DEF CompositionInv

LEMMA CommitStep ==
    ASSUME CompositionInv, NEW b \in Executors, CommitExecution(b)
    PROVE  CompositionInv'
<1> DEFINE t == txn[b]
           d == db
           e == VisibleState(b)
<1>1. CallIsSound(b, t, d, locks) /\ CommittedIsWhole(d) BY DEF CompositionInv
<1>2. /\ e.rows = d.rows \cup t.own.rows /\ e.receipts = d.receipts \cup t.own.receipts
      /\ e.members = d.members \cup t.own.members /\ IsStore(e)
    BY <1>1, CallsByRecord DEF CommittedIsWhole
<1>3. t.pc = "called" BY DEF CommitExecution
<1> HIDE DEF e
<1>4. ASSUME NEW q \in e.receipts
      PROVE  IsTrueOf(q, e.rows, e.receipts) /\ MembersOf(e.members, q.key) = MembersFor(q.key)
    <2>1. CASE q \in d.receipts
        <3>1. IsTrueOf(q, d.rows, d.receipts) /\ MembersOf(d.members, q.key) = MembersFor(q.key)
            BY <1>1, <2>1 DEF CommittedIsWhole
        <3>2. \A m \in t.own.members : m.key # q.key BY <1>1, <2>1 DEF CallIsSound, OwnIsNew
        <3>3. MembersOf(e.members, q.key) = MembersOf(d.members, q.key) BY <1>2, <3>2 DEF MembersOf
        <3> QED BY <1>2, <3>1, <3>3, TrueOfMore
    <2>2. CASE q \in t.own.receipts
        <3>1. IsTrueOf(q, e.rows, e.receipts) BY <1>1, <1>2, <2>2 DEF CallIsSound, OwnIsTrue
        <3>2. MembersOf(t.own.members, q.key) = MembersFor(q.key)
            BY <1>1, <1>3, <2>2 DEF CallIsSound, OwnIsNew
        <3>3. \A m \in d.members : m.key # q.key BY <1>1, <2>2 DEF CallIsSound, OwnIsNew, CommittedIsWhole
        <3>4. MembersOf(e.members, q.key) = MembersOf(t.own.members, q.key) BY <1>2, <3>3 DEF MembersOf
        <3> QED BY <3>1, <3>2, <3>4
    <2> QED BY <1>2, <2>1, <2>2
<1>5. ASSUME NEW r \in e.rows PROVE HasOrigin(r, e.receipts)
    <2>1. CASE r \in d.rows BY <1>1, <1>2, <2>1, OriginOfMore DEF CommittedIsWhole
    <2>2. CASE r \in t.own.rows BY <1>1, <1>2, <1>3, <2>2 DEF CallIsSound, OwnIsTrue
    <2> QED BY <1>2, <2>1, <2>2
<1>6. \A m \in e.members : \E q \in e.receipts : q.key = m.key
    BY <1>1, <1>2 DEF CallIsSound, OwnIsNew, CommittedIsWhole
<1>7. CommittedIsWhole(e) BY <1>2, <1>4, <1>5, <1>6 DEF CommittedIsWhole
<1> QED BY <1>7, TransactionEnds DEF CommitExecution, e

LEMMA RollbackStep ==
    ASSUME CompositionInv, NEW b \in Executors, RollbackExecution(b)
    PROVE  CompositionInv'
BY TransactionEnds DEF RollbackExecution, CompositionInv

-----------------------------------------------------------------------------

LEMMA CompositionInvInit == CompositionInit => CompositionInv
<1> SUFFICES ASSUME CompositionInit PROVE CompositionInv OBVIOUS
<1>1. CommittedIsWhole(db) BY DEF CompositionInit, NothingStored, CommittedIsWhole, IsStore
<1>2. DOMAIN txn = Executors /\ \A b \in Executors : txn[b] = NoTransaction(0) BY DEF CompositionInit
<1>3. \A b \in Executors : CallIsSound(b, txn[b], db, locks) BY <1>2, IdleIsSound
<1>4. RecordedApart BY <1>2 DEF RecordedApart, NoTransaction, NothingStored
<1> QED BY <1>1, <1>2, <1>3, <1>4 DEF CompositionInv

LEMMA CompositionInvStep ==
    ASSUME RequestsAssumption, CompositionInv, [CompositionNext]_compositionVars
    PROVE  CompositionInv'
<1>1. CASE UNCHANGED compositionVars
    BY <1>1 DEF compositionVars, CompositionInv, RecordedApart
<1>2. ASSUME NEW b \in Executors,
             \/ ResolvePresence(b) \/ LockPartitions(b) \/ DepositStream(b)
             \/ ReceiptStatement(b) \/ InsertReceipt(b) \/ InsertMembers(b)
             \/ CommitExecution(b) \/ RollbackExecution(b)
      PROVE  CompositionInv'
    BY <1>2, ResolveStep, LockStep, StagedDepositStep, ReceiptStatementStep, InsertReceiptStep,
       InsertMembersStep, CommitStep, RollbackStep
<1> QED BY <1>1, <1>2 DEF CompositionNext

\* The invariant is what the properties state.
LEMMA CompositionInvSuffices ==
    ASSUME RequestsAssumption, CompositionInv
    PROVE  ExecutionsAreGrounded
<1>1. CommittedIsWhole(db) BY DEF CompositionInv
<1>2. RecordedIsStored BY <1>1 DEF RecordedIsStored, CommittedIsWhole, IsTrueOf
<1>3. PresentWasNovelOnce
    BY <1>1 DEF PresentWasNovelOnce, CommittedIsWhole, IsTrueOf, WasNovel
<1>4. MembersAreTheOccurrences
    <2> SUFFICES ASSUME NEW q \in db.receipts
                 PROVE  LET ids == IdsOf(q.key)
                            mine == MembersOf(db.members, q.key)
                        IN /\ {m.occurrence : m \in mine} = ids
                           /\ {m.ordinal : m \in mine} = 1 .. Cardinality(ids)
                           /\ Cardinality(mine) = Cardinality(ids)
        BY Zenon DEF MembersAreTheOccurrences, IdsOf, MembersOf
    <2> DEFINE ids == IdsOf(q.key)
               mine == MembersOf(db.members, q.key)
               member == [i \in ids |-> [key |-> q.key, occurrence |-> i, ordinal |-> RankIn(ids, i)]]
    <2>1. mine = MembersFor(q.key) /\ RequestOf(q.key.input) \in Requests
        BY <1>1 DEF CommittedIsWhole, IsTrueOf
    <2>2. IsFiniteSet(ids) /\ ids \subseteq Int BY <2>1, MembersAreFinite
    <2>3. mine = {member[i] : i \in ids} BY <2>1 DEF MembersFor
    <2>a. \A i \in ids : member[i].occurrence = i /\ member[i].ordinal = RankIn(ids, i) OBVIOUS
    <2>4. {m.occurrence : m \in mine} = ids
        <3> HIDE DEF member, ids, mine
        <3> QED BY <2>3, <2>a
    <2>5. {m.ordinal : m \in mine} = {RankIn(ids, i) : i \in ids}
        <3> HIDE DEF member, ids, mine
        <3> QED BY <2>3, <2>a
    <2>6. {RankIn(ids, i) : i \in ids} = 1 .. Cardinality(ids) BY <2>2, RanksAreOneToN
    <2>7. member \in Bijection(ids, mine)
        <3>1. member \in [ids -> mine] BY <2>3
        <3>2. \A i, j \in ids : member[i] = member[j] => i = j OBVIOUS
        <3>3. \A m \in mine : \E i \in ids : member[i] = m BY <2>3
        <3> HIDE DEF member, mine, ids
        <3> QED BY <3>1, <3>2, <3>3 DEF Bijection, IsInjective, Injection, Surjection
    <2>8. Cardinality(mine) = Cardinality(ids) BY <2>2, <2>7, FS_Bijection DEF ExistsBijection
    <2> QED BY <2>4, <2>5, <2>6, <2>8
<1>5. StagedReplayIsRecognised
    <2>1. \A b \in Executors : Stream(b) = StreamOf(txn[b]) /\ ExecutionReceipt(b) = ReceiptOf(txn[b])
        BY <1>1, CallsByRecord DEF CommittedIsWhole
    <2> QED BY <2>1 DEF StagedReplayIsRecognised, CompositionInv, CallIsSound, SnapshotSuffices
<1> QED BY <1>2, <1>3, <1>4, <1>5 DEF ExecutionsAreGrounded

\* composition_pg.c, over any backends, requests, plans and partitions: a
\* recorded execution is stored with its rows and with its members in order,
\* what it found present another execution had found novel, and a staged replay
\* beside another is never refused.
THEOREM CompositionsAreGrounded == RequestsAssumption => (CompositionSpec => []ExecutionsAreGrounded)
<1> SUFFICES ASSUME RequestsAssumption PROVE CompositionSpec => []ExecutionsAreGrounded OBVIOUS
<1>1. CompositionInit => CompositionInv BY CompositionInvInit
<1>2. CompositionInv /\ [CompositionNext]_compositionVars => CompositionInv' BY CompositionInvStep
<1>3. CompositionInv => ExecutionsAreGrounded BY CompositionInvSuffices
<1> QED BY <1>1, <1>2, <1>3, PTL DEF CompositionSpec
=============================================================================
