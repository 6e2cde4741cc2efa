--------------------------- MODULE WorldAdmission ---------------------------
(***************************************************************************)
(* Source profiles, testimony and world admission:                         *)
(* engine/src/{source_profile,evidence_testimony,world_admission}.c and    *)
(* their PostgreSQL services *_pg.c, with the execution receipt that every *)
(* service call writes first (laplace_pg.c).                               *)
(*                                                                         *)
(* A call validates a batch, writes its execution receipt, its rows and    *)
(* its receipt, each with INSERT ... ON CONFLICT DO NOTHING, and verifies  *)
(* after each statement that what it wanted is what is stored.  Calls of   *)
(* several sessions interleave between rows; an INSERT waits for another   *)
(* transaction's uncommitted row under the same key.  Which rows the       *)
(* verification sees differs: testimony verifies in a statement of its     *)
(* own, profiles and admissions in the statement that writes (whose        *)
(* snapshot is older than its waits), and the execution receipt in a       *)
(* read-only query under the snapshot of the caller's statement.           *)
(*                                                                         *)
(* A batch receipt's members are one more statement under the receipt's    *)
(* own key; here they are the receipt's batch.  Evidence nodes, lineage    *)
(* receipts and composition receipts are stored by their own services and  *)
(* are constants.                                                          *)
(***************************************************************************)
EXTENDS Integers, FiniteSets, SequencesExt

CONSTANTS
    WorldSessions,   \* backends
    Contexts,        \* execution contexts
    ProfileBatches,  \* batches offered to source_profile_validate_batch
    TestimonyBatches,
    WorldRequests,   \* batches of world_admission_request
    OccurrenceOf,    \* evidence node -> its occurrence
    Lineages,        \* stored lineage receipts: sets of nodes
    Compositions,    \* stored composition executions
    NoReceipt,       \* an absent receipt reference
    MaxCount,        \* UINT64_MAX
    MaxRequests      \* bound on calls

WorldAssumption ==
    /\ \A l \in Lineages : l \subseteq DOMAIN OccurrenceOf
    /\ \A b \in ProfileBatches \cup TestimonyBatches : b \in Seq(ToSet(b)) /\ \A r \in ToSet(b) : r.id \in Nat
    /\ \A b \in WorldRequests : b \in Seq(ToSet(b))
    /\ \A c \in Compositions : c.rank \in Nat
    /\ {MaxCount, MaxRequests} \subseteq Nat

VARIABLES
    tx,         \* session -> its call
    store,      \* committed rows
    requests    \* calls made so far

worldVars == <<tx, store, requests>>

-----------------------------------------------------------------------------
(* Source profiles.                                                        *)

Required == {"bytes", "files", "records", "fields", "syntax", "spans", "occurrences", "closure"}

\* An observation may have no records and no fields when it has no claims and
\* says so: both must then be marked not applicable.
RawObservation(p) ==
    /\ p.epistemic = "observation"
    /\ \A d \in {"records", "fields", "claims"} : p.count[d] = 0
    /\ {"records", "fields"} \subseteq p.notApplicable

DenominatorsValid(p) ==
    LET required == IF RawObservation(p) THEN Required \ {"records", "fields"} ELSE Required
    IN /\ p.notApplicable \cap required = {}
       /\ \A d \in p.notApplicable : p.count[d] = 0
       /\ \A d \in required : p.count[d] # 0

Total(f) == MapThenSumSet(LAMBDA k : f[k], DOMAIN f)

\* Every closure subject has exactly one disposition.
DispositionsValid(p) ==
    /\ p.count["closure"] # 0
    /\ Total(p.disposition) <= MaxCount
    /\ Total(p.disposition) = p.count["closure"]
    /\ p.reconstruction = "exact" => p.disposition["lossy"] = 0

ProfileValid(p) ==
    ~p.forged /\ DenominatorsValid(p) /\ DispositionsValid(p)

Ascending(batch) == \A i \in 1..(Len(batch) - 1) : batch[i].id < batch[i + 1].id

\* l_source_profile_validate_batch.
ValidateBatch(batch) ==
    /\ batch # <<>>
    /\ \A i \in DOMAIN batch : ProfileValid(batch[i]) /\ batch[i].boundary = batch[1].boundary
    /\ Ascending(batch)
    /\ FoldLeft(LAMBDA n, p : n + p.count["closure"], 0, batch) <= MaxCount

-----------------------------------------------------------------------------
(* Testimony.                                                              *)

\* A reduced fraction of at most one; zero is 0/1.
UncertaintyValid(u) ==
    /\ u.den # 0 /\ u.num <= u.den
    /\ IF u.num = 0 THEN u.den = 1
       ELSE \A k \in 2..u.num : ~(u.num % k = 0 /\ u.den % k = 0)

\* l_evidence_record_testimony_batch.
RecordTestimonyBatch(batch) ==
    /\ batch # <<>>
    /\ \A i \in DOMAIN batch : ~batch[i].forged /\ UncertaintyValid(batch[i].uncertainty)
    /\ Ascending(batch)
    /\ \A i \in DOMAIN batch : batch[i].profile = batch[1].profile
    /\ FoldLeft(LAMBDA n, t : n + t.samples, 0, batch) <= MaxCount

-----------------------------------------------------------------------------
(* Rows: table, key and columns.  The key stands for the primary key, an   *)
(* identifier that hashes what it identifies.                              *)

ExecutionRow(q) == <<"execution", <<q.kind, q.context, q.batch>>, Len(q.batch)>>
RecordRow(table, r) == <<table, r.id, r>>
ReceiptRow(table, q, batch) == <<table, batch, <<q.kind, q.context, q.batch>>>>

Table(r) == r[1]
Key(r) == r[2]

SameKey(r, x) == Table(r) = Table(x) /\ Key(r) = Key(x)

Rows(rows, table) == {r \in rows : Table(r) = table}
Values(rows, table) == {r[3] : r \in Rows(rows, table)}
Receipts(rows, table) == {Key(r) : r \in Rows(rows, table)}

-----------------------------------------------------------------------------
(* World admission.                                                        *)

\* The component columns of one request, or nothing: the joins of derive_sql.
Components(rows, w) ==
    {[profile |-> p, profileReceipt |-> w.profileReceipt, recipe |-> w.recipe, composition |-> c,
      lineage |-> w.lineage, testimony |-> w.testimony] :
        p \in {x \in Values(rows, "profile") :
                 /\ x.id = w.profile /\ x.recipe = w.recipe
                 /\ w.profileReceipt \in Receipts(rows, "profile_receipt")
                 /\ w.profileReceipt[1].boundary = x.boundary
                 /\ x \in ToSet(w.profileReceipt)
                 /\ IF x.count["claims"] = 0
                    THEN w.lineage = NoReceipt /\ w.testimony = NoReceipt
                    ELSE /\ w.lineage \in Lineages
                         /\ w.testimony \in Receipts(rows, "testimony_receipt")
                         /\ w.testimony[1].profile = x.id},
        c \in {x \in Compositions : x.workingSet = w.composition /\ x.recipe = w.recipe}}

Testimonies(a) == IF a.testimony = NoReceipt THEN {} ELSE ToSet(a.testimony)

\* The counts derive_sql reads: the testimonies that speak of the profile, of
\* the recipe, and of a node of the lineage that occurs in the composition.
OfProfile(a) == {t \in Testimonies(a) : t.profile = a.profile.id}
OfRecipe(a) == {t \in Testimonies(a) : t.recipe = a.recipe}
OfLineage(a) ==
    {t \in Testimonies(a) : t.node \in a.lineage /\ OccurrenceOf[t.node] \in a.composition.occurrences}

\* Fault: validate_record without its lineage binding check.
ValidateUnbound(a) ==
    LET n == Cardinality(Testimonies(a))
    IN /\ a.profile.count["occurrences"] = a.composition.logical
       /\ a.profile.count["claims"] = n
       /\ Cardinality(OfProfile(a)) = n /\ Cardinality(OfRecipe(a)) = n

ValidateRecord(a) ==
    LET n == Cardinality(Testimonies(a))
    IN /\ a.profile.count["occurrences"] = a.composition.logical
       /\ a.profile.count["claims"] = n
       /\ Cardinality(OfProfile(a)) = n /\ Cardinality(OfRecipe(a)) = n
       /\ Cardinality(OfLineage(a)) = n

\* The order of admission identifiers is the order of the pairs they hash.
AdmissionId(a) == 10 * a.profile.id + a.composition.rank

\* The readback fingerprint hashes every component identity and count of the
\* record, the composition's four receipts among them.
ReadbackFingerprint(a) == a

\* l_world_admission_project_semantics: the record without its composition
\* receipts, and its readback fingerprint.
SemanticFingerprint(a) ==
    [profile |-> a.profile, profileReceipt |-> a.profileReceipt, recipe |-> a.recipe,
     lineage |-> a.lineage, testimony |-> a.testimony, occurrences |-> a.composition.logical,
     readback |-> ReadbackFingerprint(a)]

\* derive_durable_records: one admission per request, in request order, or none.
DeriveDurableRecords(rows, batch) ==
    IF \A i \in DOMAIN batch :
         /\ Cardinality(Components(rows, batch[i])) = 1
         /\ \A a \in Components(rows, batch[i]) : ValidateRecord(a)
    THEN [i \in DOMAIN batch |->
            LET a == CHOOSE x \in Components(rows, batch[i]) : TRUE
            IN [id |-> AdmissionId(a), boundary |-> a.profile.boundary, admission |-> a]]
    ELSE <<>>

\* l_world_admission_close_batch.
CloseBatch(records) ==
    records # <<>> /\ Ascending(records)
    /\ \A i \in DOMAIN records : records[i].boundary = records[1].boundary

-----------------------------------------------------------------------------
(* Calls.                                                                  *)

Batches == [profile |-> ProfileBatches, testimony |-> TestimonyBatches, world |-> WorldRequests]

\* The records a call is about to write; none when it is refused.
Records(q) ==
    CASE q.kind = "profile"   -> IF ValidateBatch(q.batch) THEN q.batch ELSE <<>>
      [] q.kind = "testimony" -> IF RecordTestimonyBatch(q.batch) THEN q.batch ELSE <<>>
      [] q.kind = "world"     -> LET r == DeriveDurableRecords(store, q.batch)
                                 IN IF CloseBatch(r) THEN r ELSE <<>>

ReceiptTable == [profile |-> "profile_receipt", testimony |-> "testimony_receipt", world |-> "world_receipt"]

IdleCall == [step |-> "idle", reply |-> "none", todo |-> <<>>, want |-> <<>>, own |-> {}, wrote |-> {},
             caller |-> {}, snapshot |-> {}, records |-> <<>>, request |-> <<>>]

\* A statement starts: its rows and its snapshot.
Begin(t, step, rows) ==
    [t EXCEPT !.step = step, !.todo = rows, !.want = rows, !.wrote = {}, !.snapshot = store]

Statement(t, step) ==
    IF step = "records"
    THEN [i \in DOMAIN t.records |-> RecordRow(t.request.kind, t.records[i])]
    ELSE <<ReceiptRow(ReceiptTable[t.request.kind], t.request, t.records)>>

WorldInit ==
    /\ tx = [s \in WorldSessions |-> IdleCall]
    /\ store = {} /\ requests = 0

\* The entry points: read, validate or derive, execute twice and compare.
Call(s) ==
    /\ tx[s].step = "idle" /\ requests < MaxRequests
    /\ \E kind \in DOMAIN Batches, context \in Contexts : \E batch \in Batches[kind] :
         LET q == [kind |-> kind, context |-> context, batch |-> batch]
             t == [IdleCall EXCEPT !.request = q, !.records = Records(q), !.caller = store]
         IN tx' = [tx EXCEPT ![s] = IF t.records = <<>> THEN [IdleCall EXCEPT !.reply = "refused"]
                                    ELSE Begin(t, "execution", <<ExecutionRow(q)>>)]
    /\ requests' = requests + 1
    /\ UNCHANGED store

Conflicts(r, rows) == \E x \in rows : SameKey(r, x)

\* s waits for o: o holds an uncommitted row under the key s is writing.
WaitsFor(s, o) == s # o /\ tx[s].todo # <<>> /\ Conflicts(Head(tx[s].todo), tx[o].own)

\* One row of an INSERT ... ON CONFLICT DO NOTHING.
WriteRow(s) ==
    /\ tx[s].todo # <<>>
    /\ \A o \in WorldSessions : ~WaitsFor(s, o)
    /\ LET r == Head(tx[s].todo)
           new == IF Conflicts(r, store \cup tx[s].own) THEN {} ELSE {r}
       IN tx' = [tx EXCEPT ![s].todo = Tail(@), ![s].own = @ \cup new, ![s].wrote = @ \cup new]
    /\ UNCHANGED <<store, requests>>

\* The rows the verification of the current statement can see.
VisibleRows(t) ==
    CASE t.step = "execution"             -> t.caller \cup t.wrote
      [] t.request.kind = "testimony"
         /\ t.step # "execution"          -> store \cup t.own
      [] OTHER                            -> t.snapshot \cup t.wrote

\* The end of a statement: verification, then the next statement or an ERROR.
Verify(s) ==
    /\ tx[s].step \in {"execution", "records", "receipt"} /\ tx[s].todo = <<>>
    /\ tx' = [tx EXCEPT ![s] =
         IF ~(ToSet(@.want) \subseteq VisibleRows(@))
         THEN [IdleCall EXCEPT !.reply = "collides", !.want = tx[s].want]
         ELSE IF @.step = "execution" THEN Begin(@, "records", Statement(@, "records"))
         ELSE IF @.step = "records" THEN Begin(@, "receipt", Statement(@, "receipt"))
         ELSE [@ EXCEPT !.step = "commit"]]
    /\ UNCHANGED <<store, requests>>

CommitWorld(s) ==
    /\ tx[s].step = "commit"
    /\ store' = store \cup tx[s].own
    /\ tx' = [tx EXCEPT ![s] = [IdleCall EXCEPT !.reply = "done"]]
    /\ UNCHANGED requests

\* The client cancels, or the backend dies: the transaction rolls back.
AbortWorld(s) ==
    /\ tx[s].step # "idle"
    /\ tx' = [tx EXCEPT ![s] = IdleCall]
    /\ UNCHANGED <<store, requests>>

WorldStep(s) == Call(s) \/ WriteRow(s) \/ Verify(s) \/ CommitWorld(s) \/ AbortWorld(s)
WorldNext == \E s \in WorldSessions : WorldStep(s)

WorldSpec == WorldInit /\ [][WorldNext]_worldVars

-----------------------------------------------------------------------------
(* Properties.                                                             *)

\* What an admission rests on is among the rows: every testimony of its receipt
\* is one, speaks of its profile, its recipe, a node of its lineage and an
\* occurrence of its composition, and there is one per claim of the profile.
BoundIn(rows, a) ==
    /\ a.profile \in Values(rows, "profile")
    /\ a.profileReceipt \in Receipts(rows, "profile_receipt")
    /\ ToSet(a.profileReceipt) \subseteq Values(rows, "profile")
    /\ Cardinality(Testimonies(a)) = a.profile.count["claims"]
    /\ \A t \in Testimonies(a) :
         /\ t \in Values(rows, "testimony")
         /\ t.profile = a.profile.id /\ t.recipe = a.recipe /\ t.node \in a.lineage
         /\ OccurrenceOf[t.node] \in a.composition.occurrences

\* What an admitted world rests on was stored before it, by other calls
\* (world_admission_pg.c derive_sql, world_admission.c validate_record).
AdmissionIsBound == \A r \in Values(store, "world") : BoundIn(store, r.admission)

\* Batches are written in identifier order, so no two sessions ever wait for
\* each other (the order checks of the three batch validators).
NoWaitCycle == \A s, o \in WorldSessions : ~(WaitsFor(s, o) /\ WaitsFor(o, s))

\* A row was reported as colliding although what is stored is the same row.
Spurious(s, tables) ==
    /\ tx[s].reply = "collides"
    /\ \A i \in DOMAIN tx[s].want : \A x \in store : SameKey(tx[s].want[i], x) => x = tx[s].want[i]
    /\ Table(tx[s].want[1]) \in tables

\* Testimony's rows and receipts verify in their own statement: a concurrent
\* identical testimony call is answered, never refused as a collision
\* (set_write_verify, evidence_testimony_pg.c).
TestimonyReplayConverges == \A s \in WorldSessions : ~Spurious(s, {"testimony", "testimony_receipt"})

\* world_admission.c and its service: an admitted world rests on stored rows that
\* speak of it, no two sessions wait for each other, and a testimony repeated
\* concurrently is not refused.
WorldIsBound == AdmissionIsBound /\ NoWaitCycle /\ TestimonyReplayConverges

\* The same for every service: an identical request repeated concurrently is
\* never reported as a collision with different stored fields.
RepeatsConverge ==
    \A s \in WorldSessions : ~Spurious(s, {"execution"} \cup DOMAIN Batches \cup {ReceiptTable[k] : k \in DOMAIN Batches})

\* Two admissions that differ only in the composition's physical receipts have
\* the same semantic fingerprint.
SemanticsIgnorePlan ==
    \A r, x \in Values(store, "world") :
        LET a == r.admission
            b == x.admission
            SamePlan == [a EXCEPT !.composition = b.composition] = b
        IN SamePlan /\ a.composition.logical = b.composition.logical
           => SemanticFingerprint(a) = SemanticFingerprint(b)

=============================================================================
