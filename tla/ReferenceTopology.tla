-------------------------- MODULE ReferenceTopology --------------------------
(***************************************************************************)
(* src/engine/src/reference_topology.c, reference_mapping.c and their        *)
(* PostgreSQL halves reference_topology_pg.c, reference_mapping_pg.c: the    *)
(* references of a source are resolved to dispositions within their batch,   *)
(* pairs of references of a row become witnesses of mapping propositions,    *)
(* and both are stored with receipts, in batches of bounded size.  Backends  *)
(* run calls in transactions at READ COMMITTED.                              *)
(*                                                                          *)
(* A digest is the record it is computed from.  A source and artifact        *)
(* ordinal is part of the row.  Execution receipts are in WorldAdmission.    *)
(***************************************************************************)
EXTENDS Integers, Sequences, FiniteSets, SequencesExt, FiniteSetsExt, TLC

CONSTANTS
    Backends,
    Sources,        \* [candidates, rules]: a source with its mapping rules
    Claims,         \* inputs of the mapping entry point
    Coordinate(_),  \* laplace_highway_coordinate_calculate
    Contexts,       \* execution contexts, which the ISA receipt covers
    BatchSizes,     \* records that preferred_batch_bytes holds
    MaxCalls        \* bound: calls of one backend

VARIABLES
    db,    \* the committed rows <<table, content>>
    txn    \* each backend's transaction and the call it is in

vars == <<db, txn>>

NoTransaction == [pc |-> "idle", own |-> {}, todo |-> <<>>, seen |-> {}, late |-> FALSE, goal |-> <<>>]

Init ==
    /\ db = {}
    /\ txn = [b \in Backends |-> NoTransaction @@ [calls |-> 0]]

Visible(b) == db \cup txn[b].own
Open(b) == {c \in Backends \ {b} : txn[c].pc # "idle"}

-----------------------------------------------------------------------------

\* A candidate is [profile, row, column, value, key, flags], key = <<scope, local>>.
CandidateValid(c) == c.key[2] = c.value /\ c.flags # {"present", "retired"}

\* identify_occurrence: where the reference stands, without its key.
Occurrence(c) == <<c.profile, c.row, c.column, c.value>>

\* laplace_reference_topology_resolve_batch accepts the batch.
Resolvable(cs) ==
    /\ \A i \in DOMAIN cs : CandidateValid(cs[i]) /\ cs[i].profile = cs[1].profile
    /\ \A i, j \in DOMAIN cs :
          /\ cs[i].key = cs[j].key => ~("present" \in cs[i].flags /\ "retired" \in cs[j].flags)
          /\ Coordinate(cs[i].key) = Coordinate(cs[j].key) => cs[i].key = cs[j].key
          /\ i # j => Occurrence(cs[i]) # Occurrence(cs[j])

\* Its disposition of a key: what some occurrence in the batch declares.
Disposition(cs, key) ==
    LET declared == UNION {c.flags : c \in {d \in ToSet(cs) : d.key = key}}
    IN IF "present" \in declared THEN "present"
       ELSE IF "retired" \in declared THEN "retired" ELSE "unresolved"

\* Its records; reference_id covers all of a record.
Resolve(cs) == [i \in DOMAIN cs |-> [candidate |-> cs[i], disposition |-> Disposition(cs, cs[i].key)]]

\* build_mapping_candidates: for each row the pairs of columns the rules name.
BuildMappingCandidates(records, rules) ==
    LET at(row, column) ==
            CHOOSE i \in DOMAIN records :
                records[i].candidate.row = row /\ records[i].candidate.column = column
        rows == {r.candidate.row : r \in ToSet(records)}
        pairs(row) ==
            [n \in DOMAIN rules |->
                LET l == records[at(row, rules[n].left)]
                    r == records[at(row, rules[n].right)]
                IN [left |-> l, right |-> r, leftIs |-> l.disposition, rightIs |-> r.disposition,
                    relation |-> rules[n].relation, symmetric |-> rules[n].symmetric]]
    IN FoldLeft(LAMBDA found, row : found \o pairs(row), <<>>, SetToSortSeq(rows, <))

-----------------------------------------------------------------------------

\* identify_occurrence of a mapping: the row and both fields and values.
MappingOccurrence(m) ==
    <<m.left.candidate.profile, m.left.candidate.row, m.left.candidate.column, m.left.candidate.value,
      m.right.candidate.column, m.right.candidate.value>>

Endpoints(m) == <<m.left.candidate.key, m.right.candidate.key>>

\* identify_proposition: relation and endpoints, the lower coordinate first
\* when the relation is symmetric.
IdentifyProposition(m) ==
    LET e == Endpoints(m)
    IN <<m.relation, m.symmetric,
         IF m.symmetric /\ Coordinate(e[1]) > Coordinate(e[2]) THEN <<e[2], e[1]>> ELSE e>>

\* resolve_disposition.
ResolveDisposition(m) ==
    CASE "retired" \in {m.leftIs, m.rightIs} -> "retired"
      [] "retired" \notin {m.leftIs, m.rightIs} /\ "unresolved" \in {m.leftIs, m.rightIs} ->
             <<"unresolved", m.leftIs = "unresolved", m.rightIs = "unresolved">>
      [] m.leftIs = "present" /\ m.rightIs = "present" -> "resolved"

\* laplace_reference_mapping_resolve_batch accepts the batch.  One boundary
\* stands for one profile here.
Mappable(ms) ==
    /\ \A i \in DOMAIN ms : ms[i].left.candidate.profile = ms[1].left.candidate.profile
    /\ \A i, j \in DOMAIN ms :
          /\ i # j => MappingOccurrence(ms[i]) # MappingOccurrence(ms[j])
          /\ \A k \in ToSet(Endpoints(ms[i])), l \in ToSet(Endpoints(ms[j])) :
                Coordinate(k) = Coordinate(l) => k = l

\* Its records; mapping_id covers proposition, occurrence, references, disposition.
ResolveMappings(ms) ==
    [i \in DOMAIN ms |->
        [id |-> <<IdentifyProposition(ms[i]), MappingOccurrence(ms[i]), ms[i].left, ms[i].right, ResolveDisposition(ms[i])>>,
         mapping |-> ms[i]]]

\* validate_reference_inputs: both references are stored as the caller says
\* they are, in one row of one profile.
ValidateReferenceInputs(ms, rows) ==
    \A i \in DOMAIN ms :
        /\ <<"occurrence", ms[i].left>> \in rows /\ <<"occurrence", ms[i].right>> \in rows
        /\ ms[i].leftIs = ms[i].left.disposition /\ ms[i].rightIs = ms[i].right.disposition
        /\ ms[i].left.candidate.row = ms[i].right.candidate.row
        /\ ms[i].left.candidate.profile = ms[i].right.candidate.profile

-----------------------------------------------------------------------------

\* The keys of the tables: two rows that share one cannot both be stored.
Keys(r) ==
    LET x == r[2]
    IN CASE r[1] = "coordinate" -> {<<"coordinate", Coordinate(x)>>, <<"key", x>>}
         [] r[1] = "occurrence" ->
                {<<"reference", x>>, <<"occurrence", Occurrence(x.candidate)>>,
                 <<"place", <<x.candidate.profile, x.candidate.row, x.candidate.column>>>>}
         [] r[1] = "proposition" -> {<<"proposition", x.id>>, <<"statement", <<x.low, x.high, x.id[1], x.id[2]>>>>}
         [] r[1] = "mapping" ->
                {<<"mapping", x.id>>, <<"witness", x.id[2]>>,
                 <<"row", <<x.mapping.left.candidate.profile, x.mapping.left.candidate.row>>>>}
         [] r[1] = "receipt" -> {<<"receipt", x.of>>}
         [] r[1] = "member" -> {<<"member", <<x.of, x.occurrence>>>>, <<"ordinal", <<x.of, x.ordinal>>>>}

Shares(r, s) == Keys(r) \cap Keys(s) # {}

\* propositions_write_sql: the row has the endpoints of a symmetric relation
\* in the order of their coordinates.
PropositionRow(m) ==
    LET c == [n \in 1 .. 2 |-> Coordinate(Endpoints(m)[n])]
        swap == m.symmetric /\ c[1] > c[2]
    IN <<"proposition", [id |-> IdentifyProposition(m), low |-> IF swap THEN c[2] ELSE c[1], high |-> IF swap THEN c[1] ELSE c[2]]>>

\* record_array: the records from first on that one batch holds.
BatchPositions(count, size, k) == (k - 1) * size + 1 .. Min({k * size, count})
BatchCount(count, size) == (count + size - 1) \div size

\* Fault: the ordinals of every batch start again.
BatchOrdinal(i, size) == ((i - 1) % size) + 1

\* members_write_sql: the offset of the batch and the place in it.
MemberOrdinal(i, size) ==
    LET offset == ((i - 1) \div size) * size
    IN offset + ((i - 1) % size) + 1

Member(of, occurrence, i, size) ==
    <<"member", [of |-> of, occurrence |-> occurrence, ordinal |-> MemberOrdinal(i, size)]>>

\* persist_topology: the statements of a call, in order.
TopologyStatements(records, context, size) ==
    LET n == Len(records)
        rows(k, Row(_)) == {Row(i) : i \in BatchPositions(n, size, k)}
        coordinate(i) == <<"coordinate", records[i].candidate.key>>
        occurrence(i) == <<"occurrence", records[i]>>
        member(i) == Member(records, Occurrence(records[i].candidate), i, size)
    IN << <<"verify", {<<"receipt", [of |-> records, context |-> context]>>}>> >>
       \o FlattenSeq([k \in 1 .. BatchCount(n, size) |->
              << <<"exact", rows(k, coordinate)>>, <<"exact", rows(k, occurrence)>>, <<"exact", rows(k, member)>> >>])
       \o << <<"count", records>> >>

\* persist_mappings.
MappingStatements(records, context, size) ==
    LET n == Len(records)
        rows(k, Row(_)) == {Row(i) : i \in BatchPositions(n, size, k)}
        proposition(i) == PropositionRow(records[i].mapping)
        mapping(i) == <<"mapping", records[i]>>
        member(i) == Member(records, records[i].id[2], i, size)
    IN << <<"verify", {<<"receipt", [of |-> records, context |-> context]>>}>> >>
       \o FlattenSeq([k \in 1 .. BatchCount(n, size) |->
              << <<"exact", rows(k, proposition)>>, <<"exact", rows(k, mapping)>>, <<"verify", rows(k, member)>> >>])
       \o << <<"count", records>> >>

-----------------------------------------------------------------------------

\* A call starts in a transaction of its own or in that of earlier calls.
Start(b, statements, goal) ==
    txn' = [txn EXCEPT ![b].pc = "running", ![b].todo = statements, ![b].goal = goal, ![b].calls = @ + 1]

MayCall(b) == txn[b].pc \in {"idle", "called"} /\ txn[b].calls < MaxCalls

\* The reference part of a source admission: topology, then its mappings in the
\* same transaction; without rules, the topology entry point.
AdmitReferences(b) ==
    /\ MayCall(b)
    /\ \E source \in Sources, context \in Contexts, size \in BatchSizes :
          /\ Resolvable(source.candidates)
          /\ LET records == Resolve(source.candidates)
                 mappings == ResolveMappings(BuildMappingCandidates(records, source.rules))
             IN /\ mappings # <<>> => Mappable(BuildMappingCandidates(records, source.rules))
                /\ Start(b, TopologyStatements(records, context, size)
                            \o IF mappings = <<>> THEN <<>> ELSE MappingStatements(mappings, context, size),
                         <<context, records, mappings>>)
    /\ UNCHANGED db

\* The mapping entry point, with what the caller says of stored references.
AdmitMappings(b) ==
    /\ MayCall(b)
    /\ \E ms \in Claims, context \in Contexts, size \in BatchSizes :
          /\ Mappable(ms) /\ ValidateReferenceInputs(ms, Visible(b))
          /\ Start(b, MappingStatements(ResolveMappings(ms), context, size), <<context, <<>>, ResolveMappings(ms)>>)
    /\ UNCHANGED db

\* A write statement takes its snapshot.
BeginStatement(b) ==
    /\ txn[b].pc = "running" /\ Head(txn[b].todo)[1] # "count"
    /\ txn' = [txn EXCEPT ![b].pc = "writing", ![b].seen = Visible(b)]
    /\ UNCHANGED db

\* The SELECT of an exact statement: every input row was written, or is in the
\* statement's snapshot with all its fields.
AcceptExact(rows, written, seen) == Cardinality(written) + Cardinality(rows \cap seen) = Cardinality(rows)

Proceed(b) ==
    [txn[b] EXCEPT !.todo = Tail(@), !.seen = {}, !.late = FALSE,
        !.pc = IF Tail(txn[b].todo) = <<>> THEN "called" ELSE "running"]

\* INSERT ... ON CONFLICT DO NOTHING waits while a row with one of its keys is
\* being inserted by an open transaction, and skips rows whose key is taken.
\* laplace_pg_execute_set_write_exact then looks at the statement's snapshot,
\* laplace_pg_execute_set_write_verify in a second statement at everything.
ExecuteStatement(b) ==
    /\ txn[b].pc = "writing"
    /\ LET kind == Head(txn[b].todo)[1]
           rows == Head(txn[b].todo)[2]
           free == {r \in rows : \A s \in Visible(b) : ~Shares(r, s)}
           written == FoldLeft(LAMBDA w, r : IF \E s \in w : Shares(r, s) THEN w ELSE w \cup {r},
                               {}, SetToSeq(free))
           ok == IF kind = "exact" THEN AcceptExact(rows, written, txn[b].seen)
                 ELSE rows \subseteq Visible(b) \cup written
       IN /\ \A c \in Open(b) : \A r \in free, s \in txn[c].own : ~Shares(r, s)
          /\ txn' = [txn EXCEPT ![b] =
                IF ok THEN [Proceed(b) EXCEPT !.own = @ \cup written]
                ELSE [@ EXCEPT !.pc = "conflict",
                               !.late = \E r \in rows, s \in Visible(b) \ txn[b].seen : Shares(r, s)]]
    /\ UNCHANGED db

\* members_count_sql: the receipt has no member beside those of this call.
CountMembers(b) ==
    /\ txn[b].pc = "running" /\ Head(txn[b].todo)[1] = "count"
    /\ LET of == Head(txn[b].todo)[2]
           members == {r \in Visible(b) : r[1] = "member" /\ r[2].of = of}
       IN txn' = [txn EXCEPT ![b] = IF Cardinality(members) = Len(of) THEN Proceed(b)
                                    ELSE [@ EXCEPT !.pc = "conflict"]]
    /\ UNCHANGED db

Commit(b) ==
    /\ txn[b].pc = "called"
    /\ db' = Visible(b)
    /\ txn' = [txn EXCEPT ![b] = NoTransaction @@ [calls |-> @.calls]]

\* ereport(ERROR), an interrupt, a deadlock that PostgreSQL breaks.
Rollback(b) ==
    /\ txn[b].pc # "idle"
    /\ txn' = [txn EXCEPT ![b] = NoTransaction @@ [calls |-> @.calls]]
    /\ UNCHANGED db

Next ==
    \E b \in Backends :
        \/ AdmitReferences(b) \/ AdmitMappings(b) \/ BeginStatement(b) \/ ExecuteStatement(b)
        \/ CountMembers(b) \/ Commit(b) \/ Rollback(b)

Spec == Init /\ [][Next]_vars

-----------------------------------------------------------------------------

Stored(table) == {r[2] : r \in {x \in db : x[1] = table}}

\* A receipt stands for its batch: every record it covers is stored as the
\* receipt has it, with its coordinate or proposition, and the members are its
\* occurrences in input order, whatever else was stored before or beside it.
ReceiptIsItsBatch ==
    \A receipt \in Stored("receipt") :
        LET records == receipt.of
            topology == "candidate" \in DOMAIN records[1]
            stored == Stored(IF topology THEN "occurrence" ELSE "mapping")
            place(i) == IF topology THEN Occurrence(records[i].candidate) ELSE records[i].id[2]
        IN /\ \A i \in DOMAIN records :
                 /\ records[i] \in stored
                 /\ IF topology THEN records[i].candidate.key \in Stored("coordinate")
                    ELSE PropositionRow(records[i].mapping) \in db
           /\ {m \in Stored("member") : m.of = records} =
                  {[of |-> records, occurrence |-> place(i), ordinal |-> i] : i \in DOMAIN records}

\* "resolved requires both exact endpoints present; unresolved and retired
\* endpoints ... cannot be promoted by a mapping witness": the disposition of a
\* stored mapping is the one of the references stored under its endpoints.
MappingIsGrounded ==
    \A m \in Stored("mapping") :
        /\ {m.mapping.left, m.mapping.right} \subseteq Stored("occurrence")
        /\ m.id[5] = "resolved" <=> m.mapping.left.disposition = "present" /\ m.mapping.right.disposition = "present"
        /\ m.id[5] = "retired" <=> "retired" \in {m.mapping.left.disposition, m.mapping.right.disposition}

\* The identity of a proposition and its row agree on the order of endpoints:
\* a proposition witnessed again, from either side, is refused only when another
\* transaction stored it while the statement ran.
PropositionsAgree ==
    \A b \in Backends :
        txn[b].pc = "conflict" /\ ~txn[b].late =>
            \A r \in Head(txn[b].todo)[2] : r[1] # "proposition"

\* A call that repeats stored work is accepted whatever the batch size of either
\* was, unless it runs beside a transaction that stores the same rows.
RebatchedReplayIsAccepted ==
    \A b \in Backends :
        LET goal == txn[b].goal
            receipt(of) == of = <<>> \/ [of |-> of, context |-> goal[1]] \in Stored("receipt")
        IN txn[b].pc = "conflict" /\ ~txn[b].late => ~(receipt(goal[2]) /\ receipt(goal[3]))

\* "Laplace reference coordinate batch conflicts with durable state": a batch is
\* refused only when a durable row with one of its keys differs from its own.
BatchConflictMeansDifference ==
    \A b \in Backends :
        txn[b].pc = "conflict" /\ Head(txn[b].todo)[1] = "exact" =>
            \E r \in Head(txn[b].todo)[2], s \in Visible(b) \cup Head(txn[b].todo)[2] : r # s /\ Shares(r, s)

\* "a source profile row and its exact left and right field and value identities
\* form a separately addressable mapping witness occurrence": witnesses of one
\* row that differ in their fields can both be stored.
RowWitnessesAreSeparate ==
    \A b \in Backends :
        txn[b].pc = "conflict" =>
            \A r \in Head(txn[b].todo)[2] :
                r[1] = "mapping" => \E s \in Visible(b) : s[1] = "mapping" /\ s # r /\ s[2].id[2] = r[2].id[2]

=============================================================================
