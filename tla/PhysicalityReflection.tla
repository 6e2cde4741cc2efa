------------------------ MODULE PhysicalityReflection ------------------------
(***************************************************************************)
(* Physicalities as entities (physicality_entity_pg.c over the native      *)
(* physicality_entity.cpp, physicality_occurrence_binding.cpp and          *)
(* content_reference_view.cpp).  An admission authenticates a batch of     *)
(* stored physicalities and the selectors that came with it, binds every   *)
(* logical occurrence of every composition to one exact physicality, cuts  *)
(* out the scope each source reaches and publishes one view per source.    *)
(* A read starts from the retained rows alone and recomputes the view.     *)
(*                                                                         *)
(* Identities are injective, so an identity is modelled by what it hashes: *)
(* a binding set by its rows, a view by its source, its context, its rows  *)
(* and its canonical references.                                           *)
(***************************************************************************)
EXTENDS Naturals, Sequences, SequencesExt, FiniteSets, FiniteSetsExt

CONSTANTS
    Phys,      \* stored physicalities: id -> [entity, atom, runs of <<entity, count, recorded tier>>]
    Atoms,     \* entities of the active Unicode root
    Inputs,    \* admission calls: [ids (a sequence), known, rows]
    Sessions,
    MaxCalls   \* bound on admissions begun

VARIABLES
    entities,  \* canonical entity rows
    sets,      \* retained binding sets: [id, rows, exact]
    owners,    \* retained views: [id, source, ext]
    tx,        \* session -> what its open admission has published
    reported,  \* inserted entities reported by committed admissions
    served,    \* views a cold read returned
    admitted,  \* every view ever committed
    altered,   \* a retained row was changed behind the code's back
    calls

vars == <<entities, sets, owners, tx, reported, served, admitted, altered, calls>>

Ids == DOMAIN Phys
Idle == [st |-> "idle", ents |-> {}, new |-> {}, sets |-> {}, owners |-> {}, inserted |-> 0]

-----------------------------------------------------------------------------
(* The native record validation.                                            *)

Logical(p) == FoldLeft(LAMBDA n, r : n + r[2], 0, Phys[p].runs)
IsSingleton(p) == ~Phys[p].atom /\ Logical(p) = 1

\* What a record says of its own tier: a composition of two or more is one
\* above its highest recorded child, a singleton of an atom is that atom, and
\* a singleton of anything else cannot certify its content.
Validation(p) ==
    LET runs == Phys[p].runs
        top == Max({0} \cup {runs[i][3] : i \in DOMAIN runs})
    IN IF Phys[p].atom THEN [independent |-> FALSE, tier |-> 0]
       ELSE IF Logical(p) >= 2 THEN [independent |-> TRUE, tier |-> top + 1]
       ELSE [independent |-> runs[1][1] \in Atoms, tier |-> 0]

\* A selector [p, tier, atom] is independent when the Unicode root or the
\* record itself certifies it; its tier must then be the certified one.
Independent(k) == k.atom \/ Validation(k.p).independent
Certified(k) ==
    /\ Phys[k.p].atom => k.atom
    /\ k.atom => Phys[k.p].entity \in Atoms /\ k.tier = 0
    /\ ~k.atom /\ Validation(k.p).independent => k.tier = Validation(k.p).tier

\* Selectors agree on one physicality; certified selectors of one entity
\* agree with each other, and the others agree with one of them.
KnownValid(known) ==
    LET same(j, k) == j.tier = k.tier /\ j.atom = k.atom
        kin(j, k) == Phys[j.p].entity = Phys[k.p].entity
        evidence == {k \in known : Independent(k)}
    IN /\ known # {}
       /\ \A j, k \in known : j.p = k.p => j = k
       /\ \A k \in known : Certified(k)
       /\ \A j, k \in evidence : kin(j, k) => same(j, k)
       /\ \A k \in known \ evidence : \E j \in evidence : kin(j, k) /\ same(j, k)

-----------------------------------------------------------------------------
(* Occurrence bindings: rows [parent, first, count, entity, selected].      *)

SourceUnion(ids, known) == ids \cup {k.p : k \in known}

\* One row per carrier, selecting the only admitted physicality of its entity.
Candidates(S, e) == {p \in S : Phys[p].entity = e}
Derivable(S) ==
    \A p \in S : \A i \in DOMAIN Phys[p].runs : Cardinality(Candidates(S, Phys[p].runs[i][1])) = 1
First(p, i) == 1 + FoldLeft(LAMBDA n, r : n + r[2], 0, SubSeq(Phys[p].runs, 1, i - 1))
Derive(S) ==
    UNION {{[parent |-> p, first |-> First(p, i), count |-> Phys[p].runs[i][2],
             entity |-> Phys[p].runs[i][1],
             selected |-> CHOOSE q \in Candidates(S, Phys[p].runs[i][1]) : TRUE] :
                i \in DOMAIN Phys[p].runs} : p \in S}

\* The entity at a logical ordinal, whatever run carries it.
EntityAt(p, n) ==
    Phys[p].runs[Max({i \in DOMAIN Phys[p].runs : First(p, i) <= n})][1]

\* The rows of a parent follow each other, name the entity at each ordinal
\* they stand for and end where the body ends.
IntervalsMatch(p, rows) ==
    LET covers(r) == r.first .. (r.first + r.count - 1)
    IN /\ \A r \in rows : r.count > 0 /\ covers(r) \subseteq 1 .. Logical(p)
       /\ \A n \in 1 .. Logical(p) :
            \E r \in rows : /\ n \in covers(r) /\ r.entity = EntityAt(p, n)
                            /\ \A q \in rows \ {r} : n \notin covers(q)

RowsOf(rows, p) == {r \in rows : r.parent = p}

\* Every composition of the frontier is bound completely, and only inside it.
OccurrencesValid(rows, S) ==
    LET parents == {p \in S : ~Phys[p].atom}
    IN /\ \A r \in rows : /\ r.parent \in parents
                          /\ r.selected \in S
                          /\ Phys[r.selected].entity = r.entity
       /\ \A p \in parents : RowsOf(rows, p) # {} /\ IntervalsMatch(p, RowsOf(rows, p))

\* The selectors a set of rows stands on, each of which must be known.
Named(rows) == {r.parent : r \in rows} \cup {r.selected : r \in rows}
SelectSources(rows, known) == {k \in known : k.p \in Named(rows)}
SourcesKnown(rows, known) == Named(rows) \subseteq {k.p : k \in known}

\* The parents a source reaches through selected physicalities: the frontier
\* grows by one step until nothing new is found.
Reached(rows, p) ==
    LET step[n \in 0 .. Cardinality(Ids)] ==
            IF n = 0 THEN {p}
            ELSE LET before == step[n - 1]
                 IN before \cup {r.selected : r \in {q \in rows : q.parent \in before}}
    IN step[Cardinality(Ids)]
\* Fault: the scope is the whole batch.
BatchScope(rows, p) == rows
Scope(rows, p) == {r \in rows : r.parent \in Reached(rows, p)}

-----------------------------------------------------------------------------
(* Canonical references: what the content of a scope is, whatever form it   *)
(* was observed in.                                                         *)

\* The entities a descriptor refers to.
PlanExternal(p) == {Phys[p].entity} \cup {Phys[p].runs[i][1] : i \in DOMAIN Phys[p].runs}

\* A form that supplies the topology of its entity; a singleton never does.
Topology(S, e) == {p \in S : Phys[p].entity = e /\ ~Phys[p].atom /\ ~IsSingleton(p)}

\* Every entity in sight is a pinned atom or has a topology in the scope.
Closed(S, pinned, roots) ==
    LET nodes == roots \cup UNION {PlanExternal(p) : p \in {q \in S : ~IsSingleton(q)}}
    IN \A e \in nodes : e \in pinned \/ Topology(S, e) # {}

\* The tier the shared composer computes from the content, bottom up.
CanonicalTier(S, pinned) ==
    LET ents == {Phys[p].entity : p \in S}
        tier[n \in 0 .. Cardinality(Ids), e \in ents] ==
            IF e \in pinned \/ n = 0 THEN 0
            ELSE LET runs == Phys[CHOOSE p \in Topology(S, e) : TRUE].runs
                 IN 1 + Max({tier[n - 1, runs[i][1]] : i \in DOMAIN runs})
    IN [e \in ents |-> tier[Cardinality(Ids), e]]

\* The reference view of one source in its scope: the selectors, the source's
\* own among them, must say of each entity what its content says.
ReferenceValid(p, scope, known) ==
    LET selected == SelectSources(scope, known) \cup {k \in known : k.p = p}
        S == {k.p : k \in selected}
        pinned == {Phys[k.p].entity : k \in {j \in selected : j.atom}}
        roots == {Phys[q].entity : q \in S} \cup PlanExternal(p)
    IN /\ p \in S
       /\ Closed(S, pinned, roots)
       /\ LET tier == CanonicalTier(S, pinned)
          IN \A k \in selected : LET e == Phys[k.p].entity
                                 IN k.atom = (e \in pinned) /\ k.tier = tier[e]

\* The view's identity, its retained source selector and its nodes.
Retained(p, known) == CHOOSE k \in known : k.p = p
View(p, scope) == [source |-> p, rows |-> scope]
Owner(p, scope, known) == [id |-> View(p, scope), source |-> p, set |-> scope, ext |-> Retained(p, known)]
BindingSet(scope, known) == [id |-> scope, rows |-> scope, exact |-> SelectSources(scope, known)]

\* Canonical entities of one descriptor: its root and the numerals of its
\* counts, which descriptors share.
DescriptorEntities(p) ==
    {<<p, 0>>} \cup {<<"numeral", Phys[p].runs[i][2]>> : i \in DOMAIN Phys[p].runs}

-----------------------------------------------------------------------------
(* Admission.                                                               *)

Frontier(in) == SourceUnion(ToSet(in.ids), in.known)
RowsFor(in) == IF in.rows = {} THEN Derive(Frontier(in)) ELSE in.rows

\* Everything the call checks before it writes.
Admissible(in) ==
    LET S == Frontier(in)
    IN /\ KnownValid(in.known)
       /\ in.rows = {} => Derivable(S)
       /\ OccurrencesValid(RowsFor(in), S)
       /\ SourcesKnown(RowsFor(in), in.known)
       /\ \A p \in ToSet(in.ids) :
            /\ OccurrencesValid(Scope(RowsFor(in), p), Named(Scope(RowsFor(in), p)))
            /\ ReferenceValid(p, Scope(RowsFor(in), p), in.known)

\* The inputs are checked against immutable rows only, so which of them are
\* admissible does not depend on the state.
AdmissibleInputs == {in \in Inputs : Admissible(in)}

Init ==
    /\ entities = {} /\ sets = {} /\ owners = {} /\ tx = [s \in Sessions |-> Idle]
    /\ reported = 0 /\ served = {} /\ admitted = {} /\ altered = FALSE /\ calls = 0

\* An insert waits for another transaction's uncommitted row of the same key.
Waits(s, ents) == \E t \in Sessions \ {s} : tx[t].new \cap ents # {}

\* Insertions are reported once, whichever source of the batch is charged.
NewEntities(in) == UNION {DescriptorEntities(p) : p \in ToSet(in.ids)} \ entities
Inserted(in) == Cardinality(NewEntities(in))
\* One admission: entities, parents and sets, views, all inserted where
\* absent and then read back; a row that differs fails the call.
Admit(s, in) ==
    LET rows == RowsFor(in)
        ids == ToSet(in.ids)
        newSets == {BindingSet(Scope(rows, p), in.known) : p \in ids}
        newOwners == {Owner(p, Scope(rows, p), in.known) : p \in ids}
    IN /\ tx[s].st = "idle" /\ calls < MaxCalls
       /\ ~Waits(s, UNION {DescriptorEntities(p) : p \in ids})
       /\ \A b \in sets : \A n \in newSets : b.id = n.id => b = n
       /\ \A o \in owners : \A n \in newOwners : o.id = n.id => o = n
       /\ tx' = [tx EXCEPT ![s] = [st |-> "published", ents |-> UNION {DescriptorEntities(p) : p \in ids},
                                   new |-> NewEntities(in), sets |-> newSets, owners |-> newOwners,
                                   inserted |-> Inserted(in)]]
       /\ calls' = calls + 1
       /\ UNCHANGED <<entities, sets, owners, reported, served, admitted, altered>>

Commit(s) ==
    /\ tx[s].st = "published"
    /\ entities' = entities \cup tx[s].new
    /\ sets' = sets \cup tx[s].sets
    /\ owners' = owners \cup tx[s].owners
    /\ reported' = reported + tx[s].inserted
    /\ admitted' = admitted \cup {o.id : o \in tx[s].owners}
    /\ tx' = [tx EXCEPT ![s] = Idle]
    /\ UNCHANGED <<served, altered, calls>>

Rollback(s) ==
    /\ tx[s].st = "published"
    /\ tx' = [tx EXCEPT ![s] = Idle]
    /\ UNCHANGED <<entities, sets, owners, reported, served, admitted, altered, calls>>

-----------------------------------------------------------------------------
(* Cold reads.                                                              *)

SetOf(o) == {b \in sets : b.id = o.set}
ReadKnown(os) == {o.ext : o \in os} \cup UNION {b.exact : b \in UNION {SetOf(o) : o \in os}}

\* A retained set must reproduce its identity from its rows and name no
\* source its rows do not use.
Revalidated(b) ==
    /\ OccurrencesValid(b.rows, {k.p : k \in b.exact})
    /\ b.rows = b.id
    /\ SourcesKnown(b.rows, b.exact)
    /\ SelectSources(b.rows, b.exact) = b.exact

\* The owner recomputed from its retained set must have the retained identity.
Recomputed(o, known) ==
    \E b \in SetOf(o) : /\ ReferenceValid(o.source, b.rows, known)
                        /\ View(o.source, b.id) = o.id

Readable(os) ==
    LET known == ReadKnown(os)
    IN /\ \A o \in os : SetOf(o) # {}
       /\ KnownValid(known)
       /\ \A b \in UNION {SetOf(o) : o \in os} : Revalidated(b)
       /\ \A o \in os : Recomputed(o, known)

\* What the caller gets: the descriptor of the source over the retained rows.
Read(os) ==
    /\ os # {} /\ Readable(os)
    /\ served' = served \cup {[source |-> o.source, rows |-> b.rows] : <<o, b>> \in
                                {ob \in os \X sets : ob[2].id = ob[1].set}}
    /\ UNCHANGED <<entities, sets, owners, tx, reported, admitted, altered, calls>>

-----------------------------------------------------------------------------
(* One retained row changed behind the code's back.                         *)

AlterSelection ==
    \E b \in sets : \E r \in b.rows :
        \E q \in Candidates(Ids, r.entity) \ {r.selected} :
            sets' = (sets \ {b}) \cup
                    {[b EXCEPT !.rows = (b.rows \ {r}) \cup {[r EXCEPT !.selected = q]}]}
AlterSource ==
    \E o \in owners : \E q \in Ids \ {o.source} :
        owners' = (owners \ {o}) \cup {[o EXCEPT !.source = q]}

Alter ==
    /\ ~altered /\ altered' = TRUE
    /\ \/ AlterSelection /\ UNCHANGED owners
       \/ AlterSource /\ UNCHANGED sets
    /\ UNCHANGED <<entities, tx, reported, served, admitted, calls>>

Next ==
    \/ \E s \in Sessions : Commit(s) \/ Rollback(s)
    \/ \E s \in Sessions : tx[s].st = "idle" /\ calls < MaxCalls /\ \E in \in AdmissibleInputs : Admit(s, in)
    \/ \E os \in SUBSET owners : Read(os)
    \/ Alter

Spec == Init /\ [][Next]_vars

-----------------------------------------------------------------------------
(* Properties.                                                              *)

\* Normal cold readback reconstructs every committed view with the identity
\* it was admitted under, alone and beside any other retained view
\* (reflection_read_views_connected recomputes everything from the rows the
\* admission retained, which are fewer than the rows it was given).
ColdReadable == ~altered => \A os \in SUBSET owners : os # {} => Readable(os)

\* No closed part of the rows that holds the source leaves a parent out.
Minimal(rows, p) ==
    LET parents == {r.parent : r \in rows}
        closed(Q) == \A r \in rows : r.parent \in Q /\ r.selected \in parents => r.selected \in Q
    IN \A Q \in SUBSET parents : (p \in Q \/ parents = {}) /\ closed(Q) => Q = parents

\* An unrelated parent, selector or source of the same call cannot change a
\* view: admitted alone, with nothing but what it retains, a source gets the
\* view and the binding set it got in its batch.
ScopeIsolated ==
    ~altered => \A o \in owners : \E b \in SetOf(o) :
        LET solo == [ids |-> <<o.source>>, known |-> b.exact \cup {o.ext}, rows |-> b.rows]
        IN /\ Admissible(solo)
           /\ b.id = o.id.rows /\ Minimal(b.rows, o.source)

\* A changed selector or owner mapping is never served: what a read returns
\* was committed exactly so.
ServedWasAdmitted == served \subseteq admitted

\* Replay, concurrency and rollback keep the counts: every canonical entity
\* was reported as inserted by exactly one committed admission.
InsertionsReportedOnce == reported = Cardinality(entities)
=============================================================================
