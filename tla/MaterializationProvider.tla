---------------------- MODULE MaterializationProvider -----------------------
(***************************************************************************)
(* The PostgreSQL materialization provider: materialization_pg.c.  A        *)
(* backend reads the tree of compositions below a root through a cache that *)
(* is filled on demand and, speculatively, with the children of every node  *)
(* whose trajectory is read.  A source that is a retained view binds each   *)
(* occurrence of a child to one exact physicality.  All reads of a call     *)
(* share its snapshot, so the database does not change; which perfcache     *)
(* generation is active may.                                                *)
(***************************************************************************)
EXTENDS Integers, Sequences, SequencesExt, FiniteSets

CONSTANTS
    Databases,  \* [entities, atoms, rows, derived, owners], see MCMaterializationProvider
    Providers,  \* [required, original, base]: how the provider was created
    Reads,      \* [root, source, recipe]: the reads the host may begin
    MaxReads

VARIABLES
    db, provider,
    pinned,     \* the context's perfcache epoch is the active one
    scope,      \* what begin_read bound, or NoScope
    selections, \* entity -> physicality
    cache,      \* ready entries: key -> node
    resolving,  \* keys whose entry is flagged as being resolved
    prefetched, \* keys whose children were prefetched
    known,      \* keys the traversal has reached
    error,      \* an error was kept: every callback refuses
    reads,      \* number of reads begun
    last        \* the last callback and what it returned

vars == <<db, provider, pinned, scope, selections, cache, resolving, prefetched, known, error, reads, last>>

None == "none"   \* no view
Zero == 0        \* the all-zero digest: no physicality
NoScope == [view |-> None, historical |-> FALSE, root |-> None, external |-> {}, occurrences |-> <<>>]
Nothing == [k \in {} |-> None]
Quiet == [call |-> "none"]

Init ==
    /\ db \in Databases
    /\ provider \in Providers
    /\ pinned = TRUE
    /\ scope = NoScope
    /\ selections = provider.base
    /\ cache = Nothing
    /\ resolving = {} /\ prefetched = {} /\ known = {}
    /\ error = FALSE
    /\ reads = 0
    /\ last = Quiet

-----------------------------------------------------------------------------
(* Keys and what the database says about one.                              *)

\* An entity without an explicit physicality takes the provider's selection.
Key(e, phys, chosen) ==
    [entity |-> e, phys |-> IF phys # Zero THEN phys ELSE IF e \in DOMAIN chosen THEN chosen[e] ELSE Zero]

Retained(sc, k) == sc.view # None /\ k.phys # Zero /\ <<k.entity, k.phys>> \in sc.external

StoredRows(sc, k) ==
    {r \in db.rows : /\ r.entity = k.entity /\ r.type = "composition"
                     /\ IF k.phys = Zero THEN r.epoch = "pinned"
                        ELSE r.phys = k.phys /\ (r.epoch = "pinned" \/ Retained(sc, k))}

\* physicality_entity_resolve_scoped: a scope admits the views of its owner.
DerivedRows(view, k) ==
    {d \in db.derived : d.entity = k.entity /\ view \in {None, d.view} /\ k.phys \in {Zero, d.phys}}

\* The Unicode atom of an entity, unless the key selects a composition of it.
IsAtom(sc, k) ==
    /\ k.entity \in db.atoms
    /\ k.phys = Zero \/ \E r \in db.rows : /\ r.phys = k.phys /\ r.entity = k.entity /\ r.type = "atom"
                                           /\ r.epoch = "pinned" \/ Retained(sc, k)
AtomAuthentic(sc, k) == k.phys = Zero \/ k.phys = db.atomOf[k.entity] \/ <<k.entity, k.phys>> \in sc.external

Composition(row) == [kind |-> "composition", phys |-> row.phys, body |-> row.body]
AtomNode(k) == [kind |-> "atom", phys |-> k.phys, body |-> <<>>]

\* Stored and derived candidates are one physicality with one body, and every
\* stored row hashes to its own identity.
FrontierRows(sc, k) == StoredRows(sc, k) \cup IF sc.historical THEN {} ELSE DerivedRows(sc.view, k)
CompositionOk(sc, k) ==
    /\ \A r \in StoredRows(sc, k) : r.good
    /\ Cardinality({Composition(r) : r \in FrontierRows(sc, k)}) = 1
CompositionOf(sc, k) == Composition(CHOOSE r \in FrontierRows(sc, k) : TRUE)

-----------------------------------------------------------------------------
(* One frontier: resolve_batch.                                            *)

\* A frontier that fails keeps the atoms it found: no composition is published
\* before every candidate of the frontier has passed.
KeptAfterFailure(atoms, compositions) == atoms

\* [ok, cache, flagged]: the frontier's keys in order; one whose entry is ready
\* or being resolved is skipped.
ResolveBatch(keys) ==
    LET fresh == SelectSeq(keys, LAMBDA k : k \notin DOMAIN cache /\ k \notin resolving)
        bad == {i \in DOMAIN fresh : IsAtom(scope, fresh[i]) /\ ~AtomAuthentic(scope, fresh[i])}
        reached == IF bad = {} THEN Len(fresh) ELSE Min(bad) - 1
        atoms == {fresh[i] : i \in {j \in 1 .. reached : IsAtom(scope, fresh[j])}}
        compositions == {fresh[i] : i \in {j \in DOMAIN fresh : ~IsAtom(scope, fresh[j])}}
        withAtoms == cache @@ [k \in atoms |-> AtomNode(k)]
    IN CASE fresh = <<>> -> [ok |-> TRUE, cache |-> cache, flagged |-> resolving]
         [] \/ \E i \in DOMAIN fresh : fresh[i].entity \notin db.entities
            \/ ~pinned
              -> [ok |-> FALSE, cache |-> cache, flagged |-> resolving \cup Range(fresh)]
         [] bad # {} -> [ok |-> FALSE, cache |-> withAtoms, flagged |-> resolving \cup (Range(fresh) \ atoms)]
         [] bad = {} /\ \A k \in compositions : CompositionOk(scope, k)
              -> [ok |-> TRUE, flagged |-> resolving,
                  cache |-> withAtoms @@ [k \in compositions |-> CompositionOf(scope, k)]]
         [] OTHER -> [ok |-> FALSE, cache |-> KeptAfterFailure(withAtoms, compositions),
                      flagged |-> resolving \cup (Range(fresh) \ atoms)]

\* reset_resolving: entries of a failed frontier are blank again.
ResetResolving(flagged) == {}

-----------------------------------------------------------------------------
(* Occurrence bindings.                                                    *)

\* Binary search for the last binding of a parent that starts at or before the
\* ordinal, in the sorted bindings of the scope.
BindingAt(occurrences, parent, ordinal) ==
    LET before(i) == \/ occurrences[i].parent < parent
                     \/ occurrences[i].parent = parent /\ occurrences[i].first <= ordinal
        search[lu \in (1 .. Len(occurrences) + 1) \X (1 .. Len(occurrences) + 1)] ==
            LET middle == lu[1] + ((lu[2] - lu[1]) \div 2) IN
            IF lu[1] >= lu[2] THEN lu[1] - 1
            ELSE IF before(middle) THEN search[<<middle + 1, lu[2]>>]
            ELSE search[<<lu[1], middle>>]
    IN search[<<1, Len(occurrences) + 1>>]

ClippedRun(run, binding, ordinal) == Min({run, binding.count - (ordinal - binding.first)})

\* reference_selection of a child: [ok, phys, run].
ReferenceSelection(parent, entity, ordinal, run) ==
    LET n == Len(scope.occurrences)
        at == BindingAt(scope.occurrences, parent, ordinal)
        unbound == [ok |-> TRUE, phys |-> Zero, run |-> run]
        failed == [ok |-> FALSE, phys |-> Zero, run |-> 0]
    IN IF scope.view = None THEN unbound
       ELSE IF at = 0 \/ (at > 0 /\ scope.occurrences[at].parent # parent)
       THEN IF at < n /\ scope.occurrences[at + 1].parent = parent THEN failed ELSE unbound
       ELSE LET b == scope.occurrences[at] IN
              IF ordinal - b.first >= b.count \/ b.entity # entity THEN failed
              ELSE [ok |-> TRUE, phys |-> b.phys, run |-> ClippedRun(run, b, ordinal)]

\* The pieces of a body: each run split where the binding changes; a piece that
\* cannot be bound ends the walk.
Pieces(node) ==
    LET step(acc, c) ==
            LET walk[left \in 0 .. c.run] ==
                    IF left = 0 THEN <<>>
                    ELSE LET at == acc.ordinal + c.run - left
                             s == ReferenceSelection(node.phys, c.entity, at, left)
                         IN IF ~s.ok THEN <<[entity |-> c.entity, ok |-> FALSE]>>
                            ELSE <<[entity |-> c.entity, ok |-> TRUE, phys |-> s.phys, first |-> at, run |-> s.run]>>
                                 \o walk[left - s.run]
            IN [ordinal |-> acc.ordinal + c.run, pieces |-> acc.pieces \o walk[c.run]]
    IN FoldLeft(step, [ordinal |-> 1, pieces |-> <<>>], node.body).pieces

PiecesOk(node) == \A i \in DOMAIN Pieces(node) : Pieces(node)[i].ok

\* What a traversal must resolve: an unbound atom is read from its carrier.
ChildKeys(node) ==
    {Key(p.entity, p.phys, selections) :
        p \in {q \in Range(Pieces(node)) : q.entity \notin db.atoms \/ q.phys # Zero}}

-----------------------------------------------------------------------------
(* begin_read.                                                             *)

\* Binding a root to a view empties the cache, whatever was read before.
ClearedCache == Nothing

SortedBindings(set) ==
    SetToSortSeq(set, LAMBDA x, y : x.parent < y.parent \/ (x.parent = y.parent /\ x.first < y.first))

BindingsContiguous(s) ==
    \A i \in DOMAIN s :
        IF i > 1 /\ s[i - 1].parent = s[i].parent THEN s[i].first = s[i - 1].first + s[i - 1].count
        ELSE s[i].first = 1

\* The view a source binds a root to: its owner's root for an original, a node
\* of the view otherwise, or an atom the owner knows.
BoundRoot(r) ==
    LET owner == db.owners[r.source]
        derived == DerivedRows(r.source, Key(r.root, Zero, provider.base))
    IN IF r.source \notin DOMAIN db.owners THEN [status |-> "unbound"]
       ELSE IF provider.original # Zero
       THEN IF <<r.root, provider.original>> = owner.original /\ r.recipe = owner.recipe
              THEN [status |-> "bound", phys |-> provider.original, occurrences |-> owner.originals]
              ELSE [status |-> "failed"]
       ELSE IF derived # {}
       THEN IF Cardinality(derived) = 1 /\ r.recipe = owner.recipe
              THEN [status |-> "bound", phys |-> (CHOOSE d \in derived : TRUE).phys, occurrences |-> owner.generated]
              ELSE [status |-> "failed"]
       ELSE IF provider.required = None THEN [status |-> "unbound"]
       ELSE IF r.root \in owner.atoms /\ r.recipe = owner.recipe
       THEN [status |-> "bound", phys |-> db.atomOf[r.root], occurrences |-> owner.generated]
       ELSE [status |-> "failed"]

BeginRead(r) ==
    LET b == BoundRoot(r)
        refused == provider.required # None /\ r.source # provider.required
        occurrences == SortedBindings(b.occurrences)
        conflict == r.root \in DOMAIN provider.base /\ provider.base[r.root] # b.phys
        historical == provider.original # Zero
        external == IF b.status = "bound" THEN db.owners[r.source].external ELSE {}
        rootKey == [entity |-> r.root, phys |-> b.phys]
        generated == {d \in db.derived : d.view = r.source /\ d.entity = r.root}
    IN
    /\ ~error /\ reads < MaxReads
    /\ reads' = reads + 1
    /\ prefetched' = {}
    /\ resolving' = {}
    /\ IF refused \/ b.status = "failed" \/ (b.status = "unbound" /\ provider.required # None)
          \/ (b.status = "bound" /\ (~BindingsContiguous(occurrences) \/ conflict))
       THEN /\ error' = TRUE
            /\ scope' = NoScope /\ cache' = Nothing /\ selections' = provider.base /\ known' = {}
            /\ last' = [call |-> "begin", ok |-> FALSE]
       ELSE IF b.status = "unbound"
       THEN /\ scope' = NoScope
            /\ selections' = provider.base
            /\ cache' = IF scope.view = None THEN cache ELSE Nothing
            /\ known' = {Key(r.root, Zero, provider.base)}
            /\ last' = Quiet
            /\ UNCHANGED error
       ELSE /\ scope' = [view |-> r.source, historical |-> historical, root |-> r.root,
                         external |-> external, occurrences |-> occurrences]
            /\ selections' = provider.base @@ [e \in {r.root} |-> b.phys]
            /\ cache' = ClearedCache @@
                          IF historical \/ r.root \in db.atoms THEN Nothing
                          ELSE [k \in {rootKey} |-> Composition(CHOOSE d \in generated : TRUE)]
            /\ known' = {rootKey}
            /\ last' = Quiet
            /\ UNCHANGED error
    /\ UNCHANGED <<db, provider, pinned>>

-----------------------------------------------------------------------------
(* The callbacks of the traversal.                                         *)

\* resolve_node and resolve_selected.
ResolveNode(k) ==
    LET b == ResolveBatch(<<k>>)
        ok == k \in DOMAIN cache \/ (b.ok /\ k \in DOMAIN b.cache)
    IN
    /\ ~error /\ k \in known
    /\ cache' = IF k \in DOMAIN cache THEN cache ELSE b.cache
    /\ resolving' = IF ok THEN resolving ELSE ResetResolving(b.flagged)
    /\ error' = ~ok
    /\ last' = [call |-> "resolve", key |-> k, ok |-> ok, pinned |-> pinned,
                node |-> IF ok THEN cache'[k] ELSE None]
    /\ UNCHANGED <<db, provider, pinned, scope, selections, prefetched, known, reads>>

\* A failed speculation is discarded, unless the query was cancelled.
PrefetchFails(cancelled, failed) == cancelled

\* read_trajectory of a node the traversal holds: the children are prefetched
\* first, once, if the walk over the body binds every piece.
ReadTrajectory(k, cancelled) ==
    LET node == cache[k]
        keys == SetToSeq({c \in ChildKeys(node) : c \notin DOMAIN cache})
        tries == k \notin prefetched /\ PiecesOk(node) /\ keys # <<>>
        b == ResolveBatch(keys)
        failed == tries /\ (cancelled \/ ~b.ok)
    IN
    /\ ~error /\ k \in known /\ k \in DOMAIN cache
    /\ node.kind = "composition"
    /\ cancelled => tries
    /\ prefetched' = prefetched \cup {k}
    /\ IF failed
       THEN /\ cache' = IF cancelled THEN cache ELSE b.cache
            /\ resolving' = ResetResolving(b.flagged)
       ELSE /\ cache' = IF tries THEN b.cache ELSE cache
            /\ UNCHANGED resolving
    /\ LET ok == ~PrefetchFails(cancelled, failed) /\ PiecesOk(node) IN
       /\ error' = ~ok
       /\ known' = IF ok THEN known \cup ChildKeys(node) ELSE known
       /\ last' = [call |-> "read", ok |-> ok, pinned |-> pinned, node |-> node, cancelled |-> cancelled,
                   pieces |-> Pieces(node)]
    /\ UNCHANGED <<db, provider, pinned, scope, selections, reads>>

\* Another backend activates a perfcache generation, or activates this one again.
PerfcacheMoves ==
    /\ pinned' = ~pinned
    /\ UNCHANGED <<db, provider, scope, selections, cache, resolving, prefetched, known, error, reads, last>>

Next ==
    \/ \E r \in Reads : BeginRead(r)
    \/ \E k \in known : ResolveNode(k)
    \/ \E k \in known, cancelled \in BOOLEAN : ReadTrajectory(k, cancelled)
    \/ PerfcacheMoves

Spec == Init /\ [][Next]_vars

-----------------------------------------------------------------------------
(* Properties.                                                             *)

\* Everything the database holds for a key within the scope of the read.
Candidates(k) ==
    {Composition(r) : r \in {s \in db.rows : /\ s.entity = k.entity /\ s.type = "composition"
                                             /\ k.phys \in {Zero, s.phys}
                                             /\ s.epoch = "pinned" \/ Retained(scope, k)}}
    \cup {Composition(d) : d \in {s \in db.derived : /\ ~scope.historical /\ s.entity = k.entity
                                                     /\ k.phys \in {Zero, s.phys}
                                                     /\ scope.view \in {None, s.view}}}

\* A read fails only for what it asked for itself: a failed or wrong speculation
\* about children changes nothing (prefetch_children).
FailureIsItsOwn ==
    /\ last.call = "resolve" /\ ~last.ok =>
        \/ ~last.pinned
        \/ last.key.entity \notin db.entities
        \/ Cardinality(Candidates(last.key)) # 1
        \/ \E r \in db.rows : r.entity = last.key.entity /\ (~r.good \/ r.type = "atom")
    /\ last.call = "read" /\ ~last.ok => last.cancelled \/ ~PiecesOk(last.node)

\* A composition is in the cache, and so can be served, only while it is the
\* only candidate for its key under the view the read is bound to: neither a
\* discarded speculation nor a read under another scope leaves an answer behind
\* (resolve_batch publishes a frontier only when all of it passed).
ReadyIsTheOnlyCandidate ==
    \A k \in DOMAIN cache : cache[k].kind = "composition" => Candidates(k) = {cache[k]}

\* Between two callbacks no entry is flagged as being resolved: a later frontier
\* would skip it and never resolve it.
NothingLeftResolving == resolving = {}

\* Reading a bound parent splits its runs so that every occurrence gets the
\* physicality of the binding that covers it, and none is skipped or read twice.
OccurrencesKeepTheirBinding ==
    last.call = "read" /\ last.ok /\ scope.view # None =>
        \A o \in Range(scope.occurrences) :
            o.parent = last.node.phys =>
                \A n \in o.first .. o.first + o.count - 1 :
                    Cardinality({i \in DOMAIN last.pieces :
                        LET p == last.pieces[i] IN
                        /\ p.first <= n /\ n < p.first + p.run
                        /\ p.phys = o.phys /\ p.entity = o.entity}) = 1
=============================================================================
