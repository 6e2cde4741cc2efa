----------------------------- MODULE MCDeposits -----------------------------
(***************************************************************************)
(* The components that store and read back what the engine made, side by   *)
(* side: the first state chooses one of Parts, and from there on that      *)
(* component runs alone with its sessions.  PersistenceDeposit,            *)
(* HighwayRegistry, UnicodeRootDeposit, WorldAdmission, CompositionDeposit *)
(* and StandingPeriods have variables of their own, which keep their first *)
(* values while another part runs.  The variables v1, v2, ...  stand for   *)
(* the variables of every other part, in the order its instance names      *)
(* them; those it does not need keep Unused.                               *)
(***************************************************************************)
EXTENDS PersistenceDeposit, HighwayRegistry, UnicodeRootDeposit, WorldAdmission, CompositionDeposit,
    StandingPeriods, SequencesExt, FiniteSetsExt, TLC

CONSTANT Parts   \* the components to check

VARIABLES part, v1, v2, v3, v4, v5, v6, v7, v8, v9, v10, v11, v12

others == <<v1, v2, v3, v4, v5, v6, v7, v8, v9, v10, v11, v12>>
vars == <<part, depositVars, highwayVars, rootVars, worldVars, compositionVars, standingVars, others>>
Unused == "unused"

\* The sessions are told apart by nothing.
Symmetric == Permutations(Sessions)

-----------------------------------------------------------------------------
(* PersistenceDeposit: backends that store overlapping content: one writes   *)
(* two entities and the composition of both in two deposits, one the         *)
(* composition and an attestation of it, one an entity whose identity        *)
(* collides, one a row the tables refuse.                                    *)

DepositRow(f, i, v, refs) == [family |-> f, id |-> i, fields |-> v, refs |-> refs]
Wide == DepositRow("physicality", 6, "version", {<<"entity", 2>>})
DepositWork ==
    LET E1 == DepositRow("entity", 1, "w", {})
        E2 == DepositRow("entity", 2, "w", {})
        Other == DepositRow("entity", 1, "v", {})
        Path == DepositRow("physicality", 3, "p", {<<"entity", 1>>, <<"entity", 2>>})
        Seen == DepositRow("attestation", 4, "a", {<<"entity", 1>>, <<"physicality", 3>>})
        Agreed == DepositRow("consensus", 5, "c", {<<"entity", 2>>})
    IN [w1 |-> << << <<E1>>, <<E2>> >>, << <<Path>> >> >>,
        w2 |-> << << <<E1>>, <<Path, Seen>> >> >>,
        w3 |-> << << <<Other, E2>>, <<Agreed>> >> >>,
        w4 |-> << << <<E2, Wide>> >> >>]
PartitionOf(id) == id % 2
Refused == {Wide}

-----------------------------------------------------------------------------
(* HighwayRegistry: two sessions, two builds of the library that differ in   *)
(* an alias, contexts made before and after each activation.                 *)

HighwayLibraries == {[version |-> 1, kinds |-> <<1, 2>>, aliases |-> <<>>, dispositions |-> <<1>>],
                     [version |-> 2, kinds |-> <<1, 2>>, aliases |-> <<2>>, dispositions |-> <<1>>]}
HighwayContexts ==
    LET Context(n, r) == [numeric |-> n, perfcache |-> 1, readOnly |-> r]
    IN {Context([version |-> 0], FALSE)} \cup {Context(l, r) : l \in HighwayLibraries, r \in BOOLEAN}

-----------------------------------------------------------------------------
(* UnicodeRootDeposit: two roots that share an atom, deposited in one or in  *)
(* several batches, over an empty database or one with a colliding, a stray  *)
(* or a shared row.                                                          *)

SampleRoots ==
    LET Frame(kind, key, bytes) == [kind |-> kind, key |-> key, bytes |-> bytes]
    IN [r1 |-> <<Frame("atom", 1, 4), Frame("atom", 2, 4), Frame("position", 1, 2), Frame("contraction", 1, 3),
                 Frame("normalization", 1, 2), Frame("manifest", 0, 4)>>,
        r2 |-> <<Frame("atom", 1, 4), Frame("position", 1, 2), Frame("position", 2, 2), Frame("manifest", 0, 4)>>]
SampleRequests ==
    LET Request(root, id, limit, grant) == [root |-> root, id |-> id, limit |-> limit, grant |-> grant]
    IN {Request("r1", "e1", 20, 100), Request("r1", "e1", 9, 100), Request("r2", "e2", 4, 30),
        Request("r2", "e2", 8, 37), Request("r2", "e2", 8, 34), Request("r2", "e2", 3, 100)}
FoundTables ==
    {[k \in {} |-> "none"], [k \in {<<"physicality", 2>>} |-> "other"],
     [k \in {<<"position", "r2", 9>>} |-> "exact"], [k \in {<<"entity", 1>>, <<"physicality", 1>>} |-> "exact"]}

-----------------------------------------------------------------------------
(* CompositionDeposit: a composition without occurrences, one that shares    *)
(* its entity and is seen twice in the source, and one whose entity collides *)
(* with theirs.                                                              *)

SampleCalls ==
    LET Row(i, v) == [id |-> i, fields |-> v]
    IN {[input |-> "plain", candidates |-> {Row(1, "a"), Row(2, "p")}, occurrences |-> {}],
        [input |-> "seen", candidates |-> {Row(1, "a")}, occurrences |-> {Row(3, "o"), Row(4, "o")}],
        [input |-> "colliding", candidates |-> {Row(1, "x"), Row(2, "p")}, occurrences |-> {}]}

-----------------------------------------------------------------------------
(* CompositionWorkingSet: two atoms and their stored composition, and four   *)
(* requests: runs cut in several ways, collapsed requests, chains that       *)
(* exceed the tier, counts that overflow, a collapsed request with metadata. *)

WorkingInputs ==
    LET Known(k, n) == [prior |-> FALSE, index |-> k, times |-> n, meta |-> 0]
        Prior(k, n) == [prior |-> TRUE, index |-> k, times |-> n, meta |-> 0]
        Marked(o) == [o EXCEPT !.meta = 1]
        Request(ops, emit) == [operands |-> ops, recipe |-> "r", emit |-> emit]
        Entities == <<
            [id |-> <<1>>, tier |-> 0, atom |-> TRUE, physicality |-> <<"p">>],
            [id |-> <<2>>, tier |-> 0, atom |-> TRUE, physicality |-> <<"q">>],
            [id |-> << <<1>>, <<2>> >>, tier |-> 2, atom |-> FALSE, physicality |-> <<"k">>] >>
        Firsts == {Request(<<Known(1, 3)>>, TRUE), Request(<<Known(1, 2), Known(1, 1)>>, FALSE),
                   Request(<<Known(1, 1), Known(2, 1)>>, FALSE), Request(<<Known(1, 1)>>, TRUE),
                   Request(<<Marked(Known(2, 1))>>, FALSE), Request(<<Known(1, 2), Marked(Known(1, 1))>>, FALSE)}
        Seconds == Firsts \cup {Request(<<Prior(1, 1), Known(2, 1)>>, FALSE), Request(<<Prior(1, 2)>>, TRUE),
                                Request(<<Prior(1, 1)>>, FALSE), Request(<<Known(1, 2), Known(2, 2)>>, FALSE)}
        Thirds == Firsts \cup {Request(<<Prior(1, 1), Prior(2, 1)>>, FALSE), Request(<<Prior(2, 2)>>, FALSE),
                               Request(<<Known(3, 2)>>, FALSE), Request(<<Prior(1, 1), Known(2, 1)>>, FALSE)}
        Fourths == {Request(<<Prior(3, 1), Prior(1, 1)>>, FALSE), Request(<<Prior(2, 1), Known(1, 1)>>, FALSE),
                    Request(<<Prior(1, 1), Known(2, 1)>>, TRUE), Request(<<Known(1, 1), Known(1, 2)>>, FALSE)}
    IN {[known |-> Entities, requests |-> r] : r \in Firsts \X Seconds \X Thirds \X Fourths}

WorkingSet == INSTANCE CompositionWorkingSet
    WITH Inputs <- WorkingInputs, ChunkItems <- 2, RunPerCarrier <- 2, TierMaximum <- 2, CountMaximum <- 3,
         input <- v1, frontier <- v2, progress <- v3, outputs <- v4, failure <- v5, calculated <- v6,
         set <- v7, status <- v8

-----------------------------------------------------------------------------
(* ReferenceTopology: two profiles whose rows pair a reference in one scope  *)
(* with one in another; the second names the same values from the other side.*)

CoordinateOf(k) == IF k = <<1, 1>> THEN 1 ELSE IF k = <<2, 2>> THEN 2 ELSE IF k = <<3, 2>> THEN 2 ELSE 3

ReferenceRef(p, r, c, s, v, f) ==
    [profile |-> p, row |-> r, column |-> c, value |-> v, key |-> <<s, v>>, flags |-> f]
ReferenceRules == <<[left |-> 1, right |-> 2, relation |-> "same", symmetric |-> TRUE]>>
Forward == [candidates |-> <<ReferenceRef(1, 1, 1, 1, 1, {"present"}), ReferenceRef(1, 1, 2, 2, 2, {"present"})>>,
            rules |-> ReferenceRules]
Backward == [candidates |-> <<ReferenceRef(2, 1, 1, 2, 2, {}), ReferenceRef(2, 1, 2, 1, 1, {"present"})>>,
             rules |-> ReferenceRules]
Colliding == [candidates |-> <<ReferenceRef(2, 1, 1, 3, 2, {})>>, rules |-> <<>>]
Retired == [candidates |-> <<ReferenceRef(1, 1, 1, 1, 1, {}), ReferenceRef(1, 1, 2, 2, 2, {"retired"})>>,
            rules |-> <<>>]

\* The mapping of a source's two records, as its caller claims their dispositions.
ClaimOf(source, l, r) ==
    LET State(i) == IF source = Forward THEN "present" ELSE IF i = 1 THEN "unresolved" ELSE "retired"
        Record(i) == [candidate |-> source.candidates[i], disposition |-> State(i)]
    IN <<[left |-> Record(1), right |-> Record(2), leftIs |-> l, rightIs |-> r, relation |-> "same", symmetric |-> TRUE]>>

References == INSTANCE ReferenceTopology
    WITH Backends <- Sessions, Sources <- {Forward, Backward, Colliding, Retired},
         Claims <- {ClaimOf(Retired, "present", "present"), ClaimOf(Forward, "present", "present"),
                    ClaimOf(Retired, "unresolved", "retired")},
         Coordinate <- CoordinateOf, Contexts <- {1}, BatchSizes <- {1, 2}, MaxCalls <- 2,
         db <- v1, txn <- v2

-----------------------------------------------------------------------------
(* WorldAdmission: two profiles with claims, one without, testimonies that   *)
(* miss a node, an occurrence or the recipe, and two composition runs of the *)
(* same content.                                                             *)

WorldOccurrenceOf == [n1 |-> "o1", n2 |-> "o2", n3 |-> "o9"]
WorldLineage == {"n1", "n3"}
WorldComposition(ws, rank) ==
    [workingSet |-> ws, rank |-> rank, recipe |-> "r1", logical |-> 2, occurrences |-> {"o1", "o2"}]

WorldProfile(id) ==
    [id |-> id, boundary |-> "b1", recipe |-> "r1", forged |-> FALSE, epistemic |-> "assertion",
     count |-> [bytes |-> 1, containers |-> 0, files |-> 1, records |-> 1, fields |-> 1, syntax |-> 1, spans |-> 1,
                occurrences |-> 2, claims |-> 1, closure |-> 1],
     notApplicable |-> {"containers"}, reconstruction |-> "exact",
     disposition |-> [accepted |-> 1, lossy |-> 0, persisted |-> 0]]
WorldObservation ==
    [WorldProfile(3) EXCEPT !.epistemic = "observation", !.notApplicable = {"containers", "records", "fields"},
                            !.count.records = 0, !.count.fields = 0, !.count.claims = 0]

\* Good batches, one of two boundaries, and one profile for each check of the validator.
WorldProfileBatches ==
    LET p == WorldProfile(1)
        q == WorldProfile(2)
    IN {<<p>>, <<p, q>>, <<q, p>>, <<p, [q EXCEPT !.boundary = "b2"]>>, <<WorldObservation>>,
        <<[p EXCEPT !.forged = TRUE]>>,
        <<[p EXCEPT !.notApplicable = {"containers", "bytes"}]>>,
        <<[p EXCEPT !.disposition["accepted"] = 2]>>,
        <<[p EXCEPT !.disposition = [accepted |-> 0, lossy |-> 1, persisted |-> 0]]>>,
        <<[WorldObservation EXCEPT !.notApplicable = {"records"}]>>}

\* In order: sound, more testimonies than claims, a node outside the lineage, an
\* occurrence outside the composition, another recipe, two profiles, not reduced.
WorldTestimonyBatches ==
    LET Testimony(id, node, recipe) ==
            [id |-> id, node |-> node, profile |-> 1, recipe |-> recipe, forged |-> FALSE,
             uncertainty |-> [num |-> 1, den |-> 2], samples |-> 1]
        t == Testimony(1, "n1", "r1")
    IN {<<t>>, <<t, Testimony(6, "n1", "r1")>>, <<Testimony(2, "n2", "r1")>>, <<Testimony(3, "n3", "r1")>>,
        <<Testimony(4, "n1", "r2")>>, <<t, [Testimony(5, "n1", "r1") EXCEPT !.profile = 2]>>,
        <<[t EXCEPT !.uncertainty = [num |-> 2, den |-> 4]]>>}

WorldRequestBatches ==
    LET Asserted(ws, t) ==
            [profile |-> 1, profileReceipt |-> <<WorldProfile(1)>>, recipe |-> "r1", composition |-> ws,
             lineage |-> WorldLineage, testimony |-> t]
        Observed(ws) ==
            [profile |-> 3, profileReceipt |-> <<WorldObservation>>, recipe |-> "r1", composition |-> ws,
             lineage |-> NoReceipt, testimony |-> NoReceipt]
    IN {<<Asserted("w1", t)>> : t \in {x \in WorldTestimonyBatches : x[1].uncertainty.den = 2}}
        \cup {<<Observed("w1")>>, <<Observed("w2")>>, <<Observed("w1"), Observed("w2")>>,
              <<[Observed("w1") EXCEPT !.lineage = WorldLineage]>>}

WorldCompositions == {WorldComposition("w1", 1), WorldComposition("w2", 2)}
WorldLineages == {WorldLineage}

-----------------------------------------------------------------------------
(* EvidenceLineage: every batch over three nodes whose edges are in order,   *)
(* one batch of each refused shape, diamonds over four nodes with a long and *)
(* a short way to the root, and a node that first hears of its root through  *)
(* the longer of its two ways to it, and one with too many relations.        *)

LineageBatches ==
    LET Batch(nodes, edges) == [nodes |-> nodes, edges |-> edges, forged |-> FALSE]
        Before(e, f) == e[1] < f[1] \/ (e[1] = f[1] /\ e[2] < f[2])
        InOrder == UNION {{Batch(SetToSortSeq(N, <), SetToSortSeq(E, Before)) :
                             E \in SUBSET {e \in N \X N : e[1] # e[2]}} : N \in SUBSET (1..3) \ {{}}}
        Malformed == {[Batch(<<1, 2>>, <<<<2, 1>>>>) EXCEPT !.forged = TRUE],
                      Batch(<<2, 1>>, <<>>), Batch(<<>>, <<>>), Batch(<<1, 2>>, <<<<2, 3>>>>),
                      Batch(<<1, 2, 3>>, <<<<3, 1>>, <<2, 1>>>>), Batch(<<1, 2>>, <<<<2, 1>>, <<2, 2>>>>)}
        Diamonds == {Batch(<<1, 2, 3, 4>>, e) :
                       e \in {<<<<1, 2>>, <<1, 4>>, <<2, 3>>, <<3, 4>>>>,
                              <<<<1, 2>>, <<1, 3>>, <<2, 4>>, <<3, 4>>>>,
                              <<<<1, 2>>, <<2, 3>>, <<2, 4>>, <<3, 4>>>>,
                              <<<<3, 1>>, <<3, 4>>, <<4, 2>>>>,
                              <<<<1, 2>>, <<2, 3>>, <<3, 4>>, <<4, 2>>>>}}
        LateShortcut == Batch(<<1, 2, 3, 4, 5>>,
                              <<<<1, 3>>, <<1, 4>>, <<2, 5>>, <<3, 2>>, <<4, 3>>, <<4, 5>>>>)
        TwoRoots == Batch(<<1, 2, 3, 4, 5>>, <<<<1, 4>>, <<1, 5>>, <<2, 4>>, <<2, 5>>>>)
    IN InOrder \cup Malformed \cup Diamonds \cup {LateShortcut, TwoRoots}

Lineage == INSTANCE EvidenceLineage
    WITH Node <- 1..5, Batches <- LineageBatches, RootCapacity <- 5, MaxBatches <- 2,
         pc <- v1, batch <- v2, colors <- v3, stack <- v4, waiting <- v5, queue <- v6, roots <- v7,
         path <- v8, reply <- v9, db <- v10, submitted <- v11

-----------------------------------------------------------------------------
(* StandingPeriods: two participants of one arena, one of which was          *)
(* onboarded twice under different epochs, and one of another arena; one     *)
(* event, two, or one root twice.                                            *)

StandingOnboarded ==
    LET State(coord, arena, epoch) ==
            [coord |-> coord, arena |-> arena, epoch |-> epoch, prior |-> NoState,
             rating |-> DefaultRating, matches |-> 0, ordinal |-> 0]
    IN {State("a", "x", "e1"), State("a", "x", "e2"), State("b", "x", "e1"), State("c", "y", "e1")}
StandingRoots == {<<"r1">>, <<"r2">>, <<"r1", "r2">>, <<"r1", "r1">>}

-----------------------------------------------------------------------------
(* PhysicalityReflection: an atom, two forms of one word, a singleton over   *)
(* the word that may select a form of it or itself, a phrase of two words,   *)
(* and a phrase whose carrier records a wrong child tier.  The calls name    *)
(* one or two sources, correct selectors with at most one wrong tier, and    *)
(* derived, split, merged, self-selecting or incomplete rows.                *)

ReflectedPhys ==
    LET P(e, atom, runs) == [entity |-> e, atom |-> atom, runs |-> runs]
    IN [a |-> P("A", TRUE, <<>>),
        w |-> P("W", FALSE, <<<<"A", 2, 0>>>>),
        x |-> P("W", FALSE, <<<<"A", 1, 0>>, <<"A", 1, 0>>>>),
        s |-> P("W", FALSE, <<<<"W", 1, 1>>>>),
        v |-> P("V", FALSE, <<<<"W", 2, 1>>>>),
        u |-> P("V", FALSE, <<<<"W", 2, 3>>>>)]
ReflectedInputs ==
    LET Row(p, f, c, e, q) == [parent |-> p, first |-> f, count |-> c, entity |-> e, selected |-> q]
        RowChoices ==
            [a |-> {{}},
             w |-> {{Row("w", 1, 2, "A", "a")}},
             x |-> {{Row("x", 1, 2, "A", "a")}},
             s |-> {{Row("s", 1, 1, "W", q)} : q \in {"w", "s"}},
             v |-> {{Row("v", 1, 2, "W", "s")}, {Row("v", 1, 1, "W", "w"), Row("v", 2, 1, "W", "x")},
                    {Row("v", 1, 1, "W", "w")}},
             u |-> {{Row("u", 1, 2, "W", "w")}}]
        Tier == [a |-> 0, w |-> 1, x |-> 1, s |-> 1, v |-> 2, u |-> 4]
        Known(S, wrong) == {[p |-> q, atom |-> (q = "a"), tier |-> IF q = wrong THEN Tier[q] + 1 ELSE Tier[q]] : q \in S}
        RowSets(S) == FoldSet(LAMBDA p, R : {r \cup c : r \in R, c \in RowChoices[p]}, {{}}, S)
        Frontiers == {{"a", "w"}, {"a", "s"}, {"a", "w", "x"}, {"a", "w", "s"}, {"a", "w", "u"},
                      {"a", "w", "s", "v"}, {"a", "w", "x", "v"}}
        Calls(S) == {<<p>> : p \in S} \cup {<<"w", "x">>, <<"v", "w">>, <<"s", "w">>}
    IN {in \in UNION {[ids : Calls(S), known : {Known(S, q) : q \in {"", "s", "w"}}, rows : RowSets(S) \cup {{}}] :
                        S \in Frontiers} :
           ToSet(in.ids) \subseteq {k.p : k \in in.known}}

Reflection == INSTANCE PhysicalityReflection
    WITH Phys <- ReflectedPhys, Atoms <- {"A"}, Inputs <- ReflectedInputs, Sessions <- Sessions, MaxCalls <- 2,
         entities <- v1, sets <- v2, owners <- v3, tx <- v4, reported <- v5, served <- v6,
         admitted <- v7, altered <- v8, calls <- v9

-----------------------------------------------------------------------------
(* MaterializationProvider: an atom a, compositions x (absent, unique,       *)
(* ambiguous or with an old physicality), z (sound or corrupt), y over x and *)
(* z, and a view v that generates d over both and binds each occurrence of x *)
(* to its own physicality.                                                   *)

ReadDatabases ==
    LET Row(p, e, t, ep, body, good) ==
            [phys |-> p, entity |-> e, type |-> t, epoch |-> ep, body |-> body, good |-> good]
        Run(e, n) == [entity |-> e, run |-> n]
        Binding(parent, first, count, e, p) ==
            [parent |-> parent, first |-> first, count |-> count, entity |-> e, phys |-> p]
        A == Row(1, "a", "atom", "pinned", <<>>, TRUE)
        OldA == Row(2, "a", "atom", "old", <<>>, TRUE)
        X1 == Row(11, "x", "composition", "old", <<Run("a", 2)>>, TRUE)
        X2 == Row(12, "x", "composition", "pinned", <<Run("a", 1)>>, TRUE)
        X3 == Row(13, "x", "composition", "pinned", <<Run("a", 3)>>, TRUE)
        Z(good) == Row(21, "z", "composition", "pinned", <<Run("a", 1), Run("x", 1)>>, good)
        Y == Row(31, "y", "composition", "pinned", <<Run("x", 1), Run("z", 1)>>, TRUE)
        Owner(recipe, generated) ==
            [recipe |-> recipe, original |-> <<"y", 31>>, external |-> {<<"x", 11>>, <<"x", 12>>, <<"a", 2>>},
             atoms |-> {"a"}, generated |-> generated,
             originals |-> {Binding(31, 1, 1, "x", 11), Binding(31, 2, 1, "z", 21)}]
        Generated == {Binding(41, 1, 2, "x", 11), Binding(41, 3, 1, "x", 12), Binding(41, 4, 1, "a", 2)}
        Gapped == {Binding(41, 1, 1, "x", 11), Binding(41, 3, 1, "x", 12)}
        D == [view |-> "v", entity |-> "d", phys |-> 41, body |-> <<Run("x", 3), Run("a", 1)>>]
        DX(view) == [view |-> view, entity |-> "x", phys |-> 12, body |-> <<Run("a", 1)>>]
    IN {[entities |-> {"a", "x", "y", "z", "d"}, atoms |-> {"a"}, atomOf |-> [e \in {"a"} |-> 1],
         rows |-> xs \cup {A, OldA, Z(g), Y}, derived |-> {D} \cup dx,
         owners |-> [v \in {"v"} |-> Owner("rc", gen)]] :
           xs \in {{}, {X1, X2}, {X2, X3}}, g \in BOOLEAN, dx \in {{DX("v")}, {DX("w")}},
           gen \in {Generated, Gapped}}
ReadProviders ==
    LET Nothing == [k \in {} |-> "none"]
    IN {[required |-> "none", original |-> 0, base |-> b] : b \in {Nothing, [e \in {"x"} |-> 12]}}
        \cup {[required |-> "v", original |-> o, base |-> Nothing] : o \in {0, 31}}
Reads ==
    LET Read(root, source, recipe) == [root |-> root, source |-> source, recipe |-> recipe]
    IN {Read("y", "s", "rc"), Read("d", "v", "rc"), Read("y", "v", "rc"), Read("a", "v", "rc"),
        Read("x", "v", "rc"), Read("d", "v", "rd")}

Materialization == INSTANCE MaterializationProvider
    WITH Databases <- ReadDatabases, Providers <- ReadProviders, Reads <- Reads, MaxReads <- 2,
         db <- v1, provider <- v2, pinned <- v3, scope <- v4, selections <- v5, cache <- v6,
         resolving <- v7, prefetched <- v8, known <- v9, error <- v10, reads <- v11, last <- v12

-----------------------------------------------------------------------------

ASSUME DepositsAssumption ==
    /\ WorkAssumption /\ NamesAssumption /\ RootAssumption
    /\ WorldAssumption /\ RequestsAssumption /\ Lineage!LineageAssumption /\ StandingAssumption

\* The variables from the n-th on are not used.
Spare12 == v12 = Unused
Spare10 == v10 = Unused /\ v11 = Unused /\ Spare12
Spare9 == v9 = Unused /\ Spare10
Spare5 == v5 = Unused /\ v6 = Unused /\ v7 = Unused /\ v8 = Unused /\ Spare9
Spare3 == v3 = Unused /\ v4 = Unused /\ Spare5
Spare1 == v1 = Unused /\ v2 = Unused /\ Spare3

Init ==
    /\ part \in Parts
    /\ DepositInit /\ HighwayInit /\ WorldInit /\ CompositionInit /\ StandingInit
    /\ RootInit /\ (part = "root" \/ storedRows = NoRows)
    /\ \/ part \in {"persistence", "highway", "root", "world", "composition", "standing"} /\ Spare1
       \/ part = "working set" /\ WorkingSet!Init /\ Spare9
       \/ part = "references" /\ References!Init /\ Spare3
       \/ part = "lineage" /\ Lineage!Init /\ Spare12
       \/ part = "reflection" /\ Reflection!Init /\ Spare10
       \/ part = "materialization" /\ Materialization!Init

OtherNext ==
    \/ part = "working set" /\ WorkingSet!Next /\ UNCHANGED <<v9, v10, v11, v12>>
    \/ part = "references" /\ References!Next /\ UNCHANGED <<v3, v4, v5, v6, v7, v8, v9, v10, v11, v12>>
    \/ part = "lineage" /\ Lineage!Next /\ UNCHANGED v12
    \/ part = "reflection" /\ Reflection!Next /\ UNCHANGED <<v10, v11, v12>>
    \/ part = "materialization" /\ Materialization!Next

Next ==
    /\ UNCHANGED part
    /\ \/ part = "persistence" /\ DepositNext
          /\ UNCHANGED <<highwayVars, rootVars, worldVars, compositionVars, standingVars, others>>
       \/ part = "highway" /\ HighwayNext
          /\ UNCHANGED <<depositVars, rootVars, worldVars, compositionVars, standingVars, others>>
       \/ part = "root" /\ RootNext
          /\ UNCHANGED <<depositVars, highwayVars, worldVars, compositionVars, standingVars, others>>
       \/ part = "world" /\ WorldNext
          /\ UNCHANGED <<depositVars, highwayVars, rootVars, compositionVars, standingVars, others>>
       \/ part = "composition" /\ CompositionNext
          /\ UNCHANGED <<depositVars, highwayVars, rootVars, worldVars, standingVars, others>>
       \/ part = "standing" /\ StandingNext
          /\ UNCHANGED <<depositVars, highwayVars, rootVars, worldVars, compositionVars, others>>
       \/ UNCHANGED <<depositVars, highwayVars, rootVars, worldVars, compositionVars, standingVars>> /\ OtherNext

Spec == Init /\ [][Next]_vars

-----------------------------------------------------------------------------

\* reference_topology.c and its service: a receipt stands for its batch, a
\* mapping is resolved only between references that are, and a replay is
\* accepted in batches of any size and from either side.
ReferencesAreGrounded ==
    part = "references" =>
        /\ References!ReceiptIsItsBatch /\ References!MappingIsGrounded
        /\ References!PropositionsAgree /\ References!RebatchedReplayIsAccepted

\* composition_legacy.inc: whatever the chunks did, a working set is that of the
\* sequential calculation.  evidence_lineage.c: the roots of a batch are its
\* terminal ancestors at their shortest distance, a cycle is refused exactly when
\* there is one and with a closed walk, and later batches keep receipts true.
CalculationsAreExact ==
    /\ part = "working set" =>
        /\ WorkingSet!ParallelIsSequential /\ WorkingSet!BoundariesAreNotPhysical
        /\ WorkingSet!FailureIsOfARequest
    /\ part = "lineage" =>
        /\ Lineage!RootsAreExact /\ Lineage!PathIsAClosedWalk
        /\ Lineage!CycleDecided /\ Lineage!ReceiptsStayTrue

\* physicality_entity_pg.c: every committed view is read back cold under its own
\* identity, independent of what was admitted beside it; nothing altered is
\* served, and an entity is reported inserted once.
ViewsAreColdReadable ==
    part = "reflection" =>
        /\ Reflection!ColdReadable /\ Reflection!ScopeIsolated
        /\ Reflection!ServedWasAdmitted /\ Reflection!InsertionsReportedOnce


\* "The test and rerun suites must falsify: ... cycles or mutation in the
\* provenance graph": the stored graph of evidence_lineage_pg.c is acyclic.
StoredLineageIsAcyclic == part = "lineage" => Lineage!StoredGraphIsAcyclic
=============================================================================
