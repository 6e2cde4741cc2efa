------------------------------ MODULE MCEngine ------------------------------
(***************************************************************************)
(* The engine's components that share no state, side by side: the first     *)
(* state chooses one of Parts, and from there on that component runs alone. *)
(* A behaviour is therefore a behaviour of one component.  The spool, the   *)
(* activation receipts, the execution runtime, the instruction set and the  *)
(* perfcache layout rest while another part runs, and are checked for the   *)
(* very properties that are proved of them.  The variables s1, s2, ...      *)
(* stand for the variables of any other part that runs, in the order its    *)
(* instance names them; those it does not need keep the value Unused.       *)
(***************************************************************************)
EXTENDS Spool, FrameworkActivation, ExecutionRuntime, IsaProgram, PerfcacheLayout, TLC

CONSTANT Parts   \* the components to check
VARIABLES part, s1, s2, s3, s4, s5, s6, s7, s8

instanceVars == <<s1, s2, s3, s4, s5, s6, s7, s8>>
vars == <<part, spoolVars, activationVars, runtimeVars, isaVars, layoutVars, instanceVars>>
Unused == "unused"

-----------------------------------------------------------------------------
(* Spool: batches that continue each other, one that leaves a gap, an empty *)
(* one, one of another type, and one that overflows the totals.             *)

SpoolBatches ==
    LET Batch(b, r, o, t) == [bytes |-> b, records |-> r, ordinal |-> o, type |-> t]
    IN {Batch(<<"a1", "a2">>, 1, 0, 1), Batch(<<"b1">>, 2, 1, 1), Batch(<<"c1", "c2">>, 1, 3, 1),
        Batch(<<"f1">>, 2, 0, 1), Batch(<<"d1">>, 1, 2, 1), Batch(<<>>, 0, 1, 1), Batch(<<"e1">>, 1, 0, 2)}

-----------------------------------------------------------------------------
(* FrameworkActivation: a provider for the first activation and one for its *)
(* successor.                                                               *)

ActivationContexts == {[epochs |-> <<"e0", "e0">>, readOnly |-> FALSE],
                       [epochs |-> <<"e1", NoEpoch>>, readOnly |-> FALSE],
                       [epochs |-> <<"e0", "e1">>, readOnly |-> TRUE]}
ActivationStaged == {[id |-> "s1", ctx |-> [epochs |-> <<"e0", "e0">>, readOnly |-> FALSE]],
                     [id |-> "s2", ctx |-> [epochs |-> <<"e1", NoEpoch>>, readOnly |-> FALSE]],
                     [id |-> "s3", ctx |-> [epochs |-> <<"e0", "e1">>, readOnly |-> TRUE]]}
ActivationOffer ==
    [p1 |-> [ctx |-> [epochs |-> <<"e0", "e0">>, readOnly |-> FALSE],
             staged |-> "s1", epoch |-> "e1", expected |-> NoEpoch],
     p2 |-> [ctx |-> [epochs |-> <<"e1", NoEpoch>>, readOnly |-> FALSE],
             staged |-> "s2", epoch |-> "e2", expected |-> "e1"]]

-----------------------------------------------------------------------------
(* PersistenceStream: streams of up to six of eleven frames: two entities, a *)
(* composition of two segments with the run lengths 1 and 2, its segments in *)
(* and out of place, an atomic point, an attestation, two consensus records, *)
(* a corrupt frame.                                                          *)

Carrier(e, r) == [entity |-> e, run |-> r]
FramePath == <<Carrier(1, 1), Carrier(2, 2)>>

\* The digests, numbered so that the composition sorts before the atomic point.
FrameDigest(domain, payload) ==
    CASE domain = "trajectory" -> IF payload = FramePath THEN 7 ELSE 100 + Len(payload)
      [] domain = "physicality" -> IF payload.type = "atomic" THEN 20 ELSE 10 + payload.entity
      [] domain = "attestation" -> 30 + payload.entity
      [] domain = "consensus" -> 40 + payload.entity


\* The frame encoding, which does not depend on the frames to be tried.
Codec == INSTANCE PersistenceStream
    WITH Digest <- FrameDigest, Frames <- {}, MaxFrames <- 6, MaxBatches <- 2,
         state <- s1, stream <- s2, status <- s3

Composition == LET p == [id |-> 0, entity |-> 1, type |-> "composition", logical |-> 3,
                         vertices |-> 2, trajectory |-> 7]
               IN [p EXCEPT !.id = Codec!PhysicalityIdentity(p)]
StreamFrames ==
    LET Segment(i, c) == Codec!Encode("segment", [physicality |-> Composition.id, index |-> i, carrier |-> c])
        Attestation == [id |-> 31, entity |-> 1, kind |-> "occurrence", flag |-> FALSE, physical |-> 0]
        Consensus(e) == [id |-> 40 + e, entity |-> e, observations |-> 2, roots |-> 1]
    IN {Codec!Encode("entity", [id |-> e, witness |-> <<e>>]) : e \in 1 .. 2}
        \cup {Codec!Encode("physicality", Composition), Codec!Encode("physicality", Codec!AtomicPoint(2))}
        \cup {Segment(0, FramePath[1]), Segment(1, FramePath[2]), Segment(1, FramePath[1])}
        \cup {Codec!Encode("attestation", Attestation)}
        \cup {Codec!Encode("consensus", Consensus(e)) : e \in 1 .. 2}
        \cup {Codec!Encode("physicality", [Codec!AtomicPoint(1) EXCEPT !.id = 9])}

Stream == INSTANCE PersistenceStream
    WITH Digest <- FrameDigest, Frames <- StreamFrames, MaxFrames <- 6, MaxBatches <- 2,
         state <- s1, stream <- s2, status <- s3

-----------------------------------------------------------------------------
(* PerfcacheLayout: every law over keys and values of up to two cells, and a *)
(* second epoch.                                                             *)

LayoutContracts ==
    {[epoch |-> e, key |-> k, value |-> v, law |-> l, flags |-> f] :
        e \in {"e1"}, k \in 0..2, v \in 0..2, l \in {"sorted", "dense", "module", "unknown"}, f \in {0, 1}}
    \cup {[epoch |-> "e2", key |-> 1, value |-> 1, law |-> l, flags |-> 0] : l \in {"sorted", "dense"}}

LayoutWord(w) == w[1]

-----------------------------------------------------------------------------
(* UnicodeRootStream: two positions with every expectation of their ranks    *)
(* and coordinates; the builder's own stream and any foreign one.            *)

RootExpectations ==
    {[ranks |-> r, coords |-> c, recipe |-> "own"] : r, c \in [1..2 -> 0..1]}

RootStream == INSTANCE UnicodeRootStream
    WITH Population <- 2, Expectations <- RootExpectations,
         ContractionSeqs <- {<<0, 0>>, <<0, 1>>, <<0, 0, 1>>, <<1>>},
         CompositionSet <- {<<0, 1, 0>>, <<0, 1, 1>>, <<1, 0, 1>>},
         MaxBatchFrames <- 2, MaxBatchBytes <- 3, MaxForeign <- 2,
         v <- s1, producer <- s2, source <- s3, batch <- s4, written <- s5, spool <- s6, build <- s7

-----------------------------------------------------------------------------
(* UnicodeTier0: three positions whose homes collide in a table of four.     *)

Tier0 == INSTANCE UnicodeTier0
    WITH Population <- 3, Capacity <- 4, Homes <- {0, 2, 3},
         RankChoices <- {<<0, 1, 2>>, <<2, 1, 0>>}, MaxBatch <- 3, MaxAttempts <- 2,
         home <- s1, stream <- s2, sink <- s3, files <- s4, result <- s5, honest <- s6,
         attempts <- s7, admitted <- s8

-----------------------------------------------------------------------------
(* IsaProgram: two-instruction programs over three views: every pair of      *)
(* operations, and views that overlap, touch, are empty, too small or not    *)
(* packed.                                                                   *)

IsaBinding ==
    [identity |-> [kind |-> "equal", in |-> "u32", out |-> "id"],
     lineage  |-> [kind |-> "lineage", in |-> "item", out |-> "root"],
     catalog  |-> [kind |-> "catalog", in |-> "item", out |-> "id"],
     profile  |-> [kind |-> "single", in |-> "u32", out |-> "root"],
     close    |-> [kind |-> "world", in |-> "item", out |-> "root"],
     resolve  |-> [kind |-> "resolve", in |-> "item", out |-> "root"],
     solve    |-> [kind |-> "solve", in |-> "u32", out |-> "u32"]]

IsaPrograms ==
    LET View(b, cap, n, t, p) == [base |-> b, capacity |-> cap, count |-> n, type |-> t, packed |-> p]
        Inputs == {View(1, 2, n, t, TRUE) : n \in {1, 2}, t \in {"u32", "item"}}
                    \cup {View(1, 2, 2, "item", FALSE), View(6, 1, 1, "u32", TRUE)}
        Outputs == {View(3, cap, 0, t, TRUE) : cap \in {1, 2}, t \in {"id", "root"}}
                    \cup {View(3, 3, 0, "u32", TRUE), View(3, 2, 0, "root", FALSE), View(2, 2, 0, "id", TRUE)}
        Seconds == {View(b, 2, 0, t, TRUE) : b \in {4, 5}, t \in {"id", "root"}}
                    \cup {View(5, 0, 0, "id", TRUE)}
        Codes == {[op |-> o, in |-> i, out |-> j] : o \in DOMAIN IsaBinding, i \in 1 .. 2, j \in 2 .. 3}
    IN [values : {<<a, b, c>> : a \in Inputs, b \in Outputs, c \in Seconds},
        code : {<<c, d>> : c \in Codes, d \in Codes} \cup {<<c>> : c \in Codes}]

IsaAddress == 1 .. 6
IsaBad == {<<"in", 6>>}
IsaRoots == {<<"in", 1>>, <<"in", 3>>, <<"in", 4>>}

-----------------------------------------------------------------------------
(* ExecutionGrant: hosts of two or three processors and up to two memory     *)
(* nodes, readable or not, in and out of a memory cgroup, with an affinity   *)
(* mask or none.                                                             *)

Unknown == -1
GrantHosts ==
    LET Cpu(on, n) == [online |-> on, node |-> n]
        Node(t, f, r) == [total |-> t, free |-> f, readable |-> r]
        Cache(size, shared) == [size |-> size, shared |-> shared]
        CpuSets == {(0 :> Cpu(1, 0) @@ 1 :> Cpu(1, 1)),
                    (0 :> Cpu(1, 0) @@ 1 :> Cpu(0, 0) @@ 2 :> Cpu(1, 1)),
                    (0 :> Cpu(1, 0) @@ 1 :> Cpu(1, Unknown) @@ 2 :> Cpu(1, 0))}
        NodeSets == {<<>>, (0 :> Node(8, 5, TRUE) @@ 1 :> Node(8, 6, TRUE)),
                     (0 :> Node(8, 8, TRUE) @@ 1 :> Node(8, 6, FALSE))}
        CacheSets == {{}, {Cache(1, {0, 1})}, {Cache(1, {0, 1}), Cache(2, {0}), Cache(0, {0})}}
        Host(c, a, n, k, m) == [cpus |-> c, affinity |-> a, nodes |-> n, caches |-> k, total |-> 16,
                                available |-> 9, limit |-> m[1], current |-> m[2]]
    IN {Host(0 :> Cpu(1, 0), {3}, <<>>, {}, <<8, 3>>)} \cup
       {Host(c, a, n, k, m) :
           c \in CpuSets, a \in {{Unknown}, {1, 2}}, n \in NodeSets, k \in CacheSets,
           m \in {<<Unknown, 0>>, <<8, 3>>, <<4, 4>>}}

GrantRequests ==
    LET Share(a, w) == [minimum |-> a, weight |-> w]
        Request(m, c, i) == [memory |-> m, cpu |-> c, io |-> i]
    IN {<<>>, <<Request(Share(0, 0), Share(0, 0), Share(0, 0))>>,
        <<Request(Share(1, 1), Share(0, 1), Share(0, 7)), Request(Share(0, 1), Share(0, 1), Share(0, 9))>>}
       \cup {<<Request(a, Share(0, 2), Share(0, 1)), Request(b, Share(1, 1), Share(1, 0)),
               Request(c, Share(0, 0), Share(0, 3))>> :
             a, b, c \in {Share(0, 0), Share(0, 3), Share(1, 2), Share(2, 1)}}

GrantWorks ==
    {[items |-> n, minimum |-> m, resident |-> r, perItem |-> p, workers |-> k, threads |-> t, io |-> 0] :
        n \in {0, 1, 5}, m \in {1, 2}, r \in {0, 2}, p \in {0, 1, 2}, k \in {1, 3}, t \in {1, 2}}

Grant == INSTANCE ExecutionGrant
    WITH Hosts <- GrantHosts, Requests <- GrantRequests, Works <- GrantWorks,
         Options <- {[cpu |-> c, memory |-> m, io |-> i] : c \in {1, 3}, m \in {4, 20}, i \in {1, 9}},
         MaxU16 <- 7, MaxU32 <- 15, MaxU64 <- 63,
         host <- s1, pc <- s2, required <- s3, topology <- s4, root <- s5, parts <- s6, plan <- s7

-----------------------------------------------------------------------------
(* ExecutionRuntime: two callers of one state, one with a state of its own   *)
(* and serial.                                                               *)

RuntimeItems == [c1 |-> 3, c2 |-> 3, c3 |-> 3]
RuntimeChunkItems == [c1 |-> 2, c2 |-> 1, c3 |-> 2]
RuntimeStateOf == [c1 |-> "shared", c2 |-> "shared", c3 |-> "own"]

-----------------------------------------------------------------------------

ASSUME EngineAssumption ==
    /\ BoundsAssumption
    /\ OfferAssumption
    /\ PlanAssumption
    /\ Tier0!CapacityExceedsPopulation
    /\ IsaAssumption
    /\ LayoutAssumption

\* The variables from the n-th on are not used.
Spare8 == s8 = Unused
Spare7 == s7 = Unused /\ Spare8
Spare6 == s6 = Unused /\ Spare7
Spare4 == s4 = Unused /\ s5 = Unused /\ Spare6
Spare1 == s1 = Unused /\ s2 = Unused /\ s3 = Unused /\ Spare4

Init ==
    /\ part \in Parts
    /\ SpoolInit /\ ActivationInit /\ RuntimeInit /\ IsaInit /\ LayoutInit
    /\ \/ part \in {"spool", "activation", "runtime", "isa", "layout"} /\ Spare1
       \/ part = "stream" /\ Stream!Init /\ Spare4
       \/ part = "root" /\ RootStream!Init /\ Spare8
       \/ part = "tier0" /\ Tier0!Init
       \/ part = "grant" /\ Grant!Init /\ Spare8

\* The parts that are instances.
InstanceNext ==
    \/ part = "stream" /\ Stream!Next /\ UNCHANGED <<s4, s5, s6, s7, s8>>
    \/ part = "root" /\ RootStream!Next /\ UNCHANGED s8
    \/ part = "tier0" /\ Tier0!Next
    \/ part = "grant" /\ Grant!Next /\ UNCHANGED s8

\* What a step of the runtime leaves alone.
BesideRuntime == <<part, spoolVars, activationVars, isaVars, layoutVars, instanceVars>>

Next ==
    \/ /\ part = "spool" /\ SpoolStep
       /\ UNCHANGED <<part, activationVars, runtimeVars, isaVars, layoutVars, instanceVars>>
    \/ /\ part = "activation" /\ ActivationNext
       /\ UNCHANGED <<part, spoolVars, runtimeVars, isaVars, layoutVars, instanceVars>>
    \/ /\ part = "isa" /\ IsaNext
       /\ UNCHANGED <<part, spoolVars, activationVars, runtimeVars, layoutVars, instanceVars>>
    \/ /\ part = "layout" /\ LayoutNext
       /\ UNCHANGED <<part, spoolVars, activationVars, runtimeVars, isaVars, instanceVars>>
    \/ part = "runtime" /\ RuntimeNext /\ UNCHANGED BesideRuntime
    \/ InstanceNext /\ UNCHANGED <<part, spoolVars, activationVars, runtimeVars, isaVars, layoutVars>>

\* The threads of a runtime keep running; nothing else has to happen.
Spec ==
    /\ Init /\ [][Next]_vars
    /\ \A c \in Callers : WF_vars(part = "runtime" /\ Control(c) /\ UNCHANGED BesideRuntime)
    /\ \A c \in Callers, w \in Workers :
          WF_vars(part = "runtime" /\ Work(c, w) /\ UNCHANGED BesideRuntime)

-----------------------------------------------------------------------------


\* unicode_root.c: a stream the validator finishes is canonical whoever made it,
\* the spool holds what was accepted, and the builder's own stream is accepted.
RootIsCanonical ==
    part = "root" =>
        RootStream!FinishedIsCanonical /\ RootStream!SpoolHoldsTheStream /\ RootStream!BuilderIsAccepted

\* unicode_root.c: the reverse table answers every identity in bounded probes,
\* the sealed files are of one stream, and an honest stream is staged however
\* earlier attempts ended.
Tier0IsExact ==
    part = "tier0" => Tier0!ReverseIsExact /\ Tier0!SealedIsOneStream /\ Tier0!HonestStreamIsStaged

\* execution.cpp: a steady host is published, its grant is the smaller of host
\* and options, a partition gives it away exactly and a plan fits in its part.
GrantsAreExact ==
    part = "grant" =>
        /\ Grant!SteadyHostIsPublished /\ Grant!RootIsTheMinimum /\ Grant!PartitionIsExact
        /\ Grant!PlanFitsTheGrant /\ Grant!PlansWhatFits

\* execution.cpp: every call of the runtime returns.
EveryRunReturns == <>(part = "runtime" => AllReturned)
=============================================================================
