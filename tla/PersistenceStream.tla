-------------------------- MODULE PersistenceStream --------------------------
(***************************************************************************)
(* src/engine/src/persistence.c: the frame codec of the canonical          *)
(* persistence stream and laplace_persistence_validate_stream, which       *)
(* decides in one pass, batch after batch, whether a stream is canonical:  *)
(* entities, then physicalities each followed by its trajectory, then      *)
(* attestations and consensus records.                                     *)
(*                                                                         *)
(* A digest is an injective map into the naturals (Digest), so that records*)
(* have an order as the code's memcmp gives them one.                      *)
(***************************************************************************)
EXTENDS Integers, Sequences, FiniteSets, SequencesExt

CONSTANTS
    Digest(_, _),   \* BLAKE3 of a domain and a payload, as a number
    Frames,         \* the frames a stream is made of
    MaxFrames,      \* bound: frames of a stream
    MaxBatches      \* bound: batches of a stream

VARIABLES
    state,          \* validation_state
    stream,         \* the frames read so far (history)
    status          \* "reading", "OK" or the refusal

vars == <<state, stream, status>>

-----------------------------------------------------------------------------

\* laplace_persistence_frame_bytes: header and payload, by kind; 0 for others.
FrameBytes(kind) ==
    LET payload == [entity |-> 48, physicality |-> 224, segment |-> 72,
                    attestation |-> 160, consensus |-> 176]
    IN IF kind \in DOMAIN payload THEN 8 + payload[kind] ELSE 0

\* frame_header and the frame_encode functions, for a record they accept.
Encode(kind, payload) == [size |-> FrameBytes(kind), kind |-> kind, version |-> 1, payload |-> payload]

\* laplace_persistence_trajectory_fingerprint.
TrajectoryFingerprint(carriers) == Digest("trajectory", carriers)

\* physicality_scalars_valid: what the two variants may carry.
PhysicalityScalarsValid(p) ==
    \/ p.type = "composition" /\ p.logical # 0 /\ p.vertices # 0
    \/ p.type = "atomic" /\ p.logical = 1 /\ p.vertices = 0 /\ p.trajectory = 0

\* physicality_payload and laplace_persistence_physicality_identify: every
\* field but the identity itself.
PhysicalityIdentity(p) ==
    Digest("physicality", [f \in DOMAIN p \ {"id"} |-> p[f]])

\* laplace_persistence_atomic_point_physicality.
AtomicPoint(entity) ==
    LET p == [id |-> 0, entity |-> entity, type |-> "atomic", logical |-> 1,
              vertices |-> 0, trajectory |-> 0]
    IN [p EXCEPT !.id = PhysicalityIdentity(p)]

\* attestation_scalars_valid: a physicality is there exactly when the flag says.
AttestationScalarsValid(a) ==
    a.kind \in {"occurrence", "receipt", "testimony", "claim"} /\ (~a.flag => a.physical = 0)

AttestationIdentity(a) == Digest("attestation", [f \in DOMAIN a \ {"id"} |-> a[f]])

\* consensus_scalars_valid, consensus_payload and
\* laplace_persistence_consensus_identify.
ConsensusIdentity(c) == Digest("consensus", [f \in DOMAIN c \ {"id"} |-> c[f]])
ConsensusScalarsValid(c) == c.observations # 0 /\ c.roots <= c.observations

\* decode_physicality, decode_attestation and decode_consensus.
DecodePhysicality(p) == PhysicalityScalarsValid(p) /\ p.id = PhysicalityIdentity(p)
DecodeAttestation(a) == AttestationScalarsValid(a) /\ a.id = AttestationIdentity(a)
DecodeConsensus(c) == ConsensusScalarsValid(c) /\ c.id = ConsensusIdentity(c)

\* laplace_persistence_frame_decode: "OK" or why the frame is refused.
Decode(frame) ==
    IF FrameBytes(frame.kind) = 0 \/ frame.size # FrameBytes(frame.kind) \/ frame.version # 1
    THEN "FRAME_INVALID"
    ELSE LET v == frame.payload
         IN CASE frame.kind = "entity" -> IF v.witness[1] = v.id THEN "OK" ELSE "RECORD_INVALID"
              [] frame.kind = "segment" -> IF v.carrier.run = 0 THEN "TRAJECTORY_INVALID" ELSE "OK"
              [] frame.kind = "physicality" -> IF DecodePhysicality(v) THEN "OK" ELSE "IDENTITY_MISMATCH"
              [] frame.kind = "attestation" -> IF DecodeAttestation(v) THEN "OK" ELSE "IDENTITY_MISMATCH"
              [] frame.kind = "consensus" -> IF DecodeConsensus(v) THEN "OK" ELSE "IDENTITY_MISMATCH"

-----------------------------------------------------------------------------

\* validation_state after its memset.  previous is -1 where have_* is 0.
InitialState ==
    [phase |-> 0, previous |-> [k \in {"entity", "physicality", "attestation", "consensus"} |-> -1],
     current |-> <<>>, carriers |-> <<>>, logical |-> 0, open |-> FALSE,
     summary |-> [k \in {"entity", "physicality", "segment", "attestation", "consensus"} |-> 0],
     occurrences |-> 0, records |-> 0, batches |-> 0]

Init == state = InitialState /\ stream = <<>> /\ status = "reading"

\* close_physicality: the open group is complete.
ClosePhysicality(s) ==
    \/ ~s.open
    \/ s.current.type = "atomic" /\ s.carriers = <<>> /\ s.logical = 0
    \/ /\ s.current.type = "composition"
       /\ Len(s.carriers) = s.current.vertices
       /\ s.logical = s.current.logical
       /\ TrajectoryFingerprint(s.carriers) = s.current.trajectory

Counted(s, kind) == [s EXCEPT !.summary[kind] = @ + 1, !.records = @ + 1]

\* The part of validate_record common to the four families with an order.
InOrder(s, kind, id) == s.previous[kind] < id

NextPhase == [entity |-> 1, physicality |-> 2, attestation |-> 4, consensus |-> 5]

Admitted(s, kind, id) ==
    [Counted(s, kind) EXCEPT !.previous[kind] = id, !.phase = NextPhase[kind]]


\* The segment belongs to the open group and continues it.
SegmentContinues(s, g) ==
    /\ s.open /\ s.current.type = "composition"
    /\ g.physicality = s.current.id
    /\ g.index = Len(s.carriers)

\* validate_record: the refusal of a decoded frame, or "OK".
Refusal(s, kind, v) ==
    CASE kind = "entity" ->
            IF s.phase > 1 \/ ~InOrder(s, kind, v.id) THEN "ORDER_INVALID" ELSE "OK"
      [] kind = "physicality" ->
            IF s.phase >= 4 THEN "ORDER_INVALID"
            ELSE IF ~ClosePhysicality(s) THEN "TRAJECTORY_INVALID"
            ELSE IF ~InOrder(s, kind, v.id) THEN "ORDER_INVALID" ELSE "OK"
      [] kind = "segment" ->
            IF SegmentContinues(s, v) THEN "OK" ELSE "TRAJECTORY_INVALID"
      [] OTHER ->
            IF ~ClosePhysicality(s) THEN "TRAJECTORY_INVALID"
            ELSE IF ~InOrder(s, kind, v.id) THEN "ORDER_INVALID" ELSE "OK"

\* summary.logical_occurrence_count after a segment.
Occurrences(n, v) == n + v.carrier.run

\* validate_record: what an accepted frame does to the state.
Accept(s, kind, v) ==
    CASE kind = "entity" -> Admitted(s, kind, v.id)
      [] kind = "physicality" ->
            [Admitted(s, kind, v.id) EXCEPT !.current = v, !.carriers = <<>>, !.logical = 0, !.open = TRUE]
      [] kind = "segment" ->
            [Counted(s, kind) EXCEPT !.carriers = Append(@, v.carrier), !.logical = @ + v.carrier.run,
                                     !.occurrences = Occurrences(@, v)]
      [] OTHER -> [Admitted(s, kind, v.id) EXCEPT !.open = FALSE]

\* The inner loop of laplace_persistence_validate_stream.
ReadFrame(f) ==
    /\ status = "reading" /\ Len(stream) < MaxFrames /\ state.batches < MaxBatches
    /\ stream' = Append(stream, f)
    /\ LET refusal == IF Decode(f) # "OK" THEN Decode(f) ELSE Refusal(state, f.kind, f.payload)
       IN IF refusal = "OK"
          THEN state' = Accept(state, f.kind, f.payload) /\ UNCHANGED status
          ELSE status' = refusal /\ UNCHANGED state

\* The end of a batch that says it holds claimed records.
EndBatch(claimed) ==
    /\ status = "reading" /\ state.records > 0 /\ state.batches < MaxBatches
    /\ IF state.records = claimed
       THEN state' = [state EXCEPT !.records = 0, !.batches = @ + 1] /\ UNCHANGED status
       ELSE status' = "RECORD_INVALID" /\ UNCHANGED state
    /\ UNCHANGED stream

\* After the last batch.
Finish ==
    /\ status = "reading" /\ state.batches > 0 /\ state.records = 0
    /\ status' = IF ClosePhysicality(state) THEN "OK" ELSE "TRAJECTORY_INVALID"
    /\ UNCHANGED <<state, stream>>

Next == (\E f \in Frames : ReadFrame(f)) \/ (\E n \in 1 .. MaxFrames + 1 : EndBatch(n)) \/ Finish

Spec == Init /\ [][Next]_vars

-----------------------------------------------------------------------------

Family(s, kind) == SelectSeq(s, LAMBDA f : f.kind = kind)

Ascending(s) == \A i, j \in DOMAIN s : i < j => s[i].payload.id < s[j].payload.id

\* The rank of a kind; tail is that of consensus records.
Ranked(s, tail) ==
    LET rank == [entity |-> 1, physicality |-> 2, segment |-> 2, attestation |-> 3, consensus |-> tail]
    IN \A i, j \in DOMAIN s : i < j => rank[s[i].kind] <= rank[s[j].kind]

\* The carriers that follow the physicality at position p.
Group(s, p) ==
    LET last == CHOOSE n \in p .. Len(s) :
                    /\ \A i \in p + 1 .. n : s[i].kind = "segment"
                    /\ n = Len(s) \/ s[n + 1].kind # "segment"
    IN SubSeq(s, p + 1, last)

Complete(s, p) ==
    LET g == Group(s, p)
        v == s[p].payload
    IN IF v.type = "atomic" THEN g = <<>>
       ELSE /\ Len(g) = v.vertices
            /\ \A i \in DOMAIN g : g[i].payload.physicality = v.id /\ g[i].payload.index = i - 1
            /\ FoldSeq(LAMBDA f, n : n + f.payload.carrier.run, 0, g) = v.logical
            /\ TrajectoryFingerprint([i \in DOMAIN g |-> g[i].payload.carrier]) = v.trajectory

\* What a canonical stream is, said of the whole sequence of frames.
Canonical(s, tail) ==
    /\ \A i \in DOMAIN s : Decode(s[i]) = "OK"
    /\ Ranked(s, tail)
    /\ \A k \in DOMAIN NextPhase : Ascending(Family(s, k))
    /\ \A i \in DOMAIN s :
          s[i].kind = "segment" => i > 1 /\ s[i - 1].kind \in {"physicality", "segment"}
    /\ \A p \in DOMAIN s : s[p].kind = "physicality" => Complete(s, p)

\* The one-pass validation accepts exactly the streams that are canonical as a
\* whole, wherever their batches end.
DecidesCanonical ==
    /\ status = "OK" => Canonical(stream, 3)
    /\ status \notin {"OK", "reading", "RECORD_INVALID"} => ~Canonical(stream, 3)

\* The summary of an accepted stream counts every record and every logical
\* occurrence of it.
SummaryIsExact ==
    status = "OK" =>
        /\ \A k \in DOMAIN state.summary : state.summary[k] = Len(Family(stream, k))
        /\ state.occurrences =
              FoldSeq(LAMBDA f, n : n + f.payload.logical, 0,
                      SelectSeq(stream, LAMBDA f : f.kind = "physicality" /\ f.payload.type = "composition"))

\* build_physicality_array of the PostgreSQL sink: the sink can cut the
\* trajectories of a batch out of it.
Stageable(s) ==
    \A p \in DOMAIN s :
        s[p].kind = "physicality" =>
            /\ s[p].payload.vertices <= Len(s) - p
            /\ \A i \in 1 .. s[p].payload.vertices :
                  /\ s[p + i].kind = "segment"
                  /\ s[p + i].payload.index = i - 1
                  /\ s[p + i].payload.physicality = s[p].payload.id

\* A stream accepted as one batch never stops the sink that stores it.
AcceptedIsStageable == (status = "OK" /\ state.batches = 1) => Stageable(stream)

\* contracts/persistence.json: attestations by record id, then consensus.
ContractOrder == status = "OK" => Canonical(stream, 4)

=============================================================================
