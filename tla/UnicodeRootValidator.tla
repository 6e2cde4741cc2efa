------------------------ MODULE UnicodeRootValidator ------------------------
(***************************************************************************)
(* The frames of the canonical Unicode root stream and the validator every *)
(* producer and every sink runs on them: sections in order, ordinals       *)
(* without gaps, ranks used once, contractions and compositions strictly   *)
(* ordered, and a manifest that names all of it.  A running hash is the    *)
(* sequence hashed.                                                        *)
(***************************************************************************)
EXTENDS Integers, Sequences, FiniteSets, SequencesExt

CONSTANT Population     \* LAPLACE_UNICODE_ROOT_POPULATION

Positions == 0..(Population - 1)
Atom == 1  Position == 2  Contraction == 3  Composition == 4  Manifest == 5
Sections == 1..4

\* A frame takes more bytes when its payload is a longer sequence.
FrameBytes(f) == IF f.kind = Contraction THEN Len(f.payload) ELSE 1

\* Lexicographic order on position sequences; a proper prefix comes first.
LexLess(s, t) ==
  \/ \E i \in 1..Len(s) : i <= Len(t) /\ s[i] < t[i] /\ \A j \in 1..(i - 1) : s[j] = t[j]
  \/ Len(s) < Len(t) /\ \A j \in 1..Len(s) : s[j] = t[j]

\* atom_record_open and its nested checks: the identity, the Hilbert key and the fields
\* of a sound record are those its position and coordinate determine.
AtomValid(p) == p.position \in Positions /\ p.rank \in Positions /\ p.sound
ContractionValid(p) == Len(p) >= 2 /\ ToSet(p) \subseteq Positions
CompositionValid(p) == Len(p) = 3 /\ ToSet(p) \subseteq Positions
ManifestCountsValid(m) ==
  /\ m.counts[1] = Population /\ m.counts[2] = Population
  /\ m.total = m.counts[1] + m.counts[2] + m.counts[3] + m.counts[4] + 1
FrameValid(f) ==
  CASE f.kind = Atom -> f.ordinal < Population /\ AtomValid(f.payload) /\ f.payload.position = f.ordinal
    [] f.kind = Position -> f.ordinal < Population /\ f.payload = f.ordinal
    [] f.kind = Contraction -> ContractionValid(f.payload)
    [] f.kind = Composition -> CompositionValid(f.payload)
    [] f.kind = Manifest -> f.ordinal = 0 /\ ManifestCountsValid(f.payload)
    [] OTHER -> FALSE

-----------------------------------------------------------------------------
\* The validator.  log[k] is the section hash of kind k; ranks and coords are what the
\* permutation and coordinate hashers have seen.
NewValidator(e) ==
  [expect |-> e, log |-> [k \in Sections |-> <<>>], observed |-> {}, coords |-> <<>>,
   kind |-> Atom, sealed |-> FALSE, manifest |-> FALSE, finished |-> FALSE,
   total |-> 0, bytes |-> 0, status |-> "ok"]
Poison(v, s) == [v EXCEPT !.status = s]
RequiredComplete(v, kind) ==
  /\ kind > Atom => Len(v.log[1]) = Population
  /\ kind > Position => Len(v.log[2]) = Population

\* Fault: a rank that was seen before is not noticed.
MarkUnseen(v, p) == [v EXCEPT !.coords = Append(@, <<p.rank, p.coord>>)]
\* unicode_root_mark_placement_rank_once and the two hashers
MarkRank(v, p) ==
  IF p.rank \in v.observed THEN Poison(v, "order")
  ELSE [v EXCEPT !.observed = @ \cup {p.rank}, !.coords = Append(@, <<p.rank, p.coord>>)]

\* contraction_order_valid and normalization_order_valid: strictly after the remembered one.
OrderValid(v, f) == v.log[f.kind] = <<>> \/ LexLess(Last(v.log[f.kind]), f.payload)

ConsumeSection(v, f) ==
  LET kept == IF f.kind = Atom THEN MarkRank(v, f.payload) ELSE v
      good == IF f.kind \in {Contraction, Composition} THEN OrderValid(v, f)
              ELSE f.kind # Atom \/ f.payload.epoch = v.expect.recipe
  IN IF f.ordinal # Len(v.log[f.kind]) THEN Poison(v, "order")
     ELSE IF ~good THEN Poison(v, IF f.kind = Atom THEN "identity" ELSE "order")
     ELSE IF kept.status # "ok" THEN kept
     ELSE [kept EXCEPT !.log[f.kind] = Append(@, f.payload), !.kind = f.kind]

\* The manifest must name the counts, the section fingerprints, and both what was
\* observed and what was expected of ranks and coordinates.
Counts(v) == [k \in Sections |-> Len(v.log[k])]
ManifestMatches(v, m) ==
  /\ m.counts = Counts(v) /\ m.total = v.total + 1
  /\ m.sections = v.log
  /\ m.expect = v.expect
  /\ v.expect.ranks = [i \in 1..Len(v.coords) |-> v.coords[i][1]]
  /\ v.expect.coords = [i \in 1..Len(v.coords) |-> v.coords[i][2]]
SealSections(v) ==
  IF v.sealed THEN v
  ELSE IF ~RequiredComplete(v, Manifest) THEN Poison(v, "incomplete")
  ELSE [v EXCEPT !.sealed = TRUE]
ConsumeManifest(v, f) ==
  LET s == SealSections(v) IN
  IF s.status # "ok" THEN s
  ELSE IF ~ManifestMatches(v, f.payload) THEN Poison(s, "manifest")
  ELSE [s EXCEPT !.manifest = TRUE, !.kind = Manifest]

\* unicode_root_stream_consume_frame
ConsumeFrame(v, f) ==
  IF v.manifest \/ (v.sealed /\ f.kind # Manifest) \/ f.kind < v.kind \/ ~RequiredComplete(v, f.kind)
  THEN Poison(v, "order")
  ELSE IF f.kind = Manifest THEN ConsumeManifest(v, f) ELSE ConsumeSection(v, f)

\* laplace_unicode_root_stream_validator_consume: frames up to the first that fails.
Step(v, f) ==
  IF v.status # "ok" THEN v
  ELSE IF ~FrameValid(f) THEN Poison(v, "state")
  ELSE LET w == ConsumeFrame(v, f) IN
       IF w.status # "ok" THEN w ELSE [w EXCEPT !.total = @ + 1, !.bytes = @ + FrameBytes(f)]
Consume(v, frames, first) ==
  IF v.status # "ok" \/ v.finished \/ first # v.total THEN Poison(v, "state")
  ELSE FoldLeft(Step, v, frames)

\* laplace_unicode_root_stream_validator_finish
Finish(v) ==
  IF v.finished \/ v.status # "ok" THEN v
  ELSE IF ~v.manifest THEN Poison(v, "incomplete")
  ELSE [v EXCEPT !.finished = TRUE]

=============================================================================
