-------------------------- MODULE UnicodeRootStream --------------------------
(***************************************************************************)
(* The builder of the canonical Unicode root stream: it frames atoms,      *)
(* DUCET positions, contractions and normalization compositions in         *)
(* batches that pass the validator before they reach the spool.  Frames    *)
(* may also come, as the validator cannot know, from any other producer.   *)
(***************************************************************************)
EXTENDS UnicodeRootValidator

CONSTANTS Expectations,   \* [ranks, coords, recipe] expected by a validator
          ContractionSeqs, CompositionSet, \* what sources may contain
          MaxBatchFrames, MaxBatchBytes,
          MaxForeign      \* bound on the contractions and compositions a stream carries

\* The builder: its sources, where it is, the batch under construction and the spool.
VARIABLES v, producer, source, batch, written, spool, build
vars == <<v, producer, source, batch, written, spool, build>>


\* Ranks of the placement table, coordinates by rank, the mappings of the DUCET with more
\* than one position, and the primary compositions of the core table.
Sources ==
  [ranks : {r \in [1..Population -> Positions] : IsInjective(r)},
   contractions : BoundedSeq(ContractionSeqs, MaxForeign),
   compositions : {s \in SUBSET CompositionSet : Cardinality(s) <= MaxForeign}]
ExpectationOf(s) ==
  [ranks |-> s.ranks, coords |-> [i \in 1..Population |-> s.ranks[i]], recipe |-> "own"]

Init ==
  /\ producer \in {"builder", "foreign"}
  /\ \/ producer = "builder" /\ source \in Sources /\ v = NewValidator(ExpectationOf(source))
     \/ producer = "foreign" /\ source = <<>> /\ \E e \in Expectations : v = NewValidator(e)
  /\ batch = <<>> /\ written = <<>> /\ spool = <<>> /\ build = "emit"

\* The frames the builder emits before the manifest, in its order: contractions and
\* compositions are sorted first.
SortedBy(S) == SetToSortSeq(S, LexLess)
Frame(kind, ordinal, payload) == [kind |-> kind, ordinal |-> ordinal, payload |-> payload]
AtomPayload(s, i) == [position |-> i, rank |-> s.ranks[i + 1], coord |-> s.ranks[i + 1],
                      epoch |-> "own", sound |-> TRUE]
BuilderAtom(s, i) == AtomPayload(s, i)
SectionFrames(s) ==
  LET cs == SortSeq(s.contractions, LexLess)
      ns == SortedBy(s.compositions)
  IN [i \in 1..Population |-> Frame(Atom, i - 1, BuilderAtom(s, i - 1))]
     \o [i \in 1..Population |-> Frame(Position, i - 1, i - 1)]
     \o [i \in 1..Len(cs) |-> Frame(Contraction, i - 1, cs[i])]
     \o [i \in 1..Len(ns) |-> Frame(Composition, i - 1, ns[i])]
\* Two primary compositions of one pair are refused before any is framed.
PairsUnique(s) == \A c, d \in s.compositions : c[1] = d[1] /\ c[2] = d[2] => c = d

BatchBytes(b) == FoldLeft(LAMBDA n, f : n + FrameBytes(f), 0, b)
BatchFull(b, f) == Len(b) >= MaxBatchFrames \/ FrameBytes(f) > MaxBatchBytes - BatchBytes(b)

Fail == build' = "failed" /\ UNCHANGED <<producer, source, batch, written, spool>>
\* CanonicalStreamWriter.Flush: the validator first, then the spool, which may fail.
Flush(next) ==
  LET w == IF batch = <<>> THEN v ELSE Consume(v, batch, Len(written)) IN
  /\ v' = w
  /\ \/ /\ w.status = "ok" /\ written' = written \o batch
        /\ spool' = IF batch = <<>> THEN spool ELSE Append(spool, batch)
        /\ next
     \/ batch # <<>> /\ Fail

\* CanonicalStreamWriter.Append of the next frame
Emit ==
  LET frames == SectionFrames(source)
      i == Len(written) + Len(batch) + 1
  IN /\ producer = "builder" /\ build = "emit" /\ i <= Len(frames)
     /\ LET f == frames[i] IN
        \/ /\ FrameBytes(f) > MaxBatchBytes \/ ~FrameValid(f)
              \/ (f.kind = Composition /\ ~PairsUnique(source))
           /\ Fail /\ UNCHANGED v
        \/ /\ FrameBytes(f) <= MaxBatchBytes /\ FrameValid(f)
           /\ f.kind = Composition => PairsUnique(source)
           /\ IF batch # <<>> /\ BatchFull(batch, f)
              THEN Flush(batch' = <<f>> /\ UNCHANGED <<producer, source, build>>)
              ELSE batch' = Append(batch, f) /\ UNCHANGED <<v, producer, source, written, spool, build>>

EmitDone ==
  /\ producer = "builder" /\ build = "emit"
  /\ Len(written) + Len(batch) = Len(SectionFrames(source))
  /\ Flush(batch' = <<>> /\ build' = "manifest" /\ UNCHANGED <<producer, source>>)

\* Seal the sections, frame the manifest of the snapshot, flush it, finish.
ManifestOf(w) ==
  [counts |-> Counts(w), total |-> w.total + 1, sections |-> w.log, expect |-> w.expect]
EmitManifest ==
  LET f == Frame(Manifest, 0, ManifestOf(v))
      w == Consume(SealSections(v), <<f>>, Len(written))
  IN /\ producer = "builder" /\ build = "manifest"
     /\ \/ w.status = "ok" /\ v' = Finish(w)
           /\ written' = Append(written, f) /\ spool' = Append(spool, <<f>>)
           /\ build' = "seal" /\ UNCHANGED <<producer, source, batch>>
        \/ v' = w /\ Fail

\* The sealed spool is compared with the validator's totals.
SealSpool ==
  /\ producer = "builder" /\ build = "seal"
  /\ build' = IF Len(FlattenSeq(spool)) = v.total THEN "complete" ELSE "failed"
  /\ UNCHANGED <<v, producer, source, batch, written, spool>>

\* Any other producer: one frame at a time, in any order, sound or not.
ForeignAtoms ==
  {Frame(Atom, o, [position |-> p, rank |-> r, coord |-> c, epoch |-> e, sound |-> TRUE]) :
     o \in Positions, p \in Positions, r \in Positions, c \in Positions, e \in {"own", "other"}}
ForeignPositions == {Frame(Position, o, p) : o \in Positions, p \in Positions}
ForeignSequences ==
  {Frame(Contraction, o, s) : o \in 0..(MaxForeign - 1), s \in ContractionSeqs}
  \cup {Frame(Composition, o, s) : o \in 0..(MaxForeign - 1), s \in CompositionSet}
ForeignManifests ==
  {Frame(Manifest, 0, m) :
     m \in {ManifestOf(v)} \cup {[ManifestOf(v) EXCEPT !.total = n] : n \in 0..v.total}
           \cup {[ManifestOf(v) EXCEPT !.counts[3] = n] : n \in 0..MaxForeign}
           \cup {[ManifestOf(v) EXCEPT !.expect = e] : e \in Expectations}}
ForeignFrame(f, first) ==
  /\ v' = Consume(v, <<f>>, first)
  /\ written' = IF v'.status = "ok" THEN Append(written, f) ELSE written
ForeignConsume ==
  /\ producer = "foreign" /\ v.status = "ok" /\ ~v.finished
  /\ \E first \in {v.total, v.total + 1} :
       \/ \E f \in ForeignAtoms : ForeignFrame(f, first)
       \/ \E f \in ForeignPositions : ForeignFrame(f, first)
       \/ \E f \in ForeignSequences : ForeignFrame(f, first)
       \/ \E f \in ForeignManifests : ForeignFrame(f, first)
  /\ UNCHANGED <<producer, source, batch, spool, build>>
ForeignSeal ==
  /\ producer = "foreign" /\ v.status = "ok" /\ ~v.manifest /\ ~v.finished
  /\ v' = SealSections(v) /\ UNCHANGED <<producer, source, batch, written, spool, build>>
ForeignFinish ==
  /\ producer = "foreign" /\ v' = Finish(v)
  /\ UNCHANGED <<producer, source, batch, written, spool, build>>

Next == \/ Emit \/ EmitDone \/ EmitManifest \/ SealSpool
        \/ ForeignConsume \/ ForeignSeal \/ ForeignFinish
Spec == Init /\ [][Next]_vars

-----------------------------------------------------------------------------
StrictlySorted(s) == \A i \in 1..(Len(s) - 1) : LexLess(s[i], s[i + 1])

\* A stream the validator finishes is canonical whoever produced it: one atom per
\* position, the ranks a permutation and exactly those expected, contractions and
\* compositions without repetition in one order, every accepted frame counted.
FinishedIsCanonical ==
  v.finished =>
    /\ [i \in 1..Population |-> v.log[1][i].position] = [i \in 1..Population |-> i - 1]
    /\ {v.log[1][i].rank : i \in 1..Population} = Positions
    /\ \A i \in 1..Population : v.log[1][i].coord = v.expect.coords[i]
    /\ StrictlySorted(v.log[3]) /\ StrictlySorted(v.log[4])
    /\ v.total = Len(written) /\ Last(written).kind = Manifest
    /\ \A k \in Sections : v.log[k] = [i \in 1..Len(v.log[k]) |->
                               SelectSeq(written, LAMBDA f : f.kind = k)[i].payload]

\* A batch of the builder never exceeds the requested frames or bytes, and what reached
\* the spool is, batch by batch, what the validator accepted.
SpoolHoldsTheStream ==
  /\ FlattenSeq(spool) = IF producer = "builder" THEN written ELSE <<>>
  /\ \A i \in 1..Len(spool) : Len(spool[i]) <= MaxBatchFrames /\ BatchBytes(spool[i]) <= MaxBatchBytes
  /\ build = "complete" => v.finished /\ v.total = Len(written)

\* The builder and the validator agree: the validator refuses no batch the builder
\* frames, unless two contractions of the source have one sequence.
BuilderIsAccepted ==
  producer = "builder" /\ (\A i, j \in DOMAIN source.contractions :
                              i # j => source.contractions[i] # source.contractions[j])
    => v.status = "ok"

=============================================================================
