----------------------------- MODULE UnicodeTier0 -----------------------------
(***************************************************************************)
(* The Unicode tier-0 sink and the two perfcache modules it feeds: the     *)
(* dense forward table with its metadata section, and the open-addressing  *)
(* reverse table from identity to position.  The framework begins an       *)
(* attempt, stages batches of the root stream, seals or aborts, and may    *)
(* try again; files already published stay.                                *)
(***************************************************************************)
EXTENDS UnicodeRootValidator

CONSTANTS Capacity,       \* slots of the reverse table, a power of two above Population
          Homes,          \* the home slots a position's identity may hash to
          RankChoices,    \* permutations a stream may carry
          MaxBatch,       \* frames in a batch
          MaxAttempts

CapacityExceedsPopulation == Capacity > Population

TableSlots == 0..(Capacity - 1)
Empty == -1

VARIABLES home,       \* position -> home slot of its identity (the hash)
          stream,     \* the frames the framework delivers in this attempt
          sink,       \* the sink's runtime state
          files,      \* [fwd, rev] published at the two paths, or None
          result,     \* what a sealed sink reports
          honest,     \* nothing failed or was altered since Begin
          attempts,
          admitted    \* a reverse table from elsewhere that passed validation, or None
vars == <<home, stream, sink, files, result, honest, attempts, admitted>>

None == <<>>
AtomOf(r, i) == [position |-> i, rank |-> r[i + 1], coord |-> r[i + 1], epoch |-> "own", sound |-> TRUE]
ExpectationOf(r) == [ranks |-> r, coords |-> r, recipe |-> "own"]
Frame(kind, ordinal, payload) == [kind |-> kind, ordinal |-> ordinal, payload |-> payload]
\* The stream of one permutation: atoms, positions, manifest.
StreamOf(r) ==
  LET body == [i \in 1..Population |-> Frame(Atom, i - 1, AtomOf(r, i - 1))]
              \o [i \in 1..Population |-> Frame(Position, i - 1, i - 1)]
      done == FoldLeft(Step, NewValidator(ExpectationOf(r)), body)
  IN Append(body, Frame(Manifest, 0, [counts |-> Counts(done), total |-> done.total + 1,
                                      sections |-> done.log, expect |-> done.expect]))
\* bytes of an atom's payload in the metadata section
AtomBytes(p) == 1 + (p.position % 2)

EmptyTable == [s \in TableSlots |-> Empty]
Idle(aborted) ==
  [begun |-> FALSE, sealed |-> FALSE, aborted |-> aborted, v |-> None, next |-> 0,
   atoms |-> <<>>, metadata |-> 0, table |-> EmptyTable]

-----------------------------------------------------------------------------
\* The reverse module.
Probe(s, n) == (s + n) % Capacity
\* Every slot from a record's home up to the record is occupied by another identity.
Reachable(t, s) ==
  LET n == CHOOSE k \in 0..(Capacity - 1) : Probe(home[t[s]], k) = s IN
  \A k \in 0..(n - 1) : t[Probe(home[t[s]], k)] \notin {Empty, t[s]}
ReverseViewValid(t) ==
  /\ \A s \in TableSlots : t[s] # Empty => t[s] \in Positions /\ Reachable(t, s)
  /\ Cardinality({s \in TableSlots : t[s] # Empty}) = Population

\* unicode_identity_reverse_find of the identity of position p with home slot h: the first
\* empty slot ends the search; a full table is an error.
ReverseFind(t, p, h) ==
  LET stops == {k \in 0..(Capacity - 1) : t[Probe(h, k)] \in {Empty, p}}
      k == CHOOSE k \in stops : \A j \in stops : k <= j
  IN IF stops = {} THEN [status |-> "mismatch", found |-> FALSE, position |-> Empty]
     ELSE [status |-> "ok", found |-> t[Probe(h, k)] = p, position |-> t[Probe(h, k)]]

\* The forward module: keys are indexes, metadata ranges follow each other without a gap
\* up to the end of the section, and each is the atom its record repeats.
Tier0ViewValid(records, metadata) ==
  /\ Len(records) = Population
  /\ \A i \in 1..Population :
       /\ records[i].atom.position = i - 1 /\ AtomValid(records[i].atom)
       /\ records[i].offset = FoldLeft(LAMBDA n, r : n + AtomBytes(r.atom), 0, SubSeq(records, 1, i - 1))
  /\ metadata = FoldLeft(LAMBDA n, r : n + AtomBytes(r.atom), 0, records)

-----------------------------------------------------------------------------
\* AppendAtom: insert the identity at the first free slot from its home, refuse one that is
\* there already, then record the atom with the offset its metadata will have.
Insert(t, p) ==
  LET stops == {k \in 0..(Capacity - 1) : t[Probe(home[p], k)] \in {Empty, p}}
      k == CHOOSE k \in stops : \A j \in stops : k <= j
  IN IF stops = {} \/ t[Probe(home[p], k)] = p THEN None ELSE [t EXCEPT ![Probe(home[p], k)] = p]
MetadataOffset(s, local) == s.metadata + local
AppendAtom(s, f) ==
  LET t == Insert(s.table, f.payload.position) IN
  IF f.payload.position # Len(s.atoms) \/ t = None THEN [s EXCEPT !.aborted = TRUE]
  ELSE [s EXCEPT !.table = t, !.local = @ + AtomBytes(f.payload),
                 !.atoms = Append(@, [atom |-> f.payload, offset |-> MetadataOffset(s, s.local)])]
StageFrame(s, f) == IF s.aborted \/ f.kind # Atom THEN s ELSE AppendAtom(s, f)
\* Stage: the validator takes the whole batch first; then its atoms, then the file builder.
StageBatch(s, frames) ==
  LET w == Consume(s.v, frames, s.next)
      a == FoldLeft(StageFrame, [local |-> 0] @@ s, frames)
  IN IF w.status # "ok" \/ a.aborted THEN [s EXCEPT !.aborted = TRUE, !.table = a.table, !.v = w]
     ELSE [s EXCEPT !.v = w, !.next = @ + Len(frames), !.atoms = a.atoms,
                    !.metadata = @ + a.local, !.table = a.table]

Init ==
  /\ home \in [Positions -> Homes]
  /\ stream = None /\ sink = Idle(FALSE) /\ files = [fwd |-> None, rev |-> None]
  /\ result = None /\ honest = TRUE /\ attempts = 0 /\ admitted = None

Begin ==
  /\ ~sink.begun /\ ~sink.sealed /\ sink.v = None /\ attempts < MaxAttempts /\ attempts' = attempts + 1
  /\ \E r \in RankChoices :
       /\ stream' = StreamOf(r)
       /\ sink' = [sink EXCEPT !.begun = TRUE, !.aborted = FALSE, !.table = EmptyTable,
                               !.v = NewValidator(ExpectationOf(r))]
  /\ honest' = TRUE /\ UNCHANGED <<home, files, result, admitted>>

\* Frames the framework hands over: the next ones, or a batch with one frame repeated or left out.
NextFrames(n) == SubSeq(stream, sink.next + 1, sink.next + n)
Stage ==
  /\ sink.begun /\ ~sink.sealed /\ ~sink.aborted
  /\ \E n \in 1..MaxBatch :
       /\ sink.next + n <= Len(stream)
       /\ \/ sink' = StageBatch(sink, NextFrames(n)) /\ UNCHANGED honest
          \/ /\ honest' = FALSE
             /\ \/ sink' = StageBatch(sink, Append(NextFrames(n), Last(NextFrames(n))))
                \/ sink' = StageBatch(sink, Tail(NextFrames(n)) \o <<stream[Len(stream)]>>)
                \/ sink' = [sink EXCEPT !.aborted = TRUE]     \* the file builder or memory fails
  /\ UNCHANGED <<home, stream, files, result, attempts, admitted>>

\* A published path keeps its file; another content is a conflict.
PublishedAs(old, new) == old = None \/ old = new
Artifacts(s) == [fwd |-> s.atoms, rev |-> [table |-> s.table, dependsOn |-> s.atoms]]
SealReady(s) ==
  /\ s.next = Len(stream) /\ Len(s.atoms) = Population
  /\ Finish(s.v).finished
  /\ Tier0ViewValid(s.atoms, s.metadata)
\* Seal publishes the forward file, then the reverse file; either may fail after which the
\* files published so far stay and the sink waits for an abort.
SealFailed(f) == /\ files' = f /\ UNCHANGED <<sink, result>>
Seal ==
  LET a == Artifacts(sink) IN
  /\ sink.begun /\ ~sink.sealed /\ ~sink.aborted /\ UNCHANGED <<home, stream, attempts, admitted>>
  /\ \/ /\ SealReady(sink) /\ ReverseViewValid(sink.table)
        /\ PublishedAs(files.fwd, a.fwd) /\ PublishedAs(files.rev, a.rev)
        /\ files' = a /\ result' = a
        /\ sink' = [sink EXCEPT !.begun = FALSE, !.sealed = TRUE, !.v = None, !.table = EmptyTable]
        /\ UNCHANGED honest
     \/ /\ ~SealReady(sink) \/ ~PublishedAs(files.fwd, a.fwd)
        /\ SealFailed(files) /\ honest' = FALSE
     \/ /\ SealReady(sink) /\ PublishedAs(files.fwd, a.fwd)
        /\ SealFailed([files EXCEPT !.fwd = a.fwd]) /\ honest' = FALSE

\* Fault: the count of metadata bytes survives the attempt.
ResetKeepsMetadata == [Idle(TRUE) EXCEPT !.metadata = sink.metadata]
\* ResetRuntime: the runtime state of an attempt is dropped; Begin only clears the table.
ResetRuntime == Idle(TRUE)
Abort ==
  /\ sink.begun \/ sink.sealed
  /\ sink' = ResetRuntime /\ result' = None
  /\ UNCHANGED <<home, stream, files, honest, attempts, admitted>>

\* A backend opens a reverse artifact it did not write and runs the module's validation on it.
Admit ==
  /\ admitted = None /\ attempts = 0
  /\ \E t \in [TableSlots -> Positions \cup {Empty}] : ReverseViewValid(t) /\ admitted' = t
  /\ UNCHANGED <<home, stream, sink, files, result, honest, attempts>>

Next == Begin \/ Stage \/ Seal \/ Abort \/ Admit
Spec == Init /\ [][Next]_vars

-----------------------------------------------------------------------------
TablesInUse == {admitted} \cup (IF result = None THEN {} ELSE {result.rev.table})
\* A reverse table that validates answers every identity of the population with its own
\* position, ends in bounded probes for every other identity whatever its home slot, and
\* says so without an error.
ReverseIsExact ==
  \A t \in TablesInUse \ {None} :
    /\ \A p \in Positions :
         LET f == ReverseFind(t, p, home[p]) IN f.status = "ok" /\ f.found /\ f.position = p
    /\ \A h \in TableSlots : LET f == ReverseFind(t, Population, h) IN f.status = "ok" /\ ~f.found

\* A sealed sink reports one stream: the forward records in position order over contiguous
\* metadata, the reverse table of the same atoms, and both files hold what is reported.
SealedIsOneStream ==
  sink.sealed =>
    /\ files = result /\ result.rev.dependsOn = result.fwd
    /\ \E r \in RankChoices : \A i \in 1..Population : result.fwd[i].atom = AtomOf(r, i - 1)
    /\ {result.rev.table[s] : s \in TableSlots} = Positions \cup {Empty}

\* A canonical stream delivered in order, with no failure in this attempt, is refused by
\* neither the stage nor the seal, however earlier attempts ended.
HonestStreamIsStaged ==
  sink.begun /\ honest =>
    /\ ~sink.aborted
    /\ sink.next = Len(stream) => SealReady(sink) /\ ReverseViewValid(sink.table)

=============================================================================
