------------------------------- MODULE Spool -------------------------------
(***************************************************************************)
(* The canonical spool of src/engine/src/spool.cpp: an unlinked temporary  *)
(* file to which record batches are appended, which is then sealed, mapped *)
(* and read back as a framework producer.                                  *)
(*                                                                         *)
(* A byte is a model value of the batch it belongs to, so the file is a    *)
(* sequence of tagged bytes.  A write may stop anywhere.  Digests are      *)
(* injective, hence equal to what they digest.                             *)
(***************************************************************************)
EXTENDS Integers, Sequences

CONSTANTS
    Batches,      \* the batches a caller may offer: [bytes, records, ordinal, type]
    RecordType,   \* the type the spool was created for
    MaxTotal,          \* UINT64_MAX: the largest total the counters hold
    MaxOps        \* bound on the calls of append and of seal

Bytes == UNION {{b.bytes[i] : i \in DOMAIN b.bytes} : b \in Batches}

\* Batches are counted in unsigned integers.
BoundsAssumption ==
    /\ MaxTotal \in Nat /\ MaxOps \in Nat
    /\ \A b \in Batches : b.bytes \in Seq(Bytes) /\ b.records \in Nat /\ b.ordinal \in Nat

VARIABLES
    spool,        \* the laplace_canonical_spool object, or NoSpool
    file,         \* the bytes of the unlinked temporary file
    acked,        \* history: the batches append returned OK for
    reader,       \* the producer callbacks: next batch to ask for, and what was read
    ops           \* calls made, bounded by MaxOps

spoolVars == <<spool, file, acked, reader, ops>>

NoSpool == [exists |-> FALSE]
NoReader == [open |-> FALSE, index |-> 0, got |-> <<>>, cursor |-> <<0, 0, 0>>]

\* The object: metadata, totals, the mapped batches and the two state flags.
Empty == [exists |-> TRUE, metadata |-> <<>>, records |-> 0, bytes |-> 0,
          count |-> 0, mapped |-> <<>>, batches |-> <<>>,
          sealed |-> FALSE, failed |-> FALSE]

SpoolInit ==
    /\ spool = NoSpool
    /\ file = <<>>
    /\ acked = <<>>
    /\ reader = NoReader
    /\ ops = 0

\* laplace_canonical_spool_create: mkstemp, fchmod, unlink; a failing call
\* frees the object and leaves nothing behind.
Create ==
    /\ ~spool.exists /\ ops < MaxOps
    /\ \/ spool' = Empty
       \/ UNCHANGED spool
    /\ file' = <<>>
    /\ acked' = <<>>
    /\ ops' = ops + 1
    /\ UNCHANGED reader

\* The batch checks of append.  byte_count and record_count are positive, the
\* ordinal continues the records so far, and no total may wrap.
Acceptable(b) ==
    /\ b.bytes # <<>>
    /\ b.records > 0
    /\ b.ordinal = spool.records
    /\ b.type = RecordType
    /\ b.records <= MaxTotal - spool.records
    /\ Len(b.bytes) <= MaxTotal - spool.bytes

Metadata(b) == [offset |-> spool.bytes, bytes |-> Len(b.bytes),
                records |-> b.records, ordinal |-> b.ordinal]

\* laplace_canonical_spool_append: the metadata is pushed before the bytes are
\* written; only a complete write counts the batch.
Append_(b) ==
    /\ spool' = [spool EXCEPT !.metadata = Append(@, Metadata(b)),
                              !.records = @ + b.records,
                              !.bytes = @ + Len(b.bytes),
                              !.count = @ + 1]
    /\ file' = file \o b.bytes
    /\ acked' = Append(acked, b)

\* The failures of append: no memory for the metadata, or WriteComplete stops
\* after n < byte_count bytes.  Both fail the spool for good; the second leaves
\* the metadata of a batch whose bytes are not in the file.
AppendFailed(b, pushed, n) ==
    /\ spool' = [spool EXCEPT !.failed = TRUE,
                    !.metadata = IF pushed THEN Append(@, Metadata(b)) ELSE @]
    /\ file' = file \o SubSeq(b.bytes, 1, n)
    /\ UNCHANGED acked

SpoolAppend(b) ==
    /\ spool.exists /\ ops < MaxOps
    /\ ops' = ops + 1
    /\ UNCHANGED reader
    /\ IF spool.sealed \/ spool.failed \/ ~Acceptable(b)
       THEN UNCHANGED <<spool, file, acked>>
       ELSE \/ Append_(b)
            \/ AppendFailed(b, FALSE, 0)
            \/ \E n \in 0 .. Len(b.bytes) - 1 : AppendFailed(b, TRUE, n)

\* The bytes a batch of the given metadata points to in the mapping; "beyond"
\* marks those past its end (reading them is a bus error).
Mapped(bytes, d) ==
    [i \in 1 .. d.bytes |->
        IF d.offset + i <= Len(bytes) THEN bytes[d.offset + i] ELSE "beyond"]

\* The totals of a sequence of numbers, one for every prefix of it.
Running(w) ==
    LET s[n \in 0 .. Len(w)] == IF n = 0 THEN 0 ELSE s[n - 1] + w[n]
    IN s

\* The records, and the bytes, of the first n batches.
RecordsBefore(seq, n) == Running([i \in 1 .. Len(seq) |-> seq[i].records])[n]
BytesBefore(lengths, n) == Running(lengths)[n]
Lengths(seq) == [i \in 1 .. Len(seq) |-> Len(seq[i].bytes)]

\* The check laplace_framework_canonical_stream_fingerprint makes of the mapped
\* batches: ordinals without a gap, and totals that are the spool's.
StreamVerified(metadata) ==
    /\ \A i \in DOMAIN metadata :
          metadata[i].ordinal = RecordsBefore(metadata, i - 1)
    /\ RecordsBefore(metadata, Len(metadata)) = spool.records
    /\ BytesBefore([i \in 1 .. Len(metadata) |-> metadata[i].bytes], Len(metadata)) = spool.bytes

\* fsync succeeds and fstat finds as many bytes as were counted.
FileIsComplete == Len(file) = spool.bytes

\* Fault: seals whatever the file holds.
SealUnchecked ==
    /\ spool.exists /\ ops < MaxOps
    /\ ops' = ops + 1
    /\ UNCHANGED <<file, acked, reader>>
    /\ spool' = [spool EXCEPT
            !.mapped = file, !.sealed = TRUE,
            !.batches = [i \in DOMAIN spool.metadata |->
                           Mapped(file, spool.metadata[i])]]

\* laplace_canonical_spool_seal: refused in a wrong state; a failing fsync,
\* fstat, mmap, allocation or verification fails the spool for good.
SealRefused == spool.sealed \/ spool.failed \/ spool.metadata = <<>> \/ spool.bytes = 0

SpoolSeal ==
    /\ spool.exists /\ ops < MaxOps
    /\ ops' = ops + 1
    /\ UNCHANGED <<file, acked, reader>>
    /\ IF SealRefused THEN UNCHANGED spool
       ELSE \/ /\ FileIsComplete /\ StreamVerified(spool.metadata)
               /\ spool' = [spool EXCEPT
                     !.mapped = file, !.sealed = TRUE,
                     !.batches = [i \in DOMAIN spool.metadata |->
                                    Mapped(file, spool.metadata[i])]]
            \/ spool' = [spool EXCEPT !.failed = TRUE]

\* SpoolPrepare: the plan of a sealed spool is its summary, the first cursor
\* (0, 0, 0).
SpoolPrepare ==
    /\ spool.sealed /\ ~spool.failed
    /\ reader' = [NoReader EXCEPT !.open = TRUE]

\* laplace_canonical_spool_producer, and the framework preparing the producer.
OpenProducer ==
    /\ spool.exists /\ spool.sealed /\ ~spool.failed
    /\ ~reader.open
    /\ SpoolPrepare
    /\ UNCHANGED <<spool, file, acked, ops>>

\* SpoolNext: batch number index, and the cursor behind it.
SpoolNext ==
    /\ reader.open /\ spool.exists /\ spool.sealed /\ ~spool.failed
    /\ reader.index < Len(spool.batches)
    /\ LET i == reader.index + 1
           d == spool.metadata[i]
       IN reader' = [reader EXCEPT
             !.index = i,
             !.got = Append(@, spool.batches[i]),
             !.cursor = <<i, d.ordinal + d.records, d.offset + d.bytes>>]
    /\ UNCHANGED <<spool, file, acked, ops>>

\* SpoolFinish, or an abort: the producer's run is over.
SpoolFinish ==
    /\ reader.open
    /\ reader' = NoReader
    /\ UNCHANGED <<spool, file, acked, ops>>

\* laplace_canonical_spool_destroy, by a caller that no longer reads.
Destroy ==
    /\ spool.exists /\ ~reader.open
    /\ spool' = NoSpool
    /\ file' = <<>>
    /\ acked' = <<>>
    /\ UNCHANGED <<reader, ops>>

SpoolStep ==
    \/ Create
    \/ \E b \in Batches : SpoolAppend(b)
    \/ SpoolSeal
    \/ OpenProducer
    \/ SpoolNext
    \/ SpoolFinish
    \/ Destroy

SpoolSpec == SpoolInit /\ [][SpoolStep]_spoolVars

-----------------------------------------------------------------------------

\* A sealed spool is exactly what append acknowledged: as many batches, in that
\* order, each with its own bytes, and nothing of a batch whose write failed.
SealedIsAcknowledged ==
    spool.exists /\ spool.sealed =>
        spool.batches = [i \in DOMAIN acked |-> acked[i].bytes]

\* The totals of the object are those of the acknowledged batches, through
\* every refused and failed append, and stay in their width.
TotalsAreAcknowledged ==
    spool.exists =>
        /\ spool.count = Len(acked)
        /\ spool.records = RecordsBefore(acked, Len(acked))
        /\ spool.bytes = BytesBefore(Lengths(acked), Len(acked))
        /\ spool.records <= MaxTotal /\ spool.bytes <= MaxTotal

\* The cursor a producer hands out after a batch is the position behind all
\* that was read: the checkpoint a later run resumes from.
CursorIsPrefix ==
    reader.open =>
        reader.cursor =
            <<Len(reader.got),
              RecordsBefore(acked, Len(reader.got)),
              BytesBefore([i \in 1 .. Len(reader.got) |-> Len(reader.got[i])], Len(reader.got))>>

\* Whatever is appended, refused, cut short, sealed and read: a sealed spool is
\* what append acknowledged, and totals and cursors are positions in it.
SpoolIsFaithful == SealedIsAcknowledged /\ TotalsAreAcknowledged /\ CursorIsPrefix

=============================================================================
