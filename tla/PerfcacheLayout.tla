--------------------------- MODULE PerfcacheLayout ---------------------------
(***************************************************************************)
(* The perfcache artifact format: how a contract, fixed-size records and   *)
(* metadata become one sealed artifact, what laplace_perfcache_validate    *)
(* accepts, and what a lookup answers on an accepted view.  An artifact    *)
(* is a header record, the cells between header and digest, and a digest;  *)
(* storage or a foreign producer may change a field, a cell or the length, *)
(* and may or may not recompute the digest.  Sizes are below MaxU + 1;     *)
(* the digest is the digested content itself (collision free).             *)
(***************************************************************************)
EXTENDS Integers, Sequences

CONSTANTS MaxU,        \* UINT64_MAX = SIZE_MAX
          MaxU32,      \* UINT32_MAX
          HeaderBytes, DigestBytes,
          WordBytes,   \* sizeof(uint32_t), in cells
          ReadWord(_), \* read_u32_le: the number that WordBytes cells hold
          Contracts,   \* the contracts offered by callers
          Cell,        \* the values of a cell
          MaxCells, MaxMetadata,  \* bounds of what is written
          MaxChanges   \* and of the changes made to it

Laws == {"sorted", "dense", "module"}
Wrap(n) == n % (MaxU + 1)

\* uint32_t fits in size_t; cells are compared as numbers and fill a buffer of zeroes;
\* a word of cells is read without loss; the code's header is not empty.
LayoutAssumption ==
  /\ MaxU \in Nat /\ MaxU32 \in Nat
  /\ HeaderBytes \in Nat \ {0} /\ DigestBytes \in Nat /\ WordBytes \in Nat
  /\ Cell \subseteq Nat /\ 0 \in Cell
  /\ \A w \in [1..WordBytes -> Cell] : ReadWord(w) \in 0..MaxU32
  /\ \A w, x \in [1..WordBytes -> Cell] : ReadWord(w) = ReadWord(x) => w = x
  /\ \A c \in Contracts :
       /\ DOMAIN c = {"epoch", "key", "value", "law", "flags"}
       /\ c.key \in Nat /\ c.value \in Nat
  /\ MaxCells \in Nat /\ MaxMetadata \in Nat /\ MaxChanges \in Nat

VARIABLES artifact,    \* the artifact, or NoArtifact
          changes,     \* how often it was changed since it was written
          asked,       \* the last measurement: [contract, count, metadata, status, size]
          view,        \* the validated view, or NoView
          search,      \* the lookup under way: [key, low, high], or NoSearch
          answer       \* the last lookup: [key, found, index]
layoutVars == <<artifact, changes, asked, view, search, answer>>

NoArtifact == [bytes |-> 0]
NoView == [count |-> -1]
NoSearch == [low |-> 0, high |-> -1, key |-> <<>>]
NoAnswer == [found |-> FALSE, index |-> -1, key |-> <<>>]
NoMeasure == [status |-> "none", contract |-> NoView, count |-> 0, metadata |-> 0, size |-> 0]

Stride(c) == c.key + c.value
ContractValid(c) ==
  /\ c.value # 0 /\ Stride(c) <= MaxU32 /\ c.flags = 0
  /\ c.law \in Laws
  /\ c.law = "sorted" => c.key # 0
  /\ c.law = "dense" => c.key = WordBytes

\* Each addition is compared with what is left below the maximum before it is made.
MeasureLayout(c, count, metadata) ==
  LET records == count * Stride(c)
      refuse(s) == [status |-> s, size |-> 0]
  IN IF ~ContractValid(c) THEN refuse("invalid")
     ELSE IF count > MaxU \div Stride(c) THEN refuse("overflow")
     ELSE IF MaxU - HeaderBytes < records THEN refuse("overflow")
     ELSE IF MaxU - (HeaderBytes + records) < metadata THEN refuse("overflow")
     ELSE IF MaxU - (HeaderBytes + records + metadata) < DigestBytes THEN refuse("overflow")
     ELSE [status |-> "ok", size |-> HeaderBytes + records + metadata + DigestBytes]

KeyOf(body, i, c) == [j \in 1..c.key |-> body[i * Stride(c) + j]]
\* memcmp of two keys of one length
Less(k, l) == \E i \in 1..Len(k) : k[i] < l[i] /\ \A j \in 1..(i - 1) : k[j] = l[j]

SortedUnique(body, count, c) ==
  \A i \in 1..(count - 1) : Less(KeyOf(body, i - 1, c), KeyOf(body, i, c))
DenseKeys(body, count, c) ==
  /\ count <= MaxU32 + 1
  /\ \A i \in 0..(count - 1) : ReadWord(KeyOf(body, i, c)) = i % (MaxU32 + 1)
AccessLaw(body, count, c) ==
  count = 0 \/ CASE c.law = "sorted" -> SortedUnique(body, count, c)
                 [] c.law = "dense" -> DenseKeys(body, count, c)
                 [] OTHER -> TRUE

\* The header laplace_perfcache_layout_seal writes around the cells in place.
Header(c, count, metadata) ==
  [magic |-> TRUE, version |-> 1, header |-> HeaderBytes, reserved |-> 0, contract |-> c,
   count |-> count, stride |-> Stride(c), records |-> HeaderBytes,
   recordsBytes |-> count * Stride(c), metadata |-> HeaderBytes + count * Stride(c),
   metadataBytes |-> metadata, digest |-> HeaderBytes + count * Stride(c) + metadata]
Content(h, body) == <<h, body>>
Seal(c, count, metadata, body) ==
  LET h == Header(c, count, metadata) IN
  [h |-> h, body |-> body, digest |-> Content(h, body),
   bytes |-> HeaderBytes + Len(body) + DigestBytes]

LayoutInit ==
  /\ artifact = NoArtifact /\ changes = 0 /\ asked = NoMeasure
  /\ view = NoView /\ search = NoSearch /\ answer = NoAnswer

LayoutMeasure(c, count, metadata) ==
  LET measured == MeasureLayout(c, count, metadata) IN
  /\ asked' = [contract |-> c, count |-> count, metadata |-> metadata,
               status |-> measured.status, size |-> measured.size]
  /\ UNCHANGED <<artifact, changes, view, search, answer>>

\* The records (a key of the caller's and value cells of 0) and the metadata, in place.
Cells(c, keys, metadata) ==
  LET s == Stride(c)
      record(p) == (p - 1) \div s
      offset(p) == (p - 1) % s
  IN [p \in 1..(Len(keys) * s + metadata) |->
        IF p <= Len(keys) * s /\ offset(p) < c.key THEN keys[record(p) + 1][offset(p) + 1] ELSE 0]

\* laplace_perfcache_write: measure, access law, copy, seal.
Write(c, keys, metadata) ==
  LET body == Cells(c, keys, metadata) IN
  /\ MeasureLayout(c, Len(keys), metadata).status = "ok"
  /\ AccessLaw(body, Len(keys), c)
  /\ artifact' = Seal(c, Len(keys), metadata, body)
  /\ UNCHANGED <<changes, asked, view, search, answer>>

\* What storage or a producer of another format may do to an artifact.
Damage(a, field, value, reseal) ==
  LET h == [a.h EXCEPT ![field] = value] IN
  [a EXCEPT !.h = h, !.digest = IF reseal THEN Content(h, a.body) ELSE @]
Resize(a, body) ==
  [a EXCEPT !.body = body, !.bytes = HeaderBytes + Len(body) + DigestBytes,
            !.digest = Content(a.h, body)]
Numbers == {"count", "stride", "records", "recordsBytes", "metadata", "metadataBytes", "digest",
            "version", "header", "reserved"}
Tamper ==
  /\ artifact # NoArtifact /\ view = NoView
  /\ changes < MaxChanges /\ changes' = changes + 1
  /\ \/ \E f \in Numbers, n \in 0..MaxU, r \in BOOLEAN : artifact' = Damage(artifact, f, n, r)
     \/ \E r \in BOOLEAN : artifact' = Damage(artifact, "magic", FALSE, r)
     \/ \E c \in Contracts, r \in BOOLEAN : artifact' = Damage(artifact, "contract", c, r)
     \/ artifact' = Resize(artifact, Append(artifact.body, 0))
     \/ \E n \in 0..(Len(artifact.body) - 1) :
          artifact' = Resize(artifact, SubSeq(artifact.body, 1, n))
     \/ \E i \in DOMAIN artifact.body, n \in Cell :
          artifact' = Resize(artifact, [artifact.body EXCEPT ![i] = n])
  /\ UNCHANGED <<asked, view, search, answer>>

\* Fault: the product of the count is taken as it wraps.
SectionsWrap(a, stride) ==
  LET h == a.h
      records == Wrap(h.count * h.stride)
      end == Wrap(HeaderBytes + records + h.metadataBytes)
  IN /\ h.stride = stride
     /\ end + DigestBytes = a.bytes
     /\ h.records = HeaderBytes /\ h.recordsBytes = records
     /\ h.metadata = Wrap(HeaderBytes + records) /\ h.digest = end
\* The section fields against the sizes computed from count, stride and metadata.
Sections(a, stride) ==
  LET h == a.h
      records == h.count * h.stride
      end == HeaderBytes + records + h.metadataBytes
  IN /\ h.stride = stride
     /\ h.count <= MaxU \div h.stride
     /\ records <= MaxU - HeaderBytes
     /\ h.metadataBytes <= MaxU - (HeaderBytes + records)
     /\ DigestBytes <= MaxU - end
     /\ end + DigestBytes = a.bytes
     /\ h.records = HeaderBytes /\ h.recordsBytes = records
     /\ h.metadata = HeaderBytes + records /\ h.digest = end

\* laplace_perfcache_validate: the first check that fails gives the status.
ValidateStatus(a, expected) ==
  LET h == a.h IN
  IF ~ContractValid(expected) THEN "invalid"
  ELSE IF a.bytes < HeaderBytes + DigestBytes THEN "section"
  ELSE IF ~h.magic THEN "bad_magic"
  ELSE IF h.version # 1 THEN "version"
  ELSE IF h.header # HeaderBytes \/ h.reserved # 0 THEN "header"
  ELSE IF ~ContractValid(h.contract) THEN "header"
  ELSE IF h.contract # expected THEN "contract"
  ELSE IF ~Sections(a, Stride(h.contract)) THEN "section"
  ELSE IF a.digest # Content(h, SubSeq(a.body, 1, h.digest - HeaderBytes)) THEN "digest"
  ELSE IF ~AccessLaw(a.body, h.count, h.contract) THEN "access"
  ELSE "ok"

LayoutValidate(expected) ==
  /\ artifact # NoArtifact /\ view = NoView
  /\ ValidateStatus(artifact, expected) = "ok"
  /\ view' = [contract |-> artifact.h.contract, count |-> artifact.h.count,
              metadata |-> artifact.h.metadataBytes, digest |-> artifact.digest]
  /\ UNCHANGED <<artifact, changes, asked, search, answer>>

\* laplace_perfcache_reference_epoch_digest: the digest the same content would have
\* under another epoch.
ReferenceDigest(epoch) == Content([artifact.h EXCEPT !.contract.epoch = epoch], artifact.body)

\* laplace_perfcache_lookup_batch for one of its keys: a dense key is the index itself,
\* any other is searched for in [low, high), one comparison a step.
Keys(c) == [1..c.key -> Cell]
Answer(key, hit, index) ==
  answer' = [key |-> key, found |-> hit, index |-> IF hit THEN index ELSE MaxU]
LookupDense(key) ==
  /\ view # NoView /\ view.contract.law = "dense" /\ search = NoSearch
  /\ Answer(key, ReadWord(key) < view.count, ReadWord(key))
  /\ UNCHANGED <<artifact, changes, asked, view, search>>
LookupBegin(key) ==
  /\ view # NoView /\ view.contract.law = "sorted" /\ search = NoSearch
  /\ search' = [key |-> key, low |-> 0, high |-> view.count]
  /\ answer' = NoAnswer
  /\ UNCHANGED <<artifact, changes, asked, view>>
LookupStep ==
  LET middle == search.low + (search.high - search.low) \div 2 IN
  /\ search # NoSearch /\ search.low < search.high
  /\ search' = IF Less(KeyOf(artifact.body, middle, view.contract), search.key)
               THEN [search EXCEPT !.low = middle + 1] ELSE [search EXCEPT !.high = middle]
  /\ UNCHANGED <<artifact, changes, asked, view, answer>>
LookupEnd ==
  /\ search # NoSearch /\ search.low >= search.high
  /\ Answer(search.key,
            /\ search.low < view.count
            /\ KeyOf(artifact.body, search.low, view.contract) = search.key, search.low)
  /\ search' = NoSearch
  /\ UNCHANGED <<artifact, changes, asked, view>>

\* A behaviour either measures once or follows one artifact: the two share no state.
Unbegun == asked = NoMeasure /\ artifact = NoArtifact
LayoutNext ==
  \/ Unbegun /\ \E c \in Contracts, count \in 0..MaxU, metadata \in 0..MaxU :
                LayoutMeasure(c, count, metadata)
  \/ Unbegun /\ \E c \in Contracts : ContractValid(c) /\
                \E n \in 0..(MaxCells \div Stride(c)), metadata \in 0..MaxMetadata :
                  \E keys \in [1..n -> Keys(c)] : Write(c, keys, metadata)
  \/ Tamper
  \/ \E c \in Contracts : LayoutValidate(c)
  \/ view # NoView /\ \E key \in Keys(view.contract) : LookupDense(key)
  \/ view # NoView /\ \E key \in Keys(view.contract) : LookupBegin(key)
  \/ LookupStep
  \/ LookupEnd

LayoutSpec == LayoutInit /\ [][LayoutNext]_layoutVars

-----------------------------------------------------------------------------
\* measure_layout_internal: a size is given exactly when the unbounded sum fits, and
\* then it is that sum, for every count and metadata length a caller may announce.
MeasureIsExact ==
  asked.status # "none" /\ ContractValid(asked.contract) =>
    LET true == HeaderBytes + asked.count * Stride(asked.contract) + asked.metadata + DigestBytes
    IN IF true <= MaxU THEN asked.status = "ok" /\ asked.size = true
       ELSE asked.status = "overflow"

\* The format is canonical: an artifact laplace_perfcache_validate accepts, whatever
\* happened to it since it was written, is bit for bit what laplace_perfcache_write
\* makes of the view's contract, records and metadata; so no record lies outside it.
AcceptedIsCanonical ==
  view # NoView =>
    /\ view.count * Stride(view.contract) + view.metadata = Len(artifact.body)
    /\ artifact = Seal(view.contract, view.count, view.metadata, artifact.body)

\* A lookup on an accepted view finds a key exactly when one record has it, and
\* returns the index of that record.
LookupIsExact ==
  answer # NoAnswer =>
    LET hits == {i \in 0..(view.count - 1) : KeyOf(artifact.body, i, view.contract) = answer.key}
    IN IF answer.found THEN hits = {answer.index} ELSE hits = {}

\* laplace_perfcache_reference_epoch_digest is the digest of the artifact that writing
\* the same records under the other epoch would have produced.
ReferenceDigestIsRebuilt ==
  view # NoView =>
    \A e \in {c.epoch : c \in Contracts} :
      ReferenceDigest(e) =
        Seal([view.contract EXCEPT !.epoch = e], view.count, view.metadata, artifact.body).digest
\* What laplace_perfcache_write made and nobody changed is accepted under its contract.
WrittenIsAccepted ==
  artifact # NoArtifact /\ changes = 0 => ValidateStatus(artifact, artifact.h.contract) = "ok"

\* perfcache.c: sizes are exact or refused, what is written is accepted, what is accepted
\* is bit for bit what writing its content makes, and a lookup on it is exact.
LayoutIsCanonical ==
  /\ MeasureIsExact /\ WrittenIsAccepted /\ AcceptedIsCanonical
  /\ LookupIsExact /\ ReferenceDigestIsRebuilt
=============================================================================
