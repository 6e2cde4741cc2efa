------------------------ MODULE PerfcacheControlProofs ------------------------
(***************************************************************************)
(* Proofs about the PostgreSQL control plane, for every number of          *)
(* backends, epochs, nested pins, exits, crashes and recreations.          *)
(*                                                                         *)
(* The invariant ControlInv has two halves.  Ledger relates the catalog    *)
(* row, its uncommitted update, the pending admission of each backend, the *)
(* outcome of its transaction and the reservation: what is in the segment  *)
(* is what some backend compared and may commit.  Table relates the slots  *)
(* and the owner slots: the readers of a slot are the pins on it, so that  *)
(* collecting drained slots cannot take a pinned one.  Handoff joins the   *)
(* two: the active slot was committed, and a reservation follows it.       *)
(***************************************************************************)
EXTENDS PerfcacheControl, FiniteSetTheorems, WellFoundedInduction, TLAPS

(* Shapes, as TypeOK has them.                                             *)

Slot == [state : {"unused", "prepared", "active", "retired"},
         epoch : Epoch0, seq : 0..MaxSerial, readers : Nat]

Owner == [slot : Slots \cup {NoSlot}, epoch : Epoch0, depth : 0..MaxDepth]

Resv == [state : {"none", "prepared", "committing"},
         serial : 0..MaxSerial, owner : Backends \cup {NoEpoch},
         epoch : Epoch0, seq : 0..MaxSerial,
         cand : Slots \cup {NoSlot}, wasNew : BOOLEAN]

Pending == [serial : 0..MaxSerial, expected : Row,
            epoch : Epoch0, cand : Slots \cup {NoSlot}]

-----------------------------------------------------------------------------
(* The ledger.                                                             *)

\* A pending admission has a serial of its own that was given out, a slot, and
\* an expectation its manifest was built on.
Admitted ==
  \A b \in Backends : pending[b] # NoPending =>
    /\ pending[b].serial \in 1..(nextSerial - 1)
    /\ pending[b].epoch \in Epochs
    /\ pending[b].cand \in Slots
    /\ pending[b].expected.seq < MaxSerial
    /\ pending[b].expected.epoch \in {NoEpoch, Context[pending[b].epoch]}
    /\ \A c \in Backends :
         pending[c] # NoPending /\ pending[c].serial = pending[b].serial
           => c = b

\* The row an admission writes.
NewRow(p) == [seq |-> p.expected.seq + 1, epoch |-> p.epoch]

\* One transaction at a time holds an update of the row: of the row its
\* admission expected, to the row it announced.
Updated ==
  \A b \in Backends : dirty[b] # NoRow =>
    /\ pending[b] # NoPending
    /\ catalog = pending[b].expected
    /\ dirty[b] = NewRow(pending[b])
    /\ \A c \in Backends : dirty[c] # NoRow => c = b

\* What a backend has pending and updated at each point of its transaction.
Placed ==
  \A b \in Backends :
    /\ pc[b] = "down" => pending[b] = NoPending /\ dirty[b] = NoRow
    /\ pc[b] \in {"persist", "committed", "aborted"} =>
         pending[b] # NoPending /\ dirty[b] = NoRow
    /\ pc[b] \in {"precommit", "committing"} => dirty[b] # NoRow
    /\ pc[b] = "committed" => NewRow(pending[b]) \in committed

\* Snapshots show rows that were committed; serials not given out are open.
Historic ==
  /\ NoRow \in committed /\ catalog \in committed
  /\ \A b \in Backends : snap[b] \in committed
  /\ \A s \in Serials : s >= nextSerial => clog[s] = "open"

\* The reservation agrees with the pending record it belongs to; once its
\* transaction committed so was the row it announces; a PREPARED one always
\* has its backend.
Reserved ==
  /\ resv.state = "none" => resv = NoResv
  /\ resv.state # "none" =>
       /\ resv.serial \in 1..(nextSerial - 1)
       /\ resv.owner \in Backends
       /\ resv.cand \in Slots /\ resv.epoch \in Epochs
       /\ clog[resv.serial] = "committed" =>
            [seq |-> resv.seq, epoch |-> resv.epoch] \in committed
       /\ \A b \in Backends :
            pending[b] # NoPending /\ pending[b].serial = resv.serial =>
              /\ resv.owner = b
              /\ resv.epoch = pending[b].epoch
              /\ resv.cand = pending[b].cand
              /\ resv.seq = pending[b].expected.seq + 1
              /\ pc[b] \in {"committing", "committed"} =>
                   resv.state = "committing"
  /\ resv.state = "prepared" =>
       /\ pending[resv.owner] # NoPending
       /\ pending[resv.owner].serial = resv.serial

Ledger == Admitted /\ Updated /\ Placed /\ Historic /\ Reserved

-----------------------------------------------------------------------------
(* The slot table.                                                         *)

\* Slots g with active slot a.
SlotsOK(g, a) ==
  /\ g \in [Slots -> Slot]
  /\ \A i \in Slots : g[i].state = "active" <=> i = a
  /\ \A i \in Slots : g[i].state = "unused" => g[i] = Unused
  /\ \A i \in Slots : g[i].state # "unused" => g[i].epoch \in Epochs
  /\ \A i, j \in Slots :
       g[i].state # "unused" /\ g[i].epoch = g[j].epoch => i = j

\* Slots g are read by owner slots o: readers are pins, and what is pinned is
\* the generation that was pinned.
PinsOK(g, o) ==
  /\ \A i \in Slots : g[i].readers = Cardinality(Pins(o, Backends, i))
  /\ \A b \in Backends : o[b].depth # 0 =>
       /\ o[b].slot \in Slots
       /\ g[o[b].slot].state \in {"active", "retired"}
       /\ g[o[b].slot].epoch = o[b].epoch

\* A retired slot nobody reads is collected in the step that drains it.
DrainedGone(g) == \A i \in Slots : g[i].state = "retired" => g[i].readers # 0

\* A process that is gone has no pin; one about to map what it pinned has.
OwnersPlaced ==
  \A b \in Backends :
    /\ pc[b] = "down" => owner[b] = NoPin
    /\ pc[b] = "native" => owner[b].depth # 0

Table ==
  /\ active \in Slots \cup {NoSlot} /\ owner \in [Backends -> Owner]
  /\ SlotsOK(slots, active) /\ PinsOK(slots, owner) /\ DrainedGone(slots)
  /\ OwnersPlaced

Handoff == PublishedWasCommitted /\ ReservedOverExpected

\* The types of everything but the table.
PrivateTypes ==
  /\ resv \in Resv /\ nextSerial \in 1..(MaxSerial + 1)
  /\ catalog \in Row /\ committed \subseteq Row
  /\ clog \in [Serials -> {"open", "committed", "aborted"}]
  /\ pc \in [Backends -> PCs]
  /\ snap \in [Backends -> Row]
  /\ synced \in [Backends -> BOOLEAN]
  /\ obs \in [Backends -> 0..MaxSerial]
  /\ pending \in [Backends -> Pending]
  /\ dirty \in [Backends -> Row]
  /\ nativeActive \in [Backends -> Epoch0]
  /\ mapped \in [Backends -> SUBSET Epochs]
  /\ exits \in 0..MaxExits /\ crashes \in 0..MaxCrashes
  /\ recreates \in 0..MaxRecreates

ControlInv == PrivateTypes /\ Ledger /\ Table /\ Handoff

-----------------------------------------------------------------------------
(* The operators on the slot table.                                        *)

\* A set of slots has a lowest one: the order of the naturals is well founded.
LEMMA MinIsMember ==
  ASSUME NEW S, S \subseteq Nat, S # {}
  PROVE  Min(S) \in S
<1> DEFINE Less == OpToRel(<, Nat)
<1>1. IsWellFoundedOn(Less, Nat)
  BY NatLessThanWellFounded
<1>2. \A x, y \in Nat : x < y => <<x, y>> \in Less
  BY DEF OpToRel
<1> HIDE DEF Less
<1>3. PICK x \in S : \A y \in S : <<y, x>> \notin Less
  BY <1>1, WFMin
<1>4. \A y \in S : x <= y
  <2> TAKE y \in S
  <2>1. x \in Nat /\ y \in Nat
    OBVIOUS
  <2>2. ~(y < x)
    BY <2>1, <1>2, <1>3
  <2> QED
    BY <2>1, <2>2
<1> QED
  BY <1>4 DEF Min

\* Slots are numbered from one.
LEMMA SlotsAreNat == Slots \subseteq Nat /\ NoSlot \notin Slots
<1>1. Cardinality(Backends) \in Nat
  BY BackendsAssumption, FS_CardinalityType
<1> QED
  BY <1>1 DEF Slots, NoSlot

\* find_generation_locked
LEMMA FindGenerationFinds ==
  ASSUME NEW g, NEW e
  PROVE  LET f == FindGeneration(g, e)
         IN  \/ /\ f = NoSlot
                /\ \A i \in Slots : g[i].state = "unused" \/ g[i].epoch # e
             \/ f \in Slots /\ g[f].state # "unused" /\ g[f].epoch = e
<1> DEFINE found == {i \in Slots : g[i].state # "unused" /\ g[i].epoch = e}
<1>1. found \subseteq Nat
  BY SlotsAreNat
<1>2. CASE found = {}
  <2>1. FindGeneration(g, e) = NoSlot
    BY <1>2 DEF FindGeneration
  <2>2. \A i \in Slots : g[i].state = "unused" \/ g[i].epoch # e
    BY <1>2
  <2> QED
    BY <2>1, <2>2
<1>3. CASE found # {}
  <2>1. FindGeneration(g, e) = Min(found)
    BY <1>3 DEF FindGeneration
  <2> HIDE DEF found
  <2>2. Min(found) \in found
    BY <1>1, <1>3, MinIsMember
  <2> QED
    BY <2>1, <2>2 DEF found
<1> QED
  BY <1>2, <1>3

\* allocate_generation_locked
LEMMA AllocateGenerationFinds ==
  ASSUME NEW g
  PROVE  LET f == AllocateGeneration(g)
         IN  f = NoSlot \/ (f \in Slots /\ g[f].state = "unused")
<1> DEFINE free == {i \in Slots : g[i].state = "unused"}
<1>1. free \subseteq Nat
  BY SlotsAreNat
<1>2. CASE free = {}
  BY <1>2 DEF AllocateGeneration
<1>3. CASE free # {}
  <2>1. AllocateGeneration(g) = Min(free)
    BY <1>3 DEF AllocateGeneration
  <2> HIDE DEF free
  <2>2. Min(free) \in free
    BY <1>1, <1>3, MinIsMember
  <2> QED
    BY <2>1, <2>2 DEF free
<1> QED
  BY <1>2, <1>3

\* The slot for epoch e: the one that holds it, else a free one.
LEMMA SlotForEpoch ==
  ASSUME NEW g, NEW e, NEW f, NEW i, f = FindGeneration(g, e),
         i = IF f # NoSlot THEN f ELSE AllocateGeneration(g), i # NoSlot
  PROVE  /\ i \in Slots
         /\ f # NoSlot => g[i].state # "unused" /\ g[i].epoch = e
         /\ f = NoSlot => /\ g[i].state = "unused"
                          /\ \A k \in Slots : g[k].state = "unused"
                                                \/ g[k].epoch # e
<1>1. CASE f # NoSlot
  BY <1>1, FindGenerationFinds
<1>2. CASE f = NoSlot
  <2>0. \/ \A k \in Slots : g[k].state = "unused" \/ g[k].epoch # e
        \/ f \in Slots
    BY FindGenerationFinds
  <2>1. \A k \in Slots : g[k].state = "unused" \/ g[k].epoch # e
    BY <1>2, <2>0, SlotsAreNat
  <2>2. i \in Slots /\ g[i].state = "unused"
    BY <1>2, AllocateGenerationFinds
  <2> QED
    BY <1>2, <2>1, <2>2
<1> QED
  BY <1>1, <1>2

\* Pins can be counted.
LEMMA PinsAreFinite ==
  ASSUME NEW o, NEW B \in SUBSET Backends, NEW i
  PROVE  IsFiniteSet(Pins(o, B, i)) /\ Cardinality(Pins(o, B, i)) \in Nat
<1>1. IsFiniteSet(B)
  BY BackendsAssumption, FS_Subset
<1>2. IsFiniteSet(1..MaxDepth)
  BY BoundsAssumption, FS_Interval
<1>3. IsFiniteSet(B \X (1..MaxDepth))
  BY <1>1, <1>2, FS_Product
<1>4. Pins(o, B, i) \in SUBSET (B \X (1..MaxDepth))
  BY DEF Pins
<1> QED
  BY <1>3, <1>4, FS_Subset, FS_CardinalityType

\* A slot that some backend has pinned has readers.
LEMMA PinnedHasReaders ==
  ASSUME NEW o \in [Backends -> Owner], NEW b \in Backends, o[b].depth # 0
  PROVE  Cardinality(Pins(o, Backends, o[b].slot)) # 0
<1>1. <<b, 1>> \in Pins(o, Backends, o[b].slot)
  BY BoundsAssumption DEF Pins, Owner
<1>2. IsFiniteSet(Pins(o, Backends, o[b].slot))
  BY PinsAreFinite
<1> QED
  BY <1>1, <1>2, FS_EmptySet

\* A slot nobody has pinned has none.
LEMMA UnpinnedHasNone ==
  ASSUME NEW o \in [Backends -> Owner], NEW i,
         \A b \in Backends : o[b].slot = i => o[b].depth = 0
  PROVE  Cardinality(Pins(o, Backends, i)) = 0
<1>1. Pins(o, Backends, i) = {}
  BY DEF Pins, Owner
<1> QED
  BY <1>1, FS_EmptySet

\* clear_owner_locked gives back exactly the pins of the backend.
LEMMA ClearingCounts ==
  ASSUME NEW o \in [Backends -> Owner], NEW b \in Backends, NEW i \in Slots
  PROVE  LET held  == Cardinality(Pins(o, {b}, i))
             count == Cardinality(Pins(o, Backends, i))
         IN  /\ held \in Nat /\ count \in Nat /\ held <= count
             /\ Cardinality(Pins([o EXCEPT ![b] = NoPin], Backends, i))
                  = count - held
<1> DEFINE all   == Pins(o, Backends, i)
           own   == Pins(o, {b}, i)
           after == Pins([o EXCEPT ![b] = NoPin], Backends, i)
<1>1. own \in SUBSET all /\ all \cap own = own
  BY DEF Pins
<1>2. after = all \ own
  BY SlotsAreNat DEF Pins, NoPin, NoSlot
<1>3. IsFiniteSet(all) /\ Cardinality(all) \in Nat
  BY PinsAreFinite
<1>4. {b} \in SUBSET Backends
  OBVIOUS
<1>5. IsFiniteSet(own) /\ Cardinality(own) \in Nat
  BY <1>4, PinsAreFinite
<1> HIDE DEF all, own, after
<1>6. Cardinality(own) <= Cardinality(all)
  BY <1>1, <1>3, FS_Subset
<1>7. Cardinality(all \ own) = Cardinality(all) - Cardinality(own)
  BY <1>1, <1>3, FS_Difference
<1> QED
  BY <1>2, <1>3, <1>5, <1>6, <1>7 DEF all, own, after

\* Owner slots p hold one pin more than o: backend b's, on slot i.
LEMMA PinningCounts ==
  ASSUME NEW o \in [Backends -> Owner], NEW p \in [Backends -> Owner],
         NEW b \in Backends, NEW k \in Slots,
         \A c \in Backends : c # b => p[c] = o[c],
         p[b].depth = o[b].depth + 1,
         o[b].depth = 0 \/ o[b].slot = p[b].slot
  PROVE  Cardinality(Pins(p, Backends, k)) =
           IF k = p[b].slot THEN Cardinality(Pins(o, Backends, k)) + 1
                            ELSE Cardinality(Pins(o, Backends, k))
<1> DEFINE i == p[b].slot
<1>1. /\ o[b].depth \in 0..MaxDepth /\ p[b].depth \in 0..MaxDepth
      /\ MaxDepth \in Nat
  BY BoundsAssumption DEF Owner
<1>2. \A c \in Backends : c # b => p[c] = o[c]
  OBVIOUS
<1>3. p[b].slot = i /\ p[b].depth = o[b].depth + 1
  OBVIOUS
<1> HIDE DEF i
<1>4. CASE k # i
  <2>1. Pins(p, Backends, k) = Pins(o, Backends, k)
    BY <1>1, <1>2, <1>3, <1>4 DEF Pins
  <2> QED
    BY <1>4, <2>1 DEF i
<1>5. CASE k = i
  <2>1. <<b, o[b].depth + 1>> \notin Pins(o, Backends, i)
    BY <1>1 DEF Pins
  <2>2. Pins(p, Backends, i) = Pins(o, Backends, i) \cup {<<b, o[b].depth + 1>>}
    <3>1. ASSUME NEW c \in Backends, NEW d \in 1..MaxDepth
          PROVE  /\ <<c, d>> \in Pins(p, Backends, i)
                      <=> p[c].slot = i /\ d <= p[c].depth
                 /\ <<c, d>> \in Pins(o, Backends, i)
                      <=> o[c].slot = i /\ d <= o[c].depth
      BY DEF Pins
    <3>2. Pins(p, Backends, i) \subseteq Backends \X (1..MaxDepth)
           /\ Pins(o, Backends, i) \subseteq Backends \X (1..MaxDepth)
      BY DEF Pins
    <3>3. ASSUME NEW c \in Backends, NEW d \in 1..MaxDepth
          PROVE  <<c, d>> \in Pins(p, Backends, i)
                   <=> <<c, d>> \in Pins(o, Backends, i)
                         \/ (c = b /\ d = o[b].depth + 1)
      <4>1. CASE c # b
        BY <3>1, <1>2, <4>1
      <4>2. CASE c = b
        BY <3>1, <1>1, <1>3, <4>2
      <4> QED
        BY <4>1, <4>2
    <3>4. o[b].depth + 1 \in 1..MaxDepth
      BY <1>1
    <3> QED
      BY <3>2, <3>3, <3>4
  <2>3. IsFiniteSet(Pins(o, Backends, i))
    BY PinsAreFinite
  <2>4. Cardinality(Pins(p, Backends, i)) = Cardinality(Pins(o, Backends, i)) + 1
    BY <2>1, <2>2, <2>3, FS_AddElement
  <2> QED
    BY <1>5, <2>4 DEF i
<1> QED
  BY <1>4, <1>5

\* collect_retired_locked: a pinned generation is kept, a drained one is not.
LEMMA CollectKeeps ==
  ASSUME NEW g, NEW a, SlotsOK(g, a)
  PROVE  /\ SlotsOK(CollectRetired(g), a)
         /\ DrainedGone(CollectRetired(g))
         /\ \A i \in Slots : g[i].state # "retired" => CollectRetired(g)[i] = g[i]
         /\ \A i \in Slots : g[i].readers # 0 => CollectRetired(g)[i] = g[i]
<1> DEFINE h == CollectRetired(g)
<1>1. \A i \in Slots : h[i] = IF g[i].state = "retired" /\ g[i].readers = 0
                              THEN Unused ELSE g[i]
  BY DEF CollectRetired
<1>2. DOMAIN h = Slots /\ h = [i \in Slots |-> h[i]]
  BY DEF CollectRetired
<1>3. Unused \in Slot /\ Unused.state = "unused" /\ Unused.epoch \notin Epochs
       /\ Unused.readers = 0
  BY EpochAssumption, BoundsAssumption DEF Unused, Slot, Epoch0
<1> HIDE DEF h
<1>4. h \in [Slots -> Slot]
  BY <1>1, <1>2, <1>3 DEF SlotsOK
<1>5. \A i \in Slots : h[i].state = "active" <=> i = a
  BY <1>1, <1>3 DEF SlotsOK
<1>6. \A i \in Slots : h[i].state = "unused" => h[i] = Unused
  BY <1>1 DEF SlotsOK
<1>7. \A i \in Slots : h[i].state # "unused" => h[i].epoch \in Epochs
  BY <1>1, <1>3 DEF SlotsOK
<1>8. \A i, j \in Slots :
        h[i].state # "unused" /\ h[i].epoch = h[j].epoch => i = j
  <2> SUFFICES ASSUME NEW i \in Slots, NEW j \in Slots,
                      h[i].state # "unused", h[i].epoch = h[j].epoch
               PROVE  i = j
    OBVIOUS
  <2>1. h[i] = g[i] /\ h[i].epoch \in Epochs
    BY <1>1, <1>3, <1>7
  <2>2. h[j] = g[j]
    BY <1>1, <1>3, <2>1
  <2> QED
    BY <2>1, <2>2 DEF SlotsOK
<1>9. DrainedGone(h)
  BY <1>1, <1>3 DEF DrainedGone
<1> QED
  BY <1>1, <1>4, <1>5, <1>6, <1>7, <1>8, <1>9 DEF h, SlotsOK

\* A slot table that keeps the slots with readers keeps the pins.
LEMMA PinsKept ==
  ASSUME NEW g, NEW h, NEW o \in [Backends -> Owner], PinsOK(g, o),
         \A i \in Slots : h[i].readers = g[i].readers,
         \A i \in Slots : g[i].readers # 0 /\ g[i].state \in {"active", "retired"} =>
            h[i].epoch = g[i].epoch /\ h[i].state \in {"active", "retired"}
  PROVE  PinsOK(h, o)
<1>1. \A i \in Slots : h[i].readers = Cardinality(Pins(o, Backends, i))
  BY DEF PinsOK
<1>2. ASSUME NEW b \in Backends, o[b].depth # 0
      PROVE  /\ o[b].slot \in Slots
             /\ h[o[b].slot].state \in {"active", "retired"}
             /\ h[o[b].slot].epoch = o[b].epoch
  <2>1. o[b].slot \in Slots /\ g[o[b].slot].state \in {"active", "retired"}
          /\ g[o[b].slot].epoch = o[b].epoch
    BY <1>2 DEF PinsOK
  <2>2. g[o[b].slot].readers # 0
    BY <1>2, <2>1, PinnedHasReaders DEF PinsOK
  <2> QED
    BY <2>1, <2>2
<1> QED
  BY <1>1, <1>2 DEF PinsOK

\* collect_retired_locked keeps the pins.
LEMMA CollectKeepsPins ==
  ASSUME NEW g, NEW o \in [Backends -> Owner], PinsOK(g, o)
  PROVE  PinsOK(CollectRetired(g), o)
<1>1. \A i \in Slots : CollectRetired(g)[i] =
         IF g[i].state = "retired" /\ g[i].readers = 0 THEN Unused ELSE g[i]
  BY DEF CollectRetired
<1>2. Unused.readers = 0
  BY DEF Unused
<1> QED
  BY <1>1, <1>2, PinsKept

\* A slot that is not in use or only prepared has no pins.
LEMMA NoPinsOn ==
  ASSUME NEW g, NEW o \in [Backends -> Owner], PinsOK(g, o), NEW i \in Slots,
         g[i].state \in {"unused", "prepared"}
  PROVE  g[i].readers = 0
<1>1. \A b \in Backends : o[b].slot = i => o[b].depth = 0
  BY DEF PinsOK
<1> QED
  BY <1>1, UnpinnedHasNone DEF PinsOK

\* discard_reserved_candidate_locked
LEMMA DiscardKeeps ==
  ASSUME NEW g, NEW a, NEW o \in [Backends -> Owner], NEW r,
         r.cand \in Slots, r.wasNew \in BOOLEAN,
         SlotsOK(g, a), PinsOK(g, o), DrainedGone(g)
  PROVE  LET h == DiscardCandidate(g, r)
         IN  /\ SlotsOK(h, a) /\ PinsOK(h, o) /\ DrainedGone(h)
             /\ \A i \in Slots : g[i].state # "prepared" => h[i] = g[i]
<1> DEFINE h == DiscardCandidate(g, r)
<1>1. CASE h = g
  BY <1>1
<1>2. CASE /\ g[r.cand].state = "prepared"
           /\ h = [g EXCEPT ![r.cand] = Unused]
  <2>1. \A i \in Slots : h[i] = IF i = r.cand THEN Unused ELSE g[i]
    BY <1>2 DEF SlotsOK
  <2>2. Unused \in Slot /\ Unused.state = "unused" /\ Unused.epoch \notin Epochs
         /\ Unused.readers = 0
    BY EpochAssumption, BoundsAssumption DEF Unused, Slot, Epoch0
  <2>3. h \in [Slots -> Slot]
    BY <1>2, <2>2 DEF SlotsOK
  <2>4. g[r.cand].readers = 0
    BY <1>2, NoPinsOn
  <2> HIDE DEF h
  <2>5. \A i, j \in Slots :
          h[i].state # "unused" /\ h[i].epoch = h[j].epoch => i = j
    BY <2>1, <2>2 DEF SlotsOK
  <2>6. /\ \A i \in Slots : h[i].state = "active" <=> i = a
        /\ \A i \in Slots : h[i].state = "unused" => h[i] = Unused
        /\ \A i \in Slots : h[i].state # "unused" => h[i].epoch \in Epochs
    BY <1>2, <2>1, <2>2 DEF SlotsOK
  <2>7. SlotsOK(h, a)
    BY <2>3, <2>5, <2>6 DEF SlotsOK
  <2>8. PinsOK(h, o)
    <3>1. \A i \in Slots : h[i].readers = g[i].readers
      BY <2>1, <2>2, <2>4
    <3>2. \A i \in Slots : g[i].state \in {"active", "retired"} => h[i] = g[i]
      BY <1>2, <2>1
    <3> QED
      BY <3>1, <3>2, PinsKept
  <2>9. DrainedGone(h)
    BY <2>1, <2>2 DEF DrainedGone
  <2> QED
    BY <1>2, <2>1, <2>7, <2>8, <2>9 DEF h
<1> QED
  BY <1>1, <1>2 DEF DiscardCandidate

\* install_active_locked, on a slot that holds epoch e or is given to it.
LEMMA InstallKeeps ==
  ASSUME NEW h, NEW g \in [Slots -> Slot], NEW i \in Slots, NEW e \in Epochs,
         NEW s \in 0..MaxSerial,
         \A k \in Slots : k # i => g[k] = h[k],
         g[i].epoch = e, g[i].readers = h[i].readers,
         owner \in [Backends -> Owner],
         SlotsOK(h, active), PinsOK(h, owner),
         \/ h[i].state # "unused" /\ h[i].epoch = e
         \/ /\ h[i].state = "unused"
            /\ \A k \in Slots : h[k].state = "unused" \/ h[k].epoch # e
  PROVE  LET n == InstallActive(g, i, s)
         IN  /\ SlotsOK(n, i) /\ PinsOK(n, owner) /\ DrainedGone(n)
             /\ n[i].seq = s /\ n[i].epoch = e
<1> DEFINE m == [k \in Slots |->
                   CASE k = i      -> [g[k] EXCEPT !.seq = s, !.state = "active"]
                     [] k = active /\ k # i -> [g[k] EXCEPT !.state = "retired"]
                     [] OTHER      -> g[k]]
<1>1. InstallActive(g, i, s) = CollectRetired(m)
  BY DEF InstallActive
<1>2. h \in [Slots -> Slot]
  BY DEF SlotsOK
<1>3. \A k \in Slots : k # i => g[k] = h[k]
  OBVIOUS
<1>4. g[i] \in Slot /\ g[i].epoch = e /\ g[i].readers = h[i].readers
  OBVIOUS
<1>5. m[i] = [g[i] EXCEPT !.seq = s, !.state = "active"]
  OBVIOUS
<1>6. \A k \in Slots : k # i => m[k] =
         IF k = active THEN [h[k] EXCEPT !.state = "retired"] ELSE h[k]
  BY <1>3
<1>7. m \in [Slots -> Slot]
  <2> SUFFICES ASSUME NEW k \in Slots PROVE m[k] \in Slot
    OBVIOUS
  <2> HIDE DEF m
  <2>1. CASE k = i
    BY <2>1, <1>4, <1>5 DEF Slot
  <2>2. CASE k # i
    BY <2>2, <1>2, <1>6, ZenonT(60) DEF Slot
  <2> QED
    BY <2>1, <2>2
<1> HIDE DEF m
<1>8. /\ m[i].state = "active" /\ m[i].seq = s /\ m[i].epoch = e
      /\ m[i].readers = h[i].readers
  BY <1>2, <1>3, <1>4, <1>5 DEF Slot
<1>9. \A k \in Slots : k # i =>
        /\ m[k].epoch = h[k].epoch /\ m[k].readers = h[k].readers
        /\ k = active => m[k].state = "retired"
        /\ k # active => m[k] = h[k]
  <2> SUFFICES ASSUME NEW k \in Slots, k # i
               PROVE  /\ m[k].epoch = h[k].epoch /\ m[k].readers = h[k].readers
                      /\ k = active => m[k].state = "retired"
                      /\ k # active => m[k] = h[k]
    OBVIOUS
  <2>1. h[k] \in Slot
    BY <1>2
  <2>2. CASE k = active
    BY <1>6, <2>1, <2>2 DEF Slot
  <2>3. CASE k # active
    BY <1>6, <2>3
  <2> QED
    BY <2>2, <2>3
<1>10. \A k \in Slots : k = active <=> h[k].state = "active"
  BY DEF SlotsOK
<1>11. SlotsOK(m, i)
  <2>1. \A k \in Slots : m[k].state = "active" <=> k = i
    BY <1>8, <1>9, <1>10
  <2>2. \A k \in Slots : m[k].state = "unused" => m[k] = Unused
    BY <1>8, <1>9 DEF SlotsOK
  <2>3. \A k \in Slots : m[k].state # "unused" => m[k].epoch \in Epochs
    BY <1>8, <1>9, <1>10 DEF SlotsOK
  <2>4. \A k \in Slots : k # i => h[k].epoch # e
    BY EpochAssumption DEF SlotsOK, Unused
  <2>5. ASSUME NEW j \in Slots, NEW k \in Slots,
               m[j].state # "unused", m[j].epoch = m[k].epoch
        PROVE  j = k
    <3>1. CASE j = i \/ k = i
      BY <2>4, <2>5, <3>1, <1>8, <1>9
    <3>2. CASE j # i /\ k # i
      <4>1. h[j].state # "unused"
        BY <2>5, <3>2, <1>9, <1>10
      <4> QED
        BY <2>5, <3>2, <4>1, <1>9 DEF SlotsOK
    <3> QED
      BY <3>1, <3>2
  <2> QED
    BY <1>7, <2>1, <2>2, <2>3, <2>5 DEF SlotsOK
<1>12. PinsOK(m, owner)
  <2>1. \A k \in Slots : m[k].readers = h[k].readers
    BY <1>8, <1>9
  <2>2. \A k \in Slots : h[k].state \in {"active", "retired"} =>
          m[k].epoch = h[k].epoch /\ m[k].state \in {"active", "retired"}
    BY <1>8, <1>9, <1>10
  <2> QED
    BY <2>1, <2>2, PinsKept
<1>13. CollectRetired(m)[i] = m[i]
  BY <1>8, <1>11, CollectKeeps
<1> QED
  BY <1>1, <1>8, <1>11, <1>12, <1>13, CollectKeeps, CollectKeepsPins

\* install_active_locked on a slot that holds the epoch already.
LEMMA InstallHeldKeeps ==
  ASSUME NEW i \in Slots, NEW e \in Epochs, NEW s \in 0..MaxSerial,
         owner \in [Backends -> Owner],
         SlotsOK(slots, active), PinsOK(slots, owner),
         slots[i].epoch = e
  PROVE  LET n == InstallActive(slots, i, s)
         IN  /\ SlotsOK(n, i) /\ PinsOK(n, owner) /\ DrainedGone(n)
             /\ n[i].seq = s /\ n[i].epoch = e
<1>1. slots[i].state # "unused"
  BY EpochAssumption DEF SlotsOK, Unused
<1>2. slots \in [Slots -> Slot]
  BY DEF SlotsOK
<1> QED
  BY <1>1, <1>2, InstallKeeps

\* install_no_active_locked
LEMMA RetireKeeps ==
  ASSUME NEW g, owner \in [Backends -> Owner],
         SlotsOK(g, active), PinsOK(g, owner)
  PROVE  LET n == RetireActive(g)
         IN  SlotsOK(n, NoSlot) /\ PinsOK(n, owner) /\ DrainedGone(n)
<1> DEFINE m == [k \in Slots |-> IF k = active
                   THEN [g[k] EXCEPT !.state = "retired"] ELSE g[k]]
<1>1. RetireActive(g) = CollectRetired(m)
  BY DEF RetireActive
<1>2. g \in [Slots -> Slot]
  BY DEF SlotsOK
<1>3. m \in [Slots -> Slot]
  BY <1>2 DEF Slot
<1>4. \A k \in Slots :
        /\ m[k].epoch = g[k].epoch /\ m[k].readers = g[k].readers
        /\ k = active => m[k].state = "retired"
        /\ k # active => m[k] = g[k]
  BY <1>2 DEF Slot
<1> HIDE DEF m
<1>5. \A k \in Slots : k = active <=> g[k].state = "active"
  BY DEF SlotsOK
<1>6. SlotsOK(m, NoSlot)
  <2>1. \A k \in Slots : m[k].state # "active" /\ k # NoSlot
    BY <1>4, <1>5, SlotsAreNat
  <2>2. \A k \in Slots : m[k].state = "unused" => m[k] = Unused
    BY <1>4 DEF SlotsOK
  <2>3. \A k \in Slots : m[k].state # "unused" => m[k].epoch \in Epochs
    BY <1>4, <1>5 DEF SlotsOK
  <2>4. \A j, k \in Slots :
          m[j].state # "unused" /\ m[j].epoch = m[k].epoch => j = k
    BY <1>4, <1>5 DEF SlotsOK
  <2> QED
    BY <1>3, <2>1, <2>2, <2>3, <2>4 DEF SlotsOK
<1>7. PinsOK(m, owner)
  <2>1. \A k \in Slots : g[k].state \in {"active", "retired"} =>
          m[k].epoch = g[k].epoch /\ m[k].state \in {"active", "retired"}
    BY <1>4, <1>5
  <2> QED
    BY <1>4, <2>1, PinsKept
<1> QED
  BY <1>1, <1>6, <1>7, CollectKeeps, CollectKeepsPins

\* A table that differs in its reader counts only.
LEMMA RecountKeeps ==
  ASSUME NEW g, NEW a, SlotsOK(g, a), NEW h \in [Slots -> Slot],
         \A i \in Slots : /\ h[i].state = g[i].state /\ h[i].epoch = g[i].epoch
                          /\ h[i].state = "unused" => h[i] = g[i]
  PROVE  SlotsOK(h, a)
BY DEF SlotsOK

\* clear_owner_locked for a backend that exits.
LEMMA ClearKeeps ==
  ASSUME NEW b \in Backends, owner \in [Backends -> Owner],
         SlotsOK(slots, active), PinsOK(slots, owner)
  PROVE  LET g == DropReaders(slots, {b})
             o == [owner EXCEPT ![b] = NoPin]
         IN  /\ SlotsOK(g, active) /\ PinsOK(g, o) /\ o \in [Backends -> Owner]
             /\ \A i \in Slots : g[i].seq = slots[i].seq /\ g[i].epoch = slots[i].epoch
<1> DEFINE g == DropReaders(slots, {b})
           o == [owner EXCEPT ![b] = NoPin]
           held(i) == Cardinality(Pins(owner, {b}, i))
<1>1. slots \in [Slots -> Slot]
  BY DEF SlotsOK
<1>2. ASSUME NEW i \in Slots
      PROVE  /\ held(i) \in Nat /\ held(i) <= slots[i].readers
             /\ Cardinality(Pins(o, Backends, i)) = slots[i].readers - held(i)
  BY ClearingCounts DEF PinsOK
<1>3. \A i \in Slots : g[i] = [slots[i] EXCEPT !.readers = slots[i].readers - held(i)]
  <2> SUFFICES ASSUME NEW i \in Slots
               PROVE  g[i] = [slots[i] EXCEPT !.readers = slots[i].readers - held(i)]
    OBVIOUS
  <2>1. slots[i].readers >= held(i)
    BY <1>1, <1>2 DEF Slot
  <2> QED
    BY <2>1 DEF DropReaders
<1>4. g = [i \in Slots |-> g[i]]
  BY DEF DropReaders
<1>5. NoPin \in Owner /\ NoPin.depth = 0
  BY BoundsAssumption DEF NoPin, Owner, Epoch0
<1>6. o \in [Backends -> Owner] /\ o[b].depth = 0
       /\ \A c \in Backends : c # b => o[c] = owner[c]
  BY <1>5
<1> HIDE DEF g, o, held
<1>7. \A i \in Slots :
        /\ g[i] \in Slot /\ g[i].state = slots[i].state
        /\ g[i].epoch = slots[i].epoch /\ g[i].seq = slots[i].seq
        /\ g[i].readers = slots[i].readers - held(i)
  <2> SUFFICES ASSUME NEW i \in Slots
               PROVE  /\ g[i] \in Slot /\ g[i].state = slots[i].state
                      /\ g[i].epoch = slots[i].epoch /\ g[i].seq = slots[i].seq
                      /\ g[i].readers = slots[i].readers - held(i)
    OBVIOUS
  <2>1. slots[i] \in Slot /\ slots[i].readers - held(i) \in Nat
    BY <1>1, <1>2 DEF Slot
  <2>2. g[i] = [slots[i] EXCEPT !.readers = slots[i].readers - held(i)]
    BY <1>3
  <2> QED
    BY <2>1, <2>2 DEF Slot
<1>8. g \in [Slots -> Slot]
  BY <1>4, <1>7
<1>9. ASSUME NEW i \in Slots, g[i].state = "unused"
      PROVE  g[i] = slots[i]
  <2>1. slots[i].readers = 0
    BY <1>7, <1>9, NoPinsOn
  <2>2. g[i].readers = slots[i].readers
    BY <1>2, <1>7, <2>1
  <2> QED
    BY <1>1, <1>7, <1>8, <2>2 DEF Slot
<1>10. SlotsOK(g, active)
  BY <1>7, <1>8, <1>9, RecountKeeps
<1>11. PinsOK(g, o)
  <2>1. \A i \in Slots : g[i].readers = Cardinality(Pins(o, Backends, i))
    BY <1>2, <1>7
  <2>2. ASSUME NEW c \in Backends, o[c].depth # 0
        PROVE  /\ o[c].slot \in Slots
               /\ g[o[c].slot].state \in {"active", "retired"}
               /\ g[o[c].slot].epoch = o[c].epoch
    BY <1>6, <1>7, <2>2 DEF PinsOK
  <2> QED
    BY <2>1, <2>2 DEF PinsOK
<1> QED
  BY <1>6, <1>7, <1>10, <1>11 DEF g, o

\* release_pin_internal
LEMMA UnpinKeeps ==
  ASSUME NEW b \in Backends, owner \in [Backends -> Owner],
         SlotsOK(slots, active), PinsOK(slots, owner),
         owner[b].depth # 0, Unpin(b)
  PROVE  /\ owner' \in [Backends -> Owner]
         /\ \A c \in Backends : c # b => owner'[c] = owner[c]
         /\ SlotsOK(slots', active) /\ PinsOK(slots', owner')
         /\ DrainedGone(slots')
         /\ active \in Slots => /\ slots'[active].seq = slots[active].seq
                                /\ slots'[active].epoch = slots[active].epoch
<1> DEFINE i == owner[b].slot
           g == [slots EXCEPT ![i].readers = IF @ = 0 THEN 0 ELSE @ - 1]
<1>1. slots \in [Slots -> Slot] /\ i \in Slots
  BY DEF SlotsOK, PinsOK
<1>2. slots' = CollectRetired(g)
  BY DEF Unpin
<1>3. /\ owner[b] \in Owner /\ owner[b].depth \in 1..MaxDepth /\ MaxDepth \in Nat
      /\ owner[b].depth - 1 \in 0..MaxDepth
  BY BoundsAssumption DEF Owner
<1>4. owner' = [owner EXCEPT ![b] = IF owner[b].depth = 1 THEN NoPin
                   ELSE [owner[b] EXCEPT !.depth = owner[b].depth - 1]]
  BY DEF Unpin
<1>5. /\ owner'[b] \in Owner /\ owner[b].depth = owner'[b].depth + 1
      /\ owner'[b].depth = 0 \/ owner'[b].slot = i
      /\ owner'[b].depth # 0 => owner'[b].epoch = owner[b].epoch
  <2>1. CASE owner[b].depth = 1
    <3>1. owner'[b] = NoPin
      BY <1>4, <2>1
    <3> QED
      BY <1>3, <2>1, <3>1 DEF NoPin, Owner, Epoch0
  <2>2. CASE owner[b].depth # 1
    <3>1. owner'[b] = [owner[b] EXCEPT !.depth = owner[b].depth - 1]
      BY <1>4, <2>2
    <3> QED
      BY <1>3, <2>2, <3>1 DEF Owner
  <2> QED
    BY <2>1, <2>2
<1>6. \A c \in Backends : c # b => owner'[c] = owner[c]
  BY <1>4
<1>7. owner' \in [Backends -> Owner]
  BY <1>4, <1>5, <1>6
<1>8. ASSUME NEW k \in Slots
      PROVE  /\ Cardinality(Pins(owner', Backends, k)) \in Nat
             /\ slots[k].readers = IF k = i THEN Cardinality(Pins(owner', Backends, k)) + 1
                                   ELSE Cardinality(Pins(owner', Backends, k))
  BY <1>5, <1>6, <1>7, PinningCounts, PinsAreFinite DEF PinsOK
<1>9. \A k \in Slots : g[k].readers = Cardinality(Pins(owner', Backends, k))
  <2> SUFFICES ASSUME NEW k \in Slots
               PROVE  g[k].readers = Cardinality(Pins(owner', Backends, k))
    OBVIOUS
  <2>1. CASE k = i
    BY <1>1, <1>8, <2>1 DEF Slot
  <2>2. CASE k # i
    BY <1>1, <1>8, <2>2
  <2> QED
    BY <2>1, <2>2
<1>10. \A k \in Slots : k # i => g[k] = slots[k]
  BY <1>1
<1>11. /\ g[i] \in Slot /\ g[i].state = slots[i].state
       /\ g[i].epoch = slots[i].epoch /\ g[i].seq = slots[i].seq
  BY <1>1 DEF Slot
<1>12. g \in [Slots -> Slot]
  BY <1>1, <1>11
<1>13. slots[i].state \in {"active", "retired"}
  BY DEF PinsOK
<1> HIDE DEF g
<1>14. SlotsOK(g, active)
  BY <1>10, <1>11, <1>12, <1>13, RecountKeeps
<1>15. PinsOK(g, owner')
  <2>1. ASSUME NEW c \in Backends, owner'[c].depth # 0
        PROVE  /\ owner'[c].slot \in Slots
               /\ g[owner'[c].slot].state \in {"active", "retired"}
               /\ g[owner'[c].slot].epoch = owner'[c].epoch
    <3>1. /\ owner[c].depth # 0 /\ owner'[c].slot = owner[c].slot
          /\ owner'[c].epoch = owner[c].epoch
      BY <2>1, <1>5, <1>6
    <3>2. /\ owner[c].slot \in Slots
          /\ slots[owner[c].slot].state \in {"active", "retired"}
          /\ slots[owner[c].slot].epoch = owner[c].epoch
      BY <3>1 DEF PinsOK
    <3> QED
      BY <3>1, <3>2, <1>10, <1>11
  <2> QED
    BY <1>9, <2>1 DEF PinsOK
<1>16. SlotsOK(slots', active) /\ DrainedGone(slots')
  BY <1>2, <1>14, CollectKeeps
<1>17. PinsOK(slots', owner')
  BY <1>2, <1>7, <1>15, CollectKeepsPins
<1>18. ASSUME active \in Slots
       PROVE  /\ slots'[active].seq = slots[active].seq
              /\ slots'[active].epoch = slots[active].epoch
  <2>1. g[active].state = "active"
    BY <1>14, <1>18 DEF SlotsOK
  <2>2. slots'[active] = g[active]
    BY <1>2, <1>14, <1>18, <2>1, CollectKeeps
  <2> QED
    BY <1>10, <1>11, <1>18, <2>2
<1> QED
  BY <1>6, <1>7, <1>16, <1>17, <1>18

\* What pin_generation does to slots and owners once it has reclaimed.
PinStep(b, i) ==
  /\ slots' = [slots EXCEPT ![i].readers = @ + 1]
  /\ owner' = [owner EXCEPT ![b] = [slot |-> i, epoch |-> slots[i].epoch,
                                    depth |-> @.depth + 1]]

\* pin_generation: one reader more of a generation in use.
LEMMA PinKeeps ==
  ASSUME NEW b \in Backends, NEW i \in Slots, owner \in [Backends -> Owner],
         SlotsOK(slots, active), PinsOK(slots, owner), DrainedGone(slots),
         slots[i].state \in {"active", "retired"},
         \/ owner[b].depth = 0
         \/ owner[b].slot = i /\ owner[b].epoch = slots[i].epoch,
         owner[b].depth < MaxDepth, PinStep(b, i)
  PROVE  /\ owner' \in [Backends -> Owner] /\ owner'[b].depth # 0
         /\ \A c \in Backends : c # b => owner'[c] = owner[c]
         /\ SlotsOK(slots', active) /\ PinsOK(slots', owner')
         /\ DrainedGone(slots')
         /\ \A k \in Slots : /\ slots'[k].seq = slots[k].seq
                             /\ slots'[k].epoch = slots[k].epoch
<1>1. slots \in [Slots -> Slot] /\ slots[i] \in Slot
  BY DEF SlotsOK
<1>2. \A k \in Slots : k # i => slots'[k] = slots[k]
  BY <1>1 DEF PinStep
<1>3. slots'[i] = [slots[i] EXCEPT !.readers = slots[i].readers + 1]
  BY <1>1 DEF PinStep
<1>4. /\ slots'[i] \in Slot /\ slots'[i].state = slots[i].state
      /\ slots'[i].epoch = slots[i].epoch /\ slots'[i].seq = slots[i].seq
      /\ slots'[i].readers = slots[i].readers + 1 /\ slots'[i].readers # 0
  BY <1>1, <1>3 DEF Slot
<1>5. slots' \in [Slots -> Slot]
  BY <1>1, <1>4 DEF PinStep
<1>6. owner'[b] = [slot |-> i, epoch |-> slots[i].epoch, depth |-> owner[b].depth + 1]
  BY DEF PinStep
<1>7. \A c \in Backends : c # b => owner'[c] = owner[c]
  BY DEF PinStep
<1>8. /\ owner'[b] \in Owner /\ owner'[b].depth = owner[b].depth + 1
      /\ owner'[b].depth # 0
      /\ owner[b].depth = 0 \/ owner[b].slot = owner'[b].slot
      /\ owner'[b].slot = i /\ owner'[b].epoch = slots[i].epoch
  BY <1>1, <1>6, BoundsAssumption DEF Owner, Slot
<1>9. owner' \in [Backends -> Owner]
  BY <1>7, <1>8 DEF PinStep
<1>10. ASSUME NEW k \in Slots
       PROVE  slots'[k].readers = Cardinality(Pins(owner', Backends, k))
  <2>1. Cardinality(Pins(owner', Backends, k)) =
          IF k = i THEN Cardinality(Pins(owner, Backends, k)) + 1
                   ELSE Cardinality(Pins(owner, Backends, k))
    BY <1>7, <1>8, <1>9, PinningCounts
  <2> QED
    BY <1>2, <1>4, <2>1 DEF PinsOK
<1>11. SlotsOK(slots', active)
  BY <1>2, <1>4, <1>5, RecountKeeps
<1>12. ASSUME NEW c \in Backends, owner'[c].depth # 0
       PROVE  /\ owner'[c].slot \in Slots
              /\ slots'[owner'[c].slot].state \in {"active", "retired"}
              /\ slots'[owner'[c].slot].epoch = owner'[c].epoch
  <2>1. CASE c = b
    BY <2>1, <1>4, <1>8
  <2>2. CASE c # b
    BY <2>2, <1>2, <1>4, <1>7, <1>12 DEF PinsOK
  <2> QED
    BY <2>1, <2>2
<1>13. DrainedGone(slots')
  BY <1>2, <1>4 DEF DrainedGone
<1> QED
  BY <1>2, <1>4, <1>7, <1>8, <1>9, <1>10, <1>11, <1>12, <1>13 DEF PinsOK

\* What admit_epoch_metadata does to a free slot.
PrepareStep(i, e) ==
  slots' = [slots EXCEPT ![i].epoch = e, ![i].state = "prepared"]

\* admit_epoch_metadata takes a free slot for an epoch no slot holds.
LEMMA PrepareKeeps ==
  ASSUME NEW i \in Slots, NEW e \in Epochs, owner \in [Backends -> Owner],
         SlotsOK(slots, active), PinsOK(slots, owner), DrainedGone(slots),
         slots[i].state = "unused",
         \A k \in Slots : slots[k].state = "unused" \/ slots[k].epoch # e,
         PrepareStep(i, e)
  PROVE  /\ SlotsOK(slots', active) /\ PinsOK(slots', owner)
         /\ DrainedGone(slots')
         /\ \A k \in Slots : k # i => slots'[k] = slots[k]
<1>1. slots \in [Slots -> Slot] /\ slots[i] \in Slot
  BY DEF SlotsOK
<1>2. \A k \in Slots : k # i => slots'[k] = slots[k]
  BY <1>1 DEF PrepareStep
<1>3. /\ slots'[i] \in Slot /\ slots'[i].state = "prepared"
      /\ slots'[i].epoch = e /\ slots'[i].readers = slots[i].readers
  BY <1>1 DEF Slot, Epoch0, PrepareStep
<1>4. slots' \in [Slots -> Slot]
  BY <1>1, <1>3 DEF PrepareStep
<1>5. SlotsOK(slots', active)
  <2>1. \A k \in Slots : k # i => slots[k].epoch # e
    BY EpochAssumption DEF SlotsOK, Unused
  <2>2. \A j, k \in Slots :
          slots'[j].state # "unused" /\ slots'[j].epoch = slots'[k].epoch => j = k
    BY <1>2, <1>3, <2>1 DEF SlotsOK
  <2>3. /\ \A k \in Slots : slots'[k].state = "active" <=> k = active
        /\ \A k \in Slots : slots'[k].state = "unused" => slots'[k] = Unused
        /\ \A k \in Slots : slots'[k].state # "unused" => slots'[k].epoch \in Epochs
    BY <1>2, <1>3 DEF SlotsOK
  <2> QED
    BY <1>4, <2>2, <2>3 DEF SlotsOK
<1>6. PinsOK(slots', owner)
  <2>1. \A k \in Slots : slots'[k].readers = slots[k].readers
    BY <1>2, <1>3
  <2>2. \A k \in Slots : slots[k].state \in {"active", "retired"} =>
                           slots'[k] = slots[k]
    BY <1>2
  <2> QED
    BY <2>1, <2>2, PinsKept
<1>7. DrainedGone(slots')
  BY <1>2, <1>3 DEF DrainedGone
<1> QED
  BY <1>2, <1>5, <1>6, <1>7

\* reclaim_stale_owners_locked finds nothing: a process that ends gives its
\* pins, its PREPARED reservation and the generations it drains back itself.
LEMMA ReclaimFindsNothing ==
  ASSUME Table, Placed, Reserved
  PROVE  /\ ReclaimedSlots = slots /\ ReclaimedResv = resv
         /\ ReclaimedOwner = owner
<1>1. slots \in [Slots -> Slot]
  BY DEF Table, SlotsOK
<1>2. Gone = {}
  BY DEF Gone, Table, OwnersPlaced, NoPin
<1>3. ~GoneReservation
  BY DEF GoneReservation, Placed, Reserved
<1>4. DropReaders(slots, {}) = slots
  <2>1. \A i \in Slots : Cardinality(Pins(owner, {}, i)) = 0
    <3>1. \A i \in Slots : Pins(owner, {}, i) = {}
      BY DEF Pins
    <3> QED
      BY <3>1, FS_EmptySet
  <2>2. \A i \in Slots : DropReaders(slots, {})[i] =
          [slots[i] EXCEPT !.readers = IF slots[i].readers >= 0
                                       THEN slots[i].readers - 0 ELSE 0]
    BY <2>1 DEF DropReaders
  <2>3. \A i \in Slots : DropReaders(slots, {})[i] = slots[i]
    BY <1>1, <2>2 DEF Slot
  <2>4. DropReaders(slots, {}) = [i \in Slots |-> DropReaders(slots, {})[i]]
    BY DEF DropReaders
  <2> HIDE DEF DropReaders
  <2> QED
    BY <1>1, <2>3, <2>4
<1>5. CollectRetired(slots) = slots
  BY <1>1 DEF CollectRetired, Table, DrainedGone
<1>6. ReclaimedOwner = owner
  BY <1>2 DEF ReclaimedOwner, Table
<1>7. ReclaimedSlots = CollectRetired(DropReaders(slots, {}))
  BY <1>2, <1>3 DEF ReclaimedSlots
<1> QED
  BY <1>3, <1>4, <1>5, <1>6, <1>7 DEF ReclaimedResv

-----------------------------------------------------------------------------
(* Frames.                                                                 *)

\* Where a backend is while nothing of its transaction is under way.
Neutral == {"idle", "call", "synced", "resolve", "ready", "native"}

\* A step that touches neither the row nor a pending record, and at most
\* ends the reservation.
LEMMA LedgerFrame ==
  ASSUME Ledger, NEW b \in Backends,
         UNCHANGED <<pending, dirty, catalog, committed, clog, nextSerial>>,
         resv' = resv \/ resv' = NoResv,
         \A c \in Backends : snap'[c] \in committed,
         \A c \in Backends : c # b => pc'[c] = pc[c],
         pc'[b] \in Neutral \/ pc'[b] = pc[b]
  PROVE  Ledger'
<1>1. Admitted'
  BY DEF Ledger, Admitted
<1>2. Updated'
  BY DEF Ledger, Updated
<1>3. Placed'
  BY DEF Ledger, Placed, Neutral
<1>4. Historic'
  BY DEF Ledger, Historic
<1>5. Reserved'
  BY DEF Ledger, Reserved, Neutral, NoResv
<1> QED
  BY <1>1, <1>2, <1>3, <1>4, <1>5 DEF Ledger

\* A step that touches neither the slots nor the owners.
LEMMA TableFrame ==
  ASSUME Table, UNCHANGED <<slots, active, owner>>, NEW b \in Backends,
         \A c \in Backends : c # b => pc'[c] = pc[c],
         pc'[b] \notin {"down", "native"} \/ pc'[b] = pc[b]
  PROVE  Table'
<1>1. OwnersPlaced'
  BY DEF Table, OwnersPlaced
<1>2. SlotsOK(slots, active)' /\ PinsOK(slots, owner)' /\ DrainedGone(slots)'
  BY DEF Table, SlotsOK, PinsOK, DrainedGone
<1> QED
  BY <1>1, <1>2 DEF Table

\* A step that keeps the active generation.
LEMMA HandoffFrame ==
  ASSUME Table, Handoff, active' = active,
         active \in Slots => /\ slots'[active].seq = slots[active].seq
                             /\ slots'[active].epoch = slots[active].epoch,
         committed \subseteq committed',
         \/ resv'.state = "none"
         \/ resv.state # "none" /\ resv'.seq = resv.seq
  PROVE  Handoff'
<1>1. PublishedWasCommitted'
  BY DEF Table, Handoff, PublishedWasCommitted
<1>2. ReservedOverExpected'
  BY DEF Table, Handoff, ReservedOverExpected, CurrentSequence
<1> QED
  BY <1>1, <1>2 DEF Handoff

-----------------------------------------------------------------------------
(* The slot table and the active generation.                               *)

\* The sequence of the active generation does not go back in this step.
NoRegress ==
  active # NoSlot /\ active' # NoSlot => slots[active].seq <= slots'[active'].seq

\* What a step of a backend does for the table.
TablePart == Table' /\ Handoff' /\ NoRegress

\* The active slot is given to readers.
LEMMA InstallPart ==
  ASSUME ControlInv, NEW b \in Backends, NEW i \in Slots, NEW e \in Epochs,
         NEW s \in 0..MaxSerial,
         SlotsOK(slots', i), PinsOK(slots', owner), DrainedGone(slots'),
         slots'[i].seq = s, slots'[i].epoch = e,
         active' = i, owner' = owner,
         [seq |-> s, epoch |-> e] \in committed, UNCHANGED committed,
         resv'.state = "none",
         active = NoSlot \/ slots[active].seq <= s,
         \A c \in Backends : c # b => pc'[c] = pc[c],
         pc'[b] \notin {"down", "native"}
  PROVE  TablePart
<1>1. Table'
  <2>1. OwnersPlaced'
    BY DEF ControlInv, Table, OwnersPlaced
  <2> QED
    BY <2>1 DEF ControlInv, Table
<1>2. Handoff'
  BY DEF Handoff, PublishedWasCommitted, ReservedOverExpected
<1>3. NoRegress
  BY DEF NoRegress
<1> QED
  BY <1>1, <1>2, <1>3 DEF TablePart

\* Slots, active slot and owners stay as they are.
LEMMA UntouchedPart ==
  ASSUME ControlInv, UNCHANGED <<slots, active, owner>>, NEW b \in Backends,
         committed \subseteq committed',
         \/ resv'.state = "none"
         \/ resv.state # "none" /\ resv'.seq = resv.seq
         \/ resv' = resv,
         \A c \in Backends : c # b => pc'[c] = pc[c],
         pc'[b] \notin {"down", "native"} \/ pc'[b] = pc[b]
  PROVE  TablePart
<1>1. Table'
  BY TableFrame DEF ControlInv
<1>2. Handoff'
  BY HandoffFrame DEF ControlInv
<1>3. NoRegress
  <2>1. active # NoSlot => slots[active].seq \in Nat
    BY BoundsAssumption DEF ControlInv, Table, SlotsOK, Slot
  <2> QED
    BY <2>1 DEF NoRegress
<1> QED
  BY <1>1, <1>2, <1>3 DEF TablePart

\* A candidate is discarded.
LEMMA DiscardPart ==
  ASSUME ControlInv, NEW b \in Backends, resv.state # "none",
         slots' = DiscardCandidate(slots, resv),
         UNCHANGED <<active, owner, committed>>, resv'.state = "none",
         \A c \in Backends : c # b => pc'[c] = pc[c],
         pc'[b] \notin {"down", "native"} \/ pc'[b] = pc[b]
  PROVE  TablePart
<1>1. resv.cand \in Slots /\ resv.wasNew \in BOOLEAN
  BY DEF ControlInv, PrivateTypes, Resv, Ledger, Reserved
<1>2. /\ SlotsOK(slots', active) /\ PinsOK(slots', owner)
      /\ DrainedGone(slots')
      /\ \A i \in Slots : slots[i].state # "prepared" => slots'[i] = slots[i]
  BY <1>1, DiscardKeeps DEF ControlInv, Table
<1>3. OwnersPlaced'
  BY DEF ControlInv, Table, OwnersPlaced
<1>4. Table'
  BY <1>2, <1>3 DEF ControlInv, Table
<1>5. active \in Slots => slots'[active] = slots[active]
  BY <1>2 DEF ControlInv, Table, SlotsOK
<1>6. Handoff'
  BY <1>5, HandoffFrame DEF ControlInv
<1>7. NoRegress
  <2>1. active # NoSlot => slots[active].seq \in Nat /\ active \in Slots
    BY BoundsAssumption DEF ControlInv, Table, SlotsOK, Slot
  <2> QED
    BY <1>5, <2>1 DEF NoRegress
<1> QED
  BY <1>4, <1>6, <1>7 DEF TablePart

\* Every step of a backend keeps the table, and the active sequence.
LEMMA TableStep ==
  ASSUME ControlInv, NEW b \in Backends, BackendNext(b)
  PROVE  TablePart
<1>0. pc \in [Backends -> PCs]
  BY DEF ControlInv, PrivateTypes
<1>r. ReclaimedSlots = slots /\ ReclaimedResv = resv /\ ReclaimedOwner = owner
  BY ReclaimFindsNothing DEF ControlInv, Ledger
<1>t. /\ slots \in [Slots -> Slot] /\ owner \in [Backends -> Owner]
      /\ SlotsOK(slots, active) /\ PinsOK(slots, owner) /\ DrainedGone(slots)
  BY DEF ControlInv, Table, SlotsOK
<1>m. MaxSerial \in Nat
  BY BoundsAssumption
<1>s. active # NoSlot => active \in Slots /\ slots[active].seq \in 0..MaxSerial
  BY <1>t DEF ControlInv, Table, Slot
<1>1. CASE Start(b)
  <2>1. owner[b] = NoPin
    BY <1>1 DEF Start, ControlInv, Table, OwnersPlaced
  <2>2. slots' = slots
    BY <1>1, <2>1 DEF Start, NoPin
  <2>3. owner' = owner
    BY <1>1, <1>t, <2>1 DEF Start
  <2>4. resv' = NoResv \/ resv' = resv
    BY <1>1 DEF Start
  <2> QED
    BY <1>0, <1>1, <2>2, <2>3, <2>4, UntouchedPart
       DEF Start, Goto, durableVars, NoResv
<1>2. CASE BeginStatement(b)
  BY <1>2, <1>0, UntouchedPart DEF BeginStatement, Goto, Return, sharedVars, durableVars
<1>3. CASE Invalidate(b)
  BY <1>3, <1>0, UntouchedPart DEF Invalidate, Goto, Return, sharedVars, durableVars
<1>4. CASE SyncKeep(b)
  BY <1>0, <1>4, <1>r, UntouchedPart DEF SyncKeep, Reclaim, Goto, durableVars
<1>5. CASE SyncWithdraw(b)
  <2>1. /\ slots' = RetireActive(slots) /\ active' = NoSlot /\ owner' = owner
        /\ resv' = resv /\ resv.state = "none"
    BY <1>5, <1>r DEF SyncWithdraw
  <2>2. SlotsOK(slots', NoSlot) /\ PinsOK(slots', owner) /\ DrainedGone(slots')
    BY <1>t, <2>1, RetireKeeps
  <2>3. OwnersPlaced'
    BY <1>0, <1>5, <2>1 DEF SyncWithdraw, Goto, ControlInv, Table, OwnersPlaced
  <2>4. Table'
    BY <1>t, <2>1, <2>2, <2>3 DEF Table
  <2>5. Handoff' /\ NoRegress
    BY <2>1 DEF Handoff, PublishedWasCommitted, ReservedOverExpected, NoRegress
  <2> QED
    BY <2>4, <2>5 DEF TablePart
<1>6. CASE SyncInstall(b)
  <2> DEFINE e == snap[b].epoch
             f == FindGeneration(slots, e)
             i == IF f # NoSlot THEN f ELSE AllocateGeneration(slots)
  <2>1. /\ e # NoEpoch /\ resv' = resv /\ resv.state = "none" /\ owner' = owner
        /\ active = NoSlot \/ snap[b].seq > CurrentSequence(slots)
        /\ UNCHANGED durableVars
    BY <1>6, <1>r DEF SyncInstall
  <2>2. /\ snap[b] \in Row /\ snap[b] \in committed
        /\ e \in Epochs /\ snap[b].seq \in 0..MaxSerial
        /\ snap[b] = [seq |-> snap[b].seq, epoch |-> e]
    BY <2>1 DEF ControlInv, PrivateTypes, Ledger, Historic, Row, Epoch0
  <2>3. CASE i # NoSlot
    <3>1. /\ slots' = InstallActive([slots EXCEPT ![i].epoch = e], i, snap[b].seq)
          /\ active' = i /\ Goto(b, "synced")
      BY <1>6, <1>r, <2>3 DEF SyncInstall
    <3>2. /\ i \in Slots
          /\ \/ slots[i].state # "unused" /\ slots[i].epoch = e
             \/ /\ slots[i].state = "unused"
                /\ \A k \in Slots : slots[k].state = "unused" \/ slots[k].epoch # e
      BY <2>3, SlotForEpoch
    <3> HIDE DEF f, i, e
    <3>3. /\ SlotsOK(slots', i) /\ PinsOK(slots', owner) /\ DrainedGone(slots')
          /\ slots'[i].seq = snap[b].seq /\ slots'[i].epoch = e
      <4> DEFINE g == [slots EXCEPT ![i].epoch = e]
                 n == InstallActive(g, i, snap[b].seq)
      <4>g. /\ g \in [Slots -> Slot] /\ g[i].epoch = e
            /\ g[i].readers = slots[i].readers
            /\ \A k \in Slots : k # i => g[k] = slots[k]
        BY <1>t, <2>2, <3>2 DEF Slot, Epoch0
      <4> HIDE DEF g
      <4>1. /\ SlotsOK(n, i) /\ PinsOK(n, owner) /\ DrainedGone(n)
            /\ n[i].seq = snap[b].seq /\ n[i].epoch = e
        BY <1>t, <2>2, <3>2, <4>g, InstallKeeps
      <4>2. slots' = n
        BY <3>1 DEF g
      <4> HIDE DEF n
      <4> QED
        BY <4>1, <4>2
    <3>4. active = NoSlot \/ slots[active].seq <= snap[b].seq
      BY <1>s, <1>m, <2>1, <2>2 DEF CurrentSequence
    <3>5. [seq |-> snap[b].seq, epoch |-> e] \in committed
      BY <2>2 DEF e
    <3>6. committed' = committed /\ resv'.state = "none"
      BY <2>1 DEF durableVars
    <3>7. (\A c \in Backends : c # b => pc'[c] = pc[c]) /\ pc'[b] = "synced"
      BY <1>0, <3>1 DEF Goto
    <3> QED
      BY <2>1, <2>2, <3>1, <3>2, <3>3, <3>4, <3>5, <3>6, <3>7, InstallPart
  <2>4. CASE i = NoSlot
    <3>1. slots' = slots /\ active' = active /\ Goto(b, "idle")
      BY <1>6, <1>r, <2>4 DEF SyncInstall
    <3> QED
      BY <1>0, <2>1, <3>1, UntouchedPart DEF Goto, durableVars
  <2> QED
    BY <2>3, <2>4
<1>7. CASE ObserveReservation(b)
  BY <1>7, <1>0, UntouchedPart DEF ObserveReservation, Goto, Return, sharedVars, durableVars
<1>8. CASE ResolveNothing(b)
  BY <1>8, <1>0, UntouchedPart DEF ResolveNothing, Goto, Return, sharedVars, durableVars
<1>9. CASE ResolveCommitted(b)
  <2>1. /\ clog[resv.serial] = "committed" /\ resv.state # "none"
        /\ slots[resv.cand].epoch = resv.epoch
        /\ slots' = InstallActive(slots, resv.cand, resv.seq)
        /\ active' = resv.cand /\ resv' = NoResv
        /\ owner' = owner /\ committed' = committed
    BY <1>9 DEF ResolveCommitted, Observed, Installable, durableVars
  <2>2. /\ resv.cand \in Slots /\ resv.epoch \in Epochs
        /\ resv.seq \in 0..MaxSerial
        /\ [seq |-> resv.seq, epoch |-> resv.epoch] \in committed
    BY <2>1 DEF ControlInv, PrivateTypes, Resv, Ledger, Reserved
  <2>3. LET n == slots' IN
        /\ SlotsOK(n, resv.cand) /\ PinsOK(n, owner) /\ DrainedGone(n)
        /\ n[resv.cand].seq = resv.seq /\ n[resv.cand].epoch = resv.epoch
    BY <1>t, <2>1, <2>2, InstallHeldKeeps
  <2>4. active = NoSlot \/ slots[active].seq <= resv.seq
    BY <1>s, <1>m, <2>1 DEF ControlInv, Handoff, ReservedOverExpected, CurrentSequence
  <2>5. (\A c \in Backends : c # b => pc'[c] = pc[c]) /\ pc'[b] = "ready"
    BY <1>0, <1>9 DEF ResolveCommitted, Goto
  <2>6. resv'.state = "none"
    BY <2>1 DEF NoResv
  <2> QED
    BY <2>1, <2>2, <2>3, <2>4, <2>5, <2>6, InstallPart
<1>10. CASE ResolveStuck(b)
  BY <1>10, <1>0, UntouchedPart DEF ResolveStuck, Goto, Return, sharedVars, durableVars
<1>11. CASE ResolveAborted(b)
  <2>1. resv.state # "none" /\ resv'.state = "none"
    BY <1>11 DEF ResolveAborted, Observed, NoResv
  <2> QED
    BY <1>0, <1>11, <2>1, DiscardPart DEF ResolveAborted, Goto, durableVars
<1>12. CASE SnapshotGet(b)
  BY <1>0, <1>12, <1>r, UntouchedPart DEF SnapshotGet, Reclaim, Return, Goto, durableVars
<1>13. CASE \E e \in Epochs, x \in Row : Admit(b, e, x)
  <2> PICK e \in Epochs, x \in Row : Admit(b, e, x)
    BY <1>13
  <2> DEFINE f == FindGeneration(slots, e)
             i == IF f # NoSlot THEN f ELSE AllocateGeneration(slots)
  <2>1. /\ i # NoSlot /\ ExpectedMatches(slots, x)
        /\ slots' = IF f # NoSlot THEN slots
                    ELSE [slots EXCEPT ![i].epoch = e, ![i].state = "prepared"]
        /\ resv'.seq = x.seq + 1 /\ active' = active /\ owner' = owner
        /\ UNCHANGED durableVars /\ Goto(b, "persist")
    BY <1>r DEF Admit
  <2>2. /\ i \in Slots
        /\ f = NoSlot => /\ slots[i].state = "unused"
                         /\ \A k \in Slots : slots[k].state = "unused"
                                               \/ slots[k].epoch # e
    BY <2>1, SlotForEpoch
  <2> HIDE DEF f, i
  <2>3. /\ SlotsOK(slots', active) /\ PinsOK(slots', owner) /\ DrainedGone(slots')
        /\ active \in Slots => slots'[active] = slots[active]
    <3>1. CASE f # NoSlot
      BY <1>t, <2>1, <3>1
    <3>2. CASE f = NoSlot
      <4>1. PrepareStep(i, e)
        BY <2>1, <3>2 DEF PrepareStep
      <4>2. i # active
        BY <2>2, <3>2, <1>t DEF SlotsOK
      <4> QED
        BY <1>t, <2>2, <3>2, <4>1, <4>2, PrepareKeeps
    <3> QED
      BY <3>1, <3>2
  <2>4. OwnersPlaced'
    BY <1>0, <2>1 DEF Goto, ControlInv, Table, OwnersPlaced
  <2>5. Table'
    BY <1>t, <2>1, <2>3, <2>4 DEF ControlInv, Table
  <2>6. PublishedWasCommitted'
    <3>1. committed' = committed /\ active' = active
      BY <2>1 DEF durableVars
    <3>2. active # NoSlot => slots'[active] = slots[active]
      BY <1>s, <2>3
    <3>3. PublishedWasCommitted
      BY DEF ControlInv, Handoff
    <3> QED
      BY <3>1, <3>2, <3>3 DEF PublishedWasCommitted
  <2>7. ReservedOverExpected'
    <3>1. x.seq \in Nat /\ x.seq = CurrentSequence(slots)
      BY <1>m, <2>1 DEF ExpectedMatches, CurrentSequence, Row
    <3>2. CurrentSequence(slots)' = CurrentSequence(slots)
      BY <1>s, <2>1, <2>3 DEF CurrentSequence
    <3> QED
      BY <2>1, <3>1, <3>2 DEF ReservedOverExpected
  <2>8. NoRegress
    BY <1>m, <1>s, <2>1, <2>3 DEF NoRegress
  <2> QED
    BY <2>5, <2>6, <2>7, <2>8 DEF TablePart, Handoff
<1>14. CASE \E i \in Slots : Pin(b, i)
  <2> PICK i \in Slots : Pin(b, i)
    BY <1>14
  <2>1. /\ slots[i].state \in {"active", "retired"} /\ owner[b].depth < MaxDepth
        /\ \/ owner[b].depth = 0
           \/ owner[b].slot = i /\ owner[b].epoch = slots[i].epoch
        /\ PinStep(b, i) /\ resv' = resv /\ active' = active
        /\ UNCHANGED durableVars /\ Goto(b, "native")
    BY <1>r DEF Pin, PinStep
  <2>2. /\ owner' \in [Backends -> Owner] /\ owner'[b].depth # 0
        /\ \A c \in Backends : c # b => owner'[c] = owner[c]
        /\ SlotsOK(slots', active) /\ PinsOK(slots', owner')
        /\ DrainedGone(slots')
        /\ \A k \in Slots : /\ slots'[k].seq = slots[k].seq
                            /\ slots'[k].epoch = slots[k].epoch
    BY <1>t, <2>1, PinKeeps
  <2>3. OwnersPlaced'
    BY <1>0, <2>1, <2>2 DEF Goto, ControlInv, Table, OwnersPlaced
  <2>4. Table'
    BY <2>1, <2>2, <2>3 DEF ControlInv, Table
  <2>5. Handoff'
    BY <2>1, <2>2, HandoffFrame DEF ControlInv, durableVars, Handoff, ReservedOverExpected
  <2>6. NoRegress
    BY <1>m, <1>s, <2>1, <2>2 DEF NoRegress
  <2> QED
    BY <2>4, <2>5, <2>6 DEF TablePart
<1>15. CASE NativePin(b)
  BY <1>15, <1>0, UntouchedPart DEF NativePin, Goto, Return, sharedVars, durableVars
<1>16. CASE NativePinFails(b) \/ PinRelease(b)
  <2>1. /\ owner[b].depth # 0 /\ Unpin(b) /\ active' = active /\ resv' = resv
        /\ UNCHANGED durableVars
        /\ \A c \in Backends : c # b => pc'[c] = pc[c]
        /\ pc'[b] \in {"idle", "call"}
    BY <1>0, <1>16 DEF NativePinFails, PinRelease, Return, Goto, ControlInv,
                       Table, OwnersPlaced
  <2>2. /\ owner' \in [Backends -> Owner]
        /\ \A c \in Backends : c # b => owner'[c] = owner[c]
        /\ SlotsOK(slots', active) /\ PinsOK(slots', owner')
        /\ DrainedGone(slots')
        /\ active \in Slots => /\ slots'[active].seq = slots[active].seq
                               /\ slots'[active].epoch = slots[active].epoch
    BY <1>t, <2>1, UnpinKeeps
  <2>3. OwnersPlaced'
    BY <2>1, <2>2 DEF ControlInv, Table, OwnersPlaced
  <2>4. Table'
    BY <2>1, <2>2, <2>3 DEF ControlInv, Table
  <2>5. Handoff'
    BY <2>1, <2>2, HandoffFrame DEF ControlInv, durableVars, Handoff, ReservedOverExpected
  <2>6. NoRegress
    BY <1>m, <1>s, <2>1, <2>2 DEF NoRegress
  <2> QED
    BY <2>4, <2>5, <2>6 DEF TablePart
<1>17. CASE Persist(b)
  BY <1>17, <1>0, UntouchedPart DEF Persist, Goto, Return, sharedVars, durableVars
<1>18. CASE PersistMismatch(b) \/ AbortCallback(b) \/ SubAbort(b)
  <2>1. /\ AbortPending(b) /\ UNCHANGED <<active, owner, committed>>
        /\ \A c \in Backends : c # b => pc'[c] = pc[c]
        /\ pc'[b] \in {"idle", "call"}
    BY <1>0, <1>18 DEF PersistMismatch, AbortCallback, SubAbort, Return, Goto,
                       durableVars
  <2>2. CASE OwnsReservation(b)
    <3>1. resv.serial # 0
      BY <2>2 DEF OwnsReservation, ControlInv, Ledger, Admitted
    <3>2. resv.state # "none" /\ resv'.state = "none"
           /\ slots' = DiscardCandidate(slots, resv)
      BY <2>1, <2>2, <3>1 DEF AbortPending, NoResv, ControlInv, Ledger, Reserved
    <3> QED
      BY <2>1, <3>2, DiscardPart
  <2>3. CASE ~OwnsReservation(b)
    BY <2>1, <2>3, UntouchedPart DEF AbortPending
  <2> QED
    BY <2>2, <2>3
<1>19. CASE PreCommitCheck(b)
  BY <1>0, <1>19, <1>r, UntouchedPart DEF PreCommitCheck, Reclaim, Goto, durableVars
<1>20. CASE PreCommitMark(b)
  <2>1. resv' = resv \/ (resv'.state = "committing" /\ resv'.seq = resv.seq
                          /\ resv.state # "none")
    <3>1. CASE OwnsReservation(b)
      <4>1. resv.serial # 0
        BY <3>1 DEF OwnsReservation, ControlInv, Ledger, Admitted
      <4>2. resv.state # "none"
        BY <4>1 DEF NoResv, ControlInv, Ledger, Reserved
      <4> QED
        BY <1>20, <3>1, <4>2 DEF PreCommitMark, ControlInv, PrivateTypes, Resv
    <3>2. CASE ~OwnsReservation(b)
      BY <1>20, <3>2 DEF PreCommitMark
    <3> QED
      BY <3>1, <3>2
  <2> QED
    BY <1>0, <1>20, <2>1, UntouchedPart DEF PreCommitMark, Goto, durableVars
<1>21. CASE DurableCommit(b)
  BY <1>21, <1>0, UntouchedPart DEF DurableCommit, Goto, Return, sharedVars, durableVars
<1>22. CASE CommitCallback(b)
  <2>1. /\ (\A c \in Backends : c # b => pc'[c] = pc[c]) /\ pc'[b] = "idle"
        /\ owner' = owner /\ committed' = committed
    BY <1>0, <1>22 DEF CommitCallback, Goto, durableVars
  <2> DEFINE p == pending[b]
  <2>2. /\ p # NoPending /\ p \in Pending /\ p.cand \in Slots /\ p.epoch \in Epochs
        /\ p.expected.seq + 1 \in 0..MaxSerial
        /\ [seq |-> p.expected.seq + 1, epoch |-> p.epoch] \in committed
    BY <1>22, <1>m DEF CommitCallback, ControlInv, PrivateTypes, Pending, Row,
       Ledger, Placed, Admitted, NewRow
  <2>3. CASE OwnsReservation(b) /\ Installable(slots, p.cand, p.epoch)
    <3>1. /\ slots' = InstallActive(slots, p.cand, p.expected.seq + 1)
          /\ active' = p.cand /\ resv'.state = "none"
          /\ slots[p.cand].epoch = p.epoch
      BY <1>22, <2>3 DEF CommitCallback, Installable, NoResv
    <3>2. resv.state # "none" /\ resv.seq = p.expected.seq + 1
      <4>1. resv.serial # 0
        BY <2>3 DEF OwnsReservation, ControlInv, Ledger, Admitted
      <4>2. resv.state # "none"
        BY <4>1 DEF NoResv, ControlInv, Ledger, Reserved
      <4> QED
        BY <2>2, <2>3, <4>2 DEF OwnsReservation, ControlInv, Ledger, Reserved
    <3>3. active = NoSlot \/ slots[active].seq <= p.expected.seq + 1
      BY <1>s, <1>m, <3>2 DEF ControlInv, Handoff, ReservedOverExpected, CurrentSequence
    <3> HIDE DEF p
    <3>4. LET n == slots' IN
          /\ SlotsOK(n, p.cand) /\ PinsOK(n, owner) /\ DrainedGone(n)
          /\ n[p.cand].seq = p.expected.seq + 1 /\ n[p.cand].epoch = p.epoch
      BY <1>t, <2>2, <3>1, InstallHeldKeeps
    <3> QED
      BY <2>1, <2>2, <3>1, <3>3, <3>4, InstallPart
  <2>4. CASE ~(OwnsReservation(b) /\ Installable(slots, p.cand, p.epoch))
    <3>1. UNCHANGED <<slots, active, resv>>
      BY <1>22, <2>4 DEF CommitCallback
    <3> QED
      BY <2>1, <3>1, UntouchedPart
  <2> QED
    BY <2>3, <2>4
<1>23. CASE AbortTransaction(b)
  BY <1>23, <1>0, UntouchedPart DEF AbortTransaction, Goto, Return, sharedVars, durableVars
<1>24. CASE Exit(b)
  <2> DEFINE g == DropReaders(slots, {b})
  <2>1. /\ slots' = CollectRetired(g) /\ owner' = [owner EXCEPT ![b] = NoPin]
        /\ active' = active /\ committed' = committed
        /\ resv' = NoResv \/ resv' = resv
    BY <1>24 DEF Exit
  <2>2. /\ SlotsOK(g, active) /\ PinsOK(g, owner') /\ owner' \in [Backends -> Owner]
        /\ \A i \in Slots : g[i].seq = slots[i].seq /\ g[i].epoch = slots[i].epoch
    BY <1>t, <2>1, ClearKeeps
  <2> HIDE DEF g
  <2>3. /\ SlotsOK(slots', active) /\ PinsOK(slots', owner') /\ DrainedGone(slots')
        /\ \A i \in Slots : g[i].state # "retired" => slots'[i] = g[i]
    BY <2>1, <2>2, CollectKeeps, CollectKeepsPins
  <2>4. OwnersPlaced'
    BY <1>0, <1>24, <1>t, <2>1 DEF Exit, Goto, ControlInv, Table, OwnersPlaced
  <2>5. Table'
    BY <2>1, <2>2, <2>3, <2>4 DEF ControlInv, Table
  <2>6. active \in Slots => slots'[active].seq = slots[active].seq
                              /\ slots'[active].epoch = slots[active].epoch
    BY <2>2, <2>3 DEF SlotsOK
  <2>7. Handoff'
    BY <2>1, <2>6, HandoffFrame
       DEF ControlInv, Handoff, ReservedOverExpected, NoResv
  <2>8. NoRegress
    BY <1>m, <1>s, <2>1, <2>6 DEF NoRegress
  <2> QED
    BY <2>5, <2>7, <2>8 DEF TablePart
<1> QED
  BY <1>1, <1>2, <1>3, <1>4, <1>5, <1>6, <1>7, <1>8, <1>9, <1>10, <1>11, <1>12,
     <1>13, <1>14, <1>15, <1>16, <1>17, <1>18, <1>19, <1>20, <1>21, <1>22,
     <1>23, <1>24
     DEF BackendNext, Synchronize, Resolve, Call, Transaction

-----------------------------------------------------------------------------
(* The catalog row, the pending admissions and the reservation.            *)

\* The pending record of a backend goes, and with it its update of the row.
LEMMA PendingGone ==
  ASSUME Ledger, NEW b \in Backends,
         pending' = [pending EXCEPT ![b] = NoPending],
         dirty' = [dirty EXCEPT ![b] = NoRow],
         pending \in [Backends -> Pending], dirty \in [Backends -> Row],
         pc'[b] \in {"idle", "call", "down"},
         \A c \in Backends : c # b => pc'[c] = pc[c],
         UNCHANGED <<catalog, committed, nextSerial>>,
         nextSerial \in 1..(MaxSerial + 1),
         clog \in [Serials -> {"open", "committed", "aborted"}],
         \/ clog' = clog
         \/ /\ pending[b] # NoPending
            /\ clog' = [clog EXCEPT ![pending[b].serial] = "aborted"],
         \A c \in Backends : snap'[c] \in committed,
         \/ resv' = NoResv
         \/ resv' = resv /\ (resv.state = "prepared" => resv.owner # b)
  PROVE  Ledger'
<1>1. pending'[b] = NoPending /\ \A c \in Backends : c # b => pending'[c] = pending[c]
  OBVIOUS
<1>2. dirty'[b] = NoRow /\ \A c \in Backends : c # b => dirty'[c] = dirty[c]
  OBVIOUS
<1>3. \A s \in Serials : clog'[s] # clog[s] => clog'[s] = "aborted"
                           /\ pending[b] # NoPending /\ s = pending[b].serial
  OBVIOUS
<1>4. Admitted'
  BY <1>1 DEF Ledger, Admitted
<1>5. Updated'
  BY <1>1, <1>2 DEF Ledger, Updated
<1>6. Placed'
  BY <1>1, <1>2 DEF Ledger, Placed
<1>7. Historic'
  <2>1. ASSUME NEW s \in Serials, s >= nextSerial
        PROVE  clog'[s] = "open"
    <3>1. clog[s] = "open"
      BY <2>1 DEF Ledger, Historic
    <3>2. pending[b] # NoPending => pending[b].serial \in 1..(nextSerial - 1)
      BY DEF Ledger, Admitted
    <3>3. pending[b] # NoPending => s # pending[b].serial
      BY <2>1, <3>2, BoundsAssumption DEF Serials
    <3> QED
      BY <1>3, <3>1, <3>3
  <2> QED
    BY <2>1 DEF Ledger, Historic
<1>8. Reserved'
  <2>1. CASE resv' = NoResv
    BY <2>1 DEF Reserved, NoResv
  <2>2. CASE resv' = resv /\ resv.state # "none" /\ (resv.state = "prepared" => resv.owner # b)
    <3>1. resv.serial \in Serials
      BY <2>2, BoundsAssumption DEF Ledger, Reserved, Serials
    <3>2. clog'[resv.serial] = "committed" => clog[resv.serial] = "committed"
      BY <1>3, <3>1
    <3> QED
      BY <1>1, <2>2, <3>2 DEF Ledger, Reserved
  <2>3. CASE resv' = resv /\ resv.state = "none"
    BY <2>3 DEF Ledger, Reserved
  <2> QED
    BY <2>1, <2>2, <2>3
<1> QED
  BY <1>4, <1>5, <1>6, <1>7, <1>8 DEF Ledger

\* Every step of a backend keeps the ledger.
LEMMA LedgerStep ==
  ASSUME ControlInv, NEW b \in Backends, BackendNext(b)
  PROVE  Ledger'
<1>0. /\ pc \in [Backends -> PCs] /\ pending \in [Backends -> Pending]
      /\ dirty \in [Backends -> Row] /\ snap \in [Backends -> Row]
      /\ clog \in [Serials -> {"open", "committed", "aborted"}]
      /\ nextSerial \in 1..(MaxSerial + 1) /\ MaxSerial \in Nat
      /\ resv \in Resv
  BY BoundsAssumption DEF ControlInv, PrivateTypes
<1>r. ReclaimedSlots = slots /\ ReclaimedResv = resv /\ ReclaimedOwner = owner
  BY ReclaimFindsNothing DEF ControlInv, Ledger
<1>l. Ledger /\ Admitted /\ Updated /\ Placed /\ Historic /\ Reserved
  BY DEF ControlInv, Ledger
<1>p. pending[b] # NoPending => pending[b].serial \in Serials
  BY <1>0, <1>l DEF Admitted, Serials
<1>s. resv.state # "none" => resv.serial \in Serials
  BY <1>0, <1>l DEF Reserved, Serials
<1>1. CASE Start(b)
  <2>1. resv' = resv \/ resv' = NoResv
    BY <1>1 DEF Start
  <2> QED
    BY <1>0, <1>1, <1>l, <2>1, LedgerFrame DEF Start, Goto, durableVars, Neutral, Historic
<1>2. CASE BeginStatement(b)
  BY <1>2, <1>0, <1>r, <1>l, LedgerFrame
     DEF BeginStatement, Goto, Return, Reclaim, Neutral, sharedVars, durableVars, Historic
<1>3. CASE Invalidate(b)
  BY <1>3, <1>0, <1>r, <1>l, LedgerFrame
     DEF Invalidate, Goto, Return, Reclaim, Neutral, sharedVars, durableVars, Historic
<1>4. CASE SyncKeep(b)
  BY <1>4, <1>0, <1>r, <1>l, LedgerFrame
     DEF SyncKeep, Goto, Return, Reclaim, Neutral, sharedVars, durableVars, Historic
<1>5. CASE SyncWithdraw(b)
  BY <1>5, <1>0, <1>r, <1>l, LedgerFrame
     DEF SyncWithdraw, Goto, Return, Reclaim, Neutral, sharedVars, durableVars, Historic
<1>6. CASE SyncInstall(b)
  BY <1>6, <1>0, <1>r, <1>l, LedgerFrame
     DEF SyncInstall, Goto, Return, Reclaim, Neutral, sharedVars, durableVars, Historic
<1>7. CASE ObserveReservation(b)
  BY <1>7, <1>0, <1>r, <1>l, LedgerFrame
     DEF ObserveReservation, Goto, Return, Reclaim, Neutral, sharedVars, durableVars, Historic
<1>8. CASE ResolveNothing(b)
  BY <1>8, <1>0, <1>r, <1>l, LedgerFrame
     DEF ResolveNothing, Goto, Return, Reclaim, Neutral, sharedVars, durableVars, Historic
<1>9. CASE ResolveCommitted(b)
  BY <1>9, <1>0, <1>r, <1>l, LedgerFrame
     DEF ResolveCommitted, Goto, Return, Reclaim, Neutral, sharedVars, durableVars, Historic
<1>10. CASE ResolveStuck(b)
  BY <1>10, <1>0, <1>r, <1>l, LedgerFrame
     DEF ResolveStuck, Goto, Return, Reclaim, Neutral, sharedVars, durableVars, Historic
<1>11. CASE ResolveAborted(b)
  BY <1>11, <1>0, <1>r, <1>l, LedgerFrame
     DEF ResolveAborted, Goto, Return, Reclaim, Neutral, sharedVars, durableVars, Historic
<1>12. CASE SnapshotGet(b)
  BY <1>12, <1>0, <1>r, <1>l, LedgerFrame
     DEF SnapshotGet, Goto, Return, Reclaim, Neutral, sharedVars, durableVars, Historic
<1>13. CASE \E i \in Slots : Pin(b, i)
  BY <1>13, <1>0, <1>r, <1>l, LedgerFrame DEF Pin, Goto, Neutral, durableVars, Historic
<1>14. CASE NativePin(b)
  BY <1>14, <1>0, <1>r, <1>l, LedgerFrame
     DEF NativePin, Goto, Return, Reclaim, Neutral, sharedVars, durableVars, Historic
<1>15. CASE NativePinFails(b)
  BY <1>15, <1>0, <1>r, <1>l, LedgerFrame
     DEF NativePinFails, Goto, Return, Reclaim, Neutral, sharedVars, durableVars, Historic
<1>16. CASE PinRelease(b)
  BY <1>16, <1>0, <1>r, <1>l, LedgerFrame
     DEF PinRelease, Goto, Return, Reclaim, Neutral, sharedVars, durableVars, Historic
<1>17. CASE PersistMismatch(b) \/ AbortCallback(b) \/ SubAbort(b)
  <2>1. /\ AbortPending(b) /\ UNCHANGED <<catalog, committed, clog, nextSerial, snap>>
        /\ \A c \in Backends : c # b => pc'[c] = pc[c]
        /\ pc'[b] \in {"idle", "call"}
    BY <1>0, <1>17 DEF PersistMismatch, AbortCallback, SubAbort, Return, Goto,
                       durableVars
  <2>2. dirty' = [dirty EXCEPT ![b] = NoRow]
    <3>1. CASE SubAbort(b)
      BY <3>1 DEF SubAbort
    <3>2. CASE PersistMismatch(b) \/ AbortCallback(b)
      <4>1. dirty' = dirty /\ dirty[b] = NoRow
        BY <1>l, <3>2 DEF PersistMismatch, AbortCallback, Placed
      <4> QED
        BY <1>0, <4>1
    <3> QED
      BY <1>17, <3>1, <3>2
  <2>3. resv' = NoResv \/ (resv' = resv /\ (resv.state = "prepared" => resv.owner # b))
    <3>1. CASE OwnsReservation(b)
      BY <2>1, <3>1 DEF AbortPending
    <3>2. CASE ~OwnsReservation(b)
      BY <1>l, <2>1, <3>2 DEF AbortPending, OwnsReservation, Reserved
    <3> QED
      BY <3>1, <3>2
  <2>4. pending' = [pending EXCEPT ![b] = NoPending]
    BY <2>1 DEF AbortPending
  <2>5. \A c \in Backends : snap'[c] \in committed
    BY <1>l, <2>1 DEF Historic
  <2> QED
    BY <1>0, <1>l, <2>1, <2>2, <2>3, <2>4, <2>5, PendingGone
<1>18. CASE CommitCallback(b)
  <2>1. /\ pending' = [pending EXCEPT ![b] = NoPending] /\ pc'[b] = "idle"
        /\ \A c \in Backends : c # b => pc'[c] = pc[c]
        /\ UNCHANGED <<catalog, committed, clog, nextSerial, snap, dirty>>
        /\ resv' = NoResv \/ resv' = resv
        /\ pending[b] # NoPending /\ dirty[b] = NoRow /\ pc[b] = "committed"
    BY <1>0, <1>l, <1>18 DEF CommitCallback, Goto, durableVars, Placed
  <2>2. dirty' = [dirty EXCEPT ![b] = NoRow]
    BY <1>0, <2>1
  <2>3. resv.state = "prepared" => resv.owner # b
    BY <1>l, <2>1 DEF Reserved
  <2>4. \A c \in Backends : snap'[c] \in committed
    BY <1>l, <2>1 DEF Historic
  <2> QED
    BY <1>0, <1>l, <2>1, <2>2, <2>3, <2>4, PendingGone
<1>19. CASE Exit(b)
  <2>1. /\ pending' = [pending EXCEPT ![b] = NoPending]
        /\ dirty' = [dirty EXCEPT ![b] = NoRow]
        /\ snap' = [snap EXCEPT ![b] = NoRow]
        /\ UNCHANGED <<catalog, committed, nextSerial>>
        /\ pc' = [pc EXCEPT ![b] = "down"]
    BY <1>19 DEF Exit, Goto
  <2>2. resv' = NoResv \/ (resv' = resv /\ (resv.state = "prepared" => resv.owner # b))
    BY <1>19 DEF Exit
  <2>3. clog' = clog \/ (pending[b] # NoPending
                          /\ clog' = [clog EXCEPT ![pending[b].serial] = "aborted"])
    BY <1>19 DEF Exit
  <2>4. \A c \in Backends : snap'[c] \in committed
    BY <1>0, <1>l, <2>1 DEF Historic
  <2>5. pc'[b] = "down" /\ \A c \in Backends : c # b => pc'[c] = pc[c]
    BY <1>0, <2>1
  <2> QED
    BY <1>0, <1>l, <2>1, <2>2, <2>3, <2>4, <2>5, PendingGone
<1>20. CASE \E e \in Epochs, x \in Row : Admit(b, e, x)
  <2> PICK e \in Epochs, x \in Row : Admit(b, e, x)
    BY <1>20
  <2>1. PICK i : /\ i # NoSlot /\ i \in Slots
                 /\ resv' = [state |-> "prepared", serial |-> nextSerial, owner |-> b,
                             epoch |-> e, seq |-> x.seq + 1, cand |-> i,
                             wasNew |-> FindGeneration(slots, e) = NoSlot]
                 /\ pending' = [pending EXCEPT ![b] =
                       [serial |-> nextSerial, expected |-> x, epoch |-> e,
                        cand |-> i]]
    <3> DEFINE f == FindGeneration(slots, e)
               i == IF f # NoSlot THEN f ELSE AllocateGeneration(slots)
    <3>1. /\ i # NoSlot
          /\ resv' = [state |-> "prepared", serial |-> nextSerial, owner |-> b,
                      epoch |-> e, seq |-> x.seq + 1, cand |-> i,
                      wasNew |-> f = NoSlot]
          /\ pending' = [pending EXCEPT ![b] =
                [serial |-> nextSerial, expected |-> x, epoch |-> e, cand |-> i]]
      BY <1>r DEF Admit
    <3>2. i \in Slots
      BY <3>1, SlotForEpoch
    <3> HIDE DEF i
    <3> QED
      BY <3>1, <3>2
  <2>2. /\ pending[b] = NoPending /\ NativeAdmits(b, e, x)
        /\ nextSerial <= MaxSerial /\ x.seq < MaxSerial
        /\ nextSerial' = nextSerial + 1 /\ pc' = [pc EXCEPT ![b] = "persist"]
        /\ UNCHANGED <<catalog, committed, clog, snap, dirty>>
    BY DEF Admit, Goto, durableVars
  <2>3. /\ pending'[b] = [serial |-> nextSerial, expected |-> x, epoch |-> e, cand |-> i]
        /\ \A c \in Backends : c # b => pending'[c] = pending[c]
        /\ pc'[b] = "persist" /\ \A c \in Backends : c # b => pc'[c] = pc[c]
    BY <1>0, <2>1, <2>2
  <2>4. /\ resv'.state = "prepared" /\ resv'.serial = nextSerial /\ resv'.owner = b
        /\ resv'.epoch = e /\ resv'.seq = x.seq + 1 /\ resv'.cand = i
    BY <2>1
  <2>5. /\ pending'[b].serial = nextSerial /\ pending'[b].expected = x
        /\ pending'[b].epoch = e /\ pending'[b].cand = i
        /\ pending'[b] # NoPending
    BY <1>0, <2>3 DEF NoPending
  <2>6. x.epoch \in {NoEpoch, Context[e]} /\ dirty[b] = NoRow
    BY <1>l, <2>2 DEF NativeAdmits, Updated
  <2>7. nextSerial \in Serials /\ nextSerial \in 1..(nextSerial' - 1)
         /\ \A s \in 1..(nextSerial - 1) : s # nextSerial /\ s \in 1..(nextSerial' - 1)
    BY <1>0, <2>2 DEF Serials
  <2>8. Admitted'
    <3> SUFFICES ASSUME NEW d \in Backends, pending'[d] # NoPending
                 PROVE  /\ pending'[d].serial \in 1..(nextSerial' - 1)
                        /\ pending'[d].epoch \in Epochs
                        /\ pending'[d].cand \in Slots
                        /\ pending'[d].expected.seq < MaxSerial
                        /\ pending'[d].expected.epoch \in {NoEpoch, Context[pending'[d].epoch]}
                        /\ \A c \in Backends :
                             pending'[c] # NoPending
                             /\ pending'[c].serial = pending'[d].serial => c = d
      BY DEF Admitted
    <3>1. \A c \in Backends : c # b /\ pending'[c] # NoPending =>
            pending'[c] = pending[c] /\ pending'[c].serial \in 1..(nextSerial - 1)
      BY <1>l, <2>3 DEF Admitted
    <3>2. CASE d = b
      BY <2>1, <2>2, <2>5, <2>6, <2>7, <3>1, <3>2
    <3>3. CASE d # b
      BY <1>l, <2>3, <2>5, <2>7, <3>1, <3>3 DEF Admitted
    <3> QED
      BY <3>2, <3>3
  <2>9. Updated'
    BY <1>l, <2>2, <2>3, <2>6 DEF Updated
  <2>10. Placed'
    BY <1>l, <2>2, <2>3, <2>5, <2>6 DEF Placed
  <2>11. Historic'
    BY <1>0, <1>l, <2>2 DEF Historic, Serials
  <2>12. Reserved'
    <3>1. clog'[resv'.serial] # "committed"
      BY <1>0, <1>l, <2>2, <2>4, <2>7 DEF Historic
    <3>2. \A c \in Backends : pending'[c] # NoPending /\ pending'[c].serial = resv'.serial
            => c = b
      BY <2>4, <2>5, <2>8 DEF Admitted
    <3> QED
      BY <2>1, <2>3, <2>4, <2>5, <2>7, <3>1, <3>2 DEF Reserved
  <2> QED
    BY <2>8, <2>9, <2>10, <2>11, <2>12 DEF Ledger
<1>21. CASE Persist(b)
  <2>1. /\ RowFree(b) /\ catalog = pending[b].expected
        /\ dirty' = [dirty EXCEPT ![b] = NewRow(pending[b])]
        /\ UNCHANGED <<catalog, committed, clog, nextSerial, resv, pending, snap>>
        /\ \A c \in Backends : c # b => pc'[c] = pc[c]
        /\ pc'[b] \in {"idle", "call"} /\ pending[b] # NoPending
    BY <1>0, <1>l, <1>21 DEF Persist, Return, Goto, CatalogMatches, NewRow,
       durableVars, sharedVars, Placed
  <2>2. dirty'[b] = NewRow(pending[b]) /\ \A c \in Backends : c # b => dirty'[c] = NoRow
    BY <1>0, <2>1 DEF RowFree
  <2>3. Admitted' /\ Historic'
    BY <1>l, <2>1 DEF Admitted, Historic
  <2>4. Updated'
    BY <2>1, <2>2 DEF Updated
  <2>5. Placed'
    BY <1>l, <2>1, <2>2 DEF Placed, RowFree
  <2>6. Reserved'
    BY <1>l, <2>1 DEF Reserved
  <2> QED
    BY <2>3, <2>4, <2>5, <2>6 DEF Ledger
<1>22. CASE PreCommitCheck(b) \/ PreCommitMark(b)
  <2>1. /\ UNCHANGED <<catalog, committed, clog, nextSerial, pending, snap, dirty>>
        /\ \A c \in Backends : c # b => pc'[c] = pc[c]
        /\ dirty[b] # NoRow
        /\ \/ pc'[b] = "precommit" /\ resv' = resv
           \/ /\ pc'[b] = "committing"
              /\ resv' = IF OwnsReservation(b) THEN [resv EXCEPT !.state = "committing"]
                                                ELSE resv
    BY <1>0, <1>l, <1>r, <1>22 DEF PreCommitCheck, PreCommitMark, Goto, Reclaim,
       durableVars, Placed
  <2>2. Admitted' /\ Updated' /\ Historic'
    BY <1>l, <2>1 DEF Admitted, Updated, Historic
  <2>3. Placed'
    BY <1>l, <2>1 DEF Placed
  <2>4. Reserved'
    <3>1. CASE OwnsReservation(b) /\ pc'[b] = "committing"
      <4>1. resv' = [resv EXCEPT !.state = "committing"]
        BY <2>1, <3>1
      <4>2. resv.state # "none"
        BY <1>l, <3>1 DEF OwnsReservation, Reserved, Admitted, NoResv
      <4>3. /\ resv'.state = "committing" /\ resv'.serial = resv.serial
            /\ resv'.owner = resv.owner /\ resv'.epoch = resv.epoch
            /\ resv'.seq = resv.seq /\ resv'.cand = resv.cand
        BY <1>0, <4>1 DEF Resv
      <4> QED
        BY <1>l, <2>1, <4>2, <4>3 DEF Reserved
    <3>2. CASE ~(OwnsReservation(b) /\ pc'[b] = "committing")
      <4>1. resv' = resv
        BY <2>1, <3>2
      <4>2. pc'[b] = "committing" => ~OwnsReservation(b)
        BY <3>2
      <4>3. pc'[b] = "committing" => pending[b] # NoPending
        BY <1>l, <2>1 DEF Updated
      <4>4. resv.state # "none" /\ pc'[b] = "committing" => pending[b].serial # resv.serial
        BY <1>l, <4>2, <4>3 DEF Reserved, OwnsReservation
      <4>5. pc'[b] \in {"precommit", "committing"}
        BY <2>1
      <4> QED
        BY <1>l, <2>1, <4>1, <4>4, <4>5 DEF Reserved
    <3> QED
      BY <3>1, <3>2
  <2> QED
    BY <2>2, <2>3, <2>4 DEF Ledger
<1>23. CASE DurableCommit(b)
  <2>1. /\ pc[b] = "committing" /\ catalog' = dirty[b]
        /\ committed' = committed \cup {dirty[b]}
        /\ clog' = [clog EXCEPT ![pending[b].serial] = "committed"]
        /\ dirty' = [dirty EXCEPT ![b] = NoRow]
        /\ UNCHANGED <<nextSerial, resv, pending, snap>>
        /\ pc' = [pc EXCEPT ![b] = "committed"]
    BY <1>23 DEF DurableCommit, Goto, sharedVars
  <2>2. /\ pending[b] # NoPending /\ dirty[b] = NewRow(pending[b])
        /\ \A c \in Backends : c # b => dirty[c] = NoRow
    BY <1>l, <2>1 DEF Placed, Updated
  <2>3. \A c \in Backends : dirty'[c] = NoRow
    BY <1>0, <2>1, <2>2
  <2>4. pc'[b] = "committed" /\ \A c \in Backends : c # b => pc'[c] = pc[c]
    BY <1>0, <2>1
  <2>5. Admitted' /\ Updated'
    BY <1>l, <2>1, <2>3 DEF Admitted, Updated
  <2>6. Placed'
    <3>1. \A c \in Backends : c # b => pc[c] \notin {"precommit", "committing"}
      BY <1>l, <2>2 DEF Placed
    <3>2. NewRow(pending[b]) \in committed' /\ committed \subseteq committed'
      BY <2>1, <2>2
    <3> QED
      BY <1>l, <2>1, <2>2, <2>3, <2>4, <3>1, <3>2 DEF Placed
  <2>7. Historic'
    <3>1. \A s \in Serials : s >= nextSerial => s # pending[b].serial
      BY <1>0, <1>l, <2>2 DEF Admitted, Serials
    <3> QED
      BY <1>0, <1>l, <2>1, <3>1 DEF Historic
  <2>8. Reserved'
    <3>1. resv.state # "none" /\ clog'[resv.serial] = "committed" =>
            [seq |-> resv.seq, epoch |-> resv.epoch] \in committed'
      <4>1. CASE resv.state # "none" /\ resv.serial = pending[b].serial
        BY <1>l, <2>1, <2>2, <4>1 DEF Reserved, NewRow
      <4>2. CASE resv.state # "none" /\ resv.serial # pending[b].serial
        <5>1. clog'[resv.serial] = clog[resv.serial]
          BY <1>0, <1>s, <2>1, <4>2
        <5> QED
          BY <1>l, <2>1, <4>2, <5>1 DEF Reserved
      <4> QED
        BY <4>1, <4>2
    <3>2. /\ resv' = resv /\ pending' = pending /\ nextSerial' = nextSerial
      BY <2>1
    <3>3. \A c \in Backends : pc'[c] \in {"committing", "committed"} =>
                                pc[c] \in {"committing", "committed"}
      BY <2>1, <2>4
    <3> QED
      BY <1>l, <3>1, <3>2, <3>3 DEF Reserved
  <2> QED
    BY <2>5, <2>6, <2>7, <2>8 DEF Ledger
<1>24. CASE AbortTransaction(b)
  <2>1. /\ pending[b] # NoPending
        /\ clog' = [clog EXCEPT ![pending[b].serial] = "aborted"]
        /\ dirty' = [dirty EXCEPT ![b] = NoRow]
        /\ UNCHANGED <<catalog, committed, nextSerial, resv, pending, snap>>
        /\ pc' = [pc EXCEPT ![b] = "aborted"]
    BY <1>24 DEF AbortTransaction, Goto, sharedVars
  <2>2. pc'[b] = "aborted" /\ \A c \in Backends : c # b => pc'[c] = pc[c]
    BY <1>0, <2>1
  <2>3. dirty'[b] = NoRow /\ \A c \in Backends : c # b => dirty'[c] = dirty[c]
    BY <1>0, <2>1
  <2>4. Admitted' /\ Updated' /\ Placed'
    BY <1>l, <2>1, <2>2, <2>3 DEF Admitted, Updated, Placed
  <2>5. Historic'
    <3>1. \A s \in Serials : s >= nextSerial => s # pending[b].serial
      BY <1>0, <1>l, <2>1 DEF Admitted, Serials
    <3> QED
      BY <1>0, <1>l, <2>1, <3>1 DEF Historic
  <2>6. Reserved'
    <3>1. resv.state # "none" /\ clog'[resv.serial] = "committed" =>
            clog[resv.serial] = "committed"
      BY <1>0, <1>p, <1>s, <2>1
    <3>2. /\ resv' = resv /\ pending' = pending /\ nextSerial' = nextSerial
          /\ committed' = committed
      BY <2>1
    <3>3. \A c \in Backends : pc'[c] \in {"committing", "committed"} =>
                                pc[c] \in {"committing", "committed"}
      BY <2>2
    <3> QED
      BY <1>l, <3>1, <3>2, <3>3 DEF Reserved
  <2> QED
    BY <2>4, <2>5, <2>6 DEF Ledger
<1> QED
  BY <1>1, <1>2, <1>3, <1>4, <1>5, <1>6, <1>7, <1>8, <1>9, <1>10, <1>11, <1>12,
     <1>13, <1>14, <1>15, <1>16, <1>17, <1>18, <1>19, <1>20, <1>21, <1>22,
     <1>23, <1>24
     DEF BackendNext, Synchronize, Resolve, Call, Transaction

-----------------------------------------------------------------------------
(* Types.                                                                  *)

\* The empty values have their types.
LEMMA Shapes ==
  /\ NoResv \in Resv /\ NoPending \in Pending /\ NoRow \in Row
  /\ {"down", "idle", "call", "synced", "resolve", "ready", "native", "persist",
      "precommit", "committing", "committed", "aborted"} = PCs
  /\ MaxSerial \in Nat /\ 0 \in 0..MaxSerial /\ NoEpoch \in Epoch0
<1>1. MaxSerial \in Nat /\ 0 \in 0..MaxSerial /\ NoEpoch \in Epoch0
  BY BoundsAssumption DEF Epoch0
<1>2. NoRow \in Row
  BY <1>1 DEF NoRow, Row
<1>3. NoResv \in Resv
  BY <1>1 DEF NoResv, Resv
<1>4. NoPending \in Pending
  BY <1>1, <1>2 DEF NoPending, Pending
<1> QED
  BY <1>1, <1>2, <1>3, <1>4 DEF PCs

\* A step that leaves the durable state, the pending records and the native
\* registries alone.
LEMMA TypesFrame ==
  ASSUME PrivateTypes, NEW b \in Backends,
         UNCHANGED <<nextSerial, catalog, committed, clog, pending, dirty,
                     exits, crashes, recreates>>,
         resv' = resv \/ resv' = NoResv,
         pc' = pc \/ \E l \in PCs : Goto(b, l),
         snap' = snap \/ snap' = [snap EXCEPT ![b] = catalog],
         synced' = synced \/ \E v \in BOOLEAN : synced' = [synced EXCEPT ![b] = v],
         obs' = obs \/ \E v \in 0..MaxSerial : obs' = [obs EXCEPT ![b] = v],
         nativeActive' = nativeActive
           \/ nativeActive' = [nativeActive EXCEPT ![b] = NoEpoch],
         mapped' = mapped
           \/ \E v \in SUBSET Epochs : mapped' = [mapped EXCEPT ![b] = v]
  PROVE  PrivateTypes'
<1>1. resv' \in Resv
  BY Shapes DEF PrivateTypes
<1>2. pc' \in [Backends -> PCs]
  BY DEF PrivateTypes, Goto
<1>3. snap' \in [Backends -> Row]
  BY DEF PrivateTypes
<1>4. synced' \in [Backends -> BOOLEAN]
  <2>1. synced \in [Backends -> BOOLEAN]
    BY DEF PrivateTypes
  <2> QED
    BY <2>1
<1>5. obs' \in [Backends -> 0..MaxSerial]
  BY DEF PrivateTypes
<1>6. nativeActive' \in [Backends -> Epoch0]
  BY Shapes DEF PrivateTypes
<1>7. mapped' \in [Backends -> SUBSET Epochs]
  BY DEF PrivateTypes
<1> QED
  BY <1>1, <1>2, <1>3, <1>4, <1>5, <1>6, <1>7 DEF PrivateTypes

\* Every step of a backend keeps the types.
LEMMA TypesStep ==
  ASSUME ControlInv, NEW b \in Backends, BackendNext(b)
  PROVE  PrivateTypes'
<1>t. PrivateTypes
  BY DEF ControlInv
<1>r. ReclaimedResv = resv
  BY ReclaimFindsNothing DEF ControlInv, Ledger
<1>v. TRUE \in BOOLEAN /\ FALSE \in BOOLEAN
  OBVIOUS
<1>1. CASE Start(b)
  BY <1>1, <1>t, <1>r, <1>v, Shapes, TypesFrame
     DEF Start, Return, Reclaim, sharedVars, durableVars, nativeVars, boundVars
<1>2. CASE BeginStatement(b)
  BY <1>2, <1>t, <1>r, <1>v, Shapes, TypesFrame
     DEF BeginStatement, Return, Reclaim, sharedVars, durableVars, nativeVars, boundVars
<1>3. CASE Invalidate(b)
  BY <1>3, <1>t, <1>r, <1>v, Shapes, TypesFrame
     DEF Invalidate, Return, Reclaim, sharedVars, durableVars, nativeVars, boundVars
<1>4. CASE SyncKeep(b)
  BY <1>4, <1>t, <1>r, <1>v, Shapes, TypesFrame
     DEF SyncKeep, Return, Reclaim, sharedVars, durableVars, nativeVars, boundVars
<1>5. CASE SyncWithdraw(b)
  <2>1. {} \in SUBSET Epochs
    OBVIOUS
  <2> QED
    BY <1>5, <1>t, <1>r, <1>v, <2>1, Shapes, TypesFrame
       DEF SyncWithdraw, durableVars, nativeVars, boundVars
<1>6. CASE SyncInstall(b)
  BY <1>6, <1>t, <1>r, <1>v, Shapes, TypesFrame
     DEF SyncInstall, Return, Reclaim, sharedVars, durableVars, nativeVars, boundVars
<1>7. CASE ObserveReservation(b)
  <2>1. (IF resv.state = "committing" THEN resv.serial ELSE 0) \in 0..MaxSerial
    BY <1>t, Shapes DEF PrivateTypes, Resv
  <2> QED
    BY <1>7, <1>t, <2>1, Shapes, TypesFrame
       DEF ObserveReservation, sharedVars, durableVars, nativeVars, boundVars
<1>8. CASE ResolveNothing(b)
  BY <1>8, <1>t, <1>r, <1>v, Shapes, TypesFrame
     DEF ResolveNothing, Return, Reclaim, sharedVars, durableVars, nativeVars, boundVars
<1>9. CASE ResolveCommitted(b)
  BY <1>9, <1>t, <1>r, <1>v, Shapes, TypesFrame
     DEF ResolveCommitted, Return, Reclaim, sharedVars, durableVars, nativeVars, boundVars
<1>10. CASE ResolveStuck(b)
  BY <1>10, <1>t, <1>r, <1>v, Shapes, TypesFrame
     DEF ResolveStuck, Return, Reclaim, sharedVars, durableVars, nativeVars, boundVars
<1>11. CASE ResolveAborted(b)
  BY <1>11, <1>t, <1>r, <1>v, Shapes, TypesFrame
     DEF ResolveAborted, Return, Reclaim, sharedVars, durableVars, nativeVars, boundVars
<1>12. CASE SnapshotGet(b)
  BY <1>12, <1>t, <1>r, <1>v, Shapes, TypesFrame
     DEF SnapshotGet, Return, Reclaim, sharedVars, durableVars, nativeVars, boundVars
<1>13. CASE \E i \in Slots : Pin(b, i)
  BY <1>13, <1>t, <1>r, <1>v, Shapes, TypesFrame
     DEF Pin, Return, Reclaim, sharedVars, durableVars, nativeVars, boundVars
<1>14. CASE NativePin(b)
  <2>1. owner[b].epoch \in Epochs
    BY <1>14 DEF NativePin, ControlInv, Table, OwnersPlaced, PinsOK, SlotsOK
  <2>2. mapped[b] \cup {owner[b].epoch} \in SUBSET Epochs
    BY <1>t, <2>1 DEF PrivateTypes
  <2> QED
    BY <1>14, <1>t, <2>2, Shapes, TypesFrame
       DEF NativePin, Return, sharedVars, durableVars, boundVars
<1>15. CASE NativePinFails(b)
  BY <1>15, <1>t, <1>r, <1>v, Shapes, TypesFrame
     DEF NativePinFails, Return, Reclaim, sharedVars, durableVars, nativeVars, boundVars
<1>16. CASE PinRelease(b)
  BY <1>16, <1>t, <1>r, <1>v, Shapes, TypesFrame
     DEF PinRelease, Return, Reclaim, sharedVars, durableVars, nativeVars, boundVars
<1>17. CASE PreCommitCheck(b)
  BY <1>17, <1>t, <1>r, <1>v, Shapes, TypesFrame
     DEF PreCommitCheck, Return, Reclaim, sharedVars, durableVars, nativeVars, boundVars
<1>18. CASE \E e \in Epochs, x \in Row : Admit(b, e, x)
  <2> PICK e \in Epochs, x \in Row : Admit(b, e, x)
    BY <1>18
  <2> DEFINE f == FindGeneration(ReclaimedSlots, e)
             i == IF f # NoSlot THEN f ELSE AllocateGeneration(ReclaimedSlots)
  <2>1. /\ i # NoSlot /\ nextSerial <= MaxSerial /\ x.seq < MaxSerial
        /\ resv' = [state |-> "prepared", serial |-> nextSerial, owner |-> b,
                    epoch |-> e, seq |-> x.seq + 1, cand |-> i,
                    wasNew |-> f = NoSlot]
        /\ pending' = [pending EXCEPT ![b] =
              [serial |-> nextSerial, expected |-> x, epoch |-> e, cand |-> i]]
        /\ nextSerial' = nextSerial + 1 /\ Goto(b, "persist")
        /\ UNCHANGED <<durableVars, snap, synced, obs, dirty, nativeVars, boundVars>>
    BY DEF Admit
  <2>2. i \in Slots
    BY <2>1, SlotForEpoch
  <2>3. (f = NoSlot) \in BOOLEAN
    OBVIOUS
  <2> HIDE DEF f, i
  <2>4. nextSerial' \in 1..(MaxSerial + 1) /\ nextSerial \in 0..MaxSerial
         /\ x.seq + 1 \in 0..MaxSerial /\ e \in Epoch0
    BY <1>t, <2>1, Shapes DEF PrivateTypes, Row, Epoch0
  <2>5. resv' \in Resv
    BY <2>1, <2>2, <2>3, <2>4 DEF Resv
  <2>6. pending' \in [Backends -> Pending]
    BY <1>t, <2>1, <2>2, <2>4 DEF PrivateTypes, Pending
  <2>7. pc' \in [Backends -> PCs]
    BY <1>t, <2>1, Shapes DEF PrivateTypes, Goto
  <2> QED
    BY <1>t, <2>1, <2>4, <2>5, <2>6, <2>7
       DEF PrivateTypes, durableVars, nativeVars, boundVars
<1>19. CASE Persist(b)
  <2>1. /\ pending[b] # NoPending /\ pending[b] \in Pending
        /\ pending[b].expected.seq < MaxSerial
    BY <1>19, <1>t DEF Persist, PrivateTypes, ControlInv, Ledger, Placed, Admitted
  <2>2. [seq |-> pending[b].expected.seq + 1, epoch |-> pending[b].epoch] \in Row
    BY <2>1, Shapes DEF Pending, Row
  <2>3. dirty' \in [Backends -> Row]
    BY <1>19, <1>t, <2>2 DEF Persist, PrivateTypes
  <2>4. pc' \in [Backends -> PCs]
    BY <1>19, <1>t, Shapes DEF Persist, PrivateTypes, Return, Goto
  <2> QED
    BY <1>19, <1>t, <2>3, <2>4
       DEF Persist, PrivateTypes, sharedVars, durableVars, nativeVars, boundVars
<1>20. CASE PersistMismatch(b) \/ AbortCallback(b) \/ SubAbort(b)
  <2>1. /\ AbortPending(b)
        /\ dirty' = dirty \/ dirty' = [dirty EXCEPT ![b] = NoRow]
        /\ pc' = pc \/ \E l \in PCs : Goto(b, l)
        /\ UNCHANGED <<nextSerial, durableVars, snap, synced, obs, nativeVars,
                       boundVars>>
    BY <1>20, Shapes DEF PersistMismatch, AbortCallback, SubAbort, Return
  <2>2. resv' \in Resv /\ pending' \in [Backends -> Pending]
    BY <1>t, <2>1, Shapes DEF AbortPending, PrivateTypes
  <2>3. dirty' \in [Backends -> Row] /\ pc' \in [Backends -> PCs]
    BY <1>t, <2>1, Shapes DEF PrivateTypes, Goto
  <2> QED
    BY <1>t, <2>1, <2>2, <2>3 DEF PrivateTypes, durableVars, nativeVars, boundVars
<1>21. CASE PreCommitMark(b)
  <2>1. resv' \in Resv
    BY <1>21, <1>t DEF PreCommitMark, PrivateTypes, Resv
  <2>2. pc' \in [Backends -> PCs]
    BY <1>21, <1>t, Shapes DEF PreCommitMark, PrivateTypes, Goto
  <2> QED
    BY <1>21, <1>t, <2>1, <2>2
       DEF PreCommitMark, PrivateTypes, durableVars, nativeVars, boundVars
<1>22. CASE DurableCommit(b)
  <2>1. dirty[b] \in Row /\ dirty' \in [Backends -> Row]
    BY <1>22, <1>t, Shapes DEF DurableCommit, PrivateTypes
  <2>2. catalog' \in Row /\ committed' \subseteq Row
    BY <1>22, <1>t, <2>1 DEF DurableCommit, PrivateTypes
  <2>3. clog' \in [Serials -> {"open", "committed", "aborted"}]
    BY <1>22, <1>t DEF DurableCommit, PrivateTypes
  <2>4. pc' \in [Backends -> PCs]
    BY <1>22, <1>t, Shapes DEF DurableCommit, PrivateTypes, Goto
  <2> QED
    BY <1>22, <1>t, <2>1, <2>2, <2>3, <2>4
       DEF DurableCommit, PrivateTypes, sharedVars, nativeVars, boundVars
<1>23. CASE CommitCallback(b)
  <2>1. pending[b].epoch \in Epochs
    BY <1>23 DEF CommitCallback, ControlInv, Ledger, Placed, Admitted
  <2>2. nativeActive' \in [Backends -> Epoch0]
    BY <1>23, <1>t, <2>1 DEF CommitCallback, PrivateTypes, Epoch0
  <2>3. mapped' \in [Backends -> SUBSET Epochs]
    BY <1>23, <1>t, <2>1 DEF CommitCallback, PrivateTypes
  <2>4. resv' \in Resv
    BY <1>23, <1>t, Shapes DEF CommitCallback, PrivateTypes
  <2>5. pending' \in [Backends -> Pending]
    BY <1>23, <1>t, Shapes DEF CommitCallback, PrivateTypes
  <2>6. pc' \in [Backends -> PCs]
    BY <1>23, <1>t, Shapes DEF CommitCallback, PrivateTypes, Goto
  <2> QED
    BY <1>23, <1>t, <2>2, <2>3, <2>4, <2>5, <2>6
       DEF CommitCallback, PrivateTypes, durableVars, boundVars
<1>24. CASE AbortTransaction(b)
  <2>1. dirty' \in [Backends -> Row]
    BY <1>24, <1>t, Shapes DEF AbortTransaction, PrivateTypes
  <2>2. clog' \in [Serials -> {"open", "committed", "aborted"}]
    BY <1>24, <1>t DEF AbortTransaction, PrivateTypes
  <2>3. pc' \in [Backends -> PCs]
    BY <1>24, <1>t, Shapes DEF AbortTransaction, PrivateTypes, Goto
  <2> QED
    BY <1>24, <1>t, <2>1, <2>2, <2>3
       DEF AbortTransaction, PrivateTypes, sharedVars, nativeVars, boundVars
<1>25. CASE Exit(b)
  <2>1. resv' \in Resv /\ clog' \in [Serials -> {"open", "committed", "aborted"}]
    BY <1>25, <1>t, Shapes DEF Exit, PrivateTypes
  <2>2. pending' \in [Backends -> Pending] /\ dirty' \in [Backends -> Row]
    BY <1>25, <1>t, Shapes DEF Exit, PrivateTypes
  <2>3. snap' \in [Backends -> Row] /\ obs' \in [Backends -> 0..MaxSerial]
    BY <1>25, <1>t, Shapes DEF Exit, PrivateTypes
  <2>4. nativeActive' \in [Backends -> Epoch0] /\ mapped' \in [Backends -> SUBSET Epochs]
    BY <1>25, <1>t, Shapes DEF Exit, PrivateTypes
  <2>5. pc' \in [Backends -> PCs] /\ exits' \in 0..MaxExits
    BY <1>25, <1>t, Shapes, BoundsAssumption DEF Exit, PrivateTypes, Goto
  <2>6. synced' \in [Backends -> BOOLEAN]
    <3>1. synced \in [Backends -> BOOLEAN] /\ synced' = [synced EXCEPT ![b] = FALSE]
      BY <1>25, <1>t DEF Exit, PrivateTypes
    <3> QED
      BY <3>1
  <2>7. UNCHANGED <<nextSerial, catalog, committed, crashes, recreates>>
    BY <1>25 DEF Exit
  <2> QED
    BY <1>t, <2>1, <2>2, <2>3, <2>4, <2>5, <2>6, <2>7 DEF PrivateTypes
<1> QED
  BY <1>1, <1>2, <1>3, <1>4, <1>5, <1>6, <1>7, <1>8, <1>9, <1>10, <1>11, <1>12,
     <1>13, <1>14, <1>15, <1>16, <1>17, <1>18, <1>19, <1>20, <1>21, <1>22,
     <1>23, <1>24, <1>25
     DEF BackendNext, Synchronize, Resolve, Call, Transaction

-----------------------------------------------------------------------------
(* The empty segment: the first start and every restart of the cluster.    *)

\* The segment and the backends as a start of the cluster leaves them, and a
\* row that was committed.
Empty ==
  /\ slots = [i \in Slots |-> Unused]
  /\ active = NoSlot
  /\ resv = NoResv
  /\ nextSerial = 1
  /\ owner = [b \in Backends |-> NoPin]
  /\ clog = [s \in Serials |-> "open"]
  /\ pc = [b \in Backends |-> "down"]
  /\ snap = [b \in Backends |-> NoRow]
  /\ synced = [b \in Backends |-> FALSE]
  /\ obs = [b \in Backends |-> 0]
  /\ pending = [b \in Backends |-> NoPending]
  /\ dirty = [b \in Backends |-> NoRow]
  /\ nativeActive = [b \in Backends |-> NoEpoch]
  /\ mapped = [b \in Backends |-> {}]
  /\ catalog \in committed /\ NoRow \in committed /\ committed \subseteq Row
  /\ exits \in 0..MaxExits /\ crashes \in 0..MaxCrashes
  /\ recreates \in 0..MaxRecreates

\* A started cluster satisfies the invariant.
LEMMA EmptyInv == Empty => ControlInv
<1> SUFFICES ASSUME Empty PROVE ControlInv
  OBVIOUS
<1>1. PrivateTypes
  <2>1. synced \in [Backends -> BOOLEAN]
    BY DEF Empty
  <2> QED
    BY <2>1, Shapes DEF Empty, PrivateTypes
<1>2. Admitted /\ Updated /\ Placed
  BY DEF Empty, Admitted, Updated, Placed
<1>3. Historic /\ Reserved
  BY DEF Empty, Historic, Reserved, NoResv
<1>4. Unused \in Slot /\ Unused.state = "unused" /\ Unused.readers = 0
  BY BoundsAssumption DEF Unused, Slot, Epoch0
<1>5. NoPin \in Owner /\ NoPin.depth = 0
  BY BoundsAssumption DEF NoPin, Owner, Epoch0
<1>6. SlotsOK(slots, active) /\ DrainedGone(slots)
  BY <1>4, SlotsAreNat DEF Empty, SlotsOK, DrainedGone
<1>7. owner \in [Backends -> Owner] /\ \A b \in Backends : owner[b] = NoPin
  BY <1>5 DEF Empty
<1>8. PinsOK(slots, owner)
  <2>1. ASSUME NEW i \in Slots
        PROVE  slots[i].readers = Cardinality(Pins(owner, Backends, i))
    <3>1. Cardinality(Pins(owner, Backends, i)) = 0
      BY <1>5, <1>7, UnpinnedHasNone
    <3> QED
      BY <1>4, <3>1 DEF Empty
  <2> QED
    BY <1>5, <1>7, <2>1 DEF PinsOK
<1>9. OwnersPlaced
  BY <1>7 DEF Empty, OwnersPlaced
<1>10. Table
  BY <1>6, <1>7, <1>8, <1>9 DEF Empty, Table
<1>11. Handoff
  BY DEF Empty, Handoff, PublishedWasCommitted, ReservedOverExpected, NoResv
<1> QED
  BY <1>1, <1>2, <1>3, <1>10, <1>11 DEF ControlInv, Ledger

-----------------------------------------------------------------------------
(* The invariant, and what follows from it.                                *)

\* So does one that crashed.
LEMMA CrashKeeps ==
  ASSUME ControlInv, ClusterCrash
  PROVE  ControlInv' /\ NoRegress
<1>1. /\ catalog \in committed /\ NoRow \in committed /\ committed \subseteq Row
      /\ exits \in 0..MaxExits /\ recreates \in 0..MaxRecreates
  BY DEF ControlInv, PrivateTypes, Ledger, Historic
<1>2. crashes' \in 0..MaxCrashes
  BY BoundsAssumption DEF ClusterCrash, ControlInv, PrivateTypes
<1>3. Empty'
  BY <1>1, <1>2 DEF ClusterCrash, Empty
<1>4. ControlInv'
  BY <1>3, EmptyInv, PTL
<1>5. active' = NoSlot
  BY DEF ClusterCrash
<1> QED
  BY <1>4, <1>5 DEF NoRegress

\* A new row waits for every admission to end.
LEMMA RecreateKeeps ==
  ASSUME ControlInv, RecreateExtension
  PROVE  ControlInv' /\ NoRegress
<1>1. /\ catalog' = NoRow
      /\ \A b \in Backends : pending[b] = NoPending
      /\ UNCHANGED <<slots, active, resv, nextSerial, owner, committed, clog, pc,
                     snap, synced, obs, pending, dirty, nativeActive, mapped,
                     exits, crashes>>
  BY DEF RecreateExtension, sharedVars, nativeVars
<1>2. recreates' \in 0..MaxRecreates
  BY BoundsAssumption DEF RecreateExtension, ControlInv, PrivateTypes
<1>3. PrivateTypes'
  BY <1>1, <1>2, Shapes DEF ControlInv, PrivateTypes
<1>4. Updated'
  BY <1>1 DEF ControlInv, Ledger, Updated
<1>5. Admitted' /\ Placed' /\ Historic'
  BY <1>1 DEF ControlInv, Ledger, Admitted, Placed, Historic
<1>6. Reserved'
  BY <1>1 DEF ControlInv, Ledger, Reserved
<1>7. OwnersPlaced'
  BY <1>1 DEF ControlInv, Table, OwnersPlaced
<1>8. SlotsOK(slots, active)' /\ PinsOK(slots, owner)' /\ DrainedGone(slots)'
  BY <1>1 DEF ControlInv, Table, SlotsOK, PinsOK, DrainedGone
<1>9. Table'
  BY <1>1, <1>7, <1>8 DEF ControlInv, Table
<1>10. Handoff'
  BY <1>1, HandoffFrame DEF ControlInv, Handoff, ReservedOverExpected
<1>11. NoRegress
  <2>1. active # NoSlot => slots[active].seq \in Nat
    BY BoundsAssumption DEF ControlInv, Table, SlotsOK, Slot
  <2> QED
    BY <1>1, <2>1 DEF NoRegress
<1> QED
  BY <1>3, <1>4, <1>5, <1>6, <1>9, <1>10, <1>11 DEF ControlInv, Ledger

\* A step that changes nothing.
LEMMA StutterKeeps ==
  ASSUME ControlInv, UNCHANGED vars
  PROVE  ControlInv'
<1>1. UNCHANGED <<slots, active, resv, nextSerial, owner, catalog, committed,
                  clog, pc, snap, synced, obs, pending, dirty, nativeActive,
                  mapped, exits, crashes, recreates>>
  BY DEF vars, sharedVars, durableVars, nativeVars, boundVars
<1>2. PrivateTypes'
  BY <1>1 DEF ControlInv, PrivateTypes
<1>3. Admitted' /\ Updated' /\ Placed' /\ Historic'
  BY <1>1 DEF ControlInv, Ledger, Admitted, Updated, Placed, Historic
<1>4. Reserved'
  BY <1>1 DEF ControlInv, Ledger, Reserved
<1>5. OwnersPlaced'
  BY <1>1 DEF ControlInv, Table, OwnersPlaced
<1>6. SlotsOK(slots, active)' /\ PinsOK(slots, owner)' /\ DrainedGone(slots)'
  BY <1>1 DEF ControlInv, Table, SlotsOK, PinsOK, DrainedGone
<1>7. Table'
  BY <1>1, <1>5, <1>6 DEF ControlInv, Table
<1>8. Handoff'
  BY <1>1 DEF ControlInv, Handoff, PublishedWasCommitted, ReservedOverExpected,
              CurrentSequence
<1> QED
  BY <1>2, <1>3, <1>4, <1>7, <1>8 DEF ControlInv, Ledger

\* The invariant holds of every state: no step of any backend, no exit, no
\* crash and no recreation of the extension breaks it.
LEMMA ControlIsInvariant == Spec => []ControlInv
<1>1. Init => ControlInv
  <2> SUFFICES ASSUME Init PROVE ControlInv
    OBVIOUS
  <2>1. /\ catalog \in committed /\ NoRow \in committed /\ committed \subseteq Row
    BY Shapes DEF Init
  <2>2. /\ exits \in 0..MaxExits /\ crashes \in 0..MaxCrashes
        /\ recreates \in 0..MaxRecreates
    BY BoundsAssumption DEF Init
  <2>3. Empty
    BY <2>1, <2>2 DEF Init, Empty
  <2> QED
    BY <2>3, EmptyInv
<1>2. ControlInv /\ [Next]_vars => ControlInv'
  <2> SUFFICES ASSUME ControlInv, [Next]_vars PROVE ControlInv'
    OBVIOUS
  <2>1. ASSUME NEW b \in Backends, BackendNext(b) PROVE ControlInv'
    BY <2>1, TypesStep, LedgerStep, TableStep DEF ControlInv, TablePart
  <2> QED
    BY <2>1, CrashKeeps, RecreateKeeps, StutterKeeps DEF Next
<1> QED
  BY <1>1, <1>2, PTL DEF Spec

\* Every variable of the segment, of the catalog and of a backend stays within
\* its type; sequences and serials within their bounds.
THEOREM TypeCorrect == Spec => []TypeOK
<1>1. ControlInv => TypeOK
  BY DEF ControlInv, PrivateTypes, Table, SlotsOK, TypeOK, Slot, Owner, Resv,
         Pending
<1> QED
  BY <1>1, ControlIsInvariant, PTL

\* pin_generation against collection, handoff, withdrawal and discard: a
\* pinned generation keeps its slot and epoch, for any number of backends.
THEOREM PinnedIsRetained == Spec => []PinnedGenerationRetained
<1>1. ControlInv => PinnedGenerationRetained
  BY DEF ControlInv, Table, PinsOK, PinnedGenerationRetained
<1> QED
  BY <1>1, ControlIsInvariant, PTL

\* The reader count of every slot is the number of pins backends hold on it.
THEOREM ReadersAreCounted == Spec => []ReadersAreOwnerDepths
<1>1. ControlInv => ReadersAreOwnerDepths
  BY DEF ControlInv, Table, PinsOK, ReadersAreOwnerDepths
<1> QED
  BY <1>1, ControlIsInvariant, PTL

\* The slot table: one active slot, one slot per epoch, and no retired slot
\* that nobody reads.
THEOREM SlotTableIsSound == Spec => []SlotsAreConsistent
<1>1. ControlInv => SlotsAreConsistent
  BY DEF ControlInv, Table, SlotsOK, DrainedGone, SlotsAreConsistent
<1> QED
  BY <1>1, ControlIsInvariant, PTL

\* The active generation was committed to the catalog, whether the commit
\* callback, a helper or a synchronizing backend installed it.
THEOREM PublicationFollowsCommit == Spec => []PublishedWasCommitted
<1>1. ControlInv => PublishedWasCommitted
  BY DEF ControlInv, Handoff
<1> QED
  BY <1>1, ControlIsInvariant, PTL

\* A reservation is one ahead of the active generation as long as it lasts.
THEOREM ReservationIsNext == Spec => []ReservedOverExpected
<1>1. ControlInv => ReservedOverExpected
  BY DEF ControlInv, Handoff
<1> QED
  BY <1>1, ControlIsInvariant, PTL

\* No late callback, helper or stale snapshot takes the active sequence back.
THEOREM ActivationIsMonotone == Spec => ActiveNeverRegresses
<1>1. ControlInv /\ [Next]_vars =>
        [active # NoSlot /\ active' # NoSlot
           => slots[active].seq <= slots'[active'].seq]_vars
  <2> SUFFICES ASSUME ControlInv, Next PROVE NoRegress
    BY DEF NoRegress
  <2>1. ASSUME NEW b \in Backends, BackendNext(b) PROVE NoRegress
    BY <2>1, TableStep DEF TablePart
  <2> QED
    BY <2>1, CrashKeeps, RecreateKeeps DEF Next
<1> QED
  BY <1>1, ControlIsInvariant, PTL DEF Spec, ActiveNeverRegresses

\* The durable row changes by the commit of an admission that compared the
\* row it replaces, one sequence at a time, along the manifests' contexts.
THEOREM DurableRowIsAChain == Spec => DurableChain
<1> DEFINE Chained ==
      catalog' # catalog /\ recreates' = recreates =>
        /\ catalog'.seq = catalog.seq + 1
        /\ catalog.epoch \in {NoEpoch, Context[catalog'.epoch]}
<1>1. ControlInv /\ [Next]_vars => [Chained]_vars
  <2> SUFFICES ASSUME ControlInv, Next PROVE Chained
    OBVIOUS
  <2>1. ASSUME NEW b \in Backends, BackendNext(b), catalog' # catalog
        PROVE  DurableCommit(b)
    BY <2>1 DEF BackendNext, Synchronize, Resolve, Call, Transaction, Start,
       BeginStatement, Invalidate, SyncKeep, SyncWithdraw, SyncInstall,
       ObserveReservation, ResolveNothing, ResolveCommitted, ResolveStuck,
       ResolveAborted, SnapshotGet, Admit, Pin, NativePin, NativePinFails,
       Persist, PersistMismatch, PreCommitCheck, PreCommitMark, CommitCallback,
       AbortTransaction, AbortCallback, SubAbort, PinRelease, Exit, durableVars
  <2>2. ASSUME NEW b \in Backends, DurableCommit(b) PROVE Chained
    <3>1. /\ catalog' = dirty[b] /\ dirty[b] = NewRow(pending[b])
          /\ catalog = pending[b].expected
          /\ pending[b].expected.epoch \in {NoEpoch, Context[pending[b].epoch]}
      BY <2>2 DEF DurableCommit, ControlInv, Ledger, Placed, Updated, Admitted
    <3> QED
      BY <3>1 DEF NewRow
  <2>3. ASSUME ClusterCrash PROVE Chained
    BY <2>3 DEF ClusterCrash
  <2>4. ASSUME RecreateExtension PROVE Chained
    BY <2>4, BoundsAssumption DEF RecreateExtension, ControlInv, PrivateTypes
  <2> QED
    BY <2>1, <2>2, <2>3, <2>4 DEF Next
<1> QED
  BY <1>1, ControlIsInvariant, PTL DEF Spec, DurableChain
================================================================================
