-------------------------- MODULE PerfcacheControl --------------------------
(***************************************************************************)
(* The PostgreSQL control plane of the perfcache registry,                 *)
(* integrations/postgresql/extension/src/perfcache_pg.c.                   *)
(*                                                                         *)
(* Every backend attaches one shared segment (generation slots, the active *)
(* slot, one activation reservation and a pin record per backend, all      *)
(* under one LWLock) beside a durable catalog row that the admission       *)
(* transaction updates by compare-and-set.  An action is one critical      *)
(* section of the LWLock, one catalog access, or one step of PostgreSQL's  *)
(* commit and abort sequence; between two of them other backends run.      *)
(*                                                                         *)
(* An epoch stands for its identifier, its fingerprint and its manifest    *)
(* fingerprint: the catalog stores one encoded manifest per epoch.  The    *)
(* native registry of a backend (module PerfcacheRegistry) is represented  *)
(* by its active epoch and the epochs it keeps mapped.                     *)
(***************************************************************************)
EXTENDS Naturals, FiniteSets, FiniteSetsExt

CONSTANTS
  Backends,     \* backend processes
  Epochs,       \* activation epochs
  NoEpoch,      \* no active epoch
  Context,      \* Context[e]: the perfcache epoch in the context of e's manifest
  MaxDepth,     \* bound on nested pins of a backend
  MaxSerial,    \* bound on reservations between two cluster starts
  MaxExits,     \* bound on backend exits
  MaxCrashes,   \* bound on cluster crashes
  MaxRecreates  \* bound on DROP EXTENSION; CREATE EXTENSION

ASSUME BackendsAssumption == IsFiniteSet(Backends) /\ Backends # {}
ASSUME EpochAssumption    == NoEpoch \notin Epochs
ASSUME ContextAssumption  == \A e \in Epochs : Context[e] # e
ASSUME BoundsAssumption ==
  /\ MaxDepth \in Nat \ {0} /\ MaxSerial \in Nat \ {0}
  /\ MaxExits \in Nat /\ MaxCrashes \in Nat /\ MaxRecreates \in Nat

VARIABLES
  (* the shared segment *)
  slots,        \* generation slots
  active,       \* active_generation_index
  resv,         \* reservation
  nextSerial,   \* next_reservation_serial
  owner,        \* owner slots: what each backend has pinned
  (* durable state *)
  catalog,      \* the row of perfcache_active_control
  committed,    \* every value that row has had (history)
  clog,         \* outcome of the transaction of each reservation
  (* each backend *)
  pc,           \* where the backend is
  snap,         \* the catalog row its statement's snapshot sees
  synced,       \* perfcache_backend_synchronized
  obs,          \* serial of the reservation resolve observed
  pending,      \* perfcache_pending
  dirty,        \* its uncommitted update of the catalog row
  nativeActive, \* active epoch of perfcache_native_registry
  mapped,       \* epochs whose generation that registry keeps mapped
  (* bounds *)
  exits, crashes, recreates

sharedVars  == <<slots, active, resv, nextSerial, owner>>
durableVars == <<catalog, committed, clog>>
nativeVars  == <<nativeActive, mapped>>
boundVars   == <<exits, crashes, recreates>>
vars == <<sharedVars, durableVars, pc, snap, synced, obs, pending, dirty,
          nativeVars, boundVars>>

-----------------------------------------------------------------------------
(* Shapes.                                                                 *)

\* Every backend may pin a distinct retired generation; two more for the
\* formerly active generation and its candidate.
Slots  == 1..(Cardinality(Backends) + 2)
NoSlot == 0
Serials == 1..MaxSerial
Epoch0 == Epochs \cup {NoEpoch}
Row    == [seq : 0..MaxSerial, epoch : Epoch0]
NoRow  == [seq |-> 0, epoch |-> NoEpoch]

Unused    == [state |-> "unused", epoch |-> NoEpoch, seq |-> 0, readers |-> 0]
NoResv    == [state |-> "none", serial |-> 0, owner |-> NoEpoch,
              epoch |-> NoEpoch, seq |-> 0, cand |-> NoSlot, wasNew |-> FALSE]
NoPin     == [slot |-> NoSlot, epoch |-> NoEpoch, depth |-> 0]
NoPending == [serial |-> 0, expected |-> NoRow, epoch |-> NoEpoch,
              cand |-> NoSlot]

PCs == {"down", "idle", "call", "synced", "resolve", "ready", "native",
        "persist", "precommit", "committing", "committed", "aborted"}

TypeOK ==
  /\ slots \in [Slots -> [state : {"unused", "prepared", "active", "retired"},
                          epoch : Epoch0, seq : 0..MaxSerial, readers : Nat]]
  /\ active \in Slots \cup {NoSlot}
  /\ resv \in [state : {"none", "prepared", "committing"},
               serial : 0..MaxSerial, owner : Backends \cup {NoEpoch},
               epoch : Epoch0, seq : 0..MaxSerial,
               cand : Slots \cup {NoSlot}, wasNew : BOOLEAN]
  /\ nextSerial \in 1..(MaxSerial + 1)
  /\ owner \in [Backends -> [slot : Slots \cup {NoSlot}, epoch : Epoch0,
                             depth : 0..MaxDepth]]
  /\ catalog \in Row /\ committed \subseteq Row
  /\ clog \in [Serials -> {"open", "committed", "aborted"}]
  /\ pc \in [Backends -> PCs]
  /\ snap \in [Backends -> Row]
  /\ synced \in [Backends -> BOOLEAN]
  /\ obs \in [Backends -> 0..MaxSerial]
  /\ pending \in [Backends -> [serial : 0..MaxSerial, expected : Row,
                               epoch : Epoch0, cand : Slots \cup {NoSlot}]]
  /\ dirty \in [Backends -> Row]
  /\ nativeActive \in [Backends -> Epoch0]
  /\ mapped \in [Backends -> SUBSET Epochs]
  /\ exits \in 0..MaxExits /\ crashes \in 0..MaxCrashes
  /\ recreates \in 0..MaxRecreates

Init ==
  /\ slots = [i \in Slots |-> Unused]
  /\ active = NoSlot
  /\ resv = NoResv
  /\ nextSerial = 1
  /\ owner = [b \in Backends |-> NoPin]
  /\ catalog = NoRow
  /\ committed = {NoRow}
  /\ clog = [s \in Serials |-> "open"]
  /\ pc = [b \in Backends |-> "down"]
  /\ snap = [b \in Backends |-> NoRow]
  /\ synced = [b \in Backends |-> FALSE]
  /\ obs = [b \in Backends |-> 0]
  /\ pending = [b \in Backends |-> NoPending]
  /\ dirty = [b \in Backends |-> NoRow]
  /\ nativeActive = [b \in Backends |-> NoEpoch]
  /\ mapped = [b \in Backends |-> {}]
  /\ exits = 0 /\ crashes = 0 /\ recreates = 0

Goto(b, l) == pc' = [pc EXCEPT ![b] = l]

\* A call returns: the statement makes another one or ends.
Return(b) == \E l \in {"call", "idle"} : Goto(b, l)

-----------------------------------------------------------------------------
(* Helpers that run inside a critical section, on the slots g.             *)

\* collect_retired_locked
CollectRetired(g) ==
  [i \in Slots |-> IF g[i].state = "retired" /\ g[i].readers = 0
                   THEN Unused ELSE g[i]]

\* discard_reserved_candidate_locked, for reservation r
DiscardCandidate(g, r) ==
  IF r.wasNew /\ g[r.cand].state = "prepared"
  THEN [g EXCEPT ![r.cand] = Unused] ELSE g

\* The pins that the owner slots o of the backends B hold on slot i: a
\* backend holds as many as its depth.
Pins(o, B, i) ==
  {p \in B \X (1..MaxDepth) : o[p[1]].slot = i /\ p[2] <= o[p[1]].depth}

\* clear_owner_locked for the backends in B: the readers they held are given
\* back, at most as many as are counted.
DropReaders(g, B) ==
  [i \in Slots |->
     [g[i] EXCEPT !.readers = LET held == Cardinality(Pins(owner, B, i))
                              IN  IF @ >= held THEN @ - held ELSE 0]]

\* find_generation_locked: the lowest slot in use for epoch e.
FindGeneration(g, e) ==
  LET found == {i \in Slots : g[i].state # "unused" /\ g[i].epoch = e}
  IN  IF found = {} THEN NoSlot ELSE Min(found)

\* allocate_generation_locked: the lowest free slot.
AllocateGeneration(g) ==
  LET free == {i \in Slots : g[i].state = "unused"}
  IN  IF free = {} THEN NoSlot ELSE Min(free)

\* install_active_locked refuses a slot that no longer holds the epoch.
Installable(g, i, e) == i # NoSlot /\ g[i].epoch = e

\* install_active_locked: slot i becomes active with sequence s, the former
\* active slot is retired and collected at once when nobody reads it.
InstallActive(g, i, s) ==
  CollectRetired(
    [k \in Slots |->
       CASE k = i      -> [g[k] EXCEPT !.seq = s, !.state = "active"]
         [] k = active /\ k # i -> [g[k] EXCEPT !.state = "retired"]
         [] OTHER      -> g[k]])

\* install_no_active_locked
RetireActive(g) ==
  CollectRetired(
    [k \in Slots |-> IF k = active THEN [g[k] EXCEPT !.state = "retired"]
                                   ELSE g[k]])

\* reclaim_stale_owners_locked: pins of backends that are gone, a PREPARED
\* reservation whose owner is gone, and drained retired generations.
Gone == {b \in Backends : pc[b] = "down" /\ owner[b].depth # 0}
GoneReservation == resv.state = "prepared" /\ pc[resv.owner] = "down"
ReclaimedResv   == IF GoneReservation THEN NoResv ELSE resv
ReclaimedOwner  == [b \in Backends |-> IF b \in Gone THEN NoPin ELSE owner[b]]
ReclaimedSlots  ==
  LET g == DropReaders(slots, Gone)
  IN  CollectRetired(IF GoneReservation THEN DiscardCandidate(g, resv) ELSE g)

\* The critical section does nothing but reclaim.
Reclaim ==
  /\ slots' = ReclaimedSlots
  /\ resv' = ReclaimedResv
  /\ owner' = ReclaimedOwner

\* The reservation is the pending one of backend b.
OwnsReservation(b) ==
  /\ pending[b] # NoPending
  /\ resv.serial = pending[b].serial
  /\ resv.owner = b

\* abort_pending_locked
AbortPending(b) ==
  /\ slots' = IF OwnsReservation(b) THEN DiscardCandidate(slots, resv)
                                     ELSE slots
  /\ resv' = IF OwnsReservation(b) THEN NoResv ELSE resv
  /\ pending' = [pending EXCEPT ![b] = NoPending]

-----------------------------------------------------------------------------
(* Attaching, and making a backend ready: ensure_control_ready.            *)

\* A new process in backend slot b attaches the segment.  A pin or PREPARED
\* reservation left by the slot's former process is forgotten.
Start(b) ==
  /\ pc[b] = "down"
  /\ slots' = IF owner[b].depth # 0 THEN DropReaders(slots, {b}) ELSE slots
  /\ owner' = [owner EXCEPT ![b] = NoPin]
  /\ resv' = IF resv.state = "prepared" /\ resv.owner = b THEN NoResv ELSE resv
  /\ synced' = [synced EXCEPT ![b] = FALSE]
  /\ Goto(b, "idle")
  /\ UNCHANGED <<active, nextSerial, durableVars, snap, obs, pending, dirty,
                 nativeVars, boundVars>>

\* A statement that will use the registry starts: its snapshot is fixed now.
BeginStatement(b) ==
  /\ pc[b] = "idle"
  /\ snap' = [snap EXCEPT ![b] = catalog]
  /\ Goto(b, "call")
  /\ UNCHANGED <<sharedVars, durableVars, synced, obs, pending, dirty,
                 nativeVars, boundVars>>

\* perfcache_relcache_invalidation: some relation changed.
Invalidate(b) ==
  /\ pc[b] \in {"idle", "call"}
  /\ synced[b]
  /\ synced' = [synced EXCEPT ![b] = FALSE]
  /\ UNCHANGED <<sharedVars, durableVars, pc, snap, obs, pending, dirty,
                 nativeVars, boundVars>>

\* The sequence of the active generation, 0 when there is none.
CurrentSequence(g) == IF active = NoSlot THEN 0 ELSE g[active].seq

\* synchronize_from_catalog runs: no admission of its own is pending.
MustSync(b) == pc[b] = "call" /\ ~synced[b] /\ pending[b] = NoPending

\* Somebody holds a reservation, or the active generation is as recent as the
\* row: the backend counts as synchronized.
SyncKeep(b) ==
  /\ MustSync(b)
  /\ \/ ReclaimedResv.state # "none"
     \/ /\ snap[b].epoch # NoEpoch /\ active # NoSlot
        /\ snap[b].seq <= CurrentSequence(ReclaimedSlots)
  /\ Reclaim
  /\ synced' = [synced EXCEPT ![b] = TRUE]
  /\ Goto(b, "synced")
  /\ UNCHANGED <<active, nextSerial, durableVars, snap, obs, pending, dirty,
                 nativeVars, boundVars>>

\* The row has no active epoch: withdraw the shared one and destroy the native
\* registry, which is an ERROR while this backend has it pinned.
SyncWithdraw(b) ==
  /\ MustSync(b)
  /\ snap[b].epoch = NoEpoch
  /\ ReclaimedResv.state = "none"
  /\ slots' = RetireActive(ReclaimedSlots)
  /\ active' = NoSlot
  /\ resv' = ReclaimedResv
  /\ owner' = ReclaimedOwner
  /\ IF owner[b].depth = 0
     THEN /\ nativeActive' = [nativeActive EXCEPT ![b] = NoEpoch]
          /\ mapped' = [mapped EXCEPT ![b] = {}]
          /\ synced' = [synced EXCEPT ![b] = TRUE]
          /\ Goto(b, "synced")
     ELSE Goto(b, "idle") /\ UNCHANGED <<synced, nativeVars>>
  /\ UNCHANGED <<nextSerial, durableVars, snap, obs, pending, dirty, boundVars>>

\* The row is newer than the shared active generation, or there is none:
\* install_reconciled_active_locked.  No slot left is an ERROR.
SyncInstall(b) ==
  LET e == snap[b].epoch
      f == FindGeneration(ReclaimedSlots, e)
      i == IF f # NoSlot THEN f ELSE AllocateGeneration(ReclaimedSlots)
  IN  /\ MustSync(b)
      /\ e # NoEpoch
      /\ ReclaimedResv.state = "none"
      /\ active = NoSlot \/ snap[b].seq > CurrentSequence(ReclaimedSlots)
      /\ resv' = ReclaimedResv
      /\ owner' = ReclaimedOwner
      /\ IF i # NoSlot
         THEN /\ slots' = InstallActive([ReclaimedSlots EXCEPT ![i].epoch = e],
                                        i, snap[b].seq)
              /\ active' = i
              /\ synced' = [synced EXCEPT ![b] = TRUE]
              /\ Goto(b, "synced")
         ELSE /\ slots' = ReclaimedSlots
              /\ Goto(b, "idle")
              /\ UNCHANGED <<active, synced>>
      /\ UNCHANGED <<nextSerial, durableVars, snap, obs, pending, dirty,
                     nativeVars, boundVars>>

\* resolve_committing_reservation, first section: copy a COMMITTING one.
ObserveReservation(b) ==
  /\ \/ pc[b] = "synced"
     \/ pc[b] = "call" /\ (synced[b] \/ pending[b] # NoPending)
  /\ obs' = [obs EXCEPT ![b] =
                IF resv.state = "committing" THEN resv.serial ELSE 0]
  /\ Goto(b, IF resv.state = "committing" THEN "resolve" ELSE "ready")
  /\ UNCHANGED <<sharedVars, durableVars, snap, synced, pending, dirty,
                 nativeVars, boundVars>>

\* Second section: nothing to do while the transaction runs, or when the
\* reservation is no longer the one observed.
Observed(b) == resv.state = "committing" /\ resv.serial = obs[b]

ResolveNothing(b) ==
  /\ pc[b] = "resolve"
  /\ clog[obs[b]] = "open" \/ ~Observed(b)
  /\ obs' = [obs EXCEPT ![b] = 0]
  /\ Goto(b, "ready")
  /\ UNCHANGED <<sharedVars, durableVars, snap, synced, pending, dirty,
                 nativeVars, boundVars>>

\* Fault: the helper does not ask how the transaction ended.
ResolveBlindly(b) ==
  /\ pc[b] = "resolve"
  /\ clog[obs[b]] # "open" /\ Observed(b)
  /\ Installable(slots, resv.cand, resv.epoch)
  /\ slots' = InstallActive(slots, resv.cand, resv.seq)
  /\ active' = resv.cand
  /\ resv' = NoResv
  /\ obs' = [obs EXCEPT ![b] = 0]
  /\ Goto(b, "ready")
  /\ UNCHANGED <<nextSerial, owner, durableVars, snap, synced, pending, dirty,
                 nativeVars, boundVars>>

\* The transaction committed: complete its handoff.
ResolveCommitted(b) ==
  /\ pc[b] = "resolve"
  /\ clog[obs[b]] = "committed" /\ Observed(b)
  /\ Installable(slots, resv.cand, resv.epoch)
  /\ slots' = InstallActive(slots, resv.cand, resv.seq)
  /\ active' = resv.cand
  /\ resv' = NoResv
  /\ obs' = [obs EXCEPT ![b] = 0]
  /\ Goto(b, "ready")
  /\ UNCHANGED <<nextSerial, owner, durableVars, snap, synced, pending, dirty,
                 nativeVars, boundVars>>

\* It committed but the slot no longer holds the epoch: the call is refused
\* (CAPACITY_EXHAUSTED) and the reservation stays.
ResolveStuck(b) ==
  /\ pc[b] = "resolve"
  /\ clog[obs[b]] = "committed" /\ Observed(b)
  /\ ~Installable(slots, resv.cand, resv.epoch)
  /\ obs' = [obs EXCEPT ![b] = 0]
  /\ Return(b)
  /\ UNCHANGED <<sharedVars, durableVars, snap, synced, pending, dirty,
                 nativeVars, boundVars>>

\* Fault: the reservation of an aborted transaction is kept.
ResolveAbortedKeeping(b) ==
  /\ pc[b] = "resolve"
  /\ clog[obs[b]] = "aborted" /\ Observed(b)
  /\ slots' = DiscardCandidate(slots, resv)
  /\ obs' = [obs EXCEPT ![b] = 0]
  /\ Goto(b, "ready")
  /\ UNCHANGED <<active, resv, nextSerial, owner, durableVars, snap, synced,
                 pending, dirty, nativeVars, boundVars>>

\* It aborted: give its candidate up.
ResolveAborted(b) ==
  /\ pc[b] = "resolve"
  /\ clog[obs[b]] = "aborted" /\ Observed(b)
  /\ slots' = DiscardCandidate(slots, resv)
  /\ resv' = NoResv
  /\ obs' = [obs EXCEPT ![b] = 0]
  /\ Goto(b, "ready")
  /\ UNCHANGED <<active, nextSerial, owner, durableVars, snap, synced, pending,
                 dirty, nativeVars, boundVars>>

\* snapshot_get; also any call that is refused after its first reclaim.
SnapshotGet(b) ==
  /\ pc[b] = "ready"
  /\ Reclaim
  /\ Return(b)
  /\ UNCHANGED <<active, nextSerial, durableVars, snap, synced, obs, pending,
                 dirty, nativeVars, boundVars>>

-----------------------------------------------------------------------------
(* Admitting an epoch.                                                     *)

\* prepare_native_admission and the compare that follows it: the native
\* registry expects to replace the epoch it has active itself, which has to
\* be the one of the manifest's context, and so has the caller's.
NativeAdmits(b, e, x) ==
  /\ nativeActive[b] \in {NoEpoch, Context[e]}
  /\ x.epoch \in {NoEpoch, Context[e]}

\* The caller's expectation x of sequence and epoch, none being (0, none).
ExpectedMatches(g, x) ==
  IF x.epoch # NoEpoch
  THEN active # NoSlot /\ g[active].seq = x.seq /\ g[active].epoch = x.epoch
  ELSE active = NoSlot /\ x.seq = 0

\* admit_epoch_metadata up to the unlock: reserve the handoff to epoch e, in
\* the slot that already holds e or in a free one.
Admit(b, e, x) ==
  LET f == FindGeneration(ReclaimedSlots, e)
      i == IF f # NoSlot THEN f ELSE AllocateGeneration(ReclaimedSlots)
  IN  /\ pc[b] = "ready"
      /\ pending[b] = NoPending
      /\ NativeAdmits(b, e, x)
      /\ ReclaimedResv.state = "none"
      /\ ExpectedMatches(ReclaimedSlots, x)
      /\ i # NoSlot
      /\ nextSerial <= MaxSerial /\ x.seq < MaxSerial
      /\ slots' = IF f # NoSlot THEN ReclaimedSlots
                  ELSE [ReclaimedSlots EXCEPT ![i].epoch = e,
                                              ![i].state = "prepared"]
      /\ resv' = [state |-> "prepared", serial |-> nextSerial, owner |-> b,
                  epoch |-> e, seq |-> x.seq + 1, cand |-> i,
                  wasNew |-> f = NoSlot]
      /\ nextSerial' = nextSerial + 1
      /\ owner' = ReclaimedOwner
      /\ pending' = [pending EXCEPT ![b] =
                       [serial |-> nextSerial, expected |-> x, epoch |-> e,
                        cand |-> i]]
      /\ Goto(b, "persist")
      /\ UNCHANGED <<active, durableVars, snap, synced, obs, dirty, nativeVars,
                     boundVars>>

\* Fault: the update compares nothing, the reservation being exclusive.
CatalogMatchesUnchecked(x) == TRUE

\* The WHERE clause of update_sql: sequence, presence and epoch.
CatalogMatches(x) == catalog = x

\* No other transaction holds the row.
RowFree(b) == \A c \in Backends \ {b} : dirty[c] = NoRow

\* persist_admission updates the control row inside the transaction.
Persist(b) ==
  /\ pc[b] = "persist" /\ RowFree(b)
  /\ CatalogMatches(pending[b].expected)
  /\ dirty' = [dirty EXCEPT ![b] = [seq   |-> pending[b].expected.seq + 1,
                                    epoch |-> pending[b].epoch]]
  /\ Return(b)
  /\ UNCHANGED <<sharedVars, durableVars, snap, synced, obs, pending,
                 nativeVars, boundVars>>

\* The row is not as expected: the admission is given up.
PersistMismatch(b) ==
  /\ pc[b] = "persist" /\ RowFree(b)
  /\ ~CatalogMatches(pending[b].expected)
  /\ AbortPending(b)
  /\ Return(b)
  /\ UNCHANGED <<active, nextSerial, owner, durableVars, snap, synced, obs,
                 dirty, nativeVars, boundVars>>

\* XACT_EVENT_PRE_COMMIT, first section: the reservation is still ours.
PreCommitCheck(b) ==
  /\ pc[b] = "idle"
  /\ dirty[b] # NoRow
  /\ OwnsReservation(b)
  /\ Reclaim
  /\ Goto(b, "precommit")
  /\ UNCHANGED <<active, nextSerial, durableVars, snap, synced, obs, pending,
                 dirty, nativeVars, boundVars>>

\* Second section: mark it COMMITTING.
PreCommitMark(b) ==
  /\ pc[b] = "precommit"
  /\ resv' = IF OwnsReservation(b) THEN [resv EXCEPT !.state = "committing"]
                                    ELSE resv
  /\ Goto(b, "committing")
  /\ UNCHANGED <<slots, active, nextSerial, owner, durableVars, snap, synced,
                 obs, pending, dirty, nativeVars, boundVars>>

\* PostgreSQL writes the commit record and ends the transaction.
DurableCommit(b) ==
  /\ pc[b] = "committing"
  /\ catalog' = dirty[b]
  /\ committed' = committed \cup {dirty[b]}
  /\ clog' = [clog EXCEPT ![pending[b].serial] = "committed"]
  /\ dirty' = [dirty EXCEPT ![b] = NoRow]
  /\ Goto(b, "committed")
  /\ UNCHANGED <<sharedVars, snap, synced, obs, pending, nativeVars, boundVars>>

\* XACT_EVENT_COMMIT: activate natively, then hand the shared registry over
\* unless a helper has done so, or the candidate is gone.
CommitCallback(b) ==
  /\ pc[b] = "committed"
  /\ nativeActive' = [nativeActive EXCEPT ![b] = pending[b].epoch]
  /\ mapped' = [mapped EXCEPT ![b] = @ \cup {pending[b].epoch}]
  /\ IF /\ OwnsReservation(b)
        /\ Installable(slots, pending[b].cand, pending[b].epoch)
     THEN /\ slots' = InstallActive(slots, pending[b].cand,
                                    pending[b].expected.seq + 1)
          /\ active' = pending[b].cand
          /\ resv' = NoResv
     ELSE UNCHANGED <<slots, active, resv>>
  /\ pending' = [pending EXCEPT ![b] = NoPending]
  /\ Goto(b, "idle")
  /\ UNCHANGED <<nextSerial, owner, durableVars, snap, synced, obs, dirty,
                 boundVars>>

\* The transaction fails, at any point before its commit record.
AbortTransaction(b) ==
  /\ pending[b] # NoPending
  /\ pc[b] \in {"idle", "call", "persist", "precommit", "committing"}
  /\ clog' = [clog EXCEPT ![pending[b].serial] = "aborted"]
  /\ dirty' = [dirty EXCEPT ![b] = NoRow]
  /\ Goto(b, "aborted")
  /\ UNCHANGED <<sharedVars, catalog, committed, snap, synced, obs, pending,
                 nativeVars, boundVars>>

\* XACT_EVENT_ABORT
AbortCallback(b) ==
  /\ pc[b] = "aborted"
  /\ AbortPending(b)
  /\ Goto(b, "idle")
  /\ UNCHANGED <<active, nextSerial, owner, durableVars, snap, synced, obs,
                 dirty, nativeVars, boundVars>>

\* SUBXACT_EVENT_ABORT_SUB: the subtransaction that admitted rolls back.
SubAbort(b) ==
  /\ pc[b] \in {"idle", "call"}
  /\ pending[b] # NoPending
  /\ AbortPending(b)
  /\ dirty' = [dirty EXCEPT ![b] = NoRow]
  /\ UNCHANGED <<active, nextSerial, owner, durableVars, pc, snap, synced, obs,
                 nativeVars, boundVars>>

-----------------------------------------------------------------------------
(* Readers.                                                                *)

\* pin_generation up to the unlock, on the active slot or the slot of a
\* retained epoch: a backend pins one generation at a time, to any depth.
Pin(b, i) ==
  LET g == ReclaimedSlots
  IN  /\ pc[b] = "ready"
      /\ g[i].state \in {"active", "retired"}
      /\ \/ owner[b].depth = 0
         \/ owner[b].slot = i /\ owner[b].epoch = g[i].epoch
      /\ owner[b].depth < MaxDepth
      /\ slots' = [g EXCEPT ![i].readers = @ + 1]
      /\ owner' = [ReclaimedOwner EXCEPT ![b] =
                     [slot |-> i, epoch |-> g[i].epoch, depth |-> @.depth + 1]]
      /\ resv' = ReclaimedResv
      /\ Goto(b, "native")
      /\ UNCHANGED <<active, nextSerial, durableVars, snap, synced, obs,
                     pending, dirty, nativeVars, boundVars>>

\* pin_native_generation: the native registry has the epoch active or mapped,
\* or maps it from the manifest in the catalog.
NativePin(b) ==
  /\ pc[b] = "native"
  /\ mapped' = [mapped EXCEPT ![b] = @ \cup {owner[b].epoch}]
  /\ Return(b)
  /\ UNCHANGED <<sharedVars, durableVars, snap, synced, obs, pending, dirty,
                 nativeActive, boundVars>>

\* Fault: the generation is collected whoever else still reads it.
UnpinCollecting(b) ==
  /\ owner' = [owner EXCEPT ![b] =
                 IF owner[b].depth = 1 THEN NoPin
                 ELSE [owner[b] EXCEPT !.depth = @ - 1]]
  /\ slots' = [slots EXCEPT ![owner[b].slot] =
                 IF @.state = "retired" THEN Unused
                 ELSE [@ EXCEPT !.readers = @ - 1]]

\* release_pin_internal: the last reader of a retired generation frees it.
\* Nothing in the extension collects the native registry.
Unpin(b) ==
  /\ owner' = [owner EXCEPT ![b] =
                 IF owner[b].depth = 1 THEN NoPin
                 ELSE [owner[b] EXCEPT !.depth = @ - 1]]
  /\ slots' = CollectRetired(
                [slots EXCEPT ![owner[b].slot].readers = IF @ = 0 THEN 0 ELSE @ - 1])

\* The native generation cannot be pinned: the shared pin is given back.
NativePinFails(b) ==
  /\ pc[b] = "native"
  /\ Unpin(b)
  /\ Return(b)
  /\ UNCHANGED <<active, resv, nextSerial, durableVars, snap, synced, obs,
                 pending, dirty, nativeVars, boundVars>>

\* A pin is released by its holder or by the resource owner.
PinRelease(b) ==
  /\ pc[b] \in {"idle", "call"}
  /\ owner[b].depth # 0
  /\ Unpin(b)
  /\ UNCHANGED <<active, resv, nextSerial, durableVars, pc, snap, synced, obs,
                 pending, dirty, nativeVars, boundVars>>

-----------------------------------------------------------------------------
(* Exits, crashes, and recreating the extension.                           *)

\* release_backend_state runs before PostgreSQL aborts the transaction: it
\* drops the pin and a PREPARED reservation, and forgets the pending record,
\* so that the abort callback finds nothing to do.
Exit(b) ==
  /\ pc[b] \notin {"down", "committed", "aborted"}
  /\ exits < MaxExits
  /\ exits' = exits + 1
  /\ slots' = CollectRetired(DropReaders(slots, {b}))
  /\ owner' = [owner EXCEPT ![b] = NoPin]
  /\ resv' = IF resv.state = "prepared" /\ resv.owner = b THEN NoResv ELSE resv
  /\ clog' = IF pending[b] = NoPending THEN clog
             ELSE [clog EXCEPT ![pending[b].serial] = "aborted"]
  /\ pending' = [pending EXCEPT ![b] = NoPending]
  /\ dirty' = [dirty EXCEPT ![b] = NoRow]
  /\ synced' = [synced EXCEPT ![b] = FALSE]
  /\ snap' = [snap EXCEPT ![b] = NoRow]
  /\ obs' = [obs EXCEPT ![b] = 0]
  /\ nativeActive' = [nativeActive EXCEPT ![b] = NoEpoch]
  /\ mapped' = [mapped EXCEPT ![b] = {}]
  /\ Goto(b, "down")
  /\ UNCHANGED <<active, nextSerial, catalog, committed, crashes, recreates>>

\* The cluster restarts: the segment is initialized again, every process and
\* every uncommitted update is gone, the catalog is what was committed.
ClusterCrash ==
  /\ crashes < MaxCrashes
  /\ crashes' = crashes + 1
  /\ slots' = [i \in Slots |-> Unused]
  /\ active' = NoSlot
  /\ resv' = NoResv
  /\ nextSerial' = 1
  /\ owner' = [b \in Backends |-> NoPin]
  /\ clog' = [s \in Serials |-> "open"]
  /\ pc' = [b \in Backends |-> "down"]
  /\ snap' = [b \in Backends |-> NoRow]
  /\ synced' = [b \in Backends |-> FALSE]
  /\ obs' = [b \in Backends |-> 0]
  /\ pending' = [b \in Backends |-> NoPending]
  /\ dirty' = [b \in Backends |-> NoRow]
  /\ nativeActive' = [b \in Backends |-> NoEpoch]
  /\ mapped' = [b \in Backends |-> {}]
  /\ UNCHANGED <<catalog, committed, exits, recreates>>

\* DROP EXTENSION; CREATE EXTENSION between two statements: a new control row.
\* The table lock waits for every transaction that read or updated the old
\* row; a pin alone holds no lock.  Backends hear of it by Invalidate.
RecreateExtension ==
  /\ recreates < MaxRecreates
  /\ recreates' = recreates + 1
  /\ \A b \in Backends :
       pc[b] \in {"down", "idle"} /\ pending[b] = NoPending
  /\ catalog' = NoRow
  /\ UNCHANGED <<sharedVars, committed, clog, pc, snap, synced, obs, pending,
                 dirty, nativeVars, exits, crashes>>

-----------------------------------------------------------------------------

Synchronize(b) ==
  SyncKeep(b) \/ SyncWithdraw(b) \/ SyncInstall(b)

Resolve(b) ==
  \/ ResolveNothing(b) \/ ResolveCommitted(b)
  \/ ResolveStuck(b) \/ ResolveAborted(b)

Call(b) ==
  \/ SnapshotGet(b)
  \/ \E e \in Epochs, x \in Row : Admit(b, e, x)
  \/ \E i \in Slots : Pin(b, i)
  \/ NativePin(b) \/ NativePinFails(b)

Transaction(b) ==
  \/ Persist(b) \/ PersistMismatch(b)
  \/ PreCommitCheck(b) \/ PreCommitMark(b)
  \/ DurableCommit(b) \/ CommitCallback(b)
  \/ AbortTransaction(b) \/ AbortCallback(b) \/ SubAbort(b)

BackendNext(b) ==
  \/ Start(b) \/ BeginStatement(b) \/ Invalidate(b)
  \/ Synchronize(b) \/ ObserveReservation(b) \/ Resolve(b) \/ Call(b)
  \/ Transaction(b) \/ PinRelease(b) \/ Exit(b)

Next == (\E b \in Backends : BackendNext(b)) \/ ClusterCrash \/ RecreateExtension

Spec == Init /\ [][Next]_vars

\* What a backend does next of its own accord: a call runs to its end, a
\* commit or abort under way finishes, clients reconnect and go on making
\* calls.  Nothing forces a client to commit.
Progress(b) ==
  \/ Start(b) \/ BeginStatement(b)
  \/ Synchronize(b) \/ ObserveReservation(b) \/ Resolve(b) \/ SnapshotGet(b)
  \/ NativePin(b) \/ NativePinFails(b)
  \/ Persist(b) \/ PersistMismatch(b) \/ PreCommitMark(b) \/ DurableCommit(b)
  \/ CommitCallback(b) \/ AbortCallback(b)

\* Pins are released at the latest by the resource owner.
Fairness ==
  \A b \in Backends : WF_vars(Progress(b)) /\ WF_vars(PinRelease(b))

FairSpec == Spec /\ Fairness

-----------------------------------------------------------------------------
(* What the control plane promises.                                        *)

\* The reader count of a slot is what the backends have pinned of it: no
\* release, exit, abort or reclaim loses or invents a reader.
ReadersAreOwnerDepths ==
  \A i \in Slots : slots[i].readers = Cardinality(Pins(owner, Backends, i))

\* A generation a backend has pinned keeps its slot and its epoch and is not
\* handed to another epoch, whatever is activated, withdrawn or discarded.
PinnedGenerationRetained ==
  \A b \in Backends : owner[b].depth # 0 =>
    /\ slots[owner[b].slot].state \in {"active", "retired"}
    /\ slots[owner[b].slot].epoch = owner[b].epoch

\* One slot is active exactly when it is the active slot; two slots never
\* hold one epoch; a retired slot is kept for a reader (release, exit and
\* handoff collect it otherwise), so retired slots cannot fill the table.
SlotsAreConsistent ==
  /\ \A i \in Slots : slots[i].state = "active" <=> i = active
  /\ \A i, j \in Slots :
       slots[i].state # "unused" /\ slots[i].epoch = slots[j].epoch => i = j
  /\ \A i \in Slots : slots[i].state = "retired" => slots[i].readers # 0

\* What readers are given as active was committed to the catalog first: an
\* aborted or crashed admission is never published, by its own backend or by
\* a helper that finishes it.
PublishedWasCommitted ==
  active # NoSlot =>
    [seq |-> slots[active].seq, epoch |-> slots[active].epoch] \in committed

\* While a reservation exists nobody changes the active generation, so the
\* handoff replaces what the admission compared with.
ReservedOverExpected ==
  resv.state # "none" =>
    resv.seq = 1 + CurrentSequence(slots)

\* The sequence of the active generation never goes backwards from one
\* generation to the next, however late a callback or a helper is.
ActiveNeverRegresses ==
  [][ active # NoSlot /\ active' # NoSlot
        => slots[active].seq <= slots'[active'].seq ]_vars

\* The durable row moves from one committed activation to the next, by one,
\* to an epoch whose manifest was built on the epoch it replaces; only
\* recreating the extension takes it back.
DurableChain ==
  [][ catalog' # catalog /\ recreates' = recreates =>
        /\ catalog'.seq = catalog.seq + 1
        /\ catalog.epoch \in {NoEpoch, Context[catalog'.epoch]} ]_vars

\* A reservation marked COMMITTING does not stay: the backend's callback or
\* some helper completes or discards it, also when the backend exits between
\* marking it and its commit record.
CommittingIsResolved ==
  \A s \in Serials :
    (resv.state = "committing" /\ resv.serial = s) ~> (resv.serial # s)

-----------------------------------------------------------------------------
(* What comments and documents say, and the code does not do.              *)

\* perfcache_pg.c:1420: "a subsequent helper can complete the exact reserved
\* handoff": a committed reservation still has its candidate.
HelperCanComplete ==
  resv.state = "committing" => Installable(slots, resv.cand, resv.epoch)

\* perfcache_pg.c:496: "Activation must still have room for both the formerly
\* active generation and its candidate": with no reservation a slot is free.
RoomForCandidate ==
  resv.state = "none" => \E i \in Slots : slots[i].state = "unused"

\* ACCEPTANCE.md:358: "new work observes the new generation": an activated
\* generation is withdrawn only when the catalog has none.
NewWorkObservesActive ==
  [][ active # NoSlot /\ active' = NoSlot
        => catalog.epoch = NoEpoch \/ crashes' # crashes ]_vars

\* OPERATIONAL_MODEL.md:224: "retire old mapping after the final reader
\* drains": a mapping that is neither active nor pinned in its backend goes.
Drained(b, e) ==
  /\ e \in mapped[b] /\ nativeActive[b] # e
  /\ owner[b].depth # 0 => owner[b].epoch # e

OldMappingsAreRetired ==
  \A b \in Backends, e \in Epochs : Drained(b, e) ~> ~Drained(b, e)
=============================================================================
