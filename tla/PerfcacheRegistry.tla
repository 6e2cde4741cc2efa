-------------------------- MODULE PerfcacheRegistry --------------------------
(***************************************************************************)
(* The native perfcache registry of engine/src/perfcache_registry.cpp:     *)
(* immutable generations that are prepared outside the lock, reserved      *)
(* against an expected epoch, committed as the active generation, pinned   *)
(* by readers, retired by the next commit, and collected once drained.     *)
(*                                                                         *)
(* Every call is one critical section of registry->mutex, so an action is  *)
(* one critical section.  What a call does outside the lock is a step of   *)
(* its own: opening the artifacts of a generation (loading) and closing    *)
(* generations that were unlinked under the lock (closing).  A client with *)
(* such work outstanding has not returned from its call and makes no       *)
(* other.  A generation is a heap object: Gens are its addresses, which    *)
(* are reused after the object is deleted.                                 *)
(*                                                                         *)
(* The retired list is a set: its order decides only which of two retired  *)
(* generations of one epoch FindGeneration returns, and the model lets it  *)
(* return either.                                                          *)
(***************************************************************************)
EXTENDS Naturals, FiniteSets, TLC

CONSTANTS
  Clients,     \* threads calling the registry
  Gens,        \* addresses of LoadedGeneration objects
  Epochs,      \* activation epochs (identifier and fingerprint)
  NoGen,       \* the null LoadedGeneration*
  NoEpoch,     \* has_expected_epoch = 0
  NoClient,    \* the null reservation
  MaxReaders   \* the largest value of a reader counter (UINT64_MAX)

ASSUME ClientsAssumption == IsFiniteSet(Clients) /\ NoClient \notin Clients
ASSUME GensAssumption    == NoGen \notin Gens
ASSUME EpochsAssumption  == NoEpoch \notin Epochs
ASSUME ReadersAssumption == MaxReaders \in Nat \ {0}

VARIABLES
  (* the registry, guarded by its mutex *)
  active,        \* registry->active
  retired,       \* registry->retired
  reservation,   \* the client whose activation holds registry->reservation
  preparedCount, \* registry->prepared_count
  destroyed,     \* the registry has been deleted
  (* the heap of generations *)
  allocated,     \* addresses that hold a generation not yet deleted
  epoch,         \* generation->activation_epoch_id, epoch_fingerprint
  readOnly,      \* generation->context_flags has CONTEXT_READ_ONLY
  readers,       \* generation->readers
  (* the handles of each client *)
  prepared,      \* laplace_perfcache_prepared_generation* of the caller
  activation,    \* whether the client owns a laplace_perfcache_activation
  actPrepared,   \* activation->prepared
  ticket,        \* activation->ticket->generation
  expected,      \* activation->expected_epoch
  pin,           \* pin->generation
  pinEpoch,      \* pin->epoch
  (* calls in progress outside the lock *)
  loading,       \* the generation whose artifacts prepare is opening
  closing        \* generations unlinked and still to be closed

registryVars == <<active, retired, reservation, preparedCount, destroyed>>
heapVars     == <<allocated, epoch, readOnly, readers>>
actVars      == <<activation, actPrepared, ticket, expected>>
pinVars      == <<pin, pinEpoch>>
callVars     == <<loading, closing>>
vars == <<registryVars, heapVars, prepared, actVars, pinVars, callVars>>

Gen0   == Gens \cup {NoGen}
Epoch0 == Epochs \cup {NoEpoch}

TypeOK ==
  /\ active \in Gen0
  /\ retired \in SUBSET Gens
  /\ reservation \in Clients \cup {NoClient}
  /\ preparedCount \in Nat
  /\ destroyed \in BOOLEAN
  /\ allocated \in SUBSET Gens
  /\ epoch \in [Gens -> Epoch0]
  /\ readOnly \in [Gens -> BOOLEAN]
  /\ readers \in [Gens -> 0..MaxReaders]
  /\ prepared \in [Clients -> Gen0]
  /\ activation \in [Clients -> BOOLEAN]
  /\ actPrepared \in [Clients -> Gen0]
  /\ ticket \in [Clients -> Gen0]
  /\ expected \in [Clients -> Epoch0]
  /\ pin \in [Clients -> Gen0]
  /\ pinEpoch \in [Clients -> Epoch0]
  /\ loading \in [Clients -> Gen0]
  /\ closing \in [Clients -> SUBSET Gens]

\* laplace_perfcache_registry_create: no generation, no reservation.
Init ==
  /\ active = NoGen
  /\ retired = {}
  /\ reservation = NoClient
  /\ preparedCount = 0
  /\ destroyed = FALSE
  /\ allocated = {}
  /\ epoch = [g \in Gens |-> NoEpoch]
  /\ readOnly = [g \in Gens |-> FALSE]
  /\ readers = [g \in Gens |-> 0]
  /\ prepared = [c \in Clients |-> NoGen]
  /\ activation = [c \in Clients |-> FALSE]
  /\ actPrepared = [c \in Clients |-> NoGen]
  /\ ticket = [c \in Clients |-> NoGen]
  /\ expected = [c \in Clients |-> NoEpoch]
  /\ pin = [c \in Clients |-> NoGen]
  /\ pinEpoch = [c \in Clients |-> NoEpoch]
  /\ loading = [c \in Clients |-> NoGen]
  /\ closing = [c \in Clients |-> {}]

-----------------------------------------------------------------------------
(* Calls and the work they leave for after the lock.                       *)

\* The client is between calls.
Idle(c) == loading[c] = NoGen /\ closing[c] = {}

\* The client is between calls and the registry still exists.
MayCall(c) == ~destroyed /\ Idle(c)

\* The call unlinks the generations in S and closes them after the unlock.
CloseLater(c, S) == closing' = [closing EXCEPT ![c] = S]

\* FindGeneration: the generations of epoch e, the active one first.
FindGeneration(e) ==
  IF active # NoGen /\ epoch[active] = e
  THEN {active}
  ELSE {g \in retired : epoch[g] = e}

\* CloseGeneration: close the artifacts, delete the object.
CloseGeneration(c, g) ==
  /\ g \in closing[c]
  /\ closing' = [closing EXCEPT ![c] = @ \ {g}]
  /\ allocated' = allocated \ {g}
  /\ epoch' = [epoch EXCEPT ![g] = NoEpoch]
  /\ readOnly' = [readOnly EXCEPT ![g] = FALSE]
  /\ UNCHANGED <<registryVars, readers, prepared, actVars, pinVars, loading>>

-----------------------------------------------------------------------------
(* Preparing a generation.                                                 *)

\* prepare, up to the artifacts: a new generation of the request's epoch,
\* under a context that may be read-only.
PrepareBegin(c, g, e, ro) ==
  /\ MayCall(c)
  /\ prepared[c] = NoGen
  /\ g \notin allocated
  /\ allocated' = allocated \cup {g}
  /\ epoch' = [epoch EXCEPT ![g] = e]
  /\ readOnly' = [readOnly EXCEPT ![g] = ro]
  /\ readers' = [readers EXCEPT ![g] = 0]
  /\ loading' = [loading EXCEPT ![c] = g]
  /\ UNCHANGED <<registryVars, prepared, actVars, pinVars, closing>>

\* prepare fails on its manifest, module set, dependencies, an artifact, the
\* prefault or an allocation: the generation is closed and nothing returned.
PrepareFail(c) ==
  /\ loading[c] # NoGen
  /\ CloseLater(c, {loading[c]})
  /\ loading' = [loading EXCEPT ![c] = NoGen]
  /\ UNCHANGED <<registryVars, heapVars, prepared, actVars, pinVars>>

\* prepare succeeds: the handle is counted under the lock and returned.
PrepareDone(c) ==
  /\ loading[c] # NoGen
  /\ preparedCount' = preparedCount + 1
  /\ prepared' = [prepared EXCEPT ![c] = loading[c]]
  /\ loading' = [loading EXCEPT ![c] = NoGen]
  /\ UNCHANGED <<active, retired, reservation, destroyed, heapVars, actVars,
                 pinVars, closing>>

\* discard_prepared on the caller's handle.
DiscardPrepared(c) ==
  /\ MayCall(c)
  /\ prepared[c] # NoGen
  /\ preparedCount' = IF preparedCount = 0 THEN 0 ELSE preparedCount - 1
  /\ prepared' = [prepared EXCEPT ![c] = NoGen]
  /\ CloseLater(c, {prepared[c]})
  /\ UNCHANGED <<active, retired, reservation, destroyed, heapVars, actVars,
                 pinVars, loading>>

\* materialize_prepared: the generation becomes pinnable by its epoch, unread
\* and not active, unless its epoch is loaded already.
MaterializePrepared(c) ==
  /\ MayCall(c)
  /\ prepared[c] # NoGen
  /\ FindGeneration(epoch[prepared[c]]) = {}
  /\ preparedCount # 0
  /\ preparedCount' = preparedCount - 1
  /\ retired' = retired \cup {prepared[c]}
  /\ prepared' = [prepared EXCEPT ![c] = NoGen]
  /\ UNCHANGED <<active, reservation, destroyed, heapVars, actVars, pinVars,
                 callVars>>

-----------------------------------------------------------------------------
(* Activating a generation: the framework's activation provider.           *)

\* Fault: the caller keeps its prepared handle as well
\* (the build flag LAPLACE_TEST_RETAIN_PREPARED_OWNERSHIP).
ActivationCreateRetaining(c, x) ==
  /\ MayCall(c)
  /\ prepared[c] # NoGen
  /\ ~activation[c]
  /\ activation' = [activation EXCEPT ![c] = TRUE]
  /\ actPrepared' = [actPrepared EXCEPT ![c] = prepared[c]]
  /\ ticket' = [ticket EXCEPT ![c] = NoGen]
  /\ expected' = [expected EXCEPT ![c] = x]
  /\ UNCHANGED <<registryVars, heapVars, prepared, pinVars, callVars>>

\* activation_create takes the prepared handle over from the caller; x is the
\* epoch the activation expects to replace, NoEpoch when it expects none.
ActivationCreate(c, x) ==
  /\ MayCall(c)
  /\ prepared[c] # NoGen
  /\ ~activation[c]
  /\ activation' = [activation EXCEPT ![c] = TRUE]
  /\ actPrepared' = [actPrepared EXCEPT ![c] = prepared[c]]
  /\ ticket' = [ticket EXCEPT ![c] = NoGen]
  /\ expected' = [expected EXCEPT ![c] = x]
  /\ prepared' = [prepared EXCEPT ![c] = NoGen]
  /\ UNCHANGED <<registryVars, heapVars, pinVars, callVars>>

\* Fault: a first activation does not look for an active generation.
ExpectedMatchesUnguarded(x) ==
  x # NoEpoch => active # NoGen /\ epoch[active] = x

\* RegistryReserve's compare of the active epoch with the expected one.
ExpectedMatches(x) ==
  IF x # NoEpoch
  THEN active # NoGen /\ epoch[active] = x
  ELSE active = NoGen

\* PrepareFrameworkActivation: reserve the registry for this activation.  A
\* refused reservation leaves the prepared generation with the activation.
PrepareFrameworkActivation(c) ==
  /\ MayCall(c)
  /\ activation[c]
  /\ actPrepared[c] # NoGen
  /\ ticket[c] = NoGen
  /\ ~readOnly[actPrepared[c]]
  /\ reservation = NoClient
  /\ ExpectedMatches(expected[c])
  /\ preparedCount # 0
  /\ preparedCount' = preparedCount - 1
  /\ reservation' = c
  /\ ticket' = [ticket EXCEPT ![c] = actPrepared[c]]
  /\ actPrepared' = [actPrepared EXCEPT ![c] = NoGen]
  /\ UNCHANGED <<active, retired, destroyed, heapVars, prepared, activation,
                 expected, pinVars, callVars>>

\* Fault: the replaced generation is closed at once
\* (the build flag LAPLACE_TEST_CLOSE_PINNED_PERFCACHE_GENERATION).
CommitClosingPrevious(c) ==
  /\ MayCall(c)
  /\ ticket[c] # NoGen
  /\ reservation = c
  /\ active' = ticket[c]
  /\ CloseLater(c, {active} \ {NoGen})
  /\ reservation' = NoClient
  /\ ticket' = [ticket EXCEPT ![c] = NoGen]
  /\ UNCHANGED <<retired, preparedCount, destroyed, heapVars, prepared,
                 activation, actPrepared, expected, pinVars, loading>>

\* CommitFrameworkActivation: the reserved generation becomes active and the
\* one it replaces is retired, whether or not it has readers.
CommitFrameworkActivation(c) ==
  /\ MayCall(c)
  /\ ticket[c] # NoGen
  /\ reservation = c
  /\ active' = ticket[c]
  /\ retired' = retired \cup ({active} \ {NoGen})
  /\ reservation' = NoClient
  /\ ticket' = [ticket EXCEPT ![c] = NoGen]
  /\ UNCHANGED <<preparedCount, destroyed, heapVars, prepared, activation,
                 actPrepared, expected, pinVars, callVars>>

\* AbortFrameworkActivation: give the reservation up and close its generation.
AbortFrameworkActivation(c) ==
  /\ MayCall(c)
  /\ ticket[c] # NoGen
  /\ reservation = c
  /\ reservation' = NoClient
  /\ ticket' = [ticket EXCEPT ![c] = NoGen]
  /\ CloseLater(c, {ticket[c]})
  /\ UNCHANGED <<active, retired, preparedCount, destroyed, heapVars, prepared,
                 activation, actPrepared, expected, pinVars, loading>>

\* activation_destroy: abort what is reserved, discard what is prepared.
ActivationDestroy(c) ==
  /\ Idle(c)
  /\ activation[c]
  /\ activation' = [activation EXCEPT ![c] = FALSE]
  /\ reservation' = IF ticket[c] # NoGen /\ reservation = c
                    THEN NoClient ELSE reservation
  /\ preparedCount' = IF actPrepared[c] # NoGen /\ preparedCount # 0
                      THEN preparedCount - 1 ELSE preparedCount
  /\ CloseLater(c, {ticket[c], actPrepared[c]} \ {NoGen})
  /\ ticket' = [ticket EXCEPT ![c] = NoGen]
  /\ actPrepared' = [actPrepared EXCEPT ![c] = NoGen]
  /\ expected' = [expected EXCEPT ![c] = NoEpoch]
  /\ UNCHANGED <<active, retired, destroyed, heapVars, prepared, pinVars,
                 loading>>

-----------------------------------------------------------------------------
(* Readers.                                                                *)

\* Count one more reader of g and record it in the client's empty pin.
TakePin(c, g) ==
  /\ MayCall(c)
  /\ pin[c] = NoGen
  /\ readers[g] # MaxReaders
  /\ readers' = [readers EXCEPT ![g] = @ + 1]
  /\ pin' = [pin EXCEPT ![c] = g]
  /\ pinEpoch' = [pinEpoch EXCEPT ![c] = epoch[g]]
  /\ UNCHANGED <<registryVars, allocated, epoch, readOnly, prepared, actVars,
                 callVars>>

\* registry_pin: the active generation, of the expected epoch when one is given.
RegistryPin(c, x) ==
  /\ active # NoGen
  /\ x = NoEpoch \/ epoch[active] = x
  /\ TakePin(c, active)

\* registry_pin_epoch: whatever loaded generation has the epoch.
RegistryPinEpoch(c, e) == \E g \in FindGeneration(e) : TakePin(c, g)

\* pin_release: the count falls; nothing is collected.
PinRelease(c) ==
  /\ MayCall(c)
  /\ pin[c] # NoGen
  /\ readers[pin[c]] # 0
  /\ readers' = [readers EXCEPT ![pin[c]] = @ - 1]
  /\ pin' = [pin EXCEPT ![c] = NoGen]
  /\ pinEpoch' = [pinEpoch EXCEPT ![c] = NoEpoch]
  /\ UNCHANGED <<registryVars, allocated, epoch, readOnly, prepared, actVars,
                 callVars>>

\* Fault: the reader counters are not looked at.
DrainedUnread == retired

\* The retired generations nobody reads.
Drained == {g \in retired : readers[g] = 0}

\* registry_collect: unlink every drained generation, then close them.
Collect(c) ==
  /\ MayCall(c)
  /\ Drained # {}
  /\ retired' = retired \ Drained
  /\ CloseLater(c, Drained)
  /\ UNCHANGED <<active, reservation, preparedCount, destroyed, heapVars,
                 prepared, actVars, pinVars, loading>>

\* registry_destroy: refused while anything is reserved, prepared or read.
\* prepare reads the module table without the lock, so the owner must not
\* destroy the registry under it; every other call in progress has already
\* detached what it still needs.
RegistryDestroy(c) ==
  /\ MayCall(c)
  /\ \A d \in Clients : loading[d] = NoGen
  /\ reservation = NoClient
  /\ preparedCount = 0
  /\ active # NoGen => readers[active] = 0
  /\ Drained = retired
  /\ CloseLater(c, retired \cup ({active} \ {NoGen}))
  /\ active' = NoGen
  /\ retired' = {}
  /\ destroyed' = TRUE
  /\ UNCHANGED <<reservation, preparedCount, heapVars, prepared, actVars,
                 pinVars, loading>>

-----------------------------------------------------------------------------

ClientNext(c) ==
  \/ \E g \in Gens : CloseGeneration(c, g)
  \/ \E g \in Gens, e \in Epochs, ro \in BOOLEAN : PrepareBegin(c, g, e, ro)
  \/ PrepareFail(c)
  \/ PrepareDone(c)
  \/ DiscardPrepared(c)
  \/ MaterializePrepared(c)
  \/ \E x \in Epoch0 : ActivationCreate(c, x)
  \/ PrepareFrameworkActivation(c)
  \/ CommitFrameworkActivation(c)
  \/ AbortFrameworkActivation(c)
  \/ ActivationDestroy(c)
  \/ \E x \in Epoch0 : RegistryPin(c, x)
  \/ \E e \in Epochs : RegistryPinEpoch(c, e)
  \/ PinRelease(c)
  \/ Collect(c)
  \/ RegistryDestroy(c)

Next == \E c \in Clients : ClientNext(c)

Spec == Init /\ [][Next]_vars

-----------------------------------------------------------------------------
(* What the registry promises.                                             *)

\* The clients whose pin is on generation g.
PinsOn(g) == {c \in Clients : pin[c] = g}

\* A pinned generation stays loaded, in the registry and of the epoch the pin
\* recorded, through any commits, collections and aborts of other clients:
\* pin_lookup_batch and pin_view dereference it without the lock.
PinnedStaysLoaded ==
  \A c \in Clients : pin[c] # NoGen =>
    /\ pin[c] \in allocated
    /\ pin[c] = active \/ pin[c] \in retired
    /\ epoch[pin[c]] = pinEpoch[c]

\* The reader counter of a generation is the number of pins on it, so that
\* collect and destroy, which look only at the counter, decide about pins.
ReadersArePins ==
  \A g \in allocated : readers[g] = Cardinality(PinsOn(g))

\* The places that own a generation: two lists of the registry, and the
\* handles and calls in progress of each client.
Places  == {"active", "retired", "loading", "prepared", "actPrepared", "ticket",
            "closing"}
Holders == Clients \cup {NoClient}

Owns(k, c, g) ==
  \/ k = "active"      /\ c = NoClient /\ active = g
  \/ k = "retired"     /\ c = NoClient /\ g \in retired
  \/ k = "loading"     /\ c \in Clients /\ loading[c] = g
  \/ k = "prepared"    /\ c \in Clients /\ prepared[c] = g
  \/ k = "actPrepared" /\ c \in Clients /\ actPrepared[c] = g
  \/ k = "ticket"      /\ c \in Clients /\ ticket[c] = g
  \/ k = "closing"     /\ c \in Clients /\ g \in closing[c]

OwnersOf(g) == {o \in Places \X Holders : Owns(o[1], o[2], g)}

\* A generation never has two owners (it would be closed twice) and a loaded
\* one always has an owner (it would never be closed), whatever fails.
OwnedExactlyOnce ==
  \A g \in Gens :
    /\ \A o, p \in OwnersOf(g) : o = p
    /\ g \in allocated <=> OwnersOf(g) # {}

\* The clients with a prepared handle of their own, and those whose
\* activation owns one.
HandleHolders == {c \in Clients : prepared[c] # NoGen}
ActivationHolders == {c \in Clients : actPrepared[c] # NoGen}

\* prepared_count counts the prepared handles: a handle that is reserved,
\* materialized or discarded never finds it zero (the branches that would
\* then leak the generation are dead) and destroy is not refused for ever.
PreparedCountIsExact ==
  preparedCount = Cardinality(HandleHolders) + Cardinality(ActivationHolders)

\* What client c expects to replace is what is active, stated apart from
\* the compare RegistryReserve makes.
ReplacesExpected(c) ==
  expected[c] = IF active = NoGen THEN NoEpoch ELSE epoch[active]

\* The compare of reservation still holds when the commit acts on it: while
\* a ticket exists the active generation is the one it expects to replace.
ReservationHoldsExpected ==
  /\ \A c \in Clients : ticket[c] # NoGen <=> reservation = c
  /\ \A c \in Clients : reservation = c => ReplacesExpected(c)

\* The active generation changes only when a reservation commits over exactly
\* the epoch it expected, and the replaced one is retired, not dropped; or
\* when the registry is destroyed.
HandoffReplacesExpected ==
  [][ active' # active =>
        \/ destroyed'
        \/ \E c \in Clients :
             /\ reservation = c /\ active' = ticket[c]
             /\ ~readOnly[ticket[c]]
             /\ ReplacesExpected(c)
             /\ active # NoGen => active \in retired' ]_vars

\* Once destroyed, the registry is reachable from no handle and every
\* generation is on its way to being closed.
DestroyedOnlyWhenIdle ==
  destroyed =>
    /\ \A c \in Clients : pin[c] = NoGen /\ prepared[c] = NoGen
                          /\ actPrepared[c] = NoGen /\ ticket[c] = NoGen
    /\ allocated = UNION {closing[c] : c \in Clients}

-----------------------------------------------------------------------------
(* The registry implements GenerationHandoff.                              *)

Current == IF active = NoGen THEN NoEpoch ELSE epoch[active]

\* The tickets as what they replace by what.
Reserved ==
  {[from |-> expected[c], to |-> epoch[ticket[c]]] :
     c \in {d \in Clients : ticket[d] # NoGen}}

\* The epochs of the generations FindGeneration can return.
Findable == {epoch[g] : g \in retired \cup ({active} \ {NoGen})}

\* What a reader reads through its pin is what the generation's memory says.
Held == [c \in Clients |-> IF pin[c] = NoGen THEN NoEpoch ELSE epoch[pin[c]]]

Handoff == INSTANCE GenerationHandoff WITH
  current <- Current, reserved <- Reserved, readable <- Findable,
  holds <- Held, shut <- destroyed

\* Every critical section of the registry is a step of the abstract handoff or
\* invisible to it: a reader never loses what it reads, a commit replaces what
\* its reservation compared, whatever the heap, the counters and the other
\* clients do in between.
ImplementsHandoff == Handoff!HandoffSpec

\* For TLC: clients, generations and epochs are interchangeable.
Symmetry ==
  Permutations(Clients) \cup Permutations(Gens) \cup Permutations(Epochs)
=============================================================================
