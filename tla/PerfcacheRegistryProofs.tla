----------------------- MODULE PerfcacheRegistryProofs -----------------------
(***************************************************************************)
(* Theorems about PerfcacheRegistry, for every number of clients,          *)
(* generations and epochs, and the proof that it implements                *)
(* GenerationHandoff.                                                      *)
(***************************************************************************)
EXTENDS PerfcacheRegistry, FiniteSetTheorems, TLAPS

-----------------------------------------------------------------------------
(* Type correctness.                                                       *)

\* A pin taken on a generation of the heap keeps the types.
LEMMA TakePinType ==
  ASSUME NEW c \in Clients, NEW g \in Gens, TypeOK, TakePin(c, g)
  PROVE  TypeOK'
BY ReadersAssumption
   DEF TypeOK, TakePin, MayCall, Idle, Gen0, Epoch0, registryVars, actVars,
       callVars

\* Every call of perfcache_registry.cpp keeps the types.
LEMMA TypeStep == TypeOK /\ [Next]_vars => TypeOK'
<1> SUFFICES ASSUME TypeOK, [Next]_vars PROVE TypeOK'
  OBVIOUS
<1> USE DEF Gen0, Epoch0
<1>1. CASE UNCHANGED vars
  BY <1>1 DEF TypeOK, vars, registryVars, heapVars, actVars, pinVars, callVars
<1>2. ASSUME NEW c \in Clients, ClientNext(c) PROVE TypeOK'
  <2> USE DEF TypeOK, MayCall, Idle, CloseLater, registryVars, heapVars,
              actVars, pinVars, callVars
  <2>1. ASSUME NEW g \in Gens, CloseGeneration(c, g) PROVE TypeOK'
    BY <2>1 DEF CloseGeneration
  <2>2. ASSUME NEW g \in Gens, NEW e \in Epochs, NEW ro \in BOOLEAN,
               PrepareBegin(c, g, e, ro)
        PROVE  TypeOK'
    BY <2>2, ReadersAssumption DEF PrepareBegin
  <2>3. CASE PrepareFail(c)
    BY <2>3 DEF PrepareFail
  <2>4. CASE PrepareDone(c)
    BY <2>4 DEF PrepareDone
  <2>5. CASE DiscardPrepared(c)
    BY <2>5 DEF DiscardPrepared
  <2>6. CASE MaterializePrepared(c)
    BY <2>6 DEF MaterializePrepared
  <2>7. ASSUME NEW x \in Epoch0, ActivationCreate(c, x) PROVE TypeOK'
    BY <2>7 DEF ActivationCreate
  <2>8. CASE PrepareFrameworkActivation(c)
    BY <2>8 DEF PrepareFrameworkActivation
  <2>9. CASE CommitFrameworkActivation(c)
    BY <2>9 DEF CommitFrameworkActivation
  <2>10. CASE AbortFrameworkActivation(c)
    BY <2>10 DEF AbortFrameworkActivation
  <2>11. CASE ActivationDestroy(c)
    BY <2>11 DEF ActivationDestroy
  <2>12. ASSUME NEW x \in Epoch0, RegistryPin(c, x) PROVE TypeOK'
    BY <2>12, TakePinType DEF RegistryPin
  <2>13. ASSUME NEW e \in Epochs, RegistryPinEpoch(c, e) PROVE TypeOK'
    <3>1. PICK g \in FindGeneration(e) : TakePin(c, g)
      BY <2>13 DEF RegistryPinEpoch
    <3>2. g \in Gens
      BY <3>1 DEF FindGeneration
    <3>3. QED
      BY <3>1, <3>2, TakePinType
  <2>14. CASE PinRelease(c)
    <3>1. pin[c] \in Gens /\ readers[pin[c]] - 1 \in 0..MaxReaders
      BY <2>14, ReadersAssumption, SMTT(20) DEF PinRelease
    <3>2. readers' \in [Gens -> 0..MaxReaders]
      BY <2>14, <3>1 DEF PinRelease
    <3>3. QED
      BY <2>14, <3>2 DEF PinRelease
  <2>15. CASE Collect(c)
    BY <2>15 DEF Collect, Drained
  <2>16. CASE RegistryDestroy(c)
    BY <2>16 DEF RegistryDestroy
  <2>17. QED
    BY <1>2, <2>1, <2>2, <2>3, <2>4, <2>5, <2>6, <2>7, <2>8, <2>9, <2>10,
       <2>11, <2>12, <2>13, <2>14, <2>15, <2>16 DEF ClientNext
<1>3. QED
  BY <1>1, <1>2 DEF Next

\* registry_create establishes the types.
LEMMA TypeInit == Init => TypeOK
<1> SUFFICES ASSUME Init PROVE TypeOK
  OBVIOUS
<1>1. 0 \in 0..MaxReaders
  BY ReadersAssumption
<1>2. /\ destroyed \in BOOLEAN
      /\ readOnly \in [Gens -> BOOLEAN]
      /\ activation \in [Clients -> BOOLEAN]
  BY Zenon DEF Init
<1>3. QED
  BY <1>1, <1>2 DEF Init, TypeOK, Gen0, Epoch0

\* The registry, its heap and the clients' handles keep their types.
THEOREM TypeCorrect == Spec => []TypeOK
BY TypeInit, TypeStep, PTL DEF Spec

-----------------------------------------------------------------------------
(* The cases of a step.                                                    *)

\* Both ways to take a pin take it on a generation of the registry.
LEMMA PinCases ==
  ASSUME NEW c \in Clients, TypeOK,
         \/ \E x \in Epoch0 : RegistryPin(c, x)
         \/ \E e \in Epochs : RegistryPinEpoch(c, e)
  PROVE  \E g \in Gens : (g = active \/ g \in retired) /\ TakePin(c, g)
<1>1. ASSUME NEW x \in Epoch0, RegistryPin(c, x)
      PROVE  active \in Gens /\ TakePin(c, active)
  BY <1>1 DEF RegistryPin, TypeOK, Gen0
<1>2. ASSUME NEW e \in Epochs, RegistryPinEpoch(c, e)
      PROVE  \E g \in Gens : (g = active \/ g \in retired) /\ TakePin(c, g)
  <2>1. PICK g \in FindGeneration(e) : TakePin(c, g)
    BY <1>2 DEF RegistryPinEpoch
  <2>2. g \in Gens /\ (g = active \/ g \in retired)
    BY <2>1 DEF FindGeneration, TypeOK, Gen0
  <2>3. QED
    BY <2>1, <2>2
<1>3. QED
  BY <1>1, <1>2

LEMMA ClientCases ==
  ASSUME NEW c \in Clients, TypeOK, ClientNext(c)
  PROVE  \/ \E g \in Gens : CloseGeneration(c, g)
         \/ \E g \in Gens, e \in Epochs, ro \in BOOLEAN : PrepareBegin(c, g, e, ro)
         \/ PrepareFail(c) \/ PrepareDone(c) \/ DiscardPrepared(c)
         \/ MaterializePrepared(c)
         \/ \E x \in Epoch0 : ActivationCreate(c, x)
         \/ PrepareFrameworkActivation(c) \/ CommitFrameworkActivation(c)
         \/ AbortFrameworkActivation(c) \/ ActivationDestroy(c)
         \/ \E g \in Gens : (g = active \/ g \in retired) /\ TakePin(c, g)
         \/ PinRelease(c) \/ Collect(c) \/ RegistryDestroy(c)
BY PinCases DEF ClientNext

-----------------------------------------------------------------------------
(* Handles: a client opens artifacts only with nothing to close and no     *)
(* prepared handle, and without an activation it has no ticket.            *)

HandlesFit ==
  \A c \in Clients :
    /\ loading[c] # NoGen => closing[c] = {} /\ prepared[c] = NoGen
    /\ ~activation[c] => actPrepared[c] = NoGen /\ ticket[c] = NoGen

LEMMA HandlesStep ==
  ASSUME TypeOK, HandlesFit, [Next]_vars
  PROVE  HandlesFit'
<1>1. CASE UNCHANGED vars
  BY <1>1 DEF HandlesFit, vars, actVars, callVars
<1>2. ASSUME NEW c \in Clients, ClientNext(c) PROVE HandlesFit'
  <2>12. ASSUME NEW g \in Gens, g = active \/ g \in retired, TakePin(c, g)
         PROVE  HandlesFit'
    BY <2>12 DEF TakePin, HandlesFit, actVars, callVars
  <2> USE DEF TypeOK, Gen0, HandlesFit, MayCall, Idle, CloseLater,
              registryVars, heapVars, actVars, pinVars, callVars
  <2>1. ASSUME NEW g \in Gens, CloseGeneration(c, g) PROVE HandlesFit'
    BY <2>1 DEF CloseGeneration
  <2>2. ASSUME NEW g \in Gens, NEW e \in Epochs, NEW ro \in BOOLEAN,
               PrepareBegin(c, g, e, ro)
        PROVE  HandlesFit'
    BY <2>2 DEF PrepareBegin
  <2>3. CASE PrepareFail(c)
    BY <2>3 DEF PrepareFail
  <2>4. CASE PrepareDone(c)
    BY <2>4 DEF PrepareDone
  <2>5. CASE DiscardPrepared(c)
    BY <2>5 DEF DiscardPrepared
  <2>6. CASE MaterializePrepared(c)
    BY <2>6 DEF MaterializePrepared
  <2>7. ASSUME NEW x \in Epoch0, ActivationCreate(c, x) PROVE HandlesFit'
    BY <2>7 DEF ActivationCreate
  <2>8. CASE PrepareFrameworkActivation(c)
    BY <2>8 DEF PrepareFrameworkActivation
  <2>9. CASE CommitFrameworkActivation(c)
    BY <2>9 DEF CommitFrameworkActivation
  <2>10. CASE AbortFrameworkActivation(c)
    BY <2>10 DEF AbortFrameworkActivation
  <2>11. CASE ActivationDestroy(c)
    BY <2>11 DEF ActivationDestroy
  <2>14. CASE PinRelease(c)
    BY <2>14 DEF PinRelease
  <2>15. CASE Collect(c)
    BY <2>15 DEF Collect, Drained
  <2>16. CASE RegistryDestroy(c)
    BY <2>16 DEF RegistryDestroy, Drained
  <2> HIDE DEF HandlesFit
  <2>17. QED
    BY <1>2, ClientCases, <2>1, <2>2, <2>3, <2>4, <2>5, <2>6, <2>7, <2>8, <2>9,
       <2>10, <2>11, <2>12, <2>14, <2>15, <2>16
<1>3. QED
  BY <1>1, <1>2 DEF Next

-----------------------------------------------------------------------------
(* Ownership, in the form in which it is inductive.                        *)

OwnedIsAllocated ==
  \A g \in Gens, k \in Places, c \in Holders : Owns(k, c, g) => g \in allocated

OwnerIsUnique ==
  \A g \in Gens, k, l \in Places, c, d \in Holders :
    Owns(k, c, g) /\ Owns(l, d, g) => k = l /\ c = d

Unique == OwnedIsAllocated /\ OwnerIsUnique

\* Every call hands a generation from one owner to one other, or makes or
\* deletes it together with its owner.
LEMMA UniqueStep ==
  ASSUME TypeOK, Unique, [Next]_vars
  PROVE  Unique'
<1>1. CASE UNCHANGED vars
  BY <1>1 DEF Unique, OwnedIsAllocated, OwnerIsUnique, Owns, vars,
              registryVars, heapVars, actVars, callVars
<1>2. ASSUME NEW c \in Clients, ClientNext(c) PROVE Unique'
  <2>12. ASSUME NEW g \in Gens, g = active \/ g \in retired, TakePin(c, g)
         PROVE  Unique'
    BY <2>12
       DEF Unique, OwnedIsAllocated, OwnerIsUnique, Owns, TakePin,
           registryVars, actVars, callVars
  <2> USE ClientsAssumption, GensAssumption
      DEF TypeOK, Gen0, Unique, OwnedIsAllocated, OwnerIsUnique, Owns, Holders,
          Places, MayCall, Idle, CloseLater, registryVars, heapVars, actVars,
          pinVars, callVars
  <2>1. ASSUME NEW g \in Gens, CloseGeneration(c, g) PROVE Unique'
    BY <2>1 DEF CloseGeneration
  <2>2. ASSUME NEW g \in Gens, NEW e \in Epochs, NEW ro \in BOOLEAN,
               PrepareBegin(c, g, e, ro)
        PROVE  Unique'
    BY <2>2 DEF PrepareBegin
  <2>3. CASE PrepareFail(c)
    BY <2>3 DEF PrepareFail
  <2>4. CASE PrepareDone(c)
    BY <2>4 DEF PrepareDone
  <2>5. CASE DiscardPrepared(c)
    BY <2>5 DEF DiscardPrepared
  <2>6. CASE MaterializePrepared(c)
    BY <2>6 DEF MaterializePrepared
  <2>7. ASSUME NEW x \in Epoch0, ActivationCreate(c, x) PROVE Unique'
    BY <2>7 DEF ActivationCreate
  <2>8. CASE PrepareFrameworkActivation(c)
    BY <2>8 DEF PrepareFrameworkActivation
  <2>9. CASE CommitFrameworkActivation(c)
    BY <2>9 DEF CommitFrameworkActivation
  <2>10. CASE AbortFrameworkActivation(c)
    BY <2>10 DEF AbortFrameworkActivation
  <2>11. CASE ActivationDestroy(c)
    BY <2>11 DEF ActivationDestroy
  <2>14. CASE PinRelease(c)
    BY <2>14 DEF PinRelease
  <2>15. CASE Collect(c)
    BY <2>15 DEF Collect, Drained
  <2>16. CASE RegistryDestroy(c)
    BY <2>16 DEF RegistryDestroy, Drained
  <2> HIDE DEF Unique
  <2>17. QED
    BY <1>2, ClientCases, <2>1, <2>2, <2>3, <2>4, <2>5, <2>6, <2>7, <2>8, <2>9,
       <2>10, <2>11, <2>12, <2>14, <2>15, <2>16
<1>3. QED
  BY <1>1, <1>2 DEF Next

InRegistry(g) == active = g \/ g \in retired
OwnedBy(c, g) ==
  \/ loading[c] = g
  \/ prepared[c] = g
  \/ actPrepared[c] = g
  \/ ticket[c] = g
  \/ g \in closing[c]

AllocatedIsOwned ==
  \A g \in allocated : InRegistry(g) \/ \E c \in Clients : OwnedBy(c, g)

\* What a call of client c has to show so that no generation is leaked: the
\* handles of the others stay, and what c or the registry owned is still owned.
Handover(c) ==
  /\ \A d \in Clients \ {c}, g \in Gens : OwnedBy(d, g) => OwnedBy(d, g)'
  /\ \A g \in allocated' :
       g \in allocated => (InRegistry(g) \/ OwnedBy(c, g) =>
                             InRegistry(g)' \/ OwnedBy(c, g)')
  /\ \A g \in allocated' : g \notin allocated => OwnedBy(c, g)'

LEMMA HandoverOwns ==
  ASSUME NEW c \in Clients, TypeOK, AllocatedIsOwned, Handover(c),
         allocated' \in SUBSET Gens
  PROVE  AllocatedIsOwned'
<1> SUFFICES ASSUME NEW g \in allocated'
             PROVE  InRegistry(g)' \/ \E d \in Clients : OwnedBy(d, g)'
  BY DEF AllocatedIsOwned
<1>1. CASE g \notin allocated
  BY <1>1 DEF Handover
<1>2. CASE g \in allocated /\ (InRegistry(g) \/ OwnedBy(c, g))
  BY <1>2 DEF Handover
<1>3. CASE g \in allocated /\ \E d \in Clients \ {c} : OwnedBy(d, g)
  BY <1>3 DEF Handover
<1>4. QED
  BY <1>1, <1>2, <1>3 DEF AllocatedIsOwned

\* No call leaks a generation.
LEMMA OwnedStep ==
  ASSUME TypeOK, HandlesFit, AllocatedIsOwned, [Next]_vars
  PROVE  AllocatedIsOwned'
<1>1. CASE UNCHANGED vars
  BY <1>1 DEF AllocatedIsOwned, InRegistry, OwnedBy, vars, registryVars,
              heapVars, actVars, callVars
<1>2. ASSUME NEW c \in Clients, ClientNext(c) PROVE Handover(c)
  <2>12. ASSUME NEW g \in Gens, g = active \/ g \in retired, TakePin(c, g)
         PROVE  Handover(c)
    BY <2>12
       DEF Handover, InRegistry, OwnedBy, TakePin, registryVars, actVars,
           callVars
  <2> USE DEF TypeOK, Gen0, HandlesFit, Handover, InRegistry, OwnedBy, MayCall,
              Idle, CloseLater, registryVars, heapVars, actVars, pinVars,
              callVars
  <2>1. ASSUME NEW g \in Gens, CloseGeneration(c, g) PROVE Handover(c)
    BY <2>1 DEF CloseGeneration
  <2>2. ASSUME NEW g \in Gens, NEW e \in Epochs, NEW ro \in BOOLEAN,
               PrepareBegin(c, g, e, ro)
        PROVE  Handover(c)
    BY <2>2 DEF PrepareBegin
  <2>3. CASE PrepareFail(c)
    BY <2>3 DEF PrepareFail
  <2>4. CASE PrepareDone(c)
    BY <2>4 DEF PrepareDone
  <2>5. CASE DiscardPrepared(c)
    BY <2>5 DEF DiscardPrepared
  <2>6. CASE MaterializePrepared(c)
    BY <2>6 DEF MaterializePrepared
  <2>7. ASSUME NEW x \in Epoch0, ActivationCreate(c, x) PROVE Handover(c)
    BY <2>7 DEF ActivationCreate
  <2>8. CASE PrepareFrameworkActivation(c)
    BY <2>8 DEF PrepareFrameworkActivation
  <2>9. CASE CommitFrameworkActivation(c)
    BY <2>9 DEF CommitFrameworkActivation
  <2>10. CASE AbortFrameworkActivation(c)
    BY <2>10 DEF AbortFrameworkActivation
  <2>11. CASE ActivationDestroy(c)
    BY <2>11 DEF ActivationDestroy
  <2>14. CASE PinRelease(c)
    BY <2>14 DEF PinRelease
  <2>15. CASE Collect(c)
    BY <2>15 DEF Collect, Drained
  <2>16. CASE RegistryDestroy(c)
    BY <2>16 DEF RegistryDestroy, Drained
  <2> HIDE DEF Handover
  <2>17. QED
    BY <1>2, ClientCases, <2>1, <2>2, <2>3, <2>4, <2>5, <2>6, <2>7, <2>8, <2>9,
       <2>10, <2>11, <2>12, <2>14, <2>15, <2>16
<1>3. TypeOK'
  BY TypeStep
<1>4. QED
  BY <1>1, <1>2, <1>3, HandoverOwns DEF Next, TypeOK

-----------------------------------------------------------------------------
(* The heap.                                                               *)

AllocatedHasEpoch == \A g \in allocated : epoch[g] \in Epochs

LEMMA EpochStep ==
  ASSUME TypeOK, AllocatedHasEpoch, [Next]_vars
  PROVE  AllocatedHasEpoch'
<1>1. CASE UNCHANGED vars
  BY <1>1 DEF AllocatedHasEpoch, vars, heapVars
<1>2. ASSUME NEW c \in Clients, ClientNext(c) PROVE AllocatedHasEpoch'
  <2>12. ASSUME NEW g \in Gens, g = active \/ g \in retired, TakePin(c, g)
         PROVE  AllocatedHasEpoch'
    BY <2>12 DEF TakePin, AllocatedHasEpoch
  <2> USE DEF TypeOK, Gen0, AllocatedHasEpoch, MayCall, Idle, CloseLater, registryVars,
              heapVars, actVars, pinVars, callVars
  <2>1. ASSUME NEW g \in Gens, CloseGeneration(c, g) PROVE AllocatedHasEpoch'
    BY <2>1 DEF CloseGeneration
  <2>2. ASSUME NEW g \in Gens, NEW e \in Epochs, NEW ro \in BOOLEAN,
               PrepareBegin(c, g, e, ro)
        PROVE  AllocatedHasEpoch'
    BY <2>2 DEF PrepareBegin
  <2>3. CASE PrepareFail(c)
    BY <2>3 DEF PrepareFail
  <2>4. CASE PrepareDone(c)
    BY <2>4 DEF PrepareDone
  <2>5. CASE DiscardPrepared(c)
    BY <2>5 DEF DiscardPrepared
  <2>6. CASE MaterializePrepared(c)
    BY <2>6 DEF MaterializePrepared
  <2>7. ASSUME NEW x \in Epoch0, ActivationCreate(c, x) PROVE AllocatedHasEpoch'
    BY <2>7 DEF ActivationCreate
  <2>8. CASE PrepareFrameworkActivation(c)
    BY <2>8 DEF PrepareFrameworkActivation
  <2>9. CASE CommitFrameworkActivation(c)
    BY <2>9 DEF CommitFrameworkActivation
  <2>10. CASE AbortFrameworkActivation(c)
    BY <2>10 DEF AbortFrameworkActivation
  <2>11. CASE ActivationDestroy(c)
    BY <2>11 DEF ActivationDestroy
  <2>14. CASE PinRelease(c)
    BY <2>14 DEF PinRelease
  <2>15. CASE Collect(c)
    BY <2>15 DEF Collect, Drained
  <2>16. CASE RegistryDestroy(c)
    BY <2>16 DEF RegistryDestroy, Drained
  <2> HIDE DEF AllocatedHasEpoch
  <2>17. QED
    BY <1>2, ClientCases, <2>1, <2>2, <2>3, <2>4, <2>5, <2>6, <2>7, <2>8, <2>9,
       <2>10, <2>11, <2>12, <2>14, <2>15, <2>16
<1>3. QED
  BY <1>1, <1>2 DEF Next

\* No call touches the epoch or the context of a generation that the registry
\* or a ticket owns: the heap changes only where a generation is made or deleted.
LEMMA HeapStable ==
  ASSUME TypeOK, Unique, [Next]_vars, NEW g \in Gens,
         InRegistry(g) \/ \E d \in Clients : ticket[d] = g
  PROVE  /\ g \in allocated
         /\ epoch'[g] = epoch[g]
         /\ readOnly'[g] = readOnly[g]
<1>1. g \in allocated /\ \A c \in Clients : g \notin closing[c]
  BY ClientsAssumption
     DEF Unique, OwnedIsAllocated, OwnerIsUnique, Owns, Places, Holders, InRegistry
<1>2. CASE UNCHANGED vars
  BY <1>1, <1>2 DEF vars, heapVars
<1>3. ASSUME NEW c \in Clients, ClientNext(c)
      PROVE  epoch'[g] = epoch[g] /\ readOnly'[g] = readOnly[g]
  <2>1. ASSUME NEW h \in Gens, CloseGeneration(c, h)
        PROVE  epoch'[g] = epoch[g] /\ readOnly'[g] = readOnly[g]
    BY <1>1, <2>1 DEF CloseGeneration, TypeOK
  <2>2. ASSUME NEW h \in Gens, NEW e \in Epochs, NEW ro \in BOOLEAN,
               PrepareBegin(c, h, e, ro)
        PROVE  epoch'[g] = epoch[g] /\ readOnly'[g] = readOnly[g]
    BY <1>1, <2>2 DEF PrepareBegin, TypeOK
  <2>3. ASSUME NEW h \in Gens, TakePin(c, h)
        PROVE  epoch'[g] = epoch[g] /\ readOnly'[g] = readOnly[g]
    BY <2>3 DEF TakePin
  <2>4. CASE \/ PrepareFail(c) \/ PrepareDone(c) \/ DiscardPrepared(c)
             \/ MaterializePrepared(c)
             \/ \E x \in Epoch0 : ActivationCreate(c, x)
             \/ PrepareFrameworkActivation(c) \/ CommitFrameworkActivation(c)
             \/ AbortFrameworkActivation(c) \/ ActivationDestroy(c)
             \/ PinRelease(c) \/ Collect(c) \/ RegistryDestroy(c)
    BY <2>4 DEF PrepareFail, PrepareDone, DiscardPrepared, MaterializePrepared,
                ActivationCreate, PrepareFrameworkActivation,
                CommitFrameworkActivation, AbortFrameworkActivation,
                ActivationDestroy, PinRelease, Collect, RegistryDestroy, heapVars
  <2>5. QED
    BY <1>3, ClientCases, <2>1, <2>2, <2>3, <2>4
<1>4. QED
  BY <1>1, <1>2, <1>3 DEF Next

-----------------------------------------------------------------------------
(* Readers.                                                                *)

PinsInRegistry ==
  \A c \in Clients : pin[c] # NoGen =>
    InRegistry(pin[c]) /\ epoch[pin[c]] = pinEpoch[c]

LEMMA PinsFinite ==
  ASSUME NEW g PROVE IsFiniteSet(PinsOn(g)) /\ Cardinality(PinsOn(g)) \in Nat
BY ClientsAssumption, FS_Subset, FS_CardinalityType DEF PinsOn

\* Nobody has a pin on a generation whose counter is zero.
LEMMA UnreadIsUnpinned ==
  ASSUME ReadersArePins, NEW g \in allocated, readers[g] = 0
  PROVE  \A c \in Clients : pin[c] # g
<1>1. PinsOn(g) = {}
  BY PinsFinite, FS_EmptySet DEF ReadersArePins
<1>2. QED
  BY <1>1 DEF PinsOn

LEMMA PinsStep ==
  ASSUME TypeOK, TypeOK', Unique, ReadersArePins, PinsInRegistry, [Next]_vars
  PROVE  PinsInRegistry'
<1>1. CASE UNCHANGED vars
  BY <1>1 DEF PinsInRegistry, InRegistry, vars, registryVars, heapVars, pinVars
<1>2. ASSUME NEW c \in Clients, ClientNext(c) PROVE PinsInRegistry'
  <2>1. \A g \in Gens : InRegistry(g) => g \in allocated /\ epoch'[g] = epoch[g]
    BY HeapStable
  <2>2. ASSUME NEW g \in Gens, g = active \/ g \in retired, TakePin(c, g)
        PROVE  PinsInRegistry'
    BY <2>2 DEF PinsInRegistry, InRegistry, TakePin, TypeOK, Gen0, registryVars
  <2>3. CASE PinRelease(c)
    BY <2>3 DEF PinsInRegistry, InRegistry, PinRelease, TypeOK, Gen0,
                registryVars
  <2>4. ASSUME UNCHANGED pinVars,
               \A g \in Gens : InRegistry(g) /\ (\E d \in Clients : pin[d] = g)
                                => InRegistry(g)'
        PROVE  PinsInRegistry'
    BY <2>1, <2>4 DEF PinsInRegistry, pinVars, TypeOK, Gen0
  <2>5. ASSUME NEW g \in Gens, CloseGeneration(c, g) PROVE PinsInRegistry'
    BY <2>4, <2>5 DEF CloseGeneration, InRegistry, registryVars
  <2>6. ASSUME NEW g \in Gens, NEW e \in Epochs, NEW ro \in BOOLEAN,
               PrepareBegin(c, g, e, ro)
        PROVE  PinsInRegistry'
    BY <2>4, <2>6 DEF PrepareBegin, InRegistry, registryVars
  <2>7. CASE \/ PrepareFail(c) \/ PrepareDone(c) \/ DiscardPrepared(c)
             \/ MaterializePrepared(c)
             \/ \E x \in Epoch0 : ActivationCreate(c, x)
             \/ PrepareFrameworkActivation(c) \/ CommitFrameworkActivation(c)
             \/ AbortFrameworkActivation(c) \/ ActivationDestroy(c)
    <3>1. UNCHANGED pinVars
      BY <2>7 DEF PrepareFail, PrepareDone, DiscardPrepared,
                  MaterializePrepared, ActivationCreate,
                  PrepareFrameworkActivation, CommitFrameworkActivation,
                  AbortFrameworkActivation, ActivationDestroy
    <3>2. \A g \in Gens : InRegistry(g) => InRegistry(g)'
      BY <2>7, GensAssumption
         DEF PrepareFail, PrepareDone, DiscardPrepared, MaterializePrepared,
             ActivationCreate, PrepareFrameworkActivation,
             CommitFrameworkActivation, AbortFrameworkActivation,
             ActivationDestroy, InRegistry, registryVars
    <3>3. QED
      BY <2>4, <3>1, <3>2
  <2>8. CASE Collect(c)
    <3>1. \A g \in Drained : \A d \in Clients : pin[d] # g
      BY <2>1, UnreadIsUnpinned DEF Drained, InRegistry, TypeOK
    <3>2. QED
      BY <2>4, <2>8, <3>1 DEF Collect, InRegistry
  <2>9. CASE RegistryDestroy(c)
    <3>1. \A g \in Gens : InRegistry(g) => g \in allocated /\ readers[g] = 0
      BY <2>1, <2>9, GensAssumption DEF RegistryDestroy, Drained, InRegistry
    <3>2. \A g \in Gens : InRegistry(g) => \A d \in Clients : pin[d] # g
      BY <3>1, UnreadIsUnpinned
    <3>3. QED
      BY <2>4, <2>9, <3>2 DEF RegistryDestroy
  <2>10. QED
    BY <1>2, ClientCases, <2>2, <2>3, <2>5, <2>6, <2>7, <2>8, <2>9
<1>3. QED
  BY <1>1, <1>2 DEF Next

\* The counters count: one pin more, one pin less, and none on a new object.
LEMMA ReadersStep ==
  ASSUME TypeOK, Unique, ReadersArePins, PinsInRegistry, [Next]_vars
  PROVE  ReadersArePins'
<1>1. CASE UNCHANGED vars
  BY <1>1 DEF ReadersArePins, PinsOn, vars, heapVars, pinVars
<1>2. ASSUME NEW c \in Clients, ClientNext(c) PROVE ReadersArePins'
  <2>1. ASSUME NEW g \in Gens, g = active \/ g \in retired, TakePin(c, g)
        PROVE  ReadersArePins'
    <3>1. g \in allocated
      BY <2>1, HeapStable DEF InRegistry
    <3>2. PinsOn(g)' = PinsOn(g) \cup {c} /\ c \notin PinsOn(g)
      BY <2>1, GensAssumption DEF TakePin, PinsOn, TypeOK
    <3>3. \A h \in Gens \ {g} : PinsOn(h)' = PinsOn(h)
      BY <2>1, GensAssumption DEF TakePin, PinsOn, TypeOK
    <3>4. Cardinality(PinsOn(g)') = Cardinality(PinsOn(g)) + 1
      BY <3>2, PinsFinite, FS_AddElement
    <3>5. QED
      BY <2>1, <3>1, <3>3, <3>4 DEF ReadersArePins, TakePin, TypeOK
  <2>2. CASE PinRelease(c)
    <3>1. PICK g \in Gens : g = pin[c] /\ g \in allocated
      BY <2>2, HeapStable DEF PinRelease, PinsInRegistry, TypeOK, Gen0
    <3>2. PinsOn(g)' = PinsOn(g) \ {c} /\ c \in PinsOn(g)
      BY <2>2, <3>1, GensAssumption DEF PinRelease, PinsOn, TypeOK
    <3>3. \A h \in Gens \ {g} : PinsOn(h)' = PinsOn(h)
      BY <2>2, <3>1, GensAssumption DEF PinRelease, PinsOn, TypeOK
    <3>4. Cardinality(PinsOn(g)') = Cardinality(PinsOn(g)) - 1
      BY <3>2, PinsFinite, FS_RemoveElement
    <3>5. QED
      BY <2>2, <3>1, <3>3, <3>4 DEF ReadersArePins, PinRelease, TypeOK
  <2>3. ASSUME NEW g \in Gens, NEW e \in Epochs, NEW ro \in BOOLEAN,
               PrepareBegin(c, g, e, ro)
        PROVE  ReadersArePins'
    <3>1. \A d \in Clients : pin[d] # g
      BY <2>3, HeapStable, GensAssumption
         DEF PrepareBegin, PinsInRegistry, TypeOK, Gen0
    <3>2. PinsOn(g) = {}
      BY <3>1 DEF PinsOn
    <3>3. \A h : PinsOn(h)' = PinsOn(h)
      BY <2>3 DEF PrepareBegin, pinVars, PinsOn
    <3>4. QED
      BY <2>3, <3>2, <3>3, FS_EmptySet, ZenonT(60) DEF PrepareBegin, ReadersArePins, TypeOK
  <2>4. ASSUME UNCHANGED <<readers, pin>>, allocated' \subseteq allocated
        PROVE  ReadersArePins'
    BY <2>4 DEF ReadersArePins, PinsOn
  <2>5. ASSUME NEW g \in Gens, CloseGeneration(c, g) PROVE ReadersArePins'
    BY <2>4, <2>5 DEF CloseGeneration, pinVars
  <2>6. CASE \/ PrepareFail(c) \/ PrepareDone(c) \/ DiscardPrepared(c)
             \/ MaterializePrepared(c)
             \/ \E x \in Epoch0 : ActivationCreate(c, x)
             \/ PrepareFrameworkActivation(c) \/ CommitFrameworkActivation(c)
             \/ AbortFrameworkActivation(c) \/ ActivationDestroy(c)
             \/ Collect(c) \/ RegistryDestroy(c)
    BY <2>4, <2>6
       DEF PrepareFail, PrepareDone, DiscardPrepared, MaterializePrepared,
           ActivationCreate, PrepareFrameworkActivation,
           CommitFrameworkActivation, AbortFrameworkActivation,
           ActivationDestroy, Collect, RegistryDestroy, heapVars, pinVars
  <2>7. QED
    BY <1>2, ClientCases, <2>1, <2>2, <2>3, <2>5, <2>6
<1>3. QED
  BY <1>1, <1>2 DEF Next

-----------------------------------------------------------------------------
(* Reservations.                                                           *)

\* A ticket is of a generation whose context may write.
TicketsWritable ==
  \A c \in Clients : ticket[c] # NoGen => ~readOnly[ticket[c]]

LEMMA ReservationStep ==
  ASSUME TypeOK, Unique, HandlesFit, AllocatedHasEpoch, ReservationHoldsExpected,
         TicketsWritable, [Next]_vars
  PROVE  ReservationHoldsExpected' /\ TicketsWritable'
<1>0. /\ active \in Gens => active \in allocated /\ epoch'[active] = epoch[active]
      /\ \A c \in Clients : ticket[c] \in Gens =>
           readOnly'[ticket[c]] = readOnly[ticket[c]]
  BY HeapStable DEF InRegistry
<1> USE <1>0, ClientsAssumption, GensAssumption, EpochsAssumption
    DEF TypeOK, Gen0, AllocatedHasEpoch, ReservationHoldsExpected,
        ReplacesExpected, TicketsWritable
<1>1. CASE UNCHANGED vars
  BY <1>1 DEF vars, registryVars, heapVars, actVars
<1>2. ASSUME NEW c \in Clients, ClientNext(c)
      PROVE  ReservationHoldsExpected' /\ TicketsWritable'
  <2>12. ASSUME NEW g \in Gens, g = active \/ g \in retired, TakePin(c, g)
         PROVE  ReservationHoldsExpected' /\ TicketsWritable'
    BY <2>12 DEF TakePin, registryVars, actVars
  <2> USE DEF MayCall, Idle, CloseLater, registryVars, heapVars, actVars,
              pinVars, callVars, HandlesFit
  <2>1. ASSUME NEW g \in Gens, CloseGeneration(c, g) PROVE ReservationHoldsExpected' /\ TicketsWritable'
    BY <2>1 DEF CloseGeneration
  <2>2. ASSUME NEW g \in Gens, NEW e \in Epochs, NEW ro \in BOOLEAN,
               PrepareBegin(c, g, e, ro)
        PROVE  ReservationHoldsExpected' /\ TicketsWritable'
    BY <2>2 DEF PrepareBegin
  <2>3. CASE PrepareFail(c)
    BY <2>3 DEF PrepareFail
  <2>4. CASE PrepareDone(c)
    BY <2>4 DEF PrepareDone
  <2>5. CASE DiscardPrepared(c)
    BY <2>5 DEF DiscardPrepared
  <2>6. CASE MaterializePrepared(c)
    BY <2>6 DEF MaterializePrepared
  <2>7. ASSUME NEW x \in Epoch0, ActivationCreate(c, x) PROVE ReservationHoldsExpected' /\ TicketsWritable'
    BY <2>7 DEF ActivationCreate
  <2>8. CASE PrepareFrameworkActivation(c)
    BY <2>8 DEF PrepareFrameworkActivation, ExpectedMatches
  <2>9. CASE CommitFrameworkActivation(c)
    BY <2>9 DEF CommitFrameworkActivation
  <2>10. CASE AbortFrameworkActivation(c)
    BY <2>10 DEF AbortFrameworkActivation
  <2>11. CASE ActivationDestroy(c)
    BY <2>11 DEF ActivationDestroy
  <2>14. CASE PinRelease(c)
    BY <2>14 DEF PinRelease
  <2>15. CASE Collect(c)
    BY <2>15 DEF Collect, Drained
  <2>16. CASE RegistryDestroy(c)
    BY <2>16 DEF RegistryDestroy, Drained
  <2> HIDE DEF TypeOK, ReservationHoldsExpected, TicketsWritable
  <2>17. QED
    BY <1>2, ClientCases, <2>1, <2>2, <2>3, <2>4, <2>5, <2>6, <2>7, <2>8, <2>9,
       <2>10, <2>11, <2>12, <2>14, <2>15, <2>16
<1> HIDE DEF ReservationHoldsExpected, TicketsWritable
<1>3. QED
  BY <1>1, <1>2 DEF Next

-----------------------------------------------------------------------------
(* The prepared handles and the end of the registry.                       *)

LEMMA HoldersFinite ==
  /\ IsFiniteSet(HandleHolders) /\ Cardinality(HandleHolders) \in Nat
  /\ IsFiniteSet(ActivationHolders) /\ Cardinality(ActivationHolders) \in Nat
<1>1. HandleHolders \subseteq Clients /\ ActivationHolders \subseteq Clients
  BY DEF HandleHolders, ActivationHolders
<1>2. QED
  BY <1>1, ClientsAssumption, FS_Subset, FS_CardinalityType

\* A counter of zero means that no client and no activation has a handle.
LEMMA NoHandleAtZero ==
  ASSUME PreparedCountIsExact, preparedCount = 0
  PROVE  \A c \in Clients : prepared[c] = NoGen /\ actPrepared[c] = NoGen
<1>1. Cardinality(HandleHolders) = 0 /\ Cardinality(ActivationHolders) = 0
  BY HoldersFinite DEF PreparedCountIsExact
<1>2. HandleHolders = {} /\ ActivationHolders = {}
  BY <1>1, HoldersFinite, FS_EmptySet
<1>3. QED
  BY <1>2 DEF HandleHolders, ActivationHolders

\* A handle that exists is counted.
LEMMA HandleIsCounted ==
  ASSUME PreparedCountIsExact, NEW c \in Clients,
         prepared[c] # NoGen \/ actPrepared[c] # NoGen
  PROVE  preparedCount # 0
BY NoHandleAtZero

\* One handle more, one less, one handed over: the counter follows.
LEMMA CountStep ==
  ASSUME TypeOK, HandlesFit, PreparedCountIsExact, [Next]_vars
  PROVE  PreparedCountIsExact'
<1> DEFINE H == HandleHolders
           A == ActivationHolders
<1>0. ASSUME UNCHANGED <<preparedCount, prepared, actPrepared>>
      PROVE  PreparedCountIsExact'
  BY <1>0 DEF PreparedCountIsExact, HandleHolders, ActivationHolders
<1>1. CASE UNCHANGED vars
  BY <1>0, <1>1 DEF vars, registryVars, actVars
<1>2. ASSUME NEW c \in Clients, ClientNext(c) PROVE PreparedCountIsExact'
  <2>1. ASSUME NEW g \in Gens, CloseGeneration(c, g)
        PROVE  PreparedCountIsExact'
    BY <1>0, <2>1 DEF CloseGeneration, registryVars, actVars
  <2>2. ASSUME NEW g \in Gens, NEW e \in Epochs, NEW ro \in BOOLEAN,
               PrepareBegin(c, g, e, ro)
        PROVE  PreparedCountIsExact'
    BY <1>0, <2>2 DEF PrepareBegin, registryVars, actVars
  <2>3. ASSUME NEW g \in Gens, g = active \/ g \in retired, TakePin(c, g)
        PROVE  PreparedCountIsExact'
    BY <1>0, <2>3 DEF TakePin, registryVars, actVars
  <2>4. CASE \/ PrepareFail(c) \/ CommitFrameworkActivation(c)
             \/ AbortFrameworkActivation(c) \/ PinRelease(c) \/ Collect(c)
             \/ RegistryDestroy(c)
    BY <1>0, <2>4
       DEF PrepareFail, CommitFrameworkActivation, AbortFrameworkActivation,
           PinRelease, Collect, RegistryDestroy, registryVars, actVars
  <2>5. CASE PrepareDone(c)
    <3>1. c \notin H /\ H' = H \cup {c} /\ A' = A
      BY <2>5 DEF PrepareDone, HandleHolders, ActivationHolders, HandlesFit,
                  TypeOK, actVars
    <3>2. Cardinality(H') = Cardinality(H) + 1
      BY <3>1, HoldersFinite, FS_AddElement
    <3>3. QED
      BY <2>5, <3>1, <3>2, HoldersFinite DEF PrepareDone, PreparedCountIsExact
  <2>6. CASE DiscardPrepared(c) \/ MaterializePrepared(c)
    <3>1. c \in H /\ H' = H \ {c} /\ A' = A
      BY <2>6 DEF DiscardPrepared, MaterializePrepared, HandleHolders,
                  ActivationHolders, TypeOK, actVars
    <3>2. Cardinality(H') = Cardinality(H) - 1
      BY <3>1, HoldersFinite, FS_RemoveElement
    <3>3. preparedCount' = preparedCount - 1
      BY <2>6, HandleIsCounted DEF DiscardPrepared, MaterializePrepared
    <3>4. QED
      BY <3>1, <3>2, <3>3, HoldersFinite DEF PreparedCountIsExact
  <2>7. ASSUME NEW x \in Epoch0, ActivationCreate(c, x)
        PROVE  PreparedCountIsExact'
    <3>1. c \in H /\ H' = H \ {c} /\ c \notin A /\ A' = A \cup {c}
      BY <2>7 DEF ActivationCreate, HandleHolders, ActivationHolders,
                  HandlesFit, TypeOK
    <3>2. Cardinality(H') = Cardinality(H) - 1
      BY <3>1, HoldersFinite, FS_RemoveElement
    <3>3. Cardinality(A') = Cardinality(A) + 1
      BY <3>1, HoldersFinite, FS_AddElement
    <3>4. QED
      BY <2>7, <3>2, <3>3, HoldersFinite
         DEF ActivationCreate, PreparedCountIsExact, registryVars
  <2>8. CASE /\ PrepareFrameworkActivation(c) \/ ActivationDestroy(c)
             /\ actPrepared[c] # NoGen
    <3>1. c \in A /\ A' = A \ {c} /\ H' = H
      BY <2>8 DEF PrepareFrameworkActivation, ActivationDestroy, HandleHolders,
                  ActivationHolders, TypeOK
    <3>2. Cardinality(A') = Cardinality(A) - 1
      BY <3>1, HoldersFinite, FS_RemoveElement
    <3>3. preparedCount' = preparedCount - 1
      BY <2>8, HandleIsCounted DEF PrepareFrameworkActivation, ActivationDestroy
    <3>4. QED
      BY <3>1, <3>2, <3>3, HoldersFinite DEF PreparedCountIsExact
  <2>9. CASE ActivationDestroy(c) /\ actPrepared[c] = NoGen
    <3>1. A' = A /\ H' = H
      BY <2>9 DEF ActivationDestroy, HandleHolders, ActivationHolders, TypeOK
    <3>2. QED
      BY <2>9, <3>1 DEF ActivationDestroy, PreparedCountIsExact
  <2>10. PrepareFrameworkActivation(c) => actPrepared[c] # NoGen
    BY DEF PrepareFrameworkActivation
  <2> HIDE DEF H, A
  <2>11. QED
    BY <1>2, ClientCases, <2>1, <2>2, <2>3, <2>4, <2>5, <2>6, <2>7, <2>8,
       <2>9, <2>10
<1>3. QED
  BY <1>1, <1>2 DEF Next

\* After destroy the registry is empty and nobody has a handle of it left.
DestroyedIsEmpty ==
  destroyed =>
    /\ active = NoGen /\ retired = {}
    /\ \A c \in Clients :
         /\ pin[c] = NoGen /\ loading[c] = NoGen
         /\ prepared[c] = NoGen /\ actPrepared[c] = NoGen /\ ticket[c] = NoGen

LEMMA DestroyedStep ==
  ASSUME TypeOK, Unique, PinsInRegistry, ReadersArePins, PreparedCountIsExact,
         ReservationHoldsExpected, DestroyedIsEmpty, [Next]_vars
  PROVE  DestroyedIsEmpty'
<1>1. CASE UNCHANGED vars
  BY <1>1 DEF DestroyedIsEmpty, vars, registryVars, actVars, pinVars, callVars
<1>2. ASSUME NEW c \in Clients, ClientNext(c) PROVE DestroyedIsEmpty'
  <2>1. ASSUME NEW g \in Gens, CloseGeneration(c, g) PROVE DestroyedIsEmpty'
    BY <2>1 DEF CloseGeneration, DestroyedIsEmpty, registryVars, actVars,
                pinVars
  <2>2. CASE ActivationDestroy(c)
    BY <2>2 DEF ActivationDestroy, DestroyedIsEmpty, TypeOK, pinVars
  <2>3. CASE RegistryDestroy(c)
    <3>1. \A g \in Gens : InRegistry(g) => g \in allocated
      BY HeapStable
    <3>2. \A g \in Gens : InRegistry(g) => readers[g] = 0
      BY <2>3, GensAssumption DEF RegistryDestroy, Drained, InRegistry
    <3>3. \A g \in Gens : InRegistry(g) => \A d \in Clients : pin[d] # g
      BY <3>1, <3>2, UnreadIsUnpinned
    <3>4. \A d \in Clients : pin[d] = NoGen
      BY <3>3 DEF PinsInRegistry, TypeOK, Gen0
    <3>5. \A d \in Clients : prepared[d] = NoGen /\ actPrepared[d] = NoGen
      BY <2>3, NoHandleAtZero DEF RegistryDestroy
    <3>6. \A d \in Clients : ticket[d] = NoGen
      BY <2>3, ClientsAssumption DEF RegistryDestroy, ReservationHoldsExpected
    <3>7. QED
      BY <2>3, <3>4, <3>5, <3>6
         DEF RegistryDestroy, DestroyedIsEmpty, actVars, pinVars
  <2>4. ASSUME ~destroyed, destroyed' = destroyed PROVE DestroyedIsEmpty'
    BY <2>4 DEF DestroyedIsEmpty
  <2>5. ASSUME PrepareFail(c) \/ PrepareDone(c) PROVE DestroyedIsEmpty'
    BY <2>4, <2>5 DEF PrepareFail, PrepareDone, registryVars, DestroyedIsEmpty
  <2>6. ASSUME NEW g \in Gens, NEW e \in Epochs, NEW ro \in BOOLEAN,
               PrepareBegin(c, g, e, ro)
        PROVE  DestroyedIsEmpty'
    BY <2>4, <2>6 DEF PrepareBegin, MayCall, registryVars
  <2>7. ASSUME NEW g \in Gens, TakePin(c, g) PROVE DestroyedIsEmpty'
    BY <2>4, <2>7 DEF TakePin, MayCall, registryVars
  <2>8. CASE \/ DiscardPrepared(c) \/ MaterializePrepared(c)
             \/ \E x \in Epoch0 : ActivationCreate(c, x)
             \/ PrepareFrameworkActivation(c) \/ CommitFrameworkActivation(c)
             \/ AbortFrameworkActivation(c) \/ PinRelease(c) \/ Collect(c)
    BY <2>4, <2>8
       DEF DiscardPrepared, MaterializePrepared, ActivationCreate,
           PrepareFrameworkActivation, CommitFrameworkActivation,
           AbortFrameworkActivation, PinRelease, Collect, MayCall, registryVars
  <2>9. QED
    BY <1>2, ClientCases, <2>1, <2>2, <2>3, <2>5, <2>6, <2>7, <2>8
<1>3. QED
  BY <1>1, <1>2 DEF Next

-----------------------------------------------------------------------------
(* The inductive invariant.                                                *)

IInv ==
  /\ TypeOK
  /\ HandlesFit
  /\ Unique
  /\ AllocatedIsOwned
  /\ AllocatedHasEpoch
  /\ PinsInRegistry
  /\ ReadersArePins
  /\ ReservationHoldsExpected
  /\ TicketsWritable
  /\ PreparedCountIsExact
  /\ DestroyedIsEmpty

LEMMA IInvInit == Init => IInv
<1> SUFFICES ASSUME Init PROVE IInv
  OBVIOUS
<1>1. TypeOK
  BY TypeInit
<1>2. Unique /\ AllocatedIsOwned
  BY GensAssumption
     DEF Init, Unique, OwnedIsAllocated, OwnerIsUnique, Owns, Holders, Places,
         AllocatedIsOwned
<1>3. HandlesFit /\ AllocatedHasEpoch /\ PinsInRegistry /\ ReadersArePins
  BY DEF Init, HandlesFit, AllocatedHasEpoch, PinsInRegistry, ReadersArePins
<1>4. ReservationHoldsExpected /\ TicketsWritable
  BY ClientsAssumption
     DEF Init, ReservationHoldsExpected, ReplacesExpected, TicketsWritable
<1>5. PreparedCountIsExact /\ DestroyedIsEmpty
  <2>1. HandleHolders = {} /\ ActivationHolders = {}
    BY DEF Init, HandleHolders, ActivationHolders
  <2>2. QED
    BY <2>1, FS_EmptySet DEF Init, PreparedCountIsExact, DestroyedIsEmpty
<1>6. QED
  BY <1>1, <1>2, <1>3, <1>4, <1>5 DEF IInv

LEMMA IInvStep == IInv /\ [Next]_vars => IInv'
<1> SUFFICES ASSUME IInv, [Next]_vars PROVE IInv'
  OBVIOUS
<1>1. TypeOK'
  BY TypeStep DEF IInv
<1>2. HandlesFit' /\ Unique' /\ AllocatedIsOwned' /\ AllocatedHasEpoch'
  BY HandlesStep, UniqueStep, OwnedStep, EpochStep DEF IInv
<1>3. PinsInRegistry' /\ ReadersArePins'
  BY <1>1, PinsStep, ReadersStep DEF IInv
<1>4. ReservationHoldsExpected' /\ TicketsWritable'
  BY ReservationStep DEF IInv
<1>5. PreparedCountIsExact' /\ DestroyedIsEmpty'
  BY CountStep, DestroyedStep DEF IInv
<1>6. QED
  BY <1>1, <1>2, <1>3, <1>4, <1>5 DEF IInv

LEMMA Invariance == Spec => []IInv
BY IInvInit, IInvStep, PTL DEF Spec

-----------------------------------------------------------------------------
(* What follows.                                                           *)

\* No use after free: through any interleaving of commits, collections,
\* aborts and materializations, what a reader has pinned stays loaded, in the
\* registry and of the epoch it asked for (pin_lookup_batch, pin_view).
THEOREM PinSafety == Spec => []PinnedStaysLoaded
<1>1. IInv => PinnedStaysLoaded
  <2> SUFFICES ASSUME IInv, NEW c \in Clients, pin[c] # NoGen
               PROVE  /\ pin[c] \in allocated
                      /\ pin[c] = active \/ pin[c] \in retired
                      /\ epoch[pin[c]] = pinEpoch[c]
    BY DEF PinnedStaysLoaded
  <2>1. pin[c] \in Gens /\ InRegistry(pin[c]) /\ epoch[pin[c]] = pinEpoch[c]
    BY DEF IInv, TypeOK, Gen0, PinsInRegistry
  <2>2. QED
    BY <2>1 DEF IInv, InRegistry, Unique, OwnedIsAllocated, Owns, Places, Holders
<1>2. QED
  BY <1>1, Invariance, PTL

\* A generation's reader counter is the number of its pins, so that collect
\* and destroy decide about pins when they look at the counter.
THEOREM ReaderCounts == Spec => []ReadersArePins
<1>1. IInv => ReadersArePins
  BY DEF IInv
<1>2. QED
  BY <1>1, Invariance, PTL

\* No double close and no leak: every loaded generation has one owner.
THEOREM SingleOwner == Spec => []OwnedExactlyOnce
<1>1. IInv => OwnedExactlyOnce
  <2> SUFFICES ASSUME IInv, NEW g \in Gens
               PROVE  /\ \A o, p \in OwnersOf(g) : o = p
                      /\ g \in allocated <=> OwnersOf(g) # {}
    BY DEF OwnedExactlyOnce
  <2>1. \A o, p \in OwnersOf(g) : o = p
    <3> SUFFICES ASSUME NEW o \in OwnersOf(g), NEW p \in OwnersOf(g)
                 PROVE  o = p
      OBVIOUS
    <3>1. /\ o \in Places \X Holders /\ Owns(o[1], o[2], g)
          /\ p \in Places \X Holders /\ Owns(p[1], p[2], g)
      BY DEF OwnersOf
    <3>2. o[1] = p[1] /\ o[2] = p[2]
      BY <3>1 DEF IInv, Unique, OwnerIsUnique
    <3>3. QED
      BY <3>1, <3>2
  <2>2. ASSUME OwnersOf(g) # {} PROVE g \in allocated
    <3>1. PICK o \in Places \X Holders : Owns(o[1], o[2], g)
      BY <2>2 DEF OwnersOf
    <3>2. QED
      BY <3>1 DEF IInv, Unique, OwnedIsAllocated
  <2>3. ASSUME NEW k \in Places, NEW c \in Holders, Owns(k, c, g)
        PROVE  OwnersOf(g) # {}
    <3>1. <<k, c>> \in OwnersOf(g)
      BY <2>3 DEF OwnersOf
    <3>2. QED
      BY <3>1
  <2>4. ASSUME g \in allocated PROVE OwnersOf(g) # {}
    <3>1. CASE InRegistry(g)
      BY <3>1, <2>3 DEF InRegistry, Owns, Places, Holders
    <3>2. ASSUME NEW c \in Clients, OwnedBy(c, g) PROVE OwnersOf(g) # {}
      BY <3>2, <2>3 DEF OwnedBy, Owns, Places, Holders
    <3>3. QED
      BY <2>4, <3>1, <3>2 DEF IInv, AllocatedIsOwned
  <2>5. QED
    BY <2>1, <2>2, <2>4
<1>2. QED
  BY <1>1, Invariance, PTL

\* The compare of RegistryReserve still holds when RegistryCommit acts on it.
THEOREM ReservationSafety == Spec => []ReservationHoldsExpected
<1>1. IInv => ReservationHoldsExpected
  BY DEF IInv
<1>2. QED
  BY <1>1, Invariance, PTL

\* The active generation changes only by a commit over exactly the epoch its
\* reservation expected, with the replaced one retired, or by destroy.
THEOREM HandoffSafety == Spec => HandoffReplacesExpected
<1> DEFINE Handed ==
      active' # active =>
        \/ destroyed'
        \/ \E c \in Clients :
             /\ reservation = c /\ active' = ticket[c]
             /\ ~readOnly[ticket[c]]
             /\ ReplacesExpected(c)
             /\ active # NoGen => active \in retired'
<1>1. ASSUME IInv, NEW c \in Clients, ClientNext(c) PROVE Handed
  <2>1. CASE CommitFrameworkActivation(c)
    BY <1>1, <2>1 DEF CommitFrameworkActivation, IInv, TicketsWritable,
                      ReservationHoldsExpected
  <2>2. CASE RegistryDestroy(c)
    BY <2>2 DEF RegistryDestroy
  <2>3. CASE \/ \E g \in Gens : CloseGeneration(c, g)
             \/ \E g \in Gens, e \in Epochs, ro \in BOOLEAN :
                  PrepareBegin(c, g, e, ro)
             \/ PrepareFail(c) \/ PrepareDone(c) \/ DiscardPrepared(c)
             \/ MaterializePrepared(c)
             \/ \E x \in Epoch0 : ActivationCreate(c, x)
             \/ PrepareFrameworkActivation(c) \/ AbortFrameworkActivation(c)
             \/ ActivationDestroy(c)
             \/ \E g \in Gens : (g = active \/ g \in retired) /\ TakePin(c, g)
             \/ PinRelease(c) \/ Collect(c)
    BY <2>3 DEF CloseGeneration, PrepareBegin, PrepareFail, PrepareDone,
                DiscardPrepared, MaterializePrepared, ActivationCreate,
                PrepareFrameworkActivation, AbortFrameworkActivation,
                ActivationDestroy, TakePin, PinRelease, Collect, registryVars
  <2>4. TypeOK
    BY <1>1 DEF IInv
  <2>5. QED
    BY <1>1, <2>1, <2>2, <2>3, <2>4, ClientCases
<1>2. IInv /\ [Next]_vars => [Handed]_vars
  BY <1>1 DEF Next
<1>3. QED
  BY <1>2, Invariance, PTL DEF Spec, HandoffReplacesExpected

\* prepared_count is exact: reserving, materializing or discarding a handle
\* never finds it zero, so the branches of RegistryReserve and
\* materialize_prepared that refuse on a zero counter are dead, and the
\* saturating decrements of discard_prepared never saturate.
THEOREM PreparedAreCounted == Spec => []PreparedCountIsExact
<1>1. IInv => PreparedCountIsExact
  BY DEF IInv
<1>2. QED
  BY <1>1, Invariance, PTL

\* registry_destroy leaves nobody with a handle into the deleted registry, and
\* every generation it still had is being closed: the four conditions under
\* which it is refused are enough.
THEOREM DestroyIsSafe == Spec => []DestroyedOnlyWhenIdle
<1>1. IInv => DestroyedOnlyWhenIdle
  <2> SUFFICES ASSUME IInv, destroyed
               PROVE  /\ \A c \in Clients :
                           /\ pin[c] = NoGen /\ prepared[c] = NoGen
                           /\ actPrepared[c] = NoGen /\ ticket[c] = NoGen
                      /\ allocated = UNION {closing[c] : c \in Clients}
    BY DEF DestroyedOnlyWhenIdle
  <2>1. /\ active = NoGen /\ retired = {}
        /\ \A c \in Clients :
             /\ pin[c] = NoGen /\ loading[c] = NoGen
             /\ prepared[c] = NoGen /\ actPrepared[c] = NoGen /\ ticket[c] = NoGen
    BY DEF IInv, DestroyedIsEmpty
  <2>2. ASSUME NEW g \in allocated PROVE \E c \in Clients : g \in closing[c]
    <3>1. g \in Gens /\ g # NoGen
      BY GensAssumption DEF IInv, TypeOK
    <3>2. ~InRegistry(g)
      BY <2>1, <3>1 DEF InRegistry
    <3>3. PICK c \in Clients : OwnedBy(c, g)
      BY <3>2 DEF IInv, AllocatedIsOwned
    <3>4. QED
      BY <2>1, <3>1, <3>3 DEF OwnedBy
  <2>3. ASSUME NEW c \in Clients, NEW g \in closing[c] PROVE g \in allocated
    <3>1. g \in Gens
      BY DEF IInv, TypeOK
    <3>2. QED
      BY <3>1 DEF IInv, Unique, OwnedIsAllocated, Owns, Places, Holders
  <2>4. QED
    BY <2>1, <2>2, <2>3
<1>2. QED
  BY <1>1, Invariance, PTL

-----------------------------------------------------------------------------
(* PerfcacheRegistry implements GenerationHandoff: the initial state maps   *)
(* to an initial state and every critical section to one step or none.     *)

\* The generations of the registry.
Linked == retired \cup ({active} \ {NoGen})

\* What the invariant says of one state, in the terms of the mapping.
LEMMA MappingTypes ==
  ASSUME IInv
  PROVE  /\ Linked \subseteq allocated /\ Linked \subseteq Gens
         /\ Findable \subseteq Epochs
         /\ \A g \in Linked : epoch[g] \in Epochs
         /\ \A c \in Clients : ticket[c] # NoGen =>
              ticket[c] \in allocated /\ epoch[ticket[c]] \in Epochs
         /\ \A c \in Clients : pin[c] # NoGen => pin[c] \in Linked
<1>1. Linked \subseteq Gens
  BY DEF IInv, TypeOK, Gen0, Linked
<1>2. Linked \subseteq allocated
  BY <1>1 DEF IInv, Unique, OwnedIsAllocated, Owns, Places, Holders, Linked
<1>3. \A g \in Linked : epoch[g] \in Epochs
  BY <1>2 DEF IInv, AllocatedHasEpoch
<1>4. ASSUME NEW c \in Clients, ticket[c] # NoGen
      PROVE  ticket[c] \in allocated /\ epoch[ticket[c]] \in Epochs
  <2>1. ticket[c] \in Gens
    BY <1>4 DEF IInv, TypeOK, Gen0
  <2>2. Owns("ticket", c, ticket[c])
    BY DEF Owns
  <2>3. ticket[c] \in allocated
    BY <2>1, <2>2 DEF IInv, Unique, OwnedIsAllocated, Places, Holders
  <2>4. QED
    BY <2>3 DEF IInv, AllocatedHasEpoch
<1>5. ASSUME NEW c \in Clients, pin[c] # NoGen PROVE pin[c] \in Linked
  BY <1>5 DEF IInv, PinsInRegistry, InRegistry, Linked
<1>6. QED
  BY <1>1, <1>2, <1>3, <1>4, <1>5 DEF Findable, Linked

\* A step that leaves a part of the registry alone leaves its image alone: the
\* heap under the registry, the pins and the tickets does not change.
LEMMA Frame ==
  ASSUME IInv, [Next]_vars
  PROVE  /\ \A g \in Linked : epoch'[g] = epoch[g]
         /\ \A c \in Clients : ticket[c] # NoGen => epoch'[ticket[c]] = epoch[ticket[c]]
         /\ active' = active => Current' = Current
         /\ retired' = retired /\ active' = active => Findable' = Findable
         /\ pin' = pin => Held' = Held
         /\ ticket' = ticket /\ expected' = expected => Reserved' = Reserved
<1>1. \A g \in Linked : epoch'[g] = epoch[g]
  BY HeapStable, MappingTypes DEF IInv, Linked, InRegistry
<1>2. \A c \in Clients : ticket[c] # NoGen => epoch'[ticket[c]] = epoch[ticket[c]]
  BY HeapStable DEF IInv, TypeOK, Gen0
<1>3. active' = active => Current' = Current
  BY <1>1 DEF Current, Linked
<1>4. retired' = retired /\ active' = active => Findable' = Findable
  BY <1>1 DEF Findable, Linked
<1>5. pin' = pin => Held' = Held
  BY <1>1, MappingTypes DEF Held
<1>6. ticket' = ticket /\ expected' = expected => Reserved' = Reserved
  BY <1>2 DEF Reserved
<1>7. QED
  BY <1>1, <1>2, <1>3, <1>4, <1>5, <1>6

\* There is at most one ticket.
LEMMA OneTicket ==
  ASSUME IInv
  PROVE  /\ reservation = NoClient => Reserved = {}
         /\ \A c \in Clients : ticket[c] # NoGen =>
              Reserved = {[from |-> expected[c], to |-> epoch[ticket[c]]]}
BY ClientsAssumption DEF IInv, ReservationHoldsExpected, Reserved

LEMMA HandoffInitial == Init => Handoff!HandoffInit
BY DEF Init, Handoff!HandoffInit, Current, Reserved, Findable, Held

LEMMA HandoffStep ==
  ASSUME IInv, IInv', [Next]_vars
  PROVE  [Handoff!HandoffNext]_(Handoff!handoffVars)
<1>1. CASE UNCHANGED vars
  BY <1>1, Frame DEF vars, registryVars, actVars, pinVars, Handoff!handoffVars
<1>2. ASSUME NEW c \in Clients, ClientNext(c)
      PROVE  [Handoff!HandoffNext]_(Handoff!handoffVars)
  <2> USE DEF registryVars, heapVars, actVars, pinVars, callVars
  <2>1. ASSUME NEW g \in Gens, CloseGeneration(c, g)
        PROVE  UNCHANGED Handoff!handoffVars
    BY <2>1, Frame DEF CloseGeneration, Handoff!handoffVars
  <2>2. ASSUME NEW g \in Gens, NEW e \in Epochs, NEW ro \in BOOLEAN,
               PrepareBegin(c, g, e, ro)
        PROVE  UNCHANGED Handoff!handoffVars
    BY <2>2, Frame DEF PrepareBegin, Handoff!handoffVars
  <2>3. CASE PrepareFail(c) \/ PrepareDone(c) \/ DiscardPrepared(c)
    BY <2>3, Frame DEF PrepareFail, PrepareDone, DiscardPrepared,
                       Handoff!handoffVars
  <2>4. CASE MaterializePrepared(c)
    <3>1. prepared[c] \in Gens
      BY <2>4 DEF MaterializePrepared, IInv, TypeOK, Gen0
    <3>2. Findable' = Findable \cup {epoch[prepared[c]]}
      BY <2>4, <3>1, GensAssumption DEF MaterializePrepared, Findable
    <3>3. epoch[prepared[c]] \in Epochs
      <4>1. prepared[c] \in allocated
        BY <3>1 DEF IInv, Unique, OwnedIsAllocated, Owns, Places, Holders
      <4>2. QED
        BY <4>1 DEF IInv, AllocatedHasEpoch
    <3>4. Handoff!Offer(epoch[prepared[c]])
      BY <2>4, <3>2, Frame DEF MaterializePrepared, Handoff!Offer
    <3>5. QED
      BY <3>3, <3>4 DEF Handoff!HandoffNext
  <2>5. ASSUME NEW x \in Epoch0, ActivationCreate(c, x)
        PROVE  UNCHANGED Handoff!handoffVars
    <3>1. ticket[c] = NoGen /\ ticket' = ticket
      BY <2>5 DEF ActivationCreate, IInv, HandlesFit, TypeOK
    <3>2. \A d \in Clients : ticket[d] # NoGen => expected'[d] = expected[d]
      BY <2>5, <3>1 DEF ActivationCreate, IInv, TypeOK
    <3>3. Reserved' = Reserved
      BY <2>5, <3>1, <3>2 DEF ActivationCreate, Reserved
    <3>4. QED
      BY <2>5, <3>3, Frame DEF ActivationCreate, Handoff!handoffVars
  <2>6. CASE PrepareFrameworkActivation(c)
    <3> DEFINE r == [from |-> expected[c], to |-> epoch[actPrepared[c]]]
    <3>1. Reserved = {}
      BY <2>6, OneTicket DEF PrepareFrameworkActivation
    <3>2. ticket'[c] = actPrepared[c] /\ expected'[c] = expected[c] /\ epoch' = epoch
      BY <2>6 DEF PrepareFrameworkActivation, IInv, TypeOK
    <3>3. Reserved' = {r}
      <4>1. ticket'[c] # NoGen
        BY <2>6, <3>2 DEF PrepareFrameworkActivation
      <4>2. Reserved' = {[from |-> expected'[c], to |-> epoch'[ticket'[c]]]}
        BY <4>1, ClientsAssumption
           DEF IInv, ReservationHoldsExpected, Reserved
      <4>3. QED
        BY <3>2, <4>2
    <3>4. r.from = Current
      BY <2>6 DEF PrepareFrameworkActivation, ExpectedMatches, Current
    <3>5. r \in Handoff!Reservations
      <4>1. epoch[actPrepared[c]] \in Epochs
        BY <2>6, <3>2, MappingTypes
           DEF PrepareFrameworkActivation, IInv, AllocatedHasEpoch, Unique,
               OwnedIsAllocated, Owns, Places, Holders, TypeOK, Gen0
      <4>2. QED
        BY <4>1 DEF Handoff!Reservations, IInv, TypeOK, Epoch0
    <3>6. Handoff!Reserve(r)
      BY <2>6, <3>1, <3>3, <3>4, Frame
         DEF PrepareFrameworkActivation, Handoff!Reserve
    <3>7. QED
      BY <3>5, <3>6 DEF Handoff!HandoffNext
  <2>7. CASE CommitFrameworkActivation(c)
    <3> DEFINE r == [from |-> expected[c], to |-> epoch[ticket[c]]]
    <3>1. Reserved = {r}
      BY <2>7, OneTicket DEF CommitFrameworkActivation
    <3>2. Reserved' = {}
      <4>1. reservation' = NoClient
        BY <2>7 DEF CommitFrameworkActivation
      <4>2. QED
        BY <4>1, ClientsAssumption DEF IInv, ReservationHoldsExpected, Reserved
    <3>3. r.from = Current
      BY <2>7 DEF CommitFrameworkActivation, IInv, ReservationHoldsExpected,
                  ReplacesExpected, Current
    <3>4. Current' = r.to
      BY <2>7 DEF CommitFrameworkActivation, Current
    <3>5. Findable' = Findable \cup {r.to}
      BY <2>7, GensAssumption DEF CommitFrameworkActivation, Findable
    <3>6. r \in Handoff!Reservations
      BY <2>7, MappingTypes
         DEF CommitFrameworkActivation, Handoff!Reservations, IInv, TypeOK, Epoch0
    <3>7. Handoff!Commit(r)
      BY <2>7, <3>1, <3>2, <3>3, <3>4, <3>5, Frame
         DEF CommitFrameworkActivation, Handoff!Commit
    <3>8. QED
      BY <3>6, <3>7 DEF Handoff!HandoffNext
  <2>8. ASSUME ticket[c] # NoGen, reservation' = NoClient,
               UNCHANGED <<active, retired, destroyed, pin>>
        PROVE  Handoff!Abort
    <3>1. Reserved # {}
      BY <2>8, OneTicket
    <3>2. Reserved' = {}
      BY <2>8, ClientsAssumption DEF IInv, ReservationHoldsExpected, Reserved
    <3>3. QED
      BY <2>8, <3>1, <3>2, Frame DEF Handoff!Abort
  <2>9. CASE AbortFrameworkActivation(c)
    BY <2>8, <2>9 DEF AbortFrameworkActivation, Handoff!HandoffNext
  <2>10. CASE ActivationDestroy(c)
    <3>1. CASE ticket[c] # NoGen
      <4>1. reservation' = NoClient
        BY <2>10, <3>1 DEF ActivationDestroy, IInv, ReservationHoldsExpected
      <4>2. QED
        BY <2>8, <2>10, <3>1, <4>1 DEF ActivationDestroy, Handoff!HandoffNext
    <3>2. CASE ticket[c] = NoGen
      <4>1. ticket' = ticket
        BY <2>10, <3>2 DEF ActivationDestroy, IInv, TypeOK
      <4>2. \A d \in Clients : ticket[d] # NoGen => expected'[d] = expected[d]
        BY <2>10, <3>2 DEF ActivationDestroy, IInv, TypeOK
      <4>3. Reserved' = Reserved
        BY <2>10, <4>1, <4>2 DEF ActivationDestroy, Reserved
      <4>4. QED
        BY <2>10, <4>3, Frame DEF ActivationDestroy, Handoff!handoffVars
    <3>3. QED
      BY <3>1, <3>2
  <2>11. ASSUME NEW g \in Gens, g = active \/ g \in retired, TakePin(c, g)
         PROVE  Handoff!HandoffNext
    <3>1. g \in Linked /\ epoch[g] \in Findable /\ epoch[g] \in Epochs
      BY <2>11, MappingTypes, GensAssumption DEF Linked, Findable
    <3>2. Held[c] = NoEpoch
      BY <2>11 DEF TakePin, Held
    <3>3. Held' = [Held EXCEPT ![c] = epoch[g]]
      BY <2>11, GensAssumption DEF TakePin, Held, IInv, TypeOK
    <3>4. Handoff!Hold(c, epoch[g])
      BY <2>11, <3>1, <3>2, <3>3, Frame DEF TakePin, Handoff!Hold
    <3>5. QED
      BY <3>1, <3>4 DEF Handoff!HandoffNext
  <2>12. CASE PinRelease(c)
    <3>1. Held[c] # NoEpoch
      BY <2>12, MappingTypes, EpochsAssumption DEF PinRelease, Held
    <3>2. Held' = [Held EXCEPT ![c] = NoEpoch]
      BY <2>12 DEF PinRelease, Held, IInv, TypeOK
    <3>3. Handoff!Release(c)
      BY <2>12, <3>1, <3>2, Frame DEF PinRelease, Handoff!Release
    <3>4. QED
      BY <3>3 DEF Handoff!HandoffNext
  <2>13. CASE Collect(c)
    <3> DEFINE S == Findable \ Findable'
    <3>1. S \in SUBSET Epochs /\ Findable' = Findable \ S
      <4>1. Findable' \subseteq Findable
        BY <2>13, Frame DEF Collect, Findable, Linked
      <4>2. QED
        BY <4>1, MappingTypes
    <3>2. Current \notin S
      <4>1. active # NoGen => epoch[active] \in Findable'
        BY <2>13 DEF Collect, Findable
      <4>2. QED
        BY <4>1, MappingTypes, EpochsAssumption DEF Current
    <3>3. ASSUME NEW d \in Clients PROVE Held[d] \notin S
      <4>1. pin[d] # NoGen => pin[d] \in Linked'
        BY <2>13, MappingTypes DEF Collect, IInv, PinsInRegistry, InRegistry,
                                   Linked
      <4>2. pin[d] # NoGen => epoch[pin[d]] \in Findable'
        BY <2>13, <4>1 DEF Collect, Findable, Linked
      <4>3. QED
        BY <4>2, MappingTypes, EpochsAssumption DEF Held
    <3>4. Handoff!Withdraw(S)
      BY <2>13, <3>1, <3>2, <3>3, Frame DEF Collect, Handoff!Withdraw
    <3>5. QED
      BY <3>1, <3>4 DEF Handoff!HandoffNext
  <2>14. CASE RegistryDestroy(c)
    <3>1. Reserved = {} /\ Reserved' = Reserved
      BY <2>14, OneTicket, Frame DEF RegistryDestroy
    <3>2. Current' = NoEpoch /\ Findable' = {}
      BY <2>14 DEF RegistryDestroy, Current, Findable
    <3>3. Held' = Held
      BY <2>14, Frame DEF RegistryDestroy
    <3>4. \A d \in Clients : Held[d] = NoEpoch
      BY <2>14, GensAssumption
         DEF RegistryDestroy, IInv, PinsInRegistry, InRegistry, Held, TypeOK, Gen0
    <3>5. Handoff!Shut
      BY <2>14, <3>1, <3>2, <3>3, <3>4 DEF RegistryDestroy, Handoff!Shut
    <3>6. QED
      BY <3>5 DEF Handoff!HandoffNext
  <2>15. TypeOK
    BY DEF IInv
  <2>16. QED
    BY <1>2, <2>15, ClientCases, <2>1, <2>2, <2>3, <2>4, <2>5, <2>6, <2>7, <2>9,
       <2>10, <2>11, <2>12, <2>13, <2>14
<1>3. QED
  BY <1>1, <1>2 DEF Next

\* The registry is, to its readers and activators, one compare-and-swap
\* register of epochs whose held values are never withdrawn.
THEOREM RegistryImplementsHandoff == Spec => ImplementsHandoff
<1>1. Init => Handoff!HandoffInit
  BY HandoffInitial
<1>2. IInv /\ IInv' /\ [Next]_vars => [Handoff!HandoffNext]_(Handoff!handoffVars)
  BY HandoffStep
<1>3. QED
  BY <1>1, <1>2, Invariance, PTL DEF Spec, ImplementsHandoff, Handoff!HandoffSpec
=============================================================================
