-------------------------- MODULE GenerationHandoff --------------------------
(***************************************************************************)
(* What a perfcache registry promises its clients, without the heap, the   *)
(* lists, the counters and the tickets: one current epoch that is replaced *)
(* by compare-and-swap in two steps, reserve and commit, and epochs that   *)
(* stay readable for as long as somebody holds them.                       *)
(***************************************************************************)
EXTENDS TLAPS

CONSTANTS
  Clients,   \* those who read and activate
  Epochs,    \* activation epochs
  NoEpoch    \* none

VARIABLES
  current,   \* the epoch new readers see
  reserved,  \* the open reservation: {} or one record of what replaces what
  readable,  \* the epochs a reader may ask for
  holds,     \* the epoch each client reads
  shut       \* the registry is gone

handoffVars == <<current, reserved, readable, holds, shut>>

Reservations == [from : Epochs \cup {NoEpoch}, to : Epochs]

HandoffInit ==
  /\ current = NoEpoch
  /\ reserved = {}
  /\ readable = {}
  /\ holds = [c \in Clients |-> NoEpoch]
  /\ shut = FALSE

\* The compare: a reservation is made only over what is current.
Reserve(r) ==
  /\ reserved = {}
  /\ r.from = current
  /\ reserved' = {r}
  /\ UNCHANGED <<current, readable, holds, shut>>

\* The swap.  What was current stays readable.
Commit(r) ==
  /\ reserved = {r}
  /\ r.from = current
  /\ current' = r.to
  /\ readable' = readable \cup {r.to}
  /\ reserved' = {}
  /\ UNCHANGED <<holds, shut>>

Abort ==
  /\ reserved # {}
  /\ reserved' = {}
  /\ UNCHANGED <<current, readable, holds, shut>>

\* An epoch is made readable without becoming current.
Offer(e) ==
  /\ readable' = readable \cup {e}
  /\ UNCHANGED <<current, reserved, holds, shut>>

\* Epochs that are neither current nor held are withdrawn.
Withdraw(S) ==
  /\ current \notin S
  /\ \A c \in Clients : holds[c] \notin S
  /\ readable' = readable \ S
  /\ UNCHANGED <<current, reserved, holds, shut>>

Hold(c, e) ==
  /\ holds[c] = NoEpoch
  /\ e \in readable
  /\ holds' = [holds EXCEPT ![c] = e]
  /\ UNCHANGED <<current, reserved, readable, shut>>

Release(c) ==
  /\ holds[c] # NoEpoch
  /\ holds' = [holds EXCEPT ![c] = NoEpoch]
  /\ UNCHANGED <<current, reserved, readable, shut>>

\* Nobody holds and nobody is about to replace.
Shut ==
  /\ reserved = {}
  /\ \A c \in Clients : holds[c] = NoEpoch
  /\ current' = NoEpoch
  /\ readable' = {}
  /\ shut' = TRUE
  /\ UNCHANGED <<reserved, holds>>

HandoffNext ==
  \/ \E r \in Reservations : Reserve(r) \/ Commit(r)
  \/ Abort
  \/ \E e \in Epochs : Offer(e)
  \/ \E S \in SUBSET Epochs : Withdraw(S)
  \/ \E c \in Clients, e \in Epochs : Hold(c, e)
  \/ \E c \in Clients : Release(c)
  \/ Shut

HandoffSpec == HandoffInit /\ [][HandoffNext]_handoffVars

-----------------------------------------------------------------------------

HandoffTypeOK ==
  /\ current \in Epochs \cup {NoEpoch}
  /\ reserved \in SUBSET Reservations
  /\ readable \in SUBSET Epochs
  /\ holds \in [Clients -> Epochs \cup {NoEpoch}]

\* The promise to readers: what a client reads is not withdrawn under it, and
\* what new readers see can be read.
HeldIsReadable ==
  /\ \A c \in Clients : holds[c] # NoEpoch => holds[c] \in readable
  /\ current # NoEpoch => current \in readable

\* The promise to activators: from reserve to commit nothing else becomes
\* current.
ReservationIsCurrent == \A r \in reserved : r.from = current

-----------------------------------------------------------------------------
(* The promises follow from the steps.                                     *)

HandoffInv == HandoffTypeOK /\ HeldIsReadable /\ ReservationIsCurrent

LEMMA HandoffInvStep ==
  ASSUME HandoffInv, [HandoffNext]_handoffVars
  PROVE  HandoffInv'
<1> USE DEF HandoffInv, HandoffTypeOK, HeldIsReadable, ReservationIsCurrent
<1>1. CASE UNCHANGED handoffVars
  BY <1>1 DEF handoffVars
<1>2. ASSUME NEW r \in Reservations, Reserve(r) PROVE HandoffInv'
  BY <1>2 DEF Reserve
<1>3. ASSUME NEW r \in Reservations, Commit(r) PROVE HandoffInv'
  BY <1>3 DEF Commit, Reservations
<1>4. CASE Abort
  BY <1>4 DEF Abort
<1>5. ASSUME NEW e \in Epochs, Offer(e) PROVE HandoffInv'
  BY <1>5 DEF Offer
<1>6. ASSUME NEW S \in SUBSET Epochs, Withdraw(S) PROVE HandoffInv'
  BY <1>6 DEF Withdraw
<1>7. ASSUME NEW c \in Clients, NEW e \in Epochs, Hold(c, e) PROVE HandoffInv'
  BY <1>7 DEF Hold
<1>8. ASSUME NEW c \in Clients, Release(c) PROVE HandoffInv'
  BY <1>8 DEF Release
<1>9. CASE Shut
  BY <1>9 DEF Shut
<1> HIDE DEF HandoffInv
<1>10. QED
  BY <1>1, <1>2, <1>3, <1>4, <1>5, <1>6, <1>7, <1>8, <1>9 DEF HandoffNext

\* In the abstract handoff what is held or current is readable, and what a
\* reservation compared is current until it commits or aborts.
THEOREM HandoffPromises ==
  HandoffSpec => [](HeldIsReadable /\ ReservationIsCurrent)
<1>1. HandoffInit => HandoffInv
  BY DEF HandoffInit, HandoffInv, HandoffTypeOK, HeldIsReadable,
         ReservationIsCurrent
<1>2. HandoffInv /\ [HandoffNext]_handoffVars => HandoffInv'
  BY HandoffInvStep
<1>3. HandoffInv => HeldIsReadable /\ ReservationIsCurrent
  BY DEF HandoffInv
<1>4. QED
  BY <1>1, <1>2, <1>3, PTL DEF HandoffSpec
=============================================================================
