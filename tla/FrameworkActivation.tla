------------------------ MODULE FrameworkActivation ------------------------
(***************************************************************************)
(* Activation receipts of src/engine/src/framework.c, with the activation  *)
(* provider of src/engine/src/perfcache_registry.cpp behind them: admit a  *)
(* staged stream, then commit or abort it.                                 *)
(*                                                                         *)
(* A caller may keep copies of every receipt it was given and present any  *)
(* of them again, with any context, request and provider.  A digest equals *)
(* what it digests, so the identity of a receipt is its content.           *)
(***************************************************************************)
EXTENDS Naturals, FiniteSets

CONSTANTS
    Contexts,     \* [epochs : slot -> epoch or NoEpoch, readOnly : BOOLEAN]
    Staged,       \* staged stream receipts: [id, ctx]
    Epochs, Slots,
    Perfcache,    \* LAPLACE_FRAMEWORK_EPOCH_PERFCACHE, the slot of the provider
    Providers,    \* activation objects, one prepared generation each
    Offer,        \* Offer[p] : [ctx, staged, epoch, expected]
    NoEpoch,
    MaxReceipts   \* bound on the receipts handed out

\* A staged receipt's identity is the digest of its fields, the context among them.
OfferAssumption ==
    /\ Perfcache \in Slots
    /\ NoEpoch \notin Providers
    /\ \A p \in Providers : Offer[p].epoch \in Epochs /\ Offer[p].expected \in Epochs \cup {NoEpoch}
    /\ \A s, t \in Staged : s.id = t.id => s.ctx = t.ctx

VARIABLES
    active,       \* epoch of the registry's active generation, or NoEpoch
    reservation,  \* the provider whose ticket the registry holds, or NoEpoch
    act,          \* act[p] : [prepared, ticket, receipt]
    receipts,     \* every receipt of status OK handed out so far
    switches      \* history: the epoch transitions made, [provider, from, to]

activationVars == <<active, reservation, act, receipts, switches>>

\* laplace_framework_activation_request
Requests == [slot : Slots, expected : Epochs, next : Epochs]

\* The identity FillReceipt gives a generation receipt: the generation and
\* what became of it.
GenerationReceipt(p, disposition) == <<Offer[p].epoch, Offer[p].staged, disposition>>

\* A provider as laplace_perfcache_activation_create leaves it.
ActivationInit ==
    /\ active = NoEpoch
    /\ reservation = NoEpoch
    /\ act = [p \in Providers |-> [prepared |-> TRUE, ticket |-> FALSE, receipt |-> NoEpoch]]
    /\ receipts = {}
    /\ switches = {}

-----------------------------------------------------------------------------
(* The provider, as functions of its state st = [active, reservation, act,  *)
(* switches].                                                               *)

St == [active |-> active, reservation |-> reservation, act |-> act,
       switches |-> switches]

\* RegistryReserve: one reservation at a time, over the expected epoch.
Reserve(st, p) ==
    IF st.reservation # NoEpoch THEN "ALREADY_RESERVED"
    ELSE IF Offer[p].expected # st.active THEN "EPOCH_MISMATCH"
    ELSE "OK"

\* PrepareFrameworkActivation: the generation must be the one of this context,
\* staged receipt and request.  A refusal of the registry leaves its receipt.
ProviderPrepare(st, p, c, s, q) ==
    LET o == Offer[p]
        mine == /\ st.act[p].prepared /\ ~st.act[p].ticket
                /\ q.slot = Perfcache
                /\ c = o.ctx /\ s.id = o.staged /\ q.next = o.epoch
                /\ o.expected # NoEpoch => q.expected = o.expected
        result == Reserve(st, p)
    IN CASE ~mine -> [ok |-> FALSE, st |-> st, fingerprint |-> NoEpoch]
         [] mine /\ result # "OK" ->
              [ok |-> FALSE, fingerprint |-> NoEpoch,
               st |-> [st EXCEPT !.act[p].receipt = GenerationReceipt(p, result)]]
         [] OTHER ->
              [ok |-> TRUE, fingerprint |-> GenerationReceipt(p, "RESERVED"),
               st |-> [st EXCEPT !.reservation = p,
                          !.act[p] = [prepared |-> FALSE, ticket |-> TRUE,
                                      receipt |-> GenerationReceipt(p, "RESERVED")]]]

ProviderCommitAny(st, p, fingerprint) ==
    IF st.reservation # p
    THEN [ok |-> FALSE, st |-> st, fingerprint |-> NoEpoch]
    ELSE [ok |-> TRUE, fingerprint |-> GenerationReceipt(p, "ACTIVATED"),
          st |-> [st EXCEPT !.active = Offer[p].epoch, !.reservation = NoEpoch,
             !.switches = @ \cup {[provider |-> p, from |-> st.active, to |-> Offer[p].epoch]},
             !.act[p].ticket = FALSE,
             !.act[p].receipt = GenerationReceipt(p, "ACTIVATED")]]

\* CommitFrameworkActivation with RegistryCommit: only for the preparation the
\* activation's last receipt names.
ProviderCommit(st, p, fingerprint) ==
    IF ~st.act[p].ticket \/ fingerprint # st.act[p].receipt \/ st.reservation # p
    THEN [ok |-> FALSE, st |-> st, fingerprint |-> NoEpoch]
    ELSE [ok |-> TRUE, fingerprint |-> GenerationReceipt(p, "ACTIVATED"),
          st |-> [st EXCEPT !.active = Offer[p].epoch, !.reservation = NoEpoch,
             !.switches = @ \cup {[provider |-> p, from |-> st.active, to |-> Offer[p].epoch]},
             !.act[p].ticket = FALSE,
             !.act[p].receipt = GenerationReceipt(p, "ACTIVATED")]]

\* AbortFrameworkActivation with RegistryAbort: whichever preparation it is
\* asked to abort, it gives up the ticket the activation holds.
ProviderAbort(st, p) ==
    IF ~st.act[p].ticket \/ st.reservation # p THEN st
    ELSE [st EXCEPT !.reservation = NoEpoch, !.act[p].ticket = FALSE,
                    !.act[p].receipt = GenerationReceipt(p, "ABORTED")]

-----------------------------------------------------------------------------
(* The framework.                                                           *)

\* laplace_framework_activation_receipt
Receipt(status, effect, c, s, q, preparation, activation) ==
    [status |-> status, effect |-> effect, ctx |-> c, staged |-> s.id,
     request |-> q, preparation |-> preparation, activation |-> activation]

\* The request checks of admit, and the compare with the caller's context.
RequestValid(c, s, q) == s.ctx = c /\ q.expected # q.next

ContextHolds(c, q) == c.epochs[q.slot] # NoEpoch /\ c.epochs[q.slot] = q.expected

\* laplace_framework_admit_staged_stream: a result [st, receipt].  A provider
\* that refuses to prepare is told to abort before the refusal is returned.
AdmitStagedStream(st, p, c, s, q) ==
    LET refused(why) == [st |-> st, receipt |-> Receipt(why, "NONE", c, s, q, NoEpoch, NoEpoch)]
        prepared == ProviderPrepare(st, p, c, s, q)
    IN CASE ~RequestValid(c, s, q) -> refused("REQUEST_INVALID")
         [] RequestValid(c, s, q) /\ c.readOnly -> refused("NOT_AUTHORIZED")
         [] RequestValid(c, s, q) /\ ~c.readOnly /\ ~ContextHolds(c, q) ->
              refused("REQUEST_INVALID")
         [] RequestValid(c, s, q) /\ ~c.readOnly /\ ContextHolds(c, q) ->
              IF prepared.ok
              THEN [st |-> prepared.st,
                    receipt |-> Receipt("OK", "ADMITTED", c, s, q, prepared.fingerprint, NoEpoch)]
              ELSE [st |-> ProviderAbort(prepared.st, p),
                    receipt |-> Receipt("ADMISSION_FAILED", "STAGED_INERT", c, s, q, NoEpoch, NoEpoch)]

\* laplace_framework_admitted_stream_validate, the same in abort.
AdmittedValid(c, q, r) ==
    /\ r.status = "OK" /\ r.effect = "ADMITTED"
    /\ r.ctx = c
    /\ r.request.slot = q.slot /\ r.request.expected = q.expected
    /\ r.request.next = q.next

\* laplace_framework_commit_admitted_stream: a refused commit aborts.
CommitAdmittedStream(st, p, r) ==
    LET committed == ProviderCommit(st, p, r.preparation)
    IN IF committed.ok
       THEN [st |-> committed.st,
             receipt |-> [r EXCEPT !.effect = "ACTIVATED",
                                   !.activation = committed.fingerprint]]
       ELSE [st |-> ProviderAbort(st, p),
             receipt |-> [r EXCEPT !.status = "COMMIT_FAILED"]]

\* laplace_framework_abort_admitted_stream: a provider's abort has no result,
\* the receipt always says the stream is inert.
AbortAdmittedStream(st, p, r) ==
    [st |-> ProviderAbort(st, p),
     receipt |-> [r EXCEPT !.effect = "STAGED_INERT", !.activation = NoEpoch]]

\* laplace_framework_committed_receipts_validate: the stored fields reproduce
\* the identities of the admission and of the activation.
CommittedReceiptsValid(r, admission, activation) ==
    /\ r.request.expected # r.request.next
    /\ admission = [r EXCEPT !.status = "OK", !.effect = "ADMITTED", !.activation = NoEpoch]
    /\ activation = [r EXCEPT !.status = "OK", !.effect = "ACTIVATED"]

-----------------------------------------------------------------------------

Apply(result) ==
    /\ active' = result.st.active
    /\ reservation' = result.st.reservation
    /\ act' = result.st.act
    /\ switches' = result.st.switches
    /\ receipts' = IF result.receipt.status = "OK"
                   THEN receipts \cup {result.receipt} ELSE receipts

Admit(p, c, s, q) ==
    /\ Cardinality(receipts) < MaxReceipts
    /\ Apply(AdmitStagedStream(St, p, c, s, q))

\* A receipt the caller kept, presented with the context and request it names
\* (any other pair is refused without effect).
Commit(p, r) ==
    /\ Cardinality(receipts) < MaxReceipts
    /\ AdmittedValid(r.ctx, r.request, r)
    /\ Apply(CommitAdmittedStream(St, p, r))

Abort(p, r) ==
    /\ Cardinality(receipts) < MaxReceipts
    /\ AdmittedValid(r.ctx, r.request, r)
    /\ Apply(AbortAdmittedStream(St, p, r))

\* laplace_framework_activate_staged_stream: admit and, if admitted, commit.
Activate(p, c, s, q) ==
    /\ Cardinality(receipts) < MaxReceipts
    /\ LET admitted == AdmitStagedStream(St, p, c, s, q)
       IN Apply(IF admitted.receipt.status = "OK"
                THEN CommitAdmittedStream(admitted.st, p, admitted.receipt)
                ELSE admitted)

\* laplace_perfcache_activation_destroy and a new activation of the same offer.
Recreate(p) ==
    /\ act[p] # [prepared |-> TRUE, ticket |-> FALSE, receipt |-> NoEpoch]
    /\ LET st == ProviderAbort(St, p)
       IN /\ reservation' = st.reservation
          /\ act' = [st.act EXCEPT ![p] =
                        [prepared |-> TRUE, ticket |-> FALSE, receipt |-> NoEpoch]]
    /\ UNCHANGED <<active, receipts, switches>>

ActivationNext ==
    \/ \E p \in Providers, c \in Contexts, s \in Staged, q \in Requests :
          Admit(p, c, s, q) \/ Activate(p, c, s, q)
    \/ \E p \in Providers, r \in receipts : Commit(p, r) \/ Abort(p, r)
    \/ \E p \in Providers : Recreate(p)

ActivationSpec == ActivationInit /\ [][ActivationNext]_activationVars

-----------------------------------------------------------------------------

\* Whoever holds a ticket was admitted: the registry's single reservation can
\* always be committed or aborted with a receipt somebody was given, even after
\* foreign admits, commits and aborts on the same provider.
ReservationIsAdmitted ==
    /\ \A p \in Providers : act[p].ticket <=> reservation = p
    /\ reservation # NoEpoch =>
          \E r \in receipts : /\ r.status = "OK" /\ r.effect = "ADMITTED"
                              /\ r.preparation = act[reservation].receipt

\* Compare and swap: every transition leaves the epoch that was expected when
\* it was reserved, however the calls of two providers interleave.
TransitionsAreExpected ==
    \A w \in switches : w.from = Offer[w.provider].expected

Admission(r) == [r EXCEPT !.effect = "ADMITTED", !.activation = NoEpoch]

\* A receipt that validates as the stored form of an activation is about a transition that happened, from a
\* writable context that held the expected epoch.
ActivatedIsReal ==
    \A r \in receipts :
        CommittedReceiptsValid(r, Admission(r), r) =>
            /\ ~r.ctx.readOnly /\ r.ctx.epochs[Perfcache] = r.request.expected
            /\ \E w \in switches : /\ w.to = r.request.next
                                   /\ Offer[w.provider].staged = r.staged
                                   /\ Offer[w.provider].ctx = r.ctx
                                   /\ r.activation = GenerationReceipt(w.provider, "ACTIVATED")

\* A ticket is always backed by a receipt somebody was given, a transition leaves
\* the epoch that was expected, and an activation that validates happened.
ReceiptsAreReal == ReservationIsAdmitted /\ TransitionsAreExpected /\ ActivatedIsReal

\* What an aborted stream's receipt claims: the epoch it names was not activated
\* by that admission.
InertIsTruthful ==
    \A r \in receipts :
        (r.status = "OK" /\ r.effect = "STAGED_INERT") =>
            [r EXCEPT !.effect = "ACTIVATED",
                      !.activation = <<r.request.next, r.staged, "ACTIVATED">>] \notin receipts

=============================================================================
