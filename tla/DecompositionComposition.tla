---------------------- MODULE DecompositionComposition ----------------------
(* The composition plan of a decomposition: the atoms, operands and        *)
(* requests that spell every span's bytes, and the identities the requests *)
(* evaluate to. It reads the result of a Decomposition run.                *)
(*                                                                         *)
(* A position is the tuple of bytes that encode it. An entity identity is  *)
(* a position, or the sequence of identities it is composed of: the hash   *)
(* of identity.c is taken to be injective.                                 *)
EXTENDS Decomposition, TLC

CONSTANTS
    Width,        \* bytes of the sequence a lead byte opens; 0 when it opens none
    Malformed,    \* sequences outside the range of their width, or surrogates
    OrdinalBases, \* possible source_ordinal_base of the caller
    OrdinalLimit  \* UINT64_MAX

OrdinalAssumption == OrdinalLimit \in Nat /\ OrdinalBases \subseteq 0..OrdinalLimit

VARIABLES
    plan,        \* the plan, or the status of a plan that failed
    identities   \* the results of identity evaluation

allVars == <<vars, plan, identities>>

NoPlan == [status |-> "none"]

(* DecodeUtf8: <<FALSE, _>> for malformed bytes, else the positions. *)
Decoded(bytes) ==
    LET Opens(s, b) == IF s.need > 0 THEN [s EXCEPT !.need = @ - 1, !.open = Append(@, b)]
                       ELSE [s EXCEPT !.need = Width[b] - 1, !.open = <<b>>]
        Read(s, b) ==
            IF ~s.ok \/ (s.need = 0 /\ Width[b] = 0) \/ (s.need > 0 /\ Width[b] # 0)
            THEN [s EXCEPT !.ok = FALSE]
            ELSE LET o == Opens(s, b)
                 IN  IF o.need > 0 THEN o
                     ELSE IF o.open \in Malformed THEN [o EXCEPT !.ok = FALSE]
                     ELSE [o EXCEPT !.done = Append(@, o.open)]
        end == FoldLeft(Read, [ok |-> TRUE, need |-> 0, open |-> <<>>, done |-> <<>>], bytes)
    IN  <<end.ok /\ end.need = 0 /\ end.done # <<>>, end.done>>

Atom(i) == [kind |-> "known", index |-> i]
Prior(i) == [kind |-> "prior", index |-> i]
NoReference == [kind |-> "zero", index |-> 0]

AtomIndex(b, position) ==
    IF position \in ToSet(b.atoms)
    THEN CHOOSE i \in 1..Len(b.atoms) : b.atoms[i] = position
    ELSE Len(b.atoms) + 1

WithAtom(b, position) ==
    IF position \in ToSet(b.atoms) THEN b ELSE [b EXCEPT !.atoms = Append(@, position)]

(* AddRequest: the source ordinals of a plan follow its base. *)
AddRequest(b, first, count) ==
    IF b.base + Len(b.requests) + 1 > OrdinalLimit THEN [b EXCEPT !.status = "overflow"]
    ELSE [b EXCEPT !.requests = Append(@, [first |-> first, count |-> count,
                                           ordinal |-> b.base + Len(b.requests) + 1])]

(* The reference of bytes seen for the first time is entered in the map. *)
Remember(b, bytes, reference) == [b EXCEPT !.texts = @ \cup {<<bytes, reference>>}]

WithOperand(b, position) ==
    [WithAtom(b, position) EXCEPT !.operands = Append(@, Atom(AtomIndex(b, position)))]

(* One position is its atom; several are the operands of a request. *)
MintPositions(b, bytes, positions) ==
    LET all == AddRequest(FoldLeft(WithOperand, b, positions), Len(b.operands) + 1, Len(positions))
    IN  IF Len(positions) = 1
        THEN Remember(WithAtom(b, positions[1]), bytes, Atom(AtomIndex(b, positions[1])))
        ELSE IF all.status # "ok" THEN all
        ELSE Remember(all, bytes, Prior(Len(all.requests)))

(* TextImpl for bytes not met before. *)
MintText(b, bytes) ==
    LET decoded == Decoded(bytes)
    IN  IF decoded[1] THEN MintPositions(b, bytes, decoded[2]) ELSE [b EXCEPT !.status = "utf8 invalid"]

Text(b, bytes) ==
    IF \E t \in b.texts : t[1] = bytes THEN b ELSE MintText(b, bytes)

Reference(b, bytes) == (CHOOSE t \in b.texts : t[1] = bytes)[2]

(* The checks of one span in Build. *)
SpanValid(i) ==
    LET s == spans[i] IN
        /\ s.first <= s.last /\ s.last <= Len(content)
        /\ s.first < s.last \/ s.syntax \cap MissingSyntax # {}
        /\ "empty" \in s.syntax => s.first = s.last /\ "missing" \notin s.syntax
        /\ IF i = 1 THEN s.first = 0 /\ s.last = Len(content) /\ s.last > 0 /\ s.parent = 0
           ELSE s.parent < i

BytesOf(s) == SubSeq(content, s.first + 1, s.last)

Refer(minted, bytes) ==
    IF minted.status # "ok" THEN minted
    ELSE [minted EXCEPT !.references = Append(@, Reference(minted, bytes))]

AddSpan(b, i) ==
    IF b.status # "ok" THEN b
    ELSE IF ~SpanValid(i) THEN [b EXCEPT !.status = "decomposition invalid"]
    ELSE IF spans[i].first = spans[i].last THEN [b EXCEPT !.references = Append(@, NoReference)]
    ELSE Refer(Text(b, BytesOf(spans[i])), BytesOf(spans[i]))

(* The root of the plan is the reference of the first span. *)
Rooted(b) == [b EXCEPT !.root = b.references[1]]

(* Builder::Build; a plan that fails is deleted. *)
Built(base) ==
    LET empty == [status |-> "ok", base |-> base, atoms |-> <<>>, operands |-> <<>>,
                  requests |-> <<>>, texts |-> {}, references |-> <<>>,
                  root |-> NoReference]
        all == FoldLeft(AddSpan, empty, [i \in 1..Len(spans) |-> i])
    IN  IF all.status = "ok" THEN Rooted(all) ELSE [status |-> all.status]

CreatePlan(base) ==
    /\ phase = "ended" /\ status = "ok" /\ plan.status = "none"
    /\ plan' = Built(base)
    /\ UNCHANGED <<vars, identities>>

(* laplace_decomposition_composition_plan_view_get accepts a plan. *)
CanonicalReferenceValid(r) ==
    \/ r.kind = "known" /\ r.index \in 1..Len(plan.atoms)
    \/ r.kind = "prior" /\ r.index \in 1..Len(plan.requests)
ViewAccepted ==
    /\ plan.atoms # <<>> /\ plan.references # <<>>
    /\ CanonicalReferenceValid(plan.root) /\ plan.root = plan.references[1]
    /\ \A i \in 1..Len(plan.references) :
        plan.references[i] = NoReference \/ CanonicalReferenceValid(plan.references[i])

(* Resolve: an atom's own identity, or the result of an earlier request. *)
Resolve(results, r) == IF r.kind = "known" THEN plan.atoms[r.index] ELSE results[r.index]

(* EvaluateView: a request of one operand is that operand. *)
EvaluateRequest(results, request) ==
    LET children == [k \in 1..request.count |->
                        Resolve(results, plan.operands[request.first + k - 1])]
    IN  Append(results, IF request.count = 1 THEN children[1] ELSE children)

Evaluate ==
    /\ plan.status = "ok" /\ identities = <<>> /\ plan.requests # <<>>
    /\ ViewAccepted
    /\ identities' = FoldLeft(EvaluateRequest, <<>>, plan.requests)
    /\ UNCHANGED <<vars, plan>>

(* The plan is destroyed with the result it was built from. *)
DestroyAll ==
    /\ Destroy
    /\ plan' = NoPlan /\ identities' = <<>>

PlanInit == Init /\ plan = NoPlan /\ identities = <<>>

RunStep == (Step \/ ApplicableFails \/ MemoryFails) /\ UNCHANGED <<plan, identities>>

PlanNext ==
    \/ /\ \E bytes \in Contents, media \in MediaTypes, f \in Fingerprints : Run(bytes, media, f)
       /\ UNCHANGED <<plan, identities>>
    \/ RunStep
    \/ \E base \in OrdinalBases : CreatePlan(base)
    \/ Evaluate \/ DestroyAll

PlanSpec == PlanInit /\ [][PlanNext]_allVars /\ WF_allVars(Step /\ UNCHANGED <<plan, identities>>)

-----------------------------------------------------------------------------

(* Every result of a run is one the planner accepts, and every plan it       *)
(* builds is one the view accepts: a plan fails only for bytes that are not  *)
(* UTF-8 or for ordinals that overflow (Build's checks against Run's).       *)
PlanIsAccepted ==
    /\ plan.status # "decomposition invalid"
    /\ plan.status = "utf8 invalid" =>
        \E i \in 1..Len(spans) : spans[i].first < spans[i].last /\ ~Decoded(BytesOf(spans[i]))[1]
    /\ plan.status = "ok" => ViewAccepted /\ Len(plan.references) = Len(spans)

(* Two spans have one reference exactly when they have the same bytes, in    *)
(* whatever order, depth or provider they were published (text_references_). *)
EqualBytesShareReference ==
    plan.status = "ok" =>
        \A i, j \in 1..Len(spans) :
            spans[i].first < spans[i].last /\ spans[j].first < spans[j].last =>
                (plan.references[i] = plan.references[j])
                    <=> (BytesOf(spans[i]) = BytesOf(spans[j]))

(* The identity of every span is that of the characters of its bytes: it     *)
(* does not depend on the providers, the parents or the kinds of the trace   *)
(* (Build and laplace_decomposition_composition_identity_evaluate).          *)
IdentityIsContent ==
    plan.status = "ok" /\ (identities # <<>> \/ plan.requests = <<>>) =>
        \A i \in 1..Len(spans) :
            LET decoded == Decoded(BytesOf(spans[i]))[2]
            IN  spans[i].first < spans[i].last =>
                    Resolve(identities, plan.references[i]) =
                        IF Len(decoded) = 1 THEN decoded[1] ELSE decoded
=============================================================================
