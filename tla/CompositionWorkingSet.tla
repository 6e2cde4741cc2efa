------------------------ MODULE CompositionWorkingSet ------------------------
(***************************************************************************)
(* src/engine/src/composition.cpp with composition_legacy.inc: the          *)
(* calculation of a composition working set.  Requests name known entities  *)
(* and earlier requests; they are grouped into frontiers by dependency      *)
(* depth, the requests of a frontier are calculated by concurrent chunks,   *)
(* and the results are consumed in request order before the next frontier.  *)
(*                                                                          *)
(* An identity is the expanded sequence of child identities it hashes, an   *)
(* atom the one-element sequence of its code.  Geometry and the memory      *)
(* estimates are left out.                                                  *)
(***************************************************************************)
EXTENDS Integers, Sequences, FiniteSets, SequencesExt, FiniteSetsExt

CONSTANTS
    Inputs,         \* [known, requests]
    ChunkItems,     \* chunk_items of the execution plan of a frontier
    RunPerCarrier,  \* LAPLACE_COMPOSITION_MAXIMUM_RUN_PER_CARRIER
    TierMaximum,    \* LAPLACE_COMPOSITION_TIER_MAXIMUM
    CountMaximum    \* UINT64_MAX

VARIABLES
    input,
    frontier,    \* the frontier being calculated
    progress,    \* chunk of the frontier -> items done, or -1 once failed
    outputs,     \* position in the frontier -> its calculation
    failure,     \* first_failure of the frontier's task
    calculated,  \* request -> ResolvedValue
    set,         \* the working set: entities, physicalities, occurrences
    status       \* "running" or what create returned

vars == <<input, frontier, progress, outputs, failure, calculated, set, status>>

Unset == [id |-> <<>>, tier |-> 0, atom |-> FALSE, physicality |-> <<>>]

-----------------------------------------------------------------------------

\* ValidateInput: operands are in range, counted, and prior results are prior.
ValidateInput(in) ==
    /\ in.known # <<>> /\ in.requests # <<>>
    /\ \A k \in DOMAIN in.known : in.known[k].tier <= TierMaximum /\ (in.known[k].atom => in.known[k].tier = 0)
    /\ \A i \in DOMAIN in.requests :
          /\ in.requests[i].operands # <<>>
          /\ \A n \in DOMAIN in.requests[i].operands :
                LET o == in.requests[i].operands[n]
                IN o.times > 0 /\ o.index \in 1 .. IF o.prior THEN i - 1 ELSE Len(in.known)

Priors(in, i) == {o.index : o \in {p \in ToSet(in.requests[i].operands) : p.prior}}

\* BuildFrontierPlan, depth_by_request: one more than the deepest prior result.
DepthByRequest(in) ==
    LET depth[i \in DOMAIN in.requests] == Max({0} \cup {depth[j] + 1 : j \in Priors(in, i)})
    IN depth

FrontierCount(in) == Max({DepthByRequest(in)[i] : i \in DOMAIN in.requests}) + 1

\* request_indices between two frontier_offsets: in request order.
Frontier(in, f) ==
    SelectSeq([i \in DOMAIN in.requests |-> i], LAMBDA i : DepthByRequest(in)[i] = f)

\* laplace_execution_plan_work and run_work for the width of the frontier.
ChunkCount(in, f) == (Len(Frontier(in, f)) + ChunkItems - 1) \div ChunkItems
FirstItem(k) == (k - 1) * ChunkItems
ItemCount(in, f, k) == Min({ChunkItems, Len(Frontier(in, f)) - FirstItem(k)})

-----------------------------------------------------------------------------

\* KnownResolved and ResolveOperand.
ResolveOperand(in, results, o) == IF o.prior THEN results[o.index] ELSE in.known[o.index]

Resolved(in, results, i) ==
    [n \in DOMAIN in.requests[i].operands |->
        LET o == in.requests[i].operands[n]
            child == ResolveOperand(in, results, o)
        IN [id |-> child.id, times |-> o.times, mark |-> <<o.meta, child.tier, child.atom>>]]

Expand(runs) == FlattenSeq([n \in DOMAIN runs |-> [k \in 1 .. runs[n].times |-> <<runs[n].id, runs[n].mark>>]])

\* laplace_identity_composite_runs_witness hashes the children one by one.
CompositeRunsWitness(runs) == LET all == Expand(runs) IN [k \in DOMAIN all |-> all[k][1]]

\* CalculateRequest: adjacent runs of one identity with the same metadata join.
Coalesce(runs) ==
    FoldLeft(LAMBDA joined, r :
                 IF joined # <<>> /\ Last(joined).id = r.id /\ Last(joined).mark = r.mark
                 THEN [joined EXCEPT ![Len(joined)].times = @ + r.times] ELSE Append(joined, r),
             <<>>, runs)

\* Its carriers: each run in pieces of at most RunPerCarrier.
Carriers(runs) ==
    FlattenSeq([n \in DOMAIN runs |->
        [k \in 1 .. (runs[n].times + RunPerCarrier - 1) \div RunPerCarrier |->
            [runs[n] EXCEPT !.times = Min({RunPerCarrier, @ - (k - 1) * RunPerCarrier})]]])

\* CalculateRequest: a single child is the result itself, anything else is a new
\* composition one tier above its children.
CalculateRequest(in, results, i) ==
    LET runs == Resolved(in, results, i)
        count == FoldLeft(LAMBDA n, r : n + r.times, 0, runs)
        tier == Max({r.mark[2] : r \in ToSet(runs)})
        id == CompositeRunsWitness(runs)
        carriers == Carriers(Coalesce(runs))
        refuse(s) == [status |-> s, result |-> Unset, composed |-> FALSE]
    IN CASE count > CountMaximum -> refuse("count")
         [] count = 1 /\ runs[1].mark[1] # 0 -> refuse("metadata")
         [] count = 1 /\ runs[1].mark[1] = 0 ->
                [status |-> "ok", composed |-> FALSE,
                 result |-> ResolveOperand(in, results, in.requests[i].operands[1])]
         [] count > 1 /\ count <= CountMaximum /\ tier >= TierMaximum -> refuse("tier")
         [] OTHER ->
                [status |-> "ok", composed |-> TRUE,
                 result |-> [id |-> id, tier |-> tier + 1, atom |-> FALSE,
                             physicality |-> <<in.requests[i].recipe, id, carriers>>]]

\* AddEntity: an identity found again keeps the lower tier.
AddEntity(entities, value) ==
    LET same == {e \in entities : e.id = value.id}
    IN (entities \ same) \cup {[id |-> value.id, tier |-> Min({value.tier} \cup {e.tier : e \in same})]}

\* MakeOccurrence, when the request asks for one.
MakeOccurrence(in, i, value) ==
    IF in.requests[i].emit THEN {[ordinal |-> i, id |-> value.id, physicality |-> value.physicality]} ELSE {}

Consume(in, i, made, s) ==
    [entities |-> AddEntity(s.entities, made.result),
     physicalities |-> s.physicalities \cup (IF made.composed THEN {made.result.physicality} ELSE {}),
     occurrences |-> s.occurrences \cup MakeOccurrence(in, i, made.result)]

-----------------------------------------------------------------------------

\* create: the input is valid and its known entities are the first candidates.
Init ==
    /\ input \in {in \in Inputs : ValidateInput(in)}
    /\ frontier = 0
    /\ progress = [k \in 1 .. ChunkCount(input, 0) |-> 0]
    /\ outputs = <<>>
    /\ failure = "ok"
    /\ calculated = [i \in DOMAIN input.requests |-> Unset]
    /\ set = [entities |-> FoldLeft(AddEntity, {}, input.known), physicalities |-> {}, occurrences |-> {}]
    /\ status = "running"

\* compare_exchange_strong on first_failure.
FirstFailure(first, s) == IF first = "ok" THEN s ELSE first

\* CalculateRequestChunk: the next item of a chunk; a chunk whose item fails
\* stops.  Another worker may still start a chunk: it looks for a failure before
\* it takes one.
CalculateItem(k) ==
    /\ status = "running" /\ k \in DOMAIN progress
    /\ progress[k] \in 0 .. ItemCount(input, frontier, k) - 1
    /\ LET position == FirstItem(k) + progress[k] + 1
           made == CalculateRequest(input, calculated, Frontier(input, frontier)[position])
       IN IF made.status = "ok"
          THEN /\ outputs' = [p \in DOMAIN outputs \cup {position} |->
                                IF p = position THEN made ELSE outputs[p]]
               /\ progress' = [progress EXCEPT ![k] = @ + 1]
               /\ UNCHANGED failure
          ELSE /\ failure' = FirstFailure(failure, made.status)
               /\ progress' = [progress EXCEPT ![k] = -1]
               /\ UNCHANGED outputs
    /\ UNCHANGED <<input, frontier, calculated, set, status>>

\* A chunk failed: once the chunks that had started are over, create fails with
\* the recorded status.
FailFrontier ==
    /\ status = "running" /\ \E k \in DOMAIN progress : progress[k] = -1
    /\ \A k \in DOMAIN progress : progress[k] \in {-1, 0, ItemCount(input, frontier, k)}
    /\ status' = IF failure = "ok" THEN "persistence" ELSE failure
    /\ UNCHANGED <<input, frontier, progress, outputs, failure, calculated, set>>

\* Every chunk is done: the outputs are consumed in request order, the receipt
\* of the frontier is kept, and the next frontier starts or create returns.
EndFrontier ==
    /\ status = "running"
    /\ \A k \in DOMAIN progress : progress[k] = ItemCount(input, frontier, k)
    /\ LET indexes == Frontier(input, frontier)
           last == frontier + 1 = FrontierCount(input)
       IN /\ calculated' = [i \in DOMAIN calculated |->
                IF \E p \in DOMAIN indexes : indexes[p] = i
                THEN outputs[CHOOSE p \in DOMAIN indexes : indexes[p] = i].result ELSE calculated[i]]
          /\ set' = FoldLeft(LAMBDA s, p : Consume(input, indexes[p], outputs[p], s), set,
                             [p \in DOMAIN indexes |-> p])
          /\ status' = IF last THEN "ok" ELSE "running"
          /\ frontier' = frontier + 1
          /\ progress' = [k \in 1 .. (IF last THEN 0 ELSE ChunkCount(input, frontier + 1)) |-> 0]
    /\ outputs' = <<>>
    /\ UNCHANGED <<input, failure>>

Next == (\E k \in DOMAIN progress : CalculateItem(k)) \/ FailFrontier \/ EndFrontier

Spec == Init /\ [][Next]_vars

-----------------------------------------------------------------------------

\* What one worker that takes the requests in order would calculate.
Sequential(in) ==
    LET made[i \in DOMAIN in.requests] ==
            CalculateRequest(in, [j \in 1 .. i - 1 |-> made[j].result], i)
    IN made

\* "parallel completion order is not allowed to become semantic order": whatever
\* the chunks did, the working set is the one of the sequential calculation,
\* each identity with the lowest tier it was found at.
ParallelIsSequential ==
    LET made == Sequential(input)
        values == ToSet(input.known) \cup {made[i].result : i \in DOMAIN made}
    IN status = "ok" =>
        /\ \A i \in DOMAIN made : made[i].status = "ok" /\ calculated[i] = made[i].result
        /\ set.entities = {[id |-> v.id, tier |-> Min({w.tier : w \in {x \in values : x.id = v.id}})] : v \in values}
        /\ set.physicalities = {made[i].result.physicality : i \in {j \in DOMAIN made : made[j].composed}}
        /\ set.occurrences = UNION {MakeOccurrence(input, i, made[i].result) : i \in DOMAIN made}

\* "Input operand boundaries are not physical run boundaries": compositions of
\* the same children with the same metadata are one physicality, however their
\* operands are cut, and its carriers spell the children out again.
BoundariesAreNotPhysical ==
    LET children(i) == Expand(Resolved(input, calculated, i))
        composed == {i \in DOMAIN input.requests : Len(children(i)) > 1}
    IN status = "ok" =>
        /\ \A i \in composed : Expand(calculated[i].physicality[3]) = children(i)
        /\ \A i, j \in composed :
              children(i) = children(j) /\ input.requests[i].recipe = input.requests[j].recipe
                  => calculated[i].physicality = calculated[j].physicality

\* create fails only for a request that cannot be calculated though everything
\* it names was, and with the status of such a request.
FailureIsOfARequest ==
    LET made == Sequential(input)
    IN status \notin {"running", "ok"} =>
        \E i \in DOMAIN made :
            /\ made[i].status = status
            /\ \A j \in Priors(input, i) : calculated[j] = made[j].result /\ made[j].status = "ok"

=============================================================================
