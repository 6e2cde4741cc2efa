--------------------------- MODULE ExecutionGrant ---------------------------
(***************************************************************************)
(* Host observation, root grant, partition of grants and work plans:       *)
(* engine/src/execution.cpp up to execution_plan_work, driven the way      *)
(* tools/resource_observe.cpp drives it.  The host is a record of what the *)
(* kernel's files say at one moment, and it may change between the call    *)
(* that measures the arrays and the call that fills them.  A step forgets  *)
(* what no later step reads.                                               *)
(***************************************************************************)
EXTENDS Integers, FiniteSets, FiniteSetsExt, Sequences, SequencesExt

CONSTANTS
    Hosts,      \* the hosts the kernel may describe, see MCExecutionGrant
    Options,    \* [cpu, memory, io]: the maxima resource_observe is called with
    Requests,   \* requests of one partition: a sequence of [Resources -> Share]
    Works,      \* work requests
    MaxU16, MaxU32, MaxU64

VARIABLES
    host,      \* what the kernel says now
    pc,        \* the tool's next step, or how it ended
    required,  \* the array sizes measured first
    topology,  \* the published topology
    root,      \* the root grant
    parts,     \* the requests of the partition and the children they got
    plan       \* the work request and the plan it got

vars == <<host, pc, required, topology, root, parts, plan>>

Resources == {"memory", "cpu", "io"}
Unknown == -1
None == [none |-> TRUE]
SumOver(S, f(_)) == MapThenSumSet(f, S)

-----------------------------------------------------------------------------
(* Observation.                                                            *)

\* A file that is absent or does not parse gives no value; ids are expanded,
\* sorted and deduplicated, so a list is the set of its members.
Online(h) == {c \in DOMAIN h.cpus : h.cpus[c].online # 0}
Allowed(h) == {c \in Online(h) : h.affinity = {Unknown} \/ c \in h.affinity}

\* memory.max of the cgroup bounds what /proc/meminfo says is available.
CgroupAvailable(h) ==
    IF h.limit = Unknown THEN h.available
    ELSE LET left == IF h.current >= h.limit THEN 0 ELSE h.limit - h.current
         IN Min({left, h.available})

\* Caches whose files are complete, one per distinct description.
ObservedCaches(h) == {k \in h.caches : k.size # 0 /\ k.shared # {}}

\* Memory nodes in order of their ids: each gets what is free on it, as long as
\* the usable total lasts.
ClampDomains(domains, remaining) ==
    LET taken[i \in 0 .. Len(domains)] ==
            IF i = 0 THEN 0 ELSE taken[i - 1] + Min({domains[i].usable, remaining - taken[i - 1]})
    IN [i \in DOMAIN domains |-> [domains[i] EXCEPT !.usable = taken[i] - taken[i - 1]]]

MemoryDomains(h, usable) ==
    LET readable == {n \in DOMAIN h.nodes : h.nodes[n].readable}
        domain(n) == [id |-> n, total |-> h.nodes[n].total, usable |-> h.nodes[n].free,
                      count |-> Cardinality({c \in DOMAIN h.cpus : h.cpus[c].node = n})]
        sorted == SetToSortSeq(readable, <)
    IN IF readable = {}
       THEN <<[id |-> 0, total |-> h.total, usable |-> usable, count |-> Cardinality(DOMAIN h.cpus)]>>
       ELSE ClampDomains([i \in DOMAIN sorted |-> domain(sorted[i])], usable)

Observe(h) ==
    LET usable == CgroupAvailable(h)
        flat == \A n \in DOMAIN h.nodes : ~h.nodes[n].readable
    IN [processors |-> [c \in DOMAIN h.cpus |->
            [online |-> c \in Online(h), allowed |-> c \in Allowed(h),
             domain |-> IF flat THEN 0 ELSE h.cpus[c].node]],
        caches |-> ObservedCaches(h),
        domains |-> MemoryDomains(h, usable),
        total |-> h.total, usable |-> usable,
        constrained |-> Cardinality(Allowed(h)) < Cardinality(Online(h))]

\* Allocation failure aside, an observation fails when no processor is allowed.
ObservationFails(h) == DOMAIN h.cpus = {} \/ Allowed(h) = {}

Sizes(o) == [processors |-> Cardinality(DOMAIN o.processors), caches |-> Cardinality(o.caches),
             members |-> SumOver(o.caches, LAMBDA k : Cardinality(k.shared)),
             domains |-> Len(o.domains)]

-----------------------------------------------------------------------------
(* Validation and publication.                                             *)

ProcessorsValid(t) ==
    /\ DOMAIN t.processors # {}
    /\ \A c \in DOMAIN t.processors :
        /\ t.processors[c].allowed => t.processors[c].online
        /\ \/ t.processors[c].domain = Unknown
           \/ \E i \in DOMAIN t.domains : t.domains[i].id = t.processors[c].domain
    /\ \E c \in DOMAIN t.processors : t.processors[c].allowed

DomainsValid(t) ==
    /\ t.domains # <<>>
    /\ \A i, j \in DOMAIN t.domains : t.domains[i].id = t.domains[j].id => i = j
    /\ \A i \in DOMAIN t.domains :
        /\ t.domains[i].usable <= t.domains[i].total
        /\ t.domains[i].count =
             Cardinality({c \in DOMAIN t.processors : t.processors[c].domain = t.domains[i].id})
    /\ SumOver(DOMAIN t.domains, LAMBDA i : t.domains[i].usable) <= t.usable

\* The members of a cache are known processors, in increasing order.
CachesValid(t) == \A k \in t.caches : k.size # 0 /\ k.shared # {} /\ k.shared \subseteq DOMAIN t.processors

ValidateTopology(t) ==
    t.usable <= t.total /\ ProcessorsValid(t) /\ DomainsValid(t) /\ CachesValid(t)

EnoughCapacity(capacity, o) == \A f \in DOMAIN capacity : capacity[f] >= Sizes(o)[f]

-----------------------------------------------------------------------------
(* Grants.                                                                 *)

AllowedOf(t) == {c \in DOMAIN t.processors : t.processors[c].allowed}

RootInsufficient(t, owned) ==
    owned.cpu >= Cardinality(AllowedOf(t)) \/ owned.memory >= t.usable

RootGrant(t, owned) == [memory |-> t.usable - owned.memory,
                        cpu |-> Cardinality(AllowedOf(t)) - owned.cpu,
                        io |-> owned.io]

CeilDivide(a, b) == (a \div b) + (IF a % b = 0 THEN 0 ELSE 1)

\* One resource of a partition: every request gets its minimum, the remainder is
\* split by weight, what rounding leaves goes one by one to the first of those
\* with a weight.
PartitionStatus(total, shares) ==
    LET minimum == SumOver(DOMAIN shares, LAMBDA i : shares[i].minimum)
        weight == SumOver(DOMAIN shares, LAMBDA i : shares[i].weight)
    IN IF minimum > MaxU64 \/ weight > MaxU32 THEN "overflow"
       ELSE IF minimum > total THEN "resource_insufficient"
       ELSE IF minimum # total /\ weight = 0 THEN "invalid_argument"
       ELSE "ok"

\* Fault: multiplies the rounded-up quotient.
WeightedShareRoundedUp(remainder, weight, item) ==
    IF weight = 0 \/ item = 0 THEN 0 ELSE CeilDivide(remainder, weight) * item
WeightedShare(remainder, weight, item) ==
    IF weight = 0 \/ item = 0 THEN 0
    ELSE (remainder \div weight) * item + (((remainder % weight) * item) \div weight)
PartitionResource(total, shares) ==
    LET n == Len(shares)
        minimum == SumOver(1 .. n, LAMBDA i : shares[i].minimum)
        weight == SumOver(1 .. n, LAMBDA i : shares[i].weight)
        share == [i \in 1 .. n |-> WeightedShare(total - minimum, weight, shares[i].weight)]
        unassigned == (total - minimum) - SumOver(1 .. n, LAMBDA i : share[i])
        weighted == {i \in 1 .. n : shares[i].weight # 0}
        rank(i) == Cardinality({j \in weighted : j < i})
    IN [i \in 1 .. n |-> shares[i].minimum + share[i]
            + (IF i \in weighted /\ rank(i) < unassigned THEN 1 ELSE 0)]

SharesOf(requests, r) == [i \in DOMAIN requests |-> requests[i][r]]

\* memory, then cpu, then io; nothing is published unless all three succeed.
PartitionGrant(parent, requests) ==
    LET status(r) == PartitionStatus(parent[r], SharesOf(requests, r))
    IN IF requests = <<>> THEN [status |-> "invalid_argument"]
       ELSE IF \E r \in Resources : status(r) # "ok"
       THEN [status |-> IF status("memory") # "ok" THEN status("memory")
                        ELSE IF status("cpu") # "ok" THEN status("cpu") ELSE status("io")]
       ELSE [status |-> "ok",
             children |-> [i \in DOMAIN requests |->
                [r \in Resources |-> PartitionResource(parent[r], SharesOf(requests, r))[i]]]]

-----------------------------------------------------------------------------
(* Work plans.                                                             *)

WorkValid(w) == w.items # 0 /\ w.minimum # 0 /\ w.workers # 0 /\ w.threads # 0

\* Workers the grant's processors, the limit, the items and the memory allow.
AvailableWorkers(g, w) ==
    LET live == (g.memory - w.resident) \div w.perItem
    IN Min({g.cpu \div w.threads, w.workers, w.items}
           \cup IF w.perItem = 0 THEN {} ELSE {live \div w.minimum})
ItemsPerChunk(g, w, workers) ==
    Min({CeilDivide(w.items, workers)}
        \cup IF w.perItem = 0 THEN {} ELSE {((g.memory - w.resident) \div w.perItem) \div workers})
PlanWork(g, w) ==
    IF ~WorkValid(w) THEN [status |-> "invalid_argument"]
    ELSE IF g.cpu < w.threads \/ g.memory < w.resident \/ g.io < w.io
    THEN [status |-> "resource_insufficient"]
    ELSE LET available == AvailableWorkers(g, w)
             chunk == ItemsPerChunk(g, w, available)
             count == CeilDivide(w.items, chunk)
             workers == Min({available, count})
             peak == w.resident + (workers * chunk * w.perItem)
         IN IF available = 0 THEN [status |-> "resource_insufficient"]
            ELSE IF chunk < w.minimum THEN [status |-> "resource_insufficient"]
            ELSE IF peak > MaxU64 \/ peak > g.memory \/ workers > MaxU32 THEN [status |-> "overflow"]
            ELSE [status |-> "ok", chunk |-> chunk, count |-> count, peak |-> peak,
                  workers |-> workers, threads |-> w.threads, io |-> w.io]

-----------------------------------------------------------------------------
(* resource_observe, followed by a component that plans work in its part.  *)

Init ==
    /\ host \in Hosts
    /\ pc = "measure"
    /\ required = None /\ topology = None /\ root = None /\ parts = None /\ plan = None

End(code) == pc' = code

MeasureHost ==
    /\ pc = "measure"
    /\ IF ObservationFails(host) THEN End("exit2") /\ UNCHANGED required
       ELSE pc' = "observe" /\ required' = Sizes(Observe(host))
    /\ UNCHANGED <<host, topology, root, parts, plan>>

\* Processors, caches and nodes come and go, memory is used and freed.
HostChanges ==
    /\ pc = "observe"
    /\ host' \in Hosts \ {host}
    /\ UNCHANGED <<pc, required, topology, root, parts, plan>>

ObserveHost ==
    /\ pc = "observe"
    /\ LET o == Observe(host)
       IN IF ObservationFails(host) \/ ~ValidateTopology(o) \/ ~EnoughCapacity(required, o)
          THEN End("exit3") /\ UNCHANGED topology
          ELSE pc' = "root" /\ topology' = o
    /\ UNCHANGED <<host, required, root, parts, plan>>

\* The tool owns no more than its options say: the rest of the host is external,
\* and the whole root grant is one child's minimum, cut to 16 bits.
ObserveRoot(o) ==
    LET target == [cpu |-> Min({Cardinality(AllowedOf(topology)), o.cpu}),
                   memory |-> Min({topology.usable, o.memory})]
        owned == [cpu |-> Cardinality(AllowedOf(topology)) - target.cpu,
                  memory |-> topology.usable - target.memory, io |-> o.io]
        whole(g) == <<[memory |-> [minimum |-> g.memory, weight |-> 1],
                       cpu |-> [minimum |-> g.cpu % (MaxU16 + 1), weight |-> 1],
                       io |-> [minimum |-> g.io % (MaxU16 + 1), weight |-> 1]]>>
    IN IF target.cpu = 0 \/ target.memory = 0 THEN [exit |-> "exit4"]
       ELSE IF RootInsufficient(topology, owned) THEN [exit |-> "exit5"]
       ELSE LET g == RootGrant(topology, owned)
                p == PartitionGrant(g, whole(g))
            IN IF p.status # "ok" THEN [exit |-> "exit6"]
               ELSE [exit |-> "partition", asked |-> o, grant |-> p.children[1]]

GrantRoot ==
    /\ pc = "root"
    /\ \E o \in Options : LET r == ObserveRoot(o)
                          IN pc' = r.exit /\ root' = IF r.exit = "partition" THEN r ELSE None
    /\ host' = None /\ required' = None
    /\ UNCHANGED <<topology, parts, plan>>

PartitionRoot ==
    /\ pc = "partition"
    /\ \E q \in Requests : LET p == PartitionGrant(root.grant, q)
                           IN /\ pc' = IF p.status = "ok" THEN "plan" ELSE p.status
                              /\ parts' = [parent |-> root.grant, requests |-> q, result |-> p]
    /\ topology' = None /\ root' = None
    /\ UNCHANGED <<host, required, plan>>

PlanPart ==
    /\ pc = "plan"
    /\ \E i \in DOMAIN parts.requests, w \in Works :
        LET p == PlanWork(parts.result.children[i], w)
        IN pc' = "planned" /\ plan' = [grant |-> parts.result.children[i], work |-> w, result |-> p]
    /\ parts' = None
    /\ UNCHANGED <<host, required, topology, root>>

Next == MeasureHost \/ HostChanges \/ ObserveHost \/ GrantRoot \/ PartitionRoot \/ PlanPart
Spec == Init /\ [][Next]_vars

-----------------------------------------------------------------------------
(* Properties.                                                             *)

\* A host that did not grow since it was measured is published, and only what the
\* code cannot account for is refused: a processor on a node whose memory cannot
\* be read while another node's can.  Shares of the nodes never exceed the total.
SteadyHostIsPublished ==
    pc = "exit3" =>
        \/ Allowed(host) = {}
        \/ ~EnoughCapacity(required, Observe(host))
        \/ /\ \E n \in DOMAIN host.nodes : host.nodes[n].readable
           /\ \E c \in DOMAIN host.cpus :
                /\ host.cpus[c].node # Unknown
                /\ host.cpus[c].node \in DOMAIN host.nodes => ~host.nodes[host.cpus[c].node].readable

\* What resource_observe grants is exactly the smaller of the host and its
\* options, also when the grant is wider than the 16 bits of a minimum.
RootIsTheMinimum ==
    root # None =>
        /\ root.grant.cpu = Min({root.asked.cpu, Cardinality(AllowedOf(topology))})
        /\ root.grant.memory = Min({root.asked.memory, topology.usable})
        /\ root.grant.io = root.asked.io

\* A partition gives away its parent exactly, never less than a minimum, and every
\* child gets at most one more, and less than one less, than its proportion of the rest.
PartitionIsExact ==
    parts # None /\ parts.result.status = "ok" =>
        \A r \in Resources :
            LET shares == SharesOf(parts.requests, r)
                got(i) == parts.result.children[i][r]
                rest == parts.parent[r] - SumOver(DOMAIN shares, LAMBDA i : shares[i].minimum)
                weight == SumOver(DOMAIN shares, LAMBDA i : shares[i].weight)
            IN /\ SumOver(DOMAIN shares, got) = parts.parent[r]
               /\ \A i \in DOMAIN shares :
                    LET extra == (got(i) - shares[i].minimum) * weight
                    IN /\ got(i) >= shares[i].minimum
                       /\ extra > (rest * shares[i].weight) - weight \/ weight = 0
                       /\ extra <= (rest * shares[i].weight) + weight

\* A plan runs within its grant: the chunks of all workers fit in memory at once,
\* threads fit the processors, the chunks cover the items and none is empty.
PlanFitsTheGrant ==
    plan # None /\ plan.result.status = "ok" =>
        LET g == plan.grant
            w == plan.work
            p == plan.result
        IN /\ w.resident + (p.workers * p.chunk * w.perItem) <= g.memory
           /\ p.workers * p.threads <= g.cpu
           /\ p.chunk >= w.minimum
           /\ p.count * p.chunk >= w.items
           /\ (p.count - 1) * p.chunk < w.items
           /\ p.workers <= p.count

\* Work in chunks of any size is refused only when not even one worker with one
\* item fits: the bounds the plan puts on itself never refuse it.
PlansWhatFits ==
    plan # None /\ WorkValid(plan.work) /\ plan.work.minimum = 1 =>
        LET g == plan.grant
            w == plan.work
        IN (plan.result.status = "ok") <=>
               (g.cpu >= w.threads /\ g.io >= w.io /\ g.memory >= w.resident + w.perItem)
=============================================================================
