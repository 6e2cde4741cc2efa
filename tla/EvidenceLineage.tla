--------------------------- MODULE EvidenceLineage ---------------------------
(***************************************************************************)
(* Evidence lineage: engine/src/evidence_lineage.c and its PostgreSQL      *)
(* service evidence_lineage_pg.c.  A batch lists evidence nodes and then   *)
(* the dependence edges child -> parent between them.  The native routine  *)
(* refuses a batch that is out of order, names a node it does not list, or *)
(* whose edges close a cycle (a depth-first walk that reports the closed   *)
(* path), and otherwise carries every parentless node down to all of its   *)
(* descendants with the length of the shortest path.  The service writes   *)
(* nodes, edges, root relations and a receipt in one transaction; each     *)
(* write keeps rows that are already there and then verifies that the      *)
(* stored rows are exactly the batch's.                                    *)
(*                                                                         *)
(* A node identifier is the digest of the node's content, so equal numbers *)
(* mean equal content; the order of the numbers is the byte order.  Two    *)
(* transactions whose batches share a node are serialised by that node's   *)
(* primary key, which both write first, and edges stay inside a batch: the *)
(* transaction is therefore one step.                                      *)
(***************************************************************************)
EXTENDS Naturals, FiniteSets, SequencesExt

CONSTANTS
    Node,           \* node identifiers, naturals in the byte order of the digests
    Batches,        \* the batches a client may submit
    RootCapacity,   \* the client's bound on root relations
    MaxBatches      \* bound on the number of submitted batches

LineageAssumption ==
    /\ Node \subseteq Nat
    /\ RootCapacity \in Nat \ {0}
    /\ MaxBatches \in Nat
    /\ \A b \in Batches : /\ b.nodes \in Seq(Node)
                          /\ b.edges \in Seq(Node \X Node)
                          /\ b.forged \in BOOLEAN

VARIABLES
    pc,         \* idle, check, walk, seed, carry or persist
    batch,      \* the submitted batch
    colors,     \* node -> 0 unseen, 1 on the stack, 2 finished
    stack,      \* frames [node, cursor] of the walk
    waiting,    \* node -> parents whose roots have not been carried yet
    queue,      \* nodes whose roots are complete, in order
    roots,      \* the batch's relations [node, root, depth]
    path,       \* the offending path of a refused batch
    reply,      \* the status of the last finished batch
    db,         \* committed rows [nodes, edges, projection, receipts]
    submitted   \* batches submitted so far

vars == <<pc, batch, colors, stack, waiting, queue, roots, path, reply, db, submitted>>

-----------------------------------------------------------------------------

Empty == [nodes |-> <<>>, edges |-> <<>>, forged |-> FALSE]

Nodes(b) == ToSet(b.nodes)

\* edges[child_offsets[n] .. child_offsets[n+1]): a node's parents in edge order.
ParentsInOrder(b, n) == [i \in DOMAIN SelectSeq(b.edges, LAMBDA e : e[1] = n) |->
                            SelectSeq(b.edges, LAMBDA e : e[1] = n)[i][2]]

ChildrenInOrder(b, n) == [i \in DOMAIN SelectSeq(b.edges, LAMBDA e : e[2] = n) |->
                            SelectSeq(b.edges, LAMBDA e : e[2] = n)[i][1]]

Precedes(e, f) == e[1] < f[1] \/ (e[1] = f[1] /\ e[2] < f[2])

\* The node prefix: each identity is recomputed and the list strictly ascends.
NodeStatus(b) ==
    IF b.forged THEN "identity_mismatch"
    ELSE IF \E i \in 2..Len(b.nodes) : b.nodes[i-1] >= b.nodes[i] THEN "order_invalid"
    ELSE IF b.nodes = <<>> THEN "record_invalid" ELSE "ok"

\* What the edge loop says of edge i: both ends are listed, the two ends
\* differ, and the edges strictly ascend by (child, parent).
EdgeStatus(b, i) ==
    LET e == b.edges[i]
    IN IF {e[1], e[2]} \ Nodes(b) # {} THEN "reference_missing"
       ELSE IF e[1] = e[2] THEN "cycle"
       ELSE IF i > 1 /\ ~Precedes(b.edges[i-1], e) THEN "order_invalid" ELSE "ok"

\* The first edge the loop refuses, 0 when there is none.
FirstRefused(b) ==
    IF \E i \in DOMAIN b.edges : EdgeStatus(b, i) # "ok"
    THEN CHOOSE i \in DOMAIN b.edges : /\ EdgeStatus(b, i) # "ok"
                                       /\ \A j \in 1..(i-1) : EdgeStatus(b, j) = "ok"
    ELSE 0

Init ==
    /\ pc = "idle" /\ batch = Empty /\ colors = <<>> /\ stack = <<>>
    /\ waiting = <<>> /\ queue = <<>> /\ roots = {} /\ path = <<>> /\ reply = "none"
    /\ db = [nodes |-> {}, edges |-> {}, projection |-> {}, receipts |-> {}]
    /\ submitted = 0

\* read_records and the argument checks; a capacity of zero never gets here.
Submit ==
    /\ pc = "idle" /\ submitted < MaxBatches
    /\ \E b \in Batches : batch' = b
    /\ submitted' = submitted + 1 /\ pc' = "check" /\ reply' = "none" /\ path' = <<>>
    /\ UNCHANGED <<colors, stack, waiting, queue, roots, db>>

\* The working arrays are freed and the statement fails with status and path.
Refuse(status, closed) ==
    /\ reply' = status /\ path' = closed /\ pc' = "idle"
    /\ colors' = <<>> /\ stack' = <<>> /\ waiting' = <<>> /\ queue' = <<>> /\ roots' = {}
    /\ UNCHANGED <<batch, db, submitted>>

CheckRecords ==
    /\ pc = "check"
    /\ LET bad == FirstRefused(batch)
       IN IF NodeStatus(batch) # "ok" THEN Refuse(NodeStatus(batch), <<>>)
          ELSE IF bad # 0
          THEN LET status == EdgeStatus(batch, bad)
                   n == batch.edges[bad][1]
               IN Refuse(status, IF status = "cycle" THEN <<n, n>> ELSE <<>>)
          ELSE /\ pc' = "walk"
               /\ colors' = [n \in Nodes(batch) |-> 0]
               /\ stack' = <<>>
               /\ UNCHANGED <<batch, waiting, queue, roots, path, reply, db, submitted>>

-----------------------------------------------------------------------------
(* The depth-first walk from every node in order, along the parents.       *)

\* copy_cycle_path: the stack from the repeated node on, closed by it.
CopyCyclePath(repeated) ==
    LET begin == CHOOSE i \in DOMAIN stack : stack[i].node = repeated
    IN [i \in 1..(Len(stack) - begin + 1) |-> stack[begin + i - 1].node] \o <<repeated>>

\* The first unseen node in batch order starts a new stack.
StartWalk ==
    /\ pc = "walk" /\ stack = <<>>
    /\ \E i \in DOMAIN batch.nodes :
         /\ colors[batch.nodes[i]] = 0
         /\ \A j \in 1..(i-1) : colors[batch.nodes[j]] # 0
         /\ stack' = <<[node |-> batch.nodes[i], cursor |-> 0]>>
         /\ colors' = [colors EXCEPT ![batch.nodes[i]] = 1]
    /\ UNCHANGED <<pc, batch, waiting, queue, roots, path, reply, db, submitted>>

\* A parent that is grey is on the stack.
ClosesCycle(parent) == colors[parent] = 1

\* The top frame moves on to its next edge, whatever the edge leads to.
Advanced(parent) == [stack EXCEPT ![Len(stack)].cursor = @ + 1]

Visit ==
    /\ pc = "walk" /\ stack # <<>>
    /\ LET top == Last(stack)
           parents == ParentsInOrder(batch, top.node)
           parent == parents[top.cursor + 1]
           advanced == Advanced(parent)
       IN IF top.cursor = Len(parents)
          THEN /\ colors' = [colors EXCEPT ![top.node] = 2]
               /\ stack' = Front(stack)
               /\ UNCHANGED <<pc, batch, waiting, queue, roots, path, reply, db, submitted>>
          ELSE IF ClosesCycle(parent) THEN Refuse("cycle", CopyCyclePath(parent))
          ELSE /\ IF colors[parent] = 0
                  THEN /\ stack' = Append(advanced, [node |-> parent, cursor |-> 0])
                       /\ colors' = [colors EXCEPT ![parent] = 1]
                  ELSE stack' = advanced /\ UNCHANGED colors
               /\ UNCHANGED <<pc, batch, waiting, queue, roots, path, reply, db, submitted>>

-----------------------------------------------------------------------------
(* The root relations, carried from parents to children in the order in    *)
(* which the last parent of a node is finished.                            *)

Parentless(b) == SelectSeq(b.nodes, LAMBDA n : \A e \in ToSet(b.edges) : e[1] # n)

SeedRoots ==
    /\ pc = "walk" /\ stack = <<>> /\ \A n \in Nodes(batch) : colors[n] = 2
    /\ LET free == Parentless(batch)
       IN IF Len(free) > RootCapacity THEN Refuse("capacity_insufficient", <<>>)
          ELSE /\ roots' = {[node |-> n, root |-> n, depth |-> 0] : n \in ToSet(free)}
               /\ queue' = free
               /\ waiting' = [n \in Nodes(batch) |-> Len(ParentsInOrder(batch, n))]
               /\ pc' = "carry"
               /\ UNCHANGED <<batch, colors, stack, path, reply, db, submitted>>

RootsOf(n, relations) == {r \in relations : r.node = n}

\* Fault: the first depth recorded for a root is kept.
KeepFirstDepth(known, up) ==
    IF \E r \in known : r.root = up.root THEN {r \in known : r.root = up.root} ELSE {up}

\* A root new to the child is added; a known one keeps the smaller depth.
Shortest(known, up) ==
    IF \E r \in known : r.root = up.root /\ r.depth <= up.depth
    THEN {r \in known : r.root = up.root} ELSE {up}

\* The child's relations once one of its parents has been carried into it.
Carried(parent, child, relations) ==
    LET known == RootsOf(child, relations)
        up == {[node |-> child, root |-> r.root, depth |-> r.depth + 1] : r \in RootsOf(parent, relations)}
    IN (relations \ {r \in known : \E u \in up : u.root = r.root})
          \cup UNION {Shortest(known, u) : u \in up}

\* One node leaves the queue and is carried into each of its children.
CarryRoots ==
    /\ pc = "carry" /\ queue # <<>>
    /\ LET n == Head(queue)
           children == ChildrenInOrder(batch, n)
           carried == FoldLeft(LAMBDA rs, c : Carried(n, c, rs), roots, children)
           left == [c \in Nodes(batch) |-> waiting[c] - (IF c \in ToSet(children) THEN 1 ELSE 0)]
       IN IF Cardinality(carried) > RootCapacity THEN Refuse("capacity_insufficient", <<>>)
          ELSE /\ roots' = carried /\ waiting' = left
               /\ queue' = Tail(queue) \o SelectSeq(children, LAMBDA c : left[c] = 0)
               /\ UNCHANGED <<pc, batch, colors, stack, path, reply, db, submitted>>

\* processed_count: a node that never left the queue refuses the batch.  The
\* service runs the routine again after the instruction; it is deterministic.
FinishRoots ==
    /\ pc = "carry" /\ queue = <<>>
    /\ IF \E n \in Nodes(batch) : waiting[n] # 0 THEN Refuse("record_invalid", <<>>)
       ELSE /\ pc' = "persist"
            /\ UNCHANGED <<batch, colors, stack, waiting, queue, roots, path, reply, db, submitted>>

-----------------------------------------------------------------------------
(* persist_lineage: INSERT ... ON CONFLICT DO NOTHING, then verify.        *)

\* A relation (node, root) that is stored already keeps its stored depth.
Written(relations) ==
    db.projection \cup {r \in relations : \A s \in db.projection : <<s.node, s.root>> # <<r.node, r.root>>}

\* roots_verify_sql: every relation of the batch is stored with its own depth.
RootsVerify(relations) == relations \subseteq Written(relations)

Persist ==
    /\ pc = "persist"
    /\ IF ~RootsVerify(roots) THEN Refuse("conflict", <<>>)
       ELSE /\ db' = [nodes |-> db.nodes \cup Nodes(batch),
                      edges |-> db.edges \cup ToSet(batch.edges),
                      projection |-> Written(roots),
                      receipts |-> db.receipts \cup {[nodes |-> batch.nodes, edges |-> batch.edges, roots |-> roots]}]
            /\ reply' = "ok" /\ pc' = "idle" /\ path' = <<>>
            /\ colors' = <<>> /\ stack' = <<>> /\ waiting' = <<>> /\ queue' = <<>> /\ roots' = {}
            /\ UNCHANGED <<batch, submitted>>

\* Any error of a later statement, a cancel or a crash rolls everything back.
Rollback == pc = "persist" /\ Refuse("rolled_back", <<>>)

Next ==
    \/ Submit \/ CheckRecords \/ StartWalk \/ Visit
    \/ SeedRoots \/ CarryRoots \/ FinishRoots \/ Persist \/ Rollback

Spec == Init /\ [][Next]_vars

-----------------------------------------------------------------------------
(* Reference definitions over a set of nodes and a set of edges.           *)

\* The nodes at the end of a path of exactly k edges from n.
At(E, n, k) ==
    LET f[i \in 0..k] == IF i = 0 THEN {n}
                         ELSE LET below == f[i-1] IN {e[2] : e \in {d \in E : d[1] \in below}}
    IN f[k]

Ancestors(N, E, n) == UNION {At(E, n, k) : k \in 1..Cardinality(N)}

Cyclic(N, E) == \E n \in N : n \in Ancestors(N, E, n)

Terminal(E, n) == \A e \in E : e[1] # n

\* Every terminal ancestor of every node, with the length of the shortest path.
TerminalRoots(N, E) ==
    UNION {{[node |-> n, root |-> r, depth |-> CHOOSE k \in 0..Cardinality(N) :
                 r \in At(E, n, k) /\ \A j \in 0..(k-1) : r \notin At(E, n, j)] :
            r \in {x \in {n} \cup Ancestors(N, E, n) : Terminal(E, x)}} : n \in N}

WellFormed(b) == NodeStatus(b) = "ok" /\ \A i \in DOMAIN b.edges :
                    EdgeStatus(b, i) \in {"ok", "cycle"} /\ (i > 1 => Precedes(b.edges[i-1], b.edges[i]))

-----------------------------------------------------------------------------
(* Properties.                                                             *)

\* The relations a batch hands to persistence are exactly the terminal
\* ancestors of its nodes at their shortest distance, whatever the order in
\* which the queue reached them (evidence_lineage.c:434-511).
RootsAreExact ==
    pc = "persist" => roots = TerminalRoots(Nodes(batch), ToSet(batch.edges))

\* The path reported with a refused cycle is closed and follows edges of the
\* batch from child to parent, with no other node repeated.
PathIsAClosedWalk ==
    path # <<>> => /\ path[1] = Last(path) /\ Len(path) > 1
                   /\ \A i \in 1..(Len(path) - 1) : <<path[i], path[i+1]>> \in ToSet(batch.edges)
                   /\ Cardinality(ToSet(path)) = Len(path) - 1

\* A well-formed batch is refused as a cycle exactly when its edges close one,
\* never by the later count of processed nodes and never let through.
CycleDecided ==
    (pc = "idle" /\ WellFormed(batch) /\ reply # "none") =>
        ((reply = "cycle") <=> Cyclic(Nodes(batch), ToSet(batch.edges)))

\* What a receipt recorded as the batch's output is what the projection table
\* holds for those relations, however many batches share its nodes.
ReceiptsStayTrue == \A r \in db.receipts : r.roots \subseteq db.projection

\* contracts/evidence-lineage.json root_rule, read on the stored tables: the
\* projection relates each node to its terminal roots only.
StoredRootsAreTerminal == \A r \in db.projection : Terminal(db.edges, r.root)

\* docs/architecture/ACCEPTANCE.md: the stored provenance graph is acyclic.
StoredGraphIsAcyclic == ~Cyclic(db.nodes, db.edges)
=============================================================================
