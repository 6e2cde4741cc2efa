------------------------- MODULE UnicodeRootDeposit -------------------------
(***************************************************************************)
(* unicode_root_build_and_activate, unicode_root_pg.c: one SQL call builds  *)
(* a Unicode root, stages its batches in a PostgreSQL sink and in a sink    *)
(* that writes the two perfcache files, admits the perfcache generation and *)
(* stores a deposit receipt.  The rows, the admission and the receipt are   *)
(* one transaction; the files are published while it runs and stay when it  *)
(* rolls back.  Backends deposit concurrently, and any of them may fail.    *)
(***************************************************************************)
EXTENDS Integers, Sequences, SequencesExt, FiniteSets

CONSTANTS
    RootBackends,
    RootFrames,    \* root -> sequence of frames [kind, key, bytes], the manifest last
    RootRequests,  \* [root, id, limit, grant]: what a caller asks for
    RootTables,    \* the tables a deposit may find: row -> value
    MaxBuilds, MaxBuildFaults,
    Multiplier, Overhead, MinFrame, ReverseBytes   \* of the memory estimate

VARIABLES
    storedRows,      \* committed rows: key -> value
    rootGenerations, \* committed unicode_root_generation rows: root -> plan sequence
    rootReceipts,    \* committed deposit receipts
    artifacts,       \* what the two artifact paths hold
    rootEpoch,       \* the active perfcache epoch [sequence, root, id]
    admitting,       \* the backend whose admission awaits its commit, or NoBackend
    build,           \* backend -> its build_and_activate call
    builds, buildFaults

rootVars == <<storedRows, rootGenerations, rootReceipts, artifacts, rootEpoch, admitting, build, builds, buildFaults>>

NoBackend == "none"
NoRoot == "none"
NoFiles == <<>>
NoPlans == <<>>
NoRows == [k \in {} |-> NoRoot]
IdleBuild == [pc |-> "idle"]
FailedBuild == [pc |-> "failed"]
CommittedBuild == [pc |-> "committed"]
Building(b) == build[b].pc \notin {"idle", "failed", "committed"}

\* The sinks as created: nothing staged, no plan noted.
NewBuild(r) ==
    [pc |-> "stage", req |-> r, expected |-> rootEpoch.sequence, staged |-> 0, statement |-> 0,
     own |-> NoRows, plans |-> <<>>, generation |-> NoPlans, receipt |-> NoRows]

RootInit ==
    /\ storedRows \in RootTables
    /\ rootGenerations = NoRows /\ rootReceipts = {}
    /\ artifacts = NoFiles
    /\ rootEpoch = [sequence |-> 0, root |-> NoRoot, id |-> NoRoot]
    /\ admitting = NoBackend
    /\ build = [b \in RootBackends |-> IdleBuild]
    /\ builds = 0 /\ buildFaults = 0

-----------------------------------------------------------------------------
(* Batches and the rows they become.                                       *)

SumBytes(frames) == FoldLeft(LAMBDA n, f : n + f.bytes, 0, frames)

\* The longest run of whole frames from an ordinal that fits the limit; a batch that
\* has no frame yet takes the next one.
BatchEnds(frames, first, limit) ==
    {n \in first + 1 .. Len(frames) : n = first + 1 \/ SumBytes(SubSeq(frames, first + 1, n)) <= limit}
BatchAt(frames, first, limit) ==
    LET ends == BatchEnds(frames, first, limit)
    IN SubSeq(frames, first + 1, CHOOSE n \in ends : \A m \in ends : m <= n)

\* An atom's entity and physicality are shared by every root; its attestation and
\* every other row are keyed by the root.
SharedFamilies == {"entity", "physicality"}
KeyedFamilies == {"attestation", "position", "contraction", "normalization"}
RootFamilies == SharedFamilies \cup KeyedFamilies
KindOf(family) == IF family \in {"entity", "physicality", "attestation"} THEN "atom" ELSE family

FramesOf(family, frames) == {i \in DOMAIN frames : frames[i].kind = KindOf(family)}
RowOf(root, family, key) == IF family \in SharedFamilies THEN <<family, key>> ELSE <<family, root, key>>
RootRowsOf(root, family, frames) == {RowOf(root, family, frames[i].key) : i \in FramesOf(family, frames)}
RootRows(root) == UNION {RootRowsOf(root, f, RootFrames[root]) : f \in RootFamilies}

\* The set statements of a batch: insert, then verify, for every family that has rows.
BatchPlans ==
    << <<"entity", "insert">>, <<"entity", "verify">>, <<"physicality", "insert">>, <<"physicality", "verify">>,
       <<"attestation", "insert">>, <<"attestation", "verify">>, <<"position", "insert">>, <<"position", "verify">>,
       <<"contraction", "insert">>, <<"contraction", "verify">>,
       <<"normalization", "insert">>, <<"normalization", "verify">> >>
\* Those still to run once the first n have run or were not needed.
StatementsAfter(n, batch) == {m \in DOMAIN BatchPlans : n < m /\ FramesOf(BatchPlans[m][1], batch) # {}}

\* The rows of f, and those of g that f has not.
Over(f, g) == [k \in DOMAIN f \cup DOMAIN g |-> IF k \in DOMAIN f THEN f[k] ELSE g[k]]
VisibleTo(b) == Over(build[b].own, storedRows)
\* Every value a root deposits; a stored row with another value collides.
Exact == "exact"

\* The frames of a root are sections without duplicates, and every stored row is of
\* a family.
RootAssumption ==
    /\ NoBackend \notin RootBackends
    /\ \A r \in RootRequests : r = [root |-> r.root, id |-> r.id, limit |-> r.limit, grant |-> r.grant]
                               /\ r.root \in DOMAIN RootFrames
    /\ \A root \in DOMAIN RootFrames :
        /\ RootFrames[root] \in Seq(ToSet(RootFrames[root])) /\ RootFrames[root] # <<>>
        /\ \A i, j \in DOMAIN RootFrames[root] :
            RootFrames[root][i].kind = RootFrames[root][j].kind /\ RootFrames[root][i].key = RootFrames[root][j].key
                => i = j
    /\ \A t \in RootTables :
        /\ IsFiniteSet(DOMAIN t)
        /\ \A k \in DOMAIN t : \/ Len(k) = 2 /\ k[1] \in SharedFamilies
                               \/ Len(k) = 3 /\ k[1] \in KeyedFamilies

-----------------------------------------------------------------------------
(* The memory grant.                                                       *)

\* Checked once before anything is built: the largest batch and the reverse table.
EntryFits(limit, grant) ==
    LET estimate == Multiplier * limit + ReverseBytes
    IN estimate <= grant /\ (limit \div MinFrame) * Overhead <= grant - estimate
\* Every frame must fit a batch of its own for the root to be built.
Builds(r) == \A i \in DOMAIN RootFrames[r.root] : RootFrames[r.root][i].bytes <= r.limit
\* Checked for every batch.
BatchFits(frames, grant) == Len(frames) * Overhead + Multiplier * SumBytes(frames) <= grant

-----------------------------------------------------------------------------
(* Transactions.                                                           *)

OtherBuilds(b) == {o \in RootBackends \ {b} : Building(o)}
\* ON CONFLICT DO NOTHING waits for the transaction that holds one of the keys.
BlockedBy(b, keys) == \E o \in OtherBuilds(b) : DOMAIN build[o].own \cap keys # {}

BuildAndActivate(b, r) ==
    /\ ~Building(b) /\ builds < MaxBuilds
    /\ builds' = builds + 1
    /\ build' = [build EXCEPT ![b] = IF r.limit >= MinFrame /\ EntryFits(r.limit, r.grant) /\ Builds(r)
                                     THEN NewBuild(r) ELSE FailedBuild]
    /\ UNCHANGED <<storedRows, rootGenerations, rootReceipts, artifacts, rootEpoch, admitting, buildFaults>>

\* ERROR: the transaction rolls back and the perfcache admission is aborted.  The
\* files stay.
FailBuild(b) ==
    /\ build' = [build EXCEPT ![b] = FailedBuild]
    /\ admitting' = IF admitting = b THEN NoBackend ELSE admitting
    /\ UNCHANGED <<storedRows, rootGenerations, rootReceipts, artifacts, rootEpoch>>

NotePlan(s, plan) == [s EXCEPT !.plans = Append(@, plan)]

BlindVerify(b, rows) == TRUE
\* Every incoming row is stored with exactly its fields.
VerifiedExactly(b, rows) == \A k \in rows : k \in DOMAIN VisibleTo(b) /\ VisibleTo(b)[k] = Exact

\* The batch being staged.
BatchOf(s) == BatchAt(RootFrames[s.req.root], s.staged, s.req.limit)

\* One statement of the batch being staged.
StageStatement(b) ==
    LET s == build[b]
        batch == BatchOf(s)
        due == StatementsAfter(s.statement, batch)
    IN /\ s.pc = "stage"
       /\ \E n \in due :
            LET plan == BatchPlans[n]
                rows == RootRowsOf(s.req.root, plan[1], batch)
                noted == [NotePlan(s, plan) EXCEPT !.statement = n]
            IN /\ \A m \in due : n <= m
               /\ IF ~BatchFits(batch, s.req.grant) THEN FailBuild(b)
                  ELSE IF plan[2] = "insert"
                  THEN /\ ~BlockedBy(b, rows)
                       /\ build' = [build EXCEPT ![b] = [noted EXCEPT
                                        !.own = Over(@, [k \in rows \ DOMAIN storedRows |-> Exact])]]
                       /\ UNCHANGED admitting
                  ELSE IF VerifiedExactly(b, rows)
                  THEN build' = [build EXCEPT ![b] = noted] /\ UNCHANGED admitting
                  ELSE FailBuild(b)
       /\ UNCHANGED <<storedRows, rootGenerations, rootReceipts, artifacts, rootEpoch, builds, buildFaults>>

\* After its last statement the batch counts as staged.
BatchStaged(b) ==
    LET s == build[b]
        staged == s.staged + Len(BatchOf(s))
    IN /\ s.pc = "stage" /\ StatementsAfter(s.statement, BatchOf(s)) = {}
       /\ IF BatchFits(BatchOf(s), s.req.grant)
          THEN /\ build' = [build EXCEPT ![b] = [s EXCEPT !.staged = staged, !.statement = 0,
                                !.pc = IF staged = Len(RootFrames[s.req.root]) THEN "effects" ELSE "stage"]]
               /\ UNCHANGED <<storedRows, rootGenerations, rootReceipts, artifacts, rootEpoch, admitting>>
          ELSE FailBuild(b)
       /\ UNCHANGED <<builds, buildFaults>>

\* The whole root as the database now has it, counted set by set.
EffectsComplete(b, root) ==
    \A f \in KeyedFamilies :
        Cardinality(FramesOf(f, RootFrames[root])) = Cardinality({k \in DOMAIN VisibleTo(b) : k[1] = f /\ k[2] = root})

SealEffects(b) ==
    /\ build[b].pc = "effects"
    /\ IF EffectsComplete(b, build[b].req.root)
       THEN /\ build' = [build EXCEPT ![b] = [NotePlan(@, <<"effect", "verify">>) EXCEPT !.pc = "generation"]]
            /\ UNCHANGED <<storedRows, rootGenerations, rootReceipts, artifacts, rootEpoch, admitting>>
       ELSE FailBuild(b)
    /\ UNCHANGED <<builds, buildFaults>>

\* The sequence of plans as it will be once two more have run.
PredictTwo(s, first, second) == Append(Append(s.plans, first), second)

\* The generation row names the plan sequence that includes its own insertion.
SealGeneration(b) ==
    LET s == build[b]
        predicted == PredictTwo(s, <<"generation", "insert">>, <<"generation", "verify">>)
        noted == NotePlan(NotePlan(s, <<"generation", "insert">>), <<"generation", "verify">>)
    IN /\ s.pc = "generation"
       /\ \A o \in OtherBuilds(b) : build[o].generation # NoPlans => build[o].req.root # s.req.root
       /\ IF (s.req.root \in DOMAIN rootGenerations => rootGenerations[s.req.root] = predicted) /\ noted.plans = predicted
          THEN /\ build' = [build EXCEPT ![b] = [noted EXCEPT !.pc = "files", !.generation = predicted]]
               /\ UNCHANGED <<storedRows, rootGenerations, rootReceipts, artifacts, rootEpoch, admitting>>
          ELSE FailBuild(b)
       /\ UNCHANGED <<builds, buildFaults>>

ArtifactsOf(r) == <<r.root, r.id>>
\* Artifacts are never replaced: a path that exists must hold the same bytes.
Publishable(old, new) == old = NoFiles \/ old = new

SealFiles(b) ==
    /\ build[b].pc = "files"
    /\ IF Publishable(artifacts, ArtifactsOf(build[b].req))
       THEN /\ artifacts' = ArtifactsOf(build[b].req)
            /\ build' = [build EXCEPT ![b].pc = "admit"]
            /\ UNCHANGED <<storedRows, rootGenerations, rootReceipts, rootEpoch, admitting>>
       ELSE FailBuild(b)
    /\ UNCHANGED <<builds, buildFaults>>

\* l_pg_perfcache_admit_with_result: compare-and-set on the epoch the caller expects,
\* reserved until the transaction ends.
AdmitRoot(b) ==
    /\ build[b].pc = "admit"
    /\ IF rootEpoch.sequence = build[b].expected /\ admitting = NoBackend /\ artifacts = ArtifactsOf(build[b].req)
       THEN /\ admitting' = b
            /\ build' = [build EXCEPT ![b].pc = "receipt"]
            /\ UNCHANGED <<storedRows, rootGenerations, rootReceipts, artifacts, rootEpoch>>
       ELSE FailBuild(b)
    /\ UNCHANGED <<builds, buildFaults>>

PersistReceipt(b) ==
    LET s == build[b]
        predicted == PredictTwo(s, <<"receipt", "insert">>, <<"receipt", "verify">>)
        noted == NotePlan(NotePlan(s, <<"receipt", "insert">>), <<"receipt", "verify">>)
    IN /\ s.pc = "receipt"
       /\ IF noted.plans = predicted
          THEN /\ build' = [build EXCEPT ![b] = [noted EXCEPT !.pc = "return",
                            !.receipt = [root |-> s.req.root, id |-> s.req.id, generation |-> s.generation, plans |-> predicted]]]
               /\ UNCHANGED <<storedRows, rootGenerations, rootReceipts, artifacts, rootEpoch, admitting>>
          ELSE FailBuild(b)
       /\ UNCHANGED <<builds, buildFaults>>

\* COMMIT: rows, generation and receipt become visible and the admission activates.
CommitRoot(b) ==
    LET s == build[b] IN
    /\ s.pc = "return"
    /\ storedRows' = Over(s.own, storedRows)
    /\ rootGenerations' = Over(rootGenerations, [r \in {s.req.root} |-> s.generation])
    /\ rootReceipts' = rootReceipts \cup {s.receipt}
    /\ rootEpoch' = [sequence |-> rootEpoch.sequence + 1, root |-> s.req.root, id |-> s.req.id]
    /\ admitting' = NoBackend
    /\ build' = [build EXCEPT ![b] = CommittedBuild]
    /\ UNCHANGED <<artifacts, builds, buildFaults>>

\* Any statement, allocation or system call may raise; the caller may roll back.
FaultBuild(b) ==
    /\ Building(b) /\ buildFaults < MaxBuildFaults
    /\ buildFaults' = buildFaults + 1
    /\ FailBuild(b) /\ UNCHANGED builds

BuildStep(b) ==
    \/ \E r \in RootRequests : BuildAndActivate(b, r)
    \/ StageStatement(b) \/ BatchStaged(b)
    \/ SealEffects(b) \/ SealGeneration(b) \/ SealFiles(b) \/ AdmitRoot(b)
    \/ PersistReceipt(b) \/ CommitRoot(b) \/ FaultBuild(b)

RootNext == \E b \in RootBackends : BuildStep(b)

RootSpec == RootInit /\ [][RootNext]_rootVars

-----------------------------------------------------------------------------
(* Properties.                                                             *)

RootSound(root, rows) ==
    /\ \A k \in RootRows(root) : k \in DOMAIN rows /\ rows[k] = Exact
    /\ \A k \in DOMAIN rows : Len(k) = 3 /\ k[2] = root => k \in RootRows(root)

\* A committed unicode_root_generation row means the tables hold that root: every
\* row of every family with exactly its fields and no row besides, whatever rows,
\* batch sizes and concurrent deposits it met.
DepositedIsWhole == \A root \in DOMAIN rootGenerations : RootSound(root, storedRows)

\* The active perfcache epoch is backed by what one transaction committed: its root's
\* generation, a receipt that names both, and artifacts still at their paths.
EpochIsBacked ==
    rootEpoch.root # NoRoot =>
        /\ rootEpoch.root \in DOMAIN rootGenerations
        /\ artifacts = <<rootEpoch.root, rootEpoch.id>>
        /\ \E r \in rootReceipts :
            /\ r.root = rootEpoch.root /\ r.id = rootEpoch.id
            /\ r.generation = rootGenerations[rootEpoch.root] /\ IsStrictPrefix(r.generation, r.plans)

\* unicode_root_pg.c: a generation row means the tables hold that whole root and no
\* more, and the active epoch is backed by rows, receipt and files.
RootDepositIsWhole == DepositedIsWhole /\ EpochIsBacked

\* The plans of a root deposited in batches of at most a limit, up to its generation row.
GenerationPlans(root, limit) ==
    LET frames == RootFrames[root]
        Needed(batch) == SelectSeq(BatchPlans, LAMBDA plan : FramesOf(plan[1], batch) # {})
        from[first \in 0 .. Len(frames)] ==
            LET batch == BatchAt(frames, first, limit)
            IN IF first = Len(frames) THEN <<>> ELSE Needed(batch) \o from[first + Len(batch)]
    IN from[0] \o << <<"effect", "verify">>, <<"generation", "insert">>, <<"generation", "verify">> >>

=============================================================================
