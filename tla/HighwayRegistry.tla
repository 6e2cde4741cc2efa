--------------------------- MODULE HighwayRegistry --------------------------
(***************************************************************************)
(* Activation and resolution of the reference highway registry:            *)
(* highway_registry_pg.c over the compiled registry of engine/src/         *)
(* highway.c.  Sessions may run different builds of the native library, so  *)
(* a registry is a member of Libraries; each call is one READ COMMITTED     *)
(* transaction whose writes are private until it commits.  Digests are      *)
(* records of what they hash.                                               *)
(***************************************************************************)
EXTENDS Integers, Sequences, FiniteSets

CONSTANTS
    Sessions,
    Libraries,     \* [version, kinds, aliases, dispositions]: the compiled registries
    CallContexts,      \* [numeric, perfcache, readOnly]: the callers' execution contexts
    PerfcacheEpochs,
    MaxSequence    \* PG_INT64_MAX

VARIABLES
    control,      \* committed row of highway_registry_active_control
    generations,  \* committed rows of highway_registry_generation, by epoch
    projections,  \* committed projection rows, by epoch
    events,       \* committed rows of highway_registry_activation_event, by sequence
    perfcache,    \* the epoch of perfcache_active_control
    holder,       \* the backend holding the row lock on the control row, or None
    pc,           \* per backend: the call's next step
    call,         \* per backend: library, context and what the call read or wrote
    answer        \* what the last call that ended returned

highwayVars == <<control, generations, projections, events, perfcache, holder, pc, call, answer>>

None == [none |-> TRUE]
Empty == [e \in {} |-> None]

\* A session and a compiled registry are never nothing.
NamesAssumption == None \notin Sessions /\ None \notin Libraries

\* What materialize hashes into the epoch is the compiled registry and nothing
\* of the context: a registry is its own epoch fingerprint.
EpochOf(lib) == lib

\* The ISA receipt hashes the context: one registry materialized under two
\* contexts has two receipts.
IsaReceipt(lib, ctx) == [registry |-> lib, context |-> ctx]
GenerationRow(lib, ctx) ==
    [version |-> lib.version, isa |-> IsaReceipt(lib, ctx),
     counts |-> <<Len(lib.kinds), Len(lib.aliases), Len(lib.dispositions)>>]

\* Fault: compares only what is hashed into the epoch.
GenerationAgreesOnRegistry(row, mine) == row.version = mine.version /\ row.counts = mine.counts
GenerationAgrees(row, mine) == row = mine

ProjectionsOf(lib) ==
    [kinds |-> lib.kinds, aliases |-> lib.aliases, dispositions |-> lib.dispositions]

AdmissionReceipt(lib, ctx) == [staged |-> IsaReceipt(lib, ctx), expected |-> ctx.numeric]
FinalReceipt(lib, ctx, sequence) == [admission |-> AdmissionReceipt(lib, ctx), sequence |-> sequence]

HighwayInit ==
    /\ control = [sequence |-> 0, active |-> FALSE, epoch |-> None, admission |-> None, activation |-> None]
    /\ generations = Empty
    /\ projections = Empty
    /\ events = <<>>
    /\ perfcache = CHOOSE e \in PerfcacheEpochs : TRUE
    /\ holder = None
    /\ pc = [b \in Sessions |-> "idle"]
    /\ call = [b \in Sessions |-> None]
    /\ answer = None

-----------------------------------------------------------------------------
(* Transactions.                                                           *)

Written(b) == IF call[b] = None THEN None ELSE call[b].generation

\* The end of a transaction gives back its row locks, however it ends.
Release(b, ok) == holder' = IF holder = b THEN None ELSE holder

EndCall(b, result) ==
    /\ pc' = [pc EXCEPT ![b] = "idle"]
    /\ call' = [call EXCEPT ![b] = None]
    /\ answer' = result

Failed == [ok |-> FALSE]

\* An ERROR, a cancelled statement or a lost session: nothing written remains.
RollbackCall(b) ==
    /\ pc[b] # "idle"
    /\ Release(b, FALSE)
    /\ EndCall(b, Failed)
    /\ UNCHANGED <<control, generations, projections, events, perfcache>>

\* The call starts: the statement's snapshot is what the replay lookup will see,
\* however long the composition of the AST takes.
StartActivate(b, lib, ctx) ==
    /\ pc[b] = "idle"
    /\ \/ ctx.readOnly /\ EndCall(b, Failed)
       \/ /\ ~ctx.readOnly
          /\ pc' = [pc EXCEPT ![b] = "lookup"]
          /\ call' = [call EXCEPT ![b] =
                [lib |-> lib, ctx |-> ctx, control |-> control, generations |-> generations,
                 generation |-> None, sequence |-> 0, replayed |-> FALSE]]
          /\ UNCHANGED answer
    /\ UNCHANGED <<control, generations, projections, events, perfcache, holder>>

\* load_active_registry_replay: the active row joined to its generation, which
\* must have been made by this library under this context.
ReplayFound(c) ==
    /\ c.control.active
    /\ c.control.epoch = EpochOf(c.lib)
    /\ c.generations[c.control.epoch].isa = IsaReceipt(c.lib, c.ctx)

\* What framework_activate refuses before it calls the provider.
RequestRefused(c) == c.ctx.numeric = EpochOf(c.lib)

Lookup(b) ==
    LET c == call[b] IN
    /\ pc[b] = "lookup"
    /\ \/ /\ ReplayFound(c)
          /\ pc' = [pc EXCEPT ![b] = "end"]
          /\ call' = [call EXCEPT ![b].sequence = c.control.sequence, ![b].replayed = TRUE,
                                  ![b].control = None, ![b].generations = None]
          /\ UNCHANGED answer
       \/ ~ReplayFound(c) /\ RequestRefused(c) /\ EndCall(b, Failed)
       \/ /\ ~ReplayFound(c) /\ ~RequestRefused(c)
          /\ pc' = [pc EXCEPT ![b] = "prepare"]
          /\ call' = [call EXCEPT ![b].generations = None]
          /\ UNCHANGED answer
    /\ UNCHANGED <<control, generations, projections, events, perfcache, holder>>

\* highway_activation_prepare: the generation and its projections are inserted
\* unless they exist, and read back.  An insertion of the same key that has not
\* ended is waited for.
Prepare(b) ==
    LET c == call[b]
        epoch == EpochOf(c.lib)
        mine == GenerationRow(c.lib, c.ctx)
        present == epoch \in DOMAIN generations
    IN
    /\ pc[b] = "prepare"
    /\ \A o \in Sessions \ {b} : Written(o) # epoch
    /\ \/ /\ present => GenerationAgrees(generations[epoch], mine)
          /\ pc' = [pc EXCEPT ![b] = "commit"]
          /\ call' = [call EXCEPT ![b].generation = IF present THEN None ELSE epoch]
          /\ UNCHANGED answer
       \/ present /\ ~GenerationAgrees(generations[epoch], mine) /\ EndCall(b, Failed)
    /\ UNCHANGED <<control, generations, projections, events, perfcache, holder>>

CommitRefused(seen, expected) ==
    \/ ~seen.active /\ seen.sequence # 0
    \/ seen.active /\ seen.epoch # expected
    \/ seen.sequence = MaxSequence

\* highway_activation_commit: FOR UPDATE locks the control row as the last
\* committed transaction left it; it is compared with the
\* expected epoch, and rewritten with its event in the transaction.
CommitActivation(b) ==
    LET c == call[b] IN
    /\ pc[b] = "commit"
    /\ holder = None
    /\ \/ /\ CommitRefused(control, c.ctx.numeric)
          /\ EndCall(b, Failed)
          /\ UNCHANGED holder
       \/ /\ ~CommitRefused(control, c.ctx.numeric)
          /\ holder' = b
          /\ pc' = [pc EXCEPT ![b] = "end"]
          /\ call' = [call EXCEPT ![b].sequence = control.sequence + 1, ![b].control = None]
          /\ UNCHANGED answer
    /\ UNCHANGED <<control, generations, projections, events, perfcache>>

\* record_final_activation_receipt and the end of the transaction: everything
\* written becomes visible at once.
CommitTransaction(b) ==
    LET c == call[b]
        epoch == EpochOf(c.lib)
        final == FinalReceipt(c.lib, c.ctx, c.sequence)
    IN
    /\ pc[b] = "end"
    /\ IF c.replayed
       THEN UNCHANGED <<control, generations, projections, events>>
       ELSE /\ control' = [sequence |-> c.sequence, active |-> TRUE, epoch |-> epoch,
                           admission |-> AdmissionReceipt(c.lib, c.ctx), activation |-> final]
            /\ events' = Append(events, [epoch |-> epoch, expected |-> c.ctx.numeric, context |-> c.ctx,
                                         activation |-> final])
            /\ generations' = [e \in DOMAIN generations \cup {epoch} |->
                                 IF e \in DOMAIN generations THEN generations[e] ELSE GenerationRow(c.lib, c.ctx)]
            /\ projections' = [e \in DOMAIN projections \cup {epoch} |->
                                 IF e \in DOMAIN projections THEN projections[e] ELSE ProjectionsOf(c.lib)]
    /\ Release(b, TRUE)
    /\ EndCall(b, [ok |-> TRUE, lib |-> c.lib, context |-> c.ctx, sequence |-> c.sequence,
                   resolved |-> FALSE])
    /\ UNCHANGED perfcache

-----------------------------------------------------------------------------
(* Resolution: one read-only statement, so one snapshot.                   *)

VerifyArrays(rows, lib) == rows.kinds = lib.kinds /\ rows.aliases = lib.aliases
                           /\ rows.dispositions = lib.dispositions

Resolvable(lib, ctx) ==
    /\ ctx.readOnly
    /\ control.active
    /\ generations[control.epoch].version = lib.version
    /\ control.epoch = EpochOf(lib)
    /\ control.epoch = ctx.numeric
    /\ perfcache = ctx.perfcache
    /\ VerifyArrays(projections[control.epoch], lib)

Resolve(b, lib, ctx) ==
    /\ pc[b] = "idle"
    /\ answer' = IF Resolvable(lib, ctx) THEN [ok |-> TRUE, resolved |-> TRUE] ELSE Failed
    /\ UNCHANGED <<control, generations, projections, events, perfcache, holder, pc, call>>

\* Another generation of the perfcache is activated.
PerfcacheMoves ==
    /\ perfcache' \in PerfcacheEpochs \ {perfcache}
    /\ UNCHANGED <<control, generations, projections, events, holder, pc, call, answer>>

ActivationStep(b) == Lookup(b) \/ Prepare(b) \/ CommitActivation(b) \/ CommitTransaction(b)
HighwayNext ==
    \/ \E b \in Sessions : ActivationStep(b) \/ RollbackCall(b)
    \/ \E b \in Sessions, lib \in Libraries, ctx \in CallContexts : StartActivate(b, lib, ctx) \/ Resolve(b, lib, ctx)
    \/ PerfcacheMoves

HighwaySpec == HighwayInit /\ [][HighwayNext]_highwayVars

-----------------------------------------------------------------------------
(* Properties.                                                             *)

\* Activation events form one chain without gaps: each names as expected the
\* epoch of the event before it, and the control row is the last of them
\* (highway_activation_commit, however two activations interleave).
ChainIsContiguous ==
    /\ control.sequence = Len(events)
    /\ control.active <=> events # <<>>
    /\ \A n \in 2 .. Len(events) : events[n].expected = events[n - 1].epoch
    /\ events # <<>> => /\ control.epoch = events[Len(events)].epoch
                        /\ control.activation = events[Len(events)].activation

\* A registry is only ever activated from the context it was first activated
\* from: going back to an earlier registry from the context of its successor
\* is refused, so the compare-and-set on the expected epoch is not fooled by a
\* registry that returns (generation verification in highway_activation_prepare).
ActivatedFromOneContext ==
    \A m, n \in DOMAIN events : events[m].epoch = events[n].epoch => events[m].context = events[n].context

\* The active generation has its row and exactly the projections of its
\* registry, and so has every generation an event names: a resolver with that
\* build of the library can answer.
ActiveIsComplete ==
    \A n \in DOMAIN events :
        LET epoch == events[n].epoch IN
        /\ epoch \in DOMAIN generations /\ epoch \in DOMAIN projections
        /\ VerifyArrays(projections[epoch], epoch)

\* What an activation returned, replayed or new, is an activation of this
\* caller's registry under this caller's context, recorded with that sequence.
AnswerIsAnEvent ==
    answer # None /\ answer.ok /\ ~answer.resolved =>
        /\ answer.sequence \in DOMAIN events
        /\ events[answer.sequence].epoch = answer.lib
        /\ events[answer.sequence].context = answer.context

\* However activations of different builds under different contexts interleave,
\* they are one chain of events, answered for and resolvable.
HighwayIsOneChain == ChainIsContiguous /\ AnswerIsAnEvent /\ ActivatedFromOneContext /\ ActiveIsComplete

=============================================================================
