--------------------------- MODULE FrameworkStream ---------------------------
(***************************************************************************)
(* Staging a canonical stream of batches to an ordered set of sinks,       *)
(* engine/src/framework.c: stage_canonical_stream_impl, which is given the *)
(* whole stream, and run_producer_impl, which pulls it from a producer,    *)
(* reports a checkpoint after every batch, may be cancelled, and may be    *)
(* asked to replay: to produce again what an earlier run's checkpoint      *)
(* describes.                                                              *)
(*                                                                         *)
(* A callback of a sink, the producer or the control is one action, with   *)
(* the code up to the next callback.  What callbacks return is any value   *)
(* of the type, so a faulty or a nondeterministic producer is included.    *)
(* Fingerprints are the values they are computed from: BLAKE3 is taken to  *)
(* be injective.  byte_count and total_bytes are checked in step with      *)
(* record_count and total_records and are represented by these.            *)
(***************************************************************************)
EXTENDS Naturals, Sequences

CONSTANTS
  NSinks,      \* sink_count
  Payloads,    \* canonical bytes of a batch
  Cursors,     \* cursor fingerprints a producer reports
  MaxRecords,  \* bound on record_count of a batch
  MaxBatches,  \* bound on batch_count of a plan or stream
  MaxRuns      \* bound on the number of runs

ASSUME SinksAssumption == NSinks \in Nat \ {0}
ASSUME BoundsAssumption ==
  MaxRecords \in Nat \ {0} /\ MaxBatches \in Nat \ {0} /\ MaxRuns \in Nat

MaxTotal == MaxRecords * MaxBatches

Sinks   == 1..NSinks
Batches == [first : 0..MaxTotal, records : 0..MaxRecords, payload : Payloads]
Plans   == [batches : 0..MaxBatches, records : 0..MaxTotal]

VARIABLES
  runs,        \* runs started
  mode,        \* which of the two entry points is running
  pc,          \* the callback that is next
  script,      \* the given stream, in mode "stream"
  plan,        \* the producer's plan, or the totals of the given stream
  replay,      \* control->replay_checkpoint
  verified,    \* replay_verified
  completed,   \* completed_records
  prefix,      \* the batches staged to every sink
  batch,       \* the batch being staged
  at,          \* sinks the current callback round has passed
  begun,       \* sinks whose begin was called
  checkpoint,  \* receipt->checkpoint
  observed,    \* every checkpoint reported to observe_progress, of any run
  producer,    \* what the producer has been told
  began,       \* the sinks that were told to begin
  sealed,      \* the sinks that sealed
  aborts,      \* how often each sink was told to abort
  received,    \* the batches each sink has staged
  status,      \* receipt->status
  effect       \* receipt->stream.effect_disposition

calls == <<began, sealed, aborts>>
vars == <<runs, mode, pc, script, plan, replay, verified, completed, prefix,
          batch, at, begun, checkpoint, observed, producer, calls, received,
          status, effect>>

NoPlan   == [batches |-> 0, records |-> 0]
NoBatch  == <<>>
NoReplay == <<>>                                      \* no checkpoint given
Corrupt  == [plan |-> NoPlan, prefix |-> <<>>, cursor |-> "corrupt"]
Initial  == "initial"                                 \* plan.initial_cursor

\* set_checkpoint: a checkpoint binds the plan, the prefix and the cursor.
Checkpoint(p, s, c) == [plan |-> p, prefix |-> s, cursor |-> c]

TypeOK ==
  /\ runs \in 0..MaxRuns
  /\ mode \in {"stream", "producer"}
  /\ pc \in {"idle", "prepare", "observe", "begin", "next", "stage", "finish",
             "seal", "done"}
  /\ plan \in [batches : 0..MaxBatches, records : Nat]
  /\ verified \in BOOLEAN
  /\ completed \in Nat
  /\ at \in 0..NSinks
  /\ begun \in 0..NSinks
  /\ producer \in {"idle", "prepared", "finished", "aborted"}
  /\ began \in SUBSET Sinks /\ sealed \in SUBSET Sinks
  /\ aborts \in [Sinks -> 0..1]
  /\ status \in {"none", "ok", "failed", "cancelled", "invalid", "mismatch"}
  /\ effect \in {"none", "staged_inert"}
  /\ prefix \in Seq(Batches) /\ script \in Seq(Batches)
  /\ batch \in Batches \cup {NoBatch}
  /\ received \in [Sinks -> Seq(Batches)]

Init ==
  /\ runs = 0 /\ mode = "stream" /\ pc = "idle"
  /\ script = <<>> /\ plan = NoPlan /\ replay = NoReplay
  /\ verified = FALSE /\ completed = 0 /\ prefix = <<>> /\ batch = NoBatch
  /\ at = 0 /\ begun = 0
  /\ checkpoint = Checkpoint(NoPlan, <<>>, Initial) /\ observed = {}
  /\ producer = "idle"
  /\ began = {} /\ sealed = {} /\ aborts = [k \in Sinks |-> 0]
  /\ received = [k \in Sinks |-> <<>>]
  /\ status = "none" /\ effect = "none"

-----------------------------------------------------------------------------
(* How a run ends.                                                         *)

\* abort_sinks over the begun sinks, the producer's abort once prepare has
\* been called, and a receipt without effect.
Fail(s, b) ==
  /\ began' = began \cup 1..b
  /\ aborts' = [k \in Sinks |-> IF k <= b THEN aborts[k] + 1 ELSE aborts[k]]
  /\ begun' = b
  /\ UNCHANGED sealed
  /\ producer' = IF mode = "producer" THEN "aborted" ELSE producer
  /\ status' = s
  /\ effect' = "none"
  /\ pc' = "done"

\* Everything a run keeps for itself starts afresh; observed checkpoints are
\* the caller's.
Reset(m, r, s, p) ==
  /\ pc \in {"idle", "done"}
  /\ runs < MaxRuns
  /\ runs' = runs + 1
  /\ mode' = m
  /\ script' = s /\ plan' = p /\ replay' = r
  /\ verified' = FALSE /\ completed' = 0 /\ prefix' = <<>>
  /\ batch' = NoBatch /\ at' = 0 /\ begun' = 0
  /\ began' = {} /\ sealed' = {} /\ aborts' = [k \in Sinks |-> 0]
  /\ received' = [k \in Sinks |-> <<>>]
  /\ checkpoint' = Checkpoint(NoPlan, <<>>, Initial)
  /\ effect' = "none"
  /\ UNCHANGED observed

-----------------------------------------------------------------------------
(* Starting.                                                               *)

\* canonical_stream_fingerprint accepts contiguous batches of records.
Canonical(s) ==
  /\ s # <<>>
  /\ s[1].first = 0
  /\ \A i \in 1..Len(s) : s[i].records # 0
  /\ \A i \in 1..(Len(s) - 1) : s[i + 1].first = s[i].first + s[i].records

\* stage_canonical_stream: the stream is validated before any sink hears of it.
StageStream(s) ==
  /\ Canonical(s)
  /\ Reset("stream", NoReplay, s,
           [batches |-> Len(s), records |-> s[Len(s)].first + s[Len(s)].records])
  /\ producer' = "idle"
  /\ status' = "none"
  /\ pc' = "begin"

\* Either entry point refuses its arguments (a stream that is not canonical,
\* a sink without a callback, another ABI) before it calls anything.
RefuseArguments(m) ==
  /\ Reset(m, NoReplay, <<>>, NoPlan)
  /\ producer' = "idle"
  /\ status' = "invalid"
  /\ pc' = "done"

\* run_producer up to producer->prepare.
RunProducer(r) ==
  /\ Reset("producer", r, <<>>, NoPlan)
  /\ producer' = "prepared"
  /\ status' = "none"
  /\ pc' = "prepare"

\* A replay checkpoint has to be intact and of the same plan.
ReplayValid(p) ==
  replay # NoReplay =>
    /\ replay # Corrupt
    /\ replay.plan = p
    /\ Len(replay.prefix) <= p.batches

\* prepare returned plan p: a checkpoint of nothing is verified at once.
Prepared(p) ==
  /\ pc = "prepare"
  /\ p.batches # 0 /\ p.records # 0
  /\ ReplayValid(p)
  /\ plan' = p
  /\ checkpoint' = Checkpoint(p, <<>>, Initial)
  /\ verified' = (replay # NoReplay /\ replay = Checkpoint(p, <<>>, Initial))
  /\ pc' = "observe"
  /\ UNCHANGED <<runs, mode, script, replay, completed, prefix, batch, at,
                 begun, observed, producer, calls, received, status, effect>>

\* prepare failed or its plan is empty: the receipt has no checkpoint yet.
PrepareFails(p) ==
  /\ pc = "prepare"
  /\ \/ Fail("failed", 0)
     \/ (p.batches = 0 \/ p.records = 0) /\ Fail("invalid", 0)
  /\ plan' = p
  /\ UNCHANGED <<runs, mode, script, replay, verified, completed, prefix, batch,
                 at, checkpoint, observed, received>>

\* The replay checkpoint is refused.
ReplayRefused(p) ==
  /\ pc = "prepare"
  /\ p.batches # 0 /\ p.records # 0
  /\ ~ReplayValid(p)
  /\ plan' = p
  /\ checkpoint' = Checkpoint(p, <<>>, Initial)
  /\ Fail("invalid", 0)
  /\ UNCHANGED <<runs, mode, script, replay, verified, completed, prefix, batch,
                 at, observed, received>>

\* observe_progress with the checkpoint of nothing.
ObserveInitial ==
  /\ pc = "observe"
  /\ observed' = observed \cup {checkpoint}
  /\ pc' = "begin"
  /\ UNCHANGED <<runs, mode, script, plan, replay, verified, completed, prefix,
                 batch, at, begun, checkpoint, producer, calls, received,
                 status, effect>>

\* cancel_requested is asked before and after the first progress report,
\* before every batch and before finish.
Cancel ==
  /\ mode = "producer"
  /\ \/ pc \in {"observe", "finish"}
     \/ pc = "begin" /\ begun = 0
     \/ pc = "next" /\ Len(prefix) < plan.batches
  /\ Fail("cancelled", begun)
  /\ UNCHANGED <<runs, mode, script, plan, replay, verified, completed, prefix,
                 batch, at, checkpoint, observed, received>>

-----------------------------------------------------------------------------
(* begin_sinks: in order; a sink whose begin fails counts as begun.        *)

BeginSink ==
  /\ pc = "begin"
  /\ begun < NSinks
  /\ begun' = begun + 1
  /\ began' = began \cup {begun + 1}
  /\ pc' = IF begun + 1 = NSinks THEN "next" ELSE "begin"
  /\ UNCHANGED <<runs, mode, script, plan, replay, verified, completed, prefix,
                 batch, at, checkpoint, observed, producer, sealed, aborts,
                 received, status, effect>>

\* Fault: the sink whose begin failed is not aborted.
BeginFailsUncounted ==
  /\ pc = "begin"
  /\ begun < NSinks
  /\ began' = began \cup {begun + 1}
  /\ aborts' = [k \in Sinks |-> IF k <= begun THEN aborts[k] + 1 ELSE aborts[k]]
  /\ producer' = IF mode = "producer" THEN "aborted" ELSE producer
  /\ status' = "failed" /\ effect' = "none" /\ pc' = "done"
  /\ UNCHANGED <<runs, mode, script, plan, replay, verified, completed, prefix,
                 batch, at, begun, checkpoint, observed, sealed, received>>

BeginFails ==
  /\ pc = "begin"
  /\ begun < NSinks
  /\ Fail("failed", begun + 1)
  /\ UNCHANGED <<runs, mode, script, plan, replay, verified, completed, prefix,
                 batch, at, checkpoint, observed, received>>

-----------------------------------------------------------------------------
(* One batch: next, stage at every sink, checkpoint.                       *)

More == pc = "next" /\ Len(prefix) < plan.batches

\* The batch continues the stream and stays within the plan.
Accepts(b) ==
  /\ b.records # 0
  /\ b.first = completed
  /\ completed + b.records <= plan.records

\* producer->next returns b, or b is the next batch of the given stream.
NextBatch(b) ==
  /\ More
  /\ mode = "stream" => b = script[Len(prefix) + 1]
  /\ mode = "producer" => Accepts(b)
  /\ batch' = b
  /\ completed' = completed + b.records
  /\ at' = 0
  /\ pc' = "stage"
  /\ UNCHANGED <<runs, mode, script, plan, replay, verified, prefix, begun,
                 checkpoint, observed, producer, calls, received, status, effect>>

\* producer->next fails or returns a batch that is refused.
NextFails ==
  /\ More
  /\ mode = "producer"
  /\ Fail("failed", begun)
  /\ UNCHANGED <<runs, mode, script, plan, replay, verified, completed, prefix,
                 batch, at, checkpoint, observed, received>>

\* The checkpoint after the batch, with the cursor the producer gave.
NextCheckpoint(c) == Checkpoint(plan, Append(prefix, batch), c)

\* The replay checkpoint is about the batch just staged.
ReplayDue == replay # NoReplay /\ Len(replay.prefix) = Len(prefix) + 1

\* stage_batch_to_sinks: in order.
StageSink ==
  /\ pc = "stage"
  /\ at < NSinks
  /\ at' = at + 1
  /\ received' = [received EXCEPT ![at + 1] = Append(@, batch)]
  /\ UNCHANGED <<runs, mode, pc, script, plan, replay, verified, completed,
                 prefix, batch, begun, checkpoint, observed, producer, calls,
                 status, effect>>

StageFails ==
  /\ pc = "stage"
  /\ at < NSinks
  /\ Fail("failed", begun)
  /\ UNCHANGED <<runs, mode, script, plan, replay, verified, completed, prefix,
                 batch, at, checkpoint, observed, received>>

\* Fault: the build flag LAPLACE_TEST_OMIT_REPLAY_PREFIX_ASSERTION.
ReplayAgreesAlways(c) == TRUE

\* What was produced again is what the replay checkpoint says.
ReplayAgrees(c) == ReplayDue => replay = NextCheckpoint(c)

\* Every sink has the batch: set_checkpoint, compare the replay, report.
BatchDone(c) ==
  /\ pc = "stage"
  /\ at = NSinks
  /\ mode = "producer" => ReplayAgrees(c)
  /\ prefix' = Append(prefix, batch)
  /\ checkpoint' = IF mode = "producer" THEN NextCheckpoint(c) ELSE checkpoint
  /\ verified' = (verified \/ (mode = "producer" /\ ReplayDue))
  /\ observed' = IF mode = "producer" THEN observed \cup {NextCheckpoint(c)}
                                      ELSE observed
  /\ pc' = "next"
  /\ UNCHANGED <<runs, mode, script, plan, replay, completed, batch, at, begun,
                 producer, calls, received, status, effect>>

ReplayMismatch(c) ==
  /\ pc = "stage"
  /\ at = NSinks
  /\ mode = "producer" /\ ~ReplayAgrees(c)
  /\ checkpoint' = NextCheckpoint(c)
  /\ Fail("mismatch", begun)
  /\ UNCHANGED <<runs, mode, script, plan, replay, verified, completed, prefix,
                 batch, at, observed, received>>

-----------------------------------------------------------------------------
(* After the last batch.                                                   *)

\* The totals are the plan's and a replay has been verified.
PlanFulfilled ==
  /\ completed = plan.records
  /\ replay # NoReplay => verified

EndOfBatches ==
  /\ pc = "next"
  /\ Len(prefix) = plan.batches
  /\ \/ /\ mode = "stream"
        /\ pc' = "seal" /\ at' = 0
        /\ UNCHANGED <<begun, producer, calls, status, effect>>
     \/ /\ mode = "producer" /\ PlanFulfilled
        /\ pc' = "finish"
        /\ UNCHANGED <<at, begun, producer, calls, status, effect>>
     \/ /\ mode = "producer" /\ ~PlanFulfilled
        /\ Fail("failed", begun)
        /\ UNCHANGED at
  /\ UNCHANGED <<runs, mode, script, plan, replay, verified, completed, prefix,
                 batch, checkpoint, observed, received>>

\* producer->finish
Finish ==
  /\ pc = "finish"
  /\ producer' = "finished"
  /\ pc' = "seal" /\ at' = 0
  /\ UNCHANGED <<runs, mode, script, plan, replay, verified, completed, prefix,
                 batch, begun, checkpoint, observed, calls, received, status,
                 effect>>

FinishFails ==
  /\ pc = "finish"
  /\ Fail("failed", begun)
  /\ UNCHANGED <<runs, mode, script, plan, replay, verified, completed, prefix,
                 batch, at, checkpoint, observed, received>>

\* seal_sinks: in order; after the last one the effect is staged and inert.
SealSink ==
  /\ pc = "seal"
  /\ sealed' = sealed \cup {at + 1}
  /\ at' = at + 1
  /\ IF at + 1 = NSinks
     THEN pc' = "done" /\ status' = "ok" /\ effect' = "staged_inert"
     ELSE UNCHANGED <<pc, status, effect>>
  /\ UNCHANGED <<runs, mode, script, plan, replay, verified, completed, prefix,
                 batch, begun, checkpoint, observed, producer, began, aborts,
                 received>>

\* A sink that cannot seal takes those already sealed with it.
SealFails ==
  /\ pc = "seal"
  /\ Fail("failed", begun)
  /\ UNCHANGED <<runs, mode, script, plan, replay, verified, completed, prefix,
                 batch, at, checkpoint, observed, received>>

-----------------------------------------------------------------------------

\* Streams a caller may hand over; RefuseArguments stands for the others.
Streams == {s \in UNION {[1..n -> Batches] : n \in 1..MaxBatches} : Canonical(s)}

Next ==
  \/ \E s \in Streams : StageStream(s)
  \/ \E m \in {"stream", "producer"} : RefuseArguments(m)
  \/ \E r \in observed \cup {NoReplay, Corrupt} : RunProducer(r)
  \/ \E p \in Plans : Prepared(p) \/ PrepareFails(p) \/ ReplayRefused(p)
  \/ ObserveInitial \/ Cancel
  \/ BeginSink \/ BeginFails
  \/ \E b \in Batches : NextBatch(b)
  \/ NextFails
  \/ StageSink \/ StageFails
  \/ \E c \in Cursors : BatchDone(c) \/ ReplayMismatch(c)
  \/ EndOfBatches
  \/ Finish \/ FinishFails
  \/ SealSink \/ SealFails

Spec == Init /\ [][Next]_vars

-----------------------------------------------------------------------------
(* What staging promises.                                                  *)

Done == pc = "done"

\* A failed or cancelled run leaves nothing behind: every sink that was told
\* to begin is told exactly once to abort, also the one that failed and those
\* already sealed; no other sink is; and so is a producer that was asked to
\* prepare, even after it finished.
FailureUndoesAll ==
  Done /\ status # "ok" =>
    /\ effect = "none"
    /\ \A k \in Sinks : aborts[k] = IF k \in began THEN 1 ELSE 0
    /\ producer \in {"idle", "aborted"}

\* The receipt says staged only when every sink began, received the whole
\* stream of the plan, sealed and was not aborted.
SuccessIsComplete ==
  Done /\ status = "ok" =>
    /\ Len(prefix) = plan.batches /\ completed = plan.records
    /\ began = Sinks /\ sealed = Sinks
    /\ \A k \in Sinks : aborts[k] = 0 /\ received[k] = prefix

\* No checkpoint is reported for a batch that some sink has not staged, so
\* that a run can be replayed from what its caller saw.
CheckpointIsStaged ==
  mode = "producer" /\ checkpoint \in observed =>
    \A k \in Sinks :
      /\ Len(checkpoint.prefix) <= Len(received[k])
      /\ \A i \in 1..Len(checkpoint.prefix) :
           received[k][i] = checkpoint.prefix[i]

\* What a sink receives is one gapless sequence of records from ordinal 0.
ReceivedIsGapless ==
  \A k \in Sinks : \A i \in 1..Len(received[k]) :
    received[k][i].first =
      IF i = 1 THEN 0 ELSE received[k][i - 1].first + received[k][i - 1].records

\* A replay that succeeds has produced the checkpoint's plan and the very
\* batches the earlier run had staged.
ReplayReproduces ==
  Done /\ status = "ok" /\ replay # NoReplay =>
    /\ plan = replay.plan
    /\ \A i \in 1..Len(replay.prefix) : prefix[i] = replay.prefix[i]
=============================================================================
