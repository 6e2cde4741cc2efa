------------------------ MODULE FrameworkStreamProofs ------------------------
(***************************************************************************)
(* Proofs about a framework run, for every number of sinks, batches and    *)
(* payloads: a failed run leaves nothing behind (invariant RunInv), and a  *)
(* run that succeeds has staged the whole stream, gapless, in every sink,  *)
(* reported no checkpoint too early and replayed faithfully (StageInv).    *)
(***************************************************************************)
EXTENDS FrameworkStream, TLAPS

\* The sinks that were told to begin are the first `begun' ones, none of them
\* has been told to abort while the run goes on, and only a run that has a
\* producer has told it anything.
RunInv ==
  /\ begun \in 0..NSinks
  /\ mode \in {"stream", "producer"}
  /\ aborts \in [Sinks -> Nat]
  /\ pc # "done" => /\ began = 1..begun
                     /\ \A k \in Sinks : aborts[k] = 0
  /\ mode = "stream" => producer = "idle"
  /\ pc \in {"prepare", "observe"} => begun = 0
  /\ pc = "finish" => mode = "producer"
  /\ FailureUndoesAll

\* Whatever fails, abort_sinks undoes the sinks begun so far.
LEMMA FailKeeps ==
  ASSUME RunInv, NEW s, NEW b \in 0..NSinks, pc # "done", b \in {begun, begun + 1},
         Fail(s, b), mode' = mode
  PROVE  RunInv'
<1>1. aborts' \in [Sinks -> Nat]
  BY DEF Fail, RunInv
<1>2. \A k \in Sinks : aborts'[k] = IF k \in began' THEN 1 ELSE 0
  BY SinksAssumption DEF Fail, RunInv, Sinks
<1>3. producer' \in {"idle", "aborted"} /\ (mode = "stream" => producer' = "idle")
  BY DEF Fail, RunInv
<1>4. QED
  BY <1>1, <1>2, <1>3 DEF Fail, RunInv, FailureUndoesAll, Done

\* A run starts with no sink told anything.
LEMMA ResetKeeps ==
  ASSUME NEW m \in {"stream", "producer"}, NEW r, NEW s, NEW p, Reset(m, r, s, p)
  PROVE  /\ begun' = 0 /\ at' = 0 /\ mode' = m /\ effect' = "none"
         /\ began' = 1..begun'
         /\ aborts' \in [Sinks -> Nat] /\ \A k \in Sinks : aborts'[k] = 0
BY DEF Reset

LEMMA RunInvStep ==
  ASSUME RunInv, [Next]_vars
  PROVE  RunInv'
<1> USE SinksAssumption DEF calls
<1>1. CASE UNCHANGED vars
  BY <1>1 DEF vars, RunInv, FailureUndoesAll, Done
<1>2. ASSUME NEW s, StageStream(s) PROVE RunInv'
  BY <1>2, ResetKeeps DEF StageStream, RunInv, FailureUndoesAll, Done
<1>3. ASSUME NEW m \in {"stream", "producer"}, RefuseArguments(m) PROVE RunInv'
  BY <1>3, ResetKeeps DEF RefuseArguments, RunInv, FailureUndoesAll, Done, Sinks
<1>4. ASSUME NEW r, RunProducer(r) PROVE RunInv'
  BY <1>4, ResetKeeps DEF RunProducer, RunInv, FailureUndoesAll, Done, Sinks
<1>5. ASSUME NEW p, Prepared(p) PROVE RunInv'
  BY <1>5 DEF Prepared, RunInv, FailureUndoesAll, Done
<1>6. ASSUME NEW p, PrepareFails(p) \/ ReplayRefused(p) PROVE RunInv'
  <2>1. PICK s : Fail(s, 0)
    BY <1>6 DEF PrepareFails, ReplayRefused
  <2>2. pc = "prepare" /\ mode' = mode
    BY <1>6 DEF PrepareFails, ReplayRefused
  <2>3. QED
    BY <2>1, <2>2, FailKeeps DEF RunInv
<1>7. CASE ObserveInitial
  BY <1>7 DEF ObserveInitial, RunInv, FailureUndoesAll, Done
<1>8. CASE Cancel \/ NextFails \/ StageFails \/ FinishFails \/ SealFails
  <2>1. PICK s : Fail(s, begun)
    BY <1>8 DEF Cancel, NextFails, StageFails, FinishFails, SealFails
  <2>2. pc # "done" /\ mode' = mode
    BY <1>8 DEF Cancel, NextFails, More, StageFails, FinishFails, SealFails
  <2>3. QED
    BY <2>1, <2>2, FailKeeps DEF RunInv
<1>9. CASE BeginSink
  <2>1. begun + 1 \in Sinks /\ begun' = begun + 1 /\ begun' \in 0..NSinks
    BY <1>9 DEF BeginSink, RunInv, Sinks
  <2>2. began' = 1..begun'
    BY <1>9, <2>1 DEF BeginSink, RunInv
  <2>3. QED
    BY <1>9, <2>1, <2>2 DEF BeginSink, RunInv, FailureUndoesAll, Done
<1>10. CASE BeginFails
  <2>1. Fail("failed", begun + 1) /\ pc # "done" /\ begun + 1 \in 0..NSinks
    BY <1>10 DEF BeginFails, RunInv
  <2>2. mode' = mode
    BY <1>10 DEF BeginFails
  <2>3. QED
    BY <2>1, <2>2, FailKeeps
<1>11. ASSUME NEW b, NextBatch(b) PROVE RunInv'
  BY <1>11 DEF NextBatch, More, RunInv, FailureUndoesAll, Done
<1>12. CASE StageSink
  BY <1>12 DEF StageSink, RunInv, FailureUndoesAll, Done
<1>13. ASSUME NEW c, BatchDone(c) PROVE RunInv'
  BY <1>13 DEF BatchDone, RunInv, FailureUndoesAll, Done
<1>14. ASSUME NEW c, ReplayMismatch(c) PROVE RunInv'
  BY <1>14, FailKeeps DEF ReplayMismatch, RunInv
<1>15. CASE EndOfBatches
  <2>1. CASE Fail("failed", begun)
    BY <1>15, <2>1, FailKeeps DEF EndOfBatches, RunInv
  <2>2. CASE /\ pc' \in {"seal", "finish"}
             /\ UNCHANGED <<begun, producer, calls, status, effect>>
    BY <1>15, <2>2 DEF EndOfBatches, RunInv, FailureUndoesAll, Done
  <2>3. QED
    BY <1>15, <2>1, <2>2 DEF EndOfBatches
<1>16. CASE Finish
  BY <1>16 DEF Finish, RunInv, FailureUndoesAll, Done
<1>17. CASE SealSink
  BY <1>17 DEF SealSink, RunInv, FailureUndoesAll, Done, Sinks
<1>18. QED
  BY <1>1, <1>2, <1>3, <1>4, <1>5, <1>6, <1>7, <1>8, <1>9, <1>10, <1>11,
     <1>12, <1>13, <1>14, <1>15, <1>16, <1>17 DEF Next

\* abort_sinks and producer->abort undo every begun sink and a prepared
\* producer exactly once, at whichever callback the run fails.
THEOREM FailureIsUndone == Spec => []FailureUndoesAll
<1>1. Init => RunInv
  BY SinksAssumption
     DEF Init, RunInv, FailureUndoesAll, Done, Sinks
<1>2. RunInv /\ [Next]_vars => RunInv'
  BY RunInvStep
<1>3. RunInv => FailureUndoesAll
  BY DEF RunInv
<1>4. QED
  BY <1>1, <1>2, <1>3, PTL DEF Spec

-----------------------------------------------------------------------------
(* What the sinks hold.                                                    *)

\* The ordinal that follows the last record of a sequence of batches.
End(s) == IF s = <<>> THEN 0 ELSE s[Len(s)].first + s[Len(s)].records

\* The batches follow each other without a gap, from ordinal 0.
Gapless(s) ==
  \A i \in 1..Len(s) :
    s[i].first = IF i = 1 THEN 0 ELSE s[i - 1].first + s[i - 1].records

\* The batch in hand continues what has been staged.
Continues == batch \in Batches /\ batch.first = End(prefix)

\* Between two batches and after a success every sink holds the prefix.
Settled == pc \notin {"stage", "done"} \/ status = "ok"

\* The values a run computes with.
RunTypes ==
  /\ script \in Seq(Batches) /\ prefix \in Seq(Batches)
  /\ received \in [Sinks -> Seq(Batches)]
  /\ completed \in Nat /\ at \in 0..NSinks
  /\ plan \in [batches : Nat, records : Nat]
  /\ pc \in {"idle", "prepare", "observe", "begin", "next", "stage", "finish",
             "seal", "done"}
  /\ pc # "done" => status = "none"
  /\ pc \in {"prepare", "observe"} => mode = "producer"

\* Sinks hold the prefix, or the prefix and the batch in hand; completed counts
\* what they hold.
Holdings ==
  /\ Gapless(prefix)
  /\ \A k \in Sinks :
        \/ received[k] = prefix
        \/ Continues /\ received[k] = Append(prefix, batch)
  /\ Settled => /\ \A k \in Sinks : received[k] = prefix
                /\ completed = End(prefix)
  /\ pc = "stage" =>
        /\ Continues /\ completed = End(prefix) + batch.records
        /\ \A k \in Sinks :
              received[k] = IF k <= at THEN Append(prefix, batch) ELSE prefix

\* A given stream is staged in its order, and the plan is its totals.
Scripted ==
  /\ mode = "stream" /\ pc \notin {"idle", "done"} =>
       /\ script # <<>> /\ Gapless(script)
       /\ plan = [batches |-> Len(script), records |-> End(script)]
       /\ Len(prefix) <= Len(script)
       /\ \A i \in 1..Len(prefix) : prefix[i] = script[i]
  /\ mode = "stream" /\ pc = "stage" =>
       Len(prefix) < Len(script) /\ batch = script[Len(prefix) + 1]

\* How far the sinks have come.
Rounds ==
  /\ pc \in {"next", "stage", "finish", "seal"} => begun = NSinks
  /\ pc \in {"idle", "prepare", "observe", "begin"} => prefix = <<>>
  /\ pc \notin {"seal", "done"} => sealed = {}
  /\ pc = "seal" => sealed = 1..at /\ at < NSinks
  /\ pc \in {"finish", "seal"} \/ status = "ok" =>
       Len(prefix) = plan.batches /\ completed = plan.records
  /\ status = "ok" => /\ began = Sinks /\ sealed = Sinks
                      /\ \A k \in Sinks : aborts[k] = 0

\* In a run of a producer the checkpoint describes what was staged; only the
\* checkpoint of a refused replay is one batch ahead, and every sink has that
\* batch.
Reported ==
  mode = "producer" =>
    \/ checkpoint.prefix = prefix
    \/ /\ pc = "done" /\ Continues
       /\ checkpoint.prefix = Append(prefix, batch)
       /\ \A k \in Sinks : received[k] = Append(prefix, batch)

\* A replay has its checkpoint's plan, and is verified once it has produced the
\* checkpoint's batches.
Replayed ==
  /\ mode = "stream" => replay = NoReplay
  /\ replay # NoReplay /\ (pc \notin {"idle", "prepare", "done"} \/ status = "ok") =>
       plan = replay.plan
  /\ verified =>
       /\ Len(replay.prefix) \in 0..Len(prefix)
       /\ \A i \in 1..Len(replay.prefix) : prefix[i] = replay.prefix[i]
  /\ replay # NoReplay /\ (pc \in {"finish", "seal"} \/ status = "ok") => verified

StageInv == RunTypes /\ Holdings /\ Scripted /\ Rounds /\ Reported /\ Replayed

-----------------------------------------------------------------------------
(* Operators on batches.                                                   *)

\* A batch that starts where the sequence ends extends it without a gap.
LEMMA AppendGapless ==
  ASSUME NEW s \in Seq(Batches), NEW b \in Batches, Gapless(s), b.first = End(s)
  PROVE  /\ Gapless(Append(s, b)) /\ Append(s, b) \in Seq(Batches)
         /\ End(Append(s, b)) = b.first + b.records
         /\ Append(s, b) # <<>>
<1> DEFINE t == Append(s, b)
<1>1. /\ t \in Seq(Batches) /\ Len(t) = Len(s) + 1 /\ t[Len(t)] = b
      /\ \A i \in 1..Len(s) : t[i] = s[i]
      /\ Len(s) \in Nat /\ t # <<>>
  OBVIOUS
<1>2. ASSUME NEW i \in 1..Len(t)
      PROVE  t[i].first = IF i = 1 THEN 0 ELSE t[i - 1].first + t[i - 1].records
  <2>1. CASE i \in 1..Len(s)
    <3>1. t[i] = s[i] /\ (i # 1 => i - 1 \in 1..Len(s) /\ t[i - 1] = s[i - 1])
      BY <1>1, <2>1
    <3>2. QED
      BY <2>1, <3>1 DEF Gapless
  <2>2. CASE i = Len(s) + 1
    <3>1. CASE s = <<>>
      BY <1>1, <2>2, <3>1 DEF End
    <3>2. CASE s # <<>>
      <4>1. Len(s) \in 1..Len(s) /\ i # 1 /\ i - 1 = Len(s)
        BY <1>1, <2>2, <3>2
      <4>2. t[i] = b /\ t[i - 1] = s[Len(s)]
        BY <1>1, <2>2, <4>1
      <4>3. QED
        BY <3>2, <4>1, <4>2 DEF End
    <3>3. QED
      BY <3>1, <3>2
  <2>3. QED
    BY <1>1, <2>1, <2>2
<1>3. Gapless(t)
  BY <1>2 DEF Gapless
<1>4. End(t) = b.first + b.records
  BY <1>1 DEF End
<1>5. QED
  BY <1>1, <1>3, <1>4

\* Where a sequence without a gap ends, its next batch starts.
LEMMA NextOfGapless ==
  ASSUME NEW s \in Seq(Batches), Gapless(s), NEW p \in Seq(Batches),
         Len(p) < Len(s), \A i \in 1..Len(p) : p[i] = s[i]
  PROVE  s[Len(p) + 1].first = End(p) /\ s[Len(p) + 1] \in Batches
<1>1. Len(p) \in Nat /\ Len(s) \in Nat /\ Len(p) + 1 \in 1..Len(s)
  OBVIOUS
<1>2. CASE p = <<>>
  BY <1>1, <1>2 DEF Gapless, End
<1>3. CASE p # <<>>
  <2>1. Len(p) \in 1..Len(p) /\ Len(p) + 1 # 1 /\ Len(p) + 1 - 1 = Len(p)
    BY <1>1, <1>3
  <2>2. s[Len(p) + 1].first = s[Len(p)].first + s[Len(p)].records
    BY <1>1, <2>1 DEF Gapless
  <2>3. QED
    BY <1>1, <1>3, <2>1, <2>2 DEF End
<1>4. QED
  BY <1>2, <1>3

\* A stream the entry point accepts has no gap.
LEMMA CanonicalIsGapless ==
  ASSUME NEW s \in Seq(Batches), Canonical(s)
  PROVE  s # <<>> /\ Gapless(s)
<1>1. ASSUME NEW i \in 1..Len(s), i # 1
      PROVE  s[i].first = s[i - 1].first + s[i - 1].records
  <2>1. i - 1 \in 1..(Len(s) - 1) /\ (i - 1) + 1 = i
    BY <1>1
  <2>2. QED
    BY <2>1 DEF Canonical
<1>2. QED
  BY <1>1 DEF Canonical, Gapless

\* The end of a sequence of batches is a count.
LEMMA EndIsNat ==
  ASSUME NEW s \in Seq(Batches)
  PROVE  End(s) \in Nat
<1>1. CASE s = <<>>
  BY <1>1 DEF End
<1>2. CASE s # <<>>
  <2>1. s[Len(s)] \in Batches
    BY <1>2
  <2>2. s[Len(s)].first \in Nat /\ s[Len(s)].records \in Nat
    BY <2>1, BoundsAssumption DEF Batches, MaxTotal
  <2>3. QED
    BY <1>2, <2>2 DEF End
<1>3. QED
  BY <1>1, <1>2

-----------------------------------------------------------------------------
(* Every step keeps the invariant.                                         *)

\* A run that ends without success keeps what its sinks hold.
LEMMA FailedKeeps ==
  ASSUME StageInv, pc # "done", pc' = "done",
         status' \in {"failed", "cancelled", "invalid", "mismatch"},
         UNCHANGED <<mode, script, replay, verified, completed, prefix, batch, at, received>>,
         plan' \in [batches : Nat, records : Nat],
         \/ checkpoint' = checkpoint
         \/ checkpoint'.prefix = prefix
         \/ /\ Continues /\ \A k \in Sinks : received[k] = Append(prefix, batch)
            /\ checkpoint'.prefix = Append(prefix, batch)
  PROVE  StageInv'
<1>1. RunTypes'
  BY DEF StageInv, RunTypes
<1>2. Holdings'
  BY DEF StageInv, Holdings, Settled, Continues
<1>3. Scripted' /\ Rounds'
  BY DEF Scripted, Rounds
<1>4. Reported'
  BY DEF StageInv, Reported, Continues
<1>5. Replayed'
  BY DEF StageInv, Replayed
<1>6. QED
  BY <1>1, <1>2, <1>3, <1>4, <1>5 DEF StageInv

\* A run starts with empty sinks.
LEMMA StartKeeps ==
  ASSUME NEW m \in {"stream", "producer"}, NEW r, NEW s \in Seq(Batches),
         NEW p \in [batches : Nat, records : Nat], Reset(m, r, s, p),
         m = "stream" => r = NoReplay,
         pc' \in {"prepare", "begin", "done"}, status' \in {"none", "invalid"},
         pc' # "done" => status' = "none",
         pc' = "prepare" => m = "producer",
         pc' = "begin" =>
           /\ m = "stream" /\ s # <<>> /\ Gapless(s)
           /\ p = [batches |-> Len(s), records |-> End(s)]
  PROVE  StageInv'
<1> USE SinksAssumption
<1>0. /\ mode' = m /\ script' = s /\ plan' = p /\ replay' = r /\ verified' = FALSE
      /\ completed' = 0 /\ prefix' = <<>> /\ at' = 0 /\ sealed' = {}
      /\ received' = [k \in Sinks |-> <<>>] /\ checkpoint'.prefix = <<>>
  BY DEF Reset, Checkpoint
<1>1. RunTypes'
  BY <1>0 DEF RunTypes
<1>2. Holdings'
  BY <1>0 DEF Holdings, Gapless, End
<1>3. Scripted'
  BY <1>0 DEF Scripted
<1>4. Rounds'
  BY <1>0 DEF Rounds
<1>5. Reported' /\ Replayed'
  BY <1>0 DEF Reported, Replayed
<1>6. QED
  BY <1>1, <1>2, <1>3, <1>4, <1>5 DEF StageInv

\* A step that leaves the staged batches alone and is between two batches
\* before and after it.
LEMMA SettledKeeps ==
  ASSUME RunInv, StageInv,
         pc \notin {"stage", "done"},
         pc' \in {"observe", "begin", "next", "finish", "seal"},
         pc' = "observe" => pc = "prepare",
         status' = status, plan' \in [batches : Nat, records : Nat],
         UNCHANGED <<mode, script, replay, completed, prefix, received>>,
         at' \in 0..NSinks
  PROVE  RunTypes' /\ Holdings'
<1>1. RunTypes'
  BY DEF StageInv, RunTypes
<1>2. Holdings'
  BY DEF StageInv, RunTypes, Holdings, Settled, Continues
<1>3. QED
  BY <1>1, <1>2

LEMMA StageInvStep ==
  ASSUME RunInv, StageInv, [Next]_vars
  PROVE  StageInv'
<1> USE SinksAssumption DEF calls
<1>1. CASE UNCHANGED vars
  BY <1>1 DEF vars, StageInv, RunTypes, Holdings, Settled, Continues, Scripted,
              Rounds, Reported, Replayed
<1>2. ASSUME NEW s \in Streams, StageStream(s) PROVE StageInv'
  <2>1. s \in Seq(Batches) /\ Canonical(s)
    <3>1. PICK n \in 1..MaxBatches : s \in [1..n -> Batches]
      BY DEF Streams
    <3>2. n \in Nat
      BY <3>1, BoundsAssumption
    <3>3. s \in Seq(Batches)
      BY <3>1, <3>2
    <3>4. QED
      BY <3>3 DEF Streams
  <2>2. s # <<>> /\ Gapless(s) /\ End(s) = s[Len(s)].first + s[Len(s)].records
    BY <2>1, CanonicalIsGapless DEF End
  <2>3. [batches |-> Len(s), records |-> End(s)] \in [batches : Nat, records : Nat]
    BY <2>1, EndIsNat
  <2>4. QED
    BY <1>2, <2>1, <2>2, <2>3, StartKeeps DEF StageStream
<1>3. ASSUME NEW m \in {"stream", "producer"}, RefuseArguments(m) PROVE StageInv'
  <2>1. NoPlan \in [batches : Nat, records : Nat] /\ <<>> \in Seq(Batches)
    BY DEF NoPlan
  <2>2. QED
    BY <1>3, <2>1, StartKeeps DEF RefuseArguments
<1>4. ASSUME NEW r, RunProducer(r) PROVE StageInv'
  <2>1. NoPlan \in [batches : Nat, records : Nat] /\ <<>> \in Seq(Batches)
    BY DEF NoPlan
  <2>2. QED
    BY <1>4, <2>1, StartKeeps DEF RunProducer
<1>5. ASSUME NEW p \in Plans, Prepared(p) PROVE StageInv'
  <2>1. /\ pc = "prepare" /\ pc' = "observe" /\ plan' = p /\ prefix = <<>>
        /\ mode = "producer" /\ checkpoint'.prefix = <<>> /\ status = "none"
        /\ status' = status
        /\ p \in [batches : Nat, records : Nat]
    BY <1>5, BoundsAssumption
       DEF Prepared, StageInv, RunTypes, Rounds, Checkpoint, Plans, MaxTotal
  <2>2. RunTypes' /\ Holdings'
    BY <1>5, <2>1, SettledKeeps DEF Prepared, StageInv, RunTypes
  <2>3. Scripted' /\ Rounds'
    BY <1>5, <2>1 DEF Prepared, StageInv, Scripted, Rounds
  <2>4. Reported'
    BY <1>5, <2>1 DEF Prepared, Reported
  <2>5. Replayed'
    <3>1. verified' => Len(replay.prefix) = 0
      <4>1. ASSUME verified' PROVE replay = Checkpoint(p, <<>>, Initial)
        BY <1>5, <4>1, Zenon DEF Prepared
      <4>2. Checkpoint(p, <<>>, Initial).prefix = <<>>
        BY DEF Checkpoint
      <4>3. QED
        BY <4>1, <4>2
    <3>2. replay # NoReplay => plan' = replay.plan
      BY <1>5 DEF Prepared, ReplayValid
    <3>3. QED
      BY <1>5, <2>1, <3>1, <3>2 DEF Prepared, Replayed
  <2>6. QED
    BY <2>2, <2>3, <2>4, <2>5 DEF StageInv
<1>6. ASSUME NEW p \in Plans, PrepareFails(p) \/ ReplayRefused(p) PROVE StageInv'
  <2>1. p \in [batches : Nat, records : Nat]
    BY BoundsAssumption DEF Plans, MaxTotal
  <2>2. prefix = <<>> /\ pc = "prepare"
    BY <1>6 DEF PrepareFails, ReplayRefused, StageInv, Rounds
  <2>3. /\ pc' = "done" /\ status' \in {"failed", "invalid"} /\ plan' = p
        /\ UNCHANGED <<mode, script, replay, verified, completed, prefix, batch, at, received>>
        /\ checkpoint' = checkpoint \/ checkpoint'.prefix = <<>>
    BY <1>6 DEF PrepareFails, ReplayRefused, Fail, Checkpoint
  <2>4. QED
    BY <2>1, <2>2, <2>3, FailedKeeps
<1>7. CASE ObserveInitial
  <2>1. /\ pc = "observe" /\ pc' = "begin" /\ mode = "producer" /\ prefix = <<>>
        /\ status = "none"
        /\ UNCHANGED <<mode, script, plan, replay, verified, completed, prefix, batch, at,
                       begun, began, sealed, aborts, checkpoint, received, status>>
    BY <1>7 DEF ObserveInitial, StageInv, RunTypes, Rounds
  <2>2. RunTypes' /\ Holdings'
    BY <2>1, SettledKeeps DEF StageInv, RunTypes
  <2>3. Scripted' /\ Rounds' /\ Reported' /\ Replayed'
    BY <2>1 DEF StageInv, Scripted, Rounds, Reported, Replayed
  <2>4. QED
    BY <2>2, <2>3 DEF StageInv
<1>8. CASE Cancel \/ NextFails \/ StageFails \/ FinishFails \/ SealFails \/ BeginFails
  <2>1. /\ pc # "done" /\ pc' = "done" /\ status' \in {"failed", "cancelled"}
        /\ UNCHANGED <<mode, script, plan, replay, verified, completed, prefix, batch, at,
                       received, checkpoint>>
    BY <1>8 DEF Cancel, NextFails, More, StageFails, FinishFails, SealFails, BeginFails, Fail
  <2>2. plan' \in [batches : Nat, records : Nat]
    BY <2>1 DEF StageInv, RunTypes
  <2>3. QED
    BY <2>1, <2>2, FailedKeeps
<1>9. CASE BeginSink
  <2>1. /\ pc = "begin" /\ pc' \in {"begin", "next"} /\ (pc' = "next" => begun' = NSinks)
        /\ UNCHANGED <<mode, script, plan, replay, verified, completed, prefix, batch, at,
                       sealed, aborts, checkpoint, received, status>>
        /\ status = "none"
    BY <1>9 DEF BeginSink, StageInv, RunTypes
  <2>2. RunTypes' /\ Holdings'
    BY <2>1, SettledKeeps DEF StageInv, RunTypes
  <2>3. Scripted' /\ Rounds' /\ Reported' /\ Replayed'
    BY <2>1 DEF StageInv, Scripted, Rounds, Reported, Replayed
  <2>4. QED
    BY <2>2, <2>3 DEF StageInv
<1>10. ASSUME NEW b \in Batches, NextBatch(b) PROVE StageInv'
  <2>1. /\ pc = "next" /\ pc' = "stage" /\ Len(prefix) < plan.batches
        /\ batch' = b /\ completed' = completed + b.records /\ at' = 0
        /\ UNCHANGED <<mode, script, plan, replay, verified, prefix, begun, began, sealed,
                       aborts, checkpoint, received, status>>
        /\ status = "none" /\ mode \in {"stream", "producer"}
    BY <1>10 DEF NextBatch, More, StageInv, RunTypes, RunInv
  <2>2. completed = End(prefix) /\ \A k \in Sinks : received[k] = prefix
    BY <2>1 DEF StageInv, Holdings, Settled
  <2>3. b.records \in Nat
    BY BoundsAssumption DEF Batches
  <2>4. mode = "stream" => b = script[Len(prefix) + 1] /\ Len(prefix) < Len(script)
    BY <1>10, <2>1 DEF NextBatch, StageInv, Scripted
  <2>5. b.first = End(prefix)
    <3>1. CASE mode = "producer"
      BY <1>10, <2>2, <3>1 DEF NextBatch, Accepts
    <3>2. CASE mode = "stream"
      BY <2>1, <2>4, <3>2, NextOfGapless DEF StageInv, RunTypes, Scripted
    <3>3. QED
      BY <2>1, <3>1, <3>2
  <2>6. RunTypes'
    BY <2>1, <2>3 DEF StageInv, RunTypes
  <2>7. Holdings'
    BY <2>1, <2>2, <2>5 DEF StageInv, RunTypes, Holdings, Settled, Continues, Sinks
  <2>8. Scripted'
    BY <2>1, <2>4 DEF StageInv, Scripted
  <2>9. Rounds' /\ Replayed'
    BY <2>1 DEF StageInv, Rounds, Replayed
  <2>10. Reported'
    BY <2>1 DEF StageInv, Reported
  <2>11. QED
    BY <2>6, <2>7, <2>8, <2>9, <2>10 DEF StageInv
<1>11. CASE StageSink
  <2>1. /\ pc = "stage" /\ pc' = "stage" /\ at + 1 \in Sinks /\ at' = at + 1
        /\ received' = [received EXCEPT ![at + 1] = Append(received[at + 1], batch)]
        /\ UNCHANGED <<mode, script, plan, replay, verified, completed, prefix, batch, begun,
                       began, sealed, aborts, checkpoint, status>>
        /\ status = "none" /\ at \in 0..NSinks
    BY <1>11 DEF StageSink, StageInv, RunTypes, Sinks
  <2>2. Append(prefix, batch) \in Seq(Batches) /\ received[at + 1] = prefix
    BY <2>1 DEF StageInv, RunTypes, Holdings, Continues, Sinks
  <2>3. RunTypes'
    BY <2>1, <2>2 DEF StageInv, RunTypes, Sinks
  <2>4. \A k \in Sinks : received'[k] = IF k <= at' THEN Append(prefix, batch) ELSE prefix
    <3>1. ASSUME NEW k \in Sinks
          PROVE  received'[k] = IF k <= at' THEN Append(prefix, batch) ELSE prefix
      <4>1. received \in [Sinks -> Seq(Batches)]
        BY DEF StageInv, RunTypes
      <4>2. received[k] = IF k <= at THEN Append(prefix, batch) ELSE prefix
        BY <2>1 DEF StageInv, Holdings
      <4>3. CASE k = at + 1
        BY <2>1, <2>2, <4>1, <4>3
      <4>4. CASE k # at + 1
        <5>1. received'[k] = received[k] /\ (k <= at' <=> k <= at)
          BY <2>1, <4>1, <4>4 DEF Sinks
        <5>2. QED
          BY <4>2, <5>1
      <4>5. QED
        BY <4>3, <4>4
    <3>2. QED
      BY <3>1
  <2>5. Holdings'
    BY <2>1, <2>4 DEF StageInv, Holdings, Settled, Continues
  <2>6. Scripted' /\ Rounds' /\ Replayed'
    BY <2>1 DEF StageInv, Scripted, Rounds, Replayed
  <2>7. Reported'
    BY <2>1 DEF StageInv, Reported
  <2>8. QED
    BY <2>3, <2>5, <2>6, <2>7 DEF StageInv
<1>12. ASSUME NEW c \in Cursors, BatchDone(c) PROVE StageInv'
  <2>1. /\ pc = "stage" /\ pc' = "next" /\ at = NSinks /\ prefix' = Append(prefix, batch)
        /\ UNCHANGED <<mode, script, plan, replay, completed, batch, at, begun, began, sealed,
                       aborts, received, status>>
        /\ status = "none" /\ mode \in {"stream", "producer"}
        /\ prefix \in Seq(Batches)
    BY <1>12 DEF BatchDone, StageInv, RunTypes, RunInv
  <2>2. Continues /\ \A k \in Sinks : received[k] = Append(prefix, batch)
    BY <2>1 DEF StageInv, Holdings, Sinks
  <2>3. /\ Gapless(prefix') /\ prefix' \in Seq(Batches)
        /\ End(prefix') = batch.first + batch.records
    BY <2>1, <2>2, AppendGapless DEF StageInv, Holdings, Continues
  <2>4. completed' = End(prefix')
    BY <2>1, <2>2, <2>3 DEF StageInv, Holdings, Continues
  <2>5. /\ Len(prefix') = Len(prefix) + 1 /\ prefix'[Len(prefix) + 1] = batch
        /\ \A i \in 1..Len(prefix) : prefix'[i] = prefix[i]
        /\ Len(prefix) \in Nat
    BY <2>1, <2>2 DEF Continues
  <2>6. RunTypes'
    BY <2>1, <2>3 DEF StageInv, RunTypes
  <2>7. Holdings'
    BY <2>1, <2>2, <2>3, <2>4 DEF Holdings, Settled
  <2>8. Scripted'
    <3>1. CASE mode = "stream"
      <4>1. /\ Len(prefix) < Len(script) /\ batch = script[Len(prefix) + 1]
            /\ \A i \in 1..Len(prefix) : prefix[i] = script[i]
            /\ Len(script) \in Nat
        BY <2>1, <3>1 DEF StageInv, Scripted, RunTypes
      <4>2. Len(prefix') <= Len(script) /\ \A i \in 1..Len(prefix') : prefix'[i] = script[i]
        BY <2>5, <4>1
      <4>3. QED
        BY <2>1, <3>1, <4>2 DEF StageInv, Scripted
    <3>2. QED
      BY <2>1, <3>1 DEF Scripted
  <2>9. Rounds'
    BY <2>1 DEF StageInv, Rounds
  <2>10. Reported'
    BY <1>12, <2>1 DEF BatchDone, Reported, NextCheckpoint, Checkpoint
  <2>11. Replayed'
    <3>1. ASSUME verified'
          PROVE  /\ Len(replay.prefix) \in 0..Len(prefix')
                 /\ \A i \in 1..Len(replay.prefix) : prefix'[i] = replay.prefix[i]
      <4>1. CASE verified
        BY <2>5, <4>1 DEF StageInv, Replayed
      <4>2. CASE mode = "producer" /\ ReplayDue
        <5>1. replay.prefix = prefix'
          BY <1>12, <2>1, <4>2 DEF BatchDone, ReplayAgrees, NextCheckpoint, Checkpoint
        <5>2. QED
          BY <2>3, <5>1
      <4>3. QED
        BY <1>12, <3>1, <4>1, <4>2 DEF BatchDone
    <3>2. QED
      BY <2>1, <3>1 DEF StageInv, Replayed
  <2>12. QED
    BY <2>6, <2>7, <2>8, <2>9, <2>10, <2>11 DEF StageInv
<1>13. ASSUME NEW c \in Cursors, ReplayMismatch(c) PROVE StageInv'
  <2>1. /\ pc = "stage" /\ pc' = "done" /\ status' = "mismatch" /\ at = NSinks
        /\ checkpoint'.prefix = Append(prefix, batch)
        /\ UNCHANGED <<mode, script, plan, replay, verified, completed, prefix, batch, at, received>>
    BY <1>13 DEF ReplayMismatch, Fail, NextCheckpoint, Checkpoint
  <2>2. Continues /\ \A k \in Sinks : received[k] = Append(prefix, batch)
    BY <2>1 DEF StageInv, Holdings, Sinks
  <2>3. plan' \in [batches : Nat, records : Nat]
    BY <2>1 DEF StageInv, RunTypes
  <2>4. QED
    BY <2>1, <2>2, <2>3, FailedKeeps
<1>14. CASE EndOfBatches
  <2>1. /\ pc = "next" /\ Len(prefix) = plan.batches /\ status = "none"
        /\ UNCHANGED <<mode, script, plan, replay, verified, completed, prefix, batch,
                       checkpoint, received>>
        /\ plan \in [batches : Nat, records : Nat] /\ at \in 0..NSinks
    BY <1>14 DEF EndOfBatches, StageInv, RunTypes
  <2>2. CASE Fail("failed", begun) /\ UNCHANGED at
    <3>1. pc' = "done" /\ status' = "failed" /\ at' = at
      BY <2>2 DEF Fail
    <3>2. QED
      BY <2>1, <3>1, FailedKeeps
  <2>3. CASE /\ pc' \in {"seal", "finish"} /\ (pc' = "seal" => at' = 0)
             /\ at' \in 0..NSinks
             /\ (mode = "producer" => PlanFulfilled) /\ (pc' = "finish" => mode = "producer")
             /\ UNCHANGED <<begun, producer, calls, status, effect>>
    <3>1. RunTypes' /\ Holdings'
      BY <2>1, <2>3, SettledKeeps
    <3>2. completed = plan.records
      <4>1. CASE mode = "producer"
        BY <2>3, <4>1 DEF PlanFulfilled
      <4>2. CASE mode = "stream"
        <5>1. /\ Len(prefix) = Len(script) /\ script # <<>>
              /\ \A i \in 1..Len(prefix) : prefix[i] = script[i]
              /\ plan.records = End(script) /\ prefix \in Seq(Batches) /\ script \in Seq(Batches)
          BY <2>1, <4>2 DEF StageInv, Scripted, RunTypes
        <5>2. prefix # <<>> /\ prefix[Len(prefix)] = script[Len(script)]
          BY <5>1
        <5>3. End(prefix) = End(script)
          BY <5>1, <5>2 DEF End
        <5>4. QED
          BY <2>1, <5>1, <5>3 DEF StageInv, Holdings, Settled
      <4>3. QED
        BY <4>1, <4>2 DEF RunInv
    <3>3. Scripted'
      BY <2>1, <2>3 DEF StageInv, Scripted
    <3>4. Rounds'
      <4>1. pc' = "seal" => sealed' = 1..at' /\ at' < NSinks
        BY <2>1, <2>3 DEF StageInv, Rounds
      <4>2. begun' = NSinks /\ status' = "none"
        BY <2>1, <2>3 DEF StageInv, Rounds
      <4>3. Len(prefix') = plan'.batches /\ completed' = plan'.records
        BY <2>1, <3>2
      <4>4. sealed' = {}
        BY <2>1, <2>3 DEF StageInv, Rounds
      <4>5. QED
        BY <2>3, <4>1, <4>2, <4>3, <4>4 DEF Rounds
    <3>5. Reported' /\ Replayed'
      BY <2>1, <2>3 DEF StageInv, Reported, Replayed, PlanFulfilled, RunInv
    <3>6. QED
      BY <3>1, <3>3, <3>4, <3>5 DEF StageInv
  <2>4. QED
    BY <1>14, <2>1, <2>2, <2>3 DEF EndOfBatches
<1>15. CASE Finish
  <2>1. /\ pc = "finish" /\ pc' = "seal" /\ at' = 0 /\ status = "none" /\ mode = "producer"
        /\ UNCHANGED <<mode, script, plan, replay, verified, completed, prefix, batch, begun,
                       began, sealed, aborts, checkpoint, received, status>>
    BY <1>15 DEF Finish, StageInv, RunTypes, RunInv
  <2>2. RunTypes' /\ Holdings'
    BY <2>1, SettledKeeps DEF StageInv, RunTypes
  <2>3. Scripted' /\ Rounds' /\ Reported' /\ Replayed'
    BY <2>1 DEF StageInv, Scripted, Rounds, Reported, Replayed
  <2>4. QED
    BY <2>2, <2>3 DEF StageInv
<1>16. CASE SealSink
  <2>1. /\ pc = "seal" /\ at' = at + 1 /\ sealed = 1..at /\ at \in 0..NSinks /\ at < NSinks
        /\ sealed' = sealed \cup {at + 1} /\ status = "none" /\ begun = NSinks
        /\ began = 1..begun /\ \A k \in Sinks : aborts[k] = 0
        /\ UNCHANGED <<mode, script, plan, replay, verified, completed, prefix, batch, begun,
                       began, aborts, checkpoint, received>>
    BY <1>16 DEF SealSink, StageInv, RunTypes, Rounds, RunInv
  <2>2. sealed' = 1..at' /\ at' \in 0..NSinks
    BY <2>1
  <2>3. CASE pc' = "seal" /\ at + 1 # NSinks /\ status' = status
    <3>1. RunTypes' /\ Holdings'
      BY <2>1, <2>2, <2>3, SettledKeeps DEF StageInv, RunTypes
    <3>2. Scripted' /\ Reported' /\ Replayed'
      BY <2>1, <2>3 DEF StageInv, Scripted, Reported, Replayed
    <3>3. Rounds'
      BY <2>1, <2>2, <2>3 DEF StageInv, Rounds
    <3>4. QED
      BY <3>1, <3>2, <3>3 DEF StageInv
  <2>4. CASE at + 1 = NSinks /\ pc' = "done" /\ status' = "ok"
    <3>1. RunTypes'
      BY <2>1, <2>2, <2>4 DEF StageInv, RunTypes
    <3>2. Holdings'
      BY <2>1, <2>4 DEF StageInv, Holdings, Settled
    <3>3. Rounds'
      BY <2>1, <2>2, <2>4 DEF StageInv, Rounds, Sinks
    <3>4. Scripted' /\ Reported' /\ Replayed'
      BY <2>1, <2>4 DEF StageInv, Scripted, Reported, Replayed
    <3>5. QED
      BY <3>1, <3>2, <3>3, <3>4 DEF StageInv
  <2>5. QED
    BY <1>16, <2>1, <2>3, <2>4 DEF SealSink
<1>17. QED
  BY <1>1, <1>2, <1>3, <1>4, <1>5, <1>6, <1>7, <1>8, <1>9, <1>10, <1>11,
     <1>12, <1>13, <1>14, <1>15, <1>16 DEF Next

\* The whole invariant of a run.
LEMMA RunIsInvariant == Spec => [](RunInv /\ StageInv)
<1>1. Init => RunInv /\ StageInv
  <2>1. ASSUME Init PROVE RunInv
    BY <2>1, SinksAssumption DEF Init, RunInv, FailureUndoesAll, Done, Sinks
  <2>2. ASSUME Init PROVE RunTypes /\ Scripted /\ Rounds /\ Reported /\ Replayed
    BY <2>2, SinksAssumption
       DEF Init, RunTypes, NoPlan, Scripted, Rounds, Reported, Replayed, Checkpoint, Sinks
  <2>3. ASSUME Init PROVE Holdings
    BY <2>3 DEF Init, Holdings, Gapless, End, Settled
  <2>4. QED
    BY <2>1, <2>2, <2>3 DEF StageInv
<1>2. RunInv /\ StageInv /\ [Next]_vars => (RunInv /\ StageInv)'
  BY RunInvStep, StageInvStep
<1>3. QED
  BY <1>1, <1>2, PTL DEF Spec

\* A receipt with status OK: every sink began, received the batches of the plan
\* and sealed, and none was aborted.
THEOREM SuccessIsWhole == Spec => []SuccessIsComplete
<1>1. RunInv /\ StageInv => SuccessIsComplete
  BY DEF StageInv, Rounds, Holdings, Settled, SuccessIsComplete, Done
<1>2. QED
  BY <1>1, RunIsInvariant, PTL

\* What observe_progress reports has been staged to every sink.
THEOREM ProgressIsStaged == Spec => []CheckpointIsStaged
<1>1. RunInv /\ StageInv => CheckpointIsStaged
  <2> SUFFICES ASSUME RunInv, StageInv, mode = "producer", NEW k \in Sinks
               PROVE  /\ Len(checkpoint.prefix) <= Len(received[k])
                      /\ \A i \in 1..Len(checkpoint.prefix) :
                           received[k][i] = checkpoint.prefix[i]
    BY DEF CheckpointIsStaged
  <2>1. prefix \in Seq(Batches) /\ received[k] \in Seq(Batches)
    BY DEF StageInv, RunTypes
  <2>2. CASE checkpoint.prefix = prefix /\ received[k] = prefix
    BY <2>1, <2>2
  <2>3. CASE checkpoint.prefix = prefix /\ Continues /\ received[k] = Append(prefix, batch)
    BY <2>1, <2>3 DEF Continues
  <2>4. CASE checkpoint.prefix = received[k]
    BY <2>1, <2>4
  <2>5. QED
    BY <2>2, <2>3, <2>4 DEF StageInv, Reported, Holdings
<1>2. QED
  BY <1>1, RunIsInvariant, PTL

\* Each sink receives one gapless sequence of records from ordinal 0, whatever
\* fails and whoever makes the batches.
THEOREM SinksSeeNoGap == Spec => []ReceivedIsGapless
<1>1. RunInv /\ StageInv => ReceivedIsGapless
  <2> SUFFICES ASSUME RunInv, StageInv, NEW k \in Sinks
               PROVE  Gapless(received[k])
    BY DEF ReceivedIsGapless, Gapless
  <2>1. CASE received[k] = prefix
    BY <2>1 DEF StageInv, Holdings
  <2>2. CASE Continues /\ received[k] = Append(prefix, batch)
    BY <2>2, AppendGapless DEF StageInv, RunTypes, Holdings, Continues
  <2>3. QED
    BY <2>1, <2>2 DEF StageInv, Holdings
<1>2. QED
  BY <1>1, RunIsInvariant, PTL

\* A replay that succeeds had the checkpoint's plan and produced its batches
\* again: run_producer compares the whole prefix before it goes on.
THEOREM ReplayIsFaithful == Spec => []ReplayReproduces
<1>1. RunInv /\ StageInv => ReplayReproduces
  BY DEF StageInv, Replayed, ReplayReproduces, Done
<1>2. QED
  BY <1>1, RunIsInvariant, PTL

-----------------------------------------------------------------------------
(* Types.                                                                  *)

\* How a failing run leaves the counters of its sinks.
LEMMA FailTypes ==
  ASSUME RunInv, TypeOK, pc # "done", NEW s, NEW b \in 0..NSinks, Fail(s, b),
         s \in {"failed", "cancelled", "invalid", "mismatch"}
  PROVE  /\ pc' = "done" /\ begun' \in 0..NSinks /\ aborts' \in [Sinks -> 0..1]
         /\ began' \in SUBSET Sinks /\ sealed' \in SUBSET Sinks
         /\ producer' \in {"idle", "prepared", "finished", "aborted"}
         /\ status' = s /\ effect' = "none"
<1>1. \A k \in Sinks : aborts[k] = 0
  BY DEF RunInv
<1>2. 1..b \subseteq Sinks
  BY SinksAssumption DEF Sinks
<1>3. QED
  BY <1>1, <1>2 DEF Fail, TypeOK

LEMMA TypeStep ==
  ASSUME RunInv, StageInv, StageInv', TypeOK, [Next]_vars
  PROVE  TypeOK'
<1> USE SinksAssumption, BoundsAssumption DEF calls
<1>0. /\ pc' \in {"idle", "prepare", "observe", "begin", "next", "stage", "finish",
                   "seal", "done"}
      /\ completed' \in Nat /\ at' \in 0..NSinks
      /\ prefix' \in Seq(Batches) /\ script' \in Seq(Batches)
      /\ received' \in [Sinks -> Seq(Batches)]
  BY DEF StageInv, RunTypes
<1>1. CASE UNCHANGED vars
  BY <1>1 DEF vars, TypeOK
<1>2. ASSUME NEW m \in {"stream", "producer"}, NEW r, NEW s, NEW p, Reset(m, r, s, p),
             p \in [batches : 0..MaxBatches, records : Nat],
             producer' \in {"idle", "prepared"}, status' \in {"none", "invalid"}
      PROVE  TypeOK'
  <2>1. aborts' \in [Sinks -> 0..1] /\ began' \in SUBSET Sinks /\ sealed' \in SUBSET Sinks
    BY <1>2 DEF Reset
  <2>2. runs' \in 0..MaxRuns
    BY <1>2 DEF Reset, TypeOK
  <2>3. /\ plan' = p /\ begun' \in 0..NSinks /\ mode' = m /\ effect' = "none"
        /\ batch' \in Batches \cup {NoBatch}
    BY <1>2 DEF Reset
  <2>4. verified' \in BOOLEAN
    BY <1>2, Zenon DEF Reset
  <2>5. QED
    BY <1>0, <1>2, <2>1, <2>2, <2>3, <2>4 DEF TypeOK
<1>3. ASSUME NEW s \in Streams, StageStream(s) PROVE TypeOK'
  <2>1. PICK n \in 1..MaxBatches : s \in [1..n -> Batches]
    BY DEF Streams
  <2>2. n \in Nat /\ s \in Seq(Batches) /\ Len(s) = n /\ s[Len(s)] \in Batches
    BY <2>1
  <2>3. s[Len(s)].first \in Nat /\ s[Len(s)].records \in Nat
    BY <2>2 DEF Batches, MaxTotal
  <2>4. QED
    BY <1>2, <1>3, <2>2, <2>3 DEF StageStream
<1>4. ASSUME NEW m \in {"stream", "producer"}, RefuseArguments(m) PROVE TypeOK'
  <2>1. NoPlan \in [batches : 0..MaxBatches, records : Nat]
    BY DEF NoPlan
  <2>2. QED
    BY <1>2, <1>4, <2>1 DEF RefuseArguments
<1>5. ASSUME NEW r, RunProducer(r) PROVE TypeOK'
  <2>1. NoPlan \in [batches : 0..MaxBatches, records : Nat]
    BY DEF NoPlan
  <2>2. QED
    BY <1>2, <1>5, <2>1 DEF RunProducer
<1>6. ASSUME NEW p \in Plans, Prepared(p) PROVE TypeOK'
  <2>1. p \in [batches : 0..MaxBatches, records : Nat]
    BY DEF Plans, MaxTotal
  <2>2. verified' \in BOOLEAN
    BY <1>6, Zenon DEF Prepared
  <2>3. QED
    BY <1>0, <1>6, <2>1, <2>2 DEF Prepared, TypeOK
<1>7. ASSUME NEW p \in Plans, PrepareFails(p) \/ ReplayRefused(p) PROVE TypeOK'
  <2>1. p \in [batches : 0..MaxBatches, records : Nat] /\ 0 \in 0..NSinks
    BY DEF Plans, MaxTotal
  <2>2. pc # "done" /\ \E s \in {"failed", "invalid"} : Fail(s, 0)
    BY <1>7 DEF PrepareFails, ReplayRefused
  <2>3. QED
    BY <1>0, <1>7, <2>1, <2>2, FailTypes DEF PrepareFails, ReplayRefused, TypeOK
<1>8. CASE Cancel \/ NextFails \/ StageFails \/ FinishFails \/ SealFails \/ BeginFails
  <2>1. /\ pc # "done"
        /\ \E s \in {"failed", "cancelled"}, b \in {begun, begun + 1} : b <= NSinks /\ Fail(s, b)
    BY <1>8 DEF Cancel, NextFails, More, StageFails, FinishFails, SealFails, BeginFails, TypeOK
  <2>2. PICK s \in {"failed", "cancelled"}, b \in 0..NSinks : Fail(s, b)
    BY <2>1 DEF TypeOK
  <2>3. UNCHANGED <<runs, mode, plan, verified, batch>>
    BY <1>8 DEF Cancel, NextFails, StageFails, FinishFails, SealFails, BeginFails
  <2>4. QED
    BY <1>0, <2>1, <2>2, <2>3, FailTypes DEF TypeOK
<1>9. CASE ObserveInitial \/ StageSink \/ Finish
  BY <1>0, <1>9 DEF ObserveInitial, StageSink, Finish, TypeOK
<1>10. CASE BeginSink
  BY <1>0, <1>10 DEF BeginSink, TypeOK, Sinks
<1>11. ASSUME NEW b \in Batches, NextBatch(b) PROVE TypeOK'
  BY <1>0, <1>11 DEF NextBatch, TypeOK
<1>12. ASSUME NEW c \in Cursors, BatchDone(c) PROVE TypeOK'
  <2>1. verified' \in BOOLEAN
    BY <1>12, Zenon DEF BatchDone
  <2>2. QED
    BY <1>0, <1>12, <2>1 DEF BatchDone, TypeOK
<1>13. ASSUME NEW c \in Cursors, ReplayMismatch(c) PROVE TypeOK'
  <2>1. pc # "done" /\ Fail("mismatch", begun) /\ begun \in 0..NSinks
    BY <1>13 DEF ReplayMismatch, TypeOK
  <2>2. QED
    BY <1>0, <1>13, <2>1, FailTypes DEF ReplayMismatch, TypeOK
<1>14. CASE EndOfBatches
  <2>1. CASE Fail("failed", begun)
    <3>1. pc # "done" /\ begun \in 0..NSinks
      BY <1>14 DEF EndOfBatches, TypeOK
    <3>2. QED
      BY <1>0, <1>14, <2>1, <3>1, FailTypes DEF EndOfBatches, TypeOK
  <2>2. CASE UNCHANGED <<begun, producer, calls, status, effect>>
    BY <1>0, <1>14, <2>2 DEF EndOfBatches, TypeOK
  <2>3. QED
    BY <1>14, <2>1, <2>2 DEF EndOfBatches
<1>15. CASE SealSink
  <2>1. at + 1 \in Sinks
    BY <1>15 DEF SealSink, StageInv, Rounds, TypeOK, Sinks
  <2>2. QED
    BY <1>0, <1>15, <2>1 DEF SealSink, TypeOK
<1>16. QED
  BY <1>1, <1>3, <1>4, <1>5, <1>6, <1>7, <1>8, <1>9, <1>10, <1>11, <1>12,
     <1>13, <1>14, <1>15 DEF Next

\* Every variable of a run keeps its type; in particular no sink is told twice to
\* abort and no round of callbacks passes sink_count.
THEOREM TypeCorrect == Spec => []TypeOK
<1>1. ASSUME Init PROVE TypeOK
  <2>1. /\ aborts \in [Sinks -> 0..1] /\ began \in SUBSET Sinks /\ sealed \in SUBSET Sinks
        /\ received \in [Sinks -> Seq(Batches)]
    BY <1>1 DEF Init
  <2>2. /\ runs \in 0..MaxRuns /\ plan \in [batches : 0..MaxBatches, records : Nat]
        /\ at \in 0..NSinks /\ begun \in 0..NSinks
        /\ completed \in Nat /\ prefix \in Seq(Batches) /\ script \in Seq(Batches)
        /\ batch \in Batches \cup {NoBatch}
    BY <1>1, SinksAssumption, BoundsAssumption DEF Init, NoPlan
  <2>3. verified \in BOOLEAN
    BY <1>1, Zenon DEF Init
  <2>4. QED
    BY <1>1, <2>1, <2>2, <2>3 DEF Init, TypeOK
<1>2. TypeOK /\ (RunInv /\ StageInv) /\ (RunInv /\ StageInv)' /\ [Next]_vars => TypeOK'
  BY TypeStep
<1>3. QED
  BY <1>1, <1>2, RunIsInvariant, PTL DEF Spec
=============================================================================
