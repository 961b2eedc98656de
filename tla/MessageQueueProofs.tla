------------------------- MODULE MessageQueueProofs -------------------------
(***************************************************************************)
(* Proofs, for any capacity, any set of samples and any number of          *)
(* consumers, that the queue keeps exactly the newest samples, that its    *)
(* statistics add up, that no consumer sleeps on a non-empty queue, and    *)
(* that it implements SampleLog.                                           *)
(***************************************************************************)
EXTENDS MessageQueueHistory, SequenceTheorems, TLAPS

HInv == TypeOK /\ FreshestSuffix /\ StatisticsBalance /\ SleepOnlyWhenEmpty

-----------------------------------------------------------------------------
(* Suffixes of the log *)

\* Taking the head of a suffix leaves a suffix, and the head is the entry at
\* the cursor.
LEMMA SuffixTail ==
    ASSUME NEW S, NEW q \in Seq(S), NEW l \in Seq(S), SuffixOf(q, l), q # <<>>
    PROVE  /\ SuffixOf(Tail(q), l)
           /\ Tail(q) \in Seq(S)
           /\ Len(Tail(q)) = Len(q) - 1
           /\ Head(q) = l[Len(l) - Len(q) + 1]
           /\ Head(q) \in S
PROOF
<1>1. /\ Len(q) \in Nat /\ Len(l) \in Nat /\ Len(q) # 0
  BY EmptySeq, LenProperties
<1>2. /\ Tail(q) \in Seq(S) /\ Head(q) \in S
      /\ Len(Tail(q)) = Len(q) - 1
      /\ \A i \in 1..Len(Tail(q)) : Tail(q)[i] = q[i + 1]
  BY HeadTailProperties
<1>3. \A i \in 1..Len(Tail(q)) : Tail(q)[i] = l[Len(l) - Len(Tail(q)) + i]
  BY <1>1, <1>2 DEF SuffixOf
<1>4. Head(q) = q[1]
  OBVIOUS
<1> QED
  BY <1>1, <1>2, <1>3, <1>4 DEF SuffixOf

\* The same element appended to a suffix and to the log keeps the suffix.
LEMMA SuffixAppend ==
    ASSUME NEW S, NEW q \in Seq(S), NEW l \in Seq(S), SuffixOf(q, l), NEW x \in S
    PROVE  SuffixOf(Append(q, x), Append(l, x))
PROOF
<1> DEFINE qx == Append(q, x)
           lx == Append(l, x)
<1>1. /\ Len(q) \in Nat /\ Len(l) \in Nat /\ Len(q) <= Len(l)
      /\ \A i \in 1..Len(q) : q[i] = l[Len(l) - Len(q) + i]
  BY LenProperties DEF SuffixOf
<1>2. /\ Len(qx) = Len(q) + 1 /\ qx[Len(q) + 1] = x
      /\ \A i \in 1..Len(q) : qx[i] = q[i]
  BY AppendProperties
<1>3. /\ Len(lx) = Len(l) + 1 /\ lx[Len(l) + 1] = x
      /\ \A i \in 1..Len(l) : lx[i] = l[i]
  BY AppendProperties
<1> HIDE DEF qx, lx
<1>4. ASSUME NEW i \in 1..Len(qx)
      PROVE  qx[i] = lx[Len(lx) - Len(qx) + i]
  <2>1. CASE i = Len(q) + 1
    BY <1>1, <1>2, <1>3, <2>1
  <2>2. CASE i \in 1..Len(q)
    <3>1. /\ Len(l) - Len(q) + i \in 1..Len(l)
          /\ Len(lx) - Len(qx) + i = Len(l) - Len(q) + i
      BY <1>1, <1>2, <1>3, <2>2
    <3> QED
      BY <1>1, <1>2, <1>3, <2>2, <3>1
  <2> QED
    BY <1>1, <1>2, <2>1, <2>2
<1>5. SuffixOf(qx, lx)
  BY <1>1, <1>2, <1>3, <1>4 DEF SuffixOf
<1> QED
  BY <1>5 DEF qx, lx

-----------------------------------------------------------------------------
(* The inductive invariant *)

\* The queue starts empty with an empty log.
LEMMA HInitEstablishes == HInit => HInv
PROOF
  BY MessageQueueAssumption, EmptySeq
  DEF HInit, Init, HInv, TypeOK, FreshestSuffix, SuffixOf, StatisticsBalance,
      SleepOnlyWhenEmpty, Answers

\* put_sample, whether or not it has to drop the oldest sample.
LEMMA PutPreserves ==
    ASSUME HInv, NEW x \in Items, HPut(x)
    PROVE  HInv'
PROOF
<1> USE MessageQueueAssumption
<1> DEFINE kept == IF QueueFull THEN Tail(queue) ELSE queue
<1>1. /\ queue \in Seq(Items) /\ put_log \in Seq(Items)
      /\ Len(queue) \in Nat /\ Len(put_log) \in Nat
      /\ SuffixOf(queue, put_log) /\ Len(queue) <= MaxQueueSize
      /\ MaxQueueSize \in Nat \ {0}
  BY LenProperties DEF HInv, TypeOK, FreshestSuffix
<1>2. /\ kept \in Seq(Items)
      /\ SuffixOf(kept, put_log)
      /\ Len(kept) = IF QueueFull THEN Len(queue) - 1 ELSE Len(queue)
  <2>1. CASE QueueFull
    <3>1. queue # <<>>
      BY <1>1, <2>1, EmptySeq DEF QueueFull
    <3> QED
      BY <1>1, <2>1, <3>1, SuffixTail
  <2>2. CASE ~QueueFull
    BY <1>1, <2>2
  <2> QED
    BY <2>1, <2>2
<1>3. queue' = Append(kept, x) /\ put_log' = Append(put_log, x)
  BY DEF HPut, PutSample
<1> HIDE DEF kept
<1>4. /\ queue' \in Seq(Items) /\ put_log' \in Seq(Items)
      /\ Len(queue') = Len(kept) + 1 /\ Len(put_log') = Len(put_log) + 1
      /\ SuffixOf(queue', put_log')
  BY <1>1, <1>2, <1>3, AppendProperties, SuffixAppend
<1>5. TypeOK'
  BY <1>4 DEF HInv, TypeOK, HPut, PutSample, NotifyAll
<1>6. FreshestSuffix'
  BY <1>1, <1>2, <1>4 DEF FreshestSuffix, QueueFull
<1>7. StatisticsBalance'
  <2>1. /\ total_produced' = total_produced + 1
        /\ total_consumed' = total_consumed /\ cleared' = cleared
        /\ dropped_samples' = IF QueueFull THEN dropped_samples + 1 ELSE dropped_samples
    BY DEF HPut, PutSample
  <2>2. Len(queue') = IF QueueFull THEN Len(queue) ELSE Len(queue) + 1
    BY <1>1, <1>2, <1>4
  <2>3. /\ total_produced = Len(put_log)
        /\ total_produced = total_consumed + dropped_samples + cleared + Len(queue)
    BY DEF HInv, StatisticsBalance
  <2>4. total_consumed \in Nat /\ dropped_samples \in Nat /\ cleared \in Nat
    BY DEF HInv, TypeOK
  <2>5. total_produced' = total_consumed' + dropped_samples' + cleared' + Len(queue')
    <3>1. CASE QueueFull
      BY <1>1, <2>1, <2>2, <2>3, <2>4, <3>1
    <3>2. CASE ~QueueFull
      BY <1>1, <2>1, <2>2, <2>3, <2>4, <3>2
    <3> QED
      BY <3>1, <3>2
  <2> QED
    BY <1>4, <2>1, <2>3, <2>5 DEF StatisticsBalance
<1>8. SleepOnlyWhenEmpty'
  BY DEF SleepOnlyWhenEmpty, HPut, PutSample, NotifyAll
<1> QED
  BY <1>5, <1>6, <1>7, <1>8 DEF HInv

\* get_sample: the call, and its return to the wait loop when notified.
LEMMA GetPreserves ==
    ASSUME HInv, NEW c \in Consumers, HGet(c)
    PROVE  HInv'
PROOF
<1> USE MessageQueueAssumption
<1>1. /\ queue \in Seq(Items) /\ put_log \in Seq(Items)
      /\ Len(queue) \in Nat /\ SuffixOf(queue, put_log)
      /\ waiting' \in {waiting, waiting \cup {c}}
      /\ woken' \subseteq woken
      /\ UNCHANGED <<put_log, cleared>>
      /\ ReturnSample(c) \/ SleepUntilNotified(c)
      /\ ReturnSample(c) => waiting' = waiting
  BY LenProperties
  DEF HInv, TypeOK, FreshestSuffix, HGet, GetSample, ResumeGetSample, SleepUntilNotified,
      ReturnSample
<1>2. CASE queue # <<>> /\ ReturnSample(c)
  <2>1. /\ queue' = Tail(queue)
        /\ total_consumed' = total_consumed + 1
        /\ reply' = [reply EXCEPT ![c] = Head(queue)]
        /\ UNCHANGED <<val_queue, running, current_param_version, total_produced, dropped_samples>>
    BY <1>2 DEF ReturnSample
  <2>a. /\ queue' \in Seq(Items)
        /\ Len(queue') = Len(queue) - 1
        /\ SuffixOf(queue', put_log')
        /\ Head(queue) \in Items
    BY <1>1, <1>2, <2>1, SuffixTail
  <2>2. TypeOK'
    BY <1>1, <2>1, <2>a DEF HInv, TypeOK, Answers
  <2>3. FreshestSuffix'
    BY <1>1, <2>a, MessageQueueAssumption DEF HInv, FreshestSuffix
  <2>4. StatisticsBalance'
    <3>1. /\ total_produced = Len(put_log)
          /\ total_produced = total_consumed + dropped_samples + cleared + Len(queue)
          /\ total_consumed \in Nat /\ dropped_samples \in Nat /\ cleared \in Nat
      BY DEF HInv, TypeOK, StatisticsBalance
    <3> QED
      BY <1>1, <2>1, <2>a, <3>1 DEF StatisticsBalance
  <2>5. SleepOnlyWhenEmpty'
    BY <1>1, <1>2 DEF HInv, SleepOnlyWhenEmpty
  <2> QED
    BY <2>2, <2>3, <2>4, <2>5 DEF HInv
<1>3. CASE queue = <<>>
  <2>1. /\ UNCHANGED <<queueVars, val_queue, running, current_param_version, put_log, cleared>>
        /\ reply' = [reply EXCEPT ![c] = NoReply] \/ reply' = [reply EXCEPT ![c] = Closed]
        /\ waiting' = waiting \/ running
    BY <1>1, <1>3 DEF ReturnSample, SleepUntilNotified
  <2>2. TypeOK'
    BY <1>1, <2>1 DEF HInv, TypeOK, Answers, queueVars
  <2>3. FreshestSuffix' /\ StatisticsBalance'
    BY <2>1 DEF HInv, FreshestSuffix, StatisticsBalance, queueVars
  <2>4. SleepOnlyWhenEmpty'
    BY <1>1, <1>3, <2>1 DEF HInv, SleepOnlyWhenEmpty, queueVars
  <2> QED
    BY <2>2, <2>3, <2>4 DEF HInv
<1> QED
  BY <1>1, <1>2, <1>3 DEF SleepUntilNotified

\* clear_queue, shutdown and the operations that leave the samples alone.
LEMMA OtherPreserves ==
    ASSUME HInv, HClear \/ HShutdown \/ HOther
    PROVE  HInv'
PROOF
<1> USE MessageQueueAssumption
<1>1. CASE HClear
  <2>1. /\ queue \in Seq(Items) /\ Len(queue) \in Nat
        /\ queue' = <<>> /\ queue' \in Seq(Items) /\ Len(queue') = 0
        /\ put_log' = put_log /\ Len(put_log) \in Nat
    BY <1>1, EmptySeq, LenProperties DEF HInv, TypeOK, HClear, ClearQueue
  <2>2. TypeOK'
    BY <1>1, <2>1 DEF HInv, TypeOK, HClear, ClearQueue, callVars
  <2>3. FreshestSuffix' /\ SleepOnlyWhenEmpty'
    BY <1>1, <2>1 DEF HInv, FreshestSuffix, SuffixOf, SleepOnlyWhenEmpty, HClear, ClearQueue, callVars
  <2>4. StatisticsBalance'
    <3>1. /\ total_produced = Len(put_log)
          /\ total_produced = total_consumed + dropped_samples + cleared + Len(queue)
          /\ total_consumed \in Nat /\ dropped_samples \in Nat /\ cleared \in Nat
      BY DEF HInv, TypeOK, StatisticsBalance
    <3>2. /\ UNCHANGED <<total_produced, total_consumed, dropped_samples>>
          /\ cleared' = cleared + Len(queue)
      BY <1>1 DEF HClear, ClearQueue
    <3> QED
      BY <2>1, <3>1, <3>2 DEF StatisticsBalance
  <2> QED
    BY <2>2, <2>3, <2>4 DEF HInv
<1>2. CASE HShutdown
  BY <1>2 DEF HInv, TypeOK, FreshestSuffix, StatisticsBalance, SleepOnlyWhenEmpty,
              HShutdown, Shutdown, NotifyAll, queueVars
<1>3. CASE HOther
  <2>1. /\ UNCHANGED <<queueVars, callVars, running, put_log, cleared>>
        /\ current_param_version' \in 0..MaxVersion
        /\ val_queue' \in Seq(0..MaxVersion)
    <3>1. val_queue \in Seq(0..MaxVersion) /\ current_param_version \in 0..MaxVersion
      BY DEF HInv, TypeOK
    <3>2. CASE \E v \in 0..MaxVersion : UpdateParamVersion(v)
      BY <1>3, <3>1, <3>2 DEF HOther, UpdateParamVersion
    <3>3. CASE \E v \in 0..MaxVersion : PutValidate(v)
      BY <1>3, <3>1, <3>3, AppendProperties DEF HOther, PutValidate
    <3>4. CASE GetValidate
      BY <1>3, <3>1, <3>4, HeadTailProperties DEF HOther, GetValidate
    <3> QED
      BY <1>3, <3>2, <3>3, <3>4 DEF HOther
  <2> QED
    BY <2>1 DEF HInv, TypeOK, FreshestSuffix, StatisticsBalance, SleepOnlyWhenEmpty,
                queueVars, callVars
<1> QED
  BY <1>1, <1>2, <1>3

\* Every step of the queue preserves the inductive invariant.
LEMMA HNextPreserves == HInv /\ [HNext]_histVars => HInv'
PROOF
<1> SUFFICES ASSUME HInv, [HNext]_histVars PROVE HInv'
  OBVIOUS
<1>1. CASE HNext
  BY <1>1, PutPreserves, GetPreserves, OtherPreserves DEF HNext
<1>2. CASE UNCHANGED histVars
  BY <1>2 DEF HInv, TypeOK, FreshestSuffix, StatisticsBalance, SleepOnlyWhenEmpty, histVars
<1> QED
  BY <1>1, <1>2

\* The inductive invariant holds of every behaviour of the queue.
LEMMA QueueInvariant == HSpec => []HInv
PROOF
  BY HInitEstablishes, HNextPreserves, PTL DEF HSpec

-----------------------------------------------------------------------------
(* What follows from it *)

\* Type correctness of the queue actor.
THEOREM TypeCorrect == HSpec => []TypeOK
PROOF
<1>1. HInv => TypeOK
  BY DEF HInv
<1> QED
  BY <1>1, QueueInvariant, PTL

\* At any moment the queue is the newest end of all that was ever put, and
\* within its capacity: put_sample only ever gives up the oldest sample.
THEOREM KeepsFreshest == HSpec => []FreshestSuffix
PROOF
<1>1. HInv => FreshestSuffix
  BY DEF HInv
<1> QED
  BY <1>1, QueueInvariant, PTL

\* The counters of get_statistics account for every sample produced.
THEOREM StatisticsAddUp == HSpec => []StatisticsBalance
PROOF
<1>1. HInv => StatisticsBalance
  BY DEF HInv
<1> QED
  BY <1>1, QueueInvariant, PTL

\* get_sample loses no wake-up: nobody sleeps while a sample is in the queue
\* or after the shutdown.
THEOREM NoLostWakeup == HSpec => []SleepOnlyWhenEmpty
PROOF
<1>1. HInv => SleepOnlyWhenEmpty
  BY DEF HInv
<1> QED
  BY <1>1, QueueInvariant, PTL

-----------------------------------------------------------------------------
(* The refinement *)

\* Every step of the queue is a step of the log with a cursor, or leaves it alone.
LEMMA StepRefines ==
    HInv /\ [HNext]_histVars => [Promise!LogNext]_(Promise!logVars)
PROOF
<1> SUFFICES ASSUME HInv, [HNext]_histVars
             PROVE  [Promise!LogNext]_(Promise!logVars)
  OBVIOUS
<1> USE MessageQueueAssumption
<1> DEFINE cursor == Len(put_log) - Len(queue)
<1>1. /\ queue \in Seq(Items) /\ put_log \in Seq(Items)
      /\ Len(queue) \in Nat /\ Len(put_log) \in Nat
      /\ SuffixOf(queue, put_log) /\ Len(queue) <= MaxQueueSize
      /\ Len(queue) <= Len(put_log)
      /\ MaxQueueSize \in Nat \ {0}
      /\ reply \in [Consumers -> Answers]
  BY LenProperties DEF HInv, TypeOK, FreshestSuffix, SuffixOf
<1>2. ASSUME NEW x \in Items, HPut(x)
      PROVE  Promise!Publish(x)
  <2>1. Len(put_log') = Len(put_log) + 1
    BY <1>1, <1>2, AppendProperties DEF HPut
  <2>2. Len(queue') = IF QueueFull THEN Len(queue) ELSE Len(queue) + 1
    <3>1. CASE QueueFull
      <4>1. queue # <<>>
        BY <1>1, <3>1, EmptySeq DEF QueueFull
      <4>2. Tail(queue) \in Seq(Items) /\ Len(Tail(queue)) = Len(queue) - 1
        BY <1>1, <4>1, HeadTailProperties
      <4> QED
        BY <1>1, <1>2, <3>1, <4>2, AppendProperties DEF HPut, PutSample
    <3>2. CASE ~QueueFull
      BY <1>1, <1>2, <3>2, AppendProperties DEF HPut, PutSample
    <3> QED
      BY <3>1, <3>2
  <2>3. QueueFull <=> Len(put_log) - cursor = MaxQueueSize
    BY <1>1 DEF QueueFull
  <2>4. Len(put_log') - Len(queue') =
            IF Len(put_log) - cursor = MaxQueueSize THEN cursor + 1 ELSE cursor
    <3>1. Len(queue) \in Nat /\ Len(put_log) \in Nat
      BY <1>1
    <3>2. CASE QueueFull
      <4>1. Len(put_log') - Len(queue') = cursor + 1
        BY <2>1, <2>2, <3>1, <3>2
      <4> QED
        BY <2>3, <3>2, <4>1
    <3>3. CASE ~QueueFull
      <4>1. Len(put_log') - Len(queue') = cursor
        BY <2>1, <2>2, <3>1, <3>3
      <4> QED
        BY <2>3, <3>3, <4>1
    <3> QED
      BY <3>2, <3>3
  <2> QED
    BY <1>2, <2>4 DEF Promise!Publish, HPut, PutSample
<1>3. ASSUME NEW c \in Consumers, HGet(c)
      PROVE  Promise!Deliver(c) \/ Promise!Refuse(c) \/ Promise!Defer(c)
  <2>1. /\ ReturnSample(c) \/ SleepUntilNotified(c)
        /\ put_log' = put_log
    BY <1>3 DEF HGet, GetSample, ResumeGetSample
  <2>2. CASE queue # <<>>
    <3>1. /\ queue' = Tail(queue)
          /\ reply' = [reply EXCEPT ![c] = Head(queue)]
          /\ running' = running
      BY <2>1, <2>2 DEF ReturnSample, SleepUntilNotified
    <3>2. /\ Len(queue') = Len(queue) - 1
          /\ Head(queue) = put_log[cursor + 1]
          /\ Len(queue) # 0
      BY <1>1, <2>2, <3>1, SuffixTail, EmptySeq
    <3>3. /\ cursor < Len(put_log)
          /\ Len(put_log') - Len(queue') = cursor + 1
      BY <1>1, <2>1, <3>2
    <3>4. reply' = [reply EXCEPT ![c] = put_log[cursor + 1]]
      BY <3>1, <3>2
    <3>5. Len(put_log) - Len(queue) < Len(put_log)
      BY <3>3
    <3>6. Len(put_log)' - Len(queue)' = Len(put_log) - Len(queue) + 1
      BY <3>3
    <3>7. reply' = [reply EXCEPT ![c] = put_log[Len(put_log) - Len(queue) + 1]]
      BY <3>4
    <3> HIDE DEF cursor
    <3> QED
      BY <2>1, <3>1, <3>5, <3>6, <3>7 DEF Promise!Deliver
  <2>3. CASE queue = <<>>
    <3>1. cursor = Len(put_log) /\ queue' = queue /\ running' = running
      BY <1>1, <2>1, <2>3, EmptySeq DEF ReturnSample, SleepUntilNotified, queueVars
    <3> QED
      BY <2>1, <2>3, <3>1
      DEF ReturnSample, SleepUntilNotified, Promise!Refuse, Promise!Defer
  <2> QED
    BY <2>2, <2>3
<1>4. CASE HClear
  <2>1. cursor' = Len(put_log) /\ put_log' = put_log
    BY <1>1, <1>4, EmptySeq DEF HClear, ClearQueue
  <2> QED
    BY <1>4, <2>1 DEF Promise!LogNext, Promise!Discard, HClear, ClearQueue, callVars
<1>5. CASE HShutdown
  BY <1>5 DEF Promise!LogNext, Promise!Close, HShutdown, Shutdown, queueVars
<1>6. CASE HOther
  BY <1>6 DEF Promise!logVars, HOther, UpdateParamVersion, PutValidate, GetValidate,
              queueVars, callVars
<1>7. CASE UNCHANGED histVars
  BY <1>7 DEF Promise!logVars, histVars
<1> QED
  BY <1>2, <1>3, <1>4, <1>5, <1>6, <1>7 DEF HNext, Promise!LogNext

\* The message queue implements SampleLog: each sample is delivered at most
\* once, in production order, and only the oldest are lost.
THEOREM QueueImplementsSampleLog == HSpec => ImplementsSampleLog
PROOF
<1>1. HInit => Promise!LogInit
  BY EmptySeq DEF HInit, Init, Promise!LogInit
<1> QED
  BY <1>1, StepRefines, QueueInvariant, PTL DEF HSpec, ImplementsSampleLog, Promise!LogSpec
=============================================================================
