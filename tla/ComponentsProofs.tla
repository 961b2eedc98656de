--------------------------- MODULE ComponentsProofs ---------------------------
(***************************************************************************)
(* What is proved of single components holds of them side by side: each    *)
(* component's part of a behaviour of MCSpec is a behaviour of its own     *)
(* specification, which stutters while another component is at work.       *)
(*                                                                         *)
(* AsyncCheckpoint, which MCComponents extends, comes first, then the      *)
(* clients: of the environments, of the rate-limited judges and of the     *)
(* teacher, and the one-step-off trainer.  The theorems about              *)
(* SeqlenBalancing, CheckpointEngine and RolloutBatch come from instances  *)
(* of their proof modules, whose definitions have to be shown equal to the *)
(* ones MCComponents has instantiated.                                     *)
(***************************************************************************)
EXTENDS MCComponents, TLAPS, FiniteSetTheorems, SequenceTheorems

-----------------------------------------------------------------------------
(***************************************************************************)
(* Asynchronous checkpointing: for any amount of data, batch, checkpoint   *)
(* frequency and number of crashes, the checkpoint the tracker names is    *)
(* whole whenever the job dies, no restart trains on a sample twice or     *)
(* loses more than what was in flight, and restarts do not shorten the     *)
(* training.                                                               *)
(*                                                                         *)
(* The invariant relates three things: what the processes hold (LiveInv),  *)
(* how far the save under way has come (SaveInv), and what a restart would *)
(* find on disk (DiskInv).                                                 *)
(***************************************************************************)

\* The samples of the training steps made by version v before its step s.
StepSamples(v, s) == (v * TriggerParameterSyncStep + (s - 1)) * RequiredSamples

\* What full batches of the data hold.
FullLength == (TotalRolloutSteps \div RequiredSamples) * RequiredSamples

WholeBatches(n) == \E k \in Nat : n = k * RequiredSamples

\* The samples the Rollouter counts as fed.
Fed == IF feed_done THEN global_steps ELSE global_steps - 1

\* What the data loader yields is in flight, in order, and what came before
\* that is the trainer's.
Behind == position - Len(in_flight)

\* The samples a training that resumes at position pos with weights w lacks.
Lacking(w, pos) == (1..pos) \ w

-----------------------------------------------------------------------------
(* The invariant *)

\* The last saved version of a part: its file may be that of the save under way.
LatestSaved(p) ==
    LET k == Len(todo)
    IN  IF k # 0 /\ k <= (IF p = "actor" THEN 5 ELSE 3)
        THEN current_param_version ELSE last_ckpt_version

\* Types, but for those that follow from the rest.
Typed ==
    /\ weights_file \in [Parts -> [Versions -> {Missing} \cup SUBSET (1..DataLength)]]
    /\ data_file \in [Versions -> -1..DataLength]
    /\ status \in {"up", "down", "finished", "unrecoverable"}
    /\ restarts \in 0..MaxRestarts
    /\ elastic \in BOOLEAN
    /\ local_trigger_step \in 1..TriggerParameterSyncStep
    /\ previous_saved_paths \in [Parts -> Seq(Versions)]
    /\ stopped \in BOOLEAN /\ feed_done \in BOOLEAN
    /\ position \in 0..DataLength
    /\ in_flight \in Seq(1..DataLength)

\* Versions: each restart adds at most the version of one more sample and that
\* of the final synchronization.
VersionInv ==
    /\ current_param_version \in Nat /\ global_steps \in Nat \ {0}
    /\ last_ckpt_version \in 0..current_param_version
    /\ current_param_version <=
          TotalRolloutSteps + 2 * restarts + (IF stopped THEN 1 ELSE 0)
    /\ \/ global_steps <= TotalRolloutSteps
       \/ /\ restarts # 0
          /\ global_steps <= (TotalRolloutSteps + 2 * restarts - 1)
                                 * (RequiredSamples * TriggerParameterSyncStep) + 1

\* Samples: those in flight follow those trained on, and little is lost.
FlowInv ==
    /\ Len(in_flight) <= position /\ Len(in_flight) <= MaxInFlight
    /\ \A i \in 1..Len(in_flight) : in_flight[i] = Behind + i
    /\ trained \subseteq 1..Behind
    /\ Cardinality(Lacking(trained, Behind)) <= restarts * MaxInFlight

\* Progress: the training counts what it has trained on, at least.
ProgressInv ==
    /\ WholeBatches(Cardinality(trained))
    /\ feed_done => position = DataLength \/ global_steps >= TotalRolloutSteps
    /\ ~stopped => StepSamples(current_param_version, local_trigger_step) + Len(in_flight) <= Fed
    /\ \/ position = DataLength
       \/ Cardinality(trained) >= FullLength
       \/ /\ ~stopped
          /\ Cardinality(trained) >= StepSamples(current_param_version, local_trigger_step)
          /\ Cardinality(trained) + Len(in_flight) >= Fed

LiveInv == VersionInv /\ FlowInv /\ ProgressInv

\* Weights w and position pos are a sound state to resume version v from.
Sound(w, pos, v) ==
    /\ pos \in 0..DataLength
    /\ w \subseteq 1..pos
    /\ Cardinality(Lacking(w, pos)) <= (restarts + 1) * MaxInFlight
    /\ WholeBatches(Cardinality(w))
    /\ \/ pos = DataLength
       \/ Cardinality(w) >= FullLength
       \/ Cardinality(w) >= StepSamples(v, 1)

\* The saved versions of a part, oldest first.
SavedInOrder(p) ==
    LET saved == previous_saved_paths[p]
    IN  /\ \A i, j \in 1..Len(saved) : i < j => saved[i] < saved[j]
        /\ saved # <<>> => saved[Len(saved)] = LatestSaved(p)

\* What a save with k writes to go has written is what the processes hold.
Written(k) ==
    LET v == current_param_version
    IN  /\ k \in 1..5 => weights_file["actor"][v] = trained
        /\ k \in 1..3 => weights_file["critic"][v] = trained
        /\ k \in 1..2 => Sound(trained, data_file[v], v)

\* The save under way writes a version of its own, and the tracker is empty
\* just before it is written.
SaveInv ==
    /\ Len(todo) \in 0..7 /\ todo = SubSeq(SaveSteps, 8 - Len(todo), 7)
    /\ Len(todo) # 0 => current_param_version # last_ckpt_version
    /\ tracker = (IF Len(todo) = 1 THEN Empty ELSE last_ckpt_version)
    /\ Written(Len(todo))
    /\ \A p \in Parts : SavedInOrder(p)

\* The tracker names a checkpoint; a job that keeps but one removes the weights
\* of that one before it writes the next.
Resumable == tracker \in Versions /\ (MaxCkptToKeep = 1 => Loadable)

\* What the tracker names can be resumed.
DiskInv ==
    Resumable =>
        /\ weights_file["critic"][tracker] = weights_file["actor"][tracker]
        /\ Sound(weights_file["actor"][tracker], data_file[tracker], tracker)
        /\ tracker <= TotalRolloutSteps + 2 * restarts + 1

\* A training that has ended has been stopped.
EndInv == status = "finished" => stopped

IInv == Typed /\ LiveInv /\ SaveInv /\ DiskInv /\ EndInv

-----------------------------------------------------------------------------
(* Numbers *)

LEMMA Constants ==
    /\ TotalRolloutSteps \in Nat \ {0} /\ DataLength \in Nat
    /\ RequiredSamples \in Nat \ {0} /\ TriggerParameterSyncStep \in Nat \ {0}
    /\ MaxInFlight \in Nat /\ MaxRestarts \in Nat /\ MaxCkptToKeep \in Nat
    /\ Versions = 1..(TotalRolloutSteps + 2 * MaxRestarts + 1)
PROOF
  BY AsyncCheckpointAssumption DEF Versions

LEMMA Distribute ==
    ASSUME NEW a \in Int, NEW b \in Int
    PROVE  a * b \in Int /\ (a + 1) * b = a * b + b
PROOF
  OBVIOUS

LEMMA Product ==
    ASSUME NEW a \in Nat, NEW b \in Nat
    PROVE  a * b \in Nat
PROOF
  OBVIOUS

LEMMA ProductOrder ==
    ASSUME NEW a \in Nat, NEW b \in Nat, NEW c \in Nat, a <= b
    PROVE  a * c <= b * c
PROOF
  OBVIOUS

\* A training step adds a batch, and the steps of a version add up to it.
LEMMA StepSamplesFacts ==
    ASSUME NEW v \in Nat, NEW s \in 1..TriggerParameterSyncStep
    PROVE  /\ StepSamples(v, s) \in Nat /\ StepSamples(v, 1) \in Nat
           /\ StepSamples(v, 1) <= StepSamples(v, s)
           /\ StepSamples(v, s + 1) = StepSamples(v, s) + RequiredSamples
           /\ StepSamples(v + 1, 1) = StepSamples(v, TriggerParameterSyncStep) + RequiredSamples
PROOF
<1> DEFINE before == v * TriggerParameterSyncStep
<1>1. /\ before \in Nat /\ RequiredSamples \in Nat /\ TriggerParameterSyncStep \in Nat \ {0}
      /\ s \in Nat \ {0}
  BY Constants, Product
<1>2. (v + 1) * TriggerParameterSyncStep = before + TriggerParameterSyncStep
  <2>1. v \in Int /\ TriggerParameterSyncStep \in Int
    BY <1>1
  <2> QED
    BY <2>1, Distribute, ZenonT(20)
<1> HIDE DEF before
<1>3. /\ before + (s - 1) \in Nat /\ before + (1 - 1) \in Nat
      /\ before + (1 - 1) <= before + (s - 1)
      /\ before + (s + 1 - 1) = before + (s - 1) + 1
      /\ before + TriggerParameterSyncStep + (1 - 1) =
            before + (TriggerParameterSyncStep - 1) + 1
      /\ before + (TriggerParameterSyncStep - 1) \in Nat
  BY <1>1
<1>4. StepSamples(v, s) \in Nat /\ StepSamples(v, 1) \in Nat
  BY <1>1, <1>3, Product DEF StepSamples, before
<1>5. StepSamples(v, 1) <= StepSamples(v, s)
  BY <1>1, <1>3, ProductOrder DEF StepSamples, before
<1>6. StepSamples(v, s + 1) = StepSamples(v, s) + RequiredSamples
  <2>1. (before + (s - 1) + 1) * RequiredSamples =
           (before + (s - 1)) * RequiredSamples + RequiredSamples
    <3>1. before + (s - 1) \in Int /\ RequiredSamples \in Int
      BY <1>1, <1>3
    <3> QED
      BY <3>1, Distribute, ZenonT(20)
  <2> QED
    BY <1>3, <2>1 DEF StepSamples, before
<1>7. StepSamples(v + 1, 1) = StepSamples(v, TriggerParameterSyncStep) + RequiredSamples
  <2>1. (before + (TriggerParameterSyncStep - 1) + 1) * RequiredSamples =
           (before + (TriggerParameterSyncStep - 1)) * RequiredSamples + RequiredSamples
    <3>1. before + (TriggerParameterSyncStep - 1) \in Int /\ RequiredSamples \in Int
      BY <1>1, <1>3
    <3> QED
      BY <3>1, Distribute, ZenonT(20)
  <2> QED
    BY <1>2, <1>3, <2>1 DEF StepSamples, before
<1> QED
  BY <1>4, <1>5, <1>6, <1>7

\* What a restored Rollouter counts from is what the version stands for.
LEMMA RestoredStepsCount ==
    ASSUME NEW v \in Nat
    PROVE  /\ RestoredSteps(v) = StepSamples(v, 1) + 1
           /\ StepSamples(v, 1) = v * (RequiredSamples * TriggerParameterSyncStep)
PROOF
<1>1. RequiredSamples \in Nat /\ TriggerParameterSyncStep \in Nat
  BY Constants
<1>2. \A a, b, c \in Nat : a * b * c = a * (b * c) /\ (a * c) * b = a * (b * c)
  OBVIOUS
<1>3. v * TriggerParameterSyncStep \in Nat
  BY <1>1, Product
<1>4. v * TriggerParameterSyncStep + (1 - 1) = v * TriggerParameterSyncStep
  <2> DEFINE n == v * TriggerParameterSyncStep
  <2>1. n \in Nat
    BY <1>3
  <2> HIDE DEF n
  <2>2. n + (1 - 1) = n
    BY <2>1
  <2> QED
    BY <2>2 DEF n
<1>5. StepSamples(v, 1) = v * (RequiredSamples * TriggerParameterSyncStep)
  BY <1>1, <1>2, <1>4 DEF StepSamples
<1> QED
  BY <1>1, <1>2, <1>5 DEF RestoredSteps

\* A count of versions is bounded by the samples they stand for.
LEMMA VersionsOfSamples ==
    ASSUME NEW v \in Nat, NEW b \in Nat, NEW q \in Nat \ {0}
    PROVE  /\ v * q <= b => v <= b
           /\ v * q <= b * q + 1 => v <= b + 1
PROOF
<1>1. v <= v * q
  <2>1. 1 <= q /\ 1 \in Nat /\ q \in Nat
    OBVIOUS
  <2>2. \A a, c, d \in Nat : c <= d => a * c <= a * d
    OBVIOUS
  <2>3. v * 1 <= v * q /\ v * 1 = v
    BY <2>1, <2>2
  <2> QED
    BY <2>3
<1>2. v * q <= b => v <= b
  <2>1. v * q \in Nat
    BY Product
  <2> QED
    BY <1>1, <2>1
<1>3. ASSUME v * q <= b * q + 1, ~(v <= b + 1)
      PROVE  FALSE
  <2>1. b + 1 + 1 <= v /\ b + 1 + 1 \in Nat /\ b + 1 \in Int /\ q \in Nat /\ q \in Int
    BY <1>3
  <2>2. (b + 1 + 1) * q <= v * q
    BY <2>1, ProductOrder
  <2>3. (b + 1 + 1) * q = (b + 1) * q + q
    <3>1. b + 1 \in Int /\ q \in Int
      BY <2>1
    <3> QED
      BY <3>1, Distribute, ZenonT(20)
  <2>4. (b + 1) * q = b * q + q
    <3>1. b \in Int /\ q \in Int
      BY <2>1
    <3> QED
      BY <3>1, Distribute, ZenonT(20)
  <2>5. v * q \in Nat /\ b * q \in Nat
    BY Product
  <2> DEFINE m == v * q  n == b * q
  <2>6. n + q + q <= m /\ m <= n + 1 /\ m \in Nat /\ n \in Nat
    BY <1>3, <2>2, <2>3, <2>4, <2>5
  <2> HIDE DEF m, n
  <2> QED
    BY <2>6
<1> QED
  BY <1>2, <1>3

-----------------------------------------------------------------------------
(* Steps *)

\* Every step but these leaves data and disk alone.
LEMMA Steps ==
    ASSUME [Next]_vars
    PROVE  \/ FeedSample \/ FeedExhausted \/ TrainStep \/ StopTraining \/ SaveStep \/ Restart
           \/ UNCHANGED <<diskVars, restarts, elastic, trainerVars, feedVars, in_flight>>
PROOF
  BY DEF Next, Finish, Crash, Ended, vars

\* Saving leaves training and feeding alone.
LEMMA SaveLeaves ==
    ASSUME SaveStep
    PROVE  /\ todo # <<>> /\ todo' = Tail(todo)
           /\ UNCHANGED <<status, restarts, elastic, current_param_version, local_trigger_step,
                          trained, stopped, feedVars, in_flight>>
PROOF
  BY DEF SaveStep, Rotate, WriteWeights, WriteData, TruncateTracker, WriteTracker, Saving

\* A restart loads what the tracker names, or nothing.
LEMMA RestartLoads ==
    ASSUME SaveInv, VersionInv, Restart
    PROVE  /\ restarts' = restarts + 1 /\ restarts < MaxRestarts /\ UNCHANGED <<diskVars, elastic>>
           /\ \/ LoadCheckpoint(tracker) /\ (tracker = 0 \/ Resumable)
              \/ UNCHANGED <<trainerVars, feedVars, in_flight>> /\ status' = "unrecoverable"
PROOF
  BY DEF Restart, Resumable, Loadable, NoTracker

\* Versions that are loaded are versions that were saved.
VersionsKnown ==
    /\ current_param_version \in Versions \cup {0}
    /\ stopped \/ current_param_version < TotalRolloutSteps + 2 * MaxRestarts + 1

LEMMA VersionsAreKnown ==
    ASSUME Typed, VersionInv
    PROVE  VersionsKnown
PROOF
  BY Constants DEF Typed, VersionInv, VersionsKnown

\* A version that is due has samples to stand for.
LEMMA RoomForVersion ==
    ASSUME Typed, VersionInv, ProgressInv, ~stopped, SyncDue, Len(in_flight) >= RequiredSamples
    PROVE  /\ current_param_version + 1 <= TotalRolloutSteps + 2 * restarts
           /\ local_trigger_step = TriggerParameterSyncStep
PROOF
<1> DEFINE v == current_param_version
           q == RequiredSamples * TriggerParameterSyncStep
           b == TotalRolloutSteps + 2 * restarts - 1
<1>1. /\ v \in Nat /\ v + 1 \in Nat /\ restarts \in Nat /\ TotalRolloutSteps \in Nat \ {0}
      /\ b \in Nat /\ global_steps \in Nat /\ RequiredSamples \in Nat \ {0}
      /\ TriggerParameterSyncStep \in Nat \ {0} /\ local_trigger_step \in 1..TriggerParameterSyncStep
  BY Constants DEF Typed, VersionInv
<1>2. local_trigger_step = TriggerParameterSyncStep
  BY <1>1 DEF SyncDue
<1>3. StepSamples(v + 1, 1) = StepSamples(v, local_trigger_step) + RequiredSamples
  BY <1>1, <1>2, StepSamplesFacts
<1>4. StepSamples(v + 1, 1) = (v + 1) * q
  BY <1>1, RestoredStepsCount
<1>5. StepSamples(v, local_trigger_step) \in Nat
  BY <1>1, StepSamplesFacts
<1>6. StepSamples(v, local_trigger_step) + Len(in_flight) <= global_steps
  <2>1. Fed <= global_steps /\ Fed \in Int
    BY <1>1 DEF Fed
  <2>2. StepSamples(v, local_trigger_step) + Len(in_flight) <= Fed
    BY DEF ProgressInv
  <2>3. Len(in_flight) \in Nat
    BY LenProperties DEF Typed
  <2> QED
    BY <1>1, <1>5, <2>1, <2>2, <2>3
<1>7. (v + 1) * q <= global_steps
  <2>1. Len(in_flight) \in Nat
    BY LenProperties DEF Typed
  <2> DEFINE n == StepSamples(v, local_trigger_step)  m == (v + 1) * q  l == Len(in_flight)
  <2>2. /\ m = n + RequiredSamples /\ n + l <= global_steps /\ l >= RequiredSamples
        /\ n \in Nat /\ l \in Nat
    BY <1>3, <1>4, <1>5, <1>6, <2>1
  <2> HIDE DEF n, m, l
  <2>3. m <= global_steps
    BY <1>1, <2>2
  <2> QED
    BY <2>3 DEF m
<1>8. q \in Nat \ {0}
  BY <1>1
<1>9. v + 1 <= TotalRolloutSteps \/ v + 1 <= b + 1
  <2>1. CASE global_steps <= TotalRolloutSteps
    <3>1. (v + 1) * q <= TotalRolloutSteps
      <4>1. (v + 1) * q \in Nat
        BY <1>1, <1>8, Product
      <4> DEFINE m == (v + 1) * q
      <4> HIDE DEF m
      <4>2. m <= TotalRolloutSteps
        BY <1>1, <1>7, <2>1, <4>1 DEF m
      <4> QED
        BY <4>2 DEF m
    <3> HIDE DEF q
    <3> QED
      BY <1>1, <1>8, <3>1, VersionsOfSamples
  <2>2. CASE global_steps <= b * q + 1
    <3>1. (v + 1) * q \in Nat /\ b * q \in Nat
      BY <1>1, <1>8, Product
    <3>2. (v + 1) * q <= b * q + 1
      <4> DEFINE m == (v + 1) * q  n == b * q
      <4>1. m <= global_steps /\ global_steps <= n + 1 /\ m \in Nat /\ n \in Nat
        BY <1>7, <2>2, <3>1
      <4> HIDE DEF m, n
      <4>2. m <= n + 1
        BY <1>1, <4>1
      <4> QED
        BY <4>2 DEF m, n
    <3> HIDE DEF q, b
    <3> QED
      BY <1>1, <1>8, <3>2, VersionsOfSamples
  <2> QED
    BY <2>1, <2>2 DEF VersionInv
<1> HIDE DEF q
<1> QED
  BY <1>1, <1>2, <1>9

LEMMA VersionNextPreserves ==
    ASSUME Typed, VersionInv, ProgressInv, SaveInv, DiskInv, [Next]_vars
    PROVE  VersionInv'
PROOF
<1>0. /\ current_param_version \in Nat /\ global_steps \in Nat \ {0} /\ restarts \in Nat
      /\ last_ckpt_version \in 0..current_param_version /\ stopped \in BOOLEAN
      /\ TotalRolloutSteps \in Nat \ {0}
  BY Constants DEF Typed, VersionInv
<1>1. CASE FeedSample
  BY <1>0, <1>1 DEF FeedSample, VersionInv, trainerVars
<1>2. CASE FeedExhausted
  BY <1>2 DEF FeedExhausted, VersionInv, trainerVars
<1>3. CASE TrainStep
  <2>1. CASE SyncDue
    <3>1. current_param_version' = current_param_version + 1 /\ ~stopped
      BY <1>3, <2>1 DEF TrainStep, NewVersion
    <3>2. current_param_version + 1 <= TotalRolloutSteps + 2 * restarts
      BY <1>3, <2>1, RoomForVersion DEF TrainStep
    <3> QED
      BY <1>0, <1>3, <3>1, <3>2 DEF TrainStep, VersionInv, feedVars
  <2>2. CASE ~SyncDue
    BY <1>3, <2>2 DEF TrainStep, NewVersion, VersionInv, feedVars
  <2> QED
    BY <2>1, <2>2
<1>4. CASE StopTraining
  <2>1. /\ current_param_version' \in {current_param_version, current_param_version + 1}
        /\ ~stopped /\ stopped'
        /\ UNCHANGED <<restarts, last_ckpt_version, global_steps>>
    BY <1>4 DEF StopTraining, NewVersion, feedVars
  <2> QED
    BY <1>0, <2>1 DEF VersionInv
<1>5. CASE SaveStep
  <2>1. UNCHANGED <<restarts, current_param_version, stopped, global_steps>>
    BY <1>5, SaveLeaves DEF feedVars
  <2>2. last_ckpt_version' \in {last_ckpt_version, current_param_version}
    BY <1>5 DEF SaveStep, Rotate, WriteWeights, WriteData, TruncateTracker, WriteTracker
  <2> QED
    BY <1>0, <2>1, <2>2 DEF VersionInv
<1>6. CASE Restart
  <2>1. CASE UNCHANGED <<trainerVars, feedVars, in_flight>>
    <3>1. restarts' = restarts + 1 /\ UNCHANGED <<current_param_version, global_steps, stopped, last_ckpt_version>>
      BY <1>6, <2>1, RestartLoads DEF trainerVars, feedVars
    <3> DEFINE q == RequiredSamples * TriggerParameterSyncStep
               b == TotalRolloutSteps + 2 * restarts - 1
               c == TotalRolloutSteps + 2 * (restarts + 1) - 1
    <3>2. restarts = 0 \/ b * q <= c * q
      <4>1. restarts # 0 => b \in Nat /\ c \in Nat /\ b <= c
        BY <1>0
      <4>2. q \in Nat
        BY Constants
      <4> HIDE DEF q, b, c
      <4> QED
        BY <4>1, <4>2, ProductOrder
    <3>3. restarts # 0 => b * q \in Nat /\ c * q \in Nat
      <4>1. restarts # 0 => b \in Nat /\ c \in Nat
        BY <1>0
      <4>2. q \in Nat
        BY Constants
      <4> HIDE DEF q, b, c
      <4> QED
        BY <4>1, <4>2, Product
    <3>4. global_steps <= TotalRolloutSteps \/ (restarts # 0 /\ global_steps <= b * q + 1)
      BY DEF VersionInv
    <3>5. global_steps <= TotalRolloutSteps \/ global_steps <= c * q + 1
      <4> DEFINE m == b * q  n == c * q
      <4> HIDE DEF m, n
      <4>1. restarts # 0 => m <= n /\ m \in Nat /\ n \in Nat
        BY <3>2, <3>3 DEF m, n
      <4>2. global_steps <= TotalRolloutSteps \/ (restarts # 0 /\ global_steps <= m + 1)
        BY <3>4 DEF m
      <4>3. global_steps <= TotalRolloutSteps \/ global_steps <= n + 1
        BY <1>0, <4>1, <4>2
      <4> QED
        BY <4>3 DEF n
    <3>6. /\ current_param_version' \in Nat /\ global_steps' \in Nat \ {0}
          /\ last_ckpt_version' \in 0..current_param_version'
          /\ current_param_version' <=
                TotalRolloutSteps + 2 * restarts' + (IF stopped' THEN 1 ELSE 0)
          /\ restarts' # 0
      BY <1>0, <3>1 DEF VersionInv
    <3> QED
      BY <3>1, <3>5, <3>6 DEF VersionInv
  <2>2. CASE LoadCheckpoint(tracker) /\ (tracker = 0 \/ Resumable)
    <3>1. /\ tracker \in Nat /\ restarts' = restarts + 1 /\ current_param_version' = tracker
          /\ last_ckpt_version' = tracker /\ ~stopped'
          /\ global_steps' = RestoredSteps(tracker)
      BY <1>6, <2>2, RestartLoads, Constants DEF LoadCheckpoint, Resumable
    <3> DEFINE q == RequiredSamples * TriggerParameterSyncStep
               c == TotalRolloutSteps + 2 * (restarts + 1) - 1
    <3>2. tracker <= c /\ c \in Nat /\ c <= TotalRolloutSteps + 2 * (restarts + 1)
      <4>1. Resumable => tracker <= TotalRolloutSteps + 2 * restarts + 1
        BY DEF DiskInv
      <4> QED
        BY <1>0, <2>2, <4>1
    <3>3. q \in Nat
      BY Constants
    <3>4. tracker * q <= c * q /\ tracker * q \in Nat /\ c * q \in Nat
      <4> HIDE DEF q, c
      <4> QED
        BY <3>1, <3>2, <3>3, ProductOrder, Product
    <3>5. global_steps' = tracker * q + 1
      BY <3>1, RestoredStepsCount
    <3>6. global_steps' <= c * q + 1 /\ global_steps' \in Nat \ {0}
      <4> DEFINE m == tracker * q  n == c * q
      <4> HIDE DEF m, n
      <4>1. m <= n /\ m \in Nat /\ n \in Nat /\ global_steps' = m + 1
        BY <3>4, <3>5 DEF m, n
      <4>2. global_steps' <= n + 1 /\ global_steps' \in Nat \ {0}
        BY <4>1
      <4> QED
        BY <4>2 DEF n
    <3>7. /\ current_param_version' \in Nat
          /\ last_ckpt_version' \in 0..current_param_version'
          /\ current_param_version' <=
                TotalRolloutSteps + 2 * restarts' + (IF stopped' THEN 1 ELSE 0)
          /\ restarts' # 0
      BY <1>0, <3>1, <3>2
    <3> QED
      BY <3>1, <3>6, <3>7 DEF VersionInv
  <2> QED
    BY <1>6, <2>1, <2>2, RestartLoads
<1>7. CASE UNCHANGED <<diskVars, restarts, elastic, trainerVars, feedVars, in_flight>>
  BY <1>7 DEF VersionInv, trainerVars, feedVars
<1> QED
  BY <1>1, <1>2, <1>3, <1>4, <1>5, <1>6, <1>7, Steps

-----------------------------------------------------------------------------
(* Types *)

\* A sequence without its first n elements.
LEMMA DropFirst ==
    ASSUME NEW S, NEW seq \in Seq(S), NEW n \in 0..Len(seq)
    PROVE  LET rest == SubSeq(seq, n + 1, Len(seq))
           IN  /\ rest \in Seq(S) /\ Len(rest) = Len(seq) - n
               /\ \A i \in 1..Len(rest) : rest[i] = seq[n + i]
PROOF
<1>1. Len(seq) \in Nat /\ n \in Nat /\ n <= Len(seq)
  BY LenProperties
<1>2. \A i \in (n + 1)..Len(seq) : seq[i] \in S
  BY <1>1, ElementOfSeq
<1> DEFINE l == Len(seq)  rest == SubSeq(seq, n + 1, l)
<1>3. /\ rest \in Seq(S) /\ Len(rest) = IF n + 1 <= l THEN l - (n + 1) + 1 ELSE 0
      /\ \A i \in 1..(l - (n + 1) + 1) : rest[i] = seq[n + 1 + i - 1]
  <2>1. n + 1 \in Int /\ l \in Int
    BY <1>1
  <2> QED
    BY <1>2, <2>1, SubSeqProperties
<1>4. Len(rest) = l - n
  BY <1>1, <1>3
<1>5. \A i \in 1..Len(rest) : rest[i] = seq[n + i]
  <2> SUFFICES ASSUME NEW i \in 1..Len(rest) PROVE rest[i] = seq[n + i]
    OBVIOUS
  <2>1. i \in 1..(l - (n + 1) + 1) /\ n + 1 + i - 1 = n + i
    BY <1>1, <1>4
  <2> QED
    BY <1>3, <2>1
<1> QED
  BY <1>3, <1>4, <1>5

LEMMA TrainedTyped ==
    ASSUME Typed, FlowInv
    PROVE  trained \subseteq 1..position /\ trained \subseteq 1..DataLength
PROOF
<1>1. Behind \in Int /\ Behind <= position /\ position \in Nat /\ position <= DataLength
  <2>1. Len(in_flight) \in Nat
    BY LenProperties DEF Typed
  <2> QED
    BY <2>1, Constants DEF Behind, Typed
<1> QED
  BY <1>1, Constants DEF FlowInv

\* A save writes a version that has a file of its own.
LEMMA SavedVersion ==
    ASSUME Typed, VersionInv, SaveInv, todo # <<>>
    PROVE  current_param_version \in Versions /\ current_param_version # last_ckpt_version
PROOF
<1>1. Len(todo) # 0
  BY SubSeqEmpty DEF SaveInv
<1>2. current_param_version # last_ckpt_version
  BY <1>1 DEF SaveInv
<1> QED
  BY <1>2, VersionsAreKnown DEF VersionsKnown, VersionInv

LEMMA SaveKeepsTypes ==
    ASSUME Typed, VersionInv, FlowInv, SaveInv, SaveStep
    PROVE  /\ weights_file' \in [Parts -> [Versions -> {Missing} \cup SUBSET (1..DataLength)]]
           /\ data_file' \in [Versions -> -1..DataLength]
           /\ previous_saved_paths' \in [Parts -> Seq(Versions)]
PROOF
<1>1. current_param_version \in Versions
  BY SaveLeaves, SavedVersion
<1>2. trained \subseteq 1..DataLength
  BY TrainedTyped
<1>3. /\ weights_file \in [Parts -> [Versions -> {Missing} \cup SUBSET (1..DataLength)]]
      /\ data_file \in [Versions -> -1..DataLength]
      /\ previous_saved_paths \in [Parts -> Seq(Versions)] /\ position \in 0..DataLength
  BY DEF Typed
<1>4. ASSUME NEW p \in Parts, Rotate(p)
      PROVE  /\ weights_file' \in [Parts -> [Versions -> {Missing} \cup SUBSET (1..DataLength)]]
             /\ previous_saved_paths' \in [Parts -> Seq(Versions)]
  <2> DEFINE saved == previous_saved_paths[p]
             dropped == IF MaxCkptToKeep > 0 /\ Len(saved) >= MaxCkptToKeep
                        THEN Len(saved) - MaxCkptToKeep + 1 ELSE 0
             removed == {saved[i] : i \in 1..dropped}
             kept == [v \in Versions |-> IF v \in removed THEN Missing ELSE weights_file[p][v]]
  <2>1. weights_file' = [weights_file EXCEPT ![p] = kept]
    BY <1>4 DEF Rotate
  <2>2. kept \in [Versions -> {Missing} \cup SUBSET (1..DataLength)]
    <3> HIDE DEF removed
    <3> QED
      BY <1>3
  <2>3. SubSeq(saved, dropped + 1, Len(saved)) \in Seq(Versions)
    <3>1. saved \in Seq(Versions) /\ Len(saved) \in Nat
      BY <1>3, LenProperties
    <3>2. dropped \in 0..Len(saved)
      BY <3>1, Constants
    <3> QED
      BY <3>1, <3>2, DropFirst
  <2>4. previous_saved_paths' =
           [previous_saved_paths EXCEPT ![p] = SubSeq(saved, dropped + 1, Len(saved))]
    BY <1>4 DEF Rotate
  <2> HIDE DEF kept, saved, dropped
  <2> QED
    BY <1>3, <2>1, <2>2, <2>3, <2>4
<1>5. ASSUME NEW p \in Parts, WriteWeights(p)
      PROVE  /\ weights_file' \in [Parts -> [Versions -> {Missing} \cup SUBSET (1..DataLength)]]
             /\ previous_saved_paths' \in [Parts -> Seq(Versions)]
  <2>1. weights_file' = [weights_file EXCEPT ![p][current_param_version] = trained]
    BY <1>5 DEF WriteWeights, SavedWeights
  <2>2. previous_saved_paths' =
           [previous_saved_paths EXCEPT ![p] = Append(@, current_param_version)]
    BY <1>5 DEF WriteWeights
  <2>3. Append(previous_saved_paths[p], current_param_version) \in Seq(Versions)
    BY <1>1, <1>3, AppendProperties
  <2> QED
    BY <1>1, <1>2, <1>3, <2>1, <2>2, <2>3
<1>6. ASSUME WriteData
      PROVE  data_file' \in [Versions -> -1..DataLength]
  BY <1>1, <1>3, <1>6, Constants DEF WriteData
<1> QED
  BY <1>3, <1>4, <1>5, <1>6
     DEF SaveStep, Rotate, WriteWeights, WriteData, TruncateTracker, WriteTracker

LEMMA TypedNextPreserves ==
    ASSUME Typed, LiveInv, SaveInv, DiskInv, [Next]_vars
    PROVE  Typed'
PROOF
<1>0. VersionInv /\ FlowInv /\ ProgressInv
  BY DEF LiveInv
<1>1. CASE FeedSample
  <2>1. position' = position + 1 /\ position' \in 1..DataLength
    BY <1>1, Constants DEF FeedSample, Typed
  <2>2. in_flight' \in Seq(1..DataLength)
    BY <1>1, <2>1, AppendProperties DEF FeedSample, Typed
  <2>3. feed_done' \in BOOLEAN
    BY <1>1 DEF FeedSample, Typed
  <2> QED
    BY <1>1, <2>1, <2>2, <2>3 DEF FeedSample, Typed, diskVars, trainerVars
<1>2. CASE FeedExhausted
  BY <1>2 DEF FeedExhausted, Typed, diskVars, trainerVars
<1>3. CASE TrainStep
  <2>1. in_flight' \in Seq(1..DataLength)
    <3>1. in_flight \in Seq(1..DataLength) /\ RequiredSamples \in 0..Len(in_flight)
      BY <1>3, Constants, LenProperties DEF Typed, TrainStep
    <3> QED
      BY <1>3, <3>1, DropFirst DEF TrainStep
  <2>2. local_trigger_step' \in 1..TriggerParameterSyncStep
    BY <1>3, Constants DEF Typed, TrainStep, SyncDue
  <2> QED
    BY <1>3, <2>1, <2>2 DEF TrainStep, Typed, diskVars, feedVars
<1>4. CASE StopTraining
  <2>1. local_trigger_step' \in 1..TriggerParameterSyncStep
    BY <1>4, Constants DEF Typed, StopTraining
  <2> QED
    BY <1>4, <2>1 DEF StopTraining, Typed, diskVars, feedVars
<1>5. CASE SaveStep
  BY <1>0, <1>5, SaveLeaves, SaveKeepsTypes DEF Typed, feedVars
<1>6. CASE Restart
  <2>1. restarts' \in 0..MaxRestarts
    BY <1>0, <1>6, RestartLoads, Constants DEF Typed
  <2>2. CASE UNCHANGED <<trainerVars, feedVars, in_flight>> /\ status' = "unrecoverable"
    BY <1>0, <1>6, <2>1, <2>2, RestartLoads DEF Typed, trainerVars, feedVars, diskVars
  <2>3. CASE LoadCheckpoint(tracker) /\ (tracker = 0 \/ Resumable)
    <3>1. position' \in 0..DataLength
      BY <2>3, Constants DEF LoadCheckpoint, RestoredPosition, DiskInv, Resumable, Sound
    <3>2. in_flight' \in Seq(1..DataLength)
      BY <2>3, EmptySeq DEF LoadCheckpoint
    <3>3. previous_saved_paths' \in [Parts -> Seq(Versions)]
      BY <2>3, EmptySeq DEF LoadCheckpoint
    <3>4. local_trigger_step' \in 1..TriggerParameterSyncStep
      BY <2>3, Constants DEF LoadCheckpoint
    <3>5. UNCHANGED <<diskVars, elastic>>
      BY <1>0, <1>6, RestartLoads
    <3> QED
      BY <2>1, <2>3, <3>1, <3>2, <3>3, <3>4, <3>5 DEF Typed, LoadCheckpoint, diskVars
  <2> QED
    BY <1>0, <1>6, <2>2, <2>3, RestartLoads
<1>7. CASE UNCHANGED <<diskVars, restarts, elastic, trainerVars, feedVars, in_flight>>
  <2>1. status' \in {"up", "down", "finished", "unrecoverable"}
    BY <1>7 DEF Next, Typed, FeedSample, FeedExhausted, TrainStep, StopTraining, Finish, Crash,
       Restart, LoadCheckpoint, Ended, vars, SaveStep, Rotate, WriteWeights, WriteData,
       TruncateTracker, WriteTracker, Saving
  <2> QED
    BY <1>7, <2>1 DEF Typed, diskVars, trainerVars, feedVars
<1> QED
  BY <1>1, <1>2, <1>3, <1>4, <1>5, <1>6, <1>7, Steps

-----------------------------------------------------------------------------
(* Samples *)

LEMMA FlowFacts ==
    ASSUME Typed, FlowInv
    PROVE  /\ Len(in_flight) \in Nat /\ position \in Nat /\ Behind \in Nat
           /\ position = Behind + Len(in_flight) /\ Len(in_flight) <= MaxInFlight
           /\ RequiredSamples \in Nat \ {0} /\ MaxInFlight \in Nat /\ restarts \in Nat
           /\ IsFiniteSet(trained) /\ Cardinality(trained) \in Nat
PROOF
<1>1. Len(in_flight) \in Nat /\ position \in Nat /\ Len(in_flight) <= position
  BY LenProperties, Constants DEF Typed, FlowInv
<1>2. Behind \in Nat /\ position = Behind + Len(in_flight)
  BY <1>1 DEF Behind
<1>3. IsFiniteSet(1..Behind) /\ trained \subseteq 1..Behind
  BY <1>2, FS_Interval DEF FlowInv
<1>4. IsFiniteSet(trained) /\ Cardinality(trained) \in Nat
  BY <1>3, FS_Subset, FS_CardinalityType
<1> QED
  BY <1>1, <1>2, <1>4, Constants DEF Typed, FlowInv

\* A batch is the next samples in the data.
LEMMA BatchIsNext ==
    ASSUME Typed, FlowInv, TrainStep
    PROVE  /\ trained' = trained \cup ((Behind + 1)..(Behind + RequiredSamples))
           /\ Behind' = Behind + RequiredSamples
           /\ Len(in_flight') = Len(in_flight) - RequiredSamples
           /\ \A i \in 1..Len(in_flight') : in_flight'[i] = Behind' + i
           /\ Cardinality(trained') = Cardinality(trained) + RequiredSamples
           /\ Lacking(trained', Behind') = Lacking(trained, Behind)
PROOF
<1>1. /\ Len(in_flight) \in Nat /\ position \in Nat /\ Behind \in Nat
      /\ position = Behind + Len(in_flight) /\ RequiredSamples \in Nat \ {0}
      /\ IsFiniteSet(trained) /\ Cardinality(trained) \in Nat
  BY FlowFacts
<1>2. RequiredSamples <= Len(in_flight) /\ RequiredSamples \in 0..Len(in_flight)
  BY <1>1 DEF TrainStep
<1>3. /\ Len(in_flight') = Len(in_flight) - RequiredSamples
      /\ \A i \in 1..Len(in_flight') : in_flight'[i] = in_flight[RequiredSamples + i]
  <2>1. in_flight' = SubSeq(in_flight, RequiredSamples + 1, Len(in_flight))
    BY DEF TrainStep
  <2>2. in_flight \in Seq(1..DataLength)
    BY DEF Typed
  <2> QED
    BY <1>2, <2>1, <2>2, DropFirst
<1>4. Behind' = Behind + RequiredSamples
  <2>1. position' = position /\ Behind' = position' - Len(in_flight')
    BY DEF TrainStep, feedVars, Behind
  <2>2. Len(in_flight') = Len(in_flight) - RequiredSamples
    BY <1>3
  <2> QED
    BY <1>1, <2>1, <2>2
<1>5. \A i \in 1..Len(in_flight') : in_flight'[i] = Behind' + i
  <2> SUFFICES ASSUME NEW i \in 1..Len(in_flight')
               PROVE  in_flight'[i] = Behind' + i
    OBVIOUS
  <2>1. RequiredSamples + i \in 1..Len(in_flight)
    BY <1>1, <1>2, <1>3
  <2>2. in_flight[RequiredSamples + i] = Behind + (RequiredSamples + i)
    BY <2>1 DEF FlowInv
  <2> QED
    BY <1>1, <1>3, <1>4, <2>2
<1>6. {in_flight[i] : i \in 1..RequiredSamples} = (Behind + 1)..(Behind + RequiredSamples)
  <2>1. \A i \in 1..RequiredSamples : in_flight[i] = Behind + i
    BY <1>1, <1>2 DEF FlowInv
  <2>2. ASSUME NEW x \in (Behind + 1)..(Behind + RequiredSamples)
        PROVE  x \in {in_flight[i] : i \in 1..RequiredSamples}
    <3>1. x - Behind \in 1..RequiredSamples /\ Behind + (x - Behind) = x
      BY <1>1
    <3> QED
      BY <2>1, <3>1
  <2>3. ASSUME NEW i \in 1..RequiredSamples
        PROVE  in_flight[i] \in (Behind + 1)..(Behind + RequiredSamples)
    BY <1>1, <2>1
  <2> QED
    BY <2>2, <2>3
<1>7. trained' = trained \cup ((Behind + 1)..(Behind + RequiredSamples))
  BY <1>6 DEF TrainStep
<1>8. trained \subseteq 1..Behind
  BY DEF FlowInv
<1>9. Cardinality(trained') = Cardinality(trained) + RequiredSamples
  <2> DEFINE taken == (Behind + 1)..(Behind + RequiredSamples)
  <2>1. IsFiniteSet(taken) /\ Cardinality(taken) = RequiredSamples
    <3> DEFINE a == Behind + 1  b == Behind + RequiredSamples
    <3>1. a \in Int /\ b \in Int /\ b - a + 1 = RequiredSamples /\ ~(a > b)
      BY <1>1
    <3> HIDE DEF a, b
    <3>2. IsFiniteSet(a..b) /\ Cardinality(a..b) = RequiredSamples
      BY <3>1, FS_Interval
    <3> QED
      BY <3>2 DEF a, b
  <2>2. trained \cap taken = {}
    BY <1>1, <1>8
  <2> HIDE DEF taken
  <2>3. Cardinality(trained \cup taken) =
           Cardinality(trained) + Cardinality(taken) - Cardinality({})
    BY <1>1, <2>1, <2>2, FS_Union
  <2>4. Cardinality({}) = 0
    BY FS_EmptySet
  <2>5. trained' = trained \cup taken
    BY <1>7 DEF taken
  <2> QED
    BY <1>1, <2>1, <2>3, <2>4, <2>5
<1>10. Lacking(trained', Behind') = Lacking(trained, Behind)
  BY <1>1, <1>4, <1>7, <1>8 DEF Lacking
<1> QED
  BY <1>3, <1>4, <1>5, <1>7, <1>9, <1>10

\* What is lost grows by a bound of what was in flight at each restart.
LEMMA LostGrows ==
    ASSUME restarts \in Nat
    PROVE  /\ restarts * MaxInFlight \in Nat
           /\ (restarts + 1) * MaxInFlight = restarts * MaxInFlight + MaxInFlight
           /\ restarts * MaxInFlight <= (restarts + 1) * MaxInFlight
PROOF
<1>1. MaxInFlight \in Nat /\ MaxInFlight \in Int /\ restarts \in Int
  BY Constants
<1>2. restarts * MaxInFlight \in Nat
  BY <1>1, Product
<1>3. (restarts + 1) * MaxInFlight = restarts * MaxInFlight + MaxInFlight
  <2>1. restarts \in Int /\ MaxInFlight \in Int
    BY <1>1
  <2> QED
    BY <2>1, Distribute, ZenonT(20)
<1> DEFINE n == restarts * MaxInFlight  m == (restarts + 1) * MaxInFlight
<1>4. n \in Nat /\ m = n + MaxInFlight
  BY <1>2, <1>3
<1> HIDE DEF n, m
<1>5. n <= m
  BY <1>1, <1>4
<1> QED
  BY <1>2, <1>3, <1>5 DEF n, m

LEMMA FlowNextPreserves ==
    ASSUME Typed, LiveInv, SaveInv, DiskInv, [Next]_vars
    PROVE  FlowInv'
PROOF
<1>0. VersionInv /\ FlowInv
  BY DEF LiveInv
<1>1. /\ Len(in_flight) \in Nat /\ position \in Nat /\ Behind \in Nat
      /\ position = Behind + Len(in_flight) /\ Len(in_flight) <= MaxInFlight
      /\ RequiredSamples \in Nat \ {0} /\ MaxInFlight \in Nat /\ restarts \in Nat
  BY <1>0, FlowFacts
<1>2. CASE FeedSample
  <2>1. in_flight \in Seq(1..DataLength) /\ position' \in 1..DataLength /\ position' = position + 1
    BY <1>1, <1>2, Constants DEF Typed, FeedSample
  <2>2. in_flight' = Append(in_flight, position') /\ Len(in_flight) < MaxInFlight
    BY <1>2 DEF FeedSample
  <2>3. /\ Len(in_flight') = Len(in_flight) + 1
        /\ \A i \in 1..Len(in_flight) : in_flight'[i] = in_flight[i]
        /\ in_flight'[Len(in_flight) + 1] = position'
    BY <2>1, <2>2, AppendProperties
  <2>4. Behind' = Behind
    BY <1>1, <2>1, <2>3 DEF Behind
  <2>5. \A i \in 1..Len(in_flight') : in_flight'[i] = Behind' + i
    <3> SUFFICES ASSUME NEW i \in 1..Len(in_flight') PROVE in_flight'[i] = Behind' + i
      OBVIOUS
    <3>1. CASE i \in 1..Len(in_flight)
      BY <1>0, <2>3, <2>4, <3>1 DEF FlowInv
    <3>2. CASE i = Len(in_flight) + 1
      BY <1>1, <2>1, <2>3, <2>4, <3>2
    <3> QED
      BY <1>1, <2>3, <3>1, <3>2
  <2>6. Len(in_flight') <= position' /\ Len(in_flight') <= MaxInFlight
    BY <1>1, <2>1, <2>2, <2>3
  <2>7. UNCHANGED <<trained, restarts>>
    BY <1>2 DEF FeedSample, trainerVars
  <2> QED
    BY <1>0, <2>4, <2>5, <2>6, <2>7 DEF FlowInv
<1>3. CASE FeedExhausted
  BY <1>0, <1>3 DEF FeedExhausted, FlowInv, trainerVars, Behind
<1>4. CASE TrainStep
  <2>1. UNCHANGED <<position, restarts>>
    BY <1>4 DEF TrainStep, feedVars
  <2>2. Len(in_flight') <= position' /\ Len(in_flight') <= MaxInFlight
    BY <1>0, <1>1, <1>4, <2>1, BatchIsNext
  <2>3. trained' \subseteq 1..Behind'
    <3>1. /\ trained' = trained \cup ((Behind + 1)..(Behind + RequiredSamples))
          /\ Behind' = Behind + RequiredSamples
      BY <1>0, <1>4, BatchIsNext
    <3>2. trained \subseteq 1..Behind
      BY <1>0 DEF FlowInv
    <3> QED
      BY <1>1, <3>1, <3>2
  <2> QED
    BY <1>0, <1>4, <2>1, <2>2, <2>3, BatchIsNext DEF FlowInv
<1>5. CASE StopTraining
  BY <1>0, <1>5 DEF StopTraining, FlowInv, feedVars, Behind
<1>6. CASE SaveStep
  BY <1>0, <1>6, SaveLeaves DEF FlowInv, feedVars, Behind
<1>7. CASE Restart
  <2>1. CASE UNCHANGED <<trainerVars, feedVars, in_flight>>
    <3>1. restarts' = restarts + 1
      BY <1>0, <1>7, RestartLoads
    <3>2. Cardinality(Lacking(trained, Behind)) <= (restarts + 1) * MaxInFlight
      <4>1. Cardinality(Lacking(trained, Behind)) \in Nat
        <5>1. IsFiniteSet(1..Behind)
          BY <1>1, FS_Interval
        <5>2. IsFiniteSet(Lacking(trained, Behind))
          BY <5>1, FS_Difference DEF Lacking
        <5> QED
          BY <5>2, FS_CardinalityType
      <4> DEFINE l == Cardinality(Lacking(trained, Behind))  n == restarts * MaxInFlight
                 m == (restarts + 1) * MaxInFlight
      <4>2. l \in Nat /\ n \in Nat /\ m \in Nat /\ l <= n /\ n <= m
        BY <1>0, <1>1, <4>1, LostGrows DEF FlowInv
      <4> HIDE DEF l, n, m
      <4>3. l <= m
        BY <4>2
      <4> QED
        BY <4>3 DEF l, m
    <3> QED
      BY <1>0, <2>1, <3>1, <3>2 DEF FlowInv, trainerVars, feedVars, Behind
  <2>2. CASE LoadCheckpoint(tracker) /\ (tracker = 0 \/ Resumable)
    <3>1. restarts' = restarts + 1
      BY <1>0, <1>7, RestartLoads
    <3>2. in_flight' = <<>> /\ Len(in_flight') = 0
      BY <2>2, EmptySeq DEF LoadCheckpoint
    <3>3. position' \in Nat /\ Behind' = position'
      <4>1. position' \in 0..DataLength
        BY <2>2, Constants DEF LoadCheckpoint, RestoredPosition, DiskInv, Resumable, Sound
      <4>2. position' \in Nat
        BY <4>1, Constants
      <4>3. Behind' = position' - Len(in_flight')
        BY DEF Behind
      <4>4. Len(in_flight') = 0
        BY <3>2
      <4>5. Behind' = position' - 0
        BY <4>3, <4>4
      <4>6. \A n \in Nat : n - 0 = n
        OBVIOUS
      <4> QED
        BY <4>2, <4>5, <4>6
    <3>4. /\ trained' \subseteq 1..position'
          /\ Cardinality(Lacking(trained', position')) <= (restarts + 1) * MaxInFlight
      <4>1. CASE tracker = 0
        <5>1. trained' = {} /\ position' = 0
          BY <2>2, <4>1 DEF LoadCheckpoint, RestoredWeights, RestoredPosition
        <5>2. Lacking(trained', position') = {}
          BY <5>1 DEF Lacking
        <5>3. Cardinality(Lacking(trained', position')) = 0
          BY <5>2, FS_EmptySet
        <5>4. (restarts + 1) * MaxInFlight \in Nat
          BY <1>1, Product
        <5>5. 0 <= (restarts + 1) * MaxInFlight
          BY <5>4
        <5> QED
          BY <5>1, <5>3, <5>5
      <4>2. CASE Resumable
        <5>1. tracker # 0
          BY <4>2, Constants DEF Resumable
        <5>2. trained' = weights_file["actor"][tracker] /\ position' = data_file[tracker]
          BY <2>2, <5>1 DEF LoadCheckpoint, RestoredWeights, RestoredPosition
        <5> QED
          BY <4>2, <5>2 DEF DiskInv, Sound
      <4> QED
        BY <2>2, <4>1, <4>2
    <3> QED
      BY <1>1, <3>1, <3>2, <3>3, <3>4 DEF FlowInv
  <2> QED
    BY <1>0, <1>7, <2>1, <2>2, RestartLoads
<1>8. CASE UNCHANGED <<diskVars, restarts, elastic, trainerVars, feedVars, in_flight>>
  BY <1>0, <1>8 DEF FlowInv, trainerVars, feedVars, Behind
<1> QED
  BY <1>2, <1>3, <1>4, <1>5, <1>6, <1>7, <1>8, Steps

-----------------------------------------------------------------------------
(* Progress *)

\* Whole batches that leave less than a batch of the data leave no full one.
LEMMA NoBatchLeft ==
    ASSUME NEW k \in Nat, NEW r \in Nat \ {0}, NEW n \in Nat, n < k * r + r
    PROVE  k * r >= (n \div r) * r
PROOF
<1>1. n \div r \in Nat /\ (n \div r) * r <= n
  OBVIOUS
<1> DEFINE d == n \div r
<1>2. d \in Nat /\ d * r <= n
  BY <1>1
<1> HIDE DEF d
<1>3. d <= k
  <2> SUFFICES ASSUME k + 1 <= d PROVE FALSE
    BY <1>2
  <2>1. (k + 1) * r <= d * r
    BY <1>2, ProductOrder
  <2>2. (k + 1) * r = k * r + r
    <3>1. k \in Int /\ r \in Int
      OBVIOUS
    <3> QED
      BY <3>1, Distribute, ZenonT(20)
  <2>3. d * r \in Nat /\ k * r \in Nat
    BY <1>2, Product
  <2> DEFINE a == d * r  b == k * r
  <2>4. b + r <= a /\ a <= n /\ n < b + r /\ a \in Nat /\ b \in Nat
    BY <1>2, <2>1, <2>2, <2>3
  <2> HIDE DEF a, b
  <2> QED
    BY <2>4
<1>4. d * r <= k * r
  BY <1>2, <1>3, ProductOrder
<1>5. d * r \in Nat /\ k * r \in Nat
  BY <1>2, Product
<1> QED
  BY <1>4, <1>5 DEF d

LEMMA WholeBatchesGrow ==
    ASSUME NEW n \in Nat, WholeBatches(n)
    PROVE  WholeBatches(n + RequiredSamples)
PROOF
<1>1. PICK k \in Nat : n = k * RequiredSamples
  BY DEF WholeBatches
<1>2. k \in Int /\ RequiredSamples \in Int
  BY Constants
<1>3. (k + 1) * RequiredSamples = k * RequiredSamples + RequiredSamples
  BY <1>2, Distribute, ZenonT(20)
<1>4. k + 1 \in Nat
  OBVIOUS
<1> QED
  BY <1>1, <1>3, <1>4 DEF WholeBatches

LEMMA NothingIsWhole == WholeBatches(0)
PROOF
<1>1. 0 * RequiredSamples = 0 /\ 0 \in Nat
  BY Constants
<1> QED
  BY <1>1 DEF WholeBatches

LEMMA ProgressNextPreserves ==
    ASSUME Typed, LiveInv, SaveInv, DiskInv, [Next]_vars
    PROVE  ProgressInv'
PROOF
<1> DEFINE c == Cardinality(trained)
           n == StepSamples(current_param_version, local_trigger_step)
           l == Len(in_flight)
<1>0. VersionInv /\ FlowInv /\ ProgressInv
  BY DEF LiveInv
<1>1. /\ l \in Nat /\ position \in Nat /\ RequiredSamples \in Nat \ {0} /\ c \in Nat
      /\ global_steps \in Nat \ {0} /\ current_param_version \in Nat
      /\ local_trigger_step \in 1..TriggerParameterSyncStep /\ feed_done \in BOOLEAN
      /\ TotalRolloutSteps \in Nat /\ FullLength \in Nat
  <2>1. FullLength \in Nat
    <3>1. TotalRolloutSteps \div RequiredSamples \in Nat /\ RequiredSamples \in Nat
      BY Constants
    <3> QED
      BY <3>1, Product DEF FullLength
  <2> QED
    BY <1>0, <2>1, FlowFacts, Constants DEF Typed, VersionInv
<1>2. n \in Nat
  BY <1>1, StepSamplesFacts
<1>3. /\ WholeBatches(c)
      /\ feed_done => position = DataLength \/ global_steps >= TotalRolloutSteps
      /\ ~stopped => n + l <= Fed
      /\ \/ position = DataLength
         \/ c >= FullLength
         \/ ~stopped /\ c >= n /\ c + l >= Fed
  BY <1>0 DEF ProgressInv
<1>4. CASE FeedSample
  <2>1. UNCHANGED <<trained, stopped, current_param_version, local_trigger_step>>
    BY <1>4 DEF FeedSample, trainerVars
  <2>2. Len(in_flight') = l + 1
    <3>1. in_flight \in Seq(1..DataLength) /\ position' \in 1..DataLength
      BY <1>1, <1>4, Constants DEF Typed, FeedSample
    <3> QED
      BY <1>4, <3>1, AppendProperties DEF FeedSample
  <2>3. Fed' = Fed + 1 /\ Fed \in Int
    BY <1>1, <1>4 DEF FeedSample, Fed
  <2>4. position # DataLength
    BY <1>1, <1>4, Constants DEF FeedSample
  <2>5. feed_done' => global_steps' >= TotalRolloutSteps
    BY <1>4, <1>1 DEF FeedSample
  <2> HIDE DEF c, n, l
  <2>6. ~stopped => n + (l + 1) <= Fed'
    BY <1>1, <1>2, <1>3, <2>3
  <2>7. c >= FullLength \/ (~stopped /\ c >= n /\ c + (l + 1) >= Fed')
    BY <1>1, <1>2, <1>3, <2>3, <2>4
  <2> QED
    BY <1>3, <2>1, <2>2, <2>5, <2>6, <2>7 DEF ProgressInv, c, n
<1>5. CASE FeedExhausted
  <2>1. UNCHANGED <<trained, stopped, current_param_version, local_trigger_step, in_flight>>
    BY <1>5 DEF FeedExhausted, trainerVars
  <2>2. Fed' = Fed + 1 /\ Fed \in Int /\ position' = DataLength
    BY <1>1, <1>5 DEF FeedExhausted, Fed
  <2> HIDE DEF c, n, l
  <2>3. ~stopped => n + l <= Fed'
    BY <1>1, <1>2, <1>3, <2>2
  <2> QED
    BY <1>3, <2>1, <2>2, <2>3 DEF ProgressInv, c, n, l
<1>6. CASE TrainStep
  <2>1. UNCHANGED <<position, global_steps, feed_done, stopped>> /\ ~stopped
    BY <1>6 DEF TrainStep, feedVars
  <2>2. Cardinality(trained') = c + RequiredSamples /\ Len(in_flight') = l - RequiredSamples
    BY <1>0, <1>6, BatchIsNext
  <2>3. StepSamples(current_param_version', local_trigger_step') = n + RequiredSamples
    <3>1. CASE SyncDue
      <4>1. /\ current_param_version' = current_param_version + 1 /\ local_trigger_step' = 1
            /\ local_trigger_step = TriggerParameterSyncStep
        BY <1>1, <1>6, <3>1, Constants DEF TrainStep, NewVersion, SyncDue
      <4> QED
        BY <1>1, <4>1, StepSamplesFacts
    <3>2. CASE ~SyncDue
      <4>1. /\ current_param_version' = current_param_version
            /\ local_trigger_step' = local_trigger_step + 1
        BY <1>6, <3>2 DEF TrainStep, NewVersion
      <4> QED
        BY <1>1, <4>1, StepSamplesFacts
    <3> QED
      BY <3>1, <3>2
  <2>4. WholeBatches(c + RequiredSamples)
    BY <1>1, <1>3, WholeBatchesGrow
  <2>5. Fed' = Fed /\ Fed \in Int
    BY <1>1, <2>1 DEF Fed
  <2> HIDE DEF c, n, l
  <2>6. (n + RequiredSamples) + (l - RequiredSamples) <= Fed
    BY <1>1, <1>2, <1>3, <2>1, <2>5
  <2>7. \/ position = DataLength
        \/ c + RequiredSamples >= FullLength
        \/ /\ c + RequiredSamples >= n + RequiredSamples
           /\ (c + RequiredSamples) + (l - RequiredSamples) >= Fed
    BY <1>1, <1>2, <1>3, <2>5
  <2> QED
    BY <1>3, <2>1, <2>2, <2>3, <2>4, <2>5, <2>6, <2>7 DEF ProgressInv
<1>7. CASE StopTraining
  <2>1. /\ UNCHANGED <<trained, position, global_steps, feed_done, in_flight>>
        /\ stopped' /\ feed_done /\ l < RequiredSamples
    BY <1>7 DEF StopTraining, feedVars
  <2>2. position = DataLength \/ c >= FullLength
    <3> SUFFICES ASSUME position # DataLength, ~(c >= FullLength) PROVE FALSE
      OBVIOUS
    <3>1. c + l >= global_steps /\ global_steps >= TotalRolloutSteps
      BY <1>3, <2>1 DEF Fed
    <3>2. PICK k \in Nat : c = k * RequiredSamples
      BY <1>3 DEF WholeBatches
    <3> DEFINE m == k * RequiredSamples
    <3>3. TotalRolloutSteps < m + RequiredSamples
      <4>1. m = c
        BY <3>2
      <4> HIDE DEF c, l, m
      <4> QED
        BY <1>1, <2>1, <3>1, <4>1
    <3>4. m >= FullLength
      BY <1>1, <3>3, NoBatchLeft DEF FullLength
    <3> QED
      BY <3>2, <3>4
  <2> QED
    BY <1>3, <2>1, <2>2 DEF ProgressInv
<1>8. CASE SaveStep
  <2>1. UNCHANGED <<trained, position, global_steps, feed_done, in_flight, stopped,
                    current_param_version, local_trigger_step>>
    BY <1>8, SaveLeaves DEF feedVars
  <2> QED
    BY <1>0, <2>1 DEF ProgressInv, Fed
<1>9. CASE Restart
  <2>1. CASE UNCHANGED <<trainerVars, feedVars, in_flight>>
    BY <1>0, <2>1 DEF ProgressInv, Fed, trainerVars, feedVars
  <2>2. CASE LoadCheckpoint(tracker) /\ (tracker = 0 \/ Resumable)
    <3>1. /\ tracker \in Nat /\ current_param_version' = tracker /\ local_trigger_step' = 1
          /\ ~stopped' /\ ~feed_done' /\ in_flight' = <<>>
          /\ global_steps' = RestoredSteps(tracker)
          /\ trained' = RestoredWeights(tracker) /\ position' = RestoredPosition(tracker)
      BY <2>2, Constants DEF LoadCheckpoint, Resumable
    <3> DEFINE m == StepSamples(tracker, 1)
    <3>2. m \in Nat /\ global_steps' = m + 1
      <4>1. 1 \in 1..TriggerParameterSyncStep
        BY Constants
      <4> QED
        BY <3>1, <4>1, RestoredStepsCount, StepSamplesFacts
    <3>3. Len(in_flight') = 0
      BY <3>1, EmptySeq
    <3>4. Fed' = m
      <4>1. Fed' = global_steps' - 1
        BY <3>1 DEF Fed
      <4> HIDE DEF m
      <4> QED
        BY <3>2, <4>1
    <3>5. /\ WholeBatches(Cardinality(trained')) /\ Cardinality(trained') \in Nat
          /\ \/ position' = DataLength
             \/ Cardinality(trained') >= FullLength
             \/ Cardinality(trained') >= m
      <4>1. CASE tracker = 0
        <5>1. trained' = {}
          BY <3>1, <4>1 DEF RestoredWeights
        <5>2. Cardinality(trained') = 0
          BY <5>1, FS_EmptySet
        <5>3. m = 0
          <6>1. m = 0 * (RequiredSamples * TriggerParameterSyncStep)
            BY <4>1, RestoredStepsCount
          <6>2. RequiredSamples * TriggerParameterSyncStep \in Nat
            BY Constants, Product
          <6>3. \A a \in Nat : 0 * a = 0
            OBVIOUS
          <6> QED
            BY <6>1, <6>2, <6>3
        <5> QED
          BY <5>2, <5>3, NothingIsWhole
      <4>2. CASE Resumable
        <5>1. tracker # 0
          BY <4>2, Constants DEF Resumable
        <5>2. trained' = weights_file["actor"][tracker] /\ position' = data_file[tracker]
          BY <3>1, <5>1 DEF RestoredWeights, RestoredPosition
        <5>3. Sound(trained', position', tracker)
          BY <4>2, <5>2 DEF DiskInv
        <5>4. Cardinality(trained') \in Nat
          <6>1. position' \in Nat /\ trained' \subseteq 1..position'
            BY <5>3, Constants DEF Sound
          <6>2. IsFiniteSet(1..position')
            BY <6>1, FS_Interval
          <6>3. IsFiniteSet(trained')
            BY <6>1, <6>2, FS_Subset
          <6> QED
            BY <6>3, FS_CardinalityType
        <5> QED
          BY <5>3, <5>4 DEF Sound
      <4> QED
        BY <2>2, <4>1, <4>2
    <3> DEFINE d == Cardinality(trained')
    <3>6. /\ StepSamples(current_param_version', local_trigger_step') = m
          /\ m + 0 <= m /\ (d >= m => d + 0 >= m)
      <4>1. m \in Nat /\ d \in Nat
        BY <3>2, <3>5
      <4>2. StepSamples(current_param_version', local_trigger_step') = m
        BY <3>1
      <4> HIDE DEF m, d
      <4> QED
        BY <4>1, <4>2
    <3> HIDE DEF m
    <3> QED
      BY <3>1, <3>3, <3>4, <3>5, <3>6 DEF ProgressInv
  <2> QED
    BY <1>0, <1>9, <2>1, <2>2, RestartLoads
<1>10. CASE UNCHANGED <<diskVars, restarts, elastic, trainerVars, feedVars, in_flight>>
  BY <1>0, <1>10 DEF ProgressInv, Fed, trainerVars, feedVars
<1> QED
  BY <1>4, <1>5, <1>6, <1>7, <1>8, <1>9, <1>10, Steps

-----------------------------------------------------------------------------
(* The save under way *)

LEMMA SaveStepsFacts ==
    /\ SaveSteps \in Seq({"rotate", "write", "truncate"} \X {"actor", "critic", "data", "tracker"})
    /\ Len(SaveSteps) = 7
    /\ SaveSteps[1] = <<"rotate", "actor">> /\ SaveSteps[2] = <<"write", "actor">>
    /\ SaveSteps[3] = <<"rotate", "critic">> /\ SaveSteps[4] = <<"write", "critic">>
    /\ SaveSteps[5] = <<"write", "data">> /\ SaveSteps[6] = <<"truncate", "tracker">>
    /\ SaveSteps[7] = <<"write", "tracker">>
    /\ SubSeq(SaveSteps, 8, 7) = <<>>
    /\ SubSeq(SaveSteps, 1, 7) = SaveSteps
PROOF
<1> DEFINE step == {"rotate", "write", "truncate"} \X {"actor", "critic", "data", "tracker"}
<1>1. SaveSteps \in Seq(step) /\ Len(SaveSteps) = 7
  BY DEF SaveSteps
<1>2. /\ SaveSteps[1] = <<"rotate", "actor">> /\ SaveSteps[2] = <<"write", "actor">>
      /\ SaveSteps[3] = <<"rotate", "critic">> /\ SaveSteps[4] = <<"write", "critic">>
      /\ SaveSteps[5] = <<"write", "data">> /\ SaveSteps[6] = <<"truncate", "tracker">>
      /\ SaveSteps[7] = <<"write", "tracker">>
  BY DEF SaveSteps
<1>3. SubSeq(SaveSteps, 8, 7) = <<>>
  BY SubSeqEmpty
<1>4. SubSeq(SaveSteps, 1, 7) = SaveSteps
  BY <1>1, SubSeqFull
<1> QED
  BY <1>1, <1>2, <1>3, <1>4

\* The next write of a save, and what remains.
LEMMA SavesInOrder ==
    ASSUME SaveInv, todo # <<>>
    PROVE  /\ Len(todo) \in 1..7 /\ Head(todo) = SaveSteps[8 - Len(todo)]
           /\ Tail(todo) = SubSeq(SaveSteps, 8 - (Len(todo) - 1), 7)
           /\ Len(Tail(todo)) = Len(todo) - 1
PROOF
<1> DEFINE k == Len(todo)  m == 8 - k
<1>1. k \in 0..7 /\ todo = SubSeq(SaveSteps, m, 7)
  BY DEF SaveInv
<1>2. k # 0
  BY <1>1, SubSeqEmpty
<1>3. m \in 1..7 /\ m + 1 = 8 - (k - 1) /\ m \in 1..Len(SaveSteps) /\ 7 \in m..Len(SaveSteps)
      /\ k \in 1..7
  <2>1. Len(SaveSteps) = 7
    BY SaveStepsFacts
  <2>2. k \in 0..7 /\ k # 0
    BY <1>1, <1>2
  <2> HIDE DEF k
  <2> QED
    BY <2>1, <2>2
<1>4. Head(SubSeq(SaveSteps, m, 7)) = SaveSteps[m] /\ Tail(SubSeq(SaveSteps, m, 7)) = SubSeq(SaveSteps, m + 1, 7)
  BY <1>3, SaveStepsFacts, HeadTailOfSubSeq
<1>5. Len(Tail(todo)) = k - 1
  <2>1. Len(SubSeq(SaveSteps, m + 1, 7)) = IF m + 1 <= 7 THEN 7 - (m + 1) + 1 ELSE 0
    <3>1. m + 1 \in Int /\ 7 \in Int
      BY <1>3
    <3>2. \A i \in (m + 1)..7 : SaveSteps[i] \in {SaveSteps[j] : j \in 1..7}
      BY <1>3
    <3> QED
      BY <3>1, <3>2, SubSeqProperties
  <2> HIDE DEF m
  <2>2. m = 8 - k
    BY DEF m
  <2>4. k \in 1..7
    BY <1>3
  <2> HIDE DEF k
  <2>3. (IF m + 1 <= 7 THEN 7 - (m + 1) + 1 ELSE 0) = k - 1
    BY <2>2, <2>4
  <2> QED
    BY <1>1, <1>4, <2>1, <2>3
<1> QED
  BY <1>1, <1>3, <1>4, <1>5

\* Where a save is when it makes each of its writes.
LEMMA SavingAt ==
    ASSUME SaveInv
    PROVE  /\ Saving(<<"rotate", "actor">>) => Len(todo) = 7
           /\ Saving(<<"write", "actor">>) => Len(todo) = 6
           /\ Saving(<<"rotate", "critic">>) => Len(todo) = 5
           /\ Saving(<<"write", "critic">>) => Len(todo) = 4
           /\ Saving(<<"write", "data">>) => Len(todo) = 3
           /\ Saving(<<"truncate", "tracker">>) => Len(todo) = 2
           /\ Saving(<<"write", "tracker">>) => Len(todo) = 1
PROOF
<1>1. ASSUME todo # <<>>
      PROVE  \/ Len(todo) = 7 /\ Head(todo) = <<"rotate", "actor">>
             \/ Len(todo) = 6 /\ Head(todo) = <<"write", "actor">>
             \/ Len(todo) = 5 /\ Head(todo) = <<"rotate", "critic">>
             \/ Len(todo) = 4 /\ Head(todo) = <<"write", "critic">>
             \/ Len(todo) = 3 /\ Head(todo) = <<"write", "data">>
             \/ Len(todo) = 2 /\ Head(todo) = <<"truncate", "tracker">>
             \/ Len(todo) = 1 /\ Head(todo) = <<"write", "tracker">>
  <2> DEFINE k == Len(todo)
  <2>1. k \in 1..7 /\ Head(todo) = SaveSteps[8 - k]
    BY <1>1, SavesInOrder
  <2>2. /\ SaveSteps[1] = <<"rotate", "actor">> /\ SaveSteps[2] = <<"write", "actor">>
        /\ SaveSteps[3] = <<"rotate", "critic">> /\ SaveSteps[4] = <<"write", "critic">>
        /\ SaveSteps[5] = <<"write", "data">> /\ SaveSteps[6] = <<"truncate", "tracker">>
        /\ SaveSteps[7] = <<"write", "tracker">>
    BY SaveStepsFacts
  <2> HIDE DEF k
  <2>3. k = 7 \/ k = 6 \/ k = 5 \/ k = 4 \/ k = 3 \/ k = 2 \/ k = 1
    BY <2>1
  <2>4. 8 - 7 = 1 /\ 8 - 6 = 2 /\ 8 - 5 = 3 /\ 8 - 4 = 4 /\ 8 - 3 = 5 /\ 8 - 2 = 6 /\ 8 - 1 = 7
    OBVIOUS
  <2> QED
    BY <2>1, <2>2, <2>3, <2>4 DEF k
<1> QED
  BY <1>1 DEF Saving

\* What is sound to resume stays so: the bound of what is lost only grows.
LEMMA SoundStays ==
    ASSUME NEW w, NEW pos, NEW v, Typed, restarts' = restarts + 1, Sound(w, pos, v)
    PROVE  Sound(w, pos, v)'
PROOF
<1>1. restarts \in Nat
  BY Constants DEF Typed
<1>2. (restarts + 1) * MaxInFlight \in Nat
      /\ (restarts + 1) * MaxInFlight <= (restarts' + 1) * MaxInFlight
      /\ (restarts' + 1) * MaxInFlight \in Nat
  <2>1. restarts + 1 \in Nat /\ restarts' + 1 \in Nat /\ restarts + 1 <= restarts' + 1
        /\ MaxInFlight \in Nat
    BY <1>1, Constants
  <2> QED
    BY <2>1, Product, ProductOrder
<1>3. Cardinality(Lacking(w, pos)) \in Nat
  <2>1. IsFiniteSet(1..pos)
    BY Constants, FS_Interval DEF Sound
  <2>2. IsFiniteSet(Lacking(w, pos))
    BY <2>1, FS_Difference DEF Lacking
  <2> QED
    BY <2>2, FS_CardinalityType
<1>4. Cardinality(Lacking(w, pos)) <= (restarts' + 1) * MaxInFlight
  <2> DEFINE a == Cardinality(Lacking(w, pos))  b == (restarts + 1) * MaxInFlight
             c == (restarts' + 1) * MaxInFlight
  <2>1. a \in Nat /\ b \in Nat /\ c \in Nat /\ a <= b /\ b <= c
    BY <1>2, <1>3 DEF Sound
  <2> HIDE DEF a, b, c
  <2>2. a <= c
    BY <2>1
  <2> QED
    BY <2>2 DEF a, c
<1> QED
  BY <1>4 DEF Sound

\* What the processes hold is sound to resume from.
LEMMA LiveIsSound ==
    ASSUME Typed, LiveInv
    PROVE  Sound(trained, position, current_param_version)
PROOF
<1>0. VersionInv /\ FlowInv /\ ProgressInv
  BY DEF LiveInv
<1>1. trained \subseteq 1..position /\ position \in 0..DataLength
  BY <1>0, TrainedTyped DEF Typed
<1>2. /\ Len(in_flight) \in Nat /\ position \in Nat /\ Behind \in Nat
      /\ position = Behind + Len(in_flight) /\ Len(in_flight) <= MaxInFlight
      /\ MaxInFlight \in Nat /\ restarts \in Nat /\ Cardinality(trained) \in Nat
  BY <1>0, FlowFacts
<1>3. Cardinality(Lacking(trained, position)) <= (restarts + 1) * MaxInFlight
  <2> DEFINE a == Behind + 1  lost == Lacking(trained, Behind)
  <2>1. /\ IsFiniteSet(a..position)
        /\ Cardinality(a..position) = IF a > position THEN 0 ELSE position - a + 1
    <3>1. a \in Int /\ position \in Int
      BY <1>2
    <3> HIDE DEF a
    <3> QED
      BY <3>1, FS_Interval
  <2>2. Cardinality(a..position) = Len(in_flight)
    BY <1>2, <2>1
  <2>3. Lacking(trained, position) \subseteq lost \cup (a..position)
    BY <1>2 DEF Lacking
  <2>4. IsFiniteSet(lost) /\ Cardinality(lost) \in Nat
    <3>1. IsFiniteSet(1..Behind)
      BY <1>2, FS_Interval
    <3>2. IsFiniteSet(lost)
      BY <3>1, FS_Difference DEF Lacking
    <3> QED
      BY <3>2, FS_CardinalityType
  <2> DEFINE flight == a..position  both == lost \cup flight
  <2>5. IsFiniteSet(flight) /\ Cardinality(flight) = Len(in_flight)
    BY <2>1, <2>2
  <2>6. Lacking(trained, position) \in SUBSET both
    BY <2>3
  <2> HIDE DEF flight, lost
  <2>7. /\ IsFiniteSet(both)
        /\ Cardinality(both) = Cardinality(lost) + Cardinality(flight) - Cardinality(lost \cap flight)
    BY <2>4, <2>5, FS_Union
  <2>8. Cardinality(lost \cap flight) \in Nat
    BY <2>4, FS_Intersection, FS_CardinalityType
  <2>9. /\ Cardinality(Lacking(trained, position)) <= Cardinality(both)
        /\ IsFiniteSet(Lacking(trained, position))
    BY <2>6, <2>7, FS_Subset
  <2>10. Cardinality(Lacking(trained, position)) \in Nat
    BY <2>9, FS_CardinalityType
  <2>11. Cardinality(lost) <= restarts * MaxInFlight
    BY <1>0 DEF FlowInv, lost
  <2>12. /\ restarts * MaxInFlight \in Nat
         /\ (restarts + 1) * MaxInFlight = restarts * MaxInFlight + MaxInFlight
    BY <1>2, LostGrows
  <2> DEFINE x == Cardinality(Lacking(trained, position))  y == Cardinality(both)
             c == Cardinality(lost)  d == Cardinality(lost \cap flight)
             n == restarts * MaxInFlight  m == (restarts + 1) * MaxInFlight
             l == Len(in_flight)
  <2>13. /\ x <= y /\ y = c + l - d /\ d \in Nat /\ c \in Nat /\ c <= n /\ n \in Nat
         /\ m = n + MaxInFlight /\ l <= MaxInFlight /\ l \in Nat /\ x \in Nat
    BY <1>2, <2>4, <2>5, <2>7, <2>8, <2>9, <2>10, <2>11, <2>12
  <2> HIDE DEF x, y, c, d, n, m, l
  <2>14. x <= m
    BY <1>2, <2>13
  <2> QED
    BY <2>14 DEF x, m
<1>4. \/ position = DataLength
      \/ Cardinality(trained) >= FullLength
      \/ Cardinality(trained) >= StepSamples(current_param_version, 1)
  <2>1. CASE Cardinality(trained) >= StepSamples(current_param_version, local_trigger_step)
    <3>1. /\ StepSamples(current_param_version, local_trigger_step) \in Nat
          /\ StepSamples(current_param_version, 1) \in Nat
          /\ StepSamples(current_param_version, 1) <=
                StepSamples(current_param_version, local_trigger_step)
      BY <1>0, StepSamplesFacts DEF Typed, VersionInv
    <3> QED
      BY <1>2, <2>1, <3>1
  <2> QED
    BY <1>0, <2>1 DEF ProgressInv
<1> QED
  BY <1>0, <1>1, <1>3, <1>4 DEF Sound, ProgressInv

\* A save writes after its version's predecessors ...
LEMMA SavedNext ==
    ASSUME Typed, VersionInv, SaveInv, NEW p \in Parts, WriteWeights(p)
    PROVE  SavedInOrder(p)'
PROOF
<1> DEFINE saved == previous_saved_paths[p]  v == current_param_version  k == Len(todo)
<1>1. todo # <<>> /\ todo' = Tail(todo) /\ v' = v
  BY DEF WriteWeights, Saving
<1>2. v \in Versions /\ v # last_ckpt_version /\ last_ckpt_version \in 0..v /\ v \in Nat
  BY <1>1, SavedVersion DEF VersionInv
<1>3. k = (IF p = "actor" THEN 6 ELSE 4)
  BY SavingAt DEF WriteWeights, Parts
<1>4. Len(todo') = (IF p = "actor" THEN 5 ELSE 3)
  <2>1. Len(todo') = k - 1
    BY <1>1, SavesInOrder
  <2> HIDE DEF k
  <2> QED
    BY <1>3, <2>1
<1>5. LatestSaved(p) = last_ckpt_version /\ LatestSaved(p)' = v
  <2>1. LatestSaved(p) = last_ckpt_version
    BY <1>3 DEF LatestSaved, Parts
  <2>2. LatestSaved(p)' = current_param_version'
    BY <1>4 DEF LatestSaved, Parts
  <2> QED
    BY <1>1, <2>1, <2>2
<1>6. /\ saved \in Seq(Versions) /\ Len(saved) \in Nat
      /\ saved' = Append(saved, v)
  <2>1. saved \in Seq(Versions)
    BY DEF Typed
  <2>2. previous_saved_paths' = [previous_saved_paths EXCEPT ![p] = Append(@, v)]
    BY DEF WriteWeights
  <2> QED
    BY <2>1, <2>2, LenProperties DEF Typed
<1>7. /\ Len(saved') = Len(saved) + 1 /\ saved'[Len(saved) + 1] = v
      /\ \A i \in 1..Len(saved) : saved'[i] = saved[i]
  BY <1>2, <1>6, AppendProperties
<1>8. /\ \A i, j \in 1..Len(saved) : i < j => saved[i] < saved[j]
      /\ saved # <<>> => saved[Len(saved)] = last_ckpt_version
  BY <1>5 DEF SaveInv, SavedInOrder
<1>9. \A i \in 1..Len(saved) : saved[i] < v
  <2> SUFFICES ASSUME NEW i \in 1..Len(saved) PROVE saved[i] < v
    OBVIOUS
  <2>1. saved # <<>>
    BY <1>6, EmptySeq
  <2>2. saved[Len(saved)] < v
    BY <1>2, <1>8, <2>1
  <2>3. saved[i] \in Nat /\ saved[Len(saved)] \in Nat
    <3>1. i \in 1..Len(saved) /\ Len(saved) \in 1..Len(saved)
      BY <1>6
    <3>2. saved[i] \in Versions /\ saved[Len(saved)] \in Versions
      BY <1>6, <3>1, ElementOfSeq
    <3> QED
      BY <3>2, Constants
  <2>4. i = Len(saved) \/ saved[i] < saved[Len(saved)]
    BY <1>6, <1>8
  <2> QED
    BY <1>2, <2>2, <2>3, <2>4
<1>10. \A i, j \in 1..Len(saved') : i < j => saved'[i] < saved'[j]
  <2> SUFFICES ASSUME NEW i \in 1..Len(saved'), NEW j \in 1..Len(saved'), i < j
               PROVE  saved'[i] < saved'[j]
    OBVIOUS
  <2>1. i \in 1..Len(saved)
    BY <1>6, <1>7
  <2>2. CASE j \in 1..Len(saved)
    BY <1>7, <1>8, <2>1, <2>2
  <2>3. CASE j = Len(saved) + 1
    BY <1>7, <1>9, <2>1, <2>3
  <2> QED
    BY <1>6, <1>7, <2>2, <2>3
<1> QED
  BY <1>5, <1>7, <1>10 DEF SavedInOrder

\* ... and removes the oldest, never the version that the tracker names.
LEMMA RotateKeepsLatest ==
    ASSUME Typed, VersionInv, SaveInv, NEW p \in Parts, Rotate(p)
    PROVE  /\ SavedInOrder(p)'
           /\ tracker \in Versions =>
                \/ weights_file'[p][tracker] = weights_file[p][tracker]
                \/ MaxCkptToKeep = 1 /\ weights_file'[p][tracker] = Missing
PROOF
<1> DEFINE saved == previous_saved_paths[p]
           dropped == IF MaxCkptToKeep > 0 /\ Len(saved) >= MaxCkptToKeep
                      THEN Len(saved) - MaxCkptToKeep + 1 ELSE 0
           removed == {saved[i] : i \in 1..dropped}
           kept == [v \in Versions |-> IF v \in removed THEN Missing ELSE weights_file[p][v]]
           rest == SubSeq(saved, dropped + 1, Len(saved))
<1>1. /\ saved \in Seq(Versions) /\ Len(saved) \in Nat /\ dropped \in 0..Len(saved)
  <2>1. saved \in Seq(Versions) /\ Len(saved) \in Nat
    BY LenProperties DEF Typed
  <2> QED
    BY <2>1, Constants
<1>2. previous_saved_paths'[p] = rest /\ weights_file'[p] = kept
  <2>1. /\ previous_saved_paths' = [previous_saved_paths EXCEPT ![p] = rest]
        /\ weights_file' = [weights_file EXCEPT ![p] = kept]
    BY DEF Rotate
  <2> HIDE DEF kept, rest
  <2> QED
    BY <2>1 DEF Typed
<1>3. Len(todo) = (IF p = "actor" THEN 7 ELSE 5)
  BY SavingAt DEF Rotate, Parts
<1>4. Len(todo') = (IF p = "actor" THEN 6 ELSE 4)
  <2> DEFINE k == Len(todo)
  <2>1. Len(todo') = k - 1
    BY SavesInOrder DEF Rotate, Saving
  <2>2. k = (IF p = "actor" THEN 7 ELSE 5)
    BY <1>3
  <2> HIDE DEF k
  <2> QED
    BY <2>1, <2>2
<1>5. LatestSaved(p) = last_ckpt_version /\ LatestSaved(p)' = last_ckpt_version
  BY <1>3, <1>4 DEF LatestSaved, Parts, Rotate
<1>6. /\ \A i, j \in 1..Len(saved) : i < j => saved[i] < saved[j]
      /\ saved # <<>> => saved[Len(saved)] = last_ckpt_version
  BY <1>5 DEF SaveInv, SavedInOrder
<1>7. /\ Len(rest) = Len(saved) - dropped
      /\ \A i \in 1..Len(rest) : rest[i] = saved[dropped + i]
      /\ rest \in Seq(Versions)
  <2> HIDE DEF saved, dropped
  <2> QED
    BY <1>1, DropFirst
<1>8. \A i, j \in 1..Len(rest) : i < j => rest[i] < rest[j]
  <2> SUFFICES ASSUME NEW i \in 1..Len(rest), NEW j \in 1..Len(rest), i < j
               PROVE  rest[i] < rest[j]
    OBVIOUS
  <2>1. dropped + i \in 1..Len(saved) /\ dropped + j \in 1..Len(saved) /\ dropped + i < dropped + j
    <3> HIDE DEF saved, dropped, rest
    <3> QED
      BY <1>1, <1>7
  <2>2. saved[dropped + i] < saved[dropped + j]
    <3> HIDE DEF dropped
    <3> QED
      BY <1>6, <2>1
  <2> QED
    BY <1>7, <2>2
<1>9. rest # <<>> => rest[Len(rest)] = last_ckpt_version
  <2> SUFFICES ASSUME rest # <<>> PROVE rest[Len(rest)] = last_ckpt_version
    OBVIOUS
  <2>1. Len(rest) \in Nat \ {0}
    <3> HIDE DEF rest
    <3> QED
      BY <1>7, EmptySeq
  <2>2. dropped + Len(rest) = Len(saved) /\ Len(rest) \in 1..Len(rest) /\ Len(saved) # 0
    <3> HIDE DEF saved, dropped, rest
    <3> QED
      BY <1>1, <1>7, <2>1
  <2>3. saved # <<>>
    BY <2>2, EmptySeq
  <2> QED
    BY <1>6, <1>7, <2>2, <2>3
<1>10. SavedInOrder(p)'
  <2> HIDE DEF rest
  <2> QED
    BY <1>2, <1>5, <1>8, <1>9 DEF SavedInOrder, Rotate
<1>11. ASSUME MaxCkptToKeep # 1, tracker \in Versions
       PROVE  weights_file'[p][tracker] = weights_file[p][tracker]
  <2>1. tracker = last_ckpt_version
    <3>1. Len(todo) # 1
      BY <1>3
    <3> QED
      BY <3>1 DEF SaveInv
  <2>2. tracker \notin removed
    <3> SUFFICES ASSUME NEW i \in 1..dropped PROVE saved[i] # tracker
      OBVIOUS
    <3>1. dropped < Len(saved) /\ Len(saved) # 0
      <4>1. MaxCkptToKeep \in Nat /\ dropped # 0
        BY Constants
      <4> QED
        BY <1>1, <1>11, <4>1
    <3>2. i \in 1..Len(saved) /\ Len(saved) \in 1..Len(saved) /\ i < Len(saved)
      <4> HIDE DEF dropped
      <4> QED
        BY <1>1, <3>1
    <3>3. saved # <<>>
      BY <3>1, EmptySeq
    <3>4. saved[i] < saved[Len(saved)] /\ saved[Len(saved)] = tracker
      BY <1>6, <2>1, <3>2, <3>3
    <3>5. saved[i] \in Versions
      BY <1>1, <3>2, ElementOfSeq
    <3> QED
      BY <1>11, <3>4, <3>5, Constants
  <2> HIDE DEF removed
  <2> QED
    BY <1>2, <1>11, <2>2
<1>12. ASSUME tracker \in Versions
       PROVE  weights_file'[p][tracker] \in {weights_file[p][tracker], Missing}
  <2> HIDE DEF removed
  <2> QED
    BY <1>2, <1>12
<1> QED
  BY <1>10, <1>11, <1>12

LEMMA SaveStarts ==
    ASSUME SaveInv, UNCHANGED <<diskVars, restarts, last_ckpt_version, previous_saved_paths>>,
           todo = <<>>, todo' \in {<<>>, SaveSteps},
           todo' # <<>> => current_param_version' # last_ckpt_version
    PROVE  SaveInv'
PROOF
<1>1. Len(todo) = 0 /\ tracker = last_ckpt_version
  <2>1. Len(todo) = 0
    BY EmptySeq
  <2> QED
    BY <2>1 DEF SaveInv
<1>2. \/ Len(todo') = 0 /\ todo' = SubSeq(SaveSteps, 8 - 0, 7)
      \/ Len(todo') = 7 /\ todo' = SubSeq(SaveSteps, 8 - 7, 7) /\ todo' # <<>>
  <2>1. 8 - 0 = 8 /\ 8 - 7 = 1
    OBVIOUS
  <2>2. CASE todo' = <<>>
    BY <2>1, <2>2, SaveStepsFacts, EmptySeq
  <2>3. CASE todo' = SaveSteps
    <3>1. SaveSteps # <<>>
      BY SaveStepsFacts, EmptySeq
    <3> QED
      BY <2>1, <2>3, <3>1, SaveStepsFacts
  <2> QED
    BY <2>2, <2>3
<1>3. \A p \in Parts : LatestSaved(p) = last_ckpt_version /\ LatestSaved(p)' = last_ckpt_version
  BY <1>1, <1>2 DEF LatestSaved
<1>4. \A p \in Parts : SavedInOrder(p)'
  BY <1>3 DEF SaveInv, SavedInOrder
<1>5. tracker' = last_ckpt_version'
  BY <1>1 DEF diskVars
<1>6. /\ Len(todo') \in 0..7 /\ todo' = SubSeq(SaveSteps, 8 - Len(todo'), 7)
      /\ Len(todo') # 1 /\ Len(todo') \notin 1..5
  <2>1. CASE Len(todo') = 0 /\ todo' = SubSeq(SaveSteps, 8 - 0, 7)
    BY <2>1
  <2>2. CASE Len(todo') = 7 /\ todo' = SubSeq(SaveSteps, 8 - 7, 7)
    BY <2>2
  <2> QED
    BY <1>2, <2>1, <2>2
<1>7. Len(todo') # 0 => current_param_version' # last_ckpt_version'
  <2>1. Len(todo') # 0 => todo' # <<>>
    BY EmptySeq
  <2> QED
    BY <2>1
<1>8. Written(Len(todo))'
  BY <1>6 DEF Written
<1> QED
  BY <1>4, <1>5, <1>6, <1>7, <1>8 DEF SaveInv

\* Where nothing is saved, the saved versions stay as they are.
LEMMA SavedKept ==
    ASSUME NEW p \in Parts, SavedInOrder(p), previous_saved_paths'[p] = previous_saved_paths[p],
           LatestSaved(p)' = LatestSaved(p)
    PROVE  SavedInOrder(p)'
PROOF
  BY DEF SavedInOrder

LEMMA LatestByProgress ==
    ASSUME Len(todo) \in 1..7, Len(todo') = Len(todo) - 1, UNCHANGED current_param_version
    PROVE  /\ LatestSaved("actor") = (IF Len(todo) <= 5 THEN current_param_version
                                                      ELSE last_ckpt_version)
           /\ LatestSaved("critic") = (IF Len(todo) <= 3 THEN current_param_version
                                                       ELSE last_ckpt_version)
           /\ LatestSaved("actor")' = (IF Len(todo) \in 2..6 THEN current_param_version
                                                          ELSE last_ckpt_version')
           /\ LatestSaved("critic")' = (IF Len(todo) \in 2..4 THEN current_param_version
                                                           ELSE last_ckpt_version')
PROOF
<1> DEFINE k == Len(todo)  n == Len(todo')
<1>1. k \in 1..7 /\ n = k - 1
  OBVIOUS
<1> HIDE DEF k, n
<1>2. /\ k # 0 /\ (n # 0 /\ n <= 5 <=> k \in 2..6) /\ (n # 0 /\ n <= 3 <=> k \in 2..4)
  BY <1>1
<1>3. LatestSaved("actor") = (IF k <= 5 THEN current_param_version ELSE last_ckpt_version)
  BY <1>2 DEF LatestSaved, k
<1>4. LatestSaved("critic") = (IF k <= 3 THEN current_param_version ELSE last_ckpt_version)
  BY <1>2 DEF LatestSaved, k
<1>5. LatestSaved("actor")' =
         (IF n # 0 /\ n <= 5 THEN current_param_version' ELSE last_ckpt_version')
  BY DEF LatestSaved, n
<1>6. LatestSaved("critic")' =
         (IF n # 0 /\ n <= 3 THEN current_param_version' ELSE last_ckpt_version')
  BY DEF LatestSaved, n
<1>7. LatestSaved("actor")' = (IF k \in 2..6 THEN current_param_version ELSE last_ckpt_version')
  BY <1>2, <1>5
<1>8. LatestSaved("critic")' = (IF k \in 2..4 THEN current_param_version ELSE last_ckpt_version')
  BY <1>2, <1>6
<1> QED
  BY <1>3, <1>4, <1>7, <1>8 DEF k

LEMMA SaveGoesOn ==
    ASSUME Typed, LiveInv, SaveInv, SaveStep
    PROVE  SaveInv'
PROOF
<1> DEFINE v == current_param_version
           k == Len(todo)
<1>0. VersionInv /\ FlowInv
  BY DEF LiveInv
<1>1. /\ todo # <<>> /\ todo' = Tail(todo)
      /\ UNCHANGED <<current_param_version, restarts, trained, position>>
  BY SaveLeaves DEF feedVars
<1>2. k \in 1..7 /\ todo' = SubSeq(SaveSteps, 8 - (k - 1), 7) /\ Len(todo') = k - 1
  BY <1>1, SavesInOrder
<1>3. v \in Versions /\ v # last_ckpt_version
  BY <1>0, <1>1, SavedVersion
<1>4. \A w, pos, u : Sound(w, pos, u)' <=> Sound(w, pos, u)
  BY <1>1 DEF Sound
<1>5. /\ tracker = (IF k = 1 THEN Empty ELSE last_ckpt_version)
      /\ Written(k) /\ \A p \in Parts : SavedInOrder(p)
  BY DEF SaveInv
<1>6. /\ weights_file \in [Parts -> [Versions -> {Missing} \cup SUBSET (1..DataLength)]]
      /\ data_file \in [Versions -> -1..DataLength]
      /\ previous_saved_paths \in [Parts -> Seq(Versions)]
  BY DEF Typed
<1>7. /\ LatestSaved("actor") = (IF k <= 5 THEN v ELSE last_ckpt_version)
      /\ LatestSaved("critic") = (IF k <= 3 THEN v ELSE last_ckpt_version)
      /\ LatestSaved("actor")' = (IF k \in 2..6 THEN v ELSE last_ckpt_version')
      /\ LatestSaved("critic")' = (IF k \in 2..4 THEN v ELSE last_ckpt_version')
  BY <1>1, <1>2, LatestByProgress
<1>8. "actor" \in Parts /\ "critic" \in Parts /\ Parts = {"actor", "critic"}
  BY DEF Parts
<1>9. ASSUME tracker' = (IF k = 2 THEN Empty ELSE last_ckpt_version'),
             k = 1 \/ last_ckpt_version' = last_ckpt_version,
             Written(Len(todo))', SavedInOrder("actor")', SavedInOrder("critic")'
      PROVE  SaveInv'
  <2>1. /\ Len(todo') \in 0..7 /\ todo' = SubSeq(SaveSteps, 8 - Len(todo'), 7)
        /\ (Len(todo') = 1 <=> k = 2) /\ (Len(todo') = 0 <=> k = 1)
    <3> HIDE DEF k
    <3> QED
      BY <1>2
  <2>2. Written(Len(todo))'
    BY <1>9
  <2>3. Len(todo') # 0 => current_param_version' # last_ckpt_version'
    BY <1>1, <1>3, <1>9, <2>1
  <2> HIDE DEF k, v
  <2> QED
    BY <1>8, <1>9, <2>1, <2>2, <2>3 DEF SaveInv
<1>10. CASE Rotate("actor")
  <2>1. k = 7 /\ Len(todo') = 6
    <3>1. k = 7
      BY <1>10, SavingAt DEF Rotate
    <3> QED
      BY <1>2, <3>1
  <2>2. UNCHANGED <<tracker, last_ckpt_version>>
    BY <1>10 DEF Rotate
  <2>3. SavedInOrder("actor")'
    BY <1>0, <1>8, <1>10, RotateKeepsLatest
  <2>4. SavedInOrder("critic")'
    <3>1. previous_saved_paths'["critic"] = previous_saved_paths["critic"]
      BY <1>6, <1>8, <1>10 DEF Rotate
    <3>2. LatestSaved("critic")' = LatestSaved("critic")
      BY <1>7, <2>1, <2>2
    <3> QED
      BY <1>5, <1>8, <3>1, <3>2, SavedKept
  <2>5. Written(Len(todo))'
    BY <2>1 DEF Written
  <2> QED
    BY <1>5, <1>9, <2>1, <2>2, <2>3, <2>4, <2>5
<1>11. CASE WriteWeights("actor")
  <2>1. k = 6 /\ Len(todo') = 5
    <3>1. k = 6
      BY <1>11, SavingAt DEF WriteWeights
    <3> QED
      BY <1>2, <3>1
  <2>2. /\ UNCHANGED <<tracker, last_ckpt_version>>
        /\ weights_file'["actor"][v] = trained
    BY <1>3, <1>6, <1>8, <1>11 DEF WriteWeights, SavedWeights
  <2>3. SavedInOrder("actor")'
    BY <1>0, <1>8, <1>11, SavedNext
  <2>4. SavedInOrder("critic")'
    <3>1. previous_saved_paths'["critic"] = previous_saved_paths["critic"]
      BY <1>6, <1>8, <1>11 DEF WriteWeights
    <3>2. LatestSaved("critic")' = LatestSaved("critic")
      BY <1>7, <2>1, <2>2
    <3> QED
      BY <1>5, <1>8, <3>1, <3>2, SavedKept
  <2>5. Written(Len(todo))'
    <3>1. weights_file'["actor"][current_param_version'] = trained'
      BY <1>1, <2>2
    <3> HIDE DEF k, v
    <3> QED
      BY <2>1, <3>1 DEF Written
  <2> QED
    BY <1>5, <1>9, <2>1, <2>2, <2>3, <2>4, <2>5
<1>12. CASE Rotate("critic")
  <2>1. k = 5 /\ Len(todo') = 4
    <3>1. k = 5
      BY <1>12, SavingAt DEF Rotate
    <3> QED
      BY <1>2, <3>1
  <2>2. UNCHANGED <<tracker, last_ckpt_version>>
    BY <1>12 DEF Rotate
  <2>3. SavedInOrder("critic")'
    BY <1>0, <1>8, <1>12, RotateKeepsLatest
  <2>4. SavedInOrder("actor")'
    <3>1. previous_saved_paths'["actor"] = previous_saved_paths["actor"]
      BY <1>6, <1>8, <1>12 DEF Rotate
    <3>2. LatestSaved("actor")' = LatestSaved("actor")
      BY <1>7, <2>1
    <3> QED
      BY <1>5, <1>8, <3>1, <3>2, SavedKept
  <2>5. Written(Len(todo))'
    <3>1. weights_file'["actor"] = weights_file["actor"]
      BY <1>6, <1>8, <1>12 DEF Rotate
    <3>2. weights_file["actor"][v] = trained
      BY <1>5, <2>1 DEF Written
    <3>3. weights_file'["actor"][current_param_version'] = trained'
      BY <1>1, <3>1, <3>2
    <3> HIDE DEF k, v
    <3> QED
      BY <2>1, <3>3 DEF Written
  <2> QED
    BY <1>5, <1>9, <2>1, <2>2, <2>3, <2>4, <2>5
<1>13. CASE WriteWeights("critic")
  <2>1. k = 4 /\ Len(todo') = 3
    <3>1. k = 4
      BY <1>13, SavingAt DEF WriteWeights
    <3> QED
      BY <1>2, <3>1
  <2>2. /\ UNCHANGED <<tracker, last_ckpt_version>>
        /\ weights_file'["critic"][v] = trained
    BY <1>3, <1>6, <1>8, <1>13 DEF WriteWeights, SavedWeights
  <2>3. SavedInOrder("critic")'
    BY <1>0, <1>8, <1>13, SavedNext
  <2>4. SavedInOrder("actor")'
    <3>1. previous_saved_paths'["actor"] = previous_saved_paths["actor"]
      BY <1>6, <1>8, <1>13 DEF WriteWeights
    <3>2. LatestSaved("actor")' = LatestSaved("actor")
      BY <1>7, <2>1
    <3> QED
      BY <1>5, <1>8, <3>1, <3>2, SavedKept
  <2>5. Written(Len(todo))'
    <3>1. weights_file'["actor"] = weights_file["actor"]
      BY <1>6, <1>8, <1>13 DEF WriteWeights
    <3>2. weights_file["actor"][v] = trained
      BY <1>5, <2>1 DEF Written
    <3>3. /\ weights_file'["actor"][current_param_version'] = trained'
          /\ weights_file'["critic"][current_param_version'] = trained'
      BY <1>1, <2>2, <3>1, <3>2
    <3> HIDE DEF k, v
    <3> QED
      BY <2>1, <3>3 DEF Written
  <2> QED
    BY <1>5, <1>9, <2>1, <2>2, <2>3, <2>4, <2>5
<1>14. ASSUME UNCHANGED <<weights_file, previous_saved_paths>>, k \in 1..3,
              k = 1 => last_ckpt_version' = v
       PROVE  /\ SavedInOrder("actor")' /\ SavedInOrder("critic")'
              /\ weights_file'["actor"][v'] = trained' /\ weights_file'["critic"][v'] = trained'
  <2>1. (k = 1 \/ k = 2 \/ k = 3) /\ k <= 5 /\ k <= 3
    <3> HIDE DEF k
    <3> QED
      BY <1>14
  <2>2. /\ LatestSaved("actor")' = LatestSaved("actor")
        /\ LatestSaved("critic")' = LatestSaved("critic")
    <3>1. LatestSaved("actor") = v /\ LatestSaved("critic") = v
      BY <1>7, <2>1
    <3>2. LatestSaved("actor")' = v /\ LatestSaved("critic")' = v
      <4>1. CASE k = 1
        <5>1. k \notin 2..6 /\ k \notin 2..4
          BY <4>1
        <5> QED
          BY <1>7, <1>14, <4>1, <5>1
      <4>2. CASE k = 2 \/ k = 3
        <5>1. k \in 2..6 /\ k \in 2..4
          BY <4>2
        <5> QED
          BY <1>7, <5>1
      <4> QED
        BY <2>1, <4>1, <4>2
    <3> QED
      BY <3>1, <3>2
  <2>3. weights_file["actor"][v] = trained /\ weights_file["critic"][v] = trained
    BY <1>5, <2>1 DEF Written
  <2> QED
    BY <1>1, <1>5, <1>8, <1>14, <2>2, <2>3, SavedKept
<1>15. CASE WriteData
  <2>1. k = 3 /\ Len(todo') = 2
    <3>1. k = 3
      BY <1>15, SavingAt DEF WriteData
    <3> QED
      BY <1>2, <3>1
  <2>2. /\ UNCHANGED <<weights_file, tracker, last_ckpt_version, previous_saved_paths>>
        /\ data_file'[v] = position
    BY <1>3, <1>6, <1>15 DEF WriteData
  <2>3. Sound(trained, position, v)
    BY LiveIsSound
  <2>4. Written(Len(todo))'
    BY <1>1, <1>14, <2>1, <2>2, <2>3 DEF Written, Sound
  <2> QED
    BY <1>5, <1>9, <1>14, <2>1, <2>2, <2>4
<1>16. CASE TruncateTracker
  <2>1. k = 2 /\ Len(todo') = 1
    <3>1. k = 2
      BY <1>16, SavingAt DEF TruncateTracker
    <3> QED
      BY <1>2, <3>1
  <2>2. /\ UNCHANGED <<weights_file, data_file, last_ckpt_version, previous_saved_paths>>
        /\ tracker' = Empty
    BY <1>16 DEF TruncateTracker
  <2>3. Sound(trained, data_file[v], v)
    BY <1>5, <2>1 DEF Written
  <2>4. Written(Len(todo))'
    BY <1>1, <1>14, <2>1, <2>2, <2>3 DEF Written, Sound
  <2> QED
    BY <1>9, <1>14, <2>1, <2>2, <2>4
<1>17. CASE WriteTracker
  <2>1. k = 1 /\ Len(todo') = 0
    <3>1. k = 1
      BY <1>17, SavingAt DEF WriteTracker
    <3> QED
      BY <1>2, <3>1
  <2>2. /\ UNCHANGED <<weights_file, data_file, previous_saved_paths>>
        /\ tracker' = v /\ last_ckpt_version' = v
    BY <1>17 DEF WriteTracker
  <2>3. Written(Len(todo))'
    BY <2>1 DEF Written
  <2> QED
    BY <1>9, <1>14, <2>1, <2>2, <2>3
<1> QED
  BY <1>8, <1>10, <1>11, <1>12, <1>13, <1>15, <1>16, <1>17 DEF SaveStep

LEMMA SaveNextPreserves ==
    ASSUME Typed, LiveInv, SaveInv, DiskInv, [Next]_vars
    PROVE  SaveInv'
PROOF
<1>0. VersionInv
  BY DEF LiveInv
<1>1. CASE FeedSample \/ FeedExhausted \/
           UNCHANGED <<diskVars, restarts, elastic, trainerVars, feedVars, in_flight>>
  <2>1. UNCHANGED <<diskVars, restarts, trainerVars>>
    BY <1>1 DEF FeedSample, FeedExhausted
  <2> QED
    BY <2>1 DEF SaveInv, SavedInOrder, Written, diskVars, trainerVars, LatestSaved, Sound
<1>2. CASE TrainStep \/ StopTraining
  <2>1. /\ UNCHANGED <<diskVars, restarts, last_ckpt_version, previous_saved_paths>>
        /\ todo = <<>>
    BY <1>2 DEF TrainStep, StopTraining
  <2>2. CheckSave(current_param_version')
    BY <1>2 DEF TrainStep, StopTraining, NewVersion
  <2>3. /\ todo' \in {<<>>, SaveSteps}
        /\ todo' # <<>> => current_param_version' # last_ckpt_version
    BY <2>2 DEF CheckSave
  <2> QED
    BY <2>1, <2>3, SaveStarts
<1>3. CASE SaveStep
  BY <1>3, SaveGoesOn
<1>4. CASE Restart
  <2>1. restarts' = restarts + 1 /\ UNCHANGED diskVars
    BY <1>0, <1>4, RestartLoads
  <2>2. CASE UNCHANGED <<trainerVars, feedVars, in_flight>>
    <3>1. UNCHANGED <<todo, trained, data_file, weights_file, tracker, current_param_version,
                      last_ckpt_version, previous_saved_paths>>
      BY <2>1, <2>2 DEF diskVars, trainerVars
    <3>2. \A a, b, c : Sound(a, b, c) =>
              Cardinality(Lacking(a, b)) <= (restarts' + 1) * MaxInFlight
      <4> SUFFICES ASSUME NEW a, NEW b, NEW c, Sound(a, b, c)
                   PROVE  Cardinality(Lacking(a, b)) <= (restarts' + 1) * MaxInFlight
        OBVIOUS
      <4>1. Sound(a, b, c)'
        BY <2>1, SoundStays
      <4> QED
        BY <4>1 DEF Sound
    <3>3. Written(Len(todo))'
      <4>1. Written(Len(todo))
        BY DEF SaveInv
      <4>2. Len(todo) \in 1..2 => Sound(trained, data_file[current_param_version],
                                       current_param_version)'
        BY <3>1, <3>2, <4>1 DEF Written, Sound
      <4> QED
        BY <3>1, <4>1, <4>2 DEF Written
    <3>4. \A p \in Parts : SavedInOrder(p)'
      BY <3>1 DEF SaveInv, SavedInOrder, LatestSaved
    <3> QED
      BY <3>1, <3>3, <3>4 DEF SaveInv
  <2>3. CASE LoadCheckpoint(tracker) /\ (tracker = 0 \/ Resumable)
    <3>1. /\ todo' = <<>> /\ last_ckpt_version' = tracker /\ tracker' = tracker
          /\ previous_saved_paths' = [p \in Parts |-> <<>>]
      BY <2>1, <2>3 DEF LoadCheckpoint, diskVars
    <3>2. Len(todo') = 0 /\ todo' = SubSeq(SaveSteps, 8 - 0, 7)
      <4>1. 8 - 0 = 8
        OBVIOUS
      <4> QED
        BY <3>1, <4>1, SaveStepsFacts, EmptySeq
    <3>3. \A p \in Parts : SavedInOrder(p)'
      <4>1. \A p \in Parts : previous_saved_paths'[p] = <<>> /\ Len(<<>>) = 0
        BY <3>1, EmptySeq
      <4> QED
        BY <4>1 DEF SavedInOrder
    <3>4. Written(0)'
      BY DEF Written
    <3>5. Written(Len(todo))'
      BY <3>2, <3>4
    <3> QED
      BY <3>1, <3>2, <3>3, <3>5 DEF SaveInv
  <2> QED
    BY <1>0, <1>4, <2>2, <2>3, RestartLoads
<1> QED
  BY <1>1, <1>2, <1>3, <1>4, Steps

-----------------------------------------------------------------------------
(* What is on disk *)

\* What a step may do to the checkpoint that the tracker names.
LEMMA DiskKept ==
    ASSUME Typed, DiskInv, tracker' = tracker, restarts' \in {restarts, restarts + 1},
           tracker \in Versions => data_file'[tracker] = data_file[tracker],
           tracker \in Versions =>
               \A p \in Parts :
                   \/ weights_file'[p][tracker] = weights_file[p][tracker]
                   \/ MaxCkptToKeep = 1 /\ weights_file'[p][tracker] = Missing
    PROVE  DiskInv'
PROOF
<1> SUFFICES ASSUME Resumable'
             PROVE  /\ (weights_file["critic"][tracker] = weights_file["actor"][tracker])'
                    /\ Sound(weights_file["actor"][tracker], data_file[tracker], tracker)'
                    /\ (tracker <= TotalRolloutSteps + 2 * restarts + 1)'
  BY DEF DiskInv
<1>1. tracker \in Versions
  BY DEF Resumable, Versions
<1>2. \A p \in Parts : MaxCkptToKeep = 1 => weights_file'[p][tracker] # Missing
  <2> SUFFICES ASSUME MaxCkptToKeep = 1 PROVE \A p \in Parts : weights_file'[p][tracker] # Missing
    OBVIOUS
  <2>1. tracker # NoTracker
    BY <1>1 DEF Versions, NoTracker
  <2> QED
    BY <2>1 DEF Resumable, Loadable
<1>3. \A p \in Parts : weights_file'[p][tracker] = weights_file[p][tracker]
  BY <1>1, <1>2
<1>4. Resumable
  BY <1>1, <1>2, <1>3 DEF Resumable, Loadable
<1>5. /\ weights_file["critic"][tracker] = weights_file["actor"][tracker]
      /\ Sound(weights_file["actor"][tracker], data_file[tracker], tracker)
      /\ tracker <= TotalRolloutSteps + 2 * restarts + 1
  BY <1>4 DEF DiskInv
<1>6. \A w, pos, u : Sound(w, pos, u) => Sound(w, pos, u)'
  <2>1. CASE restarts' = restarts
    BY <2>1 DEF Sound
  <2>2. CASE restarts' = restarts + 1
    BY <2>2, SoundStays
  <2> QED
    BY <2>1, <2>2
<1>7. /\ weights_file'["actor"][tracker] = weights_file["actor"][tracker]
      /\ weights_file'["critic"][tracker] = weights_file["critic"][tracker]
      /\ data_file'[tracker] = data_file[tracker]
  BY <1>1, <1>3 DEF Parts
<1>8. tracker <= TotalRolloutSteps + 2 * restarts' + 1
  <2>1. tracker \in Nat /\ restarts \in Nat /\ TotalRolloutSteps \in Nat
    BY <1>1, Constants DEF Typed
  <2>2. tracker <= TotalRolloutSteps + 2 * restarts + 1
    BY <1>5
  <2>3. CASE restarts' = restarts
    BY <2>2, <2>3
  <2>4. CASE restarts' = restarts + 1
    <3> DEFINE r == restarts  a == TotalRolloutSteps  t == tracker
    <3>1. t \in Nat /\ r \in Nat /\ a \in Nat /\ t <= a + 2 * r + 1
      BY <2>1, <2>2
    <3> HIDE DEF r, a, t
    <3>2. t <= a + 2 * (r + 1) + 1
      BY <3>1
    <3> QED
      BY <2>4, <3>2 DEF r, a, t
  <2> QED
    BY <2>3, <2>4
<1>9. Sound(weights_file["actor"][tracker], data_file[tracker], tracker)'
  <2> DEFINE w == weights_file["actor"][tracker]  pos == data_file[tracker]
  <2>1. Sound(w, pos, tracker)
    BY <1>5
  <2>2. w' = w /\ pos' = pos /\ tracker' = tracker
    BY <1>7
  <2>3. CASE restarts' = restarts
    <3> HIDE DEF w, pos
    <3>1. Sound(w, pos, tracker)'
      BY <2>1, <2>2, <2>3 DEF Sound
    <3> QED
      BY <3>1 DEF w, pos
  <2>4. CASE restarts' = restarts + 1
    <3>1. \A x, y, u : Sound(x, y, u) =>
              Cardinality(Lacking(x, y)) <= (restarts' + 1) * MaxInFlight
      BY <1>6, <2>4 DEF Sound
    <3> HIDE DEF w, pos
    <3>2. Sound(w, pos, tracker)'
      BY <2>1, <2>2, <3>1 DEF Sound
    <3> QED
      BY <3>2 DEF w, pos
  <2> QED
    BY <2>3, <2>4
<1> QED
  BY <1>5, <1>7, <1>8, <1>9

\* Up to the writing of the tracker, a save leaves the checkpoint it names alone.
LEMMA SaveSparesLatest ==
    ASSUME Typed, VersionInv, SaveInv, SaveStep, Len(todo) \notin 1..2
    PROVE  /\ tracker' = tracker
           /\ tracker \in Versions => data_file'[tracker] = data_file[tracker]
           /\ tracker \in Versions =>
                  \A p \in Parts :
                      \/ weights_file'[p][tracker] = weights_file[p][tracker]
                      \/ MaxCkptToKeep = 1 /\ weights_file'[p][tracker] = Missing
PROOF
<1> DEFINE v == current_param_version
<1>1. v \in Versions /\ v # last_ckpt_version /\ tracker = last_ckpt_version
  <2>1. todo # <<>>
    BY SaveLeaves
  <2>2. Len(todo) # 1
    OBVIOUS
  <2> QED
    BY <2>1, <2>2, SavedVersion DEF SaveInv
<1>2. /\ weights_file \in [Parts -> [Versions -> {Missing} \cup SUBSET (1..DataLength)]]
      /\ data_file \in [Versions -> -1..DataLength]
  BY DEF Typed
<1>3. ASSUME NEW q \in Parts, Rotate(q), NEW p \in Parts, tracker \in Versions
      PROVE  \/ weights_file'[p][tracker] = weights_file[p][tracker]
             \/ MaxCkptToKeep = 1 /\ weights_file'[p][tracker] = Missing
  <2>1. CASE p = q
    BY <1>3, <2>1, RotateKeepsLatest
  <2>2. CASE p # q
    BY <1>2, <1>3, <2>2 DEF Rotate
  <2> QED
    BY <2>1, <2>2
<1>4. ASSUME NEW q \in Parts, Rotate(q)
      PROVE  UNCHANGED <<data_file, tracker>>
  BY <1>4 DEF Rotate
<1>5. ASSUME NEW q \in Parts, WriteWeights(q)
      PROVE  /\ UNCHANGED <<data_file, tracker>>
             /\ tracker \in Versions =>
                    \A p \in Parts : weights_file'[p][tracker] = weights_file[p][tracker]
  BY <1>1, <1>2, <1>5 DEF WriteWeights
<1>6. ASSUME WriteData
      PROVE  /\ UNCHANGED <<weights_file, tracker>>
             /\ tracker \in Versions => data_file'[tracker] = data_file[tracker]
  BY <1>1, <1>2, <1>6 DEF WriteData
<1>7. ~TruncateTracker /\ ~WriteTracker
  <2>1. Len(todo) # 1 /\ Len(todo) # 2
    OBVIOUS
  <2> QED
    BY <2>1, SavingAt DEF TruncateTracker, WriteTracker
<1> QED
  BY <1>3, <1>4, <1>5, <1>6, <1>7 DEF SaveStep

LEMMA DiskNextPreserves ==
    ASSUME Typed, LiveInv, SaveInv, DiskInv, [Next]_vars
    PROVE  DiskInv'
PROOF
<1>0. VersionInv
  BY DEF LiveInv
<1>1. CASE UNCHANGED <<diskVars, restarts>>
  BY <1>1, DiskKept DEF diskVars
<1>2. CASE SaveStep /\ Len(todo) \notin 1..2
  <2>1. restarts' = restarts
    BY <1>2, SaveLeaves
  <2> QED
    BY <1>0, <1>2, <2>1, SaveSparesLatest, DiskKept
<1>3. CASE SaveStep /\ Len(todo) = 2
  <2>1. TruncateTracker
    <3>1. \A p \in Parts : ~Rotate(p) /\ ~WriteWeights(p)
      BY <1>3, SavingAt DEF Parts, Rotate, WriteWeights
    <3>2. ~WriteData /\ ~WriteTracker
      BY <1>3, SavingAt DEF WriteData, WriteTracker
    <3> QED
      BY <1>3, <3>1, <3>2 DEF SaveStep
  <2>2. tracker' \notin Versions'
    BY <2>1 DEF TruncateTracker, Empty, Versions
  <2> QED
    BY <2>2 DEF DiskInv, Resumable
<1>4. CASE SaveStep /\ Len(todo) = 1
  <2> DEFINE v == current_param_version
  <2>1. WriteTracker
    <3>1. \A p \in Parts : ~Rotate(p) /\ ~WriteWeights(p)
      BY <1>4, SavingAt DEF Parts, Rotate, WriteWeights
    <3>2. ~WriteData /\ ~TruncateTracker
      BY <1>4, SavingAt DEF WriteData, TruncateTracker
    <3> QED
      BY <1>4, <3>1, <3>2 DEF SaveStep
  <2>2. /\ tracker' = v /\ restarts' = restarts
        /\ UNCHANGED <<weights_file, data_file>>
    BY <1>4, <2>1, SaveLeaves DEF WriteTracker
  <2>3. /\ weights_file["actor"][v] = trained /\ weights_file["critic"][v] = trained
        /\ Sound(trained, data_file[v], v)
    BY <1>4 DEF SaveInv, Written
  <2>4. Sound(trained, data_file[v], v)'
    <3>1. v' = v /\ trained' = trained
      BY <1>4, SaveLeaves
    <3> QED
      BY <2>2, <2>3, <3>1 DEF Sound
  <2>5. v <= TotalRolloutSteps + 2 * restarts + 1
    BY <1>0, Constants DEF VersionInv, Typed
  <2>6. v' = v /\ trained' = trained
    BY <1>4, SaveLeaves
  <2> QED
    BY <2>2, <2>3, <2>4, <2>5, <2>6 DEF DiskInv
<1>5. CASE Restart
  <2>1. restarts' = restarts + 1 /\ UNCHANGED diskVars
    BY <1>0, <1>5, RestartLoads
  <2> QED
    BY <2>1, DiskKept DEF diskVars
<1>6. SaveStep => Len(todo) \notin 1..2 \/ Len(todo) = 2 \/ Len(todo) = 1
  OBVIOUS
<1>7. \/ UNCHANGED <<diskVars, restarts>> \/ SaveStep \/ Restart
  BY Steps DEF FeedSample, FeedExhausted, TrainStep, StopTraining
<1> QED
  BY <1>1, <1>2, <1>3, <1>4, <1>5, <1>6, <1>7

-----------------------------------------------------------------------------
(* The invariant holds *)

LEMMA InitHolds == Init => IInv
PROOF
<1> SUFFICES ASSUME Init PROVE IInv
  OBVIOUS
<1>1. /\ in_flight = <<>> /\ todo = <<>> /\ trained = {} /\ restarts = 0 /\ position = 0
      /\ current_param_version = 0 /\ local_trigger_step = 1 /\ last_ckpt_version = 0
      /\ global_steps = 1 /\ ~stopped /\ ~feed_done /\ tracker = 0
      /\ previous_saved_paths = [p \in Parts |-> <<>>]
  BY DEF Init, NoTracker
<1>2. Len(in_flight) = 0 /\ Len(todo) = 0
  BY <1>1, EmptySeq
<1>3. Behind = 0
  <2>1. 0 - 0 = 0
    OBVIOUS
  <2> QED
    BY <1>1, <1>2, <2>1 DEF Behind
<1>4. Typed
  <2>1. /\ weights_file = [p \in Parts |-> [v \in Versions |-> Missing]]
        /\ data_file = [v \in Versions |-> -1]
        /\ -1 \in -1..DataLength
    BY Constants DEF Init
  <2>2. /\ weights_file \in [Parts -> [Versions -> {Missing} \cup SUBSET (1..DataLength)]]
        /\ data_file \in [Versions -> -1..DataLength]
    <3> HIDE DEF Missing
    <3> QED
      BY <2>1
  <2>3. /\ in_flight \in Seq(1..DataLength)
        /\ previous_saved_paths \in [Parts -> Seq(Versions)]
    BY <1>1
  <2>4. /\ status = "up" /\ elastic \in BOOLEAN /\ stopped \in BOOLEAN
        /\ feed_done \in BOOLEAN
    BY DEF Init
  <2>5. /\ restarts \in 0..MaxRestarts /\ position \in 0..DataLength
        /\ local_trigger_step \in 1..TriggerParameterSyncStep
    BY <1>1, Constants
  <2> QED
    BY <2>2, <2>3, <2>4, <2>5 DEF Typed
<1>5. VersionInv
  BY <1>1, Constants DEF VersionInv
<1>6. FlowInv
  <2>1. Lacking(trained, 0) = {} /\ Cardinality({}) = 0
    BY <1>1, FS_EmptySet DEF Lacking
  <2>2. restarts * MaxInFlight = 0
    BY <1>1, Constants
  <2> QED
    BY <1>1, <1>2, <1>3, <2>1, <2>2, Constants DEF FlowInv
<1>7. ProgressInv
  <2>1. StepSamples(0, 1) = 0
    <3>1. 0 * (RequiredSamples * TriggerParameterSyncStep) = 0
      BY Constants
    <3> QED
      BY <3>1, RestoredStepsCount
  <2>2. Cardinality(trained) = 0 /\ Fed = 0
    BY <1>1, FS_EmptySet DEF Fed
  <2> QED
    BY <1>1, <1>2, <2>1, <2>2, NothingIsWhole DEF ProgressInv
<1>8. SaveInv
  <2>1. todo = SubSeq(SaveSteps, 8 - 0, 7)
    <3>1. 8 - 0 = 8
      OBVIOUS
    <3> QED
      BY <1>1, <3>1, SaveStepsFacts, EmptySeq
  <2>2. \A p \in Parts : SavedInOrder(p)
    <3>1. \A p \in Parts : previous_saved_paths[p] = <<>> /\ Len(<<>>) = 0
      BY <1>1, EmptySeq
    <3> QED
      BY <3>1 DEF SavedInOrder
  <2>3. Written(Len(todo))
    BY <1>2 DEF Written
  <2> QED
    BY <1>1, <1>2, <2>1, <2>2, <2>3 DEF SaveInv
<1>9. DiskInv
  BY <1>1 DEF DiskInv, Resumable, Versions
<1>10. EndInv
  BY DEF Init, EndInv
<1> QED
  BY <1>4, <1>5, <1>6, <1>7, <1>8, <1>9, <1>10 DEF IInv, LiveInv

LEMMA EndNextPreserves ==
    ASSUME EndInv, [Next]_vars
    PROVE  EndInv'
PROOF
<1>1. CASE SaveStep
  BY <1>1, SaveLeaves DEF EndInv
<1>2. CASE Restart
  BY <1>2 DEF EndInv, Restart, LoadCheckpoint
<1>3. CASE FeedSample \/ FeedExhausted \/ TrainStep \/ StopTraining
  BY <1>3 DEF EndInv, FeedSample, FeedExhausted, TrainStep, StopTraining, trainerVars
<1>4. CASE Finish \/ Crash \/ Ended \/ UNCHANGED vars
  BY <1>4 DEF EndInv, Finish, Crash, Ended, vars, trainerVars
<1> QED
  BY <1>1, <1>2, <1>3, <1>4 DEF Next

LEMMA NextPreserves == IInv /\ [Next]_vars => IInv'
PROOF
<1> SUFFICES ASSUME IInv, [Next]_vars PROVE IInv'
  OBVIOUS
<1>1. Typed /\ LiveInv /\ SaveInv /\ DiskInv /\ EndInv /\ VersionInv /\ ProgressInv
  BY DEF IInv, LiveInv
<1>2. Typed'
  BY <1>1, TypedNextPreserves
<1>3. VersionInv'
  BY <1>1, VersionNextPreserves
<1>4. FlowInv'
  BY <1>1, FlowNextPreserves
<1>5. ProgressInv'
  BY <1>1, ProgressNextPreserves
<1>6. SaveInv'
  BY <1>1, SaveNextPreserves
<1>7. DiskInv'
  BY <1>1, DiskNextPreserves
<1>8. EndInv'
  BY <1>1, EndNextPreserves
<1> QED
  BY <1>2, <1>3, <1>4, <1>5, <1>6, <1>7, <1>8 DEF IInv, LiveInv

-----------------------------------------------------------------------------
(* What it implies *)

LEMMA TypesFollow == IInv => TypeOK
PROOF
<1> SUFFICES ASSUME IInv PROVE TypeOK
  OBVIOUS
<1>1. Typed /\ VersionInv /\ FlowInv /\ SaveInv
  BY DEF IInv, LiveInv
<1>2. \A p \in Parts : \A v \in Versions :
         weights_file[p][v] = Missing \/ weights_file[p][v] \subseteq SamplesUpTo(DataLength)
  BY <1>1 DEF Typed, SamplesUpTo
<1>3. current_param_version \in Versions \cup {0} /\ last_ckpt_version \in 0..current_param_version
  BY <1>1, VersionsAreKnown DEF VersionsKnown, VersionInv
<1>4. tracker \in Versions \cup {NoTracker, Empty}
  <2>1. last_ckpt_version \in Versions \cup {0}
    BY <1>3, Constants
  <2> QED
    BY <1>1, <2>1 DEF SaveInv, NoTracker
<1>5. trained \subseteq SamplesUpTo(DataLength)
  BY <1>1, TrainedTyped DEF SamplesUpTo
<1>6. todo \in Seq({"rotate", "write", "truncate"} \X {"actor", "critic", "data", "tracker"})
  <2> DEFINE S == {"rotate", "write", "truncate"} \X {"actor", "critic", "data", "tracker"}
             k == Len(todo)
  <2>1. SaveSteps \in Seq(S) /\ Len(SaveSteps) = 7
    BY DEF SaveSteps
  <2>2. k \in 0..7 /\ todo = SubSeq(SaveSteps, 8 - k, 7)
    BY <1>1 DEF SaveInv
  <2> HIDE DEF S, k
  <2>3. 8 - k = (7 - k) + 1 /\ 7 - k \in 0..7
    BY <2>2
  <2>4. SubSeq(SaveSteps, (7 - k) + 1, Len(SaveSteps)) \in Seq(S)
    BY <2>1, <2>3, DropFirst
  <2>5. todo \in Seq(S)
    BY <2>1, <2>2, <2>3, <2>4
  <2> QED
    BY <2>5 DEF S
<1>7. in_flight \in Seq(SamplesUpTo(DataLength))
  BY <1>1 DEF Typed, SamplesUpTo
<1> QED
  BY <1>1, <1>2, <1>3, <1>4, <1>5, <1>6, <1>7 DEF Typed, VersionInv, TypeOK

\* What can be resumed is there.
LEMMA ResumableIsThere ==
    ASSUME DiskInv, Resumable
    PROVE  /\ \A p \in Parts : weights_file[p][tracker] # Missing
           /\ data_file[tracker] # -1
           /\ weights_file["actor"][tracker] = weights_file["critic"][tracker]
           /\ weights_file["actor"][tracker] \subseteq 1..data_file[tracker]
PROOF
<1>1. /\ weights_file["critic"][tracker] = weights_file["actor"][tracker]
      /\ data_file[tracker] \in 0..DataLength
      /\ weights_file["actor"][tracker] \subseteq 1..data_file[tracker]
  BY DEF DiskInv, Sound
<1>2. weights_file["actor"][tracker] # Missing
  BY <1>1, Constants DEF Missing
<1>3. data_file[tracker] # -1
  BY <1>1, Constants
<1> QED
  BY <1>1, <1>2, <1>3 DEF Parts

LEMMA LatestFollows ==
    ASSUME IInv, MaxCkptToKeep # 1
    PROVE  LatestIsWhole
PROOF
<1>1. tracker \in Versions => Resumable
  BY DEF Resumable
<1> QED
  BY <1>1, ResumableIsThere DEF IInv, LatestIsWhole

LEMMA TogetherFollows == IInv => RestoredTogether
PROOF
<1>1. LatestIsWhole /\ tracker \in Versions => Resumable
  BY DEF Resumable, Loadable, LatestIsWhole
<1> QED
  BY <1>1, ResumableIsThere DEF IInv, RestoredTogether, SamplesUpTo

LEMMA NoneTwiceFollows == IInv => NoSampleTwice
PROOF
<1> SUFFICES ASSUME IInv, NEW x \in SamplesIn(in_flight), x \in trained PROVE FALSE
  BY DEF NoSampleTwice
<1>1. Typed /\ FlowInv
  BY DEF IInv, LiveInv
<1>2. PICK i \in 1..Len(in_flight) : x = in_flight[i]
  BY <1>1, LenProperties DEF SamplesIn, Typed
<1>3. x = Behind + i /\ x \in 1..Behind
  BY <1>1, <1>2 DEF FlowInv
<1>4. Behind \in Nat /\ i \in Nat \ {0}
  BY <1>1, FlowFacts
<1> QED
  BY <1>3, <1>4

LEMMA FewLostFollows == IInv => OnlyInFlightLost
PROOF
<1> SUFFICES ASSUME IInv
             PROVE  Cardinality(SamplesUpTo(position) \ (trained \cup SamplesIn(in_flight)))
                        <= restarts * MaxInFlight
  BY DEF OnlyInFlightLost
<1> DEFINE lost == SamplesUpTo(position) \ (trained \cup SamplesIn(in_flight))
           behind == Lacking(trained, Behind)
<1>1. Typed /\ FlowInv
  BY DEF IInv, LiveInv
<1>2. /\ Len(in_flight) \in Nat /\ Behind \in Nat /\ position = Behind + Len(in_flight)
      /\ restarts \in Nat /\ MaxInFlight \in Nat
  BY <1>1, FlowFacts
<1>3. lost \subseteq behind
  <2> SUFFICES ASSUME NEW x \in lost PROVE x \in behind
    OBVIOUS
  <2>1. x \in 1..position /\ x \notin trained /\ x \notin SamplesIn(in_flight)
    BY DEF SamplesUpTo
  <2>2. x \in 1..Behind
    <3> SUFFICES ASSUME x > Behind PROVE FALSE
      BY <1>2, <2>1
    <3>1. x - Behind \in 1..Len(in_flight) /\ Behind + (x - Behind) = x
      BY <1>2, <2>1
    <3>2. in_flight[x - Behind] = x
      BY <1>1, <3>1 DEF FlowInv
    <3>3. x - Behind \in DOMAIN in_flight
      BY <1>1, <3>1, LenProperties DEF Typed
    <3> QED
      BY <2>1, <3>2, <3>3 DEF SamplesIn
  <2> QED
    BY <2>1, <2>2 DEF Lacking
<1>4. IsFiniteSet(behind)
  <2>1. IsFiniteSet(1..Behind)
    BY <1>2, FS_Interval
  <2> QED
    BY <2>1, FS_Difference DEF Lacking
<1>5. IsFiniteSet(lost) /\ Cardinality(lost) <= Cardinality(behind)
  <2>1. lost \in SUBSET behind
    BY <1>3
  <2> HIDE DEF lost, behind
  <2> QED
    BY <1>4, <2>1, FS_Subset
<1>6. Cardinality(lost) \in Nat /\ Cardinality(behind) \in Nat
  BY <1>4, <1>5, FS_CardinalityType
<1>7. Cardinality(behind) <= restarts * MaxInFlight /\ restarts * MaxInFlight \in Nat
  BY <1>1, <1>2, Product DEF FlowInv
<1> DEFINE a == Cardinality(lost)  b == Cardinality(behind)  c == restarts * MaxInFlight
<1>8. a \in Nat /\ b \in Nat /\ c \in Nat /\ a <= b /\ b <= c
  BY <1>5, <1>6, <1>7
<1> HIDE DEF a, b, c
<1>9. a <= c
  BY <1>8
<1> QED
  BY <1>9 DEF a, c

LEMMA FullLengthFollows == IInv => FullLengthTraining
PROOF
<1> SUFFICES ASSUME IInv, status = "finished", position < DataLength
             PROVE  Cardinality(trained) >= FullLength
  BY DEF FullLengthTraining, FullLength
<1>1. Typed /\ ProgressInv /\ stopped
  BY DEF IInv, LiveInv, EndInv
<1>2. position # DataLength
  BY <1>1, Constants DEF Typed
<1> QED
  BY <1>1, <1>2 DEF ProgressInv

-----------------------------------------------------------------------------
(* The theorems *)

LEMMA InvariantHolds == Spec => []IInv
PROOF
<1>1. Init => IInv
  BY InitHolds
<1>2. IInv /\ [Next]_vars => IInv'
  BY NextPreserves
<1> QED
  BY <1>1, <1>2, PTL DEF Spec

\* Processes and disk only hold what they should, for any data, batch size,
\* frequencies and number of restarts.
THEOREM TypesCorrect == Spec => []TypeOK
PROOF
  BY InvariantHolds, TypesFollow, PTL

\* Whenever the job dies, the checkpoint the tracker names has the weights of
\* actor and critic and the position of the data loader: _save_checkpoint writes
\* the tracker last.  It needs a job that keeps more than one checkpoint, or
\* all: with max_actor_ckpt_to_keep = 1, the only one is removed before the next
\* is written.
THEOREM LatestCheckpointIsWhole ==
    ASSUME MaxCkptToKeep # 1
    PROVE  Spec => []LatestIsWhole
PROOF
<1>1. IInv => LatestIsWhole
  BY LatestFollows
<1> QED
  BY <1>1, InvariantHolds, PTL

\* What load_checkpoint restores together belongs together: actor and critic
\* have learnt from the same samples, which the data loader will not repeat.
THEOREM PartsBelongTogether == Spec => []RestoredTogether
PROOF
  BY InvariantHolds, TogetherFollows, PTL

\* However often the job is restarted, no sample is trained on twice, and a
\* restart loses at most what was in flight.
THEOREM SamplesOnceAndFewLost == Spec => [](NoSampleTwice /\ OnlyInFlightLost)
PROOF
  BY InvariantHolds, NoneTwiceFollows, FewLostFollows, PTL

\* A job that ends with data left has trained on all full batches of its
\* samples, restarts or not.
THEOREM TrainingIsFullLength == Spec => []FullLengthTraining
PROOF
  BY InvariantHolds, FullLengthFollows, PTL

-----------------------------------------------------------------------------
(* Versions and training steps, without an elastic instance *)

-----------------------------------------------------------------------------
(* Versions and training steps, without an elastic instance *)

\* The data end with the rollout steps, or total_rollout_steps cuts them after a
\* whole version, which a validation sees.
EndsWithVersion ==
    \/ DataLength = TotalRolloutSteps
    \/ /\ TestFreq = 1 /\ RequiredSamples > 1
       /\ \E k \in Nat : TotalRolloutSteps = k * (RequiredSamples * TriggerParameterSyncStep)

\* As much is trained as n samples, or the data were all handed out.
InStep(w, pos, n) ==
    pos = DataLength \/ (Cardinality(w) = n /\ n <= TotalRolloutSteps)

\* While there are data nothing but what is in flight is fed and not trained, and
\* a checkpoint is begun with a version, and not later.
Exact ==
    \/ position = DataLength
    \/ /\ Cardinality(trained) + Len(in_flight) = Fed
       /\ global_steps <= TotalRolloutSteps + 1
       /\ todo = <<>> \/ local_trigger_step = 1
       /\ \/ todo # <<>> \/ current_param_version = last_ckpt_version
          \/ current_param_version % SaveFreq # 0

\* Versions count training steps, in the processes and on disk.
CountInv ==
    /\ Exact
    /\ InStep(trained, position, StepSamples(current_param_version, local_trigger_step))
    /\ Len(todo) \in 1..2 =>
           InStep(trained, data_file[current_param_version],
                  StepSamples(current_param_version, 1))
    /\ Resumable =>
           InStep(weights_file["actor"][tracker], data_file[tracker], StepSamples(tracker, 1))

\* Numbers of samples in whole batches.
LEMMA NoBatchOfOne ==
    ASSUME NEW d \in Int, NEW r \in Nat, r > 1
    PROVE  d * r # 1
PROOF
<1>1. CASE d <= 0
  <2>1. d * r <= 0
    BY <1>1
  <2> QED
    BY <2>1
<1>2. CASE d >= 1
  <2>1. d * r >= r
    BY <1>2
  <2> QED
    BY <2>1
<1> QED
  BY <1>1, <1>2

LEMMA LeastBatch ==
    ASSUME NEW d \in Int, NEW r \in Nat \ {0}, d * r > -r
    PROVE  d >= 0
PROOF
<1>1. CASE d <= -1
  <2>1. d * r <= -r
    BY <1>1
  <2> QED
    BY <1>1, <2>1
<1> QED
  BY <1>1

LEMMA Distributes ==
    ASSUME NEW a \in Int, NEW b \in Int, NEW r \in Int
    PROVE  a * r - b * r = (a - b) * r
PROOF
  OBVIOUS

LEMMA Regroups ==
    ASSUME NEW a \in Nat, NEW b \in Nat, NEW c \in Nat
    PROVE  a * (b * c) = (a * c) * b
PROOF
  OBVIOUS

LEMMA TrainedWithin ==
    ASSUME EndsWithVersion, NEW c \in Nat, NEW m \in Nat, c = m * RequiredSamples,
           c <= TotalRolloutSteps + 1, c <= DataLength
    PROVE  c <= TotalRolloutSteps
PROOF
<1>1. /\ RequiredSamples \in Nat \ {0} /\ TriggerParameterSyncStep \in Nat
      /\ TotalRolloutSteps \in Nat
  BY Constants
<1>2. ASSUME RequiredSamples > 1,
             NEW k \in Nat, TotalRolloutSteps = k * (RequiredSamples * TriggerParameterSyncStep)
      PROVE  c <= TotalRolloutSteps
  <2> DEFINE kT == k * TriggerParameterSyncStep
  <2>1. kT \in Nat /\ TotalRolloutSteps = kT * RequiredSamples
    BY <1>1, <1>2, Product, Regroups
  <2> HIDE DEF kT
  <2>2. c - TotalRolloutSteps = (m - kT) * RequiredSamples /\ m - kT \in Int
    BY <1>1, <2>1, Distributes
  <2>3. (m - kT) * RequiredSamples # 1
    BY <1>1, <1>2, <2>2, NoBatchOfOne
  <2>4. c - TotalRolloutSteps # 1
    BY <2>2, <2>3
  <2> QED
    BY <1>1, <2>4
<1> QED
  BY <1>2 DEF EndsWithVersion

LEMMA FewerThanRead ==
    ASSUME Typed, FlowInv
    PROVE  Cardinality(trained) + Len(in_flight) <= position
PROOF
<1> DEFINE c == Cardinality(trained)
           l == Len(in_flight)
           n == Behind
<1>1. /\ position = n + l /\ n \in Nat /\ l \in Nat /\ position \in Nat
      /\ trained \subseteq 1..n /\ c \in Nat
  BY FlowFacts DEF FlowInv
<1>2. c <= n
  <2>1. 1 \in Int /\ n \in Int
    BY <1>1
  <2> HIDE DEF n
  <2>2. (IF 1 > n THEN 0 ELSE n - 1 + 1) = n
    BY <1>1, <2>1
  <2>3. IsFiniteSet(1..n) /\ Cardinality(1..n) = n
    BY <2>1, <2>2, FS_Interval
  <2> QED
    BY <1>1, <2>3, FS_Subset
<1> HIDE DEF c, l, n
<1>3. c + l <= position
  BY <1>1, <1>2
<1> QED
  BY <1>3 DEF c, l

\* When the data have been cut, training stops where a version has ended.
LEMMA CountEnds ==
    ASSUME Typed, LiveInv, CountInv, EndsWithVersion, position # DataLength,
           feed_done, Len(in_flight) < RequiredSamples
    PROVE  local_trigger_step = 1 /\ TestFreq = 1
PROOF
<1> DEFINE c == Cardinality(trained)
           l == Len(in_flight)
           s == local_trigger_step
           v == current_param_version
<1>0. VersionInv /\ FlowInv /\ ProgressInv
  BY DEF LiveInv
<1>1. /\ c \in Nat /\ l \in Nat /\ position \in 0..DataLength /\ DataLength \in Nat
      /\ RequiredSamples \in Nat \ {0} /\ TriggerParameterSyncStep \in Nat \ {0}
      /\ TotalRolloutSteps \in Nat /\ global_steps \in Nat \ {0} /\ v \in Nat
      /\ s \in 1..TriggerParameterSyncStep
  BY <1>0, FlowFacts, Constants DEF Typed, VersionInv
<1>2. c + l <= position
  BY <1>0, FewerThanRead
<1>3. /\ c + l = global_steps /\ c = StepSamples(v, s) /\ c <= TotalRolloutSteps
      /\ l < RequiredSamples
  BY DEF CountInv, Exact, InStep, Fed
<1>4. global_steps >= TotalRolloutSteps
  BY <1>0 DEF ProgressInv
<1>5. DataLength # TotalRolloutSteps
  <2> HIDE DEF c, l
  <2> QED
    BY <1>1, <1>2, <1>3, <1>4
<1>6. PICK k \in Nat : TotalRolloutSteps = k * (RequiredSamples * TriggerParameterSyncStep)
  BY <1>5 DEF EndsWithVersion
<1> DEFINE kT == k * TriggerParameterSyncStep
           vT == v * TriggerParameterSyncStep
           m == vT + (s - 1)
<1>7. kT \in Nat /\ vT \in Nat /\ m \in Nat /\ TotalRolloutSteps = kT * RequiredSamples
  BY <1>1, <1>6, Product, Regroups
<1>8. c = m * RequiredSamples
  BY <1>3 DEF StepSamples
<1>9. m = kT
  <2> HIDE DEF c, l, m, kT
  <2>1. c - TotalRolloutSteps = (m - kT) * RequiredSamples /\ m - kT \in Int
    BY <1>1, <1>7, <1>8, Distributes
  <2>2. TotalRolloutSteps - c = (kT - m) * RequiredSamples /\ kT - m \in Int
    BY <1>1, <1>7, <1>8, Distributes
  <2>3. c - TotalRolloutSteps > -RequiredSamples /\ TotalRolloutSteps - c > -RequiredSamples
    BY <1>1, <1>3, <1>4
  <2>4. m - kT >= 0
    BY <1>1, <2>1, <2>3, LeastBatch
  <2>5. kT - m >= 0
    BY <1>1, <2>2, <2>3, LeastBatch
  <2> QED
    BY <1>7, <2>4, <2>5
<1>10. s - 1 = (k - v) * TriggerParameterSyncStep /\ k - v \in Int
  <2>1. kT - vT = (k - v) * TriggerParameterSyncStep
    BY <1>1, <1>6, Distributes
  <2> HIDE DEF kT, vT
  <2> QED
    BY <1>1, <1>6, <1>7, <1>9, <2>1
<1>11. k - v <= 0
  <2>1. CASE k - v >= 1
    <3>1. (k - v) * TriggerParameterSyncStep >= TriggerParameterSyncStep
      BY <1>1, <1>10, <2>1
    <3> QED
      BY <1>1, <1>10, <3>1
  <2> QED
    BY <1>10, <2>1
<1>12. (k - v) * TriggerParameterSyncStep <= 0
  BY <1>1, <1>10, <1>11
<1>13. s = 1
  BY <1>1, <1>10, <1>12
<1> QED
  BY <1>5, <1>13 DEF EndsWithVersion

\* What the steps that feed and train do to them.
LEMMA CountFeeds ==
    ASSUME Typed, LiveInv, CountInv, FeedSample \/ FeedExhausted
    PROVE  CountInv'
PROOF
<1>0. VersionInv /\ FlowInv
  BY DEF LiveInv
<1>1. UNCHANGED <<diskVars, trainerVars>>
  BY DEF FeedSample, FeedExhausted
<1>2. /\ position \in 0..DataLength /\ DataLength \in Nat /\ Len(in_flight) \in Nat
      /\ global_steps \in Nat \ {0} /\ Cardinality(trained) \in Nat /\ feed_done \in BOOLEAN
      /\ TotalRolloutSteps \in Nat
  BY <1>0, FlowFacts, Constants DEF Typed, VersionInv
<1>3. position = DataLength => position' = DataLength
  BY <1>2 DEF FeedSample, FeedExhausted
<1>4. ASSUME FeedSample
      PROVE  Exact'
  <2>1. Len(in_flight') = Len(in_flight) + 1
    <3>1. in_flight \in Seq(1..DataLength) /\ position' \in 1..DataLength
      BY <1>2, <1>4 DEF Typed, FeedSample
    <3> QED
      BY <1>4, <3>1, AppendProperties DEF FeedSample
  <2>2. /\ Fed' = Fed + 1 /\ Fed \in Int /\ position # DataLength
        /\ global_steps <= TotalRolloutSteps + 1 => global_steps' <= TotalRolloutSteps + 1
    BY <1>2, <1>4 DEF FeedSample, Fed
  <2>3. Cardinality(trained') = Cardinality(trained)
    BY <1>1 DEF trainerVars
  <2>4. Cardinality(trained) + Len(in_flight) = Fed
    BY <2>2 DEF CountInv, Exact
  <2> DEFINE c == Cardinality(trained)
             l == Len(in_flight)
  <2>5. c + (l + 1) = Fed'
    <3>1. c \in Nat /\ l \in Nat /\ c + l = Fed
      BY <1>2, <2>4
    <3> HIDE DEF c, l
    <3> QED
      BY <2>2, <3>1
  <2>6. Cardinality(trained') + Len(in_flight') = Fed'
    BY <2>1, <2>3, <2>5
  <2> QED
    BY <1>1, <2>2, <2>6 DEF CountInv, Exact, trainerVars
<1>5. ASSUME FeedExhausted
      PROVE  Exact'
  <2>1. position' = DataLength
    BY <1>5 DEF FeedExhausted
  <2> QED
    BY <2>1 DEF Exact
<1>6. InStep(trained, position, StepSamples(current_param_version, local_trigger_step))'
  BY <1>1, <1>3 DEF CountInv, InStep, trainerVars, StepSamples
<1>7. Resumable' <=> Resumable
  BY <1>1 DEF Resumable, Loadable, diskVars
<1> QED
  BY <1>1, <1>4, <1>5, <1>6, <1>7
  DEF CountInv, InStep, trainerVars, diskVars, StepSamples

\* A training step is one more of the version, or the first of the next.
LEMMA StepIsCounted ==
    ASSUME Typed, VersionInv, TrainStep
    PROVE  StepSamples(current_param_version', local_trigger_step') =
              StepSamples(current_param_version, local_trigger_step) + RequiredSamples
PROOF
<1>1. current_param_version \in Nat /\ local_trigger_step \in 1..TriggerParameterSyncStep
  BY DEF Typed, VersionInv
<1>2. CASE SyncDue
  <2>1. /\ current_param_version' = current_param_version + 1 /\ local_trigger_step' = 1
        /\ local_trigger_step = TriggerParameterSyncStep
    BY <1>1, <1>2, Constants DEF TrainStep, NewVersion, SyncDue
  <2> QED
    BY <1>1, <2>1, StepSamplesFacts
<1>3. CASE ~SyncDue
  <2>1. /\ current_param_version' = current_param_version
        /\ local_trigger_step' = local_trigger_step + 1
    BY <1>3 DEF TrainStep, NewVersion
  <2> QED
    BY <1>1, <2>1, StepSamplesFacts
<1> QED
  BY <1>2, <1>3

LEMMA CountTrains ==
    ASSUME Typed, LiveInv, SaveInv, CountInv, EndsWithVersion, ~elastic, TrainStep
    PROVE  CountInv'
PROOF
<1>0. VersionInv /\ FlowInv
  BY DEF LiveInv
<1>1. /\ UNCHANGED <<diskVars, last_ckpt_version, stopped, position, global_steps, feed_done>>
      /\ ~stopped /\ todo = <<>>
  BY DEF TrainStep, feedVars
<1>2. Cardinality(trained') = Cardinality(trained) + RequiredSamples
  BY <1>0, BatchIsNext
<1>3. StepSamples(current_param_version', local_trigger_step') =
         StepSamples(current_param_version, local_trigger_step) + RequiredSamples
  BY <1>0, StepIsCounted
<1>4. todo' = IF /\ current_param_version' # last_ckpt_version
                 /\ current_param_version' % SaveFreq = 0
              THEN SaveSteps ELSE <<>>
  BY DEF TrainStep, NewVersion, CheckSave
<1>5. SaveSteps # <<>> /\ Len(SaveSteps) = 7
  BY SaveStepsFacts, EmptySeq
<1>6. Exact'
  <2> SUFFICES ASSUME position # DataLength PROVE Exact'
    BY <1>1 DEF Exact
  <2>1. todo' = <<>> \/ local_trigger_step' = 1
    <3>1. CASE SyncDue
      BY <3>1 DEF TrainStep
    <3>2. CASE ~SyncDue
      <4>1. current_param_version' = current_param_version
        BY <3>2 DEF TrainStep, NewVersion
      <4> QED
        BY <1>1, <1>4, <4>1 DEF CountInv, Exact
    <3> QED
      BY <3>1, <3>2
  <2>2. \/ todo' # <<>> \/ current_param_version' = last_ckpt_version'
        \/ current_param_version' % SaveFreq # 0
    BY <1>1, <1>4, <1>5
  <2>3. Cardinality(trained') + Len(in_flight') = Fed'
    <3> DEFINE c == Cardinality(trained)
               l == Len(in_flight)
    <3>1. c \in Nat /\ l \in Nat /\ RequiredSamples \in Nat
      BY <1>0, FlowFacts
    <3>2. Len(in_flight') = l - RequiredSamples
      BY <1>0, BatchIsNext
    <3>3. c + l = Fed /\ Fed' = Fed
      BY <1>1 DEF CountInv, Exact, Fed
    <3> HIDE DEF c, l
    <3>4. (c + RequiredSamples) + (l - RequiredSamples) = Fed'
      BY <3>1, <3>3
    <3> QED
      BY <1>2, <3>2, <3>4 DEF c
  <2>4. global_steps' <= TotalRolloutSteps + 1
    BY <1>1 DEF CountInv, Exact
  <2> QED
    BY <2>1, <2>2, <2>3, <2>4 DEF Exact
<1>7. InStep(trained, position, StepSamples(current_param_version, local_trigger_step))'
  <2> SUFFICES ASSUME position # DataLength
               PROVE  /\ Cardinality(trained') =
                            StepSamples(current_param_version', local_trigger_step')
                      /\ Cardinality(trained') <= TotalRolloutSteps
    BY <1>1 DEF InStep
  <2> DEFINE c == Cardinality(trained)
             l == Len(in_flight)
             d == Cardinality(trained')
             m == current_param_version * TriggerParameterSyncStep + (local_trigger_step - 1)
  <2>1. c = m * RequiredSamples
    BY DEF CountInv, InStep, StepSamples
  <2>2. m \in Nat
    <3>1. /\ current_param_version \in Nat /\ TriggerParameterSyncStep \in Nat
          /\ local_trigger_step \in 1..TriggerParameterSyncStep
      BY <1>0, Constants DEF Typed, VersionInv
    <3>2. current_param_version * TriggerParameterSyncStep \in Nat
      BY <3>1, Product
    <3> QED
      BY <3>1, <3>2
  <2>3. /\ c \in Nat /\ l \in Nat /\ RequiredSamples \in Nat /\ global_steps \in Nat
        /\ TotalRolloutSteps \in Nat /\ position \in 0..DataLength /\ DataLength \in Nat
    BY <1>0, FlowFacts, Constants DEF Typed, VersionInv
  <2>4. RequiredSamples <= l
    BY DEF TrainStep
  <2>5. c + l <= position
    BY <1>0, FewerThanRead
  <2>6. c + l = Fed /\ Fed <= global_steps /\ global_steps <= TotalRolloutSteps + 1
    BY <2>3 DEF CountInv, Exact, Fed
  <2>7. d = c + RequiredSamples
    BY <1>2
  <2> HIDE DEF c, l, d, m
  <2>8. d = (m + 1) * RequiredSamples /\ m + 1 \in Nat /\ d \in Nat
    <3>1. (m + 1) * RequiredSamples = m * RequiredSamples + RequiredSamples
      BY <2>2, <2>3
    <3> QED
      BY <2>1, <2>2, <2>3, <2>7, <3>1
  <2>9. d <= TotalRolloutSteps + 1 /\ d <= DataLength
    BY <2>3, <2>4, <2>5, <2>6, <2>7
  <2>10. d <= TotalRolloutSteps
    BY <2>8, <2>9, TrainedWithin
  <2>11. Cardinality(trained') = StepSamples(current_param_version', local_trigger_step')
    BY <1>2, <1>3 DEF CountInv, InStep
  <2> QED
    BY <2>10, <2>11 DEF d
<1>9. Len(todo') \notin 1..2
  <2>1. todo' = SaveSteps \/ todo' = <<>>
    BY <1>4
  <2>2. CASE todo' = SaveSteps
    <3>1. Len(todo') = 7
      BY <1>5, <2>2
    <3> QED
      BY <3>1
  <2>3. CASE todo' = <<>>
    <3>1. Len(todo') = 0
      BY <2>3, EmptySeq
    <3> QED
      BY <3>1
  <2> QED
    BY <2>1, <2>2, <2>3
<1>10. Resumable' <=> Resumable
  BY <1>1 DEF Resumable, Loadable, diskVars
<1>11. (Resumable => InStep(weights_file["actor"][tracker], data_file[tracker],
                            StepSamples(tracker, 1)))'
  BY <1>1, <1>10 DEF CountInv, diskVars, InStep, StepSamples
<1> QED
  BY <1>6, <1>7, <1>9, <1>11 DEF CountInv

\* Training stops at the end of the data, or of a version.
LEMMA CountStops ==
    ASSUME Typed, LiveInv, SaveInv, CountInv, EndsWithVersion, ~elastic, StopTraining
    PROVE  CountInv'
PROOF
<1>1. /\ UNCHANGED <<diskVars, last_ckpt_version, position, global_steps, feed_done>>
      /\ feed_done /\ stopped' /\ todo = <<>>
  BY DEF StopTraining, feedVars
<1>2. ASSUME position # DataLength
      PROVE  /\ UNCHANGED <<current_param_version, local_trigger_step, trained, in_flight>>
             /\ todo' = <<>>
  <2>1. local_trigger_step = 1 /\ TestFreq = 1
    BY <1>1, <1>2, CountEnds DEF StopTraining
  <2>2. current_param_version % TestFreq = 0 /\ ~(local_trigger_step > 1)
    <3>1. current_param_version \in Nat
      BY DEF LiveInv, VersionInv
    <3> QED
      BY <2>1, <3>1
  <2>3. current_param_version' = current_param_version /\ local_trigger_step' = local_trigger_step
    BY <2>2 DEF StopTraining, NewVersion
  <2>4. todo' = IF /\ current_param_version' # last_ckpt_version
                   /\ current_param_version' % SaveFreq = 0
                THEN SaveSteps ELSE <<>>
    BY DEF StopTraining, NewVersion, CheckSave
  <2>5. current_param_version = last_ckpt_version \/ current_param_version % SaveFreq # 0
    BY <1>1, <1>2 DEF CountInv, Exact
  <2>6. todo' = <<>>
    BY <2>3, <2>4, <2>5
  <2> QED
    BY <2>3, <2>6 DEF StopTraining
<1>3. Len(todo') \notin 1..2
  <2>1. todo' \in {SaveSteps, <<>>}
    BY DEF StopTraining, NewVersion, CheckSave
  <2>2. CASE todo' = SaveSteps
    <3>1. Len(todo') = 7
      BY <2>2, SaveStepsFacts
    <3> QED
      BY <3>1
  <2>3. CASE todo' = <<>>
    <3>1. Len(todo') = 0
      BY <2>3, EmptySeq
    <3> QED
      BY <3>1
  <2> QED
    BY <2>1, <2>2, <2>3
<1>4. Resumable' <=> Resumable
  BY <1>1 DEF Resumable, Loadable, diskVars
<1>5. (Resumable => InStep(weights_file["actor"][tracker], data_file[tracker],
                           StepSamples(tracker, 1)))'
  BY <1>1, <1>4 DEF CountInv, diskVars, InStep, StepSamples
<1>6. Exact' /\ InStep(trained, position, StepSamples(current_param_version, local_trigger_step))'
  <2>1. CASE position = DataLength
    BY <1>1, <2>1 DEF Exact, InStep
  <2>2. CASE position # DataLength
    <3>1. Fed' = Fed
      BY <1>1 DEF Fed
    <3> QED
      BY <1>1, <1>2, <2>2, <3>1 DEF CountInv, Exact, InStep, StepSamples
  <2> QED
    BY <2>1, <2>2
<1> QED
  BY <1>3, <1>5, <1>6 DEF CountInv

\* The writes of a save, by how many are left.
LEMMA LastWrites ==
    ASSUME SaveInv, SaveStep
    PROVE  /\ Len(todo) = 3 => WriteData
           /\ Len(todo) = 2 => TruncateTracker
           /\ Len(todo) = 1 => WriteTracker
           /\ WriteTracker => Len(todo) = 1
           /\ WriteData => Len(todo) = 3
           /\ TruncateTracker => Len(todo) = 2
PROOF
<1>1. \A p \in Parts : Rotate(p) \/ WriteWeights(p) => Len(todo) \in {4, 5, 6, 7}
  BY SavingAt DEF Parts, Rotate, WriteWeights
<1>2. /\ WriteTracker => Len(todo) = 1
      /\ WriteData => Len(todo) = 3
      /\ TruncateTracker => Len(todo) = 2
  BY SavingAt DEF WriteTracker, WriteData, TruncateTracker
<1> QED
  BY <1>1, <1>2 DEF SaveStep

LEMMA CountSaves ==
    ASSUME Typed, LiveInv, SaveInv, CountInv, SaveStep
    PROVE  CountInv'
PROOF
<1>0. VersionInv
  BY DEF LiveInv
<1> DEFINE v == current_param_version
<1>1. /\ todo # <<>> /\ todo' = Tail(todo)
      /\ UNCHANGED <<v, local_trigger_step, trained, stopped, position, global_steps, feed_done,
                     in_flight>>
  BY SaveLeaves DEF feedVars
<1>2. Len(todo) \in 1..7 /\ Len(todo') = Len(todo) - 1
  BY <1>1, SavesInOrder
<1>3. InStep(trained, position, StepSamples(v, local_trigger_step))'
  BY <1>1 DEF CountInv, InStep, StepSamples
<1>4. todo' # <<>> \/ v' = last_ckpt_version'
  <2>1. CASE Len(todo) = 1
    <3>1. WriteTracker
      BY <2>1, LastWrites
    <3> QED
      BY <1>1, <3>1 DEF WriteTracker
  <2>2. CASE Len(todo) # 1
    <3>1. Len(todo') # 0
      BY <1>2, <2>2
    <3> QED
      BY <3>1, EmptySeq
  <2> QED
    BY <2>1, <2>2
<1>5. Exact' /\ (position = DataLength \/ local_trigger_step = 1)
  <2>1. Fed' = Fed
    BY <1>1 DEF Fed
  <2> QED
    BY <1>1, <1>4, <2>1 DEF CountInv, Exact
<1>6. v \in Versions
  BY <1>0, <1>1, SavedVersion
<1>7. ASSUME Len(todo') \in 1..2
      PROVE  InStep(trained, data_file[v], StepSamples(v, 1))'
  <2>1. Len(todo) = 3 \/ Len(todo) = 2
    BY <1>2, <1>7
  <2>2. CASE Len(todo) = 3
    <3>1. data_file' = [data_file EXCEPT ![v] = position]
      BY <2>2, LastWrites DEF WriteData
    <3>2. data_file'[v] = position
      BY <1>6, <3>1 DEF Typed
    <3>3. InStep(trained, position, StepSamples(v, 1))
      BY <1>5 DEF CountInv, InStep
    <3> QED
      BY <1>1, <3>2, <3>3 DEF InStep, StepSamples
  <2>3. CASE Len(todo) = 2
    <3>1. data_file' = data_file
      BY <2>3, LastWrites DEF TruncateTracker
    <3>2. InStep(trained, data_file[v], StepSamples(v, 1))
      BY <2>3 DEF CountInv
    <3> QED
      BY <1>1, <3>1, <3>2 DEF InStep, StepSamples
  <2> QED
    BY <2>1, <2>2, <2>3
<1>8. (Resumable => InStep(weights_file["actor"][tracker], data_file[tracker],
                           StepSamples(tracker, 1)))'
  <2> SUFFICES ASSUME Resumable'
               PROVE  InStep(weights_file["actor"][tracker], data_file[tracker],
                             StepSamples(tracker, 1))'
    OBVIOUS
  <2>1. tracker' \in Versions
    BY DEF Resumable, Versions
  <2>2. CASE Len(todo) = 1
    <3>1. tracker' = v /\ UNCHANGED <<weights_file, data_file>>
      BY <2>2, LastWrites DEF WriteTracker
    <3>2. weights_file["actor"][v] = trained
      BY <2>2 DEF SaveInv, Written
    <3>3. InStep(trained, data_file[v], StepSamples(v, 1))
      BY <2>2 DEF CountInv
    <3> QED
      BY <3>1, <3>2, <3>3 DEF InStep, StepSamples
  <2>3. CASE Len(todo) = 2
    <3>1. tracker' = Empty
      BY <2>3, LastWrites DEF TruncateTracker
    <3> QED
      BY <2>1, <3>1 DEF Empty, Versions
  <2>4. CASE Len(todo) \notin 1..2
    <3>1. /\ tracker' = tracker /\ data_file'[tracker] = data_file[tracker]
          /\ \A p \in Parts : \/ weights_file'[p][tracker] = weights_file[p][tracker]
                              \/ MaxCkptToKeep = 1 /\ weights_file'[p][tracker] = Missing
      BY <1>0, <2>1, <2>4, SaveSparesLatest DEF Versions
    <3>2. \A p \in Parts : weights_file'[p][tracker] = weights_file[p][tracker]
      <4>1. tracker # NoTracker
        BY <2>1, <3>1 DEF Versions, NoTracker
      <4>2. MaxCkptToKeep = 1 => \A p \in Parts : weights_file'[p][tracker] # Missing
        BY <3>1, <4>1 DEF Resumable, Loadable
      <4> QED
        BY <3>1, <4>2
    <3>3. Resumable
      BY <2>1, <3>1, <3>2 DEF Resumable, Loadable, Versions
    <3>4. weights_file'["actor"][tracker] = weights_file["actor"][tracker]
      BY <3>2 DEF Parts
    <3> QED
      BY <3>1, <3>3, <3>4 DEF CountInv, InStep, StepSamples
  <2> QED
    BY <2>2, <2>3, <2>4
<1> QED
  BY <1>3, <1>5, <1>7, <1>8 DEF CountInv

\* A restart counts on from the version of the checkpoint.
LEMMA CountRestarts ==
    ASSUME Typed, LiveInv, SaveInv, DiskInv, CountInv, Restart
    PROVE  CountInv'
PROOF
<1>1. UNCHANGED diskVars
  BY RestartLoads DEF LiveInv
<1>2. Resumable' <=> Resumable
  BY <1>1 DEF Resumable, Loadable, diskVars
<1>3. (Resumable => InStep(weights_file["actor"][tracker], data_file[tracker],
                           StepSamples(tracker, 1)))'
  BY <1>1, <1>2 DEF CountInv, diskVars, InStep, StepSamples
<1>4. CASE UNCHANGED <<trainerVars, feedVars, in_flight>>
  BY <1>1, <1>3, <1>4
  DEF CountInv, Exact, Fed, trainerVars, feedVars, diskVars, InStep, StepSamples
<1>5. CASE LoadCheckpoint(tracker) /\ (tracker = 0 \/ Resumable)
  <2>1. /\ tracker \in Nat /\ current_param_version' = tracker /\ last_ckpt_version' = tracker
        /\ local_trigger_step' = 1 /\ ~stopped' /\ ~feed_done' /\ todo' = <<>>
        /\ global_steps' = RestoredSteps(tracker)
        /\ trained' = RestoredWeights(tracker) /\ position' = RestoredPosition(tracker)
        /\ in_flight' = <<>>
    BY <1>5, Constants DEF LoadCheckpoint, Resumable
  <2> DEFINE m == StepSamples(tracker, 1)
  <2>2. m \in Nat /\ global_steps' = m + 1
    <3>1. 1 \in 1..TriggerParameterSyncStep
      BY Constants
    <3> QED
      BY <2>1, <3>1, RestoredStepsCount, StepSamplesFacts
  <2>3. InStep(trained', position', m)
    <3>1. CASE tracker = 0
      <4>1. trained' = {} /\ position' = 0
        BY <2>1, <3>1 DEF RestoredWeights, RestoredPosition
      <4>2. Cardinality(trained') = 0 /\ 0 <= TotalRolloutSteps
        BY <4>1, FS_EmptySet, Constants
      <4>3. m = 0
        <5>1. m = 0 * (RequiredSamples * TriggerParameterSyncStep)
          BY <3>1, RestoredStepsCount
        <5>2. RequiredSamples * TriggerParameterSyncStep \in Nat
          BY Constants, Product
        <5>3. \A a \in Nat : 0 * a = 0
          OBVIOUS
        <5> QED
          BY <5>1, <5>2, <5>3
      <4> HIDE DEF m
      <4> QED
        BY <4>1, <4>2, <4>3 DEF InStep
    <3>2. CASE Resumable
      <4>1. tracker # 0
        BY <3>2, Constants DEF Resumable
      <4>2. trained' = weights_file["actor"][tracker] /\ position' = data_file[tracker]
        BY <2>1, <4>1 DEF RestoredWeights, RestoredPosition
      <4> HIDE DEF m
      <4>3. InStep(trained', position', m)
        BY <3>2, <4>2 DEF CountInv, m
      <4> QED
        BY <4>3
    <3> QED
      BY <1>5, <3>1, <3>2
  <2>4. Exact'
    <3> SUFFICES ASSUME position' # DataLength PROVE Exact'
      BY DEF Exact
    <3> DEFINE c == Cardinality(trained')
    <3>1. Len(in_flight') = 0
      BY <2>1, EmptySeq
    <3>2. c = m /\ m <= TotalRolloutSteps /\ Fed' = m /\ global_steps' = m + 1
      BY <2>1, <2>2, <2>3 DEF InStep, Fed
    <3> HIDE DEF c, m
    <3>3. c + 0 = Fed' /\ global_steps' <= TotalRolloutSteps + 1
      BY <2>2, <3>2, Constants
    <3> QED
      BY <2>1, <3>1, <3>3 DEF Exact, c
  <2>5. InStep(trained', position', StepSamples(current_param_version', local_trigger_step'))
    BY <2>1, <2>3
  <2>6. Len(todo') \notin 1..2
    <3>1. Len(todo') = 0
      BY <2>1, EmptySeq
    <3> QED
      BY <3>1
  <2> HIDE DEF m
  <2> QED
    BY <1>3, <2>1, <2>4, <2>5, <2>6 DEF CountInv, InStep, StepSamples
<1> QED
  BY <1>4, <1>5, RestartLoads DEF LiveInv

LEMMA CountNextPreserves ==
    ASSUME IInv, ~elastic => CountInv, EndsWithVersion, [Next]_vars
    PROVE  ~elastic' => CountInv'
PROOF
<1>1. Typed /\ LiveInv /\ SaveInv /\ DiskInv
  BY DEF IInv
<1>2. elastic' = elastic
  BY DEF Next, FeedSample, FeedExhausted, TrainStep, StopTraining, Finish, SaveStep, Rotate,
         WriteWeights, WriteData, TruncateTracker, WriteTracker, Saving, Crash, Restart, Ended, vars
<1> SUFFICES ASSUME ~elastic, CountInv
             PROVE  CountInv'
  BY <1>2
<1>3. CASE FeedSample \/ FeedExhausted
  BY <1>1, <1>3, CountFeeds
<1>4. CASE TrainStep
  BY <1>1, <1>4, CountTrains
<1>5. CASE StopTraining
  BY <1>1, <1>5, CountStops
<1>6. CASE SaveStep
  BY <1>1, <1>6, CountSaves
<1>7. CASE Restart
  BY <1>1, <1>7, CountRestarts
<1>8. CASE UNCHANGED <<diskVars, restarts, elastic, trainerVars, feedVars, in_flight>>
  BY <1>8
  DEF CountInv, Exact, Fed, InStep, StepSamples, Resumable, Loadable, diskVars, trainerVars,
      feedVars
<1> QED
  BY <1>3, <1>4, <1>5, <1>6, <1>7, <1>8, Steps

LEMMA CountStarts == Init => CountInv
PROOF
<1> SUFFICES ASSUME Init PROVE CountInv
  OBVIOUS
<1>1. /\ trained = {} /\ position = 0 /\ global_steps = 1 /\ ~stopped /\ ~feed_done /\ todo = <<>>
      /\ current_param_version = 0 /\ last_ckpt_version = 0 /\ local_trigger_step = 1
      /\ tracker = 0 /\ in_flight = <<>>
  BY DEF Init, NoTracker
<1>2. Cardinality({}) = 0 /\ Len(<<>>) = 0
  BY FS_EmptySet, EmptySeq
<1>3. StepSamples(0, 1) = 0
  <2>1. \A a, b \in Nat : (0 * a + (1 - 1)) * b = 0
    OBVIOUS
  <2> QED
    BY <2>1, Constants DEF StepSamples
<1>4. ~Resumable
  BY <1>1, Constants DEF Resumable
<1>5. InStep(trained, position, StepSamples(current_param_version, local_trigger_step))
  BY <1>1, <1>2, <1>3, Constants DEF InStep
<1>6. Exact
  BY <1>1, <1>2, Constants DEF Exact, Fed
<1> QED
  BY <1>1, <1>2, <1>4, <1>5, <1>6 DEF CountInv

\* Unless the instance is elastic or total_rollout_steps cuts the data within a
\* version, the versions count the training steps, before and after any number of
\* restarts: a checkpoint is begun with a version, and what it has been written with
\* is what trainer and Rollouter count on from.
THEOREM VersionsCountSteps == EndsWithVersion => (Spec => []VersionCountsSteps)
PROOF
<1> SUFFICES ASSUME EndsWithVersion
             PROVE  Spec => []VersionCountsSteps
  OBVIOUS
<1> DEFINE Inv == ~elastic => CountInv
<1>1. Init => Inv
  BY CountStarts
<1>2. IInv /\ Inv /\ [Next]_vars => Inv'
  BY CountNextPreserves
<1>3. IInv /\ Inv => VersionCountsSteps
  <2> SUFFICES ASSUME CountInv, position < DataLength, position \in Int, DataLength \in Int
               PROVE  Cardinality(trained) = StepSamples(current_param_version, local_trigger_step)
    BY Constants DEF VersionCountsSteps, StepSamples, IInv, Typed
  <2>1. position # DataLength
    OBVIOUS
  <2> QED
    BY <2>1 DEF CountInv, InStep
<1> HIDE DEF Inv
<1> QED
  BY <1>1, <1>2, <1>3, InvariantHolds, PTL DEF Spec

-----------------------------------------------------------------------------
(* Checkpoints: the components side by side *)

LEMMA CheckpointPart == MCSpec => Spec
PROOF
<1>1. MCInit => Init
  BY DEF MCInit
<1>2. [MCNext]_allVars => [Next]_vars
  BY DEF MCNext, allVars
<1> QED
  BY <1>1, <1>2, PTL DEF MCSpec, Spec

\* Whenever the job dies, the checkpoint the tracker names has all of its parts
\* and they belong together: _save_checkpoint writes the tracker last.  It takes
\* a job that keeps more than one checkpoint, or all of them.
THEOREM CheckpointsAreWhole ==
    ASSUME MaxCkptToKeep # 1
    PROVE  MCSpec => []CheckpointWhole
PROOF
<1>1. TypeOK /\ LatestIsWhole /\ RestoredTogether => CheckpointWhole
  BY DEF CheckpointWhole
<1> QED
  BY <1>1, CheckpointPart, TypesCorrect, LatestCheckpointIsWhole, PartsBelongTogether, PTL

\* A resumed training has every sample at most once and has lost only samples
\* that were in flight when a job died.
THEOREM SamplesAreKept == MCSpec => []SamplesKept
PROOF
<1>1. NoSampleTwice /\ OnlyInFlightLost => SamplesKept
  BY DEF SamplesKept
<1> QED
  BY <1>1, CheckpointPart, SamplesOnceAndFewLost, PTL

\* A job that is restarted goes on to the full length, and its versions count
\* its training steps, unless total_rollout_steps cuts the data within a version.
THEOREM TrainingIsCounted == EndsWithVersion => (MCSpec => []TrainingCounted)
PROOF
<1>1. FullLengthTraining /\ VersionCountsSteps => TrainingCounted
  BY DEF TrainingCounted
<1> QED
  BY <1>1, CheckpointPart, TrainingIsFullLength, VersionsCountSteps, PTL

-----------------------------------------------------------------------------
(* Environment client *)

\* The calls of a sequence.
Elements(e) == {e[i] : i \in DOMAIN e}

\* What is in a sequence is in it for a first time.
FirstsExist(e) ==
    \A i \in DOMAIN e : \E k \in 1..i : e[k] = e[i] /\ \A j \in 1..(k - 1) : e[j] # e[k]

\* Before any call come the smaller ones, those in S excepted.
SmallerFirst(e, S) ==
    \A j \in DOMAIN e : \A c \in Elements(e) \ S : c < e[j] => \E i \in 1..(j - 1) : e[i] = c

\* What is executed when: nothing where there is no environment; in a replay
\* the calls up to the one being replayed; and otherwise, if a call was executed
\* before its turn, then by a replay, which has not left it out.
RuntimeProgress ==
    IF rt_pc = "replay"
    THEN /\ rt_replayed < Len(rt_chat)
         /\ Elements(rt_executed) \subseteq 1..(rt_replayed + 1)
         /\ rt_exists => 1..rt_replayed \subseteq Elements(rt_executed) \cup rt_skipped
    ELSE /\ rt_exists => rt_results \subseteq Elements(rt_executed) \cup rt_skipped
         /\ \A c \in rt_next..Len(rt_chat), d \in Elements(rt_executed) :
                c < d => c \in Elements(rt_executed) \cup rt_skipped

\* The inductive invariant of the environment client.
RuntimeInv ==
    /\ Runtime!TypeOK
    /\ rt_pc \in {"ping", "restore", "replay", "execute", "again"} => rt_next <= Len(rt_chat)
    /\ rt_pc = "initialize" => rt_results = {}
    /\ ~rt_exists => rt_executed = <<>>
    /\ rt_results \subseteq 1..Len(rt_chat)
    /\ Elements(rt_executed) \subseteq 1..Len(rt_chat)
    /\ FirstsExist(rt_executed)
    /\ SmallerFirst(rt_executed, rt_skipped)
    /\ RuntimeProgress

LEMMA ElementsOfAppend ==
    ASSUME NEW S, NEW e \in Seq(S), NEW c \in S
    PROVE  Elements(Append(e, c)) = Elements(e) \cup {c}
PROOF
<1>1. /\ DOMAIN Append(e, c) = DOMAIN e \cup {Len(e) + 1}
      /\ \A i \in DOMAIN e : Append(e, c)[i] = e[i]
      /\ Append(e, c)[Len(e) + 1] = c
  OBVIOUS
<1> HIDE DEF Elements
<1> DEFINE f == Append(e, c)
<1> HIDE DEF f
<1>2. \A x : x \in Elements(f) => x \in Elements(e) \cup {c}
  BY <1>1 DEF f, Elements
<1>3. \A x : x \in Elements(e) \cup {c} => x \in Elements(f)
  BY <1>1 DEF f, Elements
<1> QED
  BY <1>2, <1>3 DEF f

\* A call keeps the order of first executions if it is excepted, was executed
\* before, or is the greatest.
LEMMA AppendKeepsOrder ==
    ASSUME NEW e \in Seq(Nat), NEW c \in Nat, NEW S,
           FirstsExist(e), SmallerFirst(e, S),
           c \in Elements(e) \cup S \/ \A d \in Elements(e) : d <= c
    PROVE  FirstsExist(Append(e, c)) /\ SmallerFirst(Append(e, c), S)
PROOF
<1> DEFINE f == Append(e, c)
<1>1. /\ f \in Seq(Nat) /\ Len(f) = Len(e) + 1 /\ DOMAIN f = 1..Len(f) /\ DOMAIN e = 1..Len(e)
      /\ Len(e) \in Nat
      /\ \A i \in 1..Len(e) : f[i] = e[i]
      /\ f[Len(e) + 1] = c
  OBVIOUS
<1>2. Elements(f) = Elements(e) \cup {c}
  BY ElementsOfAppend
<1> HIDE DEF f
<1>3. ASSUME NEW i \in DOMAIN f
      PROVE  \E k \in 1..i : f[k] = f[i] /\ \A j \in 1..(k - 1) : f[j] # f[k]
  <2>1. CASE i \in 1..Len(e)
    <3>1. PICK k \in 1..i : e[k] = e[i] /\ \A j \in 1..(k - 1) : e[j] # e[k]
      BY <2>1, <1>1 DEF FirstsExist
    <3> QED
      BY <3>1, <2>1, <1>1
  <2>2. CASE i = Len(e) + 1 /\ c \in Elements(e)
    <3>1. PICK m \in 1..Len(e) : e[m] = c
      BY <2>2, <1>1 DEF Elements
    <3>2. PICK k \in 1..m : e[k] = e[m] /\ \A j \in 1..(k - 1) : e[j] # e[k]
      BY <1>1 DEF FirstsExist
    <3>3. k \in 1..i /\ k \in 1..Len(e) /\ f[k] = c /\ f[i] = c
      BY <3>1, <3>2, <2>2, <1>1
    <3>4. \A j \in 1..(k - 1) : j \in 1..Len(e) /\ f[j] # f[k]
      BY <3>2, <3>3, <1>1
    <3> QED
      BY <3>3, <3>4
  <2>3. CASE i = Len(e) + 1 /\ c \notin Elements(e)
    <3>1. ASSUME NEW j \in 1..(i - 1)
          PROVE  f[j] # f[i]
      <4>1. j \in 1..Len(e) /\ j \in DOMAIN e /\ f[j] = e[j] /\ f[i] = c
        BY <2>3, <1>1
      <4>2. e[j] \in Elements(e)
        BY <4>1 DEF Elements
      <4> QED
        BY <4>1, <4>2, <2>3
    <3> QED
      BY <3>1, <2>3, <1>1
  <2> QED
    BY <2>1, <2>2, <2>3, <1>1
<1>4. ASSUME NEW j \in DOMAIN f, NEW b \in Elements(f) \ S, b < f[j]
      PROVE  \E i \in 1..(j - 1) : f[i] = b
  <2>1. CASE b \in Elements(e)
    <3>1. PICK m \in 1..Len(e) : e[m] = b
      BY <2>1, <1>1 DEF Elements
    <3>2. CASE j = Len(e) + 1
      BY <3>1, <3>2, <1>1
    <3>3. CASE j \in 1..Len(e)
      <4>1. PICK i \in 1..(j - 1) : e[i] = b
        BY <2>1, <1>4, <3>3, <1>1 DEF SmallerFirst
      <4>2. i \in 1..Len(e)
        BY <3>3, <1>1
      <4> QED
        BY <4>1, <4>2, <1>1
    <3> QED
      BY <3>2, <3>3, <1>1
  <2>2. CASE b \notin Elements(e)
    <3>1. b = c /\ \A d \in Elements(e) : d <= c
      BY <2>2, <1>2, <1>4
    <3>2. f[j] <= c
      BY <3>1, <1>1, <1>2 DEF Elements
    <3>3. f[j] \in Nat
      BY <1>1
    <3> QED
      BY <3>1, <3>2, <3>3, <1>4
  <2> QED
    BY <2>1, <2>2
<1> QED
  BY <1>3, <1>4 DEF FirstsExist, SmallerFirst, f

LEMMA EmptyInOrder ==
    ASSUME NEW S
    PROVE  Elements(<<>>) = {} /\ FirstsExist(<<>>) /\ SmallerFirst(<<>>, S)
PROOF
  BY DEF Elements, FirstsExist, SmallerFirst

LEMMA MoreExcepted ==
    ASSUME NEW e, NEW S, NEW T, SmallerFirst(e, S), S \subseteq T
    PROVE  SmallerFirst(e, T)
PROOF
  BY DEF SmallerFirst

LEMMA RuntimeNumbers == RtMaxCalls \in Nat /\ RtMaxAttempts \in Nat \ {0}
PROOF
  BY ComponentsAssumption

LEMMA RuntimeInitially == Runtime!Init => RuntimeInv
PROOF
<1> SUFFICES ASSUME Runtime!Init
             PROVE  RuntimeInv
  OBVIOUS
<1> USE DEF Runtime!Init
<1>1. Runtime!TypeOK
  <2>1. 0 \in 0..(RtMaxAttempts - 1)
    BY RuntimeNumbers
  <2>2. \A S : <<>> \in Seq(S)
    OBVIOUS
  <2>3. rt_chat \in Seq({"tool", "unknown", "error"}) /\ Len(rt_chat) = 0
    BY <2>2
  <2>4. rt_executed \in Seq(Runtime!Calls) /\ rt_results \subseteq Runtime!Calls
        /\ rt_skipped \subseteq Runtime!Calls
    BY <2>2
  <2>5. 1 \in 1..(Len(rt_chat) + 1) /\ 0 \in 0..Len(rt_chat) /\ Len(rt_chat) <= RtMaxCalls
    BY <2>3, RuntimeNumbers
  <2> QED
    BY <2>1, <2>3, <2>4, <2>5 DEF Runtime!TypeOK
<1>2. /\ Elements(rt_executed) = {} /\ FirstsExist(rt_executed)
      /\ SmallerFirst(rt_executed, rt_skipped)
  BY EmptyInOrder
<1> QED
  BY <1>1, <1>2 DEF RuntimeInv, RuntimeProgress

LEMMA RuntimeAttempt ==
    ASSUME rt_attempts \in 0..(RtMaxAttempts - 1), NEW o, NEW served, NEW retried \in BOOLEAN,
           Runtime!Attempt(o, served, retried)
    PROVE  /\ rt_attempts' \in 0..(RtMaxAttempts - 1)
           /\ retried => o # "ok"
           /\ o = "ok" => served
           /\ o = "refused" => ~served
PROOF
  BY RuntimeNumbers DEF Runtime!Attempt

-----------------------------------------------------------------------------

\* An execution of the client's: the call is appended, if there is an environment.
LEMMA Execution ==
    ASSUME RuntimeInv, NEW c \in 1..Len(rt_chat), NEW o, Runtime!Executes(c, o),
           rt_exists => \/ c \in Elements(rt_executed) \cup rt_skipped
                        \/ \A d \in Elements(rt_executed) : d <= c
    PROVE  /\ rt_executed' \in Seq(1..RtMaxCalls)
           /\ rt_exists' = rt_exists
           /\ ~rt_exists => rt_executed' = <<>>
           /\ FirstsExist(rt_executed') /\ SmallerFirst(rt_executed', rt_skipped)
           /\ Elements(rt_executed') \subseteq Elements(rt_executed) \cup {c}
           /\ Elements(rt_executed) \subseteq Elements(rt_executed')
           /\ o = "ok" /\ Runtime!Accepts(c) => c \in Elements(rt_executed')
PROOF
<1>1. /\ rt_executed \in Seq(1..RtMaxCalls) /\ c \in 1..RtMaxCalls
      /\ rt_executed \in Seq(Nat) /\ c \in Nat
  BY RuntimeNumbers DEF RuntimeInv, Runtime!TypeOK, Runtime!Calls
<1>2. CASE rt_executed' = rt_executed /\ ~(Runtime!Accepts(c) /\ Runtime!Reached(o))
  BY <1>1, <1>2 DEF RuntimeInv, Runtime!Executes, Runtime!Reached
<1>3. CASE rt_executed' = Append(rt_executed, c) /\ rt_exists
  <2>1. Append(rt_executed, c) \in Seq(1..RtMaxCalls)
    BY <1>1
  <2>2. Elements(rt_executed') = Elements(rt_executed) \cup {c}
    BY <1>1, <1>3, ElementsOfAppend
  <2>3. FirstsExist(rt_executed') /\ SmallerFirst(rt_executed', rt_skipped)
    BY <1>1, <1>3, AppendKeepsOrder DEF RuntimeInv
  <2> QED
    BY <2>1, <2>2, <2>3, <1>3 DEF Runtime!Executes
<1> QED
  BY <1>2, <1>3 DEF Runtime!Executes, Runtime!Accepts

LEMMA CreateKeeps ==
    ASSUME RuntimeInv, Runtime!Create
    PROVE  RuntimeInv'
PROOF
<1>1. PICK o \in {"ok", "unreachable", "lost"}, retried \in BOOLEAN :
        /\ Runtime!Attempt(o, TRUE, retried)
        /\ \/ /\ o = "ok"
              /\ rt_exists' = TRUE /\ rt_executed' = <<>> /\ rt_skipped' = {} /\ rt_replayed' = 0
              /\ rt_pc' = IF rt_pc = "initialize" THEN "turn" ELSE "replay"
              /\ rt_next' = rt_next
           \/ /\ o # "ok"
              /\ UNCHANGED <<rt_exists, rt_executed, rt_skipped, rt_replayed>>
              /\ \/ UNCHANGED <<rt_pc, rt_next>>
                 \/ rt_pc = "initialize" /\ rt_pc' = "failed" /\ UNCHANGED rt_next
                 \/ rt_pc' = "turn" /\ rt_next' = Len(rt_chat) + 1
  BY RuntimeAttempt, ZenonT(30)
  DEF RuntimeInv, Runtime!TypeOK, Runtime!Create, Runtime!DropMessage, Runtime!serviceVars
<1>2. /\ rt_pc \in {"initialize", "restore"}
      /\ UNCHANGED <<rt_chat, rt_after, rt_results, rt_reward>>
  BY DEF Runtime!Create
<1>3. Runtime!TypeOK'
  <2>1. rt_attempts' \in 0..(RtMaxAttempts - 1)
    BY <1>1, RuntimeAttempt DEF RuntimeInv, Runtime!TypeOK
  <2>2. \A S : <<>> \in Seq(S)
    OBVIOUS
  <2>3. /\ rt_executed' \in Seq(Runtime!Calls) /\ rt_skipped' \subseteq Runtime!Calls
        /\ rt_exists' \in BOOLEAN
    BY <1>1, <2>2 DEF RuntimeInv, Runtime!TypeOK
  <2>4. Len(rt_chat) \in Nat /\ rt_next \in 1..(Len(rt_chat) + 1) /\ rt_replayed \in 0..Len(rt_chat)
    BY DEF RuntimeInv, Runtime!TypeOK
  <2>5. rt_next' \in 1..(Len(rt_chat) + 1) /\ rt_replayed' \in 0..Len(rt_chat)
    BY <1>1, <2>4
  <2>6. rt_pc' \in {"initialize", "turn", "restore", "replay", "failed"}
    BY <1>1, <1>2
  <2> QED
    BY <1>2, <2>1, <2>3, <2>5, <2>6 DEF RuntimeInv, Runtime!TypeOK
<1>4. CASE o = "ok"
  <2>1. /\ Elements(rt_executed') = {} /\ FirstsExist(rt_executed')
        /\ SmallerFirst(rt_executed', rt_skipped')
    BY <1>1, <1>4, EmptyInOrder
  <2>2. Len(rt_chat) \in Nat
    BY DEF RuntimeInv, Runtime!TypeOK
  <2>3. RuntimeProgress'
    BY <1>1, <1>2, <1>4, <2>1, <2>2 DEF RuntimeInv, Runtime!TypeOK, RuntimeProgress
  <2> QED
    BY <1>1, <1>2, <1>3, <1>4, <2>1, <2>3 DEF RuntimeInv
<1>5. CASE o # "ok"
  <2>1. RuntimeProgress'
    BY <1>1, <1>2, <1>5 DEF RuntimeInv, Runtime!TypeOK, RuntimeProgress
  <2> QED
    BY <1>1, <1>2, <1>3, <1>5, <2>1 DEF RuntimeInv
<1> QED
  BY <1>4, <1>5

LEMMA PingKeeps ==
    ASSUME RuntimeInv, Runtime!Ping
    PROVE  RuntimeInv'
PROOF
<1>1. /\ rt_pc = "ping" /\ rt_pc' \in {"ping", "execute", "restore"} /\ rt_after' = "execute"
      /\ UNCHANGED <<rt_chat, rt_next, rt_replayed, rt_results, rt_skipped, rt_reward, rt_exists,
                     rt_executed>>
      /\ rt_attempts' \in 0..(RtMaxAttempts - 1)
  BY RuntimeAttempt DEF RuntimeInv, Runtime!TypeOK, Runtime!Ping, Runtime!serviceVars
<1>2. Runtime!TypeOK'
  BY <1>1 DEF RuntimeInv, Runtime!TypeOK
<1>3. RuntimeProgress'
  BY <1>1 DEF RuntimeInv, RuntimeProgress
<1> QED
  BY <1>1, <1>2, <1>3 DEF RuntimeInv

LEMMA ReplayKeeps ==
    ASSUME RuntimeInv, Runtime!Replay
    PROVE  RuntimeInv'
PROOF
<1> DEFINE c == rt_replayed + 1
<1>1. PICK o \in {"ok", "refused", "unreachable", "lost"}, retried \in BOOLEAN :
        /\ Runtime!Attempt(o, Runtime!Accepts(c), retried)
        /\ Runtime!Executes(c, o)
        /\ \/ retried /\ UNCHANGED <<rt_replayed, rt_skipped, rt_pc>>
           \/ /\ ~retried /\ rt_replayed' = c
              /\ rt_skipped' = IF o = "ok" THEN rt_skipped ELSE rt_skipped \cup {c}
              /\ rt_pc' = IF c < Len(rt_chat) THEN "replay" ELSE rt_after
  BY DEF Runtime!Replay, Runtime!ReplayedCall, Runtime!ReplayGoesOn
<1>2. rt_pc = "replay" /\ UNCHANGED <<rt_chat, rt_next, rt_after, rt_results, rt_reward>>
  BY DEF Runtime!Replay
<1>3. /\ rt_attempts' \in 0..(RtMaxAttempts - 1)
      /\ o = "ok" => Runtime!Accepts(c)
      /\ retried => o # "ok"
  BY <1>1, RuntimeAttempt DEF RuntimeInv, Runtime!TypeOK, Runtime!Accepts
<1>4. /\ rt_replayed \in Nat /\ Len(rt_chat) \in Nat /\ Len(rt_chat) <= RtMaxCalls
      /\ rt_replayed < Len(rt_chat) /\ c \in 1..Len(rt_chat) /\ c \in 1..RtMaxCalls
      /\ \A d \in Elements(rt_executed) : d <= c
  BY <1>2, RuntimeNumbers DEF RuntimeInv, RuntimeProgress, Runtime!TypeOK
<1>5. /\ rt_executed' \in Seq(1..RtMaxCalls)
      /\ rt_exists' = rt_exists
      /\ ~rt_exists => rt_executed' = <<>>
      /\ FirstsExist(rt_executed') /\ SmallerFirst(rt_executed', rt_skipped)
      /\ Elements(rt_executed') \subseteq Elements(rt_executed) \cup {c}
      /\ Elements(rt_executed) \subseteq Elements(rt_executed')
      /\ o = "ok" => c \in Elements(rt_executed')
  BY <1>1, <1>3, <1>4, Execution
<1>6. /\ rt_skipped \subseteq rt_skipped' /\ rt_skipped' \subseteq rt_skipped \cup {c}
      /\ ~retried => c \in Elements(rt_executed') \cup rt_skipped'
  BY <1>1, <1>5
<1>7. SmallerFirst(rt_executed', rt_skipped')
  BY <1>5, <1>6, MoreExcepted
<1>8. Runtime!TypeOK'
  BY <1>1, <1>2, <1>3, <1>4, <1>5, <1>6 DEF RuntimeInv, Runtime!TypeOK, Runtime!Calls
<1>9. RuntimeProgress'
  <2>1. Elements(rt_executed) \subseteq 1..c /\ (rt_exists =>
            1..rt_replayed \subseteq Elements(rt_executed) \cup rt_skipped)
    BY <1>2 DEF RuntimeInv, RuntimeProgress
  <2>2. Elements(rt_executed') \subseteq 1..c
    BY <2>1, <1>4, <1>5
  <2>3. rt_exists => 1..rt_replayed \subseteq Elements(rt_executed') \cup rt_skipped'
    BY <2>1, <1>5, <1>6
  <2>4. ~retried /\ rt_exists => 1..c \subseteq Elements(rt_executed') \cup rt_skipped'
    BY <2>3, <1>4, <1>6
  <2>5. CASE retried
    BY <2>2, <2>3, <2>5, <1>1, <1>2, <1>4, <1>5 DEF RuntimeProgress
  <2>6. CASE ~retried /\ c < Len(rt_chat)
    BY <2>2, <2>4, <2>6, <1>1, <1>2, <1>4, <1>5 DEF RuntimeProgress
  <2>7. CASE ~retried /\ ~(c < Len(rt_chat))
    <3>1. c = Len(rt_chat) /\ rt_pc' = rt_after /\ rt_after # "replay"
      BY <2>7, <1>1, <1>4 DEF RuntimeInv, Runtime!TypeOK
    <3>2. rt_exists => 1..Len(rt_chat) \subseteq Elements(rt_executed') \cup rt_skipped'
      BY <3>1, <2>4, <2>7
    <3>3. ~rt_exists => Elements(rt_executed') = {}
      BY <1>5, EmptyInOrder
    <3>4. rt_next \in Nat /\ rt_next >= 1
      BY DEF RuntimeInv, Runtime!TypeOK
    <3>5. \A b \in rt_next..Len(rt_chat), d \in Elements(rt_executed') :
            b \in Elements(rt_executed') \cup rt_skipped'
      BY <3>2, <3>3, <3>4, <1>4
    <3>6. rt_exists' => rt_results' \subseteq Elements(rt_executed') \cup rt_skipped'
      BY <3>2, <1>2, <1>5 DEF RuntimeInv
    <3> QED
      BY <3>1, <3>5, <3>6, <1>2 DEF RuntimeProgress
  <2> QED
    BY <2>5, <2>6, <2>7
<1>10. /\ rt_pc' \in {"replay", "execute", "again"}
       /\ Elements(rt_executed') \subseteq 1..Len(rt_chat)
  BY <1>1, <1>2, <1>4, <1>5 DEF RuntimeInv, Runtime!TypeOK
<1> QED
  BY <1>2, <1>5, <1>7, <1>8, <1>9, <1>10 DEF RuntimeInv

LEMMA ExecuteStepKeeps ==
    ASSUME RuntimeInv, Runtime!ExecuteStep
    PROVE  RuntimeInv'
PROOF
<1>1. PICK o \in {"ok", "refused", "unreachable", "lost"}, retried \in BOOLEAN :
        /\ Runtime!Attempt(o, Runtime!Accepts(rt_next), retried)
        /\ Runtime!Executes(rt_next, o)
        /\ \/ /\ o = "ok" /\ rt_results' = rt_results \cup {rt_next} /\ rt_next' = rt_next + 1
              /\ rt_pc' = IF rt_next = Len(rt_chat) THEN "turn" ELSE "ping"
              /\ rt_after' = rt_after
           \/ /\ o # "ok" /\ rt_results' = rt_results
              /\ \/ UNCHANGED <<rt_next, rt_pc, rt_after>>
                 \/ rt_pc' = "restore" /\ rt_after' = "again" /\ rt_next' = rt_next
                 \/ rt_pc' = "turn" /\ rt_next' = Len(rt_chat) + 1 /\ rt_after' = rt_after
  BY RuntimeAttempt, ZenonT(30)
  DEF RuntimeInv, Runtime!TypeOK, Runtime!ExecuteStep, Runtime!DropMessage, Runtime!Accepts
<1>2. /\ rt_pc \in {"execute", "again"}
      /\ UNCHANGED <<rt_chat, rt_replayed, rt_skipped, rt_reward>>
  BY DEF Runtime!ExecuteStep
<1>3. /\ rt_attempts' \in 0..(RtMaxAttempts - 1)
      /\ o = "ok" => Runtime!Accepts(rt_next)
  BY <1>1, RuntimeAttempt DEF RuntimeInv, Runtime!TypeOK, Runtime!Accepts
<1>4. /\ rt_next \in 1..Len(rt_chat) /\ Len(rt_chat) \in Nat /\ Len(rt_chat) <= RtMaxCalls
      /\ rt_next \in 1..RtMaxCalls /\ Elements(rt_executed) \subseteq 1..Len(rt_chat)
  BY <1>2, RuntimeNumbers DEF RuntimeInv, Runtime!TypeOK
<1>5. /\ rt_exists => rt_results \subseteq Elements(rt_executed) \cup rt_skipped
      /\ \A b \in rt_next..Len(rt_chat), d \in Elements(rt_executed) :
             b < d => b \in Elements(rt_executed) \cup rt_skipped
  BY <1>2 DEF RuntimeInv, RuntimeProgress
<1>6. \/ rt_next \in Elements(rt_executed) \cup rt_skipped
      \/ \A d \in Elements(rt_executed) : d <= rt_next
  BY <1>4, <1>5
<1>7. /\ rt_executed' \in Seq(1..RtMaxCalls)
      /\ rt_exists' = rt_exists
      /\ ~rt_exists => rt_executed' = <<>>
      /\ FirstsExist(rt_executed') /\ SmallerFirst(rt_executed', rt_skipped)
      /\ Elements(rt_executed') \subseteq Elements(rt_executed) \cup {rt_next}
      /\ Elements(rt_executed) \subseteq Elements(rt_executed')
      /\ o = "ok" => rt_next \in Elements(rt_executed')
  BY <1>1, <1>3, <1>4, <1>6, Execution
<1>8. Runtime!TypeOK'
  <2>1. rt_results' \subseteq Runtime!Calls /\ rt_executed' \in Seq(Runtime!Calls)
    BY <1>1, <1>4, <1>7 DEF RuntimeInv, Runtime!TypeOK, Runtime!Calls
  <2>2. rt_next' \in 1..(Len(rt_chat) + 1)
    BY <1>1, <1>4
  <2>3. /\ rt_pc' \in {"turn", "ping", "execute", "again", "restore"}
        /\ rt_after' \in {"execute", "again"} /\ rt_exists' \in BOOLEAN
    BY <1>1, <1>2, <1>7 DEF RuntimeInv, Runtime!TypeOK
  <2> QED
    BY <1>2, <1>3, <2>1, <2>2, <2>3 DEF RuntimeInv, Runtime!TypeOK
<1>9. RuntimeProgress'
  <2>1. rt_pc' # "replay" /\ rt_next' \in Nat /\ rt_next' >= rt_next
    BY <1>1, <1>2, <1>4
  <2>2. \A b \in rt_next'..Len(rt_chat), d \in Elements(rt_executed') :
            b < d => b \in Elements(rt_executed') \cup rt_skipped
    BY <2>1, <1>4, <1>5, <1>7
  <2>3. rt_exists' => rt_results' \subseteq Elements(rt_executed') \cup rt_skipped
    BY <1>1, <1>5, <1>7
  <2> QED
    BY <2>1, <2>2, <2>3, <1>2 DEF RuntimeProgress
<1>10. rt_pc' \in {"ping", "restore", "replay", "execute", "again"} => rt_next' <= Len(rt_chat)
  BY <1>1, <1>4
<1>11. rt_results' \subseteq 1..Len(rt_chat) /\ rt_pc' # "initialize"
  BY <1>1, <1>2, <1>4 DEF RuntimeInv
<1>12. Elements(rt_executed') \subseteq 1..Len(rt_chat)
  BY <1>4, <1>7
<1> QED
  BY <1>2, <1>7, <1>8, <1>9, <1>10, <1>11, <1>12 DEF RuntimeInv

LEMMA AgentRespondsKeeps ==
    ASSUME RuntimeInv, Runtime!AgentResponds
    PROVE  RuntimeInv'
PROOF
<1>1. /\ rt_pc = "turn"
      /\ UNCHANGED <<rt_after, rt_replayed, rt_results, rt_skipped, rt_reward, rt_exists,
                     rt_executed, rt_attempts>>
  BY DEF Runtime!AgentResponds, Runtime!serviceVars
<1>2. /\ rt_chat \in Seq({"tool", "unknown", "error"}) /\ Len(rt_chat) \in Nat
      /\ rt_next \in 1..(Len(rt_chat) + 1)
  BY DEF RuntimeInv, Runtime!TypeOK
<1>3. /\ rt_chat' \in Seq({"tool", "unknown", "error"})
      /\ Len(rt_chat') \in Nat /\ Len(rt_chat') > Len(rt_chat) /\ Len(rt_chat') <= RtMaxCalls
      /\ \/ rt_pc' = "turn" /\ rt_next' = rt_next + 1
         \/ rt_pc' = "ping" /\ rt_next' = rt_next
  <2>1. CASE /\ Len(rt_chat) < RtMaxCalls
             /\ rt_chat' = Append(rt_chat, "error")
             /\ rt_next' = rt_next + 1
             /\ rt_pc' = rt_pc
    BY <2>1, <1>1, <1>2, RuntimeNumbers
  <2>2. CASE \E n \in 1..2 : \E calls \in [1..n -> {"tool", "unknown"}] :
                /\ Len(rt_chat) + n <= RtMaxCalls
                /\ rt_chat' = rt_chat \o calls
                /\ rt_pc' = "ping"
                /\ rt_next' = rt_next
    <3>1. PICK n \in 1..2 : \E calls \in [1..n -> {"tool", "unknown"}] :
                /\ Len(rt_chat) + n <= RtMaxCalls
                /\ rt_chat' = rt_chat \o calls
                /\ rt_pc' = "ping"
                /\ rt_next' = rt_next
      BY <2>2
    <3>2. PICK calls \in [1..n -> {"tool", "unknown"}] :
                /\ Len(rt_chat) + n <= RtMaxCalls
                /\ rt_chat' = rt_chat \o calls
                /\ rt_pc' = "ping"
                /\ rt_next' = rt_next
      BY <3>1
    <3>3. calls \in Seq({"tool", "unknown", "error"}) /\ Len(calls) = n
      BY <3>2
    <3> QED
      BY <3>2, <3>3, <1>2
  <2> QED
    BY <2>1, <2>2 DEF Runtime!AgentResponds
<1>4. Runtime!TypeOK'
  BY <1>1, <1>2, <1>3 DEF RuntimeInv, Runtime!TypeOK
<1>5. Elements(rt_executed) \subseteq 1..Len(rt_chat)
  BY DEF RuntimeInv
<1>6. RuntimeProgress'
  BY <1>1, <1>2, <1>3, <1>5 DEF RuntimeInv, RuntimeProgress
<1>7. rt_results' \subseteq 1..Len(rt_chat') /\ Elements(rt_executed') \subseteq 1..Len(rt_chat')
  BY <1>1, <1>2, <1>3, <1>5 DEF RuntimeInv
<1> QED
  BY <1>1, <1>2, <1>3, <1>4, <1>6, <1>7 DEF RuntimeInv

LEMMA OtherRuntimeStepsKeep ==
    ASSUME RuntimeInv,
           Runtime!Forget \/ Runtime!ConversationEnds \/ Runtime!GetReward \/ UNCHANGED rtVars
    PROVE  RuntimeInv'
PROOF
<1>1. CASE Runtime!Forget
  <2>1. /\ rt_exists' = FALSE /\ rt_executed' = <<>>
        /\ UNCHANGED <<rt_chat, rt_next, rt_after, rt_replayed, rt_results, rt_skipped, rt_reward,
                       rt_pc, rt_attempts>>
    BY <1>1 DEF Runtime!Forget, Runtime!clientVars
  <2>2. /\ Elements(rt_executed') = {} /\ FirstsExist(rt_executed')
        /\ SmallerFirst(rt_executed', rt_skipped')
    BY <2>1, EmptyInOrder
  <2>3. \A S : <<>> \in Seq(S)
    OBVIOUS
  <2>4. Runtime!TypeOK'
    BY <2>1, <2>3 DEF RuntimeInv, Runtime!TypeOK
  <2>5. RuntimeProgress'
    BY <2>1, <2>2 DEF RuntimeInv, RuntimeProgress
  <2> QED
    BY <2>1, <2>2, <2>4, <2>5 DEF RuntimeInv
<1>2. CASE Runtime!ConversationEnds \/ Runtime!GetReward
  <2>1. /\ UNCHANGED <<rt_chat, rt_next, rt_after, rt_replayed, rt_results, rt_skipped, rt_exists,
                       rt_executed>>
        /\ rt_pc \in {"turn", "reward"} /\ rt_pc' \in {"reward", "end"}
        /\ rt_attempts' \in 0..(RtMaxAttempts - 1)
        /\ rt_reward' \in {rt_reward, rt_executed}
    BY <1>2, RuntimeAttempt
    DEF RuntimeInv, Runtime!TypeOK, Runtime!ConversationEnds, Runtime!GetReward, Runtime!Scores,
        Runtime!clientVars, Runtime!serviceVars
  <2>2. Runtime!TypeOK'
    BY <2>1 DEF RuntimeInv, Runtime!TypeOK
  <2>3. RuntimeProgress'
    BY <2>1 DEF RuntimeInv, RuntimeProgress
  <2> QED
    BY <2>1, <2>2, <2>3 DEF RuntimeInv
<1>3. CASE UNCHANGED rtVars
  BY <1>3 DEF rtVars, RuntimeInv, RuntimeProgress, Runtime!TypeOK
<1> QED
  BY <1>1, <1>2, <1>3

LEMMA RuntimeInvHolds == MCSpec => []RuntimeInv
PROOF
<1>1. MCInit => RuntimeInv
  BY RuntimeInitially DEF MCInit
<1>2. RuntimeInv /\ [MCNext]_allVars => RuntimeInv'
  <2> SUFFICES ASSUME RuntimeInv, [MCNext]_allVars
               PROVE  RuntimeInv'
    OBVIOUS
  <2>1. Runtime!Next \/ UNCHANGED rtVars
    BY DEF MCNext, allVars
  <2>2. Runtime!Next => \/ Runtime!Create \/ Runtime!Ping \/ Runtime!Replay \/ Runtime!ExecuteStep
                        \/ Runtime!AgentResponds \/ Runtime!ConversationEnds
                        \/ Runtime!GetReward \/ Runtime!Forget \/ UNCHANGED rtVars
    BY DEF Runtime!Next, Runtime!ClientStep, Runtime!Ended, Runtime!vars, Runtime!clientVars,
           Runtime!serviceVars, rtVars
  <2> QED
    BY <2>1, <2>2, CreateKeeps, PingKeeps, ReplayKeeps, ExecuteStepKeeps, AgentRespondsKeeps,
       OtherRuntimeStepsKeep
<1> QED
  BY <1>1, <1>2, PTL DEF MCSpec

\* In the environment the agent works with, whatever requests and answers were
\* lost and however often the service forgot it: the calls the agent has results
\* of are executed, unless their replay failed; they were first executed in the
\* order of the conversation; and a reward is of such calls only.
THEOREM RuntimeIsAsSeen == MCSpec => []RuntimeAsSeen
PROOF
<1> SUFFICES ASSUME RuntimeInv
             PROVE  RuntimeAsSeen
  BY RuntimeInvHolds, PTL
<1>1. Runtime!TypeOK
  BY DEF RuntimeInv
<1>2. Runtime!ResultsAreExecuted
  BY DEF RuntimeInv, RuntimeProgress, Runtime!ResultsAreExecuted, Runtime!Recovered,
         Runtime!Executed, Elements
<1>3. Runtime!FirstExecutionsInOrder
  <2> SUFFICES ASSUME NEW c \in Runtime!Executed \ rt_skipped, NEW d \in Runtime!Executed, c < d
               PROVE  Runtime!FirstTime(c) < Runtime!FirstTime(d)
    BY DEF Runtime!FirstExecutionsInOrder
  <2>1. /\ rt_executed \in Seq(Nat) /\ Len(rt_executed) \in Nat
        /\ DOMAIN rt_executed = 1..Len(rt_executed)
    BY RuntimeNumbers DEF RuntimeInv, Runtime!TypeOK, Runtime!Calls
  <2>2. \A x \in Runtime!Executed :
            /\ Runtime!FirstTime(x) \in DOMAIN rt_executed
            /\ rt_executed[Runtime!FirstTime(x)] = x
            /\ \A j \in 1..(Runtime!FirstTime(x) - 1) : rt_executed[j] # x
    <3> SUFFICES ASSUME NEW x \in Runtime!Executed
                 PROVE  \E i \in DOMAIN rt_executed :
                            rt_executed[i] = x /\ \A j \in 1..(i - 1) : rt_executed[j] # x
      BY DEF Runtime!FirstTime
    <3>1. PICK m \in DOMAIN rt_executed : rt_executed[m] = x
      BY DEF Runtime!Executed
    <3>2. PICK i \in 1..m :
            rt_executed[i] = rt_executed[m] /\ \A j \in 1..(i - 1) : rt_executed[j] # rt_executed[i]
      BY DEF RuntimeInv, FirstsExist
    <3>3. i \in DOMAIN rt_executed
      BY <2>1
    <3> QED
      BY <3>1, <3>2, <3>3
  <2>3. PICK i \in 1..(Runtime!FirstTime(d) - 1) : rt_executed[i] = c
    BY <2>2 DEF RuntimeInv, SmallerFirst, Runtime!Executed, Elements
  <2> DEFINE fc == Runtime!FirstTime(c)
             fd == Runtime!FirstTime(d)
  <2>4. fc \in 1..Len(rt_executed) /\ fd \in 1..Len(rt_executed)
        /\ \A j \in 1..(fc - 1) : rt_executed[j] # c
    BY <2>1, <2>2
  <2>5. i \in 1..(fd - 1) /\ rt_executed[i] = c
    BY <2>3
  <2> HIDE DEF fc, fd
  <2>6. fc < fd
    BY <2>1, <2>4, <2>5
  <2> QED
    BY <2>6 DEF fc, fd
<1>4. Runtime!RewardOfCalls
  BY RuntimeNumbers
  DEF RuntimeInv, Runtime!TypeOK, Runtime!RewardOfCalls, Runtime!Calls, Runtime!GroundTruth
<1> QED
  BY <1>1, <1>2, <1>3, <1>4 DEF RuntimeAsSeen

-----------------------------------------------------------------------------
(* Rate limits: one bucket.  M is what it holds, C what a request costs, tk  *)
(* its level at the last update, el the time since, id the level of a bucket *)
(* that pays late, P the requests that have paid and sleep, sl their sleeps. *)

\* The level is never above the ideal one.  Each request that sleeps after
\* having paid wakes when the debt up to its own is gone, and the requests
\* wake at least one cost apart.
Budget(M, C, tk, el, id, P, sl) ==
    /\ tk \in Int /\ el \in Nat /\ id \in Int
    /\ tk + el <= M /\ tk + el <= id /\ 0 <= id
    /\ \A r \in P : M < C /\ sl[r] \in Nat /\ tk + el + sl[r] <= 0 /\ C <= id + sl[r]
    /\ \A r, q \in P : r # q => C <= sl[q] - sl[r] \/ C <= sl[r] - sl[q]

LEMMA BudgetUpdated ==
    ASSUME NEW M \in Nat, NEW C \in Nat, NEW tk, NEW el, NEW id, NEW P, NEW sl, NEW sm,
           Budget(M, C, tk, el, id, P, sl), \A r \in P : sm[r] = sl[r]
    PROVE  Budget(M, C, tk, el, id, P, sm) /\ Budget(M, C, tk + el, 0, id, P, sm)
PROOF
  BY DEF Budget

LEMMA BudgetPays ==
    ASSUME NEW M \in Nat, NEW C \in Nat, NEW tk, NEW el, NEW id, NEW P, NEW sl,
           Budget(M, C, tk, el, id, P, sl), C <= M, C <= tk + el
    PROVE  Budget(M, C, tk + el - C, 0, id - C, P, sl)
PROOF
<1>1. P = {}
  BY DEF Budget
<1> QED
  BY <1>1 DEF Budget

LEMMA BudgetOwes ==
    ASSUME NEW M \in Nat, NEW C \in Nat, NEW tk, NEW el, NEW id, NEW P, NEW sl, NEW sm, NEW r,
           Budget(M, C, tk, el, id, P, sl), M < C, r \notin P,
           sm[r] = C - (tk + el), \A q \in P : sm[q] = sl[q]
    PROVE  Budget(M, C, tk + el - C, 0, id, P \cup {r}, sm)
PROOF
<1>1. /\ tk \in Int /\ el \in Nat /\ id \in Int
      /\ tk + el <= M /\ tk + el <= id /\ 0 <= id
  BY DEF Budget
<1>2. \A q \in P : sm[q] \in Nat /\ tk + el + sm[q] <= 0 /\ C <= id + sm[q]
  BY DEF Budget
<1>3. sm[r] \in Nat /\ tk + el - C + sm[r] <= 0 /\ C <= id + sm[r]
  BY <1>1
<1>4. \A q \in P : tk + el - C + sm[q] <= 0
  BY <1>1, <1>2
<1>5. \A q \in P : C <= sm[r] - sm[q]
  BY <1>1, <1>2
<1>6. \A p, q \in P : p # q => C <= sm[q] - sm[p] \/ C <= sm[p] - sm[q]
  BY DEF Budget
<1>7. \A p, q \in P \cup {r} : p # q => C <= sm[q] - sm[p] \/ C <= sm[p] - sm[q]
  BY <1>5, <1>6
<1>8. tk + el - C \in Int /\ tk + el - C + 0 = tk + el - C /\ tk + el - C <= M
      /\ tk + el - C <= id
  BY <1>1
<1> QED
  BY <1>1, <1>2, <1>3, <1>4, <1>7, <1>8 DEF Budget

LEMMA BudgetPaid ==
    ASSUME NEW M \in Nat, NEW C \in Nat, NEW tk, NEW el, NEW id, NEW P, NEW sl, NEW r \in P,
           Budget(M, C, tk, el, id, P, sl), sl[r] = 0
    PROVE  Budget(M, C, tk, el, id - C, P \ {r}, sl)
PROOF
<1>1. /\ tk \in Int /\ el \in Nat /\ id \in Int /\ M < C
      /\ tk + el <= M /\ tk + el <= 0 /\ C <= id
  BY DEF Budget
<1>2. \A q \in P \ {r} : sl[q] \in Nat /\ tk + el + sl[q] <= 0 /\ C <= sl[q]
  BY <1>1 DEF Budget
<1>3. \A q \in P \ {r} : C <= id - C + sl[q]
  BY <1>1, <1>2
<1>4. id - C \in Int /\ tk + el <= id - C /\ 0 <= id - C
  BY <1>1
<1> QED
  BY <1>1, <1>2, <1>3, <1>4 DEF Budget

LEMMA BudgetTicks ==
    ASSUME NEW M \in Nat, NEW C \in Nat, NEW tk, NEW el, NEW id, NEW P, NEW sl, NEW sm,
           Budget(M, C, tk, el, id, P, sl),
           \A r \in P : sl[r] > 0 /\ sm[r] = sl[r] - 1,
           NEW em, em = IF el + 1 <= M - tk THEN el + 1 ELSE M - tk,
           NEW im, im = IF id + 1 <= (IF M >= C THEN M ELSE C) THEN id + 1
                        ELSE (IF M >= C THEN M ELSE C)
    PROVE  Budget(M, C, tk, em, im, P, sm)
PROOF
<1>1. /\ tk \in Int /\ el \in Nat /\ id \in Int
      /\ tk + el <= M /\ tk + el <= id /\ 0 <= id
  BY DEF Budget
<1>2. /\ em \in Nat /\ im \in Int /\ tk + em <= M /\ tk + em <= tk + el + 1
      /\ 0 <= im /\ tk + em <= im
  BY <1>1
<1>3. \A r \in P : M < C /\ sm[r] \in Nat /\ tk + em + sm[r] <= 0
  BY <1>1, <1>2 DEF Budget
<1>4. \A r \in P : C <= im + sm[r]
  BY <1>1 DEF Budget
<1>5. \A r, q \in P : r # q => C <= sm[q] - sm[r] \/ C <= sm[r] - sm[q]
  BY DEF Budget
<1> QED
  BY <1>1, <1>2, <1>3, <1>4, <1>5 DEF Budget

LEMMA MinOfTwo ==
    ASSUME NEW a \in Int, NEW b \in Int
    PROVE  Limits!Min({a, b}) = IF a <= b THEN a ELSE b
PROOF
<1> DEFINE m == IF a <= b THEN a ELSE b
<1>1. m \in {a, b} /\ \A y \in {a, b} : m <= y
  OBVIOUS
<1>2. \A x \in {a, b} : (\A y \in {a, b} : x <= y) => x = m
  OBVIOUS
<1> QED
  BY <1>1, <1>2 DEF Limits!Min

LEMMA MaxOfTwo ==
    ASSUME NEW a \in Int, NEW b \in Int
    PROVE  Limits!Max({a, b}) = IF a >= b THEN a ELSE b
PROOF
<1> DEFINE m == IF a >= b THEN a ELSE b
<1>1. m \in {a, b} /\ \A y \in {a, b} : m >= y
  OBVIOUS
<1>2. \A x \in {a, b} : (\A y \in {a, b} : x >= y) => x = m
  OBVIOUS
<1> QED
  BY <1>1, <1>2 DEF Limits!Max

-----------------------------------------------------------------------------
(* Rate limits: the requests *)

Capacity(b) == [rpm |-> LimMaxRpm, tpm |-> LimMaxTpm][b]
Price(b) == [rpm |-> LimRequestCost, tpm |-> LimTokenCost][b]

\* The requests that have paid bucket b and sleep.
Sleepers(b) == {r \in LimRequests : lim_request[r] = Limits!Paid(b)}

BucketsInv ==
    /\ lim_sleep \in [LimRequests -> Nat]
    /\ lim_tokens \in [Limits!Buckets -> Int]
    /\ lim_elapsed \in [Limits!Buckets -> Nat]
    /\ lim_ideal \in [Limits!Buckets -> Int]
    /\ \A b \in Limits!Buckets :
           Budget(Capacity(b), Price(b), lim_tokens[b], lim_elapsed[b], lim_ideal[b], Sleepers(b),
                  lim_sleep)

Acquiring == {"decode", "rpm", "rpm_paid", "tpm", "tpm_paid"}
Places == Acquiring \cup {"semaphore", "computing", "scored"}

\* A request waits for the semaphore once.  Only one that has got it has a call,
\* and a coroutine's ends with its request.
SlotsInv ==
    /\ lim_is_async_reward_score \in BOOLEAN
    /\ lim_request \in [LimRequests -> Places]
    /\ lim_left \in [LimRequests -> 0..LimTimeout]
    /\ lim_call \in [LimRequests -> {"none", "submitted", "running"}]
    /\ lim_waiters \in Seq(LimRequests)
    /\ \A i \in DOMAIN lim_waiters : lim_request[lim_waiters[i]] = "semaphore"
    /\ \A i, j \in DOMAIN lim_waiters : i # j => lim_waiters[i] # lim_waiters[j]
    /\ \A r \in LimRequests :
           /\ lim_call[r] # "none" => lim_request[r] \in {"computing", "scored"}
           /\ lim_is_async_reward_score =>
                lim_call[r] # "submitted" /\ (lim_call[r] = "running" => lim_request[r] = "computing")
    /\ Cardinality(Limits!Holders) <= LimMaxConcurrent

\* The inductive invariant of the rate limits.
LimitsInv == SlotsInv /\ BucketsInv

LEMMA LimitsNumbers ==
    /\ IsFiniteSet(LimRequests)
    /\ LimMaxConcurrent \in Nat \ {0} /\ LimTimeout \in Nat
    /\ \A b \in Limits!Buckets : Capacity(b) \in Nat /\ Price(b) \in Nat
PROOF
  BY ComponentsAssumption DEF Limits!Buckets, Capacity, Price

LEMMA SameCardinality == \A S : Limits!Cardinality(S) = Cardinality(S)
PROOF
  BY DEF Limits!Cardinality, Cardinality

LEMMA FewerHolders ==
    ASSUME SlotsInv, Limits!Holders' \subseteq Limits!Holders
    PROVE  Cardinality(Limits!Holders') <= LimMaxConcurrent
PROOF
<1>1. IsFiniteSet(Limits!Holders)
  BY LimitsNumbers, FS_Subset DEF Limits!Holders
<1>2. /\ Cardinality(Limits!Holders') <= Cardinality(Limits!Holders)
      /\ IsFiniteSet(Limits!Holders')
  BY <1>1, FS_Subset
<1>3. Cardinality(Limits!Holders') \in Nat /\ Cardinality(Limits!Holders) \in Nat
  BY <1>1, <1>2, FS_CardinalityType
<1> QED
  BY <1>2, <1>3, LimitsNumbers DEF SlotsInv

\* A request goes on to another bucket, or joins the queue of the semaphore.
LEMMA GoesOnKeepsSlots ==
    ASSUME SlotsInv, NEW r \in LimRequests, lim_request[r] \in Acquiring,
           NEW place \in Acquiring \cup {"semaphore"},
           lim_request' = [lim_request EXCEPT ![r] = place],
           lim_waiters' = IF place = "semaphore" THEN Append(lim_waiters, r) ELSE lim_waiters,
           UNCHANGED <<lim_is_async_reward_score, lim_left, lim_call>>
    PROVE  SlotsInv'
PROOF
<1>1. /\ lim_request' \in [LimRequests -> Places]
      /\ \A q \in LimRequests : lim_request'[q] = IF q = r THEN place ELSE lim_request[q]
  BY DEF SlotsInv, Places
<1>2. lim_call[r] = "none"
  BY DEF SlotsInv, Acquiring
<1>3. /\ lim_waiters \in Seq(LimRequests) /\ Len(lim_waiters) \in Nat
      /\ DOMAIN lim_waiters = 1..Len(lim_waiters)
      /\ \A i \in 1..Len(lim_waiters) : lim_waiters[i] \in LimRequests /\ lim_waiters[i] # r
  BY DEF SlotsInv, Acquiring
<1>4. /\ lim_waiters' \in Seq(LimRequests)
      /\ \A i \in DOMAIN lim_waiters' : lim_request'[lim_waiters'[i]] = "semaphore"
      /\ \A i, j \in DOMAIN lim_waiters' : i # j => lim_waiters'[i] # lim_waiters'[j]
  <2>1. CASE place = "semaphore"
    <3>1. lim_waiters' = Append(lim_waiters, r)
      BY <2>1
    <3>2. /\ lim_waiters' \in Seq(LimRequests)
          /\ DOMAIN lim_waiters' = 1..(Len(lim_waiters) + 1)
          /\ \A i \in 1..Len(lim_waiters) : lim_waiters'[i] = lim_waiters[i]
          /\ lim_waiters'[Len(lim_waiters) + 1] = r
      BY <3>1, <1>3
    <3>3. \A i \in DOMAIN lim_waiters' : i \in DOMAIN lim_waiters \/ i = Len(lim_waiters) + 1
      BY <3>2, <1>3
    <3> QED
      BY <2>1, <3>2, <3>3, <1>1, <1>3 DEF SlotsInv
  <2>2. CASE place # "semaphore"
    BY <2>2, <1>1, <1>3 DEF SlotsInv
  <2> QED
    BY <2>1, <2>2
<1>5. \A q \in LimRequests :
           /\ lim_call'[q] # "none" => lim_request'[q] \in {"computing", "scored"}
           /\ lim_is_async_reward_score' =>
                lim_call'[q] # "submitted" /\ (lim_call'[q] = "running" => lim_request'[q] = "computing")
  BY <1>1, <1>2 DEF SlotsInv
<1>6. Limits!Holders' \subseteq Limits!Holders
  BY <1>1 DEF Limits!Holders, Acquiring
<1>7. Cardinality(Limits!Holders') <= LimMaxConcurrent
  BY <1>6, FewerHolders
<1> QED
  BY <1>1, <1>4, <1>5, <1>7 DEF SlotsInv

\* r has changed its place, its sleep and bucket b, and nothing else of the buckets.
OnlyBucket(r, b) ==
    /\ \A q \in LimRequests \ {r} :
           lim_request'[q] = lim_request[q] /\ lim_sleep'[q] = lim_sleep[q]
    /\ \A x \in Limits!Buckets \ {b} :
           /\ lim_request'[r] # Limits!Paid(x) /\ lim_request[r] # Limits!Paid(x)
           /\ lim_tokens'[x] = lim_tokens[x] /\ lim_elapsed'[x] = lim_elapsed[x]
           /\ lim_ideal'[x] = lim_ideal[x]
    /\ lim_sleep' \in [LimRequests -> Nat]
    /\ lim_tokens' \in [Limits!Buckets -> Int]
    /\ lim_elapsed' \in [Limits!Buckets -> Nat]
    /\ lim_ideal' \in [Limits!Buckets -> Int]

LEMMA OneBucket ==
    ASSUME BucketsInv, NEW r \in LimRequests, NEW b \in Limits!Buckets, OnlyBucket(r, b),
           Budget(Capacity(b), Price(b), lim_tokens'[b], lim_elapsed'[b], lim_ideal'[b],
                  Sleepers(b)', lim_sleep')
    PROVE  BucketsInv'
PROOF
<1>1. ASSUME NEW x \in Limits!Buckets \ {b}
      PROVE  Budget(Capacity(x), Price(x), lim_tokens'[x], lim_elapsed'[x], lim_ideal'[x],
                    Sleepers(x)', lim_sleep')
  <2>1. Sleepers(x)' = Sleepers(x) /\ r \notin Sleepers(x)
    BY DEF Sleepers, OnlyBucket
  <2>2. \A q \in Sleepers(x) : lim_sleep'[q] = lim_sleep[q]
    BY <2>1 DEF Sleepers, OnlyBucket
  <2>3. Budget(Capacity(x), Price(x), lim_tokens[x], lim_elapsed[x], lim_ideal[x], Sleepers(x),
               lim_sleep)
    BY DEF BucketsInv
  <2>4. Budget(Capacity(x), Price(x), lim_tokens[x], lim_elapsed[x], lim_ideal[x], Sleepers(x),
               lim_sleep')
    BY <2>2, <2>3, LimitsNumbers, BudgetUpdated
  <2> QED
    BY <2>1, <2>4 DEF OnlyBucket
<1>2. \A x \in Limits!Buckets :
          Budget(Capacity(x), Price(x), lim_tokens'[x], lim_elapsed'[x], lim_ideal'[x],
                 Sleepers(x)', lim_sleep')
  BY <1>1
<1>3. \A x : Capacity(x)' = Capacity(x) /\ Price(x)' = Price(x)
  BY DEF Capacity, Price
<1> QED
  BY <1>2 DEF BucketsInv, OnlyBucket, Limits!Buckets, Capacity, Price

LEMMA BucketPlaces ==
    /\ Limits!Buckets = {"rpm", "tpm"} /\ Limits!Paid("rpm") = "rpm_paid"
    /\ Limits!Paid("tpm") = "tpm_paid"
    /\ \A b \in Limits!Buckets :
           /\ b \in Acquiring /\ Limits!Paid(b) \in Acquiring
           /\ \A x \in Limits!Buckets : b # Limits!Paid(x) /\ Limits!Paid(x) \notin {"semaphore"}
           /\ \A x \in Limits!Buckets \ {b} : Limits!Paid(b) # Limits!Paid(x)
PROOF
  BY DEF Limits!Buckets, Limits!Paid, Acquiring

\* What is known of the bucket a request acquires from.
LEMMA BucketFacts ==
    ASSUME LimitsInv, NEW b \in Limits!Buckets
    PROVE  /\ lim_tokens[b] \in Int /\ lim_elapsed[b] \in Nat /\ lim_ideal[b] \in Int
           /\ Capacity(b) \in Nat /\ Price(b) \in Nat
           /\ Budget(Capacity(b), Price(b), lim_tokens[b], lim_elapsed[b], lim_ideal[b],
                     Sleepers(b), lim_sleep)
           /\ lim_tokens[b] + lim_elapsed[b] <= Capacity(b)
           /\ Limits!Refilled(b) = lim_tokens[b] + lim_elapsed[b]
PROOF
<1>1. /\ lim_tokens[b] \in Int /\ lim_elapsed[b] \in Nat /\ lim_ideal[b] \in Int
      /\ Capacity(b) \in Nat /\ Price(b) \in Nat
      /\ Budget(Capacity(b), Price(b), lim_tokens[b], lim_elapsed[b], lim_ideal[b],
                Sleepers(b), lim_sleep)
  BY LimitsNumbers DEF LimitsInv, BucketsInv
<1>2. lim_tokens[b] + lim_elapsed[b] <= Capacity(b)
  BY <1>1 DEF Budget
<1>3. Limits!Refilled(b) = Limits!Min({Capacity(b), lim_tokens[b] + lim_elapsed[b]})
  BY DEF Limits!Refilled, Capacity
<1>4. lim_tokens[b] + lim_elapsed[b] \in Int /\ Capacity(b) \in Int
  BY <1>1
<1>5. Limits!Refilled(b) = lim_tokens[b] + lim_elapsed[b]
  BY <1>2, <1>3, <1>4, MinOfTwo
<1> QED
  BY <1>1, <1>2, <1>5

LEMMA LetThroughKeepsSlots ==
    ASSUME LimitsInv, NEW r \in LimRequests, NEW b \in Limits!Buckets,
           lim_request[r] \in Acquiring, Limits!LetThrough(r, b),
           UNCHANGED <<lim_is_async_reward_score, lim_left, lim_call>>
    PROVE  SlotsInv'
PROOF
<1> DEFINE place == IF b = "rpm" THEN "tpm" ELSE "semaphore"
<1>1. lim_request' = [lim_request EXCEPT ![r] = place]
  BY DEF Limits!LetThrough
<1>2. lim_waiters' = IF place = "semaphore" THEN Append(lim_waiters, r) ELSE lim_waiters
  BY BucketPlaces DEF Limits!LetThrough
<1>3. place \in Acquiring \cup {"semaphore"}
  BY DEF Acquiring
<1> QED
  BY <1>1, <1>2, <1>3, GoesOnKeepsSlots DEF LimitsInv

LEMMA AcquireStandardKeeps ==
    ASSUME LimitsInv, NEW r \in LimRequests, NEW b \in Limits!Buckets,
           Limits!AcquireStandard(r, b)
    PROVE  LimitsInv'
PROOF
<1> DEFINE L == lim_tokens[b] + lim_elapsed[b]
<1>1. /\ lim_tokens[b] \in Int /\ lim_elapsed[b] \in Nat /\ lim_ideal[b] \in Int
      /\ Capacity(b) \in Nat /\ Price(b) \in Nat
      /\ Budget(Capacity(b), Price(b), lim_tokens[b], lim_elapsed[b], lim_ideal[b],
                Sleepers(b), lim_sleep)
      /\ Limits!Refilled(b) = L /\ L \in Int
  BY BucketFacts
<1>2. /\ lim_request[r] = b /\ Price(b) <= Capacity(b)
      /\ UNCHANGED <<lim_is_async_reward_score, lim_left, lim_call>>
  BY DEF Limits!AcquireStandard, Price, Capacity
<1>3. /\ lim_request \in [LimRequests -> Places] /\ lim_sleep \in [LimRequests -> Nat]
      /\ lim_tokens \in [Limits!Buckets -> Int] /\ lim_elapsed \in [Limits!Buckets -> Nat]
      /\ lim_ideal \in [Limits!Buckets -> Int]
  BY DEF LimitsInv, SlotsInv, BucketsInv
<1>4. CASE L >= Price(b)
  <2>1. /\ lim_tokens' = [lim_tokens EXCEPT ![b] = L - Price(b)]
        /\ lim_elapsed' = [lim_elapsed EXCEPT ![b] = 0]
        /\ lim_ideal' = [lim_ideal EXCEPT ![b] = @ - Price(b)]
        /\ lim_request' = [lim_request EXCEPT ![r] = IF b = "rpm" THEN "tpm" ELSE "semaphore"]
        /\ lim_sleep' = lim_sleep
        /\ Limits!LetThrough(r, b)
    BY <1>1, <1>4 DEF Limits!AcquireStandard, Limits!Pays, Limits!LetThrough, Price
  <2>2. SlotsInv'
    BY <1>2, <2>1, BucketPlaces, LetThroughKeepsSlots
  <2>3. Sleepers(b)' = Sleepers(b)
    BY <1>2, <1>3, <2>1, BucketPlaces DEF Sleepers
  <2>4. Budget(Capacity(b), Price(b), L - Price(b), 0, lim_ideal[b] - Price(b), Sleepers(b),
               lim_sleep)
    BY <1>1, <1>2, <1>4, BudgetPays
  <2>5. /\ lim_tokens'[b] = L - Price(b) /\ lim_elapsed'[b] = 0
        /\ lim_ideal'[b] = lim_ideal[b] - Price(b)
        /\ lim_tokens' \in [Limits!Buckets -> Int] /\ lim_elapsed' \in [Limits!Buckets -> Nat]
        /\ lim_ideal' \in [Limits!Buckets -> Int]
        /\ \A x \in Limits!Buckets \ {b} :
               /\ lim_tokens'[x] = lim_tokens[x] /\ lim_elapsed'[x] = lim_elapsed[x]
               /\ lim_ideal'[x] = lim_ideal[x]
    BY <1>1, <1>3, <2>1
  <2>6. \A x \in Limits!Buckets \ {b} :
            /\ (IF b = "rpm" THEN "tpm" ELSE "semaphore") # Limits!Paid(x)
            /\ lim_request[r] # Limits!Paid(x)
    BY <1>2, BucketPlaces
  <2>7. Budget(Capacity(b), Price(b), lim_tokens'[b], lim_elapsed'[b], lim_ideal'[b],
               Sleepers(b)', lim_sleep')
    BY <2>1, <2>3, <2>4, <2>5
  <2>8. OnlyBucket(r, b)
    BY <1>3, <2>1, <2>5, <2>6 DEF OnlyBucket
  <2>9. BucketsInv'
    BY <2>7, <2>8, OneBucket DEF LimitsInv
  <2> QED
    BY <2>2, <2>9 DEF LimitsInv
<1>5. CASE ~(L >= Price(b))
  <2>1. /\ lim_tokens' = [lim_tokens EXCEPT ![b] = L]
        /\ lim_elapsed' = [lim_elapsed EXCEPT ![b] = 0]
        /\ lim_sleep' = [lim_sleep EXCEPT ![r] = Price(b) - L]
        /\ UNCHANGED <<lim_request, lim_waiters, lim_ideal>>
    BY <1>1, <1>5 DEF Limits!AcquireStandard, Limits!Pays, Price
  <2>2. SlotsInv'
    BY <1>2, <2>1 DEF LimitsInv, SlotsInv, Limits!Holders
  <2>3. Sleepers(b)' = Sleepers(b) /\ \A q \in Sleepers(b) : lim_sleep'[q] = lim_sleep[q]
    BY <1>2, <1>3, <2>1, BucketPlaces DEF Sleepers
  <2>4. Budget(Capacity(b), Price(b), L, 0, lim_ideal[b], Sleepers(b), lim_sleep')
    BY <1>1, <2>3, BudgetUpdated
  <2>5. /\ lim_tokens'[b] = L /\ lim_elapsed'[b] = 0
        /\ lim_tokens' \in [Limits!Buckets -> Int] /\ lim_elapsed' \in [Limits!Buckets -> Nat]
        /\ \A x \in Limits!Buckets \ {b} :
               /\ lim_tokens'[x] = lim_tokens[x] /\ lim_elapsed'[x] = lim_elapsed[x]
    BY <1>1, <1>3, <2>1
  <2>6. /\ \A x \in Limits!Buckets \ {b} : lim_request[r] # Limits!Paid(x)
        /\ lim_ideal' \in [Limits!Buckets -> Int]
    BY <1>2, <1>3, <2>1, BucketPlaces
  <2>7. /\ lim_sleep' \in [LimRequests -> Nat]
        /\ \A q \in LimRequests \ {r} : lim_sleep'[q] = lim_sleep[q]
    BY <1>1, <1>3, <1>5, <2>1
  <2>8. Budget(Capacity(b), Price(b), lim_tokens'[b], lim_elapsed'[b], lim_ideal'[b],
               Sleepers(b)', lim_sleep')
    BY <2>1, <2>3, <2>4, <2>5
  <2>9. OnlyBucket(r, b)
    BY <1>3, <2>1, <2>5, <2>6, <2>7 DEF OnlyBucket
  <2>10. BucketsInv'
    BY <2>8, <2>9, OneBucket DEF LimitsInv
  <2> QED
    BY <2>2, <2>10 DEF LimitsInv
<1> QED
  BY <1>4, <1>5

LEMMA AcquireOversizeKeeps ==
    ASSUME LimitsInv, NEW r \in LimRequests, NEW b \in Limits!Buckets,
           Limits!AcquireOversize(r, b)
    PROVE  LimitsInv'
PROOF
<1> DEFINE L == lim_tokens[b] + lim_elapsed[b]
<1>1. /\ lim_tokens[b] \in Int /\ lim_elapsed[b] \in Nat /\ lim_ideal[b] \in Int
      /\ Capacity(b) \in Nat /\ Price(b) \in Nat
      /\ Budget(Capacity(b), Price(b), lim_tokens[b], lim_elapsed[b], lim_ideal[b],
                Sleepers(b), lim_sleep)
      /\ Limits!Refilled(b) = L /\ L \in Int /\ L <= Capacity(b)
  BY BucketFacts
<1>2. /\ lim_request \in [LimRequests -> Places] /\ lim_sleep \in [LimRequests -> Nat]
      /\ lim_tokens \in [Limits!Buckets -> Int] /\ lim_elapsed \in [Limits!Buckets -> Nat]
      /\ lim_ideal \in [Limits!Buckets -> Int]
  BY DEF LimitsInv, SlotsInv, BucketsInv
<1>3. /\ lim_request[r] = b /\ Capacity(b) < Price(b)
      /\ lim_tokens' = [lim_tokens EXCEPT ![b] = L - Price(b)]
      /\ lim_elapsed' = [lim_elapsed EXCEPT ![b] = 0]
      /\ lim_sleep' = [lim_sleep EXCEPT ![r] = Price(b) - L]
      /\ lim_request' = [lim_request EXCEPT ![r] = Limits!Paid(b)]
      /\ UNCHANGED <<lim_is_async_reward_score, lim_waiters, lim_left, lim_call, lim_ideal>>
  BY <1>1 DEF Limits!AcquireOversize, Limits!Pays, Price, Capacity
<1>4. SlotsInv'
  <2>1. /\ lim_request[r] \in Acquiring /\ Limits!Paid(b) \in Acquiring \cup {"semaphore"}
        /\ Limits!Paid(b) # "semaphore"
    BY <1>3, BucketPlaces
  <2> QED
    BY <1>3, <2>1, GoesOnKeepsSlots DEF LimitsInv
<1>5. Sleepers(b)' = Sleepers(b) \cup {r} /\ r \notin Sleepers(b)
  BY <1>2, <1>3, BucketPlaces DEF Sleepers
<1>6. /\ lim_sleep' \in [LimRequests -> Nat]
      /\ lim_sleep'[r] = Price(b) - L
      /\ \A q \in LimRequests \ {r} : lim_sleep'[q] = lim_sleep[q]
      /\ \A q \in Sleepers(b) : lim_sleep'[q] = lim_sleep[q]
  BY <1>1, <1>2, <1>3, <1>5 DEF Sleepers
<1>7. Budget(Capacity(b), Price(b), L - Price(b), 0, lim_ideal[b], Sleepers(b) \cup {r},
             lim_sleep')
  <2>1. /\ Capacity(b) \in Nat /\ Price(b) \in Nat /\ Capacity(b) < Price(b)
        /\ Budget(Capacity(b), Price(b), lim_tokens[b], lim_elapsed[b], lim_ideal[b],
                  Sleepers(b), lim_sleep)
        /\ r \notin Sleepers(b)
    BY <1>1, <1>3, <1>5
  <2>2. lim_sleep'[r] = Price(b) - (lim_tokens[b] + lim_elapsed[b])
    BY <1>6
  <2>3. \A q \in Sleepers(b) : lim_sleep'[q] = lim_sleep[q]
    BY <1>6
  <2>4. Budget(Capacity(b), Price(b), lim_tokens[b] + lim_elapsed[b] - Price(b), 0, lim_ideal[b],
               Sleepers(b) \cup {r}, lim_sleep')
    BY <2>1, <2>2, <2>3, BudgetOwes
  <2> QED
    BY <2>4, <1>1
<1>8. /\ lim_tokens'[b] = L - Price(b) /\ lim_elapsed'[b] = 0 /\ lim_ideal'[b] = lim_ideal[b]
      /\ lim_tokens' \in [Limits!Buckets -> Int] /\ lim_elapsed' \in [Limits!Buckets -> Nat]
      /\ lim_ideal' \in [Limits!Buckets -> Int]
      /\ \A x \in Limits!Buckets \ {b} :
             /\ lim_tokens'[x] = lim_tokens[x] /\ lim_elapsed'[x] = lim_elapsed[x]
             /\ lim_ideal'[x] = lim_ideal[x]
  BY <1>1, <1>2, <1>3
<1>9. \A x \in Limits!Buckets \ {b} :
          Limits!Paid(b) # Limits!Paid(x) /\ lim_request[r] # Limits!Paid(x)
  BY <1>3, BucketPlaces
<1>10. Budget(Capacity(b), Price(b), lim_tokens'[b], lim_elapsed'[b], lim_ideal'[b],
              Sleepers(b)', lim_sleep')
  BY <1>5, <1>7, <1>8
<1>11. OnlyBucket(r, b)
  BY <1>2, <1>3, <1>6, <1>8, <1>9 DEF OnlyBucket
<1>12. BucketsInv'
  BY <1>10, <1>11, OneBucket DEF LimitsInv
<1> QED
  BY <1>4, <1>12 DEF LimitsInv

LEMMA SleptAfterPayingKeeps ==
    ASSUME LimitsInv, NEW r \in LimRequests, NEW b \in Limits!Buckets,
           Limits!SleptAfterPaying(r, b)
    PROVE  LimitsInv'
PROOF
<1> DEFINE place == IF b = "rpm" THEN "tpm" ELSE "semaphore"
<1>1. /\ lim_tokens[b] \in Int /\ lim_elapsed[b] \in Nat /\ lim_ideal[b] \in Int
      /\ Capacity(b) \in Nat /\ Price(b) \in Nat
      /\ Budget(Capacity(b), Price(b), lim_tokens[b], lim_elapsed[b], lim_ideal[b],
                Sleepers(b), lim_sleep)
  BY BucketFacts
<1>2. /\ lim_request \in [LimRequests -> Places] /\ lim_sleep \in [LimRequests -> Nat]
      /\ lim_tokens \in [Limits!Buckets -> Int] /\ lim_elapsed \in [Limits!Buckets -> Nat]
      /\ lim_ideal \in [Limits!Buckets -> Int]
  BY DEF LimitsInv, SlotsInv, BucketsInv
<1>3. /\ lim_request[r] = Limits!Paid(b) /\ lim_sleep[r] = 0
      /\ Limits!LetThrough(r, b)
      /\ lim_request' = [lim_request EXCEPT ![r] = place]
      /\ lim_ideal' = [lim_ideal EXCEPT ![b] = @ - Price(b)]
      /\ UNCHANGED <<lim_is_async_reward_score, lim_sleep, lim_tokens, lim_elapsed, lim_left,
                     lim_call>>
  BY DEF Limits!SleptAfterPaying, Limits!LetThrough, Price
<1>4. SlotsInv'
  BY <1>3, BucketPlaces, LetThroughKeepsSlots
<1>5. Sleepers(b)' = Sleepers(b) \ {r} /\ r \in Sleepers(b)
  BY <1>2, <1>3, BucketPlaces DEF Sleepers
<1>6. Budget(Capacity(b), Price(b), lim_tokens[b], lim_elapsed[b], lim_ideal[b] - Price(b),
             Sleepers(b) \ {r}, lim_sleep)
  BY <1>1, <1>3, <1>5, BudgetPaid
<1>7. /\ lim_ideal'[b] = lim_ideal[b] - Price(b)
      /\ lim_ideal' \in [Limits!Buckets -> Int]
      /\ \A x \in Limits!Buckets \ {b} :
             /\ lim_tokens'[x] = lim_tokens[x] /\ lim_elapsed'[x] = lim_elapsed[x]
             /\ lim_ideal'[x] = lim_ideal[x]
  BY <1>1, <1>2, <1>3
<1>8. \A x \in Limits!Buckets \ {b} : place # Limits!Paid(x) /\ lim_request[r] # Limits!Paid(x)
  BY <1>3, BucketPlaces
<1>9. Budget(Capacity(b), Price(b), lim_tokens'[b], lim_elapsed'[b], lim_ideal'[b],
             Sleepers(b)', lim_sleep')
  BY <1>3, <1>5, <1>6, <1>7
<1>10. OnlyBucket(r, b)
  BY <1>2, <1>3, <1>7, <1>8 DEF OnlyBucket
<1>11. BucketsInv'
  BY <1>9, <1>10, OneBucket DEF LimitsInv
<1> QED
  BY <1>4, <1>11 DEF LimitsInv

\* A step that leaves buckets and sleeps alone, and makes no request a sleeper.
LEMMA BucketsStand ==
    ASSUME BucketsInv, UNCHANGED <<lim_tokens, lim_elapsed, lim_ideal, lim_sleep>>,
           \A r \in LimRequests, b \in Limits!Buckets :
               lim_request'[r] = Limits!Paid(b) <=> lim_request[r] = Limits!Paid(b)
    PROVE  BucketsInv'
PROOF
<1>1. \A b \in Limits!Buckets : Sleepers(b)' = Sleepers(b)
  BY DEF Sleepers
<1> QED
  BY <1>1 DEF BucketsInv, Limits!Buckets, Capacity, Price

LEMMA DecodeResponseKeeps ==
    ASSUME LimitsInv, NEW r \in LimRequests, Limits!DecodeResponse(r)
    PROVE  LimitsInv'
PROOF
<1>1. /\ lim_request[r] = "decode" /\ lim_request' = [lim_request EXCEPT ![r] = "rpm"]
      /\ UNCHANGED <<lim_is_async_reward_score, lim_sleep, lim_tokens, lim_elapsed, lim_waiters,
                     lim_left, lim_call, lim_ideal>>
  BY DEF Limits!DecodeResponse
<1>2. SlotsInv'
  <2>1. lim_request[r] \in Acquiring /\ "rpm" \in Acquiring \cup {"semaphore"}
    BY <1>1 DEF Acquiring
  <2>2. lim_waiters' = IF "rpm" = "semaphore" THEN Append(lim_waiters, r) ELSE lim_waiters
    BY <1>1
  <2> QED
    BY <1>1, <2>1, <2>2, GoesOnKeepsSlots DEF LimitsInv
<1>3. \A q \in LimRequests, b \in Limits!Buckets :
          lim_request'[q] = Limits!Paid(b) <=> lim_request[q] = Limits!Paid(b)
  BY <1>1, BucketPlaces DEF LimitsInv, SlotsInv
<1> QED
  BY <1>1, <1>2, <1>3, BucketsStand DEF LimitsInv

LEMMA EnterSemaphoreKeeps ==
    ASSUME LimitsInv, Limits!EnterSemaphore
    PROVE  LimitsInv'
PROOF
<1> DEFINE r == Head(lim_waiters)
<1>1. /\ lim_waiters # <<>> /\ Cardinality(Limits!Holders) < LimMaxConcurrent
      /\ lim_request' = [lim_request EXCEPT ![r] = "computing"]
      /\ lim_left' = [lim_left EXCEPT ![r] = LimTimeout]
      /\ lim_call' = [lim_call EXCEPT ![r] =
                         IF lim_is_async_reward_score THEN "running" ELSE "submitted"]
      /\ lim_waiters' = Tail(lim_waiters)
      /\ UNCHANGED <<lim_is_async_reward_score, lim_sleep, lim_tokens, lim_elapsed, lim_ideal>>
  BY SameCardinality DEF Limits!EnterSemaphore
<1>2. /\ lim_request \in [LimRequests -> Places] /\ lim_waiters \in Seq(LimRequests)
      /\ lim_left \in [LimRequests -> 0..LimTimeout]
      /\ lim_call \in [LimRequests -> {"none", "submitted", "running"}]
      /\ Len(lim_waiters) \in Nat /\ DOMAIN lim_waiters = 1..Len(lim_waiters)
  BY DEF LimitsInv, SlotsInv
<1>3. /\ Len(lim_waiters) > 0 /\ r = lim_waiters[1] /\ r \in LimRequests
      /\ Tail(lim_waiters) \in Seq(LimRequests)
      /\ Len(Tail(lim_waiters)) = Len(lim_waiters) - 1
      /\ \A i \in 1..(Len(lim_waiters) - 1) : Tail(lim_waiters)[i] = lim_waiters[i + 1]
  BY <1>1, <1>2
<1> HIDE DEF r
<1>4. lim_request[r] = "semaphore"
  BY <1>2, <1>3 DEF LimitsInv, SlotsInv
<1>5. \A i \in 1..(Len(lim_waiters) - 1) :
          i + 1 \in DOMAIN lim_waiters /\ lim_waiters[i + 1] # r /\ lim_waiters[i + 1] \in LimRequests
  BY <1>2, <1>3 DEF LimitsInv, SlotsInv
<1>6. /\ DOMAIN lim_waiters' = 1..(Len(lim_waiters) - 1)
      /\ \A i \in DOMAIN lim_waiters' : lim_waiters'[i] = lim_waiters[i + 1]
  BY <1>1, <1>2, <1>3
<1>7. \A i \in DOMAIN lim_waiters' : lim_request'[lim_waiters'[i]] = "semaphore"
  BY <1>1, <1>2, <1>5, <1>6 DEF LimitsInv, SlotsInv
<1>8. \A i, j \in DOMAIN lim_waiters' : i # j => lim_waiters'[i] # lim_waiters'[j]
  <2> SUFFICES ASSUME NEW i \in DOMAIN lim_waiters', NEW j \in DOMAIN lim_waiters', i # j
               PROVE  lim_waiters'[i] # lim_waiters'[j]
    OBVIOUS
  <2>1. i + 1 \in DOMAIN lim_waiters /\ j + 1 \in DOMAIN lim_waiters /\ i + 1 # j + 1
    BY <1>5, <1>6
  <2> QED
    BY <2>1, <1>6 DEF LimitsInv, SlotsInv
<1>9. Cardinality(Limits!Holders') <= LimMaxConcurrent
  <2>1. Limits!Holders' = Limits!Holders \cup {r} /\ r \notin Limits!Holders
    BY <1>1, <1>2, <1>3, <1>4 DEF Limits!Holders
  <2>2. IsFiniteSet(Limits!Holders)
    BY LimitsNumbers, FS_Subset DEF Limits!Holders
  <2>3. Cardinality(Limits!Holders') = Cardinality(Limits!Holders) + 1
    BY <2>1, <2>2, FS_AddElement
  <2>4. Cardinality(Limits!Holders) \in Nat
    BY <2>2, FS_CardinalityType
  <2> QED
    BY <2>3, <2>4, <1>1, LimitsNumbers
<1>10. /\ lim_request' \in [LimRequests -> Places]
       /\ lim_left' \in [LimRequests -> 0..LimTimeout]
       /\ lim_call' \in [LimRequests -> {"none", "submitted", "running"}]
  BY <1>1, <1>2, <1>3, LimitsNumbers DEF Places
<1>11. \A q \in LimRequests :
           /\ lim_call'[q] # "none" => lim_request'[q] \in {"computing", "scored"}
           /\ lim_is_async_reward_score' =>
                lim_call'[q] # "submitted" /\ (lim_call'[q] = "running" => lim_request'[q] = "computing")
  BY <1>1, <1>2 DEF LimitsInv, SlotsInv
<1>12. SlotsInv'
  BY <1>1, <1>3, <1>7, <1>8, <1>9, <1>10, <1>11 DEF LimitsInv, SlotsInv
<1>13. \A q \in LimRequests, b \in Limits!Buckets :
           lim_request'[q] = Limits!Paid(b) <=> lim_request[q] = Limits!Paid(b)
  BY <1>1, <1>2, <1>4, BucketPlaces DEF Acquiring
<1> QED
  BY <1>1, <1>12, <1>13, BucketsStand DEF LimitsInv

\* A call starts in a thread, returns, or is given up.
LEMMA CallStepsKeep ==
    ASSUME LimitsInv, NEW r \in LimRequests,
           Limits!ThreadStarts(r) \/ Limits!ComputeScoreEnds(r) \/ Limits!TimesOut(r)
    PROVE  LimitsInv'
PROOF
<1>1. /\ \/ /\ lim_call[r] = "submitted" /\ lim_call' = [lim_call EXCEPT ![r] = "running"]
            /\ UNCHANGED <<lim_request, lim_left>>
         \/ /\ lim_call[r] # "none" \/ lim_request[r] = "computing"
            /\ \/ lim_call' = [lim_call EXCEPT ![r] = "none"]
               \/ lim_call' = lim_call /\ ~lim_is_async_reward_score
            /\ lim_request' = [lim_request EXCEPT ![r] = "scored"]
            /\ lim_left' \in {lim_left, [lim_left EXCEPT ![r] = 0]}
      /\ UNCHANGED <<lim_is_async_reward_score, lim_sleep, lim_tokens, lim_elapsed, lim_waiters,
                     lim_ideal>>
  BY DEF Limits!ThreadStarts, Limits!ComputeScoreEnds, Limits!TimesOut
<1>2. /\ lim_request \in [LimRequests -> Places] /\ lim_waiters \in Seq(LimRequests)
      /\ lim_left \in [LimRequests -> 0..LimTimeout]
      /\ lim_call \in [LimRequests -> {"none", "submitted", "running"}]
      /\ \A i \in DOMAIN lim_waiters : lim_waiters[i] \in LimRequests
  BY DEF LimitsInv, SlotsInv
<1>3. lim_request[r] \in {"computing", "scored"}
  BY <1>1 DEF LimitsInv, SlotsInv
<1>4. /\ lim_request' \in [LimRequests -> Places]
      /\ lim_left' \in [LimRequests -> 0..LimTimeout]
      /\ lim_call' \in [LimRequests -> {"none", "submitted", "running"}]
  <2>1. "scored" \in Places /\ 0 \in 0..LimTimeout
    BY LimitsNumbers DEF Places
  <2>2. lim_request' \in [LimRequests -> Places]
    BY <1>1, <1>2, <2>1
  <2>3. lim_left' \in [LimRequests -> 0..LimTimeout]
    BY <1>1, <1>2, <2>1
  <2>4. lim_call' \in [LimRequests -> {"none", "submitted", "running"}]
    BY <1>1, <1>2
  <2> QED
    BY <2>2, <2>3, <2>4
<1>5. /\ \A q \in LimRequests \ {r} :
             lim_request'[q] = lim_request[q] /\ lim_call'[q] = lim_call[q]
      /\ lim_request'[r] \in {"computing", "scored"}
      /\ lim_request'[r] = "computing" => lim_request[r] = "computing"
  BY <1>1, <1>2, <1>3
<1>6. \A i \in DOMAIN lim_waiters' : lim_request'[lim_waiters'[i]] = "semaphore"
  BY <1>1, <1>2, <1>3, <1>5 DEF LimitsInv, SlotsInv
<1>7. /\ lim_call'[r] # "none" => lim_request'[r] \in {"computing", "scored"}
      /\ lim_is_async_reward_score =>
             lim_call'[r] # "submitted" /\ (lim_call'[r] = "running" => lim_request'[r] = "computing")
  BY <1>1, <1>2, <1>5 DEF LimitsInv, SlotsInv
<1>8. \A q \in LimRequests :
           /\ lim_call'[q] # "none" => lim_request'[q] \in {"computing", "scored"}
           /\ lim_is_async_reward_score' =>
                lim_call'[q] # "submitted" /\ (lim_call'[q] = "running" => lim_request'[q] = "computing")
  BY <1>1, <1>5, <1>7 DEF LimitsInv, SlotsInv
<1>9. Limits!Holders' \subseteq Limits!Holders
  BY <1>5 DEF Limits!Holders
<1>10. Cardinality(Limits!Holders') <= LimMaxConcurrent
  BY <1>9, FewerHolders DEF LimitsInv
<1>11. SlotsInv'
  BY <1>1, <1>4, <1>6, <1>8, <1>10 DEF LimitsInv, SlotsInv
<1>12. \A q \in LimRequests, b \in Limits!Buckets :
           lim_request'[q] = Limits!Paid(b) <=> lim_request[q] = Limits!Paid(b)
  BY <1>3, <1>5, BucketPlaces DEF Acquiring
<1> QED
  BY <1>1, <1>11, <1>12, BucketsStand DEF LimitsInv

LEMMA TickKeeps ==
    ASSUME LimitsInv, Limits!Tick
    PROVE  LimitsInv'
PROOF
<1>1. /\ Limits!NothingDue
      /\ lim_sleep' = [r \in LimRequests |-> Limits!Less(lim_sleep[r])]
      /\ lim_left' = [r \in LimRequests |-> Limits!Less(lim_left[r])]
      /\ lim_elapsed' = [b \in Limits!Buckets |->
                            Limits!Min({lim_elapsed[b] + 1, Capacity(b) - lim_tokens[b]})]
      /\ lim_ideal' = [b \in Limits!Buckets |->
                          Limits!Min({lim_ideal[b] + 1, Limits!Max({Capacity(b), Price(b)})})]
      /\ UNCHANGED <<lim_is_async_reward_score, lim_request, lim_tokens, lim_waiters, lim_call>>
  BY DEF Limits!Tick, Capacity, Price, Limits!Burst
<1>2. SlotsInv'
  <2>1. lim_left' \in [LimRequests -> 0..LimTimeout]
    BY <1>1, LimitsNumbers DEF LimitsInv, SlotsInv, Limits!Less
  <2>2. Limits!Holders' = Limits!Holders
    BY <1>1 DEF Limits!Holders
  <2> QED
    BY <1>1, <2>1, <2>2 DEF LimitsInv, SlotsInv
<1>3. lim_sleep' \in [LimRequests -> Nat]
  BY <1>1 DEF LimitsInv, BucketsInv, Limits!Less
<1>4. ASSUME NEW b \in Limits!Buckets
      PROVE  /\ lim_elapsed'[b] \in Nat /\ lim_ideal'[b] \in Int
             /\ Budget(Capacity(b), Price(b), lim_tokens[b], lim_elapsed'[b], lim_ideal'[b],
                       Sleepers(b), lim_sleep')
  <2>1. /\ lim_tokens[b] \in Int /\ lim_elapsed[b] \in Nat /\ lim_ideal[b] \in Int
        /\ Capacity(b) \in Nat /\ Price(b) \in Nat
        /\ Budget(Capacity(b), Price(b), lim_tokens[b], lim_elapsed[b], lim_ideal[b],
                  Sleepers(b), lim_sleep)
    BY BucketFacts
  <2>2. lim_elapsed'[b] = IF lim_elapsed[b] + 1 <= Capacity(b) - lim_tokens[b]
                          THEN lim_elapsed[b] + 1 ELSE Capacity(b) - lim_tokens[b]
    BY <1>1, <2>1, MinOfTwo
  <2>3. Limits!Max({Capacity(b), Price(b)}) =
            IF Capacity(b) >= Price(b) THEN Capacity(b) ELSE Price(b)
    BY <2>1, MaxOfTwo
  <2> DEFINE burst == IF Capacity(b) >= Price(b) THEN Capacity(b) ELSE Price(b)
  <2>4. lim_ideal'[b] = IF lim_ideal[b] + 1 <= burst THEN lim_ideal[b] + 1 ELSE burst
    <3>1. lim_ideal'[b] = Limits!Min({lim_ideal[b] + 1, burst})
      BY <1>1, <2>3
    <3>2. lim_ideal[b] + 1 \in Int /\ burst \in Int
      BY <2>1
    <3> HIDE DEF burst
    <3> QED
      BY <3>1, <3>2, MinOfTwo
  <2>5. \A r \in Sleepers(b) : lim_sleep[r] > 0 /\ lim_sleep'[r] = lim_sleep[r] - 1
    <3> SUFFICES ASSUME NEW r \in Sleepers(b)
                 PROVE  lim_sleep[r] > 0 /\ lim_sleep'[r] = lim_sleep[r] - 1
      OBVIOUS
    <3>1. r \in LimRequests /\ lim_request[r] \in {"rpm_paid", "tpm_paid"}
      BY BucketPlaces DEF Sleepers
    <3>2. lim_sleep[r] > 0 /\ lim_sleep[r] \in Nat
      BY <1>1, <3>1 DEF Limits!NothingDue, LimitsInv, BucketsInv
    <3> QED
      BY <1>1, <3>1, <3>2 DEF Limits!Less
  <2>6. Budget(Capacity(b), Price(b), lim_tokens[b], lim_elapsed'[b], lim_ideal'[b],
               Sleepers(b), lim_sleep')
    BY <2>1, <2>2, <2>4, <2>5, BudgetTicks
  <2> QED
    BY <2>6 DEF Budget
<1>5. \A b \in Limits!Buckets : Sleepers(b)' = Sleepers(b)
  BY <1>1 DEF Sleepers
<1>6. lim_elapsed' \in [Limits!Buckets -> Nat] /\ lim_ideal' \in [Limits!Buckets -> Int]
  BY <1>1, <1>4
<1>7. BucketsInv'
  BY <1>1, <1>3, <1>4, <1>5, <1>6 DEF LimitsInv, BucketsInv, Limits!Buckets, Capacity, Price
<1> QED
  BY <1>2, <1>7 DEF LimitsInv

LEMMA LimitsInitially == Limits!Init => LimitsInv
PROOF
<1> SUFFICES ASSUME Limits!Init
             PROVE  LimitsInv
  OBVIOUS
<1> USE DEF Limits!Init
<1>1. Limits!Holders = {} /\ \A b \in Limits!Buckets : Sleepers(b) = {}
  BY BucketPlaces DEF Limits!Holders, Sleepers
<1>2. Cardinality(Limits!Holders) <= LimMaxConcurrent
  BY <1>1, FS_EmptySet, LimitsNumbers
<1>3. SlotsInv
  <2>1. \A S : <<>> \in Seq(S) /\ DOMAIN <<>> = {}
    OBVIOUS
  <2>2. 0 \in 0..LimTimeout
    BY LimitsNumbers
  <2> QED
    BY <1>2, <2>1, <2>2 DEF SlotsInv, Places, Acquiring
<1>4. \A b \in Limits!Buckets :
          /\ lim_tokens[b] = Capacity(b) /\ lim_elapsed[b] = 0
          /\ lim_ideal[b] = IF Capacity(b) >= Price(b) THEN Capacity(b) ELSE Price(b)
  <2> SUFFICES ASSUME NEW b \in Limits!Buckets
               PROVE  /\ lim_tokens[b] = Capacity(b) /\ lim_elapsed[b] = 0
                      /\ lim_ideal[b] = IF Capacity(b) >= Price(b) THEN Capacity(b) ELSE Price(b)
    OBVIOUS
  <2>1. lim_ideal[b] = Limits!Max({Capacity(b), Price(b)})
    BY DEF Limits!Burst, Capacity, Price
  <2>2. Capacity(b) \in Int /\ Price(b) \in Int
    BY LimitsNumbers
  <2>3. lim_ideal[b] = IF Capacity(b) >= Price(b) THEN Capacity(b) ELSE Price(b)
    BY <2>1, <2>2, MaxOfTwo
  <2>4. lim_tokens[b] = Capacity(b) /\ lim_elapsed[b] = 0
    BY DEF Capacity
  <2> QED
    BY <2>3, <2>4
<1>5. \A b \in Limits!Buckets :
          Budget(Capacity(b), Price(b), lim_tokens[b], lim_elapsed[b], lim_ideal[b], Sleepers(b),
                 lim_sleep)
  BY <1>1, <1>4, LimitsNumbers DEF Budget
<1>6. /\ lim_tokens \in [Limits!Buckets -> Int] /\ lim_ideal \in [Limits!Buckets -> Int]
      /\ lim_elapsed \in [Limits!Buckets -> Nat] /\ lim_sleep \in [LimRequests -> Nat]
  BY <1>4, LimitsNumbers, BucketPlaces
<1> QED
  BY <1>3, <1>5, <1>6 DEF LimitsInv, BucketsInv

LEMMA LimitsInvHolds == MCSpec => []LimitsInv
PROOF
<1>1. MCInit => LimitsInv
  BY LimitsInitially DEF MCInit
<1>2. LimitsInv /\ [MCNext]_allVars => LimitsInv'
  <2> SUFFICES ASSUME LimitsInv, [MCNext]_allVars
               PROVE  LimitsInv'
    OBVIOUS
  <2>1. Limits!Next \/ UNCHANGED limVars
    BY DEF MCNext, allVars
  <2>2. CASE UNCHANGED limVars
    <3>1. UNCHANGED <<lim_is_async_reward_score, lim_request, lim_sleep, lim_tokens, lim_elapsed,
                      lim_waiters, lim_left, lim_call, lim_ideal>>
      BY <2>2 DEF limVars
    <3>2. SlotsInv'
      BY <3>1 DEF LimitsInv, SlotsInv, Limits!Holders
    <3>3. BucketsInv'
      BY <3>1, BucketsStand DEF LimitsInv
    <3> QED
      BY <3>2, <3>3 DEF LimitsInv
  <2>3. CASE \E r \in LimRequests : Limits!LoopStep(r) \/ Limits!ComputeScoreEnds(r)
    <3>1. PICK r \in LimRequests : Limits!LoopStep(r) \/ Limits!ComputeScoreEnds(r)
      BY <2>3
    <3>2. \/ Limits!DecodeResponse(r) \/ Limits!AcquireStep(r) \/ Limits!ThreadStarts(r)
          \/ Limits!TimesOut(r) \/ Limits!ComputeScoreEnds(r)
      BY <3>1 DEF Limits!LoopStep
    <3>3. CASE Limits!AcquireStep(r)
      <4>1. PICK b \in Limits!Buckets : \/ Limits!AcquireStandard(r, b)
                                        \/ Limits!AcquireOversize(r, b)
                                        \/ Limits!SleptAfterPaying(r, b)
        BY <3>3 DEF Limits!AcquireStep
      <4> QED
        BY <4>1, AcquireStandardKeeps, AcquireOversizeKeeps, SleptAfterPayingKeeps
    <3> QED
      BY <3>2, <3>3, DecodeResponseKeeps, CallStepsKeep
  <2>4. CASE Limits!EnterSemaphore \/ Limits!Tick
    BY <2>4, EnterSemaphoreKeeps, TickKeeps
  <2> QED
    BY <2>1, <2>2, <2>3, <2>4 DEF Limits!Next
<1> QED
  BY <1>1, <1>2, PTL DEF MCSpec

\* For any number of requests, any budgets and any costs, also costs no bucket can
\* hold: what a budget has let through never exceeds what it has gained and one
\* burst, the requests being scored never outnumber the slots, and nor do their
\* calls, if they end with their requests.
THEOREM LimitsAreRespected == MCSpec => []LimitsRespected
PROOF
<1> SUFFICES ASSUME LimitsInv
             PROVE  LimitsRespected
  BY LimitsInvHolds, PTL
<1>1. Limits!TypeOK
  <2>1. \A b \in Limits!Buckets :
            /\ lim_tokens[b] <= Capacity(b)
            /\ lim_elapsed[b] \in 0..(Capacity(b) - lim_tokens[b])
    BY BucketFacts
  <2>2. lim_request \in [LimRequests -> {"decode", "rpm", "rpm_paid", "tpm", "tpm_paid",
                                         "semaphore", "computing", "scored"}]
    BY DEF LimitsInv, SlotsInv, Places, Acquiring
  <2> QED
    BY <2>1, <2>2 DEF LimitsInv, SlotsInv, BucketsInv, Limits!TypeOK, Capacity
<1>2. Limits!RatesRespected
  BY BucketFacts DEF Limits!RatesRespected, Budget
<1>3. Limits!SlotsRespected
  <2>1. IsFiniteSet(Limits!Holders)
    BY LimitsNumbers, FS_Subset DEF Limits!Holders
  <2>2. Cardinality(Limits!Holders) <= LimMaxConcurrent /\ Cardinality(Limits!Holders) \in Nat
    BY <2>1, FS_CardinalityType DEF LimitsInv, SlotsInv
  <2>3. ASSUME lim_is_async_reward_score
        PROVE  Cardinality(Limits!Running) <= LimMaxConcurrent
    <3>1. Limits!Running \subseteq Limits!Holders
      BY <2>3 DEF Limits!Running, Limits!Holders, LimitsInv, SlotsInv
    <3>2. /\ Cardinality(Limits!Running) <= Cardinality(Limits!Holders)
          /\ IsFiniteSet(Limits!Running)
      BY <2>1, <3>1, FS_Subset
    <3>3. Cardinality(Limits!Running) \in Nat
      BY <3>2, FS_CardinalityType
    <3> QED
      BY <2>2, <3>2, <3>3, LimitsNumbers
  <2> QED
    BY <2>2, <2>3, SameCardinality DEF Limits!SlotsRespected
<1> QED
  BY <1>1, <1>2, <1>3 DEF LimitsRespected

-----------------------------------------------------------------------------
(* Distillation: the teacher's client *)

GkdThreads == 1..GkdWorkers
GkdRequests == (1..(GkdBatches + 1)) \X GkdThreads
NoGkdRequest == <<0, 0>>

\* The answer a thread waits for is under way: the service has the thread's
\* request or the answer to it, and nothing else.
Awaited(t) ==
    \/ gkd_asked[t] = <<gkd_taken[t]>> /\ gkd_answers[t] = <<>>
    \/ /\ gkd_asked[t] = <<>>
       /\ \E ok \in BOOLEAN : gkd_answers[t] = <<[of |-> gkd_taken[t], ok |-> ok]>>

\* The inductive invariant of the teacher's client.
ClientInv ==
    /\ gkd_task_queue \in Seq(GkdRequests)
    /\ gkd_thread \in [GkdThreads -> {"get", "send", "recv"}]
    /\ gkd_taken \in [GkdThreads -> GkdRequests \cup {NoGkdRequest}]
    /\ gkd_socket \in [GkdThreads -> {"send", "recv"}]
    /\ gkd_asked \in [GkdThreads -> Seq(GkdRequests)]
    /\ gkd_answers \in [GkdThreads -> Seq([of : GkdRequests, ok : BOOLEAN])]
    /\ gkd_future \in [GkdRequests -> {"none", "pending", "result", "exception"}]
    /\ gkd_reply \in [GkdRequests -> GkdRequests \cup {NoGkdRequest}]
    /\ \A t \in GkdThreads :
           /\ gkd_thread[t] # "get" => gkd_taken[t] \in GkdRequests
           /\ gkd_socket[t] = "send" =>
                  gkd_asked[t] = <<>> /\ gkd_answers[t] = <<>> /\ gkd_thread[t] # "recv"
           /\ gkd_thread[t] = "recv" => Awaited(t)
    /\ \A r \in GkdRequests :
           /\ gkd_future[r] = "result" => gkd_reply[r] = r
           /\ gkd_reply[r] \in {r, NoGkdRequest}

LEMMA GkdNumbers ==
    GkdBatches \in Nat /\ GkdBatches >= 2 /\ GkdWorkers \in Nat \ {0} /\ GkdMaxTroubles \in Nat
PROOF
  BY ComponentsAssumption

LEMMA NoRequestIsNone == NoGkdRequest \notin GkdRequests
PROOF
  BY GkdNumbers DEF NoGkdRequest, GkdRequests, GkdThreads

LEMMA ClientInitially == Distill!Teacher!ClientInit => ClientInv
PROOF
<1> SUFFICES ASSUME Distill!Teacher!ClientInit
             PROVE  ClientInv
  OBVIOUS
<1> USE DEF Distill!Teacher!ClientInit, Distill!Requests, Distill!Generations, Distill!NoRequest,
            Distill!None, GkdThreads, GkdRequests, NoGkdRequest
<1>1. \A S : <<>> \in Seq(S)
  OBVIOUS
<1>2. /\ gkd_task_queue \in Seq(GkdRequests)
      /\ gkd_thread \in [GkdThreads -> {"get", "send", "recv"}]
      /\ gkd_taken \in [GkdThreads -> GkdRequests \cup {NoGkdRequest}]
      /\ gkd_socket \in [GkdThreads -> {"send", "recv"}]
  BY <1>1
<1>3. /\ gkd_asked \in [GkdThreads -> Seq(GkdRequests)]
      /\ gkd_answers \in [GkdThreads -> Seq([of : GkdRequests, ok : BOOLEAN])]
  BY <1>1
<1>4. /\ gkd_future \in [GkdRequests -> {"none", "pending", "result", "exception"}]
      /\ gkd_reply \in [GkdRequests -> GkdRequests \cup {NoGkdRequest}]
  OBVIOUS
<1>5. \A t \in GkdThreads :
           gkd_thread[t] = "get" /\ gkd_asked[t] = <<>> /\ gkd_answers[t] = <<>>
  OBVIOUS
<1>6. \A r \in GkdRequests : gkd_future[r] = "none" /\ gkd_reply[r] = NoGkdRequest
  OBVIOUS
<1> HIDE DEF GkdThreads, GkdRequests, NoGkdRequest, Distill!Teacher!ClientInit
<1> QED
  BY <1>2, <1>3, <1>4, <1>5, <1>6 DEF ClientInv

\* What holds of the client after a step of thread t, or of the service for t,
\* that has left the other threads alone.
ClientAfter(t) ==
    /\ \A s \in GkdThreads \ {t} :
           /\ gkd_thread'[s] = gkd_thread[s] /\ gkd_taken'[s] = gkd_taken[s]
           /\ gkd_socket'[s] = gkd_socket[s] /\ gkd_asked'[s] = gkd_asked[s]
           /\ gkd_answers'[s] = gkd_answers[s]
    /\ gkd_thread'[t] # "get" => gkd_taken'[t] \in GkdRequests
    /\ gkd_socket'[t] = "send" =>
           gkd_asked'[t] = <<>> /\ gkd_answers'[t] = <<>> /\ gkd_thread'[t] # "recv"
    /\ gkd_thread'[t] = "recv" => Awaited(t)'

ClientTypes ==
    /\ gkd_task_queue \in Seq(GkdRequests)
    /\ gkd_thread \in [GkdThreads -> {"get", "send", "recv"}]
    /\ gkd_taken \in [GkdThreads -> GkdRequests \cup {NoGkdRequest}]
    /\ gkd_socket \in [GkdThreads -> {"send", "recv"}]
    /\ gkd_asked \in [GkdThreads -> Seq(GkdRequests)]
    /\ gkd_answers \in [GkdThreads -> Seq([of : GkdRequests, ok : BOOLEAN])]

FuturesInv ==
    /\ gkd_future \in [GkdRequests -> {"none", "pending", "result", "exception"}]
    /\ gkd_reply \in [GkdRequests -> GkdRequests \cup {NoGkdRequest}]
    /\ \A r \in GkdRequests :
           /\ gkd_future[r] = "result" => gkd_reply[r] = r
           /\ gkd_reply[r] \in {r, NoGkdRequest}

LEMMA ThreadKeepsClient ==
    ASSUME ClientInv, NEW t \in GkdThreads, ClientAfter(t), ClientTypes', FuturesInv'
    PROVE  ClientInv'
PROOF
<1>1. ASSUME NEW s \in GkdThreads \ {t}
      PROVE  /\ gkd_thread'[s] # "get" => gkd_taken'[s] \in GkdRequests
             /\ gkd_socket'[s] = "send" =>
                  gkd_asked'[s] = <<>> /\ gkd_answers'[s] = <<>> /\ gkd_thread'[s] # "recv"
             /\ gkd_thread'[s] = "recv" => Awaited(s)'
  <2>1. Awaited(s) => Awaited(s)'
    BY DEF Awaited, ClientAfter
  <2> QED
    BY <2>1 DEF ClientInv, ClientAfter
<1>2. \A s \in GkdThreads :
             /\ gkd_thread'[s] # "get" => gkd_taken'[s] \in GkdRequests
             /\ gkd_socket'[s] = "send" =>
                  gkd_asked'[s] = <<>> /\ gkd_answers'[s] = <<>> /\ gkd_thread'[s] # "recv"
             /\ gkd_thread'[s] = "recv" => Awaited(s)'
  BY <1>1 DEF ClientAfter
<1>3. GkdThreads' = GkdThreads /\ GkdRequests' = GkdRequests /\ NoGkdRequest' = NoGkdRequest
  BY DEF GkdThreads, GkdRequests, NoGkdRequest
<1> QED
  BY <1>2, <1>3 DEF ClientInv, ClientTypes, FuturesInv

\* Resolving a future with a result needs the right reply.
LEMMA ResolveKeepsFutures ==
    ASSUME FuturesInv, NEW r \in GkdRequests, NEW state \in {"result", "exception"},
           gkd_future' = [gkd_future EXCEPT ![r] = state],
           gkd_reply' \in {gkd_reply, [gkd_reply EXCEPT ![r] = r]},
           state = "result" => gkd_reply' # gkd_reply \/ gkd_reply[r] = r
    PROVE  FuturesInv'
PROOF
<1>1. \A q \in GkdRequests :
          /\ gkd_future'[q] = IF q = r THEN state ELSE gkd_future[q]
          /\ q # r => gkd_reply'[q] = gkd_reply[q]
          /\ gkd_reply'[r] \in {gkd_reply[r], r}
          /\ state = "result" => gkd_reply'[r] = r
  BY DEF FuturesInv
<1>2. /\ gkd_future' \in [GkdRequests -> {"none", "pending", "result", "exception"}]
      /\ gkd_reply' \in [GkdRequests -> GkdRequests \cup {NoGkdRequest}]
  BY DEF FuturesInv
<1>3. \A q \in GkdRequests :
          /\ gkd_future'[q] = "result" => gkd_reply'[q] = q
          /\ gkd_reply'[q] \in {q, NoGkdRequest}
  BY <1>1 DEF FuturesInv
<1>4. GkdRequests' = GkdRequests /\ NoGkdRequest' = NoGkdRequest
  BY DEF GkdThreads, GkdRequests, NoGkdRequest
<1> QED
  BY <1>2, <1>3, <1>4 DEF FuturesInv

LEMMA ClientParts == ClientInv => ClientTypes /\ FuturesInv
PROOF
  BY DEF ClientInv, ClientTypes, FuturesInv

LEMMA SameConstants ==
    GkdThreads' = GkdThreads /\ GkdRequests' = GkdRequests /\ NoGkdRequest' = NoGkdRequest
PROOF
  BY DEF GkdThreads, GkdRequests, NoGkdRequest

LEMMA TakeTaskKeeps ==
    ASSUME ClientInv, NEW t \in GkdThreads, Distill!Teacher!TakeTask(t)
    PROVE  ClientInv'
PROOF
<1>1. /\ gkd_thread[t] = "get" /\ gkd_task_queue # <<>>
      /\ gkd_thread' = [gkd_thread EXCEPT ![t] = "send"]
      /\ gkd_taken' = [gkd_taken EXCEPT ![t] = Head(gkd_task_queue)]
      /\ gkd_task_queue' = Tail(gkd_task_queue)
      /\ UNCHANGED <<gkd_socket, gkd_asked, gkd_answers, gkd_future, gkd_reply>>
  BY DEF Distill!Teacher!TakeTask
<1>2. ClientTypes /\ FuturesInv
  BY ClientParts
<1>3. Head(gkd_task_queue) \in GkdRequests /\ Tail(gkd_task_queue) \in Seq(GkdRequests)
  BY <1>1, <1>2 DEF ClientTypes
<1>4. ClientTypes'
  BY <1>1, <1>2, <1>3, SameConstants DEF ClientTypes
<1>5. FuturesInv'
  BY <1>1, <1>2, SameConstants DEF FuturesInv
<1>6. ClientAfter(t)
  BY <1>1, <1>2, <1>3 DEF ClientAfter, ClientInv, ClientTypes
<1> QED
  BY <1>4, <1>5, <1>6, ThreadKeepsClient

LEMMA SendRequestKeeps ==
    ASSUME ClientInv, NEW t \in GkdThreads, Distill!Teacher!SendRequest(t)
    PROVE  ClientInv'
PROOF
<1>1. /\ gkd_thread[t] = "send" /\ gkd_socket[t] = "send"
      /\ gkd_thread' = [gkd_thread EXCEPT ![t] = "recv"]
      /\ gkd_socket' = [gkd_socket EXCEPT ![t] = "recv"]
      /\ gkd_asked' = [gkd_asked EXCEPT ![t] = Append(@, gkd_taken[t])]
      /\ UNCHANGED <<gkd_task_queue, gkd_taken, gkd_answers, gkd_future, gkd_reply>>
  BY DEF Distill!Teacher!SendRequest, Distill!Teacher!MaySend
<1>2. ClientTypes /\ FuturesInv
  BY ClientParts
<1>3. gkd_asked[t] = <<>> /\ gkd_answers[t] = <<>> /\ gkd_taken[t] \in GkdRequests
  BY <1>1 DEF ClientInv
<1>4. Append(gkd_asked[t], gkd_taken[t]) = <<gkd_taken[t]>>
      /\ <<gkd_taken[t]>> \in Seq(GkdRequests)
  BY <1>3
<1>5. ClientTypes'
  BY <1>1, <1>2, <1>4, SameConstants DEF ClientTypes
<1>6. FuturesInv'
  BY <1>1, <1>2, SameConstants DEF FuturesInv
<1>7. Awaited(t)'
  BY <1>1, <1>2, <1>3, <1>4 DEF Awaited, ClientTypes
<1>8. ClientAfter(t)
  BY <1>1, <1>2, <1>3, <1>7 DEF ClientAfter, ClientTypes
<1> QED
  BY <1>5, <1>6, <1>8, ThreadKeepsClient

\* What a step in which thread t gets rid of its request does to the sockets.
SocketsAfter(t) ==
    /\ gkd_socket' \in [GkdThreads -> {"send", "recv"}]
    /\ gkd_answers' \in [GkdThreads -> Seq([of : GkdRequests, ok : BOOLEAN])]
    /\ gkd_asked' = gkd_asked
    /\ \A s \in GkdThreads \ {t} :
           gkd_socket'[s] = gkd_socket[s] /\ gkd_answers'[s] = gkd_answers[s]
    /\ gkd_socket'[t] = "send" => gkd_asked'[t] = <<>> /\ gkd_answers'[t] = <<>>

LEMMA ResolveKeeps ==
    ASSUME ClientInv, NEW t \in GkdThreads, NEW state \in {"result", "exception"},
           gkd_thread[t] # "get",
           Distill!Teacher!Resolve(t, state),
           gkd_reply' \in {gkd_reply, [gkd_reply EXCEPT ![gkd_taken[t]] = gkd_taken[t]]},
           state = "result" => gkd_reply' # gkd_reply \/ gkd_reply[gkd_taken[t]] = gkd_taken[t],
           SocketsAfter(t)
    PROVE  ClientInv'
PROOF
<1>1. /\ gkd_future' = [gkd_future EXCEPT ![gkd_taken[t]] = state]
      /\ gkd_thread' = [gkd_thread EXCEPT ![t] = "get"]
      /\ gkd_taken' = [gkd_taken EXCEPT ![t] = NoGkdRequest]
      /\ gkd_task_queue' = gkd_task_queue
  BY DEF Distill!Teacher!Resolve, Distill!NoRequest, Distill!None, NoGkdRequest
<1>2. ClientTypes /\ FuturesInv /\ gkd_taken[t] \in GkdRequests
  BY ClientParts DEF ClientInv
<1>3. ClientTypes'
  BY <1>1, <1>2, SameConstants DEF ClientTypes, SocketsAfter
<1>4. FuturesInv'
  BY <1>1, <1>2, ResolveKeepsFutures
<1>5. ClientAfter(t)
  BY <1>1, <1>2 DEF ClientAfter, ClientTypes, SocketsAfter
<1> QED
  BY <1>3, <1>4, <1>5, ThreadKeepsClient

LEMMA ReceiveKeeps ==
    ASSUME ClientInv, NEW t \in GkdThreads, Distill!Teacher!Receive(t)
    PROVE  ClientInv'
PROOF
<1> DEFINE answer == Head(gkd_answers[t])
           state == IF answer.ok THEN "result" ELSE "exception"
<1>1. /\ gkd_thread[t] = "recv" /\ gkd_answers[t] # <<>>
      /\ Distill!Teacher!Resolve(t, state)
      /\ gkd_reply' = [gkd_reply EXCEPT ![gkd_taken[t]] = answer.of]
      /\ gkd_socket' = [gkd_socket EXCEPT ![t] = "send"]
      /\ gkd_answers' = [gkd_answers EXCEPT ![t] = Tail(@)]
      /\ gkd_asked' = gkd_asked
  BY DEF Distill!Teacher!Receive
<1>2. ClientTypes /\ FuturesInv /\ gkd_taken[t] \in GkdRequests
  BY <1>1, ClientParts DEF ClientInv
<1>3. PICK ok \in BOOLEAN :
        gkd_asked[t] = <<>> /\ gkd_answers[t] = <<[of |-> gkd_taken[t], ok |-> ok]>>
  BY <1>1 DEF ClientInv, Awaited
<1>4. answer.of = gkd_taken[t] /\ Tail(gkd_answers[t]) = <<>>
  BY <1>3
<1>5. gkd_reply' = [gkd_reply EXCEPT ![gkd_taken[t]] = gkd_taken[t]] /\ SocketsAfter(t)
  <2>1. gkd_reply' = [gkd_reply EXCEPT ![gkd_taken[t]] = gkd_taken[t]]
    BY <1>1, <1>4
  <2>2. gkd_socket' \in [GkdThreads -> {"send", "recv"}]
    BY <1>1, <1>2 DEF ClientTypes
  <2>3. gkd_answers' = [gkd_answers EXCEPT ![t] = <<>>]
    BY <1>1, <1>4
  <2>4. <<>> \in Seq([of : GkdRequests, ok : BOOLEAN])
    OBVIOUS
  <2>5. gkd_answers' \in [GkdThreads -> Seq([of : GkdRequests, ok : BOOLEAN])]
    BY <1>2, <2>3, <2>4 DEF ClientTypes
  <2>6. gkd_answers'[t] = <<>> /\ gkd_asked'[t] = <<>>
    BY <1>1, <1>2, <1>3, <2>3 DEF ClientTypes
  <2>7. \A s \in GkdThreads \ {t} :
             gkd_socket'[s] = gkd_socket[s] /\ gkd_answers'[s] = gkd_answers[s]
    BY <1>1, <1>2, <2>3 DEF ClientTypes
  <2> QED
    BY <1>1, <2>1, <2>2, <2>5, <2>6, <2>7 DEF SocketsAfter
<1>6. gkd_reply' # gkd_reply \/ gkd_reply[gkd_taken[t]] = gkd_taken[t]
  <2>1. gkd_reply'[gkd_taken[t]] = gkd_taken[t]
    BY <1>2, <1>5 DEF FuturesInv
  <2> QED
    BY <2>1
<1>7. state \in {"result", "exception"}
  OBVIOUS
<1> HIDE DEF state, answer
<1> QED
  BY <1>1, <1>5, <1>6, <1>7, ResolveKeeps

LEMMA GivesUpKeeps ==
    ASSUME ClientInv, NEW t \in GkdThreads,
           Distill!Teacher!SendRefused(t) \/ Distill!Teacher!RecvTimeout(t)
    PROVE  ClientInv'
PROOF
<1>1. /\ gkd_thread[t] # "get" /\ gkd_socket[t] # "send"
      /\ Distill!Teacher!Resolve(t, "exception")
      /\ UNCHANGED <<gkd_socket, gkd_asked, gkd_answers, gkd_reply>>
  BY DEF Distill!Teacher!SendRefused, Distill!Teacher!RecvTimeout, Distill!Teacher!MaySend,
         ClientInv
<1>2. ClientTypes
  BY ClientParts
<1>3. SocketsAfter(t)
  BY <1>1, <1>2 DEF ClientTypes, SocketsAfter
<1> QED
  BY <1>1, <1>3, ResolveKeeps

LEMMA AnswerKeeps ==
    ASSUME ClientInv, NEW t \in GkdThreads, Distill!Teacher!Answer(t)
    PROVE  ClientInv'
PROOF
<1>1. PICK ok \in BOOLEAN :
        gkd_answers' = [gkd_answers EXCEPT ![t] = Append(@, [of |-> Head(gkd_asked[t]), ok |-> ok])]
  BY DEF Distill!Teacher!Answer
<1>2. /\ gkd_asked[t] # <<>>
      /\ gkd_asked' = [gkd_asked EXCEPT ![t] = Tail(@)]
      /\ UNCHANGED <<gkd_task_queue, gkd_thread, gkd_taken, gkd_socket, gkd_future, gkd_reply>>
  BY DEF Distill!Teacher!Answer
<1>3. ClientTypes /\ FuturesInv
  BY ClientParts
<1>4. /\ Head(gkd_asked[t]) \in GkdRequests /\ Tail(gkd_asked[t]) \in Seq(GkdRequests)
      /\ [of |-> Head(gkd_asked[t]), ok |-> ok] \in [of : GkdRequests, ok : BOOLEAN]
  BY <1>2, <1>3 DEF ClientTypes
<1>5. Append(gkd_answers[t], [of |-> Head(gkd_asked[t]), ok |-> ok])
          \in Seq([of : GkdRequests, ok : BOOLEAN])
  <2> DEFINE record == [of |-> Head(gkd_asked[t]), ok |-> ok]
             R == [of : GkdRequests, ok : BOOLEAN]
  <2>1. gkd_answers[t] \in Seq(R) /\ record \in R
    BY <1>3, <1>4 DEF ClientTypes
  <2> HIDE DEF record, R
  <2>2. Append(gkd_answers[t], record) \in Seq(R)
    BY <2>1
  <2> QED
    BY <2>2 DEF record, R
<1>6. ClientTypes'
  BY <1>1, <1>2, <1>3, <1>4, <1>5, SameConstants DEF ClientTypes
<1>7. FuturesInv'
  BY <1>2, <1>3, SameConstants DEF FuturesInv
<1>8. gkd_socket[t] # "send"
  BY <1>2 DEF ClientInv
<1>9. ASSUME gkd_thread[t] = "recv"
      PROVE  Awaited(t)'
  <2>1. gkd_asked[t] = <<gkd_taken[t]>> /\ gkd_answers[t] = <<>>
    BY <1>2, <1>9 DEF ClientInv, Awaited
  <2>2. Head(gkd_asked[t]) = gkd_taken[t] /\ Tail(gkd_asked[t]) = <<>>
    BY <2>1
  <2>3. gkd_asked'[t] = <<>>
    BY <1>2, <1>3, <2>2 DEF ClientTypes
  <2>4. gkd_answers'[t] = <<[of |-> gkd_taken'[t], ok |-> ok]>>
    BY <1>1, <1>2, <1>3, <2>1, <2>2 DEF ClientTypes
  <2> QED
    BY <2>3, <2>4 DEF Awaited
<1>10. ClientAfter(t)
  BY <1>1, <1>2, <1>3, <1>8, <1>9 DEF ClientAfter, ClientTypes, ClientInv
<1> QED
  BY <1>6, <1>7, <1>10, ThreadKeepsClient

LEMMA ClientStandsStill ==
    ASSUME ClientInv,
           UNCHANGED <<gkd_task_queue, gkd_thread, gkd_taken, gkd_socket, gkd_asked, gkd_answers,
                       gkd_future, gkd_reply>>
    PROVE  ClientInv'
PROOF
  BY SameConstants DEF ClientInv, Awaited

LEMMA SubmitKeeps ==
    ASSUME ClientInv, NEW rs \in Seq(GkdRequests), Distill!Teacher!Submit(rs)
    PROVE  ClientInv'
PROOF
<1>1. /\ gkd_task_queue' = gkd_task_queue \o rs
      /\ gkd_future' = [r \in GkdRequests |->
                            IF \E i \in DOMAIN rs : rs[i] = r THEN "pending" ELSE gkd_future[r]]
      /\ UNCHANGED <<gkd_thread, gkd_taken, gkd_socket, gkd_asked, gkd_answers, gkd_reply>>
  BY DEF Distill!Teacher!Submit, Distill!Requests, Distill!Generations, GkdRequests, GkdThreads
<1>2. ClientTypes /\ FuturesInv
  BY ClientParts
<1>3. gkd_task_queue' \in Seq(GkdRequests)
  BY <1>1, <1>2 DEF ClientTypes
<1>4. \A r \in GkdRequests : gkd_future'[r] \in {"pending", gkd_future[r]}
  BY <1>1
<1>5. /\ gkd_future' \in [GkdRequests -> {"none", "pending", "result", "exception"}]
      /\ \A r \in GkdRequests : gkd_future'[r] = "result" => gkd_reply'[r] = r
  BY <1>1, <1>2, <1>4 DEF FuturesInv
<1> QED
  BY <1>1, <1>3, <1>5, SameConstants DEF ClientInv, Awaited

-----------------------------------------------------------------------------
(* Distillation: the scheduler *)

\* What the two-step-off scheduler has left to do in an iteration.
Yield == <<"yield">>
GetYield == <<"get", "yield">>
YieldGetYield == <<"yield", "get", "yield">>
TeachLast == <<"teach", "yield", "get", "yield">>
GetLast == <<"get", "teach", "yield", "get", "yield">>
GenYield == <<"gen", "yield">>
SyncGenYield == <<"sync", "gen", "yield">>
TeachGenYield == <<"teach", "gen", "yield">>
TeachSyncGen == <<"teach", "sync", "gen", "yield">>
GetTeachGen == <<"get", "teach", "gen", "yield">>
GetTeachSync == <<"get", "teach", "sync", "gen", "yield">>
Gen == <<"gen">>
SyncGen == <<"sync", "gen">>
TeachGen == <<"teach", "gen">>

\* In iteration i with td left to do: g generations have been started, the
\* teacher has been asked about t of them, the scheduler has the result of the
\* o-th, and fit has been given h.
Counts(g, t, o, h, w, x, y, z) == g = w /\ t = x /\ o = y /\ h = z

FirstPlan(i, td, g, t, o, h) ==
    \/ i = 0 /\ td \in {SyncGen, Gen} /\ Counts(g, t, o, h, 0, 0, 0, 0)
    \/ i = 0 /\ td = <<>> /\ Counts(g, t, o, h, 1, 0, 0, 0)
    \/ i = 1 /\ td = TeachGen /\ Counts(g, t, o, h, 1, 0, 0, 0)
    \/ i = 1 /\ td = Gen /\ Counts(g, t, o, h, 1, 1, 0, 0)
    \/ i = 1 /\ td = <<>> /\ Counts(g, t, o, h, 2, 1, 0, 0)

MiddlePlan(i, td, g, t, o, h) ==
    /\ i \in 2..(GkdBatches - 1)
    /\ \/ td = GetTeachGen /\ i = 2 /\ Counts(g, t, o, h, i, i - 1, i - 2, i - 2)
       \/ td = GetTeachSync /\ Counts(g, t, o, h, i, i - 1, i - 2, i - 2)
       \/ td = TeachGenYield /\ i = 2 /\ Counts(g, t, o, h, i, i - 1, i - 1, i - 2)
       \/ td = TeachSyncGen /\ Counts(g, t, o, h, i, i - 1, i - 1, i - 2)
       \/ td \in {SyncGenYield, GenYield} /\ Counts(g, t, o, h, i, i, i - 1, i - 2)
       \/ td = Yield /\ Counts(g, t, o, h, i + 1, i, i - 1, i - 2)
       \/ td = <<>> /\ Counts(g, t, o, h, i + 1, i, i - 1, i - 1)

LastPlan(i, td, g, t, o, h) ==
    /\ i = GkdBatches
    /\ \/ td = GetLast /\ Counts(g, t, o, h, i, i - 1, i - 2, i - 2)
       \/ td = TeachLast /\ Counts(g, t, o, h, i, i - 1, i - 1, i - 2)
       \/ td = YieldGetYield /\ Counts(g, t, o, h, i, i, i - 1, i - 2)
       \/ td = GetYield /\ Counts(g, t, o, h, i, i, i - 1, i - 1)
       \/ td = Yield /\ Counts(g, t, o, h, i, i, i, i - 1)
       \/ td = <<>> /\ Counts(g, t, o, h, i, i, i, i)

Plan(i, td, g, t, o, h) ==
    \/ FirstPlan(i, td, g, t, o, h)
    \/ MiddlePlan(i, td, g, t, o, h)
    \/ LastPlan(i, td, g, t, o, h)

LEMMA TodoHeads ==
    /\ Head(Yield) = "yield" /\ Head(GetYield) = "get" /\ Head(YieldGetYield) = "yield"
    /\ Head(TeachLast) = "teach" /\ Head(GetLast) = "get" /\ Head(GenYield) = "gen"
    /\ Head(SyncGenYield) = "sync" /\ Head(TeachGenYield) = "teach"
    /\ Head(TeachSyncGen) = "teach" /\ Head(GetTeachGen) = "get" /\ Head(GetTeachSync) = "get"
    /\ Head(Gen) = "gen" /\ Head(SyncGen) = "sync" /\ Head(TeachGen) = "teach"
PROOF
  BY DEF Yield, GetYield, YieldGetYield, TeachLast, GetLast, GenYield, SyncGenYield,
         TeachGenYield, TeachSyncGen, GetTeachGen, GetTeachSync, Gen, SyncGen, TeachGen

LEMMA TodoTails ==
    /\ Tail(Yield) = <<>> /\ Tail(GetYield) = Yield /\ Tail(YieldGetYield) = GetYield
    /\ Tail(TeachLast) = YieldGetYield /\ Tail(GetLast) = TeachLast /\ Tail(GenYield) = Yield
    /\ Tail(SyncGenYield) = GenYield /\ Tail(TeachGenYield) = GenYield
    /\ Tail(TeachSyncGen) = SyncGenYield /\ Tail(GetTeachGen) = TeachGenYield
    /\ Tail(GetTeachSync) = TeachSyncGen
    /\ Tail(Gen) = <<>> /\ Tail(SyncGen) = Gen /\ Tail(TeachGen) = Gen
PROOF
<1> USE DEF Yield, GetYield, YieldGetYield, TeachLast, GetLast, GenYield, SyncGenYield,
            TeachGenYield, TeachSyncGen, GetTeachGen, GetTeachSync, Gen, SyncGen, TeachGen
<1>1. Tail(Yield) = <<>> /\ Tail(Gen) = <<>>
  OBVIOUS
<1>2. Tail(GetYield) = Yield /\ Tail(GenYield) = Yield
  OBVIOUS
<1>3. Tail(SyncGen) = Gen /\ Tail(TeachGen) = Gen
  OBVIOUS
<1>4. Tail(YieldGetYield) = GetYield
  OBVIOUS
<1>5. Tail(SyncGenYield) = GenYield /\ Tail(TeachGenYield) = GenYield
  OBVIOUS
<1>6. Tail(TeachLast) = YieldGetYield
  OBVIOUS
<1>7. Tail(TeachSyncGen) = SyncGenYield
  OBVIOUS
<1>8. Tail(GetTeachGen) = TeachGenYield
  OBVIOUS
<1>9. Tail(GetLast) = TeachLast
  OBVIOUS
<1>10. Tail(GetTeachSync) = TeachSyncGen
  OBVIOUS
<1> QED
  BY <1>1, <1>2, <1>3, <1>4, <1>5, <1>6, <1>7, <1>8, <1>9, <1>10

LEMMA TodoNotEmpty ==
    <<>> \notin {Yield, GetYield, YieldGetYield, TeachLast, GetLast, GenYield, SyncGenYield,
                 TeachGenYield, TeachSyncGen, GetTeachGen, GetTeachSync, Gen, SyncGen, TeachGen}
PROOF
  BY DEF Yield, GetYield, YieldGetYield, TeachLast, GetLast, GenYield, SyncGenYield,
         TeachGenYield, TeachSyncGen, GetTeachGen, GetTeachSync, Gen, SyncGen, TeachGen

LEMMA PlanNumbers ==
    ASSUME NEW i, NEW td, NEW g, NEW t, NEW o, NEW h, Plan(i, td, g, t, o, h)
    PROVE  /\ i \in 0..GkdBatches /\ g \in 0..GkdBatches /\ t \in 0..g /\ o \in 0..t
           /\ h \in 0..o
           /\ h >= GkdBatches => i = GkdBatches /\ td = <<>>
PROOF
  BY GkdNumbers DEF Plan, FirstPlan, MiddlePlan, LastPlan, Counts

LEMMA PlanSync ==
    ASSUME NEW i, NEW td, NEW g, NEW t, NEW o, NEW h, Plan(i, td, g, t, o, h),
           td # <<>>, Head(td) = "sync"
    PROVE  Plan(i, Tail(td), g, t, o, h)
PROOF
<1>1. FirstPlan(i, td, g, t, o, h) => FirstPlan(i, Tail(td), g, t, o, h)
  BY TodoHeads, TodoTails DEF FirstPlan
<1>2. MiddlePlan(i, td, g, t, o, h) => MiddlePlan(i, Tail(td), g, t, o, h)
  BY TodoHeads, TodoTails DEF MiddlePlan
<1>3. ~LastPlan(i, td, g, t, o, h)
  BY TodoHeads DEF LastPlan
<1> QED
  BY <1>1, <1>2, <1>3 DEF Plan

LEMMA PlanGen ==
    ASSUME NEW i, NEW td, NEW g, NEW t, NEW o, NEW h, Plan(i, td, g, t, o, h),
           td # <<>>, Head(td) = "gen"
    PROVE  /\ Plan(i, Tail(td), g + 1, t, o, h)
           /\ g = i /\ i \in 0..(GkdBatches - 1)
           /\ \/ i <= 1 /\ h = 0
              \/ td = GenYield /\ h = i - 2
           /\ Tail(td) # GenYield
PROOF
<1>1. \/ i = 0 /\ td = Gen /\ Counts(g, t, o, h, 0, 0, 0, 0)
      \/ i = 1 /\ td = Gen /\ Counts(g, t, o, h, 1, 1, 0, 0)
      \/ i \in 2..(GkdBatches - 1) /\ td = GenYield /\ Counts(g, t, o, h, i, i, i - 1, i - 2)
  BY TodoHeads DEF Plan, FirstPlan, MiddlePlan, LastPlan
<1>0. GenYield \notin {Yield, <<>>}
  BY TodoHeads, TodoNotEmpty
<1>2. CASE i = 0 /\ td = Gen /\ Counts(g, t, o, h, 0, 0, 0, 0)
  <2>1. Tail(td) = <<>>
    BY <1>2, TodoTails
  <2>2. FirstPlan(i, Tail(td), g + 1, t, o, h)
    BY <1>2, <2>1, GkdNumbers DEF FirstPlan, Counts
  <2>3. Plan(i, Tail(td), g + 1, t, o, h)
    BY <2>2 DEF Plan
  <2> QED
    BY <1>0, <1>2, <2>1, <2>3, GkdNumbers DEF Counts
<1>3. CASE i = 1 /\ td = Gen /\ Counts(g, t, o, h, 1, 1, 0, 0)
  <2>1. Tail(td) = <<>> /\ g + 1 = 2 /\ t = 1 /\ o = 0 /\ h = 0
    BY <1>3, TodoTails DEF Counts
  <2>2. FirstPlan(i, Tail(td), g + 1, t, o, h)
    BY <1>3, <2>1 DEF FirstPlan, Counts
  <2> QED
    BY <1>0, <1>3, <2>1, <2>2, GkdNumbers DEF Plan, Counts
<1>4. CASE i \in 2..(GkdBatches - 1) /\ td = GenYield /\ Counts(g, t, o, h, i, i, i - 1, i - 2)
  <2>1. Tail(td) = Yield
    BY <1>4, TodoTails
  <2>2. MiddlePlan(i, Tail(td), g + 1, t, o, h)
    BY <1>4, <2>1, GkdNumbers DEF MiddlePlan, Counts
  <2>3. Plan(i, Tail(td), g + 1, t, o, h)
    BY <2>2 DEF Plan
  <2> QED
    BY <1>0, <1>4, <2>1, <2>3, GkdNumbers DEF Counts
<1> QED
  BY <1>1, <1>2, <1>3, <1>4

LEMMA PlanTeach ==
    ASSUME NEW i, NEW td, NEW g, NEW t, NEW o, NEW h, Plan(i, td, g, t, o, h),
           td # <<>>, Head(td) = "teach"
    PROVE  /\ Plan(i, Tail(td), g, g, o, h)
           /\ g \in 1..GkdBatches
           /\ Tail(td) = GenYield => h = 0
PROOF
<1>1. \/ i = 1 /\ td = TeachGen /\ Counts(g, t, o, h, 1, 0, 0, 0)
      \/ i \in 2..(GkdBatches - 1) /\ td = TeachGenYield /\ i = 2
             /\ Counts(g, t, o, h, i, i - 1, i - 1, i - 2)
      \/ i \in 2..(GkdBatches - 1) /\ td = TeachSyncGen
             /\ Counts(g, t, o, h, i, i - 1, i - 1, i - 2)
      \/ i = GkdBatches /\ td = TeachLast /\ Counts(g, t, o, h, i, i - 1, i - 1, i - 2)
  BY TodoHeads DEF Plan, FirstPlan, MiddlePlan, LastPlan
<1>2. Gen # GenYield /\ SyncGenYield # GenYield /\ YieldGetYield # GenYield
  BY TodoHeads, TodoTails, TodoNotEmpty
<1>3. CASE i = 1 /\ td = TeachGen /\ Counts(g, t, o, h, 1, 0, 0, 0)
  <2>1. Tail(td) = Gen
    BY <1>3, TodoTails
  <2>2. FirstPlan(i, Tail(td), g, g, o, h)
    BY <1>3, <2>1, GkdNumbers DEF FirstPlan, Counts
  <2>3. Plan(i, Tail(td), g, g, o, h)
    BY <2>2 DEF Plan
  <2> QED
    BY <1>2, <1>3, <2>1, <2>3, GkdNumbers DEF Counts
<1>4. CASE i \in 2..(GkdBatches - 1) /\ td = TeachGenYield /\ i = 2
             /\ Counts(g, t, o, h, i, i - 1, i - 1, i - 2)
  <2>1. Tail(td) = GenYield
    BY <1>4, TodoTails
  <2>2. MiddlePlan(i, Tail(td), g, g, o, h)
    BY <1>4, <2>1, GkdNumbers DEF MiddlePlan, Counts
  <2>3. Plan(i, Tail(td), g, g, o, h)
    BY <2>2 DEF Plan
  <2> QED
    BY <1>2, <1>4, <2>1, <2>3, GkdNumbers DEF Counts
<1>5. CASE i \in 2..(GkdBatches - 1) /\ td = TeachSyncGen
             /\ Counts(g, t, o, h, i, i - 1, i - 1, i - 2)
  <2>1. Tail(td) = SyncGenYield
    BY <1>5, TodoTails
  <2>2. MiddlePlan(i, Tail(td), g, g, o, h)
    BY <1>5, <2>1, GkdNumbers DEF MiddlePlan, Counts
  <2>3. Plan(i, Tail(td), g, g, o, h)
    BY <2>2 DEF Plan
  <2> QED
    BY <1>2, <1>5, <2>1, <2>3, GkdNumbers DEF Counts
<1>6. CASE i = GkdBatches /\ td = TeachLast /\ Counts(g, t, o, h, i, i - 1, i - 1, i - 2)
  <2>1. Tail(td) = YieldGetYield
    BY <1>6, TodoTails
  <2>2. LastPlan(i, Tail(td), g, g, o, h)
    BY <1>6, <2>1, GkdNumbers DEF LastPlan, Counts
  <2>3. Plan(i, Tail(td), g, g, o, h)
    BY <2>2 DEF Plan
  <2> QED
    BY <1>2, <1>6, <2>1, <2>3, GkdNumbers DEF Counts
<1> QED
  BY <1>1, <1>3, <1>4, <1>5, <1>6

LEMMA PlanGet ==
    ASSUME NEW i, NEW td, NEW g, NEW t, NEW o, NEW h, Plan(i, td, g, t, o, h),
           td # <<>>, Head(td) = "get"
    PROVE  /\ Plan(i, Tail(td), g, t, t, h)
           /\ t \in 1..GkdBatches
           /\ Tail(td) # GenYield
PROOF
<1>1. \/ i \in 2..(GkdBatches - 1) /\ td = GetTeachGen /\ i = 2
             /\ Counts(g, t, o, h, i, i - 1, i - 2, i - 2)
      \/ i \in 2..(GkdBatches - 1) /\ td = GetTeachSync
             /\ Counts(g, t, o, h, i, i - 1, i - 2, i - 2)
      \/ i = GkdBatches /\ td = GetLast /\ Counts(g, t, o, h, i, i - 1, i - 2, i - 2)
      \/ i = GkdBatches /\ td = GetYield /\ Counts(g, t, o, h, i, i, i - 1, i - 1)
  BY TodoHeads DEF Plan, FirstPlan, MiddlePlan, LastPlan
<1>2. GenYield \notin {TeachGenYield, TeachSyncGen, TeachLast, Yield}
  BY TodoHeads
<1>3. CASE i \in 2..(GkdBatches - 1) /\ td = GetTeachGen /\ i = 2
             /\ Counts(g, t, o, h, i, i - 1, i - 2, i - 2)
  <2>1. Tail(td) = TeachGenYield
    BY <1>3, TodoTails
  <2>2. MiddlePlan(i, Tail(td), g, t, t, h)
    BY <1>3, <2>1, GkdNumbers DEF MiddlePlan, Counts
  <2>3. Plan(i, Tail(td), g, t, t, h)
    BY <2>2 DEF Plan
  <2> QED
    BY <1>2, <1>3, <2>1, <2>3, GkdNumbers DEF Counts
<1>4. CASE i \in 2..(GkdBatches - 1) /\ td = GetTeachSync
             /\ Counts(g, t, o, h, i, i - 1, i - 2, i - 2)
  <2>1. Tail(td) = TeachSyncGen
    BY <1>4, TodoTails
  <2>2. MiddlePlan(i, Tail(td), g, t, t, h)
    BY <1>4, <2>1, GkdNumbers DEF MiddlePlan, Counts
  <2>3. Plan(i, Tail(td), g, t, t, h)
    BY <2>2 DEF Plan
  <2> QED
    BY <1>2, <1>4, <2>1, <2>3, GkdNumbers DEF Counts
<1>5. CASE i = GkdBatches /\ td = GetLast /\ Counts(g, t, o, h, i, i - 1, i - 2, i - 2)
  <2>1. Tail(td) = TeachLast
    BY <1>5, TodoTails
  <2>2. LastPlan(i, Tail(td), g, t, t, h)
    BY <1>5, <2>1, GkdNumbers DEF LastPlan, Counts
  <2>3. Plan(i, Tail(td), g, t, t, h)
    BY <2>2 DEF Plan
  <2> QED
    BY <1>2, <1>5, <2>1, <2>3, GkdNumbers DEF Counts
<1>6. CASE i = GkdBatches /\ td = GetYield /\ Counts(g, t, o, h, i, i, i - 1, i - 1)
  <2>1. Tail(td) = Yield
    BY <1>6, TodoTails
  <2>2. LastPlan(i, Tail(td), g, t, t, h)
    BY <1>6, <2>1, GkdNumbers DEF LastPlan, Counts
  <2>3. Plan(i, Tail(td), g, t, t, h)
    BY <2>2 DEF Plan
  <2> QED
    BY <1>2, <1>6, <2>1, <2>3, GkdNumbers DEF Counts
<1> QED
  BY <1>1, <1>3, <1>4, <1>5, <1>6

LEMMA PlanYield ==
    ASSUME NEW i, NEW td, NEW g, NEW t, NEW o, NEW h, Plan(i, td, g, t, o, h),
           td # <<>>, Head(td) = "yield"
    PROVE  /\ Plan(i, Tail(td), g, t, o, h + 1)
           /\ o = h + 1 /\ o \in 1..g
           /\ Tail(td) # GenYield
PROOF
<1>1. \/ i \in 2..(GkdBatches - 1) /\ td = Yield /\ Counts(g, t, o, h, i + 1, i, i - 1, i - 2)
      \/ i = GkdBatches /\ td = YieldGetYield /\ Counts(g, t, o, h, i, i, i - 1, i - 2)
      \/ i = GkdBatches /\ td = Yield /\ Counts(g, t, o, h, i, i, i, i - 1)
  BY TodoHeads DEF Plan, FirstPlan, MiddlePlan, LastPlan
<1>2. GenYield # GetYield /\ GenYield # <<>>
  BY TodoHeads, TodoNotEmpty
<1>3. CASE i \in 2..(GkdBatches - 1) /\ td = Yield
             /\ Counts(g, t, o, h, i + 1, i, i - 1, i - 2)
  <2>1. Tail(td) = <<>>
    BY <1>3, TodoTails
  <2>2. MiddlePlan(i, Tail(td), g, t, o, h + 1)
    BY <1>3, <2>1, GkdNumbers DEF MiddlePlan, Counts
  <2>3. Plan(i, Tail(td), g, t, o, h + 1)
    BY <2>2 DEF Plan
  <2>4. h = i - 2 /\ o = i - 1 /\ g = i + 1 /\ i \in 2..(GkdBatches - 1)
    BY <1>3 DEF Counts
  <2>5. o = h + 1 /\ o \in 1..g
    BY <2>4, GkdNumbers
  <2> QED
    BY <1>2, <2>1, <2>3, <2>5
<1>4. CASE i = GkdBatches /\ td = YieldGetYield /\ Counts(g, t, o, h, i, i, i - 1, i - 2)
  <2>1. Tail(td) = GetYield /\ h + 1 = i - 1 /\ g = i /\ t = i /\ o = i - 1
    BY <1>4, TodoTails, GkdNumbers DEF Counts
  <2>2. LastPlan(i, Tail(td), g, t, o, h + 1)
    BY <1>4, <2>1 DEF LastPlan, Counts
  <2>3. o = h + 1 /\ o \in 1..g
    BY <1>4, <2>1, GkdNumbers DEF Counts
  <2> QED
    BY <1>2, <2>1, <2>2, <2>3 DEF Plan
<1>5. CASE i = GkdBatches /\ td = Yield /\ Counts(g, t, o, h, i, i, i, i - 1)
  <2>1. Tail(td) = <<>>
    BY <1>5, TodoTails
  <2>2. LastPlan(i, Tail(td), g, t, o, h + 1)
    BY <1>5, <2>1, GkdNumbers DEF LastPlan, Counts
  <2>3. Plan(i, Tail(td), g, t, o, h + 1)
    BY <2>2 DEF Plan
  <2>4. h = i - 1 /\ o = i /\ g = i /\ i = GkdBatches
    BY <1>5 DEF Counts
  <2>5. o = h + 1 /\ o \in 1..g
    BY <2>4, GkdNumbers
  <2> QED
    BY <1>2, <2>1, <2>3, <2>5
<1> QED
  BY <1>1, <1>3, <1>4, <1>5

LEMMA Iterations ==
    /\ Distill!Iteration(0) = SyncGen
    /\ Distill!Iteration(1) = TeachGen
    /\ 2 < GkdBatches => Distill!Iteration(2) = GetTeachGen
    /\ \A i \in 3..(GkdBatches - 1) : Distill!Iteration(i) = GetTeachSync
    /\ Distill!Iteration(GkdBatches) = GetLast
PROOF
  BY GkdNumbers DEF Distill!Iteration, Distill!TwoStepOff, GetLast, SyncGen, TeachGen,
     GetTeachGen, GetTeachSync

LEMMA PlanIteration ==
    ASSUME NEW i, NEW g, NEW t, NEW o, NEW h, Plan(i, <<>>, g, t, o, h), i < GkdBatches
    PROVE  /\ Plan(i + 1, Distill!Iteration(i + 1), g, t, o, h)
           /\ Distill!Iteration(i + 1) # GenYield
PROOF
<1>1. \/ i \in {0, 1} /\ Counts(g, t, o, h, i + 1, i, 0, 0)
      \/ i \in 2..(GkdBatches - 1) /\ Counts(g, t, o, h, i + 1, i, i - 1, i - 1)
  BY GkdNumbers, TodoNotEmpty DEF Plan, FirstPlan, MiddlePlan, LastPlan
<1>2. CASE i = 0
  BY <1>1, <1>2, Iterations, TodoHeads DEF Plan, FirstPlan, Counts
<1>3. CASE i \in 1..(GkdBatches - 1) /\ i + 1 = GkdBatches
  BY <1>1, <1>3, GkdNumbers, Iterations, TodoHeads DEF Plan, LastPlan, Counts
<1>4. CASE i \in 1..(GkdBatches - 1) /\ i + 1 # GkdBatches
  BY <1>1, <1>4, GkdNumbers, Iterations, TodoHeads DEF Plan, MiddlePlan, Counts
<1> QED
  BY <1>1, <1>2, <1>3, <1>4, GkdNumbers

\* The k-th generation is that of the k-th batch; the weights it runs with
\* contain all updates but those of at most three batches before it, and at
\* most two of those are still to come when fit is given batch k.
Generated(k) ==
    /\ gkd_generations[k].batch = k - 1
    /\ gkd_generations[k].weights \in 0..gkd_updates
    /\ gkd_updates - gkd_generations[k].weights <= Len(gkd_handled) + 3 - k

\* The knowledge that the scheduler holds is that of the generation it names.
OwnKnowledge ==
    gkd_result.knowledge =>
        /\ gkd_result.of \in 1..GkdBatches
        /\ gkd_padded = gkd_result.of
        /\ \A m \in GkdThreads : gkd_reply[<<gkd_result.of, m>>] = <<gkd_result.of, m>>

\* The inductive invariant of the scheduler and of fit.
SchedInv ==
    /\ Plan(gkd_step, gkd_todo, Len(gkd_generations), gkd_teacher_future, gkd_result.of,
            Len(gkd_handled))
    /\ gkd_generations \in Seq([batch : Nat, weights : Nat])
    /\ gkd_handled \in Seq(Nat)
    /\ gkd_rollout_future = Len(gkd_generations)
    /\ gkd_generated \in 0..Len(gkd_generations)
    /\ gkd_padded \in 0..gkd_result.of
    /\ gkd_global_steps = Len(gkd_handled) + 1
    /\ gkd_fit = IF Len(gkd_handled) >= GkdBatches THEN "returned" ELSE "next"
    /\ gkd_updates \in 0..Len(gkd_handled)
    /\ gkd_rollout_weights \in 0..gkd_updates
    /\ gkd_todo = GenYield => gkd_rollout_weights = gkd_updates
    /\ \A k \in 1..Len(gkd_generations) : Generated(k)
    /\ \A k \in 1..Len(gkd_handled) : gkd_handled[k] = k - 1
    /\ gkd_lag \subseteq 0..2
    /\ OwnKnowledge

LEMMA SchedNumbers ==
    ASSUME SchedInv
    PROVE  /\ Len(gkd_generations) \in 0..GkdBatches /\ gkd_step \in 0..GkdBatches
           /\ gkd_teacher_future \in 0..Len(gkd_generations)
           /\ gkd_result.of \in 0..gkd_teacher_future
           /\ Len(gkd_handled) \in 0..gkd_result.of
PROOF
  BY PlanNumbers DEF SchedInv

LEMMA SchedInitially == Distill!Init => SchedInv
PROOF
<1> SUFFICES ASSUME Distill!Init
             PROVE  SchedInv
  OBVIOUS
<1>1. /\ gkd_step = 0 /\ gkd_todo = SyncGen /\ gkd_generations = <<>> /\ gkd_generated = 0
      /\ gkd_rollout_future = 0 /\ gkd_teacher_future = 0 /\ gkd_result.of = 0
      /\ gkd_result.knowledge = FALSE /\ gkd_padded = 0 /\ gkd_updates = 0
      /\ gkd_rollout_weights = 0 /\ gkd_global_steps = 1 /\ gkd_handled = <<>> /\ gkd_lag = {}
      /\ gkd_fit = "next"
  BY Iterations DEF Distill!Init, Distill!None
<1>2. Len(gkd_generations) = 0 /\ Len(gkd_handled) = 0
  BY <1>1
<1>3. \A S : <<>> \in Seq(S)
  OBVIOUS
<1>4. Plan(gkd_step, gkd_todo, Len(gkd_generations), gkd_teacher_future, gkd_result.of,
           Len(gkd_handled))
  BY <1>1, <1>2 DEF Plan, FirstPlan, Counts
<1> QED
  BY <1>1, <1>2, <1>3, <1>4, GkdNumbers DEF SchedInv, OwnKnowledge

LEMMA SyncKeeps ==
    ASSUME SchedInv, Distill!SyncRolloutWeights
    PROVE  SchedInv'
PROOF
<1>1. /\ gkd_todo # <<>> /\ Head(gkd_todo) = "sync" /\ gkd_todo' = Tail(gkd_todo)
      /\ gkd_rollout_weights' = gkd_updates
      /\ UNCHANGED <<gkd_step, gkd_generations, gkd_generated, gkd_rollout_future,
                     gkd_teacher_future, gkd_result, gkd_padded, gkd_updates,
                     gkd_global_steps, gkd_handled, gkd_lag, gkd_fit, gkd_reply>>
  BY DEF Distill!SyncRolloutWeights, Distill!Does, Distill!clientVars
<1>2. Plan(gkd_step', gkd_todo', Len(gkd_generations'), gkd_teacher_future', gkd_result'.of,
           Len(gkd_handled'))
  BY <1>1, PlanSync DEF SchedInv
<1>3. gkd_updates \in 0..gkd_updates
  BY SchedNumbers DEF SchedInv
<1>4. (\A k \in 1..Len(gkd_generations) : Generated(k))' /\ OwnKnowledge'
  BY <1>1, SameConstants DEF SchedInv, Generated, OwnKnowledge
<1> QED
  BY <1>1, <1>2, <1>3, <1>4 DEF SchedInv

LEMMA GenKeeps ==
    ASSUME SchedInv, Distill!AsyncGenNextBatch
    PROVE  SchedInv'
PROOF
<1> DEFINE new == [batch |-> gkd_step, weights |-> gkd_rollout_weights]
           g == Len(gkd_generations)
<1>1. /\ gkd_todo # <<>> /\ Head(gkd_todo) = "gen" /\ gkd_todo' = Tail(gkd_todo)
      /\ gkd_generations' = Append(gkd_generations, new)
      /\ gkd_rollout_future' = Len(gkd_generations')
      /\ UNCHANGED <<gkd_step, gkd_generated, gkd_teacher_future, gkd_result, gkd_padded,
                     gkd_updates, gkd_rollout_weights, gkd_global_steps, gkd_handled, gkd_lag,
                     gkd_fit, gkd_reply>>
  BY DEF Distill!AsyncGenNextBatch, Distill!Does, Distill!clientVars
<1>2. /\ Plan(gkd_step, Tail(gkd_todo), g + 1, gkd_teacher_future, gkd_result.of,
              Len(gkd_handled))
      /\ g = gkd_step /\ gkd_step \in 0..(GkdBatches - 1)
      /\ \/ gkd_step <= 1 /\ Len(gkd_handled) = 0
         \/ gkd_todo = GenYield /\ Len(gkd_handled) = gkd_step - 2
      /\ Tail(gkd_todo) # GenYield
  BY <1>1, PlanGen DEF SchedInv
<1>3. new \in [batch : Nat, weights : Nat]
  BY <1>2, GkdNumbers, SchedNumbers DEF SchedInv
<1> HIDE DEF new
<1>4. /\ gkd_generations' \in Seq([batch : Nat, weights : Nat])
      /\ Len(gkd_generations') = g + 1
      /\ gkd_generations'[g + 1] = new
      /\ \A k \in 1..g : gkd_generations'[k] = gkd_generations[k]
  BY <1>1, <1>3, AppendProperties DEF SchedInv
<1>5. ASSUME NEW k \in 1..(g + 1)
      PROVE  Generated(k)'
  <2>1. CASE k \in 1..g
    BY <2>1, <1>1, <1>4 DEF SchedInv, Generated
  <2>2. CASE k = g + 1
    <3>1. /\ gkd_generations'[k].batch = k - 1
          /\ gkd_generations'[k].weights = gkd_rollout_weights
      BY <2>2, <1>2, <1>4, GkdNumbers DEF new
    <3>2. gkd_updates - gkd_rollout_weights <= Len(gkd_handled) + 3 - k
      BY <2>2, <1>2, GkdNumbers, SchedNumbers DEF SchedInv
    <3> QED
      BY <3>1, <3>2, <1>1 DEF Generated, SchedInv
  <2> QED
    BY <2>1, <2>2, SchedNumbers
<1>6. Plan(gkd_step', gkd_todo', Len(gkd_generations'), gkd_teacher_future', gkd_result'.of,
           Len(gkd_handled'))
  BY <1>1, <1>2, <1>4
<1>7. gkd_todo' # GenYield
  BY <1>1, <1>2
<1>8. OwnKnowledge'
  BY <1>1, SameConstants DEF SchedInv, OwnKnowledge
<1>9. gkd_generated' \in 0..Len(gkd_generations')
  BY <1>1, <1>4, SchedNumbers DEF SchedInv
<1> QED
  BY <1>1, <1>4, <1>5, <1>6, <1>7, <1>8, <1>9 DEF SchedInv

LEMMA TeachKeeps ==
    ASSUME ClientInv, SchedInv, Distill!AsyncGetTeacherKnowledge
    PROVE  ClientInv' /\ SchedInv'
PROOF
<1>1. /\ gkd_todo # <<>> /\ Head(gkd_todo) = "teach" /\ gkd_todo' = Tail(gkd_todo)
      /\ gkd_teacher_future' = gkd_rollout_future
      /\ Distill!Teacher!Submit(Distill!Microbatches(gkd_rollout_future))
      /\ UNCHANGED <<gkd_step, gkd_generations, gkd_generated, gkd_rollout_future, gkd_result,
                     gkd_padded, gkd_updates, gkd_rollout_weights, gkd_global_steps,
                     gkd_handled, gkd_lag, gkd_fit>>
  BY DEF Distill!AsyncGetTeacherKnowledge, Distill!Does
<1>2. gkd_reply' = gkd_reply
  BY <1>1 DEF Distill!Teacher!Submit
<1>3. /\ Plan(gkd_step, Tail(gkd_todo), Len(gkd_generations), Len(gkd_generations),
              gkd_result.of, Len(gkd_handled))
      /\ Len(gkd_generations) \in 1..GkdBatches
      /\ Tail(gkd_todo) = GenYield => Len(gkd_handled) = 0
  <2>1. Plan(gkd_step, gkd_todo, Len(gkd_generations), gkd_teacher_future, gkd_result.of,
             Len(gkd_handled))
    BY DEF SchedInv
  <2> QED
    BY <1>1, <2>1, PlanTeach
<1>4. Distill!Microbatches(gkd_rollout_future) \in Seq(GkdRequests)
  <2>1. \A m \in GkdThreads : <<gkd_rollout_future, m>> \in GkdRequests
    BY <1>3, GkdNumbers DEF SchedInv, GkdRequests
  <2>2. Distill!Microbatches(gkd_rollout_future) \in [1..GkdWorkers -> GkdRequests]
    BY <2>1 DEF Distill!Microbatches, GkdThreads
  <2> QED
    BY <2>2, GkdNumbers
<1>5. ClientInv'
  BY <1>1, <1>4, SubmitKeeps
<1>6. gkd_todo' = GenYield => gkd_rollout_weights' = gkd_updates'
  BY <1>1, <1>3 DEF SchedInv
<1>7. (\A k \in 1..Len(gkd_generations) : Generated(k))' /\ OwnKnowledge'
  BY <1>1, <1>2, SameConstants DEF SchedInv, Generated, OwnKnowledge
<1>8. Plan(gkd_step', gkd_todo', Len(gkd_generations'), gkd_teacher_future', gkd_result'.of,
           Len(gkd_handled'))
  BY <1>1, <1>3 DEF SchedInv
<1>9. SchedInv'
  BY <1>1, <1>6, <1>7, <1>8 DEF SchedInv
<1> QED
  BY <1>5, <1>9

LEMMA GetKeeps ==
    ASSUME ClientInv, SchedInv, Distill!GetTeacherKnowledge
    PROVE  SchedInv'
PROOF
<1> DEFINE t == gkd_teacher_future
<1>1. /\ gkd_todo # <<>> /\ Head(gkd_todo) = "get" /\ gkd_todo' = Tail(gkd_todo)
      /\ gkd_result' = [of |-> t, knowledge |-> Distill!AllAnswered(t)]
      /\ gkd_padded' = IF Distill!AllAnswered(t) THEN t ELSE gkd_padded
      /\ UNCHANGED <<gkd_step, gkd_generations, gkd_generated, gkd_rollout_future,
                     gkd_teacher_future, gkd_updates, gkd_rollout_weights, gkd_global_steps,
                     gkd_handled, gkd_lag, gkd_fit, gkd_reply>>
  BY DEF Distill!GetTeacherKnowledge, Distill!Does, Distill!clientVars
<1>2. gkd_result'.of = t /\ (gkd_result'.knowledge <=> Distill!AllAnswered(t))
  BY <1>1 DEF Distill!AllAnswered
<1>3. /\ Plan(gkd_step, Tail(gkd_todo), Len(gkd_generations), t, t, Len(gkd_handled))
      /\ t \in 1..GkdBatches
      /\ Tail(gkd_todo) # GenYield
  <2>1. Plan(gkd_step, gkd_todo, Len(gkd_generations), t, gkd_result.of, Len(gkd_handled))
    BY DEF SchedInv
  <2> QED
    BY <1>1, <2>1, PlanGet
<1>4. gkd_padded' \in 0..gkd_result'.of
  BY <1>1, <1>2, SchedNumbers, GkdNumbers DEF SchedInv
<1>5. OwnKnowledge'
  <2> SUFFICES ASSUME Distill!AllAnswered(t)
               PROVE  /\ gkd_padded' = t
                      /\ \A m \in GkdThreads : gkd_reply[<<t, m>>] = <<t, m>>
    BY <1>1, <1>2, <1>3, SameConstants DEF OwnKnowledge
  <2>1. ASSUME NEW m \in GkdThreads
        PROVE  gkd_reply[<<t, m>>] = <<t, m>>
    <3>1. <<t, m>> \in GkdRequests
      BY <1>3, GkdNumbers DEF GkdRequests
    <3>2. gkd_future[<<t, m>>] = "result"
      BY DEF Distill!AllAnswered, Distill!State, GkdThreads
    <3> QED
      BY <3>1, <3>2 DEF ClientInv
  <2> QED
    BY <1>1, <2>1
<1>6. (\A k \in 1..Len(gkd_generations) : Generated(k))'
  BY <1>1 DEF SchedInv, Generated
<1>7. Plan(gkd_step', gkd_todo', Len(gkd_generations'), gkd_teacher_future', gkd_result'.of,
           Len(gkd_handled'))
  BY <1>1, <1>2, <1>3
<1> HIDE DEF t
<1> QED
  BY <1>1, <1>3, <1>4, <1>5, <1>6, <1>7 DEF SchedInv

LEMMA TrainKeeps ==
    ASSUME SchedInv, Distill!TrainOnResult
    PROVE  SchedInv'
PROOF
<1> DEFINE k == gkd_result.of
           generation == gkd_generations[k]
<1>1. /\ gkd_fit = "next" /\ gkd_todo # <<>> /\ Head(gkd_todo) = "yield"
      /\ gkd_todo' = Tail(gkd_todo)
      /\ gkd_handled' = Append(gkd_handled, generation.batch)
      /\ \/ gkd_updates' = gkd_updates + 1
            /\ gkd_lag' = gkd_lag \cup {gkd_updates - generation.weights}
         \/ gkd_updates' = gkd_updates /\ gkd_lag' = gkd_lag
      /\ gkd_global_steps' = gkd_global_steps + 1
      /\ gkd_fit' = IF gkd_global_steps >= GkdBatches THEN "returned" ELSE "next"
      /\ UNCHANGED <<gkd_step, gkd_generations, gkd_generated, gkd_rollout_future,
                     gkd_teacher_future, gkd_result, gkd_padded, gkd_rollout_weights, gkd_reply>>
  BY DEF Distill!TrainOnResult, Distill!Does, Distill!clientVars
<1>2. /\ Plan(gkd_step, Tail(gkd_todo), Len(gkd_generations), gkd_teacher_future, k,
              Len(gkd_handled) + 1)
      /\ k = Len(gkd_handled) + 1 /\ k \in 1..Len(gkd_generations)
      /\ Tail(gkd_todo) # GenYield
  <2>1. Plan(gkd_step, gkd_todo, Len(gkd_generations), gkd_teacher_future, k,
             Len(gkd_handled))
    BY DEF SchedInv
  <2> QED
    BY <1>1, <2>1, PlanYield
<1>3. /\ generation.batch = Len(gkd_handled)
      /\ generation.weights \in 0..gkd_updates
      /\ gkd_updates - generation.weights <= 2
  <2>1. Generated(k)
    BY <1>2 DEF SchedInv
  <2>2. /\ generation.batch = k - 1
        /\ generation.weights \in 0..gkd_updates
        /\ gkd_updates - generation.weights <= Len(gkd_handled) + 3 - k
    BY <2>1 DEF Generated
  <2>3. Len(gkd_handled) \in Nat /\ gkd_updates \in Nat
    BY SchedNumbers DEF SchedInv
  <2> HIDE DEF generation, k
  <2> QED
    BY <1>2, <2>2, <2>3
<1> HIDE DEF generation, k
<1>4. /\ gkd_handled' \in Seq(Nat)
      /\ Len(gkd_handled') = Len(gkd_handled) + 1
      /\ gkd_handled'[Len(gkd_handled) + 1] = Len(gkd_handled)
      /\ \A i \in 1..Len(gkd_handled) : gkd_handled'[i] = gkd_handled[i]
  BY <1>1, <1>3, AppendProperties, SchedNumbers DEF SchedInv
<1>5. gkd_updates - generation.weights \in 0..2
  <2>1. gkd_updates \in Nat
    BY SchedNumbers DEF SchedInv
  <2> QED
    BY <1>3, <2>1
<1>6. gkd_lag' \subseteq 0..2
  BY <1>1, <1>5 DEF SchedInv
<1>7. gkd_updates \in Nat /\ Len(gkd_handled) \in Nat /\ gkd_updates' \in {gkd_updates, gkd_updates + 1}
  BY <1>1, SchedNumbers DEF SchedInv
<1>8. gkd_updates' \in 0..Len(gkd_handled') /\ gkd_rollout_weights' \in 0..gkd_updates'
  BY <1>1, <1>4, <1>7 DEF SchedInv
<1>9. ASSUME NEW i \in 1..Len(gkd_generations)
      PROVE  Generated(i)'
  <2>1. /\ gkd_generations'[i] = gkd_generations[i]
        /\ gkd_generations[i].batch = i - 1
        /\ gkd_generations[i].weights \in 0..gkd_updates
        /\ gkd_updates - gkd_generations[i].weights <= Len(gkd_handled) + 3 - i
    BY <1>1 DEF SchedInv, Generated
  <2>2. gkd_generations[i].weights \in 0..gkd_updates'
    BY <2>1, <1>7
  <2>3. i \in Int /\ gkd_generations[i].weights \in Int
    BY <2>1, <1>7, SchedNumbers
  <2>4. gkd_updates' - gkd_generations[i].weights <= Len(gkd_handled') + 3 - i
    <3> DEFINE w == gkd_generations[i].weights
    <3> HIDE DEF w
    <3>1. w \in Int /\ gkd_updates - w <= Len(gkd_handled) + 3 - i
      BY <2>1, <2>3 DEF w
    <3>2. gkd_updates' - w <= Len(gkd_handled') + 3 - i
      BY <3>1, <2>3, <1>4, <1>7
    <3> QED
      BY <3>2 DEF w
  <2> QED
    BY <2>1, <2>2, <2>4 DEF Generated
<1>10. ASSUME NEW i \in 1..Len(gkd_handled')
       PROVE  gkd_handled'[i] = i - 1
  <2>1. CASE i \in 1..Len(gkd_handled)
    BY <2>1, <1>4 DEF SchedInv
  <2>2. CASE i = Len(gkd_handled) + 1
    BY <2>2, <1>4, <1>7
  <2> QED
    BY <2>1, <2>2, <1>4, <1>7
<1>11. OwnKnowledge'
  BY <1>1, SameConstants DEF SchedInv, OwnKnowledge
<1>12. Plan(gkd_step', gkd_todo', Len(gkd_generations'), gkd_teacher_future', gkd_result'.of,
            Len(gkd_handled'))
  BY <1>1, <1>2, <1>4 DEF k
<1>13. gkd_fit' = IF Len(gkd_handled') >= GkdBatches THEN "returned" ELSE "next"
  BY <1>1, <1>4 DEF SchedInv
<1> QED
  BY <1>1, <1>2, <1>4, <1>6, <1>8, <1>9, <1>10, <1>11, <1>12, <1>13 DEF SchedInv

LEMMA NextIterationKeeps ==
    ASSUME SchedInv, Distill!NextIteration
    PROVE  SchedInv'
PROOF
<1>1. /\ gkd_todo = <<>> /\ gkd_step < GkdBatches
      /\ gkd_step' = gkd_step + 1 /\ gkd_todo' = Distill!Iteration(gkd_step + 1)
      /\ UNCHANGED <<gkd_generations, gkd_generated, gkd_rollout_future, gkd_teacher_future,
                     gkd_result, gkd_padded, gkd_updates, gkd_rollout_weights,
                     gkd_global_steps, gkd_handled, gkd_lag, gkd_fit, gkd_reply>>
  BY DEF Distill!NextIteration, Distill!clientVars
<1>2. /\ Plan(gkd_step + 1, Distill!Iteration(gkd_step + 1), Len(gkd_generations),
              gkd_teacher_future, gkd_result.of, Len(gkd_handled))
      /\ Distill!Iteration(gkd_step + 1) # GenYield
  <2>1. Plan(gkd_step, <<>>, Len(gkd_generations), gkd_teacher_future, gkd_result.of,
             Len(gkd_handled))
    BY <1>1 DEF SchedInv
  <2> QED
    BY <1>1, <2>1, PlanIteration
<1>3. (\A k \in 1..Len(gkd_generations) : Generated(k))' /\ OwnKnowledge'
  BY <1>1, SameConstants DEF SchedInv, Generated, OwnKnowledge
<1> QED
  BY <1>1, <1>2, <1>3 DEF SchedInv

\* No step of the client takes back a reply.
LEMMA RepliesStay ==
    ASSUME ClientInv, Distill!Teacher!ClientNext
    PROVE  \A r \in GkdRequests : gkd_reply[r] = r => gkd_reply'[r] = r
PROOF
<1> SUFFICES ASSUME NEW t \in GkdThreads,
                    \/ Distill!Teacher!ThreadStep(t) \/ Distill!Teacher!Answer(t)
                    \/ Distill!Teacher!RecvTimeout(t)
             PROVE  \A r \in GkdRequests : gkd_reply[r] = r => gkd_reply'[r] = r
  BY DEF Distill!Teacher!ClientNext, GkdThreads
<1>1. CASE Distill!Teacher!Receive(t)
  <2>1. /\ gkd_thread[t] = "recv" /\ gkd_answers[t] # <<>>
        /\ gkd_reply' = [gkd_reply EXCEPT ![gkd_taken[t]] = Head(gkd_answers[t]).of]
    BY <1>1 DEF Distill!Teacher!Receive
  <2>2. PICK ok \in BOOLEAN : gkd_answers[t] = <<[of |-> gkd_taken[t], ok |-> ok]>>
    BY <2>1 DEF ClientInv, Awaited
  <2>3. Head(gkd_answers[t]).of = gkd_taken[t]
    BY <2>2
  <2> QED
    BY <2>1, <2>3 DEF ClientInv
<1>2. CASE ~Distill!Teacher!Receive(t)
  <2>1. gkd_reply' = gkd_reply
    BY <1>2 DEF Distill!Teacher!ThreadStep, Distill!Teacher!TakeTask, Distill!Teacher!SendRequest,
       Distill!Teacher!SendRefused, Distill!Teacher!Answer, Distill!Teacher!RecvTimeout
  <2> QED
    BY <2>1
<1> QED
  BY <1>1, <1>2

LEMMA ClientNextKeeps ==
    ASSUME ClientInv, Distill!Teacher!ClientNext
    PROVE  ClientInv'
PROOF
<1>1. PICK t \in GkdThreads : \/ Distill!Teacher!ThreadStep(t) \/ Distill!Teacher!Answer(t)
                              \/ Distill!Teacher!RecvTimeout(t)
  BY DEF Distill!Teacher!ClientNext, GkdThreads
<1> QED
  BY <1>1, TakeTaskKeeps, SendRequestKeeps, ReceiveKeeps, GivesUpKeeps, AnswerKeeps
  DEF Distill!Teacher!ThreadStep

LEMMA TeacherStepKeeps ==
    ASSUME ClientInv, SchedInv, Distill!TeacherStep
    PROVE  ClientInv' /\ SchedInv'
PROOF
<1>1. /\ Distill!Teacher!ClientNext
      /\ UNCHANGED <<gkd_step, gkd_todo, gkd_generations, gkd_generated, gkd_rollout_future,
                     gkd_teacher_future, gkd_result, gkd_padded, gkd_updates,
                     gkd_rollout_weights, gkd_global_steps, gkd_handled, gkd_lag, gkd_fit>>
  BY DEF Distill!TeacherStep, Distill!schedVars
<1>2. ClientInv'
  BY <1>1, ClientNextKeeps
<1>3. OwnKnowledge'
  <2> SUFFICES ASSUME gkd_result.knowledge
               PROVE  /\ gkd_result.of \in 1..GkdBatches
                      /\ gkd_padded = gkd_result.of
                      /\ \A m \in GkdThreads :
                             gkd_reply'[<<gkd_result.of, m>>] = <<gkd_result.of, m>>
    BY <1>1, SameConstants DEF OwnKnowledge
  <2>1. ASSUME NEW m \in GkdThreads
        PROVE  gkd_reply'[<<gkd_result.of, m>>] = <<gkd_result.of, m>>
    <3>1. gkd_reply[<<gkd_result.of, m>>] = <<gkd_result.of, m>>
      BY DEF SchedInv, OwnKnowledge
    <3>2. <<gkd_result.of, m>> \in GkdRequests
      BY GkdNumbers DEF GkdRequests, SchedInv, OwnKnowledge
    <3> QED
      BY <3>1, <3>2, <1>1, RepliesStay
  <2> QED
    BY <2>1 DEF SchedInv, OwnKnowledge
<1>4. (\A k \in 1..Len(gkd_generations) : Generated(k))'
  BY <1>1 DEF SchedInv, Generated
<1> QED
  BY <1>1, <1>2, <1>3, <1>4 DEF SchedInv

DistillInv == ClientInv /\ SchedInv

LEMMA DistillInvHolds == MCSpec => []DistillInv
PROOF
<1>1. MCInit => DistillInv
  <2>1. MCInit => Distill!Init
    BY DEF MCInit
  <2>2. Distill!Init => Distill!Teacher!ClientInit
    BY DEF Distill!Init
  <2> QED
    BY <2>1, <2>2, ClientInitially, SchedInitially DEF DistillInv
<1>2. ASSUME DistillInv, [MCNext]_allVars
      PROVE  DistillInv'
  <2>1. ClientInv /\ SchedInv
    BY <1>2 DEF DistillInv
  <2>2. CASE UNCHANGED gkdVars
    <3>1. ClientInv'
      BY <2>1, <2>2, ClientStandsStill DEF gkdVars
    <3>2. (\A k \in 1..Len(gkd_generations) : Generated(k))' /\ OwnKnowledge'
      BY <2>1, <2>2, SameConstants DEF SchedInv, Generated, OwnKnowledge, gkdVars
    <3>3. SchedInv'
      BY <2>1, <2>2, <3>2 DEF SchedInv, gkdVars
    <3> QED
      BY <3>1, <3>3 DEF DistillInv
  <2>3. CASE Distill!SchedulerStep
    <3>1. CASE Distill!AsyncGetTeacherKnowledge
      BY <2>1, <3>1, TeachKeeps DEF DistillInv
    <3>2. CASE \/ Distill!SyncRolloutWeights \/ Distill!AsyncGenNextBatch
               \/ Distill!GetTeacherKnowledge \/ Distill!TrainOnResult \/ Distill!NextIteration
      <4>1. SchedInv'
        BY <2>1, <3>2, SyncKeeps, GenKeeps, GetKeeps, TrainKeeps, NextIterationKeeps
      <4>2. UNCHANGED <<gkd_task_queue, gkd_thread, gkd_taken, gkd_socket, gkd_asked,
                        gkd_answers, gkd_future, gkd_reply>>
        BY <3>2 DEF Distill!SyncRolloutWeights, Distill!AsyncGenNextBatch,
           Distill!GetTeacherKnowledge, Distill!TrainOnResult, Distill!NextIteration,
           Distill!clientVars
      <4> QED
        BY <2>1, <4>1, <4>2, ClientStandsStill DEF DistillInv
    <3> QED
      BY <2>3, <3>1, <3>2 DEF Distill!SchedulerStep
  <2>4. CASE Distill!GenerationReturns
    <3>1. /\ gkd_generated # Len(gkd_generations) /\ gkd_generated' = gkd_generated + 1
          /\ UNCHANGED <<gkd_step, gkd_todo, gkd_generations, gkd_rollout_future,
                         gkd_teacher_future, gkd_result, gkd_padded, gkd_updates,
                         gkd_rollout_weights, gkd_global_steps, gkd_handled, gkd_lag, gkd_fit,
                         gkd_task_queue, gkd_thread, gkd_taken, gkd_socket, gkd_asked,
                         gkd_answers, gkd_future, gkd_reply>>
      BY <2>4 DEF Distill!GenerationReturns, Distill!RolloutIdle, Distill!clientVars
    <3>2. gkd_generated' \in 0..Len(gkd_generations)
      BY <2>1, <3>1, SchedNumbers DEF SchedInv
    <3>3. (\A k \in 1..Len(gkd_generations) : Generated(k))' /\ OwnKnowledge'
      BY <2>1, <3>1, SameConstants DEF SchedInv, Generated, OwnKnowledge
    <3>4. SchedInv'
      BY <2>1, <3>1, <3>2, <3>3 DEF SchedInv
    <3> QED
      BY <2>1, <3>1, <3>4, ClientStandsStill DEF DistillInv
  <2>5. CASE Distill!TeacherStep
    BY <2>1, <2>5, TeacherStepKeeps DEF DistillInv
  <2>6. Distill!Ended => UNCHANGED gkdVars
    BY DEF Distill!Ended, Distill!vars, Distill!schedVars, Distill!clientVars, gkdVars
  <2>7. Distill!Next \/ UNCHANGED gkdVars
    BY <1>2 DEF MCNext, allVars
  <2> QED
    BY <2>2, <2>3, <2>4, <2>5, <2>6, <2>7 DEF Distill!Next
<1> QED
  BY <1>1, <1>2, PTL DEF MCSpec

\* For any number of batches and teacher threads, two at least of the former, and
\* however often the service is too slow or fails: the two-step-off scheduler
\* gives fit every batch once and in order, generated by weights that lack at
\* most two updates.
THEOREM EachBatchDistilledOnce == MCSpec => []DistillsEachOnce
PROOF
<1> SUFFICES ASSUME DistillInv
             PROVE  DistillsEachOnce
  BY DistillInvHolds, PTL
<1>1. SchedInv
  BY DEF DistillInv
<1>2. Distill!TypeOK
  <2>1. /\ gkd_step \in 0..GkdBatches /\ Len(gkd_generations) \in 0..GkdBatches
        /\ Len(gkd_handled) \in 0..GkdBatches
    BY <1>1, SchedNumbers, GkdNumbers
  <2>2. gkd_generated \in 0..Len(gkd_generations) /\ gkd_rollout_weights \in 0..gkd_updates
    BY <1>1 DEF SchedInv
  <2>3. gkd_updates \in 0..GkdBatches
    <3>1. gkd_updates \in 0..Len(gkd_handled)
      BY <1>1 DEF SchedInv
    <3> QED
      BY <2>1, <3>1, GkdNumbers
  <2>5. Len(gkd_generations) <= GkdBatches + 1
    BY <2>1, GkdNumbers
  <2>6. gkd_fit \in {"next", "returned"}
    BY <1>1 DEF SchedInv
  <2>7. {gkd_rollout_future, gkd_teacher_future, gkd_padded, gkd_result.of}
            \subseteq 0..Len(gkd_generations)
    <3>1. gkd_rollout_future = Len(gkd_generations) /\ gkd_padded \in 0..gkd_result.of
      BY <1>1 DEF SchedInv
    <3> QED
      BY <1>1, <3>1, SchedNumbers
  <2>4. gkd_generations \in Seq([batch : 0..(GkdBatches - 1), weights : 0..GkdBatches])
    <3> DEFINE R == [batch : 0..(GkdBatches - 1), weights : 0..GkdBatches]
               n == Len(gkd_generations)
    <3>1. gkd_generations \in [1..n -> [batch : Nat, weights : Nat]] /\ n \in Nat
      BY <1>1, LenProperties DEF SchedInv
    <3>2. ASSUME NEW k \in 1..n
          PROVE  gkd_generations[k] \in R
      <4>1. Generated(k) /\ gkd_generations[k] \in [batch : Nat, weights : Nat]
        BY <1>1, <3>1 DEF SchedInv
      <4>2. gkd_generations[k].batch \in 0..(GkdBatches - 1)
        BY <4>1, <1>1, SchedNumbers, GkdNumbers DEF Generated
      <4>3. gkd_generations[k].weights \in 0..GkdBatches
        BY <4>1, <2>3, GkdNumbers DEF Generated
      <4> QED
        BY <4>1, <4>2, <4>3
    <3>3. gkd_generations \in [1..n -> R]
      BY <3>1, <3>2
    <3> HIDE DEF R
    <3>4. gkd_generations \in Seq(R)
      BY <3>1, <3>3
    <3> QED
      BY <3>4 DEF R
  <2> QED
    BY <2>1, <2>2, <2>3, <2>4, <2>5, <2>6, <2>7 DEF Distill!TypeOK
<1>3. Distill!EachBatchOnce
  <2>1. gkd_handled \in [1..Len(gkd_handled) -> Nat] /\ DOMAIN gkd_handled = 1..Len(gkd_handled)
    BY <1>1, LenProperties DEF SchedInv
  <2>2. \A k \in 1..Len(gkd_handled) : gkd_handled[k] = k - 1
    BY <1>1 DEF SchedInv
  <2> QED
    BY <2>1, <2>2 DEF Distill!EachBatchOnce
<1>4. Distill!LagAsNamed
  BY <1>1 DEF SchedInv, Distill!LagAsNamed
<1> QED
  BY <1>2, <1>3, <1>4 DEF DistillsEachOnce

\* The knowledge fit trains a batch with is the teacher's answer to the requests
\* of that batch, whatever the order in which the threads take requests and give
\* up on answers: a socket that still waits for an answer refuses the next request,
\* so no answer can be taken for another's.
THEOREM KnowledgeIsOfTheBatch == MCSpec => []DistillKnowledge
PROOF
<1>1. DistillInv => DistillKnowledge
  BY DEF DistillInv, SchedInv, OwnKnowledge, DistillKnowledge, Distill!KnowledgeOfBatch,
     GkdThreads
<1> QED
  BY <1>1, DistillInvHolds, PTL

-----------------------------------------------------------------------------
(* One step off policy: what is assumed of the constants *)

OffNumbers ==
    /\ OffDataLength \in Nat /\ OffTrainingSteps \in Nat \ {0}
    /\ OffCriticWarmup \in Nat /\ OffMaxCrashes \in Nat

\* The specification without its fairness.
OffSafetySpec == Off!Init /\ [][Off!Next]_offVars

-----------------------------------------------------------------------------
(* The invariant of training one step off policy *)

OffBatches == 1..OffDataLength
OffFutures == [batch : 0..OffDataLength, state : {"none", "running", "done"},
               weights : SUBSET OffBatches]

OffTyped ==
    /\ off_fit \in {"load", "start", "await", "sync", "generate", "train", "validate", "save",
                "returned", "raised"}
    /\ off_position \in 0..OffDataLength
    /\ off_global_steps \in 0..(OffTrainingSteps + 1)
    /\ off_actor_weights \in SUBSET OffBatches /\ off_rollout_weights \in SUBSET OffBatches
    /\ off_generating \in OffFutures /\ off_batch \in OffFutures
    /\ off_disk \in [steps : 0..OffTrainingSteps, weights : SUBSET OffBatches,
                     position : 0..OffDataLength]
    /\ off_crashes \in Nat

\* Steps are counted from 1 to the last, which ends the training.
OffStepsInv ==
    /\ off_fit # "returned" => off_disk.steps < OffTrainingSteps
    /\ off_fit \notin {"load", "returned"} => off_global_steps \in 1..OffTrainingSteps

\* Each step takes one batch from the data, and each crash costs at most one.
OffPositionInv ==
    /\ off_disk.position <= off_disk.steps + off_crashes + (IF off_fit = "load" THEN 0 ELSE 1)
    /\ off_fit = "start" => off_position <= off_global_steps - 1 + off_crashes
    /\ off_fit \in {"await", "sync", "generate"} =>
           off_position <= off_global_steps + off_crashes
    /\ off_fit \in {"train", "validate", "save"} =>
           off_position <= off_global_steps + 1 + off_crashes

\* Weights have one update for each step made, the rollout servers' for each
\* step before the one under way.
OffUpdatesInv ==
    /\ Cardinality(off_disk.weights) = Off!UpdatesAfter(off_disk.steps)
    /\ off_fit \in {"start", "await", "sync", "generate", "train"} =>
           Cardinality(off_actor_weights) = Off!UpdatesAfter(off_global_steps - 1)
    /\ off_fit \in {"validate", "save"} =>
           Cardinality(off_actor_weights) = Off!UpdatesAfter(off_global_steps)
    /\ off_fit \in {"generate", "train", "validate"} =>
           Cardinality(off_rollout_weights) = Off!UpdatesAfter(off_global_steps - 1)
    /\ \A v \in off_validated : v[2] = Off!UpdatesAfter(v[1] - 1)

\* The batch being generated when fit trains is the next one, the last the
\* dataloader has handed out.
OffNextIsGenerating ==
    Off!IsLastStep \/ off_generating.batch = Off!NoData
        \/ (off_generating.batch = off_position /\ off_batch.batch < off_position)

\* Batches are trained in order: what is to come is not in the weights.
OffOrderInv ==
    /\ off_disk.weights \subseteq 1..off_disk.position
    /\ off_fit = "start" => off_actor_weights \subseteq 1..off_position
    /\ (off_fit = "await" /\ off_generating.batch # Off!NoData) =>
           off_generating.batch = off_position
               /\ off_actor_weights \subseteq 1..(off_position - 1)
    /\ off_fit \in {"sync", "generate"} =>
           /\ off_batch.batch = off_position /\ off_position # 0
           /\ off_actor_weights \subseteq 1..(off_position - 1)
    /\ off_fit = "train" =>
           /\ off_batch.batch \in 1..off_position
           /\ off_actor_weights \subseteq 1..(off_batch.batch - 1)
           /\ OffNextIsGenerating
    /\ off_fit \in {"validate", "save"} =>
           /\ off_batch.batch \in 1..off_position
           /\ off_actor_weights \subseteq 1..off_batch.batch
           /\ OffNextIsGenerating

\* The actor has at most one update that weights w lack.
OffOneAhead(w) == \E b \in OffBatches : off_actor_weights \subseteq w \cup {b}

\* What is generated lacks at most the update of the step under way.
OffLagInv ==
    /\ off_lags \subseteq {0, 1}
    /\ off_generating.state = "running" => off_generating.weights = off_rollout_weights
    /\ off_fit \in {"load", "start", "sync", "generate"} => off_generating.state # "running"
    /\ off_fit \in {"start", "generate", "train"} => off_rollout_weights = off_actor_weights
    /\ (off_fit = "await" /\ off_generating.batch # Off!NoData) =>
           OffOneAhead(off_generating.weights)
    /\ off_fit \in {"sync", "generate", "train"} => OffOneAhead(off_batch.weights)
    /\ off_fit = "train" =>
           Off!IsLastStep \/ off_generating.batch = Off!NoData
               \/ off_generating.weights = off_actor_weights
    /\ off_fit \in {"validate", "save"} =>
           Off!IsLastStep \/ off_generating.batch = Off!NoData
               \/ OffOneAhead(off_generating.weights)

OffInv == OffTyped /\ OffStepsInv /\ OffPositionInv /\ OffUpdatesInv /\ OffOrderInv /\ OffLagInv

-----------------------------------------------------------------------------
(* Updates and weights *)

LEMMA OffNumbersHold == OffNumbers
PROOF
  BY ComponentsAssumption DEF OffNumbers

LEMMA OffSameCardinality == \A S : Off!Cardinality(S) = Cardinality(S)
PROOF
  BY DEF Off!Cardinality, Cardinality

LEMMA OffUpdatesCount ==
    ASSUME OffNumbers, NEW k \in Nat
    PROVE  /\ Off!UpdatesAfter(k) \in Nat /\ Off!UpdatesAfter(0) = 0
           /\ Off!UpdatesAfter(k + 1) =
                 Off!UpdatesAfter(k) + (IF OffCriticWarmup <= k + 1 THEN 1 ELSE 0)
PROOF
<1> DEFINE upto(m) == {s \in 1..m : OffCriticWarmup <= s}
<1>1. \A m \in Nat : IsFiniteSet(upto(m))
  <2> SUFFICES ASSUME NEW m \in Nat PROVE IsFiniteSet(upto(m))
    OBVIOUS
  <2>1. IsFiniteSet(1..m) /\ upto(m) \in SUBSET (1..m)
    BY FS_Interval
  <2> QED
    BY <2>1, FS_Subset
<1>2. Off!UpdatesAfter(k) \in Nat
  BY <1>1, FS_CardinalityType, OffSameCardinality DEF Off!UpdatesAfter
<1>3. Off!UpdatesAfter(0) = 0
  <2>1. upto(0) = {}
    OBVIOUS
  <2> QED
    BY <2>1, FS_EmptySet, OffSameCardinality DEF Off!UpdatesAfter
<1>4. CASE OffCriticWarmup <= k + 1
  <2>1. upto(k + 1) = upto(k) \cup {k + 1} /\ k + 1 \notin upto(k)
    BY <1>4
  <2> HIDE DEF upto
  <2>2. Cardinality(upto(k + 1)) = Cardinality(upto(k)) + 1
    BY <1>1, <2>1, FS_AddElement
  <2> QED
    BY <1>2, <1>3, <1>4, <2>2, OffSameCardinality DEF Off!UpdatesAfter, upto
<1>5. CASE ~(OffCriticWarmup <= k + 1)
  <2>1. upto(k + 1) = upto(k)
    BY <1>5
  <2> QED
    BY <1>2, <1>3, <1>5, <2>1 DEF Off!UpdatesAfter
<1> QED
  BY <1>4, <1>5

LEMMA OffWeightsFinite ==
    ASSUME OffNumbers, NEW w \in SUBSET OffBatches
    PROVE  IsFiniteSet(w) /\ Cardinality(w) \in Nat
PROOF
<1>1. IsFiniteSet(OffBatches)
  BY FS_Interval DEF OffBatches, OffNumbers
<1>2. IsFiniteSet(w)
  BY <1>1, FS_Subset
<1> QED
  BY <1>2, FS_CardinalityType

\* One update ahead is a lag of none or one.
LEMMA OffLagOfOne ==
    ASSUME OffNumbers, OffTyped, NEW w \in SUBSET OffBatches, OffOneAhead(w)
    PROVE  Cardinality(off_actor_weights \ w) \in {0, 1}
PROOF
<1>1. PICK b \in OffBatches : off_actor_weights \subseteq w \cup {b}
  BY DEF OffOneAhead
<1>2. off_actor_weights \ w = {} \/ off_actor_weights \ w = {b}
  BY <1>1
<1>3. Cardinality({}) = 0 /\ Cardinality({b}) = 1
  BY FS_EmptySet, FS_Singleton
<1> QED
  BY <1>2, <1>3

-----------------------------------------------------------------------------
(* The steps of fit *)

LEMMA OffInitHolds == ASSUME OffNumbers PROVE Off!Init => OffInv
PROOF
<1> SUFFICES ASSUME Off!Init PROVE OffInv
  OBVIOUS
<1>1. OffTyped
  BY DEF Off!Init, OffTyped, OffFutures, Off!NoFuture, Off!NoData, OffNumbers
<1>2. OffStepsInv
  BY DEF Off!Init, OffStepsInv, OffNumbers
<1>3. OffPositionInv
  BY DEF Off!Init, OffPositionInv
<1>4. OffUpdatesInv
  <2>1. Off!UpdatesAfter(0) = 0 /\ Cardinality({}) = 0
    BY OffUpdatesCount, FS_EmptySet
  <2> QED
    BY <2>1 DEF Off!Init, OffUpdatesInv
<1>5. OffOrderInv
  BY DEF Off!Init, OffOrderInv
<1>6. OffLagInv
  BY DEF Off!Init, OffLagInv, Off!NoFuture
<1> QED
  BY <1>1, <1>2, <1>3, <1>4, <1>5, <1>6 DEF OffInv

\* What StartGeneration makes of the data and the future.
LEMMA OffGenerationStarts ==
    ASSUME OffNumbers, OffTyped, Off!StartGeneration
    PROVE  /\ off_position' \in 0..OffDataLength /\ off_generating' \in OffFutures
           /\ off_position' \in {off_position, off_position + 1}
           /\ \/ off_generating'.batch = Off!NoData /\ off_generating'.state = "done"
              \/ /\ off_generating'.batch = off_position' /\ off_position' = off_position + 1
                 /\ off_generating'.state = "running"
                 /\ off_generating'.weights = off_rollout_weights
PROOF
<1>1. CASE off_position < OffDataLength
  <2>1. /\ off_position' = off_position + 1
        /\ off_generating' =
               [batch |-> off_position + 1, state |-> "running",
                weights |-> off_rollout_weights]
    BY <1>1 DEF Off!StartGeneration
  <2>2. off_position + 1 \in 0..OffDataLength
    BY <1>1 DEF OffTyped, OffNumbers
  <2> QED
    BY <2>1, <2>2 DEF OffTyped, OffFutures
<1>2. CASE ~(off_position < OffDataLength)
  BY <1>2 DEF Off!StartGeneration, OffTyped, OffFutures, Off!NoFuture, Off!NoData, OffNumbers
<1> QED
  BY <1>1, <1>2

LEMMA OffGenerationReturnsKeeps ==
    ASSUME OffNumbers, OffInv, Off!GenerationReturns
    PROVE  OffInv'
PROOF
<1>1. /\ UNCHANGED <<off_fit, off_position, off_global_steps, off_actor_weights,
                    off_rollout_weights, off_batch, off_disk,
                     off_lags, off_validated, off_crashes>>
      /\ off_generating' \in OffFutures /\ off_generating'.state = "done"
      /\ off_generating'.batch = off_generating.batch
      /\ off_generating'.weights = off_generating.weights
  BY DEF Off!GenerationReturns, OffInv, OffTyped, OffFutures
<1>2. OffTyped'
  BY <1>1 DEF OffInv, OffTyped
<1>3. OffStepsInv' /\ OffPositionInv' /\ OffUpdatesInv'
  BY <1>1 DEF OffInv, OffStepsInv, OffPositionInv, OffUpdatesInv
<1>4. OffOrderInv'
  BY <1>1 DEF OffInv, OffOrderInv, OffNextIsGenerating, Off!IsLastStep
<1>5. OffLagInv'
  BY <1>1 DEF OffInv, OffLagInv, OffOneAhead, Off!IsLastStep
<1> QED
  BY <1>2, <1>3, <1>4, <1>5 DEF OffInv

LEMMA OffLoadCheckpointKeeps ==
    ASSUME OffNumbers, OffInv, Off!LoadCheckpoint
    PROVE  OffInv'
PROOF
<1>1. /\ off_fit = "load" /\ off_fit' = "start" /\ off_global_steps' = off_disk.steps + 1
      /\ off_actor_weights' = off_disk.weights /\ off_rollout_weights' = off_disk.weights
      /\ off_position' = off_disk.position
      /\ UNCHANGED <<off_generating, off_batch, off_disk, off_lags, off_validated, off_crashes>>
  BY DEF Off!LoadCheckpoint
<1>2. /\ off_disk.steps \in 0..OffTrainingSteps /\ off_disk.weights \in SUBSET OffBatches
      /\ off_disk.position \in 0..OffDataLength /\ off_disk.steps < OffTrainingSteps
      /\ off_disk.position <= off_disk.steps + off_crashes /\ off_crashes \in Nat
  BY <1>1 DEF OffInv, OffTyped, OffStepsInv, OffPositionInv
<1>3. off_global_steps' \in 1..OffTrainingSteps /\ off_global_steps' - 1 = off_disk.steps
  BY <1>1, <1>2 DEF OffNumbers
<1>4. OffTyped'
  BY <1>1, <1>2, <1>3 DEF OffInv, OffTyped, OffNumbers
<1>5. OffStepsInv'
  BY <1>1, <1>2, <1>3 DEF OffStepsInv
<1>6. OffPositionInv'
  BY <1>1, <1>2, <1>3 DEF OffPositionInv
<1>7. OffUpdatesInv'
  BY <1>1, <1>3 DEF OffInv, OffUpdatesInv
<1>8. OffOrderInv'
  BY <1>1 DEF OffInv, OffOrderInv
<1>9. OffLagInv'
  BY <1>1 DEF OffInv, OffLagInv
<1> QED
  BY <1>4, <1>5, <1>6, <1>7, <1>8, <1>9 DEF OffInv

LEMMA OffStartFirstGenerationKeeps ==
    ASSUME OffNumbers, OffInv, Off!StartFirstGeneration
    PROVE  OffInv'
PROOF
<1>1. /\ off_fit = "start" /\ off_fit' = "await" /\ Off!StartGeneration
      /\ UNCHANGED <<off_global_steps, off_actor_weights, off_rollout_weights, off_batch,
                    off_disk, off_lags, off_validated, off_crashes>>
  BY DEF Off!StartFirstGeneration
<1>2. /\ off_position' \in 0..OffDataLength /\ off_generating' \in OffFutures
      /\ off_position' \in {off_position, off_position + 1}
      /\ \/ off_generating'.batch = Off!NoData /\ off_generating'.state = "done"
         \/ /\ off_generating'.batch = off_position' /\ off_position' = off_position + 1
            /\ off_generating'.state = "running"
            /\ off_generating'.weights = off_rollout_weights
  BY <1>1, OffGenerationStarts DEF OffInv
<1>3. /\ off_position \in 0..OffDataLength /\ off_global_steps \in 1..OffTrainingSteps
      /\ off_crashes \in Nat
      /\ off_position <= off_global_steps - 1 + off_crashes /\ off_disk.steps < OffTrainingSteps
  BY <1>1 DEF OffInv, OffTyped, OffStepsInv, OffPositionInv
<1>4. OffTyped'
  BY <1>1, <1>2 DEF OffInv, OffTyped
<1>5. OffStepsInv'
  BY <1>1, <1>3 DEF OffStepsInv
<1>6. OffPositionInv'
  <2>1. off_position' <= off_global_steps + off_crashes
    BY <1>2, <1>3, OffNumbers DEF OffNumbers
  <2> QED
    BY <1>1, <2>1 DEF OffInv, OffPositionInv
<1>7. OffUpdatesInv'
  BY <1>1 DEF OffInv, OffUpdatesInv
<1>8. OffOrderInv'
  <2>1. off_generating'.batch # Off!NoData =>
           off_generating'.batch = off_position'
               /\ off_actor_weights \subseteq 1..(off_position' - 1)
    <3>1. off_actor_weights \subseteq 1..off_position
      BY <1>1 DEF OffInv, OffOrderInv
    <3>2. off_position' = off_position + 1 => off_position' - 1 = off_position
      BY <1>3
    <3> QED
      BY <1>2, <3>1, <3>2
  <2> QED
    BY <1>1, <2>1 DEF OffInv, OffOrderInv
<1>9. OffLagInv'
  <2>1. off_generating'.batch # Off!NoData => OffOneAhead(off_generating.weights)'
    <3> SUFFICES ASSUME off_generating'.batch # Off!NoData
                 PROVE  \E b \in OffBatches :
                            off_actor_weights' \subseteq off_generating'.weights \cup {b}
      BY DEF OffOneAhead, OffBatches
    <3>1. off_generating'.weights = off_actor_weights'
      BY <1>1, <1>2 DEF OffInv, OffLagInv
    <3>2. off_position' \in OffBatches
      BY <1>2, <1>3 DEF OffBatches
    <3> QED
      BY <3>1, <3>2
  <2>2. off_generating'.state = "running" => off_generating'.weights = off_rollout_weights'
    BY <1>1, <1>2
  <2> QED
    BY <1>1, <2>1, <2>2 DEF OffInv, OffLagInv
<1> QED
  BY <1>4, <1>5, <1>6, <1>7, <1>8, <1>9 DEF OffInv

LEMMA OffAwaitBatchKeeps ==
    ASSUME OffNumbers, OffInv, Off!AwaitBatch
    PROVE  OffInv'
PROOF
<1>1. /\ off_fit = "await" /\ off_generating.state = "done" /\ off_batch' = off_generating
      /\ off_fit' = IF off_generating.batch = Off!NoData THEN "raised" ELSE "sync"
      /\ UNCHANGED <<off_position, off_global_steps, off_actor_weights, off_rollout_weights,
                    off_generating, off_disk, off_lags, off_validated, off_crashes>>
  BY DEF Off!AwaitBatch
<1>2. OffTyped'
  BY <1>1 DEF OffInv, OffTyped
<1>3. OffStepsInv'
  BY <1>1 DEF OffInv, OffStepsInv
<1>4. OffPositionInv'
  BY <1>1 DEF OffInv, OffPositionInv
<1>5. OffUpdatesInv'
  BY <1>1 DEF OffInv, OffUpdatesInv
<1>6. OffOrderInv'
  BY <1>1 DEF OffInv, OffOrderInv, Off!NoData
<1>7. OffLagInv'
  BY <1>1 DEF OffInv, OffLagInv, OffOneAhead
<1> QED
  BY <1>2, <1>3, <1>4, <1>5, <1>6, <1>7 DEF OffInv

LEMMA OffSyncRolloutWeightsKeeps ==
    ASSUME OffNumbers, OffInv, Off!SyncRolloutWeights
    PROVE  OffInv'
PROOF
<1>1. /\ off_fit = "sync" /\ off_rollout_weights' = off_actor_weights
      /\ off_fit' = (IF Off!IsLastStep THEN "train" ELSE "generate")
      /\ UNCHANGED <<off_position, off_global_steps, off_actor_weights, off_generating,
                    off_batch, off_disk, off_lags, off_validated, off_crashes>>
  BY DEF Off!SyncRolloutWeights
<1>2. Off!IsLastStep' <=> Off!IsLastStep
  BY <1>1 DEF Off!IsLastStep
<1>3. OffTyped'
  BY <1>1 DEF OffInv, OffTyped
<1>4. OffStepsInv'
  BY <1>1 DEF OffInv, OffStepsInv
<1>5. OffPositionInv'
  <2>1. off_position <= off_global_steps + off_crashes =>
            off_position <= off_global_steps + 1 + off_crashes
    BY DEF OffInv, OffTyped, OffNumbers
  <2> QED
    BY <1>1, <2>1 DEF OffInv, OffPositionInv
<1>6. OffUpdatesInv'
  BY <1>1 DEF OffInv, OffUpdatesInv
<1>7. OffOrderInv'
  <2>1. /\ off_batch.batch = off_position /\ off_position # 0
        /\ off_actor_weights \subseteq 1..(off_position - 1)
        /\ off_position \in 0..OffDataLength
    BY <1>1 DEF OffInv, OffOrderInv, OffTyped
  <2>2. off_position \in 1..off_position
    BY <2>1, OffNumbers DEF OffNumbers
  <2> QED
    BY <1>1, <1>2, <2>1, <2>2 DEF OffInv, OffOrderInv, OffNextIsGenerating
<1>8. OffLagInv'
  BY <1>1, <1>2 DEF OffInv, OffLagInv, OffOneAhead
<1> QED
  BY <1>3, <1>4, <1>5, <1>6, <1>7, <1>8 DEF OffInv

LEMMA OffGenerateNextKeeps ==
    ASSUME OffNumbers, OffInv, Off!GenerateNext
    PROVE  OffInv'
PROOF
<1>1. /\ off_fit = "generate" /\ off_fit' = "train" /\ Off!StartGeneration
      /\ UNCHANGED <<off_global_steps, off_actor_weights, off_rollout_weights, off_batch,
                    off_disk, off_lags, off_validated, off_crashes>>
  BY DEF Off!GenerateNext
<1>2. /\ off_position' \in 0..OffDataLength /\ off_generating' \in OffFutures
      /\ off_position' \in {off_position, off_position + 1}
      /\ \/ off_generating'.batch = Off!NoData /\ off_generating'.state = "done"
         \/ /\ off_generating'.batch = off_position' /\ off_position' = off_position + 1
            /\ off_generating'.state = "running"
            /\ off_generating'.weights = off_rollout_weights
  BY <1>1, OffGenerationStarts DEF OffInv
<1>3. /\ off_position \in 0..OffDataLength /\ off_global_steps \in 1..OffTrainingSteps
      /\ off_crashes \in Nat
      /\ off_position <= off_global_steps + off_crashes
      /\ off_batch.batch = off_position /\ off_position # 0
      /\ off_actor_weights \subseteq 1..(off_position - 1)
      /\ off_rollout_weights = off_actor_weights
  BY <1>1 DEF OffInv, OffTyped, OffStepsInv, OffPositionInv, OffOrderInv, OffLagInv
<1>4. OffTyped'
  BY <1>1, <1>2 DEF OffInv, OffTyped
<1>5. OffStepsInv'
  BY <1>1 DEF OffInv, OffStepsInv
<1>6. OffPositionInv'
  <2>1. off_position' <= off_global_steps + 1 + off_crashes
    BY <1>2, <1>3 DEF OffNumbers
  <2> QED
    BY <1>1, <2>1 DEF OffInv, OffPositionInv
<1>7. OffUpdatesInv'
  BY <1>1 DEF OffInv, OffUpdatesInv
<1>8. OffOrderInv'
  <2>1. off_position \in 1..off_position'
            /\ (off_position' = off_position + 1 => off_position < off_position')
    BY <1>2, <1>3 DEF OffNumbers
  <2>2. OffNextIsGenerating'
    BY <1>1, <1>2, <1>3, <2>1 DEF OffNextIsGenerating
  <2> QED
    BY <1>1, <1>3, <2>1, <2>2 DEF OffInv, OffOrderInv
<1>9. OffLagInv'
  <2>1. off_generating'.batch = Off!NoData \/ off_generating'.weights = off_actor_weights'
    BY <1>1, <1>2, <1>3
  <2>2. off_generating'.state = "running" => off_generating'.weights = off_rollout_weights'
    BY <1>1, <1>2
  <2> QED
    BY <1>1, <2>1, <2>2 DEF OffInv, OffLagInv, OffOneAhead
<1> QED
  BY <1>4, <1>5, <1>6, <1>7, <1>8, <1>9 DEF OffInv

LEMMA OffTrainKeeps ==
    ASSUME OffNumbers, OffInv, Off!Train
    PROVE  OffInv'
PROOF
<1> DEFINE b == off_batch.batch
<1>1. /\ off_fit = "train" /\ off_fit' = "validate"
      /\ off_lags' = off_lags \cup {Cardinality(off_actor_weights \ off_batch.weights)}
      /\ off_actor_weights' =
             (IF OffCriticWarmup <= off_global_steps
                THEN off_actor_weights \cup {b} ELSE off_actor_weights)
      /\ UNCHANGED <<off_position, off_global_steps, off_rollout_weights, off_generating,
                    off_batch, off_disk, off_validated, off_crashes>>
  BY OffSameCardinality DEF Off!Train
<1>2. /\ b \in 1..off_position /\ off_actor_weights \subseteq 1..(b - 1) /\ OffNextIsGenerating
      /\ OffOneAhead(off_batch.weights) /\ off_rollout_weights = off_actor_weights
      /\ off_position \in 0..OffDataLength /\ off_global_steps \in 1..OffTrainingSteps
      /\ off_actor_weights \in SUBSET OffBatches /\ off_batch.weights \in SUBSET OffBatches
  BY <1>1 DEF OffInv, OffTyped, OffStepsInv, OffOrderInv, OffLagInv, OffFutures
<1>3. b \in OffBatches /\ b \notin off_actor_weights /\ b \in Nat
  BY <1>2 DEF OffBatches, OffNumbers
<1>4. OffNextIsGenerating'
  BY <1>1, <1>2 DEF OffNextIsGenerating, Off!IsLastStep
<1>5. OffTyped'
  <2>1. off_actor_weights' \in SUBSET OffBatches
    BY <1>1, <1>2, <1>3
  <2> QED
    BY <1>1, <2>1 DEF OffInv, OffTyped, OffBatches
<1>6. OffStepsInv'
  BY <1>1 DEF OffInv, OffStepsInv
<1>7. OffPositionInv'
  BY <1>1 DEF OffInv, OffPositionInv
<1>8. OffUpdatesInv'
  <2>1. /\ off_global_steps - 1 \in Nat /\ (off_global_steps - 1) + 1 = off_global_steps
    BY <1>2 DEF OffNumbers
  <2>2. Off!UpdatesAfter(off_global_steps) =
           Off!UpdatesAfter(off_global_steps - 1)
               + (IF OffCriticWarmup <= off_global_steps THEN 1 ELSE 0)
        /\ Off!UpdatesAfter(off_global_steps - 1) \in Nat
    BY <2>1, OffUpdatesCount
  <2>3. Cardinality(off_actor_weights \cup {b}) = Cardinality(off_actor_weights) + 1
    BY <1>2, <1>3, OffWeightsFinite, FS_AddElement
  <2>4. Cardinality(off_actor_weights) = Off!UpdatesAfter(off_global_steps - 1)
    BY <1>1 DEF OffInv, OffUpdatesInv
  <2>5. Cardinality(off_actor_weights') = Off!UpdatesAfter(off_global_steps)
    BY <1>1, <2>2, <2>3, <2>4
  <2> QED
    BY <1>1, <2>5 DEF OffInv, OffUpdatesInv
<1>9. OffOrderInv'
  <2>1. off_actor_weights' \subseteq 1..b
    BY <1>1, <1>2, <1>3 DEF OffNumbers
  <2> QED
    BY <1>1, <1>2, <1>4, <2>1 DEF OffInv, OffOrderInv
<1>10. OffLagInv'
  <2>1. off_lags' \subseteq {0, 1}
    BY <1>1, <1>2, OffLagOfOne DEF OffInv, OffLagInv
  <2>2. Off!IsLastStep' \/ off_generating'.batch = Off!NoData
            \/ OffOneAhead(off_generating.weights)'
    <3>1. Off!IsLastStep \/ off_generating.batch = Off!NoData
              \/ off_generating.weights = off_actor_weights
      BY <1>1 DEF OffInv, OffLagInv
    <3>2. ASSUME off_generating.weights = off_actor_weights
          PROVE  OffOneAhead(off_generating.weights)'
      <4>1. off_actor_weights' \subseteq off_generating'.weights \cup {b}
        BY <1>1, <3>2
      <4> QED
        BY <1>3, <4>1 DEF OffOneAhead, OffBatches
    <3> QED
      BY <1>1, <3>1, <3>2 DEF Off!IsLastStep
  <2>3. off_generating'.state = "running" => off_generating'.weights = off_rollout_weights'
    BY <1>1 DEF OffInv, OffLagInv
  <2> QED
    BY <1>1, <2>1, <2>2, <2>3 DEF OffLagInv
<1> QED
  BY <1>5, <1>6, <1>7, <1>8, <1>9, <1>10 DEF OffInv

LEMMA OffValidateKeeps ==
    ASSUME OffNumbers, OffInv, Off!Validate
    PROVE  OffInv'
PROOF
<1>1. /\ off_fit = "validate" /\ off_fit' = "save"
      /\ off_validated' \in {off_validated,
                             off_validated
                                 \cup {<<off_global_steps, Cardinality(off_rollout_weights)>>}}
      /\ UNCHANGED <<off_position, off_global_steps, off_actor_weights, off_rollout_weights,
                    off_generating, off_batch, off_disk, off_lags, off_crashes>>
  BY OffSameCardinality DEF Off!Validate
<1>2. OffTyped'
  BY <1>1 DEF OffInv, OffTyped
<1>3. OffStepsInv' /\ OffPositionInv'
  BY <1>1 DEF OffInv, OffStepsInv, OffPositionInv
<1>4. OffUpdatesInv'
  <2>1. \A v \in off_validated' : v[2] = Off!UpdatesAfter(v[1] - 1)
    <3>1. Cardinality(off_rollout_weights) = Off!UpdatesAfter(off_global_steps - 1)
      BY <1>1 DEF OffInv, OffUpdatesInv
    <3>2. \A v \in off_validated : v[2] = Off!UpdatesAfter(v[1] - 1)
      BY DEF OffInv, OffUpdatesInv
    <3> DEFINE w == <<off_global_steps, Cardinality(off_rollout_weights)>>
    <3>3. w[2] = Off!UpdatesAfter(w[1] - 1)
      BY <3>1
    <3> HIDE DEF w
    <3>4. \A v \in off_validated' : v \in off_validated \/ v = w
      BY <1>1 DEF w
    <3> QED
      BY <3>2, <3>3, <3>4
  <2> QED
    BY <1>1, <2>1 DEF OffInv, OffUpdatesInv
<1>5. OffOrderInv'
  BY <1>1 DEF OffInv, OffOrderInv, OffNextIsGenerating, Off!IsLastStep
<1>6. OffLagInv'
  BY <1>1 DEF OffInv, OffLagInv, OffOneAhead, Off!IsLastStep
<1> QED
  BY <1>2, <1>3, <1>4, <1>5, <1>6 DEF OffInv

LEMMA OffEndStepKeeps ==
    ASSUME OffNumbers, OffInv, Off!EndStep
    PROVE  OffInv'
PROOF
<1>1. /\ off_fit = "save" /\ off_global_steps' = off_global_steps + 1
      /\ off_fit' = (IF Off!IsLastStep THEN "returned" ELSE "await")
      /\ \/ off_disk' = [steps |-> off_global_steps, weights |-> off_actor_weights,
                         position |-> off_position]
         \/ off_disk' = off_disk /\ ~Off!IsLastStep
      /\ UNCHANGED <<off_position, off_actor_weights, off_rollout_weights, off_generating,
                    off_batch, off_lags, off_validated, off_crashes>>
  BY DEF Off!EndStep, Off!SaveCheckpoint
<1>2. /\ off_position \in 0..OffDataLength /\ off_global_steps \in 1..OffTrainingSteps
      /\ off_crashes \in Nat
      /\ off_disk.steps < OffTrainingSteps /\ off_position <= off_global_steps + 1 + off_crashes
      /\ off_batch.batch \in 1..off_position /\ off_actor_weights \subseteq 1..off_batch.batch
      /\ OffNextIsGenerating /\ off_actor_weights \in SUBSET OffBatches
      /\ Cardinality(off_actor_weights) = Off!UpdatesAfter(off_global_steps)
  BY <1>1 DEF OffInv, OffTyped, OffStepsInv, OffPositionInv, OffOrderInv, OffUpdatesInv
<1>3. Off!IsLastStep \/ off_global_steps < OffTrainingSteps
  BY <1>2 DEF Off!IsLastStep, OffNumbers
<1>4. /\ off_global_steps' \in 0..(OffTrainingSteps + 1)
      /\ off_global_steps' - 1 = off_global_steps
      /\ ~Off!IsLastStep => off_global_steps' \in 1..OffTrainingSteps
  BY <1>1, <1>2, <1>3 DEF OffNumbers
<1>5. OffTyped'
  <2>1. off_disk' \in [steps : 0..OffTrainingSteps, weights : SUBSET OffBatches,
                   position : 0..OffDataLength]
    <3>1. off_global_steps \in 0..OffTrainingSteps
      BY <1>2 DEF OffNumbers
    <3>2. off_disk \in [steps : 0..OffTrainingSteps, weights : SUBSET OffBatches,
                    position : 0..OffDataLength]
      BY DEF OffInv, OffTyped
    <3>3. CASE off_disk' = [steps |-> off_global_steps, weights |-> off_actor_weights,
                            position |-> off_position]
      BY <1>2, <3>1, <3>3
    <3>4. CASE off_disk' = off_disk
      BY <3>2, <3>4
    <3> QED
      BY <1>1, <3>3, <3>4
  <2> QED
    BY <1>1, <1>4, <2>1 DEF OffInv, OffTyped, OffBatches
<1>6. OffStepsInv'
  <2>1. ~Off!IsLastStep => off_disk'.steps < OffTrainingSteps
    BY <1>1, <1>2, <1>3
  <2> QED
    BY <1>1, <1>4, <2>1 DEF OffStepsInv
<1>7. OffPositionInv'
  <2>1. off_disk'.position <= off_disk'.steps + off_crashes + 1
    <3>1. off_disk.position <= off_disk.steps + off_crashes + 1
      BY <1>1 DEF OffInv, OffPositionInv
    <3>2. off_position <= off_global_steps + off_crashes + 1
      BY <1>2 DEF OffNumbers
    <3> QED
      BY <1>1, <3>1, <3>2
  <2>2. off_position' <= off_global_steps' + off_crashes'
    BY <1>1, <1>2 DEF OffNumbers
  <2> QED
    BY <1>1, <2>1, <2>2 DEF OffPositionInv
<1>8. OffUpdatesInv'
  BY <1>1, <1>2, <1>4 DEF OffInv, OffUpdatesInv
<1>9. OffOrderInv'
  <2>1. off_disk'.weights \subseteq 1..off_disk'.position
    <3>1. off_actor_weights \subseteq 1..off_position
      BY <1>2 DEF OffNumbers
    <3>2. off_disk.weights \subseteq 1..off_disk.position
      BY DEF OffInv, OffOrderInv
    <3>3. CASE off_disk' = [steps |-> off_global_steps, weights |-> off_actor_weights,
                            position |-> off_position]
      BY <3>1, <3>3
    <3>4. CASE off_disk' = off_disk
      BY <3>2, <3>4
    <3> QED
      BY <1>1, <3>3, <3>4
  <2>2. off_generating.batch = off_position /\ off_batch.batch < off_position =>
            off_actor_weights \subseteq 1..(off_position - 1)
    BY <1>2 DEF OffNumbers
  <2> QED
    BY <1>1, <1>2, <2>1, <2>2 DEF OffOrderInv, OffNextIsGenerating
<1>10. OffLagInv'
  BY <1>1 DEF OffInv, OffLagInv, OffOneAhead
<1> QED
  BY <1>5, <1>6, <1>7, <1>8, <1>9, <1>10 DEF OffInv

LEMMA OffCrashKeeps ==
    ASSUME OffNumbers, OffInv, Off!Crash
    PROVE  OffInv'
PROOF
<1>1. /\ off_fit \notin {"returned", "raised", "load"} /\ off_fit' = "load"
      /\ off_crashes' = off_crashes + 1
      /\ off_generating' = Off!NoFuture /\ off_batch' = Off!NoFuture
      /\ UNCHANGED <<off_position, off_global_steps, off_actor_weights, off_rollout_weights,
                    off_disk, off_lags, off_validated>>
  BY DEF Off!Crash
<1>2. Off!NoFuture \in OffFutures /\ Off!NoFuture.state = "none"
  BY DEF Off!NoFuture, Off!NoData, OffFutures, OffNumbers
<1>3. OffTyped'
  BY <1>1, <1>2 DEF OffInv, OffTyped
<1>4. OffStepsInv'
  BY <1>1 DEF OffInv, OffStepsInv
<1>5. OffPositionInv'
  BY <1>1 DEF OffInv, OffTyped, OffPositionInv
<1>6. OffUpdatesInv' /\ OffOrderInv'
  BY <1>1 DEF OffInv, OffUpdatesInv, OffOrderInv
<1>7. OffLagInv'
  BY <1>1, <1>2 DEF OffInv, OffLagInv
<1> QED
  BY <1>3, <1>4, <1>5, <1>6, <1>7 DEF OffInv

LEMMA OffNextKeeps == ASSUME OffNumbers PROVE OffInv /\ [Off!Next]_offVars => OffInv'
PROOF
<1> SUFFICES ASSUME OffInv, [Off!Next]_offVars PROVE OffInv'
  OBVIOUS
<1>1. CASE UNCHANGED offVars
  BY <1>1 DEF offVars, OffInv, OffTyped, OffStepsInv, OffPositionInv, OffUpdatesInv,
     OffOrderInv, OffLagInv, OffNextIsGenerating, Off!IsLastStep, OffOneAhead
<1> QED
  BY <1>1, OffGenerationReturnsKeeps, OffLoadCheckpointKeeps, OffStartFirstGenerationKeeps,
     OffAwaitBatchKeeps, OffSyncRolloutWeightsKeeps, OffGenerateNextKeeps, OffTrainKeeps,
        OffValidateKeeps,
     OffEndStepKeeps, OffCrashKeeps DEF Off!Next, Off!FitStep, Off!Ended, Off!vars, offVars

LEMMA OffInvariantHolds == ASSUME OffNumbers PROVE OffSafetySpec => []OffInv
PROOF
<1>1. Off!Init => OffInv
  BY OffInitHolds
<1>2. OffInv /\ [Off!Next]_offVars => OffInv'
  BY OffNextKeeps
<1> QED
  BY <1>1, <1>2, PTL DEF OffSafetySpec

\* What the invariant implies.
LEMMA OffInvariantSuffices ==
    ASSUME OffNumbers
    PROVE  OffInv => Off!TypeOK /\ Off!OneStepOffPolicy /\ Off!OnlyInFlightLost
PROOF
<1> SUFFICES ASSUME OffInv PROVE Off!TypeOK /\ Off!OneStepOffPolicy /\ Off!OnlyInFlightLost
  OBVIOUS
<1>1. Off!TypeOK
  BY DEF OffInv, OffTyped, Off!TypeOK, OffFutures, OffBatches
<1>2. Off!OneStepOffPolicy
  BY DEF OffInv, OffLagInv, OffUpdatesInv, Off!OneStepOffPolicy
<1>3. Off!OnlyInFlightLost
  <2>1. off_disk.position <= off_disk.steps + off_crashes + 1
    <3>1. /\ off_disk.position \in Nat /\ off_disk.steps \in Nat /\ off_crashes \in Nat
          /\ off_disk.position <= off_disk.steps + off_crashes
                 \/ off_disk.position <= off_disk.steps + off_crashes + 1
      BY DEF OffInv, OffTyped, OffPositionInv, OffNumbers
    <3> QED
      BY <3>1
  <2> QED
    BY <2>1, OffSameCardinality DEF OffInv, OffUpdatesInv, Off!OnlyInFlightLost
<1> QED
  BY <1>1, <1>2, <1>3

-----------------------------------------------------------------------------
(* The theorems of training one step off policy *)

LEMMA OffSpecSafe == Off!Spec => OffSafetySpec
PROOF
<1>1. [Off!Next]_(Off!vars) => [Off!Next]_offVars
  BY DEF Off!vars, offVars
<1> QED
  BY <1>1, PTL DEF Off!Spec, OffSafetySpec

LEMMA OffPart == MCSpec => OffSafetySpec
PROOF
<1>1. MCInit => Off!Init
  BY DEF MCInit
<1>2. [MCNext]_allVars => [Off!Next]_offVars
  BY DEF MCNext, allVars
<1> QED
  BY <1>1, <1>2, PTL DEF MCSpec, OffSafetySpec

\* The trainer keeps its data, weights and checkpoint in their types.
THEOREM OneStepOffTypes == Off!Spec => []Off!TypeOK
PROOF
  BY OffSpecSafe, OffInvariantHolds, OffInvariantSuffices, OffNumbersHold, PTL

\* For any number of steps and crashes: no weights change under a batch that is
\* being generated, no batch is trained by weights that are more than one update
\* ahead of those it was generated with, and _validate of a step measures the
\* weights from before that step.
THEOREM TrainsOneStepOff == Off!Spec => []Off!OneStepOffPolicy
PROOF
  BY OffSpecSafe, OffInvariantHolds, OffInvariantSuffices, OffNumbersHold, PTL

\* A checkpoint counts the updates its weights have had, and each crash costs at
\* most the batch that was being generated when the checkpoint was written.
THEOREM CrashesLoseLittle == Off!Spec => []Off!OnlyInFlightLost
PROOF
  BY OffSpecSafe, OffInvariantHolds, OffInvariantSuffices, OffNumbersHold, PTL

\* For any number of steps and crashes: no weights change under a batch that is
\* generated with them, it is trained when they lack at most one update, and a
\* crash costs at most one batch.
THEOREM OffPolicyIsByOne == MCSpec => []OffPolicyByOne
PROOF
<1>1. OffInv => OffPolicyByOne
  BY OffInvariantSuffices, OffNumbersHold DEF OffPolicyByOne
<1>2. OffSafetySpec => []OffInv
  BY OffInvariantHolds, OffNumbersHold
<1> QED
  BY <1>1, <1>2, OffPart, PTL

-----------------------------------------------------------------------------
(* Balancing *)

BalProofs == INSTANCE SeqlenBalancingProofs WITH
    MaxItems <- BalMaxItems, MaxParts <- BalMaxParts, Workloads <- BalWorkloads,
    n <- bal_n, k <- bal_k, equal_size <- bal_equal_size, workloads <- bal_workloads,
    states_pq <- bal_states_pq, partitions <- bal_partitions

LEMMA BalNumbers == BalProofs!Numbers
PROOF
  BY ComponentsAssumption DEF BalProofs!Numbers

LEMMA BalInitSame == Balancing!Init <=> BalProofs!Init
PROOF
  BY DEF Balancing!Init, BalProofs!Init, Balancing!Items, BalProofs!Items, Balancing!Places,
         BalProofs!Places, Balancing!Chunk, BalProofs!Chunk, Balancing!Alone, BalProofs!Alone,
         Balancing!Only, BalProofs!Only, Balancing!None, BalProofs!None

LEMMA BalNextSame == Balancing!Next <=> BalProofs!Next
PROOF
<1> USE DEF Balancing!Places, BalProofs!Places
<1>1. \A s, t : Balancing!Less(s, t) <=> BalProofs!Less(s, t)
  BY DEF Balancing!Less, BalProofs!Less, Balancing!Cardinality, BalProofs!Cardinality
<1>2. \A s, t : Balancing!Before(s, t) <=> BalProofs!Before(s, t)
  BY <1>1 DEF Balancing!Before, BalProofs!Before, Balancing!Spread, BalProofs!Spread
<1>3. \A S : Balancing!First(S) = BalProofs!First(S)
  BY <1>2 DEF Balancing!First, BalProofs!First
<1>4. \A s : Balancing!Descending(s) <=> BalProofs!Descending(s)
  BY <1>1 DEF Balancing!Descending, BalProofs!Descending
<1>5. \A s : Balancing!Sortings(s) = BalProofs!Sortings(s)
  BY <1>4 DEF Balancing!Sortings, BalProofs!Sortings, Balancing!IsPermutation,
              BalProofs!IsPermutation
<1>6. \A s, t : Balancing!Pairwise(s, t) = BalProofs!Pairwise(s, t)
  BY DEF Balancing!Pairwise, BalProofs!Pairwise
<1>7. Balancing!Merge <=> BalProofs!Merge
  BY <1>3, <1>5, <1>6 DEF Balancing!Merge, BalProofs!Merge
<1>8. Balancing!Return <=> BalProofs!Return
  BY DEF Balancing!Return, BalProofs!Return
<1>9. Balancing!Returned <=> BalProofs!Returned
  BY DEF Balancing!Returned, BalProofs!Returned, Balancing!vars, BalProofs!vars
<1> QED
  BY <1>7, <1>8, <1>9 DEF Balancing!Next, BalProofs!Next

LEMMA BalPart == MCSpec => BalProofs!SafetySpec
PROOF
<1>1. MCInit => BalProofs!Init
  BY BalInitSame DEF MCInit
<1>2. [MCNext]_allVars => [BalProofs!Next]_(BalProofs!vars)
  BY BalNextSame DEF MCNext, allVars, balVars, BalProofs!vars
<1> QED
  BY <1>1, <1>2, PTL DEF MCSpec, BalProofs!SafetySpec

\* For any number of rows and partitions and any lengths: the partitions hold
\* every row once, none is empty, they are equally large where the ranks need
\* it, and no two differ by more than one row's workload.
THEOREM PartitionsAreBalanced == MCSpec => []PartitionsBalanced
PROOF
<1> USE DEF Balancing!Items, BalProofs!Items, Balancing!Places, BalProofs!Places
<1>1. BalProofs!TypeOK => Balancing!TypeOK
  BY DEF Balancing!TypeOK, BalProofs!TypeOK, Balancing!ItemSets, BalProofs!ItemSets
<1>2. BalProofs!EachItemOnce => Balancing!EachItemOnce
  BY DEF Balancing!EachItemOnce, BalProofs!EachItemOnce
<1>3. BalProofs!NoPartitionEmpty => Balancing!NoPartitionEmpty
  BY DEF Balancing!NoPartitionEmpty, BalProofs!NoPartitionEmpty
<1>4. BalProofs!EqualSizes => Balancing!EqualSizes
  BY DEF Balancing!EqualSizes, BalProofs!EqualSizes, Balancing!Cardinality,
         BalProofs!Cardinality
<1>5. BalProofs!SpreadBounded => Balancing!SpreadBounded
  BY DEF Balancing!SpreadBounded, BalProofs!SpreadBounded, Balancing!Bound, BalProofs!Bound
<1>6. BalProofs!SafetySpec =>
        []BalProofs!TypeOK /\ []BalProofs!EachItemOnce /\ []BalProofs!NoPartitionEmpty
            /\ []BalProofs!EqualSizes /\ []BalProofs!SpreadBounded
  BY BalNumbers, BalProofs!TypeInvariant, BalProofs!ExactInvariant,
     BalProofs!NonEmptyInvariant, BalProofs!EqualInvariant, BalProofs!SpreadInvariant, PTL
<1>7. Balancing!TypeOK /\ Balancing!EachItemOnce /\ Balancing!NoPartitionEmpty
        /\ Balancing!EqualSizes /\ Balancing!SpreadBounded => PartitionsBalanced
  BY DEF PartitionsBalanced
<1> QED
  BY <1>1, <1>2, <1>3, <1>4, <1>5, <1>6, <1>7, BalPart, PTL

-----------------------------------------------------------------------------
(* Checkpoint engine *)

EngProofs == INSTANCE CheckpointEngineProofs WITH
    ActorNum <- EngActors, RolloutNum <- EngRollouts, ParamNum <- EngParams,
    MaxSize <- EngMaxSize, DeviceBufferSize <- EngBufferSize, MaxSyncs <- EngMaxSyncs,
    weights_info <- eng_weights_info, overlap <- eng_overlap, assigned <- eng_assigned,
    global_buckets <- eng_global_buckets, sync <- eng_sync, main <- eng_main,
    turn <- eng_turn, gidx <- eng_gidx, joined <- eng_joined,
    memory_buffers <- eng_memory_buffers, h2d_buffer <- eng_h2d_buffer,
    broadcast_load_buffer <- eng_broadcast_load_buffer, sent <- eng_sent,
    arrived <- eng_arrived, request <- eng_request, reply <- eng_reply,
    loader <- eng_loader, loaded <- eng_loaded

LEMMA EngNumbers == EngProofs!Numbers
PROOF
  BY ComponentsAssumption DEF EngProofs!Numbers

LEMMA EngPlanSame ==
    /\ Engine!ActorRanks = EngProofs!ActorRanks /\ Engine!RolloutRanks = EngProofs!RolloutRanks
    /\ Engine!Ranks = EngProofs!Ranks /\ Engine!Params = EngProofs!Params
    /\ Engine!FirstBucket = EngProofs!FirstBucket /\ Engine!NoBucket = EngProofs!NoBucket
    /\ Engine!Nothing = EngProofs!Nothing /\ Engine!EmptyBucket = EngProofs!EmptyBucket
    /\ Engine!plan = EngProofs!plan /\ Engine!rankVars = EngProofs!rankVars
    /\ Engine!vars = EngProofs!vars
PROOF
  BY DEF Engine!ActorRanks, EngProofs!ActorRanks, Engine!RolloutRanks, EngProofs!RolloutRanks,
         Engine!Ranks, EngProofs!Ranks, Engine!Params, EngProofs!Params, Engine!FirstBucket,
         EngProofs!FirstBucket, Engine!NoBucket, EngProofs!NoBucket, Engine!Nothing,
         EngProofs!Nothing, Engine!EmptyBucket, EngProofs!EmptyBucket, Engine!plan,
         EngProofs!plan, Engine!rankVars, EngProofs!rankVars, Engine!vars, EngProofs!vars

LEMMA EngBucketsSame ==
    /\ Engine!Buckets = EngProofs!Buckets /\ Engine!BucketSize = EngProofs!BucketSize
    /\ \A b : Engine!Metas(b) = EngProofs!Metas(b)
    /\ \A b, p : Engine!Holds(b, p) <=> EngProofs!Holds(b, p)
    /\ \A b, c : Engine!Follows(b, c) <=> EngProofs!Follows(b, c)
    /\ \A b : Engine!IsLast(b) <=> EngProofs!IsLast(b)
    /\ \A k : Engine!Start(k) = EngProofs!Start(k)
    /\ \A bs, p : Engine!Place(bs, p) = EngProofs!Place(bs, p)
    /\ \A p : Engine!AssignRank(p) = EngProofs!AssignRank(p)
    /\ \A r : Engine!CachedBy(r) = EngProofs!CachedBy(r)
PROOF
<1>1. Engine!Buckets = EngProofs!Buckets
  BY EngPlanSame DEF Engine!Buckets, EngProofs!Buckets
<1>2. Engine!BucketSize = EngProofs!BucketSize
  BY EngPlanSame DEF Engine!BucketSize, EngProofs!BucketSize, Engine!Max, EngProofs!Max
<1>3. \A b : Engine!Metas(b) = EngProofs!Metas(b)
  BY DEF Engine!Metas, EngProofs!Metas
<1>4. \A b, p : Engine!Holds(b, p) <=> EngProofs!Holds(b, p)
  BY <1>3 DEF Engine!Holds, EngProofs!Holds
<1>5. \A b, c : Engine!Before(b, c) <=> EngProofs!Before(b, c)
  BY DEF Engine!Before, EngProofs!Before
<1>6. \A b, c : Engine!Follows(b, c) <=> EngProofs!Follows(b, c)
  BY <1>1, <1>5 DEF Engine!Follows, EngProofs!Follows
<1>7. \A b : Engine!IsLast(b) <=> EngProofs!IsLast(b)
  BY <1>1, <1>5 DEF Engine!IsLast, EngProofs!IsLast
<1>8. \A k : Engine!Start(k) = EngProofs!Start(k)
  BY DEF Engine!Start, EngProofs!Start
<1>9. \A b, p : Engine!Put(b, p) = EngProofs!Put(b, p)
  BY DEF Engine!Put, EngProofs!Put
<1>10. \A bs, p : Engine!Place(bs, p) = EngProofs!Place(bs, p)
  BY <1>2, <1>9, EngPlanSame DEF Engine!Place, EngProofs!Place
<1>11. \A p : Engine!AssignRank(p) = EngProofs!AssignRank(p)
  BY DEF Engine!AssignRank, EngProofs!AssignRank
<1>12. \A r : Engine!CachedBy(r) = EngProofs!CachedBy(r)
  BY EngPlanSame DEF Engine!CachedBy, EngProofs!CachedBy
<1> QED
  BY <1>1, <1>2, <1>3, <1>4, <1>6, <1>7, <1>8, <1>10, <1>11, <1>12

LEMMA EngInitSame == Engine!Init <=> EngProofs!Init
PROOF
  BY EngPlanSame DEF Engine!Init, EngProofs!Init

LEMMA EngMainSame == \A r : Engine!MainStep(r) <=> EngProofs!MainStep(r)
PROOF
<1> TAKE r
<1> USE DEF Engine!plan, EngProofs!plan, Engine!rankVars, EngProofs!rankVars, Engine!FirstBucket,
        EngProofs!FirstBucket, Engine!NoBucket, EngProofs!NoBucket, Engine!Nothing,
        EngProofs!Nothing
<1>1. Engine!BarrierOpen(r) <=> EngProofs!BarrierOpen(r)
  BY EngPlanSame DEF Engine!BarrierOpen, EngProofs!BarrierOpen
<1>2. Engine!Arrive(r) <=> EngProofs!Arrive(r)
  BY DEF Engine!Arrive, EngProofs!Arrive
<1>3. Engine!Advance(r) <=> EngProofs!Advance(r)
  BY EngBucketsSame DEF Engine!Advance, EngProofs!Advance
<1>4. Engine!RegisterCheckpoint(r) <=> EngProofs!RegisterCheckpoint(r)
  BY <1>2, EngPlanSame DEF Engine!RegisterCheckpoint, EngProofs!RegisterCheckpoint
<1>5. Engine!BeginUpdate(r) <=> EngProofs!BeginUpdate(r)
  BY <1>1, EngPlanSame DEF Engine!BeginUpdate, EngProofs!BeginUpdate
<1>6. Engine!CopyToDevice(r) <=> EngProofs!CopyToDevice(r)
  BY EngPlanSame, EngBucketsSame DEF Engine!CopyToDevice, EngProofs!CopyToDevice
<1>7. Engine!Broadcast(r) <=> EngProofs!Broadcast(r)
  BY EngPlanSame, EngBucketsSame DEF Engine!Broadcast, EngProofs!Broadcast
<1>8. \A h, p : Engine!ValueIn(r, h, p) = EngProofs!ValueIn(r, h, p)
  BY EngPlanSame, EngBucketsSame DEF Engine!ValueIn, EngProofs!ValueIn
<1>9. Engine!LoadInPlace(r) <=> EngProofs!LoadInPlace(r)
  BY <1>3, <1>8, EngPlanSame, EngBucketsSame DEF Engine!LoadInPlace, EngProofs!LoadInPlace
<1>10. Engine!ReceiveAck(r) <=> EngProofs!ReceiveAck(r)
  BY <1>2, EngPlanSame DEF Engine!ReceiveAck, EngProofs!ReceiveAck
<1>11. Engine!SendMetas(r) <=> EngProofs!SendMetas(r)
  BY <1>1, <1>3, EngPlanSame, EngBucketsSame DEF Engine!SendMetas, EngProofs!SendMetas
<1>12. Engine!SendNone(r) <=> EngProofs!SendNone(r)
  BY EngPlanSame DEF Engine!SendNone, EngProofs!SendNone
<1>13. Engine!JoinThread(r) <=> EngProofs!JoinThread(r)
  BY EngPlanSame DEF Engine!JoinThread, EngProofs!JoinThread
<1>14. Engine!EnterLastBarrier(r) <=> EngProofs!EnterLastBarrier(r)
  BY <1>2, EngPlanSame DEF Engine!EnterLastBarrier, EngProofs!EnterLastBarrier
<1>15. Engine!EndUpdate(r) <=> EngProofs!EndUpdate(r)
  BY <1>1, EngPlanSame DEF Engine!EndUpdate, EngProofs!EndUpdate
<1> QED
  BY <1>4, <1>5, <1>6, <1>7, <1>9, <1>10, <1>11, <1>12, <1>13, <1>14, <1>15
  DEF Engine!MainStep, EngProofs!MainStep

LEMMA EngNextSame == Engine!Next <=> EngProofs!Next
PROOF
<1> USE DEF Engine!plan, EngProofs!plan, Engine!rankVars, EngProofs!rankVars, Engine!FirstBucket,
        EngProofs!FirstBucket, Engine!NoBucket, EngProofs!NoBucket, Engine!Nothing,
        EngProofs!Nothing
<1>1. Engine!AssignParameter <=> EngProofs!AssignParameter
  BY EngPlanSame, EngBucketsSame DEF Engine!AssignParameter, EngProofs!AssignParameter
<1>2. \A r : Engine!LoaderStep(r) <=> EngProofs!LoaderStep(r)
  <2> TAKE r
  <2>1. Engine!ReceiveRequest(r) <=> EngProofs!ReceiveRequest(r)
    BY EngPlanSame DEF Engine!ReceiveRequest, EngProofs!ReceiveRequest
  <2>2. \A h, p : Engine!ValueIn(r, h, p) = EngProofs!ValueIn(r, h, p)
    BY EngPlanSame, EngBucketsSame DEF Engine!ValueIn, EngProofs!ValueIn
  <2>3. Engine!LoadTensor(r) <=> EngProofs!LoadTensor(r)
    BY <2>2, EngPlanSame DEF Engine!LoadTensor, EngProofs!LoadTensor
  <2>4. Engine!AnswerLoaded(r) <=> EngProofs!AnswerLoaded(r)
    BY EngPlanSame DEF Engine!AnswerLoaded, EngProofs!AnswerLoaded
  <2> QED
    BY <2>1, <2>3, <2>4 DEF Engine!LoaderStep, EngProofs!LoaderStep
<1>3. Engine!Ended <=> EngProofs!Ended
  BY EngPlanSame
  DEF Engine!Ended, EngProofs!Ended, Engine!AllSynced, EngProofs!AllSynced, Engine!vars, EngProofs!vars
<1> QED
  BY <1>1, <1>2, <1>3, EngMainSame, EngPlanSame DEF Engine!Next, EngProofs!Next

LEMMA EngPart == MCSpec => EngProofs!SafetySpec
PROOF
<1>1. MCInit => EngProofs!Init
  BY EngInitSame DEF MCInit
<1>2. [MCNext]_allVars => [EngProofs!Next]_(EngProofs!vars)
  BY EngNextSame
  DEF MCNext, allVars, engVars, EngProofs!vars, EngProofs!plan, EngProofs!rankVars
<1> QED
  BY <1>1, <1>2, PTL DEF MCSpec, EngProofs!SafetySpec

\* For any number of ranks and parameters of any size: the buckets hold every
\* parameter once and fit the buffers, and a rollout rank leaves a synchronization
\* with the values of that synchronization.
THEOREM EngineDeliversAll == MCSpec => []EngineDelivers
PROOF
<1>1. EngProofs!TypeOK => Engine!TypeOK
  BY EngPlanSame, EngBucketsSame DEF Engine!TypeOK, EngProofs!TypeOK
<1>2. EngProofs!BucketsHoldAll => Engine!BucketsHoldAll
  BY EngPlanSame, EngBucketsSame DEF Engine!BucketsHoldAll, EngProofs!BucketsHoldAll
<1>3. EngProofs!WeightsAgree => Engine!WeightsAgree
  BY EngPlanSame DEF Engine!WeightsAgree, EngProofs!WeightsAgree
<1>4. EngProofs!IInv => EngineDelivers
  BY <1>1, <1>2, <1>3, EngNumbers, EngProofs!InvariantSuffices DEF EngineDelivers
<1>5. EngProofs!SafetySpec => []EngProofs!IInv
  BY EngNumbers, EngProofs!InvariantHolds
<1> QED
  BY <1>4, <1>5, EngPart, PTL

-----------------------------------------------------------------------------
(* The batch *)

BatProofs == INSTANCE RolloutBatchProofs WITH
    Modes <- {"fit", "validate"}, PromptNum <- BatPromptNum, RolloutN <- BatRolloutN,
    ValPrompts <- BatValPrompts, NumWorkers <- BatWorkers, DpSize <- BatDpSize,
    MiniBatch <- BatMiniBatch, MaxTokenLen <- BatMaxTokenLen, Lengths <- BatLengths,
    Kinds <- BatKinds, ValKinds <- BatValKinds, MaxRows <- BatMaxRows,
    mode <- bat_mode, stage <- bat_stage, out <- bat_out, batch <- bat_batch,
    old_log_probs <- bat_old_log_probs, advantages <- bat_advantages, updates <- bat_updates,
    scores <- bat_scores

LEMMA BatNumbers == BatProofs!Numbers
PROOF
  BY ComponentsAssumption DEF BatProofs!Numbers, BatProofs!AllKinds

LEMMA BatLibrarySame ==
    /\ \A s : Batch!FlattenSeq(s) = BatProofs!FlattenSeq(s)
    /\ \A s : Batch!Reverse(s) = BatProofs!Reverse(s)
    /\ \A S : Batch!Cardinality(S) = BatProofs!Cardinality(S)
    /\ \A S : Batch!Max(S) = BatProofs!Max(S)
    /\ \A S : Batch!Min(S) = BatProofs!Min(S)
PROOF
<1>1. \A s : Batch!FlattenSeq(s) = BatProofs!FlattenSeq(s)
  BY DEF Batch!FlattenSeq, BatProofs!FlattenSeq
<1>2. \A s : Batch!Reverse(s) = BatProofs!Reverse(s)
  BY DEF Batch!Reverse, BatProofs!Reverse
<1>3. \A S : Batch!Cardinality(S) = BatProofs!Cardinality(S)
  BY DEF Batch!Cardinality, BatProofs!Cardinality
<1>4. \A S : Batch!Max(S) = BatProofs!Max(S)
  BY DEF Batch!Max, BatProofs!Max
<1>5. \A S : Batch!Min(S) = BatProofs!Min(S)
  BY DEF Batch!Min, BatProofs!Min
<1> QED
  BY <1>1, <1>2, <1>3, <1>4, <1>5

LEMMA BatSlotsSame ==
    /\ Batch!Ranks = BatProofs!Ranks /\ Batch!Slots = BatProofs!Slots
    /\ Batch!PadSize = BatProofs!PadSize /\ Batch!PaddedSlots = BatProofs!PaddedSlots
    /\ \A kind, s, len : Batch!Outputs(kind, s, len) = BatProofs!Outputs(kind, s, len)
    /\ \A s, m : Batch!Chunks(s, m) = BatProofs!Chunks(s, m)
PROOF
<1>1. Batch!Ranks = BatProofs!Ranks
  BY DEF Batch!Ranks, BatProofs!Ranks
<1>2. Batch!Slots = BatProofs!Slots
  BY DEF Batch!Slots, BatProofs!Slots
<1>3. Batch!PadSize = BatProofs!PadSize
  BY <1>2 DEF Batch!PadSize, BatProofs!PadSize
<1>4. Batch!PaddedSlots = BatProofs!PaddedSlots
  BY <1>2, <1>3 DEF Batch!PaddedSlots, BatProofs!PaddedSlots
<1>5. \A kind, s, len : Batch!Outputs(kind, s, len) = BatProofs!Outputs(kind, s, len)
  BY DEF Batch!Outputs, BatProofs!Outputs
<1>6. \A s, m : Batch!Chunks(s, m) = BatProofs!Chunks(s, m)
  BY DEF Batch!Chunks, BatProofs!Chunks
<1> QED
  BY <1>1, <1>2, <1>3, <1>4, <1>5, <1>6

LEMMA BatGenerateSame ==
    /\ Batch!Generate <=> BatProofs!Generate
    /\ Batch!Unpad <=> BatProofs!Unpad
    /\ Batch!Join <=> BatProofs!Join
    /\ Batch!PadBatch <=> BatProofs!PadBatch
PROOF
<1>1. Batch!Generate <=> BatProofs!Generate
  <2> DEFINE Slots1 == IF bat_mode = "fit" THEN Batch!Slots ELSE Batch!PaddedSlots
             Slots2 == IF bat_mode = "fit" THEN BatProofs!Slots ELSE BatProofs!PaddedSlots
             KindsOf(slots) ==
               [DOMAIN slots -> IF bat_mode = "fit" THEN BatKinds ELSE BatValKinds]
             LengthsOf(slots) == [{slots[i].uid : i \in DOMAIN slots} -> BatLengths]
             Rows1(slots, kind, len) ==
               [i \in DOMAIN slots |-> Batch!Outputs(kind[i], slots[i], len[slots[i].uid])]
             Rows2(slots, kind, len) ==
               [i \in DOMAIN slots |-> BatProofs!Outputs(kind[i], slots[i], len[slots[i].uid])]
             Returned1(rows) ==
               /\ Len(Batch!FlattenSeq(rows)) <= BatMaxRows
               /\ bat_out' = Batch!FlattenSeq(rows)
               /\ bat_stage' = IF \A c \in 1..BatWorkers :
                                      Batch!FlattenSeq(Batch!Chunks(rows, BatWorkers)[c]) # <<>>
                                  THEN IF bat_mode = "fit" THEN "join" ELSE "unpad"
                                  ELSE "raised"
             Returned2(rows) ==
               /\ Len(BatProofs!FlattenSeq(rows)) <= BatMaxRows
               /\ bat_out' = BatProofs!FlattenSeq(rows)
               /\ bat_stage' = IF \A c \in 1..BatWorkers :
                                      BatProofs!FlattenSeq(BatProofs!Chunks(rows, BatWorkers)[c])
                                        # <<>>
                                  THEN IF bat_mode = "fit" THEN "join" ELSE "unpad"
                                  ELSE "raised"
             Rest == UNCHANGED <<bat_mode, bat_batch, bat_old_log_probs, bat_advantages,
                                 bat_updates, bat_scores>>
  <2>1. Batch!Generate <=>
          /\ bat_stage = "generate"
          /\ \E kind \in KindsOf(Slots1), len \in LengthsOf(Slots1) :
               Returned1(Rows1(Slots1, kind, len))
          /\ Rest
    BY DEF Batch!Generate
  <2>2. BatProofs!Generate <=>
          /\ bat_stage = "generate"
          /\ \E kind \in KindsOf(Slots2), len \in LengthsOf(Slots2) :
               Returned2(Rows2(Slots2, kind, len))
          /\ Rest
    BY DEF BatProofs!Generate
  <2>3. Slots1 = Slots2
    BY BatSlotsSame
  <2>4. \A slots, kind, len : Rows1(slots, kind, len) = Rows2(slots, kind, len)
    BY BatSlotsSame
  <2>5. \A rows : Returned1(rows) <=> Returned2(rows)
    BY BatSlotsSame, BatLibrarySame
  <2> HIDE DEF Slots1, Slots2, KindsOf, LengthsOf, Rows1, Rows2, Returned1, Returned2, Rest
  <2> QED
    BY <2>1, <2>2, <2>3, <2>4, <2>5
<1>2. Batch!Unpad <=> BatProofs!Unpad
  BY BatSlotsSame DEF Batch!Unpad, BatProofs!Unpad, Batch!UnpadDataproto, BatProofs!UnpadDataproto
<1>3. \A i : Batch!Prompt(i) = BatProofs!Prompt(i)
  BY BatSlotsSame DEF Batch!Prompt, BatProofs!Prompt
<1>4. Batch!UnionAgrees <=> BatProofs!UnionAgrees
  BY <1>3 DEF Batch!UnionAgrees, BatProofs!UnionAgrees
<1>5. Batch!Join <=> BatProofs!Join
  BY <1>3, <1>4 DEF Batch!Join, BatProofs!Join
<1>6. \A b : Batch!Dummy(b) = BatProofs!Dummy(b)
  BY DEF Batch!Dummy, BatProofs!Dummy
<1>7. Batch!PadBatch <=> BatProofs!PadBatch
  BY <1>6 DEF Batch!PadBatch, BatProofs!PadBatch
<1> QED
  BY <1>1, <1>2, <1>5, <1>7

LEMMA BatListsSame ==
    /\ \A S, s : Batch!SumOver(S, s) = BatProofs!SumOver(S, s)
    /\ \A len : Batch!CalculateWorkload(len) = BatProofs!CalculateWorkload(len)
    /\ \A load, m, e : Batch!Partitions(load, m, e) = BatProofs!Partitions(load, m, e)
    /\ \A S, R : Batch!Sorted(S, R) = BatProofs!Sorted(S, R)
    /\ \A S : Batch!Ascending(S) = BatProofs!Ascending(S)
    /\ \A s : Batch!OddPlaces(s) = BatProofs!OddPlaces(s)
    /\ \A s : Batch!EvenPlaces(s) = BatProofs!EvenPlaces(s)
PROOF
<1>1. \A S, s : Batch!SumOver(S, s) = BatProofs!SumOver(S, s)
  BY DEF Batch!SumOver, BatProofs!SumOver
<1>2. \A len : Batch!CalculateWorkload(len) = BatProofs!CalculateWorkload(len)
  BY DEF Batch!CalculateWorkload, BatProofs!CalculateWorkload
<1>3. \A load, m, e : Batch!Partitions(load, m, e) = BatProofs!Partitions(load, m, e)
  BY DEF Batch!Partitions, BatProofs!Partitions, Batch!SumOver, BatProofs!SumOver,
         Batch!Cardinality, BatProofs!Cardinality, Batch!Max, BatProofs!Max
<1>4. \A S, R : Batch!Sorted(S, R) = BatProofs!Sorted(S, R)
  BY DEF Batch!Sorted, BatProofs!Sorted, Batch!Cardinality, BatProofs!Cardinality
<1>5. \A S : Batch!Ascending(S) = BatProofs!Ascending(S)
  BY DEF Batch!Ascending, BatProofs!Ascending
<1>6. \A s : Batch!OddPlaces(s) = BatProofs!OddPlaces(s)
  BY DEF Batch!OddPlaces, BatProofs!OddPlaces
<1>7. \A s : Batch!EvenPlaces(s) = BatProofs!EvenPlaces(s)
  BY DEF Batch!EvenPlaces, BatProofs!EvenPlaces
<1> QED
  BY <1>1, <1>2, <1>3, <1>4, <1>5, <1>6, <1>7

LEMMA BatBalanceSame == Batch!BalanceBatch <=> BatProofs!BalanceBatch
PROOF
<1> DEFINE Ones(load) ==
             {pair \in (DOMAIN bat_batch) \X (DOMAIN bat_batch) :
                \/ load[pair[1]] < load[pair[2]]
                \/ load[pair[1]] = load[pair[2]] /\ pair[1] < pair[2]}
           Sort1(S) == Batch!Sorted(S, Ones(Batch!Workload(bat_batch)))
           Sort2(S) == BatProofs!Sorted(S, Ones(BatProofs!Workload(bat_batch)))
           Ends1(s) == Batch!OddPlaces(s) \o Batch!Reverse(Batch!EvenPlaces(s))
           Ends2(s) == BatProofs!OddPlaces(s) \o BatProofs!Reverse(BatProofs!EvenPlaces(s))
           Each1(parts) == [r \in Batch!Ranks |-> Sort1(parts[r])]
           Each2(parts) == [r \in BatProofs!Ranks |-> Sort2(parts[r])]
           Order1(parts) == Batch!FlattenSeq([r \in Batch!Ranks |-> Ends1(Each1(parts)[r])])
           Order2(parts) ==
             BatProofs!FlattenSeq([r \in BatProofs!Ranks |-> Ends2(Each2(parts)[r])])
           Parts1 == Batch!Partitions(Batch!Workload(bat_batch), BatDpSize, TRUE)
           Parts2 == BatProofs!Partitions(BatProofs!Workload(bat_batch), BatDpSize, TRUE)
           Rows(order) == [i \in DOMAIN order |-> bat_batch[order[i]]]
<1>1. Batch!BalanceBatch <=>
        /\ bat_stage = "balance"
        /\ \E parts \in Parts1 : bat_batch' = Rows(Order1(parts))
        /\ bat_stage' = "log_prob"
        /\ UNCHANGED <<bat_mode, bat_out, bat_old_log_probs, bat_advantages, bat_updates,
                       bat_scores>>
  BY DEF Batch!BalanceBatch
<1>2. BatProofs!BalanceBatch <=>
        /\ bat_stage = "balance"
        /\ \E parts \in Parts2 : bat_batch' = Rows(Order2(parts))
        /\ bat_stage' = "log_prob"
        /\ UNCHANGED <<bat_mode, bat_out, bat_old_log_probs, bat_advantages, bat_updates,
                       bat_scores>>
  BY DEF BatProofs!BalanceBatch
<1>3. Batch!Workload(bat_batch) = BatProofs!Workload(bat_batch)
  BY BatListsSame DEF Batch!Workload, BatProofs!Workload
<1>4. \A S : Sort1(S) = Sort2(S)
  BY <1>3, BatListsSame
<1>5. \A s : Ends1(s) = Ends2(s)
  BY BatListsSame, BatLibrarySame
<1>6. Parts1 = Parts2
  BY <1>3, BatListsSame
<1> HIDE DEF Sort1, Sort2, Ends1, Ends2, Parts1, Parts2, Rows
<1>7. \A parts : Each1(parts) = Each2(parts)
  BY <1>4, BatSlotsSame
<1> HIDE DEF Each1, Each2
<1>8. \A parts : Order1(parts) = Order2(parts)
  <2> TAKE parts
  <2>1. [r \in Batch!Ranks |-> Ends1(Each1(parts)[r])]
          = [r \in BatProofs!Ranks |-> Ends2(Each2(parts)[r])]
    BY <1>5, <1>7, BatSlotsSame
  <2> QED
    BY <2>1, BatLibrarySame
<1> HIDE DEF Order1, Order2
<1> QED
  BY <1>1, <1>2, <1>6, <1>8

LEMMA BatMicroSame ==
    /\ \A a, b : Batch!CeilDiv(a, b) = BatProofs!CeilDiv(a, b)
    /\ \A r : Batch!Local(r) = BatProofs!Local(r)
    /\ \A rows : Batch!NumMicroBatches(rows) = BatProofs!NumMicroBatches(rows)
    /\ \A rows, m : Batch!RearrangeMicroBatches(rows, m) = BatProofs!RearrangeMicroBatches(rows, m)
    /\ \A S : Batch!PerRank(S) = BatProofs!PerRank(S)
PROOF
<1>1. \A a, b : Batch!CeilDiv(a, b) = BatProofs!CeilDiv(a, b)
  BY DEF Batch!CeilDiv, BatProofs!CeilDiv
<1>2. \A r : Batch!Local(r) = BatProofs!Local(r)
  BY DEF Batch!Local, BatProofs!Local
<1>3. \A i : Batch!Length(i) = BatProofs!Length(i)
  BY DEF Batch!Length, BatProofs!Length
<1>4. \A rows : Batch!NumMicroBatches(rows) = BatProofs!NumMicroBatches(rows)
  BY <1>1, <1>3, BatListsSame, BatLibrarySame, BatSlotsSame
  DEF Batch!NumMicroBatches, BatProofs!NumMicroBatches
<1>5. \A rows, m : Batch!RearrangeMicroBatches(rows, m) = BatProofs!RearrangeMicroBatches(rows, m)
  <2> TAKE rows, m
  <2> DEFINE load1 == [i \in DOMAIN rows |-> Batch!CalculateWorkload(Batch!Length(rows[i]))]
             load2 == [i \in DOMAIN rows |->
                         BatProofs!CalculateWorkload(BatProofs!Length(rows[i]))]
             Total1(S) == Batch!SumOver(S, load1)
             Total2(S) == BatProofs!SumOver(S, load2)
             Larger1(sets) == {pair \in sets \X sets :
                \/ Total1(pair[1]) > Total1(pair[2])
                \/ Total1(pair[1]) = Total1(pair[2]) /\ Batch!Min(pair[1]) > Batch!Min(pair[2])}
             Larger2(sets) == {pair \in sets \X sets :
                \/ Total2(pair[1]) > Total2(pair[2])
                \/ /\ Total2(pair[1]) = Total2(pair[2])
                   /\ BatProofs!Min(pair[1]) > BatProofs!Min(pair[2])}
             Order1(sets) == Batch!Sorted(sets, Larger1(sets))
             Order2(sets) == BatProofs!Sorted(sets, Larger2(sets))
             Mid1(s) == Batch!Reverse(Batch!OddPlaces(s)) \o Batch!EvenPlaces(s)
             Mid2(s) == BatProofs!Reverse(BatProofs!OddPlaces(s)) \o BatProofs!EvenPlaces(s)
             Lists1(mid) == [p \in 1..m |-> Batch!Sorted(mid[p], Batch!Ascending(mid[p]))]
             Lists2(mid) == [p \in 1..m |-> BatProofs!Sorted(mid[p], BatProofs!Ascending(mid[p]))]
             Micro1(parts) == Lists1(Mid1(Order1({parts[p] : p \in 1..m})))
             Micro2(parts) == Lists2(Mid2(Order2({parts[p] : p \in 1..m})))
  <2>1. Batch!RearrangeMicroBatches(rows, m) =
          {Micro1(parts) : parts \in Batch!Partitions(load1, m, FALSE)}
    BY DEF Batch!RearrangeMicroBatches
  <2>2. BatProofs!RearrangeMicroBatches(rows, m) =
          {Micro2(parts) : parts \in BatProofs!Partitions(load2, m, FALSE)}
    BY DEF BatProofs!RearrangeMicroBatches
  <2>3. load1 = load2
    BY <1>3, BatListsSame
  <2> HIDE DEF load1, load2
  <2>4. \A S : Total1(S) = Total2(S)
    BY <2>3, BatListsSame
  <2> HIDE DEF Total1, Total2
  <2>5. \A sets : Larger1(sets) = Larger2(sets)
    BY <2>4, BatLibrarySame
  <2> HIDE DEF Larger1, Larger2
  <2>6. \A sets : Order1(sets) = Order2(sets)
    BY <2>5, BatListsSame
  <2>7. \A s : Mid1(s) = Mid2(s)
    BY BatListsSame, BatLibrarySame
  <2>8. \A mid : Lists1(mid) = Lists2(mid)
    BY BatListsSame
  <2> HIDE DEF Order1, Order2, Mid1, Mid2, Lists1, Lists2
  <2>9. \A parts : Micro1(parts) = Micro2(parts)
    BY <2>6, <2>7, <2>8
  <2>10. Batch!Partitions(load1, m, FALSE) = BatProofs!Partitions(load2, m, FALSE)
    BY <2>3, BatListsSame
  <2> HIDE DEF Micro1, Micro2
  <2> QED
    BY <2>1, <2>2, <2>9, <2>10
<1>6. \A S : Batch!PerRank(S) = BatProofs!PerRank(S)
  BY BatSlotsSame DEF Batch!PerRank, BatProofs!PerRank
<1> QED
  BY <1>1, <1>2, <1>4, <1>5, <1>6

LEMMA BatTrainSame ==
    /\ Batch!ComputeOldLogProb <=> BatProofs!ComputeOldLogProb
    /\ Batch!ComputeAdvantage <=> BatProofs!ComputeAdvantage
    /\ Batch!UpdateMiniBatch <=> BatProofs!UpdateMiniBatch
PROOF
<1>1. \A s : Batch!ReverseIdx(s) = BatProofs!ReverseIdx(s)
  BY DEF Batch!ReverseIdx, BatProofs!ReverseIdx
<1>2. \A s, t : Batch!RestoreDynamicBatch(s, t) = BatProofs!RestoreDynamicBatch(s, t)
  BY <1>1 DEF Batch!RestoreDynamicBatch, BatProofs!RestoreDynamicBatch
<1>3. \A rows, m : Batch!LogProbs(rows, m) = BatProofs!LogProbs(rows, m)
  BY <1>2, BatMicroSame, BatLibrarySame DEF Batch!LogProbs, BatProofs!LogProbs
<1>4. Batch!ComputeOldLogProb <=> BatProofs!ComputeOldLogProb
  BY <1>3, BatMicroSame, BatLibrarySame, BatSlotsSame
  DEF Batch!ComputeOldLogProb, BatProofs!ComputeOldLogProb
<1>5. \A i : Batch!GroupKey(i) = BatProofs!GroupKey(i)
  BY DEF Batch!GroupKey, BatProofs!GroupKey
<1>6. \A key : Batch!Counted(key) = BatProofs!Counted(key)
  BY <1>5 DEF Batch!Counted, BatProofs!Counted
<1>7. Batch!ComputeAdvantage <=> BatProofs!ComputeAdvantage
  BY <1>5, <1>6 DEF Batch!ComputeAdvantage, BatProofs!ComputeAdvantage
<1>8. \A rows : Batch!MiniBatches(rows) = BatProofs!MiniBatches(rows)
  BY BatMicroSame, BatLibrarySame DEF Batch!MiniBatches, BatProofs!MiniBatches
<1>9. \A rows, m : Batch!MicroBatched(rows, m) = BatProofs!MicroBatched(rows, m)
  BY BatMicroSame, BatLibrarySame DEF Batch!MicroBatched, BatProofs!MicroBatched
<1>10. Batch!UpdateMiniBatch <=> BatProofs!UpdateMiniBatch
  <2> DEFINE step == Len(bat_updates) + 1
             mini1 == [r \in Batch!Ranks |-> Batch!MiniBatches(Batch!Local(r))[step]]
             mini2 == [r \in BatProofs!Ranks |-> BatProofs!MiniBatches(BatProofs!Local(r))[step]]
             By1(mini) == Batch!PerRank(
               [r \in Batch!Ranks |-> Batch!MicroBatched(mini[r], Batch!NumMicroBatches(mini))])
             By2(mini) == BatProofs!PerRank(
               [r \in BatProofs!Ranks |->
                    BatProofs!MicroBatched(mini[r], BatProofs!NumMicroBatches(mini))])
             Last1 == step = Len(Batch!MiniBatches(Batch!Local(1)))
             Last2 == step = Len(BatProofs!MiniBatches(BatProofs!Local(1)))
  <2>1. Batch!UpdateMiniBatch <=>
          /\ bat_stage = "update"
          /\ \E taken \in By1(mini1) :
               /\ bat_updates' = Append(bat_updates, taken)
               /\ bat_stage' = IF Last1 THEN "done" ELSE bat_stage
          /\ UNCHANGED <<bat_mode, bat_out, bat_batch, bat_old_log_probs, bat_advantages,
                         bat_scores>>
    BY DEF Batch!UpdateMiniBatch
  <2>2. BatProofs!UpdateMiniBatch <=>
          /\ bat_stage = "update"
          /\ \E taken \in By2(mini2) :
               /\ bat_updates' = Append(bat_updates, taken)
               /\ bat_stage' = IF Last2 THEN "done" ELSE bat_stage
          /\ UNCHANGED <<bat_mode, bat_out, bat_batch, bat_old_log_probs, bat_advantages,
                         bat_scores>>
    BY DEF BatProofs!UpdateMiniBatch
  <2>3. mini1 = mini2
    BY <1>8, BatMicroSame, BatSlotsSame
  <2>4. Last1 <=> Last2
    BY <1>8, BatMicroSame
  <2> HIDE DEF mini1, mini2, Last1, Last2
  <2>5. \A mini : By1(mini) = By2(mini)
    <3> TAKE mini
    <3>1. [r \in Batch!Ranks |-> Batch!MicroBatched(mini[r], Batch!NumMicroBatches(mini))]
            = [r \in BatProofs!Ranks |->
                    BatProofs!MicroBatched(mini[r], BatProofs!NumMicroBatches(mini))]
      BY <1>9, BatMicroSame, BatSlotsSame
    <3> QED
      BY <3>1, BatMicroSame
  <2> HIDE DEF By1, By2
  <2> QED
    BY <2>1, <2>2, <2>3, <2>4, <2>5, BatSlotsSame
<1> QED
  BY <1>4, <1>7, <1>10

LEMMA BatScoreSame == Batch!ScoreRollouts <=> BatProofs!ScoreRollouts
PROOF
  BY BatListsSame DEF Batch!ScoreRollouts, BatProofs!ScoreRollouts

LEMMA BatPart == MCSpec => BatProofs!Spec
PROOF
<1>1. Batch!Init => BatProofs!Init
  BY DEF Batch!Init, BatProofs!Init
<1>2. Batch!Ended => BatProofs!Ended
  BY DEF Batch!Ended, BatProofs!Ended, Batch!vars, BatProofs!vars
<1>3. Batch!Next => BatProofs!Next
  BY <1>2, BatGenerateSame, BatBalanceSame, BatTrainSame, BatScoreSame
  DEF Batch!Next, BatProofs!Next
<1>4. MCInit => BatProofs!Init
  BY <1>1 DEF MCInit
<1>5. [MCNext]_allVars => [BatProofs!Next]_(BatProofs!vars)
  BY <1>3 DEF MCNext, allVars, batVars, BatProofs!vars
<1> QED
  BY <1>4, <1>5, PTL DEF MCSpec, BatProofs!Spec

\* For any numbers of prompts, rollouts and workers, and whatever number of rows the
\* rollouts return: a row is joined to the prompt it was generated from.
THEOREM EveryRowMeetsItsPrompt == MCSpec => []RowsOfPrompts
PROOF
<1>1. BatProofs!TypeOK => Batch!TypeOK
  BY BatLibrarySame, BatSlotsSame DEF BatProofs!TypeOK, Batch!TypeOK, BatProofs!Rows, Batch!Rows
<1>2. BatProofs!JoinedToOwnPrompt => Batch!JoinedToOwnPrompt
  BY BatSlotsSame
  DEF BatProofs!JoinedToOwnPrompt, Batch!JoinedToOwnPrompt, BatProofs!Rows, Batch!Rows
<1>3. BatProofs!Spec => []BatProofs!TypeOK
  BY BatNumbers, BatProofs!TypesKept
<1>4. BatProofs!Spec => []BatProofs!JoinedToOwnPrompt
  BY BatNumbers, BatProofs!RowsOfPrompts
<1>5. BatProofs!TypeOK /\ BatProofs!JoinedToOwnPrompt => RowsOfPrompts
  BY <1>1, <1>2 DEF RowsOfPrompts
<1> QED
  BY <1>3, <1>4, <1>5, BatPart, PTL

\* For any numbers of ranks, rows and tokens: after balancing and micro-batches of
\* any composition the log probability in the place of a row is that row's.
THEOREM LogProbsOfTheirRows == MCSpec => []LogProbsAligned
PROOF
<1>1. BatProofs!LogProbsAligned => LogProbsAligned
  BY DEF LogProbsAligned, BatProofs!LogProbsAligned, Batch!LogProbsAligned
<1>2. BatProofs!Spec => []BatProofs!LogProbsAligned
  BY BatNumbers, BatProofs!OwnLogProbs
<1> QED
  BY <1>1, <1>2, BatPart, PTL

\* Every rollout of a prompt and role is compared with the others exactly once,
\* however many rows it has returned and wherever balancing has put them.
THEOREM RolloutsAreCompared == MCSpec => []GroupOfRollouts
PROOF
<1>1. BatProofs!GroupOfRollouts => GroupOfRollouts
  BY BatLibrarySame DEF GroupOfRollouts, BatProofs!GroupOfRollouts, Batch!GroupOfRollouts,
     BatProofs!Rows, Batch!Rows
<1>2. BatProofs!Spec => []BatProofs!GroupOfRollouts
  BY BatNumbers, BatProofs!GroupsAre
<1> QED
  BY <1>1, <1>2, BatPart, PTL

\* For any numbers of ranks and sizes of mini-batches: every generated row is in one
\* micro-batch of one mini-batch of one rank, the ranks keep step, and fewer dummies
\* than there are ranks take part.
THEOREM EachRowTrainedOnce == MCSpec => []UpdatesEachRowOnce
PROOF
<1>1. BatProofs!UpdatesEachRowOnce => UpdatesEachRowOnce
  BY BatLibrarySame, BatSlotsSame
  DEF UpdatesEachRowOnce, BatProofs!UpdatesEachRowOnce, Batch!UpdatesEachRowOnce,
      BatProofs!Rows, Batch!Rows
<1>2. BatProofs!Spec => []BatProofs!UpdatesEachRowOnce
  BY BatNumbers, BatProofs!EachRowUpdatedOnce
<1> QED
  BY <1>1, <1>2, BatPart, PTL

\* When every validated rollout returns rows of its own, one at least, each slot has
\* its score, in the order of the slots and from all of its rows, for any number of
\* workers the slots are padded to.  (A rollout that returns nothing makes unpadding
\* drop rows of another slot; copies under a gen_uid of their own are for training.)
THEOREM EverySlotScored ==
    BatValKinds \subseteq {"single", "characters", "uneven"} => (MCSpec => []ScorePerSlot)
PROOF
<1> SUFFICES ASSUME BatValKinds \subseteq {"single", "characters", "uneven"}
             PROVE  MCSpec => []ScorePerSlot
  OBVIOUS
<1>1. BatProofs!ScorePerSlot => ScorePerSlot
  BY BatSlotsSame DEF ScorePerSlot, BatProofs!ScorePerSlot, Batch!ScorePerSlot,
     BatProofs!Joined, Batch!Joined
<1>2. BatProofs!Spec => []BatProofs!ScorePerSlot
  BY BatNumbers, BatProofs!ScoreForSlot DEF BatProofs!OwnKinds
<1> QED
  BY <1>1, <1>2, BatPart, PTL
=============================================================================
