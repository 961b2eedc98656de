--------------------------- MODULE FullyAsyncProofs ---------------------------
(***************************************************************************)
(* Proofs about trainer, message queue and Rollouter together, for any     *)
(* amount of data, quota, batch and concurrency, in six parts.             *)
(*                                                                         *)
(* Versions: those of the three stay in order, a Rollouter is told of a    *)
(* version only when it has its weights, what it generates is labelled     *)
(* with the version of those, and validation results are logged.           *)
(* Samples: the parts are type-correct, and every sample fed is in one     *)
(* place or accounted for as lost.                                         *)
(* Quota: with staleness_threshold 0, generation keeps to the quota of a   *)
(* parameter version and training is on-policy.                            *)
(* Interruption: without partial rollout, or with staleness_threshold 0,   *)
(* no generation is interrupted.                                           *)
(* The end: the processor never stops with an exception of its own, and,   *)
(* with staleness_threshold 0 and nothing failed, every full batch of the  *)
(* data is trained on.                                                     *)
(* Progress: nobody waits for a sample that is not coming.                 *)
(***************************************************************************)
EXTENDS FullyAsync, SequenceTheorems, FiniteSetTheorems, TLAPS

Coroutines == {"feed", "main", "monitor", "pause", "update", "resume"}

UpdatePending == pc["update"] \in {"called", "lock"}

\* Program counters and versions have their types.
VTypes ==
    /\ pc \in [Coroutines -> Labels]
    /\ after_sync \in {"log", "final_validate"}
    /\ train_version \in Nat
    /\ mq_version \in Nat
    /\ current_param_version \in Nat
    /\ param_version \in [Samples -> Nat]

\* The trainer is ahead of the queue from the end of a version to the pause.
TrainerAhead ==
    train_version = IF trainer \in {"wait_last_valid", "sync_pause"}
                    THEN mq_version + 1 ELSE mq_version

\* The Rollouter is behind the queue from the transfer to its update.
RollouterBehind ==
    mq_version = IF trainer = "sync_transfer" \/ UpdatePending
                 THEN current_param_version + 1 ELSE current_param_version

WeightsCurrent == weights = IF trainer = "sync_transfer" THEN Loading ELSE mq_version

OneSyncAtATime == trainer \in {"sync_pause", "sync_transfer"} => LastUpdateDone

LabelsReached == \A s \in Samples : param_version[s] <= current_param_version

VInv ==
    /\ VTypes
    /\ TrainerAhead
    /\ RollouterBehind
    /\ WeightsCurrent
    /\ OneSyncAtATime
    /\ LabelsReached

\* What a step must leave alone to keep VInv for free.
Quiet ==
    /\ UNCHANGED <<mq_version, current_param_version, weights, param_version, trainVars>>
    /\ pc' \in [Coroutines -> Labels]
    /\ pc'["update"] = pc["update"]
    /\ pc'["resume"] = pc["resume"]

-----------------------------------------------------------------------------

\* The state after the first synchronization.
LEMMA VInitEstablishes == Init => VInv
PROOF
<1> SUFFICES ASSUME Init PROVE VInv
  OBVIOUS
<1>1. /\ pc \in [Coroutines -> Labels]
      /\ pc["update"] = "idle"
  BY DEF Init, RollInit, Coroutines, Labels
<1>2. /\ param_version \in [Samples -> Nat]
      /\ \A s \in Samples : param_version[s] = 0
  BY DEF Init, RollInit
<1>3. /\ mq_version = 0 /\ current_param_version = 0 /\ weights = 0
      /\ trainer = "start" /\ after_sync = "log" /\ train_version = 0
  BY DEF Init, RollInit
<1> QED
  BY <1>1, <1>2, <1>3 DEF VInv, VTypes, TrainerAhead, RollouterBehind, WeightsCurrent,
     OneSyncAtATime, LabelsReached, UpdatePending

\* A quiet step keeps the invariant.
LEMMA QuietPreserves == VInv /\ Quiet => VInv'
PROOF
  BY DEF Quiet, trainVars, VInv, VTypes, TrainerAhead, RollouterBehind, WeightsCurrent,
         OneSyncAtATime, LabelsReached, LastUpdateDone, UpdatePending

\* The processor moves no program counter but its own.
LEMMA ProcessorQuiet ==
    ASSUME VInv, ProcessorStep, UNCHANGED trainVars
    PROVE  Quiet
PROOF
<1>1. UNCHANGED <<pc, mqVars, versionVars, param_version>>
  <2>1. CASE ProcPause \/ ProcPauseLocked \/ ProcTake \/ ProcGot
    BY <2>1 DEF ProcPause, ProcPauseLocked, ProcTake, ProcGot, TakePending,
                taskVars, mqVars, versionVars
  <2>2. ASSUME NEW loop \in DrainLoops,
               ProcDrainTest(loop) \/ ProcDrainLocked(loop) \/ ProcDrainWake(loop)
        PROVE  UNCHANGED <<pc, mqVars, versionVars, param_version>>
    BY <2>2 DEF ProcDrainTest, ProcDrainLocked, ProcDrainWake, taskVars
  <2>3. ASSUME NEW where \in {"sleep", "submit"},
               ProcEnter(where) \/ ProcEnterLocked(where) \/ ProcWoken(where)
        PROVE  UNCHANGED <<pc, mqVars, versionVars, param_version>>
    BY <2>3 DEF ProcEnter, ProcEnterLocked, ProcWoken, taskVars
  <2> QED
    BY <2>1, <2>2, <2>3 DEF ProcessorStep
<1> QED
  BY <1>1 DEF Quiet, mqVars, versionVars, VInv, VTypes

\* A task only labels its own sample, with the current version.
LEMMA TaskPreserves ==
    ASSUME VInv, NEW s \in Samples, TaskReturns(s) \/ TaskFails(s), UNCHANGED trainVars
    PROVE  VInv'
PROOF
<1>1. CASE TaskGenerated(s)
  <2>1. /\ UNCHANGED <<pc, mqVars, versionVars, trainVars>>
        /\ param_version' = [param_version EXCEPT ![s] = current_param_version]
    BY <1>1 DEF TaskGenerated
  <2>2. param_version' \in [Samples -> Nat] /\ LabelsReached'
    BY <2>1 DEF VInv, VTypes, LabelsReached, versionVars
  <2> QED
    BY <2>1, <2>2 DEF mqVars, versionVars, trainVars, VInv, VTypes, TrainerAhead,
       RollouterBehind, WeightsCurrent, OneSyncAtATime, LastUpdateDone, UpdatePending
<1>2. CASE TaskPut(s)
  <2>1. Quiet
    BY <1>2 DEF TaskPut, MQ!PutSample, versionVars, Quiet, VInv, VTypes
  <2> QED
    BY <2>1, QuietPreserves
<1>3. CASE TaskCancelled(s) \/ TaskFails(s)
  <2>1. Quiet
    BY <1>3 DEF TaskCancelled, TaskFails, mqVars, versionVars, Quiet, VInv, VTypes
  <2> QED
    BY <2>1, QuietPreserves
<1> QED
  BY <1>1, <1>2, <1>3 DEF TaskReturns

\* The feed, the monitor and the main coroutine leave the calls alone.
LEMMA CoroutineQuiet ==
    ASSUME VInv, FeedSamples \/ MonitorStep \/ MainStep, UNCHANGED trainVars
    PROVE  Quiet
PROOF
<1>1. UNCHANGED <<mq_version, current_param_version, weights, param_version>>
  BY DEF FeedSamples, MonitorStep, MonitorWake, MonitorLocked, MainStep, MainFinish, MainStop,
         MQ!PutSample, mqVars, versionVars, taskVars
<1>2. \/ pc' = pc
      \/ \E c \in {"feed", "main", "monitor"}, label \in Labels : pc' = [pc EXCEPT ![c] = label]
  <2>1. CASE FeedSamples
    BY <2>1 DEF FeedSamples, Goto, Labels
  <2>2. CASE MonitorWake
    BY <2>2 DEF MonitorWake, Goto, Labels
  <2>3. CASE MonitorLocked
    BY <2>3 DEF MonitorLocked, Goto, Labels
  <2>4. CASE MainStep
    BY <2>4 DEF MainStep, MainFinish, MainStop, Goto, Labels
  <2> QED
    BY <2>1, <2>2, <2>3, <2>4 DEF MonitorStep
<1> QED
  BY <1>1, <1>2 DEF Quiet, VInv, VTypes, Coroutines

-----------------------------------------------------------------------------
(* The calls *)

\* pause, and any call that queues for the lock.
LEMMA PausePreserves ==
    ASSUME VInv, UNCHANGED trainVars,
           \/ PauseBegin \/ PauseCancel \/ PauseGathered \/ PauseEnd
           \/ \E c \in {"pause", "update", "resume", "main"} : CallQueues(c)
    PROVE  VInv'
PROOF
<1>1. CASE PauseBegin \/ PauseCancel \/ PauseGathered \/ PauseEnd
  <2>1. UNCHANGED <<mq_version, current_param_version, weights, param_version>>
    BY <1>1 DEF PauseBegin, PauseCancel, PauseGathered, PauseEnd, mqVars, versionVars, taskVars
  <2>2. \E label \in Labels : pc' = [pc EXCEPT !["pause"] = label]
    BY <1>1 DEF PauseBegin, PauseCancel, PauseGathered, PauseEnd, Goto, GatherOrFinish, Labels
  <2>3. Quiet
    BY <2>1, <2>2 DEF Quiet, VInv, VTypes, Coroutines
  <2> QED
    BY <2>3, QuietPreserves
<1>2. ASSUME NEW c \in {"pause", "update", "resume", "main"}, CallQueues(c)
      PROVE  VInv'
  <2>1. /\ UNCHANGED <<mq_version, current_param_version, weights, param_version, trainVars>>
        /\ pc[c] = "called"
        /\ pc' = [pc EXCEPT ![c] = "lock"]
    BY <1>2 DEF CallQueues, Goto, mqVars, versionVars, taskVars
  <2>2. /\ pc' \in [Coroutines -> Labels]
        /\ UpdatePending' <=> UpdatePending
        /\ LastUpdateDone' <=> LastUpdateDone
    BY <2>1 DEF VInv, VTypes, Coroutines, Labels, UpdatePending, LastUpdateDone
  <2> QED
    BY <2>1, <2>2 DEF trainVars, VInv, VTypes, TrainerAhead, RollouterBehind, WeightsCurrent,
       OneSyncAtATime, LabelsReached
<1> QED
  BY <1>1, <1>2

\* update_param_version catches up with the queue.
LEMMA UpdatePreserves ==
    ASSUME VInv, UpdateBegin \/ UpdateEnd, UNCHANGED trainVars
    PROVE  VInv'
PROOF
<1>1. CASE UpdateBegin
  <2>1. /\ UpdatePending
        /\ UNCHANGED <<mq_version, weights, param_version>>
        /\ current_param_version' = weights
        /\ pc' = [pc EXCEPT !["update"] = "size"]
    BY <1>1 DEF UpdateBegin, Entered, UpdatePending, Goto, mqVars, taskVars
  <2>2. trainer # "sync_transfer" /\ trainer # "sync_pause"
    BY <2>1 DEF VInv, OneSyncAtATime, LastUpdateDone, UpdatePending
  <2>3. weights = mq_version /\ mq_version = current_param_version + 1
    BY <2>1, <2>2 DEF VInv, WeightsCurrent, RollouterBehind
  <2>4. VTypes' /\ ~UpdatePending'
    BY <2>1, <2>3 DEF trainVars, VInv, VTypes, UpdatePending, Coroutines, Labels
  <2>5. LabelsReached'
    BY <2>1, <2>3 DEF VInv, VTypes, LabelsReached
  <2> QED
    BY <2>1, <2>2, <2>3, <2>4, <2>5
    DEF trainVars, VInv, TrainerAhead, RollouterBehind, WeightsCurrent, OneSyncAtATime
<1>2. CASE UpdateEnd
  <2>1. /\ pc["update"] = "size"
        /\ UNCHANGED <<mq_version, current_param_version, weights, param_version>>
        /\ pc' = [pc EXCEPT !["update"] = "idle"]
    BY <1>2 DEF UpdateEnd, MQ!PutValidate, Goto, versionVars, taskVars
  <2>2. /\ pc' \in [Coroutines -> Labels]
        /\ ~UpdatePending /\ ~UpdatePending'
        /\ ~LastUpdateDone
    BY <2>1 DEF VInv, VTypes, Coroutines, Labels, UpdatePending, LastUpdateDone
  <2> QED
    BY <2>1, <2>2 DEF trainVars, VInv, VTypes, TrainerAhead, RollouterBehind, WeightsCurrent,
       OneSyncAtATime, LabelsReached
<1> QED
  BY <1>1, <1>2

\* resume moves no version, and is never outstanding during a synchronization.
LEMMA ResumePreserves ==
    ASSUME VInv, ResumeBegin \/ ResumeEnd, UNCHANGED trainVars
    PROVE  VInv'
PROOF
<1>1. /\ UNCHANGED <<mq_version, current_param_version, weights, param_version>>
      /\ pc["resume"] \in {"called", "lock", "servers"}
      /\ \E label \in {"idle", "servers"} : pc' = [pc EXCEPT !["resume"] = label]
  BY DEF ResumeBegin, ResumeEnd, ResumeGeneration, Entered, Goto, mqVars, versionVars, taskVars
<1>2. /\ pc' \in [Coroutines -> Labels]
      /\ UpdatePending' <=> UpdatePending
      /\ ~LastUpdateDone
  BY <1>1 DEF VInv, VTypes, Coroutines, Labels, UpdatePending, LastUpdateDone
<1> QED
  BY <1>1, <1>2 DEF trainVars, VInv, VTypes, TrainerAhead, RollouterBehind, WeightsCurrent,
     OneSyncAtATime, LabelsReached

-----------------------------------------------------------------------------
(* The trainer *)

\* The trainer between two synchronizations, and the end of a version.
LEMMA TrainingPreserves ==
    ASSUME VInv,
           \/ LogValidation \/ RequestSample \/ WakeTrainer \/ ReceiveSample
           \/ TrainStep \/ FinalWait \/ FinalSync \/ ClearAndEnd
    PROVE  VInv'
PROOF
<1> DEFINE versions == <<mq_version, current_param_version, weights, param_version, pc>>
           working == {"start", "log", "request", "await", "step", "final_wait", "final_sync",
                       "final_validate", "finished", "ended"}
<1>1. CASE LogValidation \/ RequestSample \/ WakeTrainer \/ ReceiveSample \/ FinalWait \/ ClearAndEnd
  <2>1. UNCHANGED <<versions, train_version, after_sync>>
    BY <1>1 DEF LogValidation, RequestSample, WakeTrainer, ReceiveSample, FinalWait, ClearAndEnd,
       MQ!GetValidate, MQ!GetSample, MQ!ResumeGetSample, MQ!ReturnSample, MQ!SleepUntilNotified,
       MQ!ClearQueue, mqVars, rollVars, trainVars
  <2>2. trainer' = trainer \/ (trainer \in working /\ trainer' \in working)
    BY <1>1 DEF LogValidation, RequestSample, WakeTrainer, ReceiveSample, FinalWait, ClearAndEnd,
       trainVars
  <2> QED
    BY <2>1, <2>2 DEF VInv, VTypes, TrainerAhead, RollouterBehind, WeightsCurrent,
       OneSyncAtATime, LabelsReached, LastUpdateDone, UpdatePending
<1>2. CASE TrainStep \/ FinalSync
  <2>1. UNCHANGED versions /\ trainer \in working
    BY <1>2 DEF TrainStep, FinalSync, mqVars, rollVars
  <2>2. \/ /\ trainer' \in working
           /\ UNCHANGED <<train_version, after_sync>>
        \/ /\ trainer' = "wait_last_valid"
           /\ train_version' = train_version + 1
           /\ after_sync' \in {"log", "final_validate"}
    BY <1>2 DEF TrainStep, FinalSync, TriggerParameterSync
  <2> QED
    BY <2>1, <2>2 DEF VInv, VTypes, TrainerAhead, RollouterBehind, WeightsCurrent,
       OneSyncAtATime, LabelsReached, LastUpdateDone, UpdatePending
<1> QED
  BY <1>1, <1>2

\* sync_weights: it begins when the last update is over, and ends by starting one.
LEMMA SyncPreserves ==
    ASSUME VInv, SyncPause \/ SyncTransfer \/ SyncReturn
    PROVE  VInv'
PROOF
<1>1. CASE SyncPause
  <2>1. /\ trainer = "wait_last_valid" /\ trainer' = "sync_pause" /\ LastUpdateDone
        /\ UNCHANGED <<mq_version, current_param_version, weights, param_version,
                       train_version, after_sync>>
        /\ pc' = [pc EXCEPT !["pause"] = "called"]
    BY <1>1 DEF SyncPause, Goto, mqVars, versionVars, taskVars
  <2>2. /\ pc' \in [Coroutines -> Labels]
        /\ UpdatePending' <=> UpdatePending
        /\ LastUpdateDone'
    BY <2>1 DEF VInv, VTypes, Coroutines, Labels, UpdatePending, LastUpdateDone
  <2> QED
    BY <2>1, <2>2 DEF VInv, VTypes, TrainerAhead, RollouterBehind, WeightsCurrent,
       OneSyncAtATime, LabelsReached
<1>2. CASE SyncTransfer
  <2>1. /\ trainer = "sync_pause" /\ trainer' = "sync_transfer"
        /\ mq_version' = train_version /\ weights' = Loading
        /\ UNCHANGED <<current_param_version, param_version, train_version, after_sync>>
        /\ pc' = [pc EXCEPT !["pause"] = "idle"]
    BY <1>2 DEF SyncTransfer, MQ!UpdateParamVersion, Goto, taskVars
  <2>2. LastUpdateDone /\ ~UpdatePending
    BY <2>1 DEF VInv, OneSyncAtATime, LastUpdateDone, UpdatePending
  <2>3. train_version = mq_version + 1 /\ mq_version = current_param_version
    BY <2>1, <2>2 DEF VInv, TrainerAhead, RollouterBehind
  <2>4. VTypes' /\ LastUpdateDone'
    BY <2>1, <2>2 DEF VInv, VTypes, Coroutines, Labels, LastUpdateDone
  <2> QED
    BY <2>1, <2>3, <2>4 DEF VInv, TrainerAhead, RollouterBehind, WeightsCurrent,
       OneSyncAtATime, LabelsReached
<1>3. CASE SyncReturn
  <2>1. /\ trainer = "sync_transfer" /\ trainer' = after_sync
        /\ weights' = train_version
        /\ UNCHANGED <<mq_version, current_param_version, param_version, train_version, after_sync>>
        /\ pc' = [pc EXCEPT !["update"] = "called", !["resume"] = "called"]
    BY <1>3 DEF SyncReturn, mqVars, taskVars
  <2>2. VTypes' /\ UpdatePending'
    BY <2>1 DEF VInv, VTypes, Coroutines, Labels, UpdatePending
  <2>3. trainer' \in {"log", "final_validate"}
    BY <2>1 DEF VInv, VTypes
  <2>4. train_version = mq_version /\ mq_version = current_param_version + 1
    BY <2>1 DEF VInv, TrainerAhead, RollouterBehind
  <2> QED
    BY <2>1, <2>2, <2>3, <2>4 DEF VInv, TrainerAhead, RollouterBehind, WeightsCurrent,
       OneSyncAtATime, LabelsReached
<1> QED
  BY <1>1, <1>2, <1>3

-----------------------------------------------------------------------------

\* Every step keeps the invariant.
LEMMA VNextPreserves == VInv /\ [Next]_vars => VInv'
PROOF
<1> SUFFICES ASSUME VInv, [Next]_vars PROVE VInv'
  OBVIOUS
<1>1. CASE TrainerStep
  BY <1>1, TrainingPreserves, SyncPreserves DEF TrainerStep
<1>2. CASE RollNext /\ UNCHANGED trainVars
  <2>1. CASE FeedSamples \/ MonitorStep \/ MainStep
    BY <1>2, <2>1, CoroutineQuiet, QuietPreserves
  <2>2. CASE ProcessorStep
    BY <1>2, <2>2, ProcessorQuiet, QuietPreserves
  <2>3. CASE TaskStep
    BY <1>2, <2>3, TaskPreserves DEF TaskStep
  <2>4. CASE CallStep
    BY <1>2, <2>4, PausePreserves, UpdatePreserves, ResumePreserves DEF CallStep
  <2> QED
    BY <1>2, <2>1, <2>2, <2>3, <2>4 DEF RollNext
<1>3. CASE UNCHANGED vars
  BY <1>3, QuietPreserves DEF Quiet, vars, mqVars, rollVars, VInv, VTypes
<1> QED
  BY <1>1, <1>2, <1>3 DEF Next, Ended

\* The invariant of the versions holds throughout.
LEMMA VersionInvariant == Spec => []VInv
PROOF
  BY VInitEstablishes, VNextPreserves, PTL DEF Spec

\* The versions of trainer, message queue and Rollouter are never out of
\* order nor more than one synchronization apart, and no label is ahead.
THEOREM VersionsStayInOrder == Spec => []VersionsInOrder
PROOF
<1>1. VInv => VersionsInOrder
  BY DEF VInv, VTypes, TrainerAhead, RollouterBehind, LabelsReached, VersionsInOrder
<1> QED
  BY <1>1, VersionInvariant, PTL

\* update_param_version always runs with the weights of its version in place:
\* no transfer is under way until it and resume have returned.
THEOREM UpdatesHaveTheirWeights == Spec => []UpdateTellsTheWeights
PROOF
<1>1. VInv => UpdateTellsTheWeights
  BY DEF VInv, WeightsCurrent, OneSyncAtATime, LastUpdateDone, UpdateTellsTheWeights
<1> QED
  BY <1>1, VersionInvariant, PTL
-----------------------------------------------------------------------------
(* What a step does to the calls *)

\* The pause, update_param_version and resume calls, the servers and the
\* queue of validation results.
callState == <<pc["pause"], pc["update"], pc["resume"], servers_paused, val_queue, trainer,
               after_sync>>

\* A step of the Rollouter outside pause, update_param_version and resume
\* leaves all of it alone.
LEMMA RollouterKeepsCalls ==
    ASSUME VInv, FeedSamples \/ ProcessorStep \/ TaskStep \/ MonitorStep \/ MainStep,
           UNCHANGED trainVars
    PROVE  UNCHANGED callState
PROOF
<1>1. CASE ProcessorStep
  <2>1. UNCHANGED <<pc, mqVars, versionVars>>
    <3>1. CASE ProcPause \/ ProcPauseLocked \/ ProcTake \/ ProcGot
      BY <3>1 DEF ProcPause, ProcPauseLocked, ProcTake, ProcGot, TakePending
    <3>2. ASSUME NEW loop \in DrainLoops,
                 ProcDrainTest(loop) \/ ProcDrainLocked(loop) \/ ProcDrainWake(loop)
          PROVE  UNCHANGED <<pc, mqVars, versionVars>>
      BY <3>2 DEF ProcDrainTest, ProcDrainLocked, ProcDrainWake
    <3>3. ASSUME NEW where \in {"sleep", "submit"},
                 ProcEnter(where) \/ ProcEnterLocked(where) \/ ProcWoken(where)
          PROVE  UNCHANGED <<pc, mqVars, versionVars>>
      BY <3>3 DEF ProcEnter, ProcEnterLocked, ProcWoken
    <3> QED
      BY <1>1, <3>1, <3>2, <3>3 DEF ProcessorStep
  <2> QED
    BY <2>1 DEF callState, mqVars, versionVars, trainVars
<1>2. CASE TaskStep
  <2> PICK s \in Samples : TaskReturns(s) \/ TaskFails(s)
    BY <1>2 DEF TaskStep
  <2> QED
    BY DEF TaskReturns, TaskGenerated, TaskPut, TaskCancelled, TaskFails, MQ!PutSample,
           callState, mqVars, versionVars, trainVars
<1>3. CASE FeedSamples \/ MonitorStep \/ MainStep
  <2>1. UNCHANGED <<val_queue, versionVars>>
    BY <1>3 DEF FeedSamples, MonitorStep, MonitorWake, MonitorLocked, MainStep, MainFinish,
       MainStop, MQ!PutSample, mqVars
  <2>2. \/ pc' = pc
        \/ \E c \in {"feed", "main", "monitor"}, label \in Labels :
              pc' = [pc EXCEPT ![c] = label]
    <3>1. CASE FeedSamples
      BY <3>1 DEF FeedSamples, Goto, Labels
    <3>2. CASE MonitorWake
      BY <3>2 DEF MonitorWake, Goto, Labels
    <3>3. CASE MonitorLocked
      BY <3>3 DEF MonitorLocked, Goto, Labels
    <3>4. CASE MainStep
      BY <3>4 DEF MainStep, MainFinish, MainStop, Goto, Labels
    <3> QED
      BY <1>3, <3>1, <3>2, <3>3, <3>4 DEF MonitorStep
  <2> QED
    BY <2>1, <2>2 DEF callState, versionVars, trainVars, VInv, VTypes, Coroutines
<1> QED
  BY <1>1, <1>2, <1>3

\* How a step of a call can move it.
LEMMA CallEffects ==
    ASSUME VInv, CallStep, UNCHANGED trainVars
    PROVE  \/ /\ pc' \in [Coroutines -> Labels]
              /\ UNCHANGED <<pc["update"], pc["resume"], val_queue>>
              /\ \/ UNCHANGED <<pc["pause"], servers_paused>>
                 \/ /\ pc["pause"] = "called" /\ pc'["pause"] = "lock"
                    /\ UNCHANGED servers_paused
                 \/ /\ pc["pause"] \in {"called", "lock"}
                    /\ pc'["pause"] = IF PartialRollout THEN "cancel" ELSE GatherOrFinish
                    /\ UNCHANGED servers_paused
                 \/ /\ pc["pause"] = "cancel" /\ pc'["pause"] \in {"gather", "clear"}
                    /\ servers_paused' = TRUE
                 \/ /\ pc["pause"] = "gather" /\ pc'["pause"] = "clear"
                    /\ UNCHANGED servers_paused
                 \/ /\ pc["pause"] = "clear" /\ pc'["pause"] = "returned"
                    /\ UNCHANGED servers_paused
           \/ /\ UNCHANGED <<pc["pause"], pc["resume"], servers_paused>>
              /\ \/ /\ pc["update"] = "called" /\ pc'["update"] = "lock"
                    /\ UNCHANGED val_queue
                 \/ /\ pc["update"] \in {"called", "lock"} /\ pc'["update"] = "size"
                    /\ UNCHANGED val_queue
                 \/ /\ pc["update"] = "size" /\ pc'["update"] = "idle"
                    /\ val_queue' = Append(val_queue, current_param_version)
           \/ /\ UNCHANGED <<pc["pause"], pc["update"], val_queue>>
              /\ \/ /\ pc["resume"] = "called" /\ pc'["resume"] = "lock"
                    /\ pc["update"] = "idle"
                    /\ UNCHANGED servers_paused
                 \/ /\ pc["resume"] \in {"called", "lock"} /\ pc'["resume"] \in {"servers", "idle"}
                    /\ pc["update"] = "idle"
                    /\ UNCHANGED servers_paused
                 \/ /\ pc["resume"] = "servers" /\ pc'["resume"] = "idle"
                    /\ servers_paused' = FALSE
PROOF
<1> USE DEF VInv, VTypes, Coroutines
<1>1. ASSUME NEW c \in {"pause", "update", "resume", "main"}, CallQueues(c)
      PROVE  /\ pc[c] = "called" /\ pc' = [pc EXCEPT ![c] = "lock"]
             /\ c = "resume" => pc["update"] = "idle"
             /\ UNCHANGED <<servers_paused, val_queue>>
  BY <1>1 DEF CallQueues, Goto, mqVars, versionVars
<1>2. CASE \E c \in {"pause", "update", "resume", "main"} : CallQueues(c)
  BY <1>1, <1>2 DEF Labels
<1>3. CASE PauseBegin
  BY <1>3 DEF PauseBegin, Entered, Goto, mqVars, versionVars, GatherOrFinish, Labels
<1>4. CASE PauseCancel \/ PauseGathered \/ PauseEnd
  BY <1>4 DEF PauseCancel, PauseGathered, PauseEnd, Goto, mqVars, versionVars, GatherOrFinish,
     Labels
<1>5. CASE UpdateBegin \/ UpdateEnd
  BY <1>5 DEF UpdateBegin, UpdateEnd, Entered, Goto, mqVars, versionVars, MQ!PutValidate
<1>6. CASE ResumeBegin \/ ResumeEnd
  BY <1>6 DEF ResumeBegin, ResumeEnd, ResumeGeneration, Entered, Goto, mqVars, versionVars
<1> QED
  BY <1>2, <1>3, <1>4, <1>5, <1>6 DEF CallStep

\* The trainer between two synchronizations leaves the calls alone.
LEMMA TrainingKeepsCalls ==
    ASSUME VInv,
           \/ LogValidation \/ RequestSample \/ WakeTrainer \/ ReceiveSample
           \/ TrainStep \/ FinalWait \/ FinalSync \/ ClearAndEnd
    PROVE  /\ UNCHANGED <<pc, servers_paused>>
           /\ \/ UNCHANGED trainer
              \/ /\ trainer \notin {"sync_pause", "sync_transfer"}
                 /\ trainer' \notin {"sync_pause", "sync_transfer"}
PROOF
  BY DEF LogValidation, RequestSample, WakeTrainer, ReceiveSample, TrainStep, FinalWait,
     FinalSync, ClearAndEnd, TriggerParameterSync, rollVars, trainVars

-----------------------------------------------------------------------------
(* With partial rollout nothing generates between two versions *)

\* From the cancellation of a pause to the end of the resume that follows
\* the update, the servers are paused.
LInv ==
    /\ pc["pause"] # "idle" => trainer = "sync_pause"
    /\ pc["resume"] = "servers" => pc["update"] = "idle"
    /\ \/ pc["pause"] \in {"gather", "clear", "returned"}
       \/ trainer = "sync_transfer"
       \/ UpdatePending
       => servers_paused

\* A step of the trainer or of the Rollouter keeps the servers paused as
\* long as it has to.
LEMMA LNextPreserves == PartialRollout /\ VInv /\ LInv /\ [Next]_vars => LInv'
PROOF
<1> SUFFICES ASSUME PartialRollout, VInv, LInv, [Next]_vars PROVE LInv'
  OBVIOUS
<1> USE DEF VInv, VTypes, Coroutines, LInv, UpdatePending
<1>1. CASE RollNext /\ UNCHANGED trainVars
  <2>1. CASE FeedSamples \/ ProcessorStep \/ TaskStep \/ MonitorStep \/ MainStep
    BY <1>1, <2>1, RollouterKeepsCalls DEF callState
  <2>2. CASE CallStep
    <3>1. UNCHANGED trainer
      BY <1>1 DEF trainVars
    <3>2. pc["resume"] # "idle" => trainer # "sync_pause" /\ trainer # "sync_transfer"
      BY DEF OneSyncAtATime, LastUpdateDone
    <3>3. GatherOrFinish \in {"gather", "clear"}
      BY DEF GatherOrFinish
    <3> QED
      BY <1>1, <2>2, <3>1, <3>2, <3>3, CallEffects
  <2> QED
    BY <1>1, <2>1, <2>2 DEF RollNext
<1>2. CASE LogValidation \/ RequestSample \/ WakeTrainer \/ ReceiveSample
           \/ TrainStep \/ FinalWait \/ FinalSync \/ ClearAndEnd
  BY <1>2, TrainingKeepsCalls
<1>3. CASE SyncPause
  BY <1>3 DEF SyncPause, Goto, versionVars, LastUpdateDone
<1>4. CASE SyncTransfer
  BY <1>4 DEF SyncTransfer, Goto, OneSyncAtATime, LastUpdateDone
<1>5. CASE SyncReturn
  BY <1>5 DEF SyncReturn
<1>6. CASE UNCHANGED vars
  BY <1>6 DEF vars, rollVars, trainVars
<1> QED
  BY <1>1, <1>2, <1>3, <1>4, <1>5, <1>6 DEF Next, TrainerStep, Ended

\* With partial rollout, what running servers generate is generated by the
\* weights of the Rollouter's current version, which a sample is labelled with
\* when its last chunk returns: the servers are told to go on only after the
\* update.  Nothing is said of the chunks before an interruption.
THEOREM CurrentWeightsGenerate ==
    ASSUME PartialRollout
    PROVE  Spec => []GeneratesWithCurrentWeights
PROOF
<1>1. Init => LInv
  BY DEF Init, RollInit, LInv, UpdatePending
<1>2. VInv /\ LInv => GeneratesWithCurrentWeights
  BY DEF VInv, LInv, RollouterBehind, WeightsCurrent, UpdatePending, GeneratesWithCurrentWeights
<1>3. VInv /\ LInv /\ [Next]_vars => LInv'
  BY LNextPreserves
<1> QED
  BY <1>1, <1>2, <1>3, VersionInvariant, PTL DEF Spec

-----------------------------------------------------------------------------
(* Validation results *)

\* Results that are in the queue or that the outstanding update will put there.
ResultsDue == Len(val_queue) + (IF pc["update"] = "idle" THEN 0 ELSE 1)

Syncing == trainer \in {"wait_last_valid", "sync_pause", "sync_transfer"}

\* A step of training logs one result, so that there are never two; what is
\* left after the last wait is the result of the last synchronization.
MayBeDue ==
    IF \/ trainer \in {"final_sync", "finished", "ended"}
       \/ Syncing /\ after_sync = "final_validate"
    THEN 0 ELSE IF trainer = "log" THEN 2 ELSE 1

RInv ==
    /\ val_queue \in Seq(Nat)
    /\ ResultsDue <= MayBeDue

\* One result is taken, if there is one.
LEMMA GetValidateTakes ==
    ASSUME val_queue \in Seq(Nat), MQ!GetValidate
    PROVE  /\ val_queue' \in Seq(Nat)
           /\ Len(val_queue') = IF Len(val_queue) = 0 THEN 0 ELSE Len(val_queue) - 1
PROOF
  BY EmptySeq, HeadTailProperties, LenProperties DEF MQ!GetValidate

LEMMA RNextPreserves == VInv /\ RInv /\ [Next]_vars => RInv'
PROOF
<1> SUFFICES ASSUME VInv, RInv, [Next]_vars PROVE RInv'
  OBVIOUS
<1> USE DEF RInv, ResultsDue, MayBeDue, Syncing
<1>0. Len(val_queue) \in Nat
  BY LenProperties
<1>1. CASE RollNext /\ UNCHANGED trainVars
  <2>1. CASE FeedSamples \/ ProcessorStep \/ TaskStep \/ MonitorStep \/ MainStep
    BY <1>1, <2>1, RollouterKeepsCalls DEF callState
  <2>2. CASE CallStep
    <3>1. UNCHANGED <<trainer, after_sync>>
      BY <1>1 DEF trainVars
    <3>2. current_param_version \in Nat
      BY DEF VInv, VTypes
    <3>3. \/ UNCHANGED <<pc["update"], val_queue>>
          \/ pc["update"] # "idle" /\ pc'["update"] # "idle" /\ UNCHANGED val_queue
          \/ /\ pc["update"] # "idle" /\ pc'["update"] = "idle"
             /\ val_queue' = Append(val_queue, current_param_version)
      BY <1>1, <2>2, CallEffects
    <3> QED
      BY <1>0, <3>1, <3>2, <3>3, AppendProperties
  <2> QED
    BY <1>1, <2>1, <2>2 DEF RollNext
<1>2. CASE LogValidation \/ FinalWait
  <2>1. UNCHANGED pc /\ MQ!GetValidate
    BY <1>2 DEF LogValidation, FinalWait, rollVars
  <2> QED
    BY <1>0, <1>2, <2>1, GetValidateTakes DEF LogValidation, FinalWait, LastUpdateDone
<1>3. CASE RequestSample \/ WakeTrainer \/ ReceiveSample \/ TrainStep \/ FinalSync \/ ClearAndEnd
  <2>1. UNCHANGED <<pc, val_queue>>
    BY <1>3 DEF RequestSample, WakeTrainer, ReceiveSample, TrainStep, FinalSync, ClearAndEnd,
       MQ!GetSample, MQ!ResumeGetSample, MQ!ReturnSample, MQ!SleepUntilNotified, MQ!ClearQueue,
       rollVars, mqVars
  <2> QED
    BY <1>0, <1>3, <2>1 DEF RequestSample, WakeTrainer, ReceiveSample, TrainStep, FinalSync,
       ClearAndEnd, TriggerParameterSync, SyncDue, trainVars
<1>4. CASE SyncPause \/ SyncTransfer
  <2>1. UNCHANGED <<pc["update"], val_queue, after_sync>>
    BY <1>4 DEF SyncPause, SyncTransfer, Goto, mqVars, MQ!UpdateParamVersion, VInv, VTypes,
       Coroutines
  <2> QED
    BY <1>0, <1>4, <2>1 DEF SyncPause, SyncTransfer
<1>5. CASE SyncReturn
  <2>1. /\ trainer = "sync_transfer" /\ trainer' = after_sync
        /\ UNCHANGED <<val_queue, after_sync>>
        /\ pc["update"] = "idle" /\ after_sync \in {"log", "final_validate"}
    BY <1>5 DEF SyncReturn, mqVars, VInv, VTypes, OneSyncAtATime, LastUpdateDone
  <2> QED
    BY <1>0, <1>5, <2>1
<1>6. CASE UNCHANGED vars
  BY <1>6 DEF vars, mqVars, rollVars, trainVars
<1> QED
  BY <1>1, <1>2, <1>3, <1>4, <1>5, <1>6 DEF Next, TrainerStep, Ended

\* However late the updates put their validation results, the trainer has
\* logged every one of them when it ends.
THEOREM ResultsAreLogged == Spec => []ValidationLogged
PROOF
<1>1. Init => RInv
  <2>1. <<0>> \in Seq(Nat) /\ Len(<<0>>) = 1
    OBVIOUS
  <2> QED
    BY <2>1 DEF Init, RollInit, RInv, ResultsDue, MayBeDue, Syncing
<1>2. RInv => ValidationLogged
  <2>1. SUFFICES ASSUME RInv, trainer = "finished" PROVE val_queue = <<>>
    BY DEF ValidationLogged
  <2>2. val_queue \in Seq(Nat) /\ Len(val_queue) = 0
    BY <2>1, LenProperties DEF RInv, ResultsDue, MayBeDue
  <2> QED
    BY <2>2, EmptySeq
<1> QED
  BY <1>1, <1>2, RNextPreserves, VersionInvariant, PTL DEF Spec

-----------------------------------------------------------------------------
(* Samples *)

\* No sample occurs twice in a sequence.
Distinct(seq) ==
    \A i, j \in DOMAIN seq : seq[i] = seq[j] /\ seq[i] \in Samples => i = j

-----------------------------------------------------------------------------
(* Samples in sequences *)

\* The samples are finitely many numbers, and the signals are none of them.
LEMMA SamplesFacts ==
    /\ TotalRolloutSteps \in Nat \ {0} /\ DONE = TotalRolloutSteps + 1
    /\ IsFiniteSet(Samples) /\ Cardinality(Samples) = TotalRolloutSteps
    /\ Samples \subseteq Nat
    /\ None \notin Samples /\ DONE \notin Samples /\ NoSample \notin Samples
    /\ \A S \in SUBSET Samples :
          IsFiniteSet(S) /\ Cardinality(S) \in Nat /\ Cardinality(S) <= TotalRolloutSteps
PROOF
<1>1. TotalRolloutSteps \in Nat \ {0}
  BY RollouterAssumption
<1>2. IsFiniteSet(Samples) /\ Cardinality(Samples) = TotalRolloutSteps
  BY <1>1, FS_Interval DEF Samples
<1>3. \A S \in SUBSET Samples :
         IsFiniteSet(S) /\ Cardinality(S) \in Nat /\ Cardinality(S) <= TotalRolloutSteps
  BY <1>2, FS_Subset, FS_CardinalityType
<1> QED
  BY <1>1, <1>2, <1>3 DEF Samples, DONE, None, NoSample

\* A set grows by at most the element it is given.
LEMMA AddCounts ==
    ASSUME NEW S, IsFiniteSet(S), NEW x
    PROVE  /\ Cardinality(S \cup {x}) \in Nat
           /\ Cardinality(S \cup {x}) <= Cardinality(S) + 1
           /\ x \notin S => Cardinality(S \cup {x}) = Cardinality(S) + 1
PROOF
<1>1. Cardinality(S) \in Nat
  BY FS_CardinalityType
<1>2. Cardinality(S \cup {x}) = IF x \in S THEN Cardinality(S) ELSE Cardinality(S) + 1
  BY FS_AddElement
<1> QED
  BY <1>1, <1>2

\* Without repetition, counting positions counts samples.
LEMMA CountIsCardinality ==
    ASSUME NEW S, NEW seq \in Seq(S), Distinct(seq)
    PROVE  CountIn(seq) = Cardinality(SamplesIn(seq)) /\ CountIn(seq) \in Nat
PROOF
<1> DEFINE at == {i \in DOMAIN seq : seq[i] \in Samples}
           f == [i \in at |-> seq[i]]
<1>1. IsFiniteSet(at)
  <2>1. DOMAIN seq = 1..Len(seq) /\ Len(seq) \in Nat
    BY LenProperties
  <2>2. IsFiniteSet(1..Len(seq))
    BY <2>1, FS_Interval
  <2> QED
    BY <2>1, <2>2, FS_Subset
<1>2. f \in Bijection(at, SamplesIn(seq))
  <2>1. f \in [at -> SamplesIn(seq)]
    BY DEF SamplesIn
  <2>2. \A i, j \in at : f[i] = f[j] => i = j
    BY DEF Distinct
  <2>3. \A s \in SamplesIn(seq) : \E i \in at : f[i] = s
    BY DEF SamplesIn
  <2> QED
    BY <2>1, <2>2, <2>3 DEF Bijection, Injection, Surjection, IsInjective
<1>3. ExistsBijection(at, SamplesIn(seq))
  BY <1>2 DEF ExistsBijection
<1>4. Cardinality(SamplesIn(seq)) = Cardinality(at)
  BY <1>1, <1>3, FS_Bijection
<1>5. Cardinality(at) \in Nat
  BY <1>1, FS_CardinalityType
<1> QED
  BY <1>4, <1>5 DEF CountIn

\* Taking the head takes one sample out, unless it is a signal.
LEMMA TailSamples ==
    ASSUME NEW S, NEW seq \in Seq(S), seq # <<>>, Distinct(seq)
    PROVE  /\ Distinct(Tail(seq))
           /\ SamplesIn(Tail(seq)) = SamplesIn(seq) \ {Head(seq)}
           /\ Head(seq) \in Samples => Head(seq) \in SamplesIn(seq)
           /\ CountIn(Tail(seq)) =
                 IF Head(seq) \in Samples THEN CountIn(seq) - 1 ELSE CountIn(seq)
PROOF
<1>1. /\ Tail(seq) \in Seq(S) /\ Len(Tail(seq)) = Len(seq) - 1
      /\ \A i \in 1..Len(Tail(seq)) : Tail(seq)[i] = seq[i + 1]
  BY HeadTailProperties
<1>2. /\ Len(seq) \in Nat \ {0} /\ DOMAIN seq = 1..Len(seq)
      /\ DOMAIN Tail(seq) = 1..Len(Tail(seq)) /\ Head(seq) = seq[1]
  BY <1>1, EmptySeq, LenProperties
<1>3. \A i \in DOMAIN Tail(seq) : i + 1 \in DOMAIN seq /\ Tail(seq)[i] = seq[i + 1]
  BY <1>1, <1>2
<1>4. Distinct(Tail(seq))
  BY <1>1, <1>2, <1>3 DEF Distinct
<1>5. SamplesIn(Tail(seq)) \subseteq SamplesIn(seq) \ {Head(seq)}
  BY <1>1, <1>2, <1>3 DEF Distinct, SamplesIn
<1>6. SamplesIn(seq) \ {Head(seq)} \subseteq SamplesIn(Tail(seq))
  <2> SUFFICES ASSUME NEW i \in DOMAIN seq, seq[i] \in Samples, seq[i] # Head(seq)
               PROVE  seq[i] \in SamplesIn(Tail(seq))
    BY DEF SamplesIn
  <2>1. i - 1 \in DOMAIN Tail(seq) /\ Tail(seq)[i - 1] = seq[i]
    BY <1>1, <1>2
  <2> QED
    BY <2>1 DEF SamplesIn
<1>7. Head(seq) \in Samples => Head(seq) \in SamplesIn(seq)
  BY <1>2 DEF SamplesIn
<1>8. /\ CountIn(seq) = Cardinality(SamplesIn(seq))
      /\ CountIn(Tail(seq)) = Cardinality(SamplesIn(seq) \ {Head(seq)})
  BY <1>1, <1>4, <1>5, <1>6, CountIsCardinality
<1>9. IsFiniteSet(SamplesIn(seq)) /\ (Head(seq) \in SamplesIn(seq) => Head(seq) \in Samples)
  BY SamplesFacts DEF SamplesIn
<1> QED
  BY <1>4, <1>5, <1>6, <1>7, <1>8, <1>9, FS_RemoveElement

\* Appending adds one sample, unless it is a signal.
LEMMA AppendSamples ==
    ASSUME NEW S, NEW seq \in Seq(S), Distinct(seq), NEW x \in S, x \notin SamplesIn(seq)
    PROVE  /\ Distinct(Append(seq, x))
           /\ SamplesIn(Append(seq, x)) = SamplesIn(seq) \cup ({x} \cap Samples)
           /\ CountIn(Append(seq, x)) =
                 IF x \in Samples THEN CountIn(seq) + 1 ELSE CountIn(seq)
PROOF
<1> DEFINE app == Append(seq, x)
<1>1. /\ app \in Seq(S) /\ Len(app) = Len(seq) + 1
      /\ \A i \in 1..Len(seq) : app[i] = seq[i]
      /\ app[Len(seq) + 1] = x
  BY AppendProperties
<1>2. /\ Len(seq) \in Nat /\ DOMAIN seq = 1..Len(seq) /\ DOMAIN app = 1..Len(app)
  BY <1>1, LenProperties
<1> HIDE DEF app
<1>3. Distinct(app)
  <2> SUFFICES ASSUME NEW i \in DOMAIN app, NEW j \in DOMAIN app,
                      app[i] = app[j], app[i] \in Samples
               PROVE  i = j
    BY DEF Distinct
  <2>1. \A k \in DOMAIN seq : seq[k] \in Samples => seq[k] # x
    BY DEF SamplesIn
  <2>2. CASE i \in DOMAIN seq /\ j \in DOMAIN seq
    BY <1>1, <1>2, <2>2 DEF Distinct
  <2>3. CASE i = Len(seq) + 1 \/ j = Len(seq) + 1
    BY <1>1, <1>2, <2>1, <2>3
  <2> QED
    BY <1>1, <1>2, <2>2, <2>3
<1>4. SamplesIn(app) = SamplesIn(seq) \cup ({x} \cap Samples)
  <2>1. SamplesIn(app) \subseteq SamplesIn(seq) \cup ({x} \cap Samples)
    BY <1>1, <1>2 DEF SamplesIn
  <2>2. SamplesIn(seq) \subseteq SamplesIn(app)
    BY <1>1, <1>2 DEF SamplesIn
  <2>3. {x} \cap Samples \subseteq SamplesIn(app)
    <3>1. Len(seq) + 1 \in DOMAIN app
      BY <1>1, <1>2
    <3> QED
      BY <1>1, <3>1 DEF SamplesIn
  <2> QED
    BY <2>1, <2>2, <2>3
<1>5. CountIn(app) = Cardinality(SamplesIn(app)) /\ CountIn(seq) = Cardinality(SamplesIn(seq))
  BY <1>1, <1>3, CountIsCardinality
<1>6. IsFiniteSet(SamplesIn(seq))
  BY SamplesFacts DEF SamplesIn
<1>7. CASE x \in Samples
  <2>1. SamplesIn(app) = SamplesIn(seq) \cup {x}
    BY <1>4, <1>7
  <2>2. Cardinality(SamplesIn(seq) \cup {x}) = Cardinality(SamplesIn(seq)) + 1
    BY <1>6, FS_AddElement
  <2>3. CountIn(app) = CountIn(seq) + 1
    BY <1>5, <2>1, <2>2
  <2> QED
    BY <1>3, <1>4, <1>7, <2>3 DEF app
<1>8. CASE x \notin Samples
  <2>1. SamplesIn(app) = SamplesIn(seq)
    BY <1>4, <1>8
  <2> QED
    BY <1>3, <1>4, <1>5, <1>8, <2>1 DEF app
<1> QED
  BY <1>7, <1>8

\* The feed appends the next numbers, of which only the last may be the end
\* signal.
LEMMA FeedSamplesFacts ==
    ASSUME NEW seq \in Seq(Samples \cup {DONE}), Distinct(seq),
           NEW m \in 0..DONE, NEW n \in 1..(DONE - m),
           \A s \in SamplesIn(seq) : s <= m
    PROVE  LET fedSeq == seq \o [i \in 1..n |-> FeedItem(m + i)]
               cap(k) == IF k > TotalRolloutSteps THEN TotalRolloutSteps ELSE k
           IN  /\ fedSeq \in Seq(Samples \cup {DONE})
               /\ Distinct(fedSeq)
               /\ SamplesIn(fedSeq) = SamplesIn(seq) \cup {s \in Samples : m < s /\ s <= m + n}
               /\ CountIn(fedSeq) = CountIn(seq) + (cap(m + n) - cap(m))
PROOF
<1> DEFINE new == [i \in 1..n |-> FeedItem(m + i)]
           fedSeq == seq \o new
           next == {s \in Samples : m < s /\ s <= m + n}
           cap(k) == IF k > TotalRolloutSteps THEN TotalRolloutSteps ELSE k
<1>1. /\ DONE \in Nat /\ m \in Nat /\ n \in Nat \ {0} /\ m + n <= DONE
      /\ DONE = TotalRolloutSteps + 1
      /\ Samples = 1..TotalRolloutSteps /\ TotalRolloutSteps \in Nat
  BY SamplesFacts DEF Samples
<1>2. \A i \in 1..n : FeedItem(m + i) = m + i /\ m + i \in Samples \cup {DONE}
  BY <1>1 DEF FeedItem
<1>3. new \in Seq(Samples \cup {DONE}) /\ Len(new) = n /\ \A i \in 1..n : new[i] = m + i
  <2>1. new \in [1..n -> Samples \cup {DONE}]
    BY <1>2
  <2>2. \A i \in 1..n : new[i] = m + i
    BY <1>2
  <2> HIDE DEF new
  <2> QED
    BY <1>1, <2>1, <2>2
<1>4. /\ fedSeq \in Seq(Samples \cup {DONE})
      /\ Len(fedSeq) = Len(seq) + n /\ Len(seq) \in Nat
      /\ DOMAIN seq = 1..Len(seq) /\ DOMAIN fedSeq = 1..(Len(seq) + n)
      /\ \A i \in 1..Len(seq) : fedSeq[i] = seq[i]
      /\ \A i \in (Len(seq) + 1)..(Len(seq) + n) : fedSeq[i] = m + (i - Len(seq))
  <2> HIDE DEF new
  <2>1. /\ fedSeq \in Seq(Samples \cup {DONE})
        /\ Len(fedSeq) = Len(seq) + n
        /\ Len(seq) \in Nat /\ DOMAIN seq = 1..Len(seq)
        /\ DOMAIN fedSeq = 1..(Len(seq) + n)
        /\ \A i \in 1..(Len(seq) + n) :
              fedSeq[i] = IF i <= Len(seq) THEN seq[i] ELSE new[i - Len(seq)]
    BY <1>3, LenProperties, ConcatProperties
  <2> HIDE DEF fedSeq
  <2>2. \A i \in (Len(seq) + 1)..(Len(seq) + n) : i - Len(seq) \in 1..n
    BY <2>1, <1>1
  <2>3. \A i \in (Len(seq) + 1)..(Len(seq) + n) : fedSeq[i] = m + (i - Len(seq))
    BY <1>1, <1>3, <2>1, <2>2
  <2>4. \A i \in 1..Len(seq) : fedSeq[i] = seq[i]
    BY <1>1, <2>1
  <2> QED
    BY <2>1, <2>3, <2>4
<1> HIDE DEF new, fedSeq
<1>5. \A i \in 1..Len(seq) : seq[i] \in Samples => seq[i] <= m
  BY <1>4 DEF SamplesIn
<1>6. Distinct(fedSeq)
  <2> SUFFICES ASSUME NEW i \in 1..(Len(seq) + n), NEW j \in 1..(Len(seq) + n),
                      fedSeq[i] = fedSeq[j], fedSeq[i] \in Samples
               PROVE  i = j
    BY <1>4 DEF Distinct
  <2>1. \A k \in 1..(Len(seq) + n) : k > Len(seq) => fedSeq[k] = m + (k - Len(seq))
    <3>1. \A k \in 1..(Len(seq) + n) : k > Len(seq) => k \in (Len(seq) + 1)..(Len(seq) + n)
      BY <1>1, <1>4
    <3> QED
      BY <1>4, <3>1
  <2>2. \A k \in 1..(Len(seq) + n) :
           k <= Len(seq) => k \in DOMAIN seq /\ fedSeq[k] = seq[k]
    BY <1>1, <1>4
  <2>3. CASE i <= Len(seq) /\ j <= Len(seq)
    BY <2>2, <2>3 DEF Distinct
  <2>4. CASE i > Len(seq) /\ j > Len(seq)
    BY <1>1, <1>4, <2>1, <2>4
  <2>5. CASE i <= Len(seq) /\ j > Len(seq)
    <3>1. fedSeq[i] <= m /\ fedSeq[j] = m + (j - Len(seq))
      BY <1>4, <1>5, <2>1, <2>2, <2>5
    <3> QED
      BY <1>1, <1>4, <2>5, <3>1
  <2>6. CASE i > Len(seq) /\ j <= Len(seq)
    <3>1. fedSeq[j] <= m /\ fedSeq[i] = m + (i - Len(seq))
      BY <1>4, <1>5, <2>1, <2>2, <2>6
    <3> QED
      BY <1>1, <1>4, <2>6, <3>1
  <2> QED
    BY <1>1, <1>4, <2>3, <2>4, <2>5, <2>6
<1>7. SamplesIn(fedSeq) = SamplesIn(seq) \cup next
  <2>1. SamplesIn(fedSeq) \subseteq SamplesIn(seq) \cup next
    <3> SUFFICES ASSUME NEW i \in 1..(Len(seq) + n), fedSeq[i] \in Samples
                 PROVE  fedSeq[i] \in SamplesIn(seq) \cup next
      BY <1>4 DEF SamplesIn
    <3>1. CASE i <= Len(seq)
      <4>1. i \in DOMAIN seq /\ fedSeq[i] = seq[i]
        BY <1>1, <1>4, <3>1
      <4> QED
        BY <4>1 DEF SamplesIn
    <3>2. CASE i > Len(seq)
      BY <1>1, <1>4, <3>2
    <3> QED
      BY <1>4, <3>1, <3>2
  <2>2. SamplesIn(seq) \subseteq SamplesIn(fedSeq)
    BY <1>1, <1>4 DEF SamplesIn
  <2>3. next \subseteq SamplesIn(fedSeq)
    <3> SUFFICES ASSUME NEW s \in next PROVE s \in SamplesIn(fedSeq)
      OBVIOUS
    <3>1. Len(seq) + (s - m) \in DOMAIN fedSeq /\ fedSeq[Len(seq) + (s - m)] = s
      BY <1>1, <1>4
    <3> QED
      BY <3>1 DEF SamplesIn
  <2> QED
    BY <2>1, <2>2, <2>3
<1>8. Cardinality(next) = cap(m + n) - cap(m) /\ IsFiniteSet(next)
  <2>1. next = (m + 1)..cap(m + n)
    BY <1>1
  <2>2. m + 1 \in Int /\ cap(m + n) \in Int
    BY <1>1
  <2>3. /\ IsFiniteSet((m + 1)..cap(m + n))
        /\ Cardinality((m + 1)..cap(m + n)) =
              IF m + 1 > cap(m + n) THEN 0 ELSE cap(m + n) - (m + 1) + 1
    BY <2>2, FS_Interval
  <2>4. (IF m + 1 > cap(m + n) THEN 0 ELSE cap(m + n) - (m + 1) + 1) = cap(m + n) - cap(m)
    BY <1>1
  <2> HIDE DEF next, cap
  <2> QED
    BY <2>1, <2>3, <2>4
<1>9. SamplesIn(seq) \cap next = {}
  BY <1>1, <1>5, <1>4 DEF SamplesIn
<1>10. IsFiniteSet(SamplesIn(seq)) /\ Cardinality(SamplesIn(seq)) \in Nat
  BY SamplesFacts DEF SamplesIn
<1>11. Cardinality(SamplesIn(seq) \cup next) = Cardinality(SamplesIn(seq)) + Cardinality(next)
  <2>1. Cardinality(SamplesIn(seq) \cap next) = 0
    BY <1>9, FS_EmptySet
  <2>2. Cardinality(next) \in Nat
    BY <1>8, FS_CardinalityType
  <2> HIDE DEF next
  <2>3. Cardinality(SamplesIn(seq) \cup next) =
           Cardinality(SamplesIn(seq)) + Cardinality(next) - Cardinality(SamplesIn(seq) \cap next)
    BY <1>8, <1>10, FS_Union
  <2> QED
    BY <1>10, <2>1, <2>2, <2>3
<1>12. CountIn(fedSeq) = CountIn(seq) + (cap(m + n) - cap(m))
  BY <1>4, <1>6, <1>7, <1>8, <1>11, CountIsCardinality
<1> QED
  BY <1>4, <1>6, <1>7, <1>12 DEF fedSeq, new

-----------------------------------------------------------------------------
(* The message queue as its callers use it *)

queueState == <<queue, mq_running, waiting, woken, reply, dropped_samples>>

\* Calls of get_sample: one at a time, and only while the trainer awaits it.
QTyped ==
    /\ queue \in Seq(Samples \cup {None})
    /\ Len(queue) <= MaxRequiredSamples
    /\ dropped_samples \in Nat
    /\ mq_running = TRUE
    /\ waiting \subseteq {"trainer"} /\ woken \subseteq {"trainer"}
    /\ waiting \cap woken = {}
    /\ reply \in [{"trainer"} -> Samples \cup {None, -2}]
    /\ waiting \cup woken # {} => trainer = "await"

\* Which calls a step makes of the message queue.
LEMMA QueueCalls ==
    ASSUME [Next]_vars
    PROVE  \/ UNCHANGED queueState /\ (trainer = "await" => trainer' = trainer \/ ReceiveSample)
           \/ UNCHANGED trainer /\ \E s \in Samples : TaskPut(s)
           \/ UNCHANGED trainer /\ MainFinish
           \/ RequestSample
           \/ WakeTrainer
           \/ ClearAndEnd
PROOF
<1> USE DEF queueState
<1>1. CASE RollNext /\ UNCHANGED trainVars
  <2>1. UNCHANGED trainer
    BY <1>1 DEF trainVars
  <2>2. CASE FeedSamples \/ MonitorStep \/ MainStep
    BY <2>1, <2>2 DEF FeedSamples, MonitorStep, MonitorWake, MonitorLocked, MainStep, MainStop,
       mqVars
  <2>3. CASE ProcessorStep
    <3>1. CASE ProcPause \/ ProcPauseLocked \/ ProcTake \/ ProcGot
      BY <2>1, <3>1 DEF ProcPause, ProcPauseLocked, ProcTake, ProcGot, mqVars
    <3>2. ASSUME NEW loop \in DrainLoops,
                 ProcDrainTest(loop) \/ ProcDrainLocked(loop) \/ ProcDrainWake(loop)
          PROVE  UNCHANGED mqVars
      BY <3>2 DEF ProcDrainTest, ProcDrainLocked, ProcDrainWake
    <3>3. ASSUME NEW where \in {"sleep", "submit"},
                 ProcEnter(where) \/ ProcEnterLocked(where) \/ ProcWoken(where)
          PROVE  UNCHANGED mqVars
      BY <3>3 DEF ProcEnter, ProcEnterLocked, ProcWoken
    <3> QED
      BY <2>1, <2>3, <3>1, <3>2, <3>3 DEF ProcessorStep, mqVars
  <2>4. CASE TaskStep
    BY <2>1, <2>4 DEF TaskStep, TaskReturns, TaskGenerated, TaskCancelled, TaskFails, mqVars
  <2>5. CASE CallStep
    BY <2>1, <2>5 DEF CallStep, CallQueues, PauseBegin, PauseCancel, PauseGathered, PauseEnd,
       UpdateBegin, UpdateEnd, MQ!PutValidate, MQ!queueVars, MQ!callVars, ResumeBegin, ResumeEnd,
       mqVars
  <2> QED
    BY <1>1, <2>2, <2>3, <2>4, <2>5 DEF RollNext
<1>2. CASE LogValidation \/ FinalWait
  BY <1>2 DEF LogValidation, FinalWait, MQ!GetValidate, MQ!queueVars, MQ!callVars
<1>3. CASE ReceiveSample \/ TrainStep \/ FinalSync \/ SyncPause \/ SyncReturn
  BY <1>3 DEF ReceiveSample, TrainStep, FinalSync, SyncPause, SyncReturn, mqVars
<1>4. CASE SyncTransfer
  BY <1>4 DEF SyncTransfer, MQ!UpdateParamVersion, MQ!queueVars, MQ!callVars
<1>5. CASE UNCHANGED vars
  BY <1>5 DEF vars, mqVars, trainVars
<1> QED
  BY <1>1, <1>2, <1>3, <1>4, <1>5 DEF Next, TrainerStep, Ended

\* put_sample stays within the capacity.
LEMMA PutTyped ==
    ASSUME QTyped, NEW x \in Samples \cup {None}, MQ!PutSample(x), UNCHANGED trainer
    PROVE  QTyped'
PROOF
<1> DEFINE kept == IF MQ!QueueFull THEN Tail(queue) ELSE queue
<1>1. MaxRequiredSamples \in Nat \ {0} /\ Len(queue) \in Nat
  BY RollouterAssumption, LenProperties DEF QTyped
<1>2. kept \in Seq(Samples \cup {None}) /\ Len(kept) < MaxRequiredSamples
  <2>1. CASE MQ!QueueFull
    <3>1. queue # <<>>
      BY <1>1, <2>1, EmptySeq DEF MQ!QueueFull
    <3> QED
      BY <1>1, <2>1, <3>1, HeadTailProperties DEF QTyped
  <2>2. CASE ~MQ!QueueFull
    BY <1>1, <2>2 DEF QTyped, MQ!QueueFull
  <2> QED
    BY <2>1, <2>2
<1>3. queue' = Append(kept, x)
  BY DEF MQ!PutSample
<1>4. queue' \in Seq(Samples \cup {None}) /\ Len(queue') <= MaxRequiredSamples
  <2> HIDE DEF kept
  <2> QED
    BY <1>1, <1>2, <1>3, AppendProperties, LenProperties
<1> QED
  BY <1>4 DEF QTyped, MQ!PutSample, MQ!NotifyAll

\* get_sample answers with the oldest entry or sleeps on an empty queue.
LEMMA GetTyped ==
    ASSUME QTyped, RequestSample \/ WakeTrainer
    PROVE  QTyped'
PROOF
<1> USE DEF QTyped
<1>1. ASSUME MQ!ReturnSample("trainer")
      PROVE  /\ queue' \in Seq(Samples \cup {None}) /\ Len(queue') <= MaxRequiredSamples
             /\ reply' \in [{"trainer"} -> Samples \cup {None, -2}]
             /\ UNCHANGED <<dropped_samples, mq_running>>
  <2>1. queue # <<>>
    BY <1>1 DEF MQ!ReturnSample
  <2>2. Len(queue) \in Nat /\ MaxRequiredSamples \in Nat
    BY RollouterAssumption, LenProperties
  <2>3. /\ queue' = Tail(queue)
        /\ reply' = [reply EXCEPT !["trainer"] = Head(queue)]
        /\ UNCHANGED <<dropped_samples, mq_running>>
    BY <1>1, <2>1 DEF MQ!ReturnSample
  <2>4. /\ Head(queue) \in Samples \cup {None}
        /\ Tail(queue) \in Seq(Samples \cup {None})
        /\ Len(Tail(queue)) = Len(queue) - 1
    BY <2>1, HeadTailProperties
  <2> QED
    BY <2>2, <2>3, <2>4
<1>2. ASSUME MQ!SleepUntilNotified("trainer")
      PROVE  /\ UNCHANGED <<queue, dropped_samples, mq_running>>
             /\ reply' \in [{"trainer"} -> Samples \cup {None, -2}]
             /\ waiting' = waiting \cup {"trainer"}
  BY <1>2 DEF MQ!SleepUntilNotified, MQ!queueVars
<1>3. CASE RequestSample
  BY <1>1, <1>2, <1>3 DEF RequestSample, MQ!GetSample, MQ!Outstanding
<1>4. CASE WakeTrainer
  BY <1>1, <1>2, <1>4 DEF WakeTrainer, MQ!ResumeGetSample, trainVars
<1> QED
  BY <1>3, <1>4

\* Every step keeps the queue well-formed.
LEMMA QNextPreserves == QTyped /\ [Next]_vars => QTyped'
PROOF
<1> SUFFICES ASSUME QTyped, [Next]_vars PROVE QTyped'
  OBVIOUS
<1>1. CASE UNCHANGED queueState /\ (trainer = "await" => trainer' = trainer \/ ReceiveSample)
  BY <1>1 DEF QTyped, queueState, ReceiveSample, MQ!Outstanding
<1>2. CASE UNCHANGED trainer /\ \E s \in Samples : TaskPut(s)
  BY <1>2, PutTyped DEF TaskPut
<1>3. CASE UNCHANGED trainer /\ MainFinish
  BY <1>3, PutTyped DEF MainFinish
<1>4. CASE RequestSample \/ WakeTrainer
  BY <1>4, GetTyped
<1>5. CASE ClearAndEnd
  <2>1. <<>> \in Seq(Samples \cup {None}) /\ Len(<<>>) = 0
    BY EmptySeq
  <2> QED
    BY <1>5, <2>1, RollouterAssumption DEF QTyped, ClearAndEnd, MQ!ClearQueue, MQ!callVars
<1> QED
  BY <1>1, <1>2, <1>3, <1>4, <1>5, QueueCalls

-----------------------------------------------------------------------------
(* The lock of the Rollouter *)

Lockers == {"proc", "main", "monitor", "pause", "update", "resume"}

\* Whoever is between its acquire and its release is the owner.
LockHeld ==
    /\ lock \in Seq(Lockers)
    /\ proc[1] = "wait" => Owns("proc")
    /\ pc["pause"] \in {"cancel", "gather", "clear"} => Owns("pause")
    /\ pc["update"] = "size" => Owns("update")
    /\ pc["resume"] = "servers" => Owns("resume")

\* Waiting for the lock does not change its owner, and taking a free lock
\* makes one.
LEMMA LockSteps ==
    ASSUME lock \in Seq(Lockers), NEW c \in Lockers
    PROVE  /\ <<c>> \in Seq(Lockers) /\ <<c>> # <<>> /\ Head(<<c>>) = c
           /\ Append(lock, c) \in Seq(Lockers) /\ Append(lock, c) # <<>>
           /\ lock = <<>> => Head(Append(lock, c)) = c
           /\ lock # <<>> => Head(Append(lock, c)) = Head(lock)
           /\ lock # <<>> => Tail(lock) \in Seq(Lockers)
PROOF
  BY AppendProperties, HeadTailAppend, HeadTailProperties, EmptySeq

\* Being notified moves the processor from the condition to "woken" only.
LEMMA NotifiedFacts ==
    ASSUME NEW p
    PROVE  /\ Notified(p)[1] = IF p[1] = "cond" THEN "woken" ELSE p[1]
           /\ Notified(p)[2] = p[2]
PROOF
  BY DEF Notified

\* The processor takes the lock when it is free or its turn has come, and
\* gives up only its own.
LEMMA ProcessorLock ==
    ASSUME VInv, LockHeld, ProcessorStep
    PROVE  LockHeld'
PROOF
<1> USE LockSteps DEF LockHeld, Owns, LockFree, Enqueue, Release, Lockers
<1>1. CASE ProcPause \/ ProcPauseLocked \/ ProcTake \/ ProcGot
  <2>1. UNCHANGED pc
    BY <1>1 DEF ProcPause, ProcPauseLocked, ProcTake, ProcGot
  <2>2. proc[1] # "wait" /\ proc'[1] # "wait"
    BY <1>1 DEF ProcPause, ProcPauseLocked, ProcTake, ProcGot, TakePending
  <2>3. \/ UNCHANGED lock
        \/ lock # <<>> /\ lock' = Append(lock, "proc")
        \/ Owns("proc") /\ lock' = Tail(lock)
    BY <1>1 DEF ProcPause, ProcPauseLocked, ProcTake, ProcGot
  <2> QED
    BY <2>1, <2>2, <2>3
<1>2. ASSUME NEW loop \in DrainLoops,
             ProcDrainTest(loop) \/ ProcDrainLocked(loop) \/ ProcDrainWake(loop)
      PROVE  LockHeld'
  <2>1. UNCHANGED pc
    BY <1>2 DEF ProcDrainTest, ProcDrainLocked, ProcDrainWake
  <2>2. \/ UNCHANGED lock /\ (proc'[1] # "wait" \/ Owns("proc"))
        \/ lock' = Append(lock, "proc") /\ (proc'[1] # "wait" \/ lock = <<>>) /\ proc[1] # "wait"
        \/ Owns("proc") /\ lock' = Tail(lock) /\ proc'[1] # "wait"
    BY <1>2 DEF ProcDrainTest, ProcDrainLocked, ProcDrainWake, AfterDrain, DrainLoops
  <2> QED
    BY <2>1, <2>2
<1>3. ASSUME NEW where \in {"sleep", "submit"},
             ProcEnter(where) \/ ProcEnterLocked(where) \/ ProcWoken(where)
      PROVE  LockHeld'
  <2>1. UNCHANGED pc
    BY <1>3 DEF ProcEnter, ProcEnterLocked, ProcWoken
  <2>2. proc[1] # "wait" /\ proc'[1] # "wait"
    BY <1>3 DEF ProcEnter, ProcEnterLocked, ProcWoken, UnderLock
  <2>3. \/ UNCHANGED lock
        \/ lock # <<>> /\ lock' = Append(lock, "proc")
        \/ Owns("proc") /\ lock' = Tail(lock)
    BY <1>3 DEF ProcEnter, ProcEnterLocked, ProcWoken
  <2> QED
    BY <2>1, <2>2, <2>3
<1> QED
  BY <1>1, <1>2, <1>3 DEF ProcessorStep

\* A coroutine that enters becomes the owner, and gives up its own lock only.
LEMMA CoroutineLock ==
    ASSUME VInv, LockHeld, CallStep \/ MonitorStep \/ MainStep
    PROVE  LockHeld'
PROOF
<1> USE LockSteps
    DEF LockHeld, Owns, LockFree, Enqueue, Release, Lockers, VInv, VTypes, Coroutines, Goto
<1>1. ASSUME NEW c \in {"pause", "update", "resume", "main"}, CallQueues(c)
      PROVE  LockHeld'
  BY <1>1 DEF CallQueues, procVars
<1>2. CASE PauseBegin
  BY <1>2 DEF PauseBegin, Entered, procVars, GatherOrFinish
<1>3. CASE PauseCancel \/ PauseGathered
  BY <1>3 DEF PauseCancel, PauseGathered, procVars, GatherOrFinish
<1>4. CASE PauseEnd
  BY <1>4 DEF PauseEnd, procVars
<1>5. CASE UpdateBegin
  BY <1>5 DEF UpdateBegin, Entered, procVars
<1>6. CASE UpdateEnd
  BY <1>6 DEF UpdateEnd, procVars
<1>7. CASE ResumeBegin
  <2>1. proc' = proc \/ proc' = Notified(proc)
    BY <1>7 DEF ResumeBegin, ResumeGeneration
  <2>2. (proc'[1] = "wait") <=> (proc[1] = "wait")
    BY <2>1, NotifiedFacts
  <2>3. CASE PartialRollout
    BY <1>7, <2>2, <2>3 DEF ResumeBegin, Entered
  <2>4. CASE ~PartialRollout
    BY <1>7, <2>2, <2>4 DEF ResumeBegin, ResumeGeneration, Entered
  <2> QED
    BY <2>3, <2>4
<1>8. CASE ResumeEnd
  <2>1. (proc'[1] = "wait") <=> (proc[1] = "wait")
    BY <1>8, NotifiedFacts DEF ResumeEnd, ResumeGeneration
  <2> QED
    BY <1>8, <2>1 DEF ResumeEnd, ResumeGeneration
<1>9. CASE MonitorWake
  <2>1. (proc'[1] = "wait") <=> (proc[1] = "wait")
    BY <1>9, NotifiedFacts DEF MonitorWake
  <2>2. /\ pc'["pause"] = pc["pause"] /\ pc'["update"] = pc["update"]
        /\ pc'["resume"] = pc["resume"]
    BY <1>9 DEF MonitorWake
  <2>3. UNCHANGED lock \/ (lock # <<>> /\ lock' = Append(lock, "monitor"))
    BY <1>9 DEF MonitorWake
  <2> QED
    BY <2>1, <2>2, <2>3
<1>10. CASE MonitorLocked
  <2>1. (proc'[1] = "wait") <=> (proc[1] = "wait")
    BY <1>10, NotifiedFacts DEF MonitorLocked
  <2> QED
    BY <1>10, <2>1 DEF MonitorLocked
<1>11. CASE MainFinish
  BY <1>11 DEF MainFinish, procVars
<1>12. CASE MainStop
  BY <1>12 DEF MainStop, Entered, procVars
<1> QED
  BY <1>1, <1>2, <1>3, <1>4, <1>5, <1>6, <1>7, <1>8, <1>9, <1>10, <1>11, <1>12
  DEF CallStep, MonitorStep, MainStep

\* Every step keeps the lock with its owner.
LEMMA LockNextPreserves == VInv /\ LockHeld /\ [Next]_vars => LockHeld'
PROOF
<1> SUFFICES ASSUME VInv, LockHeld, [Next]_vars PROVE LockHeld'
  OBVIOUS
<1>0. ASSUME UNCHANGED <<lock, proc, pc["pause"], pc["update"], pc["resume"]>> PROVE LockHeld'
  BY <1>0 DEF LockHeld, Owns
<1>1. CASE RollNext /\ UNCHANGED trainVars
  <2>1. CASE FeedSamples
    BY <1>0, <2>1 DEF FeedSamples, procVars, Goto, VInv, VTypes, Coroutines
  <2>2. CASE TaskStep
    BY <1>0, <2>2 DEF TaskStep, TaskReturns, TaskGenerated, TaskPut, TaskCancelled, TaskFails,
       procVars
  <2> QED
    BY <1>1, <2>1, <2>2, ProcessorLock, CoroutineLock DEF RollNext
<1>2. CASE LogValidation \/ RequestSample \/ WakeTrainer \/ ReceiveSample
           \/ TrainStep \/ FinalWait \/ FinalSync \/ ClearAndEnd
  BY <1>0, <1>2 DEF LogValidation, RequestSample, WakeTrainer, ReceiveSample, TrainStep,
     FinalWait, FinalSync, ClearAndEnd, rollVars
<1>3. CASE SyncPause \/ SyncTransfer \/ SyncReturn
  BY <1>3 DEF SyncPause, SyncTransfer, SyncReturn, LockHeld, Owns, procVars, Goto, VInv, VTypes,
     Coroutines
<1>4. CASE UNCHANGED vars
  BY <1>0, <1>4 DEF vars, rollVars
<1> QED
  BY <1>1, <1>2, <1>3, <1>4 DEF Next, TrainerStep, Ended

-----------------------------------------------------------------------------
(* The Rollouter's own state *)

\* The tasks, the counters and the flags have their types.
FTyped ==
    /\ pending_queue \in Seq(Samples \cup {DONE})
    /\ cancel_queue \in Seq(Samples)
    /\ fed \in 0..DONE
    /\ generating \subseteq Samples /\ putting \subseteq Samples
    /\ finished \in Nat /\ failed \in Nat /\ failures \in 0..MaxFailures
    /\ failed <= failures
    /\ staleness_samples \in Nat /\ counted \in Nat
    /\ done_bound \in BOOLEAN /\ servers_paused \in BOOLEAN
    /\ paused \in BOOLEAN /\ monitor_loop_trigger \in BOOLEAN /\ running \in BOOLEAN

\* The processor has a sample in hand exactly from taking to submitting it.
HandHeld ==
    /\ proc \in Places \X Spots
    /\ hand \in Samples \cup {NoSample}
    /\ proc[2] \in {"limit", "submit"} => hand \in Samples
    /\ proc[2] \notin {"limit", "submit", "crashed"} => hand = NoSample

PTyped == FTyped /\ HandHeld

\* Active tasks are counted.
LEMMA ActiveCountTyped == FTyped => ActiveCount \in Nat
PROOF
  BY SamplesFacts DEF FTyped, ActiveCount

\* The feed puts what is left or what fits, and at least one entry.
LEMMA FeedAdvances ==
    ASSUME PTyped, FeedSamples
    PROVE  \E n \in 1..(DONE - fed) :
              /\ pending_queue' = pending_queue \o [i \in 1..n |-> FeedItem(fed + i)]
              /\ fed' = fed + n
PROOF
<1> DEFINE room == PendingQueueSize - Len(pending_queue)
           left == DONE - fed
           n == IF room < left THEN room ELSE left
<1>1. /\ Len(pending_queue) \in Nat /\ DONE \in Nat /\ fed \in 0..DONE /\ PendingQueueSize \in Nat
  BY RollouterAssumption, SamplesFacts, LenProperties DEF PTyped, FTyped
<1>2. /\ n > 0 /\ fed' = fed + n
      /\ pending_queue' = pending_queue \o [i \in 1..n |-> FeedItem(fed + i)]
  BY DEF FeedSamples
<1>3. n \in 1..(DONE - fed)
  BY <1>1, <1>2
<1> HIDE DEF n
<1> QED
  BY <1>2, <1>3

LEMMA FeedTyped ==
    ASSUME PTyped, FeedSamples
    PROVE  PTyped'
PROOF
<1> PICK n \in 1..(DONE - fed) :
            /\ pending_queue' = pending_queue \o [i \in 1..n |-> FeedItem(fed + i)]
            /\ fed' = fed + n
  BY FeedAdvances
<1>1. DONE \in Nat /\ fed \in 0..DONE
  BY SamplesFacts DEF PTyped, FTyped
<1>2. fed' \in 0..DONE
  BY <1>1
<1>3. [i \in 1..n |-> FeedItem(fed + i)] \in Seq(Samples \cup {DONE})
  <2> DEFINE new == [i \in 1..n |-> FeedItem(fed + i)]
  <2>1. \A i \in 1..n : FeedItem(fed + i) \in Samples \cup {DONE}
    BY <1>1, SamplesFacts DEF FeedItem, Samples
  <2>2. new \in [1..n -> Samples \cup {DONE}]
    BY <2>1
  <2> HIDE DEF new
  <2>3. new \in Seq(Samples \cup {DONE})
    BY <1>1, <2>2
  <2> QED
    BY <2>3 DEF new
<1>4. pending_queue' \in Seq(Samples \cup {DONE})
  BY <1>3, ConcatProperties DEF PTyped, FTyped
<1> QED
  BY <1>2, <1>4 DEF PTyped, FTyped, HandHeld, FeedSamples, procVars, taskVars, flagVars, versionVars

\* What the processor takes it holds in its hand.
LEMMA ProcessorTyped ==
    ASSUME PTyped, ProcessorStep
    PROVE  PTyped'
PROOF
<1> USE DEF PTyped, HandHeld, Places, Spots
<1>1. CASE ProcPause \/ ProcPauseLocked
  <2>1. FTyped'
    BY <1>1 DEF ProcPause, ProcPauseLocked, FTyped, feedVars, taskVars, versionVars
  <2>2. /\ UNCHANGED hand /\ proc \in {<<"run", "top">>, <<"lock", "flag">>}
        /\ proc' \in {<<"run", "drain">>, <<"lock", "flag">>}
    BY <1>1 DEF ProcPause, ProcPauseLocked
  <2> QED
    BY <2>1, <2>2
<1>2. ASSUME TakePending
      PROVE  /\ pending_queue' \in Seq(Samples \cup {DONE})
             /\ staleness_samples' \in Nat \/ ~FTyped
             /\ \/ proc' = <<"run", "end">> /\ UNCHANGED hand
                \/ proc' = <<"run", "limit">> /\ hand' \in Samples
  <2>1. /\ Head(pending_queue) \in Samples \cup {DONE}
        /\ Tail(pending_queue) \in Seq(Samples \cup {DONE})
    BY <1>2, HeadTailProperties DEF TakePending, FTyped
  <2> QED
    BY <1>2, <2>1 DEF TakePending, FTyped
<1>3. CASE ProcGot
  BY <1>2, <1>3 DEF ProcGot, FTyped, taskVars, flagVars, versionVars
<1>4. CASE ProcTake
  <2>1. CASE cancel_queue # <<>>
    <3>1. Head(cancel_queue) \in Samples /\ Tail(cancel_queue) \in Seq(Samples)
      BY <2>1, HeadTailProperties DEF FTyped
    <3>2. /\ hand' = Head(cancel_queue) /\ cancel_queue' = Tail(cancel_queue)
          /\ proc' = <<"run", "limit">>
          /\ UNCHANGED <<pending_queue, staleness_samples, done_bound, fed, taskVars, flagVars,
                         versionVars>>
      BY <1>4, <2>1 DEF ProcTake
    <3>3. FTyped'
      BY <3>1, <3>2 DEF FTyped, taskVars, flagVars, versionVars
    <3> QED
      BY <3>1, <3>2, <3>3
  <2>2. CASE cancel_queue = <<>>
    <3>1. proc = <<"run", "top">>
      BY <1>4 DEF ProcTake
    <3>2. CASE TakePending /\ UNCHANGED cancel_queue
      BY <1>2, <1>4, <3>1, <3>2 DEF ProcTake, FTyped, taskVars, flagVars, versionVars
    <3>3. CASE ~TakePending
      BY <1>4, <2>2, <3>1, <3>3 DEF ProcTake, FTyped, taskVars, flagVars, versionVars
    <3> QED
      BY <1>4, <2>2, <3>2, <3>3 DEF ProcTake
  <2> QED
    BY <2>1, <2>2
<1>5. ASSUME NEW loop \in DrainLoops,
             ProcDrainTest(loop) \/ ProcDrainLocked(loop) \/ ProcDrainWake(loop)
      PROVE  PTyped'
  <2>1. CASE ProcDrainTest(loop)
    BY <1>5, <2>1 DEF ProcDrainTest, AfterDrain, DrainLoops, FTyped, feedVars, taskVars, flagVars,
       versionVars
  <2>2. CASE ProcDrainLocked(loop)
    BY <1>5, <2>2 DEF ProcDrainLocked, DrainLoops, FTyped, feedVars, taskVars, flagVars,
       versionVars
  <2>3. CASE ProcDrainWake(loop)
    BY <1>5, <2>3 DEF ProcDrainWake, DrainLoops, FTyped, feedVars, flagVars, versionVars
  <2> QED
    BY <1>5, <2>1, <2>2, <2>3
<1>6. ASSUME NEW where \in {"sleep", "submit"},
             ProcEnter(where) \/ ProcEnterLocked(where) \/ ProcWoken(where)
      PROVE  PTyped'
  BY <1>6 DEF ProcEnter, ProcEnterLocked, ProcWoken, UnderLock, FTyped, feedVars, taskVars,
     flagVars, versionVars
<1> QED
  BY <1>1, <1>3, <1>4, <1>5, <1>6 DEF ProcessorStep

\* A task moves its own sample.
LEMMA TaskTyped ==
    ASSUME PTyped, TaskStep
    PROVE  PTyped'
PROOF
<1> PICK s \in Samples : TaskReturns(s) \/ TaskFails(s)
  BY DEF TaskStep
<1> USE DEF PTyped, FTyped, HandHeld, procVars, feedVars, flagVars, versionVars
<1>1. CASE TaskGenerated(s)
  BY <1>1 DEF TaskGenerated
<1>2. CASE TaskPut(s)
  BY <1>2 DEF TaskPut
<1>3. CASE TaskCancelled(s)
  BY <1>3, AppendProperties DEF TaskCancelled
<1>4. CASE TaskFails(s)
  BY <1>4, RollouterAssumption DEF TaskFails
<1> QED
  BY <1>1, <1>2, <1>3, <1>4 DEF TaskReturns

\* The calls, the monitor and the end of fit set flags and counters.
LEMMA CoroutineTyped ==
    ASSUME PTyped, QTyped, CallStep \/ MonitorStep \/ MainStep
    PROVE  PTyped'
PROOF
<1>1. ActiveCount \in Nat /\ Len(cancel_queue) \in Nat /\ Len(queue) \in Nat
  BY ActiveCountTyped, LenProperties DEF PTyped, FTyped, QTyped
<1> USE DEF PTyped, FTyped, procVars, feedVars, taskVars, flagVars, versionVars
<1>2. ASSUME NEW c \in {"pause", "update", "resume", "main"}, CallQueues(c)
      PROVE  PTyped'
  BY <1>2 DEF CallQueues, HandHeld
<1>3. CASE PauseBegin \/ PauseCancel \/ PauseGathered \/ PauseEnd
  <2>1. FTyped'
    <3>1. CASE PauseBegin
      BY <3>1 DEF PauseBegin
    <3>2. CASE PauseCancel
      BY <3>2 DEF PauseCancel
    <3>3. CASE PauseGathered
      BY <3>3 DEF PauseGathered
    <3>4. CASE PauseEnd
      BY <3>4 DEF PauseEnd
    <3> QED
      BY <1>3, <3>1, <3>2, <3>3, <3>4
  <2>2. UNCHANGED <<proc, hand>>
    BY <1>3 DEF PauseBegin, PauseCancel, PauseGathered, PauseEnd
  <2> QED
    BY <2>1, <2>2 DEF HandHeld
<1>4. CASE UpdateBegin
  BY <1>1, <1>4 DEF UpdateBegin, HandHeld
<1>5. CASE UpdateEnd
  BY <1>1, <1>5 DEF UpdateEnd, StalenessAfterUpdate, HandHeld
<1>6. CASE MainFinish \/ MainStop
  BY <1>6 DEF MainFinish, MainStop, HandHeld
<1>7. CASE ResumeBegin \/ ResumeEnd \/ MonitorWake \/ MonitorLocked
  <2>1. FTyped'
    BY <1>7 DEF ResumeBegin, ResumeEnd, ResumeGeneration, MonitorWake, MonitorLocked
  <2>2. (proc' = proc \/ proc' = Notified(proc)) /\ UNCHANGED hand
    BY <1>7 DEF ResumeBegin, ResumeEnd, ResumeGeneration, MonitorWake, MonitorLocked
  <2>3. proc' \in Places \X Spots /\ proc'[2] = proc[2]
    BY <2>2 DEF Notified, HandHeld, Places
  <2> QED
    BY <2>1, <2>2, <2>3 DEF HandHeld
<1> QED
  BY <1>2, <1>3, <1>4, <1>5, <1>6, <1>7 DEF CallStep, MonitorStep, MainStep

\* The trainer touches the Rollouter's program counters and weights only.
LEMMA TrainerLeavesRollouter ==
    ASSUME TrainerStep
    PROVE  UNCHANGED <<procVars, lock, feedVars, taskVars, cancel_queue, staleness_samples,
                       flagVars, current_param_version, counted, servers_paused>>
PROOF
  BY DEF TrainerStep, LogValidation, RequestSample, WakeTrainer, ReceiveSample, TrainStep,
     FinalWait, FinalSync, SyncPause, SyncTransfer, SyncReturn, ClearAndEnd, rollVars, procVars,
     feedVars, taskVars, flagVars, versionVars

LEMMA PNextPreserves == QTyped /\ PTyped /\ [Next]_vars => PTyped'
PROOF
<1> SUFFICES ASSUME QTyped, PTyped, [Next]_vars PROVE PTyped'
  OBVIOUS
<1>1. CASE RollNext
  BY <1>1, FeedTyped, ProcessorTyped, TaskTyped, CoroutineTyped DEF RollNext
<1>2. CASE TrainerStep
  BY <1>2, TrainerLeavesRollouter DEF PTyped, FTyped, HandHeld, procVars, feedVars, taskVars,
     flagVars
<1>3. CASE UNCHANGED vars
  BY <1>3 DEF vars, rollVars, PTyped, FTyped, HandHeld
<1> QED
  BY <1>1, <1>2, <1>3 DEF Next, Ended

-----------------------------------------------------------------------------
(* The limit on active tasks, and the finish signal *)

Running == Cardinality(generating) + Cardinality(putting)

\* Tasks that are done but not yet removed count as active.  After the end
\* of the processor one task less than the limit can still be running.
TaskLimit ==
    /\ ActiveCount <= MaxConcurrentSamples
    /\ proc[2] = "submit" => ActiveCount < MaxConcurrentSamples
    /\ proc[1] = "end" => Running < MaxConcurrentSamples

\* The finish signal is put when the processor is over, and has enough room
\* behind it for the samples of all tasks still running: it is never the
\* oldest entry of a full queue into which a sample is put.
FinishKept ==
    /\ pc["main"] # "wait" => proc[1] = "end"
    /\ pc["main"] = "wait" => \A i \in DOMAIN queue : queue[i] # None
    /\ \A i \in DOMAIN queue :
          queue[i] = None => (Len(queue) - i) + Running < MaxConcurrentSamples

\* The four counts are numbers.
LEMMA TaskCounts ==
    ASSUME PTyped
    PROVE  /\ Cardinality(generating) \in Nat /\ Cardinality(putting) \in Nat
           /\ IsFiniteSet(generating) /\ IsFiniteSet(putting)
           /\ finished \in Nat /\ failed \in Nat
           /\ MaxConcurrentSamples \in Nat \ {0} /\ MaxConcurrentSamples <= MaxRequiredSamples
           /\ MaxRequiredSamples \in Nat
PROOF
  BY SamplesFacts, RollouterAssumption DEF PTyped, FTyped

\* The processor submits a sample only below the limit.
LEMMA ProcessorLimit ==
    ASSUME PTyped, TaskLimit, ProcessorStep
    PROVE  TaskLimit' /\ proc[1] # "end"
PROOF
<1>0. /\ Cardinality(generating) \in Nat /\ Cardinality(putting) \in Nat
      /\ IsFiniteSet(generating)
      /\ finished \in Nat /\ failed \in Nat /\ MaxConcurrentSamples \in Nat \ {0}
  BY TaskCounts
<1> USE <1>0 DEF TaskLimit, ActiveCount, Running
<1>1. CASE ProcPause \/ ProcPauseLocked \/ ProcTake \/ ProcGot
  BY <1>1 DEF ProcPause, ProcPauseLocked, ProcTake, ProcGot, TakePending, taskVars
<1>2. ASSUME NEW loop \in DrainLoops, ProcDrainTest(loop)
      PROVE  TaskLimit' /\ proc[1] # "end"
  <2>1. UNCHANGED <<generating, putting, finished, failed>> /\ proc = <<"run", loop>>
    BY <1>2 DEF ProcDrainTest, taskVars
  <2>2. \/ proc'[1] # "end" /\ proc'[2] # "submit"
        \/ proc' = AfterDrain(loop) /\ ~MustDrain(loop)
    BY <1>2 DEF ProcDrainTest, DrainLoops
  <2> QED
    BY <2>1, <2>2 DEF AfterDrain, MustDrain, DrainLoops
<1>3. ASSUME NEW loop \in DrainLoops, ProcDrainLocked(loop)
      PROVE  TaskLimit' /\ proc[1] # "end"
  <2>1. UNCHANGED <<generating, putting, finished, failed>> /\ proc = <<"lock", loop>>
    BY <1>3 DEF ProcDrainLocked, taskVars
  <2>2. \/ proc'[1] # "end" /\ proc'[2] # "submit"
        \/ ActiveCount = 0
    BY <1>3 DEF ProcDrainLocked, DrainLoops
  <2> QED
    BY <2>1, <2>2
<1>4. ASSUME NEW loop \in DrainLoops, ProcDrainWake(loop)
      PROVE  TaskLimit' /\ proc[1] # "end"
  <2>1. /\ UNCHANGED <<generating, putting>> /\ finished' = 0 /\ failed' = 0
        /\ finished + failed > 0 /\ proc = <<"wait", loop>>
    BY <1>4 DEF ProcDrainWake
  <2>2. proc'[2] # "submit"
    BY <1>4 DEF ProcDrainWake, DrainLoops
  <2> QED
    BY <2>1, <2>2
<1>5. ASSUME NEW where \in {"sleep", "submit"},
             ProcEnter(where) \/ ProcEnterLocked(where) \/ ProcWoken(where)
      PROVE  TaskLimit' /\ proc[1] # "end"
  <2>1. /\ UNCHANGED <<putting, finished, failed>>
        /\ proc[1] # "end" /\ proc'[1] # "end" /\ proc[2] = where
    BY <1>5 DEF ProcEnter, ProcEnterLocked, ProcWoken, UnderLock, taskVars
  <2>2. \/ UNCHANGED generating /\ (proc'[2] = "submit" => proc[2] = "submit")
        \/ where = "submit" /\ generating' = generating \cup {hand} /\ proc'[2] = "top"
    BY <1>5 DEF ProcEnter, ProcEnterLocked, ProcWoken, UnderLock, taskVars
  <2>3. /\ Cardinality(generating \cup {hand}) \in Nat
        /\ Cardinality(generating \cup {hand}) <= Cardinality(generating) + 1
    BY <1>0, AddCounts
  <2>4. CASE UNCHANGED generating /\ (proc'[2] = "submit" => proc[2] = "submit")
    BY <2>1, <2>4
  <2>5. CASE where = "submit" /\ generating' = generating \cup {hand} /\ proc'[2] = "top"
    <3>1. ActiveCount < MaxConcurrentSamples
      BY <2>1, <2>5
    <3>2. ActiveCount' <= ActiveCount + 1 /\ ActiveCount' \in Int
      BY <1>0, <2>1, <2>3, <2>5
    <3> QED
      BY <1>0, <2>1, <2>5, <3>1, <3>2
  <2> QED
    BY <2>2, <2>4, <2>5
<1> QED
  BY <1>1, <1>2, <1>3, <1>4, <1>5 DEF ProcessorStep

\* A task that goes on or ends adds none, and one that has put its sample is
\* not running any more.
LEMMA TaskEffects ==
    ASSUME PTyped, NEW s \in Samples, TaskReturns(s) \/ TaskFails(s)
    PROVE  /\ ActiveCount' <= ActiveCount /\ ActiveCount' \in Int
           /\ Running' \in Nat
           /\ Running' <= Running
           /\ TaskPut(s) => Running' <= Running - 1
           /\ UNCHANGED <<proc, pc>>
PROOF
<1>0. /\ Cardinality(generating) \in Nat /\ Cardinality(putting) \in Nat
      /\ IsFiniteSet(generating) /\ IsFiniteSet(putting)
      /\ finished \in Nat /\ failed \in Nat
  BY TaskCounts
<1>1. /\ Cardinality(putting \cup {s}) \in Nat
      /\ Cardinality(putting \cup {s}) <= Cardinality(putting) + 1
  BY <1>0, AddCounts
<1>2. s \in generating => /\ Cardinality(generating \ {s}) = Cardinality(generating) - 1
                          /\ Cardinality(generating \ {s}) \in Nat
  BY <1>0, FS_RemoveElement, FS_CardinalityType
<1>3. s \in putting => /\ Cardinality(putting \ {s}) = Cardinality(putting) - 1
                       /\ Cardinality(putting \ {s}) \in Nat
  BY <1>0, FS_RemoveElement, FS_CardinalityType
<1>4. UNCHANGED <<proc, pc>>
  BY DEF TaskReturns, TaskGenerated, TaskPut, TaskCancelled, TaskFails, procVars
<1>5. TaskPut(s) => /\ ActiveCount' <= ActiveCount /\ ActiveCount' \in Int
                    /\ Running' \in Nat /\ Running' <= Running - 1
  BY <1>0, <1>3 DEF TaskPut, ActiveCount, Running
<1>6. CASE TaskGenerated(s)
  BY <1>0, <1>1, <1>2, <1>4, <1>5, <1>6 DEF TaskGenerated, ActiveCount, Running
<1>7. CASE TaskCancelled(s) \/ TaskFails(s)
  <2>1. /\ s \in generating /\ generating' = generating \ {s} /\ UNCHANGED putting
        /\ \/ finished' = finished + 1 /\ UNCHANGED failed
           \/ failed' = failed + 1 /\ UNCHANGED finished
    BY <1>7 DEF TaskCancelled, TaskFails
  <2> QED
    BY <1>0, <1>2, <1>4, <1>5, <2>1 DEF ActiveCount, Running
<1>8. CASE TaskPut(s)
  BY <1>0, <1>4, <1>5, <1>8 DEF Running
<1> QED
  BY <1>6, <1>7, <1>8 DEF TaskReturns

\* Calls, monitor and the end of fit start no task; the monitor and resume
\* only notify the processor.
LEMMA CoroutineEffects ==
    ASSUME VInv, PTyped, FeedSamples \/ CallStep \/ MonitorStep \/ MainStep
    PROVE  /\ UNCHANGED <<generating, putting>>
           /\ \/ UNCHANGED <<finished, failed>>
              \/ finished' = 0 /\ failed' = 0
           /\ proc' = proc \/ proc' = Notified(proc)
           /\ pc'["main"] = "wait" <=> (pc["main"] = "wait" /\ ~MainFinish)
PROOF
<1> USE DEF VInv, VTypes, Coroutines, Goto
<1>1. CASE FeedSamples
  BY <1>1 DEF FeedSamples, MainFinish, procVars, taskVars
<1>2. ASSUME NEW c \in {"pause", "update", "resume", "main"}, CallQueues(c)
      PROVE  /\ UNCHANGED <<generating, putting, finished, failed, proc>>
             /\ pc'["main"] = "wait" <=> pc["main"] = "wait"
             /\ ~MainFinish
  BY <1>2 DEF CallQueues, MainFinish, procVars, taskVars
<1>3. CASE PauseBegin \/ PauseCancel \/ PauseGathered \/ PauseEnd
  BY <1>3 DEF PauseBegin, PauseCancel, PauseGathered, PauseEnd, MainFinish, procVars, taskVars
<1>4. CASE UpdateBegin \/ UpdateEnd
  BY <1>4 DEF UpdateBegin, UpdateEnd, MainFinish, procVars, taskVars
<1>5. CASE ResumeBegin \/ ResumeEnd
  BY <1>5 DEF ResumeBegin, ResumeEnd, ResumeGeneration, MainFinish, taskVars
<1>6. CASE MonitorStep
  BY <1>6 DEF MonitorStep, MonitorWake, MonitorLocked, MainFinish, taskVars
<1>7. CASE MainFinish
  BY <1>7 DEF MainFinish, procVars, taskVars
<1>8. CASE MainStop
  BY <1>8 DEF MainStop, MainFinish, Entered, procVars, taskVars
<1> QED
  BY <1>1, <1>2, <1>3, <1>4, <1>5, <1>6, <1>7, <1>8 DEF CallStep, MainStep

\* Every step keeps the limit on tasks.
LEMMA LimitNextPreserves == VInv /\ PTyped /\ TaskLimit /\ [Next]_vars => TaskLimit'
PROOF
<1> SUFFICES ASSUME VInv, PTyped, TaskLimit, [Next]_vars PROVE TaskLimit'
  OBVIOUS
<1>0. /\ Cardinality(generating) \in Nat /\ Cardinality(putting) \in Nat
      /\ finished \in Nat /\ failed \in Nat /\ MaxConcurrentSamples \in Nat
  BY TaskCounts
<1>1. CASE FeedSamples \/ CallStep \/ MonitorStep \/ MainStep
  <2>1. proc'[1] = "end" <=> proc[1] = "end"
    BY <1>1, CoroutineEffects, NotifiedFacts
  <2>2. proc'[2] = proc[2]
    BY <1>1, CoroutineEffects, NotifiedFacts
  <2>3. ActiveCount' <= ActiveCount /\ ActiveCount' \in Int /\ Running' = Running
    BY <1>0, <1>1, CoroutineEffects DEF ActiveCount, Running
  <2> QED
    BY <1>0, <2>1, <2>2, <2>3 DEF TaskLimit, ActiveCount
<1>2. CASE ProcessorStep
  BY <1>2, ProcessorLimit
<1>3. CASE TaskStep
  <2> PICK s \in Samples : TaskReturns(s) \/ TaskFails(s)
    BY <1>3 DEF TaskStep
  <2>1. /\ ActiveCount' <= ActiveCount /\ ActiveCount' \in Int
        /\ Running' \in Nat /\ Running' <= Running /\ UNCHANGED proc
    BY TaskEffects
  <2>2. ActiveCount \in Int /\ Running \in Int
    BY <1>0 DEF ActiveCount, Running
  <2> HIDE DEF ActiveCount, Running
  <2> QED
    BY <1>0, <2>1, <2>2 DEF TaskLimit
<1>4. CASE TrainerStep \/ UNCHANGED vars
  <2>1. UNCHANGED <<proc, generating, putting, finished, failed>>
    BY <1>4, TrainerLeavesRollouter DEF vars, rollVars, procVars, taskVars
  <2> QED
    BY <2>1 DEF TaskLimit, ActiveCount, Running
<1> QED
  BY <1>1, <1>2, <1>3, <1>4 DEF Next, RollNext, Ended

\* Where the entries are after put_sample.
LEMMA PutShifts ==
    ASSUME QTyped, NEW x \in Samples \cup {None}, MQ!PutSample(x)
    PROVE  LET d == IF MQ!QueueFull THEN 1 ELSE 0
           IN  /\ DOMAIN queue' = 1..Len(queue') /\ DOMAIN queue = 1..Len(queue)
               /\ Len(queue') \in Nat /\ Len(queue) \in Nat
               /\ Len(queue') = Len(queue) + 1 - d
               /\ queue'[Len(queue')] = x
               /\ \A i \in 1..(Len(queue') - 1) : i + d \in 1..Len(queue) /\ queue'[i] = queue[i + d]
PROOF
<1> DEFINE kept == IF MQ!QueueFull THEN Tail(queue) ELSE queue
           d == IF MQ!QueueFull THEN 1 ELSE 0
<1>1. /\ MaxRequiredSamples \in Nat \ {0} /\ Len(queue) \in Nat /\ DOMAIN queue = 1..Len(queue)
      /\ queue \in Seq(Samples \cup {None})
  BY RollouterAssumption, LenProperties DEF QTyped
<1>2. /\ kept \in Seq(Samples \cup {None}) /\ Len(kept) = Len(queue) - d
      /\ \A i \in 1..Len(kept) : i + d \in 1..Len(queue) /\ kept[i] = queue[i + d]
  <2>1. CASE MQ!QueueFull
    <3>1. queue # <<>>
      BY <1>1, <2>1, EmptySeq DEF MQ!QueueFull
    <3> QED
      BY <1>1, <2>1, <3>1, HeadTailProperties
  <2>2. CASE ~MQ!QueueFull
    BY <1>1, <2>2
  <2> QED
    BY <2>1, <2>2
<1>3. queue' = Append(kept, x)
  BY DEF MQ!PutSample
<1> HIDE DEF kept
<1>4. /\ queue' \in Seq(Samples \cup {None}) /\ Len(queue') = Len(kept) + 1
      /\ \A i \in 1..Len(kept) : queue'[i] = kept[i]
      /\ queue'[Len(kept) + 1] = x
  BY <1>2, <1>3, AppendProperties
<1>5. DOMAIN queue' = 1..Len(queue') /\ Len(queue') \in Nat
  BY <1>4, LenProperties
<1>6. Len(kept) = Len(queue') - 1 /\ Len(kept) \in Nat
  BY <1>2, <1>4, LenProperties
<1> HIDE DEF d
<1>7. Len(queue') = Len(queue) + 1 - d /\ queue'[Len(queue')] = x
  <2>1. d \in Int
    BY DEF d
  <2> QED
    BY <1>1, <1>2, <1>4, <1>5, <1>6, <2>1
<1>8. \A i \in 1..(Len(queue') - 1) : i + d \in 1..Len(queue) /\ queue'[i] = queue[i + d]
  BY <1>2, <1>4, <1>6
<1> QED
  BY <1>1, <1>5, <1>7, <1>8 DEF d

\* Every step keeps room behind the finish signal.
LEMMA FinishNextPreserves ==
    VInv /\ QTyped /\ PTyped /\ TaskLimit /\ FinishKept /\ [Next]_vars => FinishKept'
PROOF
<1> SUFFICES ASSUME VInv, QTyped, PTyped, TaskLimit, FinishKept, [Next]_vars PROVE FinishKept'
  OBVIOUS
<1>0. /\ Cardinality(generating) \in Nat /\ Cardinality(putting) \in Nat
      /\ MaxConcurrentSamples \in Nat /\ Running \in Nat
      /\ None \notin Samples
  BY TaskCounts, SamplesFacts DEF Running
<1>1. ASSUME NEW x \in Samples \cup {None}, MQ!PutSample(x), Running' \in Nat,
             proc'[1] = proc[1],
             \/ x \in Samples /\ Running' <= Running - 1 /\ UNCHANGED pc
             \/ /\ x = None /\ Running' <= Running
                /\ pc["main"] = "wait" /\ pc'["main"] # "wait" /\ proc[1] = "end"
      PROVE  FinishKept'
  <2> DEFINE d == IF MQ!QueueFull THEN 1 ELSE 0
  <2>1. /\ DOMAIN queue' = 1..Len(queue') /\ DOMAIN queue = 1..Len(queue)
        /\ Len(queue') \in Nat /\ Len(queue) \in Nat
        /\ Len(queue') = Len(queue) + 1 - d
        /\ queue'[Len(queue')] = x
        /\ \A i \in 1..(Len(queue') - 1) : i + d \in 1..Len(queue) /\ queue'[i] = queue[i + d]
    BY <1>1, PutShifts
  <2>2. d \in {0, 1}
    OBVIOUS
  <2> HIDE DEF d
  <2>3. ASSUME NEW i \in 1..(Len(queue') - 1), queue'[i] = None
        PROVE  /\ pc["main"] # "wait"
               /\ (Len(queue') - i) + Running' < MaxConcurrentSamples
    <3>1. /\ i + d \in DOMAIN queue /\ queue[i + d] = None
      BY <2>1, <2>3
    <3>2. pc["main"] # "wait" /\ (Len(queue) - (i + d)) + Running < MaxConcurrentSamples
      BY <3>1 DEF FinishKept
    <3> QED
      BY <1>0, <1>1, <2>1, <2>2, <3>1, <3>2
  <2>4. ASSUME queue'[Len(queue')] = None, Len(queue') \in 1..Len(queue')
        PROVE  pc'["main"] # "wait" /\ Running' < MaxConcurrentSamples
    BY <1>0, <1>1, <2>1, <2>4 DEF TaskLimit
  <2>5. \A i \in DOMAIN queue' : i \in 1..(Len(queue') - 1) \/ i = Len(queue')
    BY <2>1
  <2>6. ASSUME NEW i \in DOMAIN queue', queue'[i] = None
        PROVE  pc'["main"] # "wait" /\ (Len(queue') - i) + Running' < MaxConcurrentSamples
    BY <1>1, <2>1, <2>3, <2>4, <2>5, <2>6, <1>0
  <2>7. pc'["main"] # "wait" => proc'[1] = "end"
    BY <1>1 DEF FinishKept
  <2> QED
    BY <2>6, <2>7 DEF FinishKept
<1>2. ASSUME UNCHANGED <<queue, pc["main"]>>, Running' \in Nat,
             \/ Running' <= Running
             \/ proc[1] # "end",
             proc[1] = "end" => proc'[1] = "end"
      PROVE  FinishKept'
  <2>1. \A i \in DOMAIN queue : Len(queue) - i \in Int
    BY LenProperties DEF QTyped
  <2> QED
    BY <1>0, <1>2, <2>1 DEF FinishKept
<1>3. ASSUME UNCHANGED <<pc, proc, Running>>, queue # <<>>, queue' = Tail(queue)
      PROVE  FinishKept'
  <2>1. /\ Len(queue) \in Nat /\ Len(queue') = Len(queue) - 1
        /\ DOMAIN queue = 1..Len(queue) /\ DOMAIN queue' = 1..Len(queue')
        /\ \A i \in 1..Len(queue') : queue'[i] = queue[i + 1]
    BY <1>3, HeadTailProperties, LenProperties DEF QTyped
  <2>2. \A i \in DOMAIN queue' : /\ i + 1 \in DOMAIN queue
                                 /\ Len(queue') - i = Len(queue) - (i + 1)
    BY <2>1
  <2> QED
    BY <1>3, <2>1, <2>2 DEF FinishKept
<1>4. CASE FeedSamples \/ CallStep \/ MonitorStep \/ MainStep
  <2>1. Running' = Running /\ (proc'[1] = "end" <=> proc[1] = "end")
    BY <1>4, CoroutineEffects, NotifiedFacts DEF Running
  <2>2. CASE MainFinish
    BY <1>0, <1>1, <1>4, <2>1, <2>2 DEF MainFinish, VInv, VTypes, Coroutines, Goto, procVars
  <2>3. CASE ~MainFinish
    <3>1. UNCHANGED queue
      BY <1>4, <2>3 DEF FeedSamples, CallStep, CallQueues, PauseBegin, PauseCancel, PauseGathered,
         PauseEnd, UpdateBegin, UpdateEnd, MQ!PutValidate, MQ!queueVars, ResumeBegin, ResumeEnd,
         MonitorStep, MonitorWake, MonitorLocked, MainStep, MainStop, mqVars
    <3>2. pc'["main"] = "wait" <=> pc["main"] = "wait"
      BY <1>4, <2>3, CoroutineEffects
    <3> QED
      BY <1>0, <2>1, <3>1, <3>2 DEF FinishKept
  <2> QED
    BY <2>2, <2>3
<1>5. CASE ProcessorStep
  <2>1. UNCHANGED <<pc, queue>>
    <3>1. CASE ProcPause \/ ProcPauseLocked \/ ProcTake \/ ProcGot
      BY <3>1 DEF ProcPause, ProcPauseLocked, ProcTake, ProcGot, mqVars
    <3>2. ASSUME NEW loop \in DrainLoops,
                 ProcDrainTest(loop) \/ ProcDrainLocked(loop) \/ ProcDrainWake(loop)
          PROVE  UNCHANGED <<pc, queue>>
      BY <3>2 DEF ProcDrainTest, ProcDrainLocked, ProcDrainWake, mqVars
    <3>3. ASSUME NEW where \in {"sleep", "submit"},
                 ProcEnter(where) \/ ProcEnterLocked(where) \/ ProcWoken(where)
          PROVE  UNCHANGED <<pc, queue>>
      BY <3>3 DEF ProcEnter, ProcEnterLocked, ProcWoken, mqVars
    <3> QED
      BY <1>5, <3>1, <3>2, <3>3 DEF ProcessorStep
  <2>2. proc[1] # "end"
    BY <1>5, ProcessorLimit
  <2> QED
    BY <2>1, <2>2 DEF FinishKept
<1>6. CASE TaskStep
  <2> PICK s \in Samples : TaskReturns(s) \/ TaskFails(s)
    BY <1>6 DEF TaskStep
  <2>1. /\ Running' \in Nat /\ Running' <= Running /\ (TaskPut(s) => Running' <= Running - 1)
        /\ UNCHANGED <<proc, pc>>
    BY TaskEffects
  <2>2. CASE TaskPut(s)
    BY <1>1, <2>1, <2>2 DEF TaskPut
  <2>3. CASE ~TaskPut(s)
    <3>1. UNCHANGED queue
      BY <2>3 DEF TaskReturns, TaskGenerated, TaskCancelled, TaskFails, mqVars
    <3> QED
      BY <1>2, <2>1, <3>1
  <2> QED
    BY <2>2, <2>3
<1>7. CASE TrainerStep \/ UNCHANGED vars
  <2>1. UNCHANGED <<proc, generating, putting>> /\ Running' = Running
    BY <1>7, TrainerLeavesRollouter DEF vars, rollVars, procVars, taskVars, Running
  <2>2. UNCHANGED pc["main"]
    BY <1>7 DEF TrainerStep, LogValidation, RequestSample, WakeTrainer, ReceiveSample, TrainStep,
       FinalWait, FinalSync, SyncPause, SyncTransfer, SyncReturn, ClearAndEnd, Goto, rollVars,
       vars, VInv, VTypes, Coroutines
  <2>3. \/ UNCHANGED queue
        \/ queue # <<>> /\ queue' = Tail(queue) /\ UNCHANGED pc
        \/ queue' = <<>>
    <3>1. CASE RequestSample \/ WakeTrainer
      BY <3>1 DEF RequestSample, WakeTrainer, MQ!GetSample, MQ!ResumeGetSample, MQ!ReturnSample,
         MQ!SleepUntilNotified, MQ!queueVars, rollVars
    <3>2. CASE ~(RequestSample \/ WakeTrainer)
      BY <1>7, <3>2 DEF TrainerStep, LogValidation, ReceiveSample, TrainStep, FinalWait, FinalSync,
         SyncPause, SyncTransfer, SyncReturn, ClearAndEnd, MQ!GetValidate, MQ!UpdateParamVersion,
         MQ!ClearQueue, MQ!queueVars, mqVars, vars
    <3> QED
      BY <3>1, <3>2
  <2>4. CASE queue' = <<>>
    BY <2>1, <2>2, <2>4 DEF FinishKept
  <2> QED
    BY <1>0, <1>2, <1>3, <2>1, <2>2, <2>3, <2>4
<1> QED
  BY <1>4, <1>5, <1>6, <1>7 DEF Next, RollNext, Ended

-----------------------------------------------------------------------------
(* How samples move *)

heldState == <<pending_queue, hand, generating, putting, cancel_queue, queue, Arriving, batch,
               trained, fed, dropped_samples, failures>>

MoveFeed ==
    /\ FeedSamples
    /\ UNCHANGED <<hand, generating, putting, cancel_queue, queue, Arriving, batch, trained,
                   dropped_samples, failures>>

MoveTake ==
    /\ pending_queue # <<>> /\ pending_queue' = Tail(pending_queue)
    /\ hand = NoSample
    /\ hand' = IF Head(pending_queue) = DONE THEN NoSample ELSE Head(pending_queue)
    /\ UNCHANGED <<generating, putting, cancel_queue, queue, Arriving, batch, trained, fed,
                   dropped_samples, failures>>

MoveTakeAgain ==
    /\ cancel_queue # <<>> /\ cancel_queue' = Tail(cancel_queue)
    /\ hand = NoSample /\ hand' = Head(cancel_queue)
    /\ UNCHANGED <<pending_queue, generating, putting, queue, Arriving, batch, trained, fed,
                   dropped_samples, failures>>

MoveSubmit ==
    /\ hand \in Samples /\ hand' = NoSample
    /\ generating' = generating \cup {hand}
    /\ UNCHANGED <<pending_queue, putting, cancel_queue, queue, Arriving, batch, trained, fed,
                   dropped_samples, failures>>

MoveGenerated(s) ==
    /\ s \in generating /\ generating' = generating \ {s} /\ putting' = putting \cup {s}
    /\ UNCHANGED <<pending_queue, hand, cancel_queue, queue, Arriving, batch, trained, fed,
                   dropped_samples, failures>>

MoveCancelled(s) ==
    /\ s \in generating /\ generating' = generating \ {s}
    /\ cancel_queue' = Append(cancel_queue, s)
    /\ UNCHANGED <<pending_queue, hand, putting, queue, Arriving, batch, trained, fed,
                   dropped_samples, failures>>

MoveFailed(s) ==
    /\ s \in generating /\ generating' = generating \ {s} /\ failures' = failures + 1
    /\ UNCHANGED <<pending_queue, hand, putting, cancel_queue, queue, Arriving, batch, trained,
                   fed, dropped_samples>>

MovePut(x) ==
    /\ MQ!PutSample(x)
    /\ IF x = None THEN pc["main"] = "wait" /\ UNCHANGED putting
       ELSE x \in putting /\ putting' = putting \ {x}
    /\ UNCHANGED <<pending_queue, hand, generating, cancel_queue, Arriving, batch, trained, fed,
                   failures>>

MoveGet ==
    /\ queue # <<>> /\ queue' = Tail(queue)
    /\ Arriving = {} /\ Arriving' = {Head(queue)} \cap Samples
    /\ UNCHANGED <<pending_queue, hand, generating, putting, cancel_queue, batch, trained, fed,
                   dropped_samples, failures>>

MoveReceive(s) ==
    /\ Arriving = {s} /\ Arriving' = {}
    /\ batch' = batch \cup {s}
    /\ UNCHANGED <<pending_queue, hand, generating, putting, cancel_queue, queue, trained, fed,
                   dropped_samples, failures>>

MoveTrain ==
    /\ trained' = trained \cup batch /\ batch' = {}
    /\ UNCHANGED <<pending_queue, hand, generating, putting, cancel_queue, queue, Arriving, fed,
                   dropped_samples, failures>>

MoveClear ==
    /\ queue' = <<>> /\ trainer' = "ended"
    /\ UNCHANGED <<pending_queue, hand, generating, putting, cancel_queue, Arriving, batch,
                   trained, fed, dropped_samples, failures>>

\* What Rollouter steps leave with the trainer.
LEMMA RollouterKeepsTrainer ==
    ASSUME UNCHANGED trainVars, UNCHANGED <<waiting \cup woken, reply>>
    PROVE  UNCHANGED <<Arriving, batch, trained>>
PROOF
  BY DEF trainVars, Arriving, MQ!Outstanding

\* What the processor moves.
LEMMA ProcessorMoves ==
    ASSUME PTyped, ProcessorStep, UNCHANGED trainVars
    PROVE  UNCHANGED heldState \/ MoveTake \/ MoveTakeAgain \/ MoveSubmit
PROOF
<1> USE DEF heldState
<1>1. CASE ProcPause \/ ProcPauseLocked
  BY <1>1, RollouterKeepsTrainer DEF ProcPause, ProcPauseLocked, feedVars, taskVars, mqVars
<1>2. CASE ProcTake \/ ProcGot
  <2>1. hand = NoSample
    BY <1>2 DEF ProcTake, ProcGot, PTyped, HandHeld
  <2>2. UNCHANGED <<generating, putting, queue, Arriving, batch, trained, fed, dropped_samples,
                    failures>>
    BY <1>2, RollouterKeepsTrainer DEF ProcTake, ProcGot, taskVars, mqVars
  <2> QED
    BY <1>2, <2>1, <2>2 DEF ProcTake, ProcGot, TakePending, MoveTake, MoveTakeAgain
<1>3. ASSUME NEW loop \in DrainLoops,
             ProcDrainTest(loop) \/ ProcDrainLocked(loop) \/ ProcDrainWake(loop)
      PROVE  UNCHANGED heldState
  BY <1>3, RollouterKeepsTrainer DEF ProcDrainTest, ProcDrainLocked, ProcDrainWake, feedVars,
     taskVars, mqVars
<1>4. ASSUME NEW where \in {"sleep", "submit"},
             ProcEnter(where) \/ ProcEnterLocked(where) \/ ProcWoken(where)
      PROVE  UNCHANGED heldState \/ MoveSubmit
  <2>1. UNCHANGED <<pending_queue, putting, cancel_queue, queue, Arriving, batch, trained, fed,
                    dropped_samples, failures>>
    BY <1>4, RollouterKeepsTrainer DEF ProcEnter, ProcEnterLocked, ProcWoken, feedVars, taskVars,
       mqVars
  <2>2. \/ UNCHANGED <<hand, generating>>
        \/ /\ where = "submit" /\ proc[2] = "submit"
           /\ generating' = generating \cup {hand} /\ hand' = NoSample
    BY <1>4 DEF ProcEnter, ProcEnterLocked, ProcWoken, UnderLock, taskVars
  <2> QED
    BY <2>1, <2>2 DEF MoveSubmit, PTyped, HandHeld
<1> QED
  BY <1>1, <1>2, <1>3, <1>4 DEF ProcessorStep

\* What the other coroutines of the Rollouter move.
LEMMA CoroutineMoves ==
    ASSUME FeedSamples \/ TaskStep \/ CallStep \/ MonitorStep \/ MainStep,
           UNCHANGED trainVars
    PROVE  \/ UNCHANGED heldState
           \/ MoveFeed
           \/ \E s \in Samples : MoveGenerated(s) \/ MoveCancelled(s) \/ MoveFailed(s) \/ MovePut(s)
           \/ MovePut(None)
PROOF
<1> USE RollouterKeepsTrainer DEF heldState
<1>1. CASE FeedSamples
  BY <1>1 DEF FeedSamples, MoveFeed, procVars, taskVars, mqVars
<1>2. CASE TaskStep
  <2> PICK s \in Samples : TaskReturns(s) \/ TaskFails(s)
    BY <1>2 DEF TaskStep
  <2>1. CASE TaskGenerated(s)
    BY <2>1 DEF TaskGenerated, MoveGenerated, procVars, feedVars, mqVars
  <2>2. CASE TaskCancelled(s)
    BY <2>2 DEF TaskCancelled, MoveCancelled, procVars, feedVars, mqVars
  <2>3. CASE TaskFails(s)
    BY <2>3 DEF TaskFails, MoveFailed, procVars, feedVars, mqVars
  <2>4. CASE TaskPut(s)
    <3>1. UNCHANGED <<waiting \cup woken, reply>>
      BY <2>4 DEF TaskPut, MQ!PutSample, MQ!NotifyAll
    <3>2. s # None
      BY SamplesFacts
    <3> QED
      BY <2>4, <3>1, <3>2 DEF TaskPut, MovePut, procVars, feedVars
  <2> QED
    BY <2>1, <2>2, <2>3, <2>4 DEF TaskReturns
<1>3. CASE MainFinish
  <2>1. UNCHANGED <<waiting \cup woken, reply>>
    BY <1>3 DEF MainFinish, MQ!PutSample, MQ!NotifyAll
  <2> QED
    BY <1>3, <2>1 DEF MainFinish, MovePut, procVars, feedVars, taskVars
<1>4. CASE UpdateEnd
  BY <1>4 DEF UpdateEnd, MQ!PutValidate, MQ!queueVars, MQ!callVars, procVars, feedVars, taskVars
<1>5. CASE MonitorStep \/ MainStop
  BY <1>5 DEF MonitorStep, MonitorWake, MonitorLocked, MainStop, procVars, feedVars, taskVars,
     mqVars
<1>6. CASE CallStep /\ ~UpdateEnd
  BY <1>6 DEF CallStep, CallQueues, PauseBegin, PauseCancel, PauseGathered, PauseEnd, UpdateBegin,
     ResumeBegin, ResumeEnd, procVars, feedVars, taskVars, mqVars
<1> QED
  BY <1>1, <1>2, <1>3, <1>4, <1>5, <1>6 DEF MainStep

\* What the trainer moves.
LEMMA TrainerMoves ==
    ASSUME VInv, QTyped, TrainerStep
    PROVE  \/ UNCHANGED heldState
           \/ MoveGet \/ MoveTrain \/ MoveClear
           \/ \E s \in Samples : MoveReceive(s)
PROOF
<1> USE DEF heldState
<1>0. UNCHANGED <<pending_queue, hand, generating, putting, cancel_queue, fed, failures>>
  BY TrainerLeavesRollouter DEF procVars, feedVars, taskVars
<1>1. CASE LogValidation \/ FinalWait
  BY <1>0, <1>1 DEF LogValidation, FinalWait, MQ!GetValidate, MQ!queueVars, MQ!callVars, Arriving
<1>2. CASE FinalSync \/ SyncPause
  BY <1>0, <1>2 DEF FinalSync, TriggerParameterSync, SyncPause, mqVars, Arriving
<1>3. CASE SyncTransfer
  BY <1>0, <1>3 DEF SyncTransfer, MQ!UpdateParamVersion, MQ!queueVars, MQ!callVars, Arriving
<1>4. CASE SyncReturn
  BY <1>0, <1>4 DEF SyncReturn, mqVars, Arriving, VInv, VTypes
<1>5. CASE TrainStep
  BY <1>0, <1>5 DEF TrainStep, TriggerParameterSync, MoveTrain, mqVars, Arriving
<1>6. CASE ClearAndEnd
  BY <1>0, <1>6 DEF ClearAndEnd, MQ!ClearQueue, MQ!callVars, MoveClear, Arriving
<1>7. CASE ReceiveSample
  <2>1. Arriving = {reply["trainer"]} \cap Samples /\ Arriving' = {}
    BY <1>7 DEF ReceiveSample, Arriving
  <2>2. UNCHANGED <<queue, trained, dropped_samples>>
    BY <1>7 DEF ReceiveSample, mqVars
  <2>3. CASE reply["trainer"] = None /\ UNCHANGED batch
    BY <1>0, <2>1, <2>2, <2>3, SamplesFacts
  <2>4. CASE reply["trainer"] \in Samples /\ batch' = batch \cup {reply["trainer"]}
    BY <1>0, <2>1, <2>2, <2>4 DEF MoveReceive
  <2> QED
    BY <1>7, <2>3, <2>4 DEF ReceiveSample
<1>8. CASE RequestSample \/ WakeTrainer
  <2>1. Arriving = {} /\ trainer' = "await" /\ UNCHANGED <<batch, trained, dropped_samples>>
    BY <1>8 DEF RequestSample, WakeTrainer, MQ!GetSample, MQ!ResumeGetSample, MQ!ReturnSample,
       MQ!SleepUntilNotified, MQ!queueVars, MQ!Outstanding, Arriving, QTyped, trainVars
  <2>2. CASE MQ!SleepUntilNotified("trainer")
    BY <1>0, <2>1, <2>2 DEF MQ!SleepUntilNotified, MQ!queueVars, MQ!Outstanding, Arriving
  <2>3. CASE MQ!ReturnSample("trainer")
    <3>1. ~MQ!Outstanding("trainer")'
      BY <1>8, <2>3 DEF RequestSample, WakeTrainer, MQ!GetSample, MQ!ResumeGetSample,
         MQ!ReturnSample, MQ!SleepUntilNotified, MQ!Outstanding, QTyped
    <3>2. /\ queue # <<>> /\ queue' = Tail(queue)
          /\ reply' = [reply EXCEPT !["trainer"] = Head(queue)]
      BY <2>3 DEF MQ!ReturnSample, QTyped
    <3>3. Arriving' = {Head(queue)} \cap Samples
      BY <2>1, <3>1, <3>2 DEF Arriving, QTyped
    <3> QED
      BY <1>0, <2>1, <3>2, <3>3 DEF MoveGet
  <2> QED
    BY <1>8, <2>2, <2>3 DEF RequestSample, WakeTrainer, MQ!GetSample, MQ!ResumeGetSample
<1> QED
  BY <1>1, <1>2, <1>3, <1>4, <1>5, <1>6, <1>7, <1>8 DEF TrainerStep

-----------------------------------------------------------------------------
(* Every sample is in one place *)

PlaceNames == {"pending", "hand", "generating", "putting", "cancel", "queue", "arriving",
               "batch", "trained"}

In(p, s) ==
    \/ p = "pending" /\ s \in SamplesIn(pending_queue)
    \/ p = "hand" /\ s = hand
    \/ p = "generating" /\ s \in generating
    \/ p = "putting" /\ s \in putting
    \/ p = "cancel" /\ s \in SamplesIn(cancel_queue)
    \/ p = "queue" /\ s \in SamplesIn(queue)
    \/ p = "arriving" /\ s \in Arriving
    \/ p = "batch" /\ s \in batch
    \/ p = "trained" /\ s \in trained

OnePlace == \A s \in Samples : \A p, q \in PlaceNames : In(p, s) /\ In(q, s) => p = q

HeldFed == \A s \in Samples : \A p \in PlaceNames : In(p, s) => s <= fed

Placed ==
    /\ batch \subseteq Samples /\ trained \subseteq Samples
    /\ Distinct(pending_queue) /\ Distinct(cancel_queue) /\ Distinct(queue)
    /\ OnePlace
    /\ HeldFed

Accounted == HeldCount + dropped_samples + failures = FedSamples

\* Samples leave their places; those that arrive somewhere were nowhere else.
LEMMA OnePlaceMoves ==
    ASSUME OnePlace, HeldFed, fed \in Nat, fed' \in Nat, fed <= fed',
           NEW new \in SUBSET Samples, NEW b \in PlaceNames,
           \A s \in Samples : \A p \in PlaceNames :
              In(p, s)' => (In(p, s) /\ (s \in new => p = b)) \/ (s \in new /\ p = b),
           \A s \in new : s <= fed'
    PROVE  OnePlace' /\ HeldFed'
PROOF
<1>1. OnePlace'
  <2> SUFFICES ASSUME NEW s \in Samples, NEW p \in PlaceNames, NEW q \in PlaceNames,
                      In(p, s)', In(q, s)'
               PROVE  p = q
    BY DEF OnePlace, PlaceNames
  <2>1. CASE s \in new
    BY <2>1
  <2>2. CASE s \notin new
    BY <2>2 DEF OnePlace
  <2> QED
    BY <2>1, <2>2
<1>2. HeldFed'
  <2> SUFFICES ASSUME NEW s \in Samples, NEW p \in PlaceNames, In(p, s)'
               PROVE  s <= fed'
    BY DEF HeldFed, PlaceNames
  <2> QED
    BY SamplesFacts DEF HeldFed
<1> QED
  BY <1>1, <1>2

\* The nine counts are numbers.
LEMMA HeldCounts ==
    ASSUME QTyped, PTyped, Placed
    PROVE  /\ CountIn(pending_queue) \in Nat /\ CountIn(cancel_queue) \in Nat
           /\ CountIn(queue) \in Nat
           /\ Cardinality(generating) \in Nat /\ Cardinality(putting) \in Nat
           /\ Cardinality(Arriving) \in Nat /\ Cardinality(batch) \in Nat
           /\ Cardinality(trained) \in Nat
           /\ IsFiniteSet(generating) /\ IsFiniteSet(putting) /\ IsFiniteSet(batch)
           /\ IsFiniteSet(trained)
           /\ Arriving \subseteq Samples
           /\ fed \in Nat /\ fed <= DONE /\ dropped_samples \in Nat /\ failures \in Nat
PROOF
<1>1. Arriving \subseteq Samples
  BY DEF Arriving
<1>2. \A S \in SUBSET Samples : IsFiniteSet(S) /\ Cardinality(S) \in Nat
  BY SamplesFacts
<1>3. CountIn(pending_queue) \in Nat /\ CountIn(cancel_queue) \in Nat /\ CountIn(queue) \in Nat
  BY CountIsCardinality DEF QTyped, PTyped, FTyped, Placed
<1>4. fed \in Nat /\ fed <= DONE /\ dropped_samples \in Nat /\ failures \in Nat
  BY SamplesFacts, RollouterAssumption DEF QTyped, PTyped, FTyped
<1> QED
  BY <1>1, <1>2, <1>3, <1>4 DEF PTyped, FTyped, Placed

LEMMA FeedKeepsPlaces ==
    ASSUME QTyped, PTyped, Placed, MoveFeed
    PROVE  Placed' /\ (Accounted => Accounted')
PROOF
<1>1. PICK n \in 1..(DONE - fed) :
         /\ pending_queue' = pending_queue \o [i \in 1..n |-> FeedItem(fed + i)]
         /\ fed' = fed + n
  BY FeedAdvances DEF MoveFeed
<1> DEFINE new == {s \in Samples : fed < s /\ s <= fed + n}
           cap(k) == IF k > TotalRolloutSteps THEN TotalRolloutSteps ELSE k
<1>2. /\ pending_queue \in Seq(Samples \cup {DONE}) /\ Distinct(pending_queue)
      /\ fed \in 0..DONE /\ DONE \in Nat
      /\ \A s \in SamplesIn(pending_queue) : s <= fed
  <2>1. \A s \in SamplesIn(pending_queue) : s \in Samples /\ In("pending", s)
    BY DEF In, SamplesIn
  <2>2. \A s \in SamplesIn(pending_queue) : s <= fed
    BY <2>1 DEF Placed, HeldFed, PlaceNames
  <2> QED
    BY <2>2, SamplesFacts DEF PTyped, FTyped, Placed
<1>3. /\ Distinct(pending_queue')
      /\ SamplesIn(pending_queue') = SamplesIn(pending_queue) \cup new
      /\ CountIn(pending_queue') = CountIn(pending_queue) + (cap(fed + n) - cap(fed))
  BY <1>1, <1>2, FeedSamplesFacts
<1> HIDE DEF cap
<1>4. OnePlace' /\ HeldFed'
  <2>1. \A s \in Samples : \A p \in PlaceNames :
           In(p, s)' => (In(p, s) /\ (s \in new => p = "pending"))
                           \/ (s \in new /\ p = "pending")
    <3> SUFFICES ASSUME NEW s \in Samples, NEW p \in PlaceNames, In(p, s)'
                 PROVE  (In(p, s) /\ (s \in new => p = "pending")) \/ (s \in new /\ p = "pending")
      OBVIOUS
    <3>1. In(p, s) \/ (s \in new /\ p = "pending")
      BY <1>3 DEF In, MoveFeed
    <3>2. In(p, s) => s <= fed
      BY DEF Placed, HeldFed
    <3>3. In(p, s) => s \notin new
      BY <1>2, <3>2, SamplesFacts
    <3> QED
      BY <3>1, <3>3
  <2>2. fed \in Nat /\ fed' \in Nat /\ fed <= fed' /\ \A s \in new : s <= fed'
    BY <1>1, <1>2
  <2>3. new \in SUBSET Samples /\ "pending" \in PlaceNames
    BY DEF PlaceNames
  <2> HIDE DEF new
  <2> QED
    BY <2>1, <2>2, <2>3, OnePlaceMoves DEF Placed
<1>5. Placed'
  BY <1>3, <1>4 DEF Placed, MoveFeed
<1>6. FedSamples' = FedSamples + (cap(fed + n) - cap(fed)) /\ FedSamples \in Nat
  <2>1. FedSamples = cap(fed) /\ FedSamples' = cap(fed + n)
    BY <1>1 DEF FedSamples, cap
  <2>2. cap(fed) \in Nat /\ cap(fed + n) \in Nat
    BY <1>2, RollouterAssumption DEF cap
  <2> QED
    BY <2>1, <2>2
<1>7. cap(fed + n) - cap(fed) \in Int
  BY <1>2, RollouterAssumption DEF cap
<1>8. HeldCount' = HeldCount + (cap(fed + n) - cap(fed)) /\ HeldCount \in Nat
  BY <1>3, <1>7, HeldCounts DEF HeldCount, MoveFeed
<1> QED
  BY <1>5, <1>6, <1>7, <1>8, HeldCounts DEF Accounted, MoveFeed

\* A step that moves one sample, or none, from one place to another keeps
\* the bound of the feed.
LEMMA OneMoves ==
    ASSUME QTyped, PTyped, Placed, UNCHANGED fed,
           NEW new \in SUBSET Samples, NEW a \in PlaceNames, NEW b \in PlaceNames,
           \A s \in new : In(a, s) /\ (a # b => ~In(a, s)'),
           \A s \in Samples : \A p \in PlaceNames :
              In(p, s)' => In(p, s) \/ (s \in new /\ p = b)
    PROVE  OnePlace' /\ HeldFed'
PROOF
<1>1. fed \in Nat /\ fed' \in Nat /\ fed <= fed'
  BY SamplesFacts DEF PTyped, FTyped
<1>2. \A s \in new : s <= fed'
  BY DEF Placed, HeldFed
<1>3. \A s \in Samples : \A p \in PlaceNames :
         In(p, s)' => (In(p, s) /\ (s \in new => p = b)) \/ (s \in new /\ p = b)
  <2> SUFFICES ASSUME NEW s \in Samples, NEW p \in PlaceNames, In(p, s)', s \in new, p # b
               PROVE  FALSE
    OBVIOUS
  <2>1. (In(p, s) /\ In(a, s) /\ ~In(a, s)') \/ a = b
    OBVIOUS
  <2>2. p = a
    BY <2>1 DEF Placed, OnePlace
  <2> QED
    BY <2>1, <2>2
<1> QED
  BY <1>1, <1>2, <1>3, OnePlaceMoves DEF Placed

\* The processor takes a sample that was fed, or the end of the data.
LEMMA TakeKeepsPlaces ==
    ASSUME QTyped, PTyped, Placed, MoveTake
    PROVE  Placed' /\ (Accounted => Accounted')
PROOF
<1> DEFINE x == Head(pending_queue)
<1>1. /\ Distinct(pending_queue')
      /\ SamplesIn(pending_queue') = SamplesIn(pending_queue) \ {x}
      /\ x \in Samples => x \in SamplesIn(pending_queue)
      /\ CountIn(pending_queue') =
            IF x \in Samples THEN CountIn(pending_queue) - 1 ELSE CountIn(pending_queue)
  BY TailSamples DEF MoveTake, PTyped, FTyped, Placed
<1>2. x \in Samples \cup {DONE}
  BY HeadTailProperties DEF MoveTake, PTyped, FTyped
<1>3. hand = NoSample /\ hand' = IF x \in Samples THEN x ELSE NoSample
  BY <1>2, SamplesFacts DEF MoveTake
<1> HIDE DEF x
<1>4. OnePlace' /\ HeldFed'
  <2> DEFINE new == {x} \cap Samples
  <2>1. \A s \in Samples : \A p \in PlaceNames :
           In(p, s)' => In(p, s) \/ (s \in new /\ p = "hand")
    BY <1>1, <1>3, SamplesFacts DEF In, MoveTake
  <2>2. \A s \in new : In("pending", s) /\ ~In("pending", s)'
    BY <1>1 DEF In
  <2>3. new \in SUBSET Samples /\ "pending" \in PlaceNames /\ "hand" \in PlaceNames
    BY DEF PlaceNames
  <2>4. UNCHANGED fed
    BY DEF MoveTake
  <2> HIDE DEF new
  <2> QED
    BY <2>1, <2>2, <2>3, <2>4, OneMoves
<1>5. Placed'
  BY <1>1, <1>4 DEF Placed, MoveTake
<1>6. HeldCount' = HeldCount
  <2>1. /\ UNCHANGED <<CountIn(cancel_queue), CountIn(queue), Cardinality(generating),
                       Cardinality(putting), Cardinality(Arriving), Cardinality(batch),
                       Cardinality(trained)>>
        /\ (IF hand \in Samples THEN 1 ELSE 0) = 0
    BY <1>3, SamplesFacts DEF MoveTake
  <2>2. (IF hand' \in Samples THEN 1 ELSE 0) = IF x \in Samples THEN 1 ELSE 0
    BY <1>1, <1>3, SamplesFacts
  <2> QED
    BY <1>1, <1>2, <2>1, <2>2, HeldCounts DEF HeldCount
<1> QED
  BY <1>5, <1>6 DEF Accounted, MoveTake, FedSamples

\* The processor takes an interrupted sample.
LEMMA TakeAgainKeepsPlaces ==
    ASSUME QTyped, PTyped, Placed, MoveTakeAgain
    PROVE  Placed' /\ (Accounted => Accounted')
PROOF
<1> DEFINE x == Head(cancel_queue)
<1>1. x \in Samples
  BY HeadTailProperties DEF MoveTakeAgain, PTyped, FTyped
<1>2. /\ Distinct(cancel_queue')
      /\ SamplesIn(cancel_queue') = SamplesIn(cancel_queue) \ {x}
      /\ x \in SamplesIn(cancel_queue)
      /\ CountIn(cancel_queue') = CountIn(cancel_queue) - 1
  BY <1>1, TailSamples DEF MoveTakeAgain, PTyped, FTyped, Placed
<1>3. hand = NoSample /\ hand' = x
  BY DEF MoveTakeAgain
<1> HIDE DEF x
<1>4. OnePlace' /\ HeldFed'
  <2>1. \A s \in Samples : \A p \in PlaceNames :
           In(p, s)' => In(p, s) \/ (s \in {x} /\ p = "hand")
    BY <1>2, <1>3, SamplesFacts DEF In, MoveTakeAgain
  <2>2. \A s \in {x} : In("cancel", s) /\ ~In("cancel", s)'
    BY <1>2 DEF In
  <2>3. {x} \in SUBSET Samples /\ "cancel" \in PlaceNames /\ "hand" \in PlaceNames
    BY <1>1 DEF PlaceNames
  <2>4. UNCHANGED fed
    BY DEF MoveTakeAgain
  <2> QED
    BY <2>1, <2>2, <2>3, <2>4, OneMoves
<1>5. Placed'
  BY <1>2, <1>4 DEF Placed, MoveTakeAgain
<1>6. HeldCount' = HeldCount
  <2>1. /\ UNCHANGED <<CountIn(pending_queue), CountIn(queue), Cardinality(generating),
                       Cardinality(putting), Cardinality(Arriving), Cardinality(batch),
                       Cardinality(trained)>>
        /\ (IF hand \in Samples THEN 1 ELSE 0) = 0
    BY <1>3, SamplesFacts DEF MoveTakeAgain
  <2>2. (IF hand' \in Samples THEN 1 ELSE 0) = 1
    BY <1>1, <1>3, SamplesFacts
  <2> QED
    BY <1>1, <1>2, <2>1, <2>2, HeldCounts DEF HeldCount
<1> QED
  BY <1>5, <1>6 DEF Accounted, MoveTakeAgain, FedSamples

\* The sample in hand gets its task.
LEMMA SubmitKeepsPlaces ==
    ASSUME QTyped, PTyped, Placed, MoveSubmit
    PROVE  Placed' /\ (Accounted => Accounted')
PROOF
<1>1. hand \in Samples /\ hand' = NoSample /\ generating' = generating \cup {hand}
  BY DEF MoveSubmit
<1>2. OnePlace' /\ HeldFed'
  <2>1. \A s \in Samples : \A p \in PlaceNames :
           In(p, s)' => In(p, s) \/ (s \in {hand} /\ p = "generating")
    BY <1>1, SamplesFacts DEF In, MoveSubmit
  <2>2. \A s \in {hand} : In("hand", s) /\ ~In("hand", s)'
    BY <1>1, SamplesFacts DEF In
  <2>3. {hand} \in SUBSET Samples /\ "hand" \in PlaceNames /\ "generating" \in PlaceNames
    BY <1>1 DEF PlaceNames
  <2>4. UNCHANGED fed
    BY DEF MoveSubmit
  <2> QED
    BY <2>1, <2>2, <2>3, <2>4, OneMoves
<1>3. Placed'
  BY <1>2 DEF Placed, MoveSubmit
<1>4. hand \notin generating
  BY <1>1 DEF Placed, OnePlace, In, PlaceNames
<1>5. Cardinality(generating') = Cardinality(generating) + 1
  BY <1>1, <1>4, HeldCounts, AddCounts
<1>6. HeldCount' = HeldCount
  BY <1>1, <1>5, SamplesFacts, HeldCounts DEF HeldCount, MoveSubmit
<1> QED
  BY <1>3, <1>6 DEF Accounted, MoveSubmit, FedSamples

\* A task that is over has its sample on the way to the message queue, back
\* in the cancel queue, or lost.
LEMMA TaskKeepsPlaces ==
    ASSUME QTyped, PTyped, Placed, NEW x \in Samples,
           MoveGenerated(x) \/ MoveCancelled(x) \/ MoveFailed(x)
    PROVE  Placed' /\ (Accounted => Accounted')
PROOF
<1>1. x \in generating /\ generating' = generating \ {x} /\ UNCHANGED fed
  BY DEF MoveGenerated, MoveCancelled, MoveFailed
<1>2. Cardinality(generating') = Cardinality(generating) - 1
  BY <1>1, HeldCounts, FS_RemoveElement
<1> DEFINE new == {x}
<1>3. \A s \in new : In("generating", s) /\ ~In("generating", s)'
  BY <1>1 DEF In
<1>5. x \notin putting /\ x \notin SamplesIn(cancel_queue)
  BY <1>1 DEF Placed, OnePlace, In, PlaceNames
<1>6. CASE MoveGenerated(x)
  <2>1. \A s \in Samples : \A p \in PlaceNames :
           In(p, s)' => In(p, s) \/ (s \in new /\ p = "putting")
    BY <1>6 DEF In, MoveGenerated
  <2>0. OnePlace' /\ HeldFed'
    <3>1. /\ new \in SUBSET Samples /\ "generating" \in PlaceNames /\ "putting" \in PlaceNames
          /\ UNCHANGED fed
      BY <1>1 DEF PlaceNames
    <3> HIDE DEF new
    <3> QED
      BY <1>3, <2>1, <3>1, OneMoves
  <2>2. Placed'
    BY <1>6, <2>0 DEF Placed, MoveGenerated
  <2>3. Cardinality(putting') = Cardinality(putting) + 1
    BY <1>5, <1>6, HeldCounts, AddCounts DEF MoveGenerated
  <2>4. HeldCount' = HeldCount
    BY <1>2, <1>6, <2>3, HeldCounts DEF HeldCount, MoveGenerated
  <2> QED
    BY <1>6, <2>2, <2>4 DEF Accounted, MoveGenerated, FedSamples
<1>7. CASE MoveCancelled(x)
  <2>1. /\ Distinct(cancel_queue')
        /\ SamplesIn(cancel_queue') = SamplesIn(cancel_queue) \cup {x}
        /\ CountIn(cancel_queue') = CountIn(cancel_queue) + 1
    BY <1>5, <1>7, AppendSamples DEF MoveCancelled, PTyped, FTyped, Placed
  <2>2. \A s \in Samples : \A p \in PlaceNames :
           In(p, s)' => In(p, s) \/ (s \in new /\ p = "cancel")
    BY <1>7, <2>1 DEF In, MoveCancelled
  <2>0. OnePlace' /\ HeldFed'
    <3>1. /\ new \in SUBSET Samples /\ "generating" \in PlaceNames /\ "cancel" \in PlaceNames
          /\ UNCHANGED fed
      BY <1>1 DEF PlaceNames
    <3> HIDE DEF new
    <3> QED
      BY <1>3, <2>2, <3>1, OneMoves
  <2>3. Placed'
    BY <1>7, <2>0, <2>1 DEF Placed, MoveCancelled
  <2>4. HeldCount' = HeldCount
    <3>1. /\ UNCHANGED <<CountIn(pending_queue), CountIn(queue), Cardinality(putting),
                         Cardinality(Arriving), Cardinality(batch), Cardinality(trained)>>
          /\ UNCHANGED hand
      BY <1>7 DEF MoveCancelled
    <3> QED
      BY <1>2, <2>1, <3>1, HeldCounts DEF HeldCount
  <2> QED
    BY <1>7, <2>3, <2>4 DEF Accounted, MoveCancelled, FedSamples
<1>8. CASE MoveFailed(x)
  <2>1. \A s \in Samples : \A p \in PlaceNames :
           In(p, s)' => In(p, s) \/ (s \in {} /\ p = "generating")
    BY <1>8 DEF In, MoveFailed
  <2>2. OnePlace' /\ HeldFed'
    <3>1. {} \in SUBSET Samples /\ "generating" \in PlaceNames /\ UNCHANGED fed
      BY <1>1 DEF PlaceNames
    <3> QED
      BY <2>1, <3>1, OneMoves
  <2>3. Placed'
    BY <1>8, <2>2 DEF Placed, MoveFailed
  <2>4. HeldCount' = HeldCount - 1 /\ HeldCount \in Nat
    BY <1>2, <1>8, HeldCounts DEF HeldCount, MoveFailed
  <2> QED
    BY <1>8, <2>3, <2>4, HeldCounts DEF Accounted, MoveFailed, FedSamples
<1> QED
  BY <1>6, <1>7, <1>8

\* What a full queue drops to make room is a sample, never the finish signal.
LEMMA DropsSamples ==
    ASSUME QTyped, PTyped, TaskLimit, FinishKept, NEW x \in Samples \cup {None}, MovePut(x),
           MQ!QueueFull
    PROVE  queue # <<>> /\ Head(queue) \in Samples
PROOF
<1>1. /\ Len(queue) = MaxRequiredSamples /\ Len(queue) \in Nat /\ Len(queue) >= 1
      /\ queue \in Seq(Samples \cup {None})
  BY TaskCounts, RollouterAssumption, LenProperties DEF QTyped, MQ!QueueFull
<1>2. queue # <<>> /\ Head(queue) = queue[1] /\ 1 \in DOMAIN queue
      /\ Head(queue) \in Samples \cup {None}
  BY <1>1, HeadTailProperties, EmptySeq, LenProperties
<1>3. ASSUME queue[1] = None PROVE FALSE
  <2>1. pc["main"] # "wait" /\ (Len(queue) - 1) + Running < MaxConcurrentSamples
    BY <1>2, <1>3 DEF FinishKept
  <2>2. x \in putting
    BY <2>1 DEF MovePut
  <2>3. Cardinality(putting) >= 1
    BY <2>2, TaskCounts, FS_EmptySet
  <2> QED
    BY <1>1, <2>1, <2>3, TaskCounts DEF Running
<1> QED
  BY <1>2, <1>3

\* A sample, or the finish signal, is put into the message queue.
LEMMA PutKeepsPlaces ==
    ASSUME QTyped, PTyped, TaskLimit, FinishKept, Placed,
           NEW x \in Samples \cup {None}, MovePut(x)
    PROVE  Placed' /\ (Accounted => Accounted')
PROOF
<1> DEFINE rest == IF MQ!QueueFull THEN Tail(queue) ELSE queue
           drop == IF MQ!QueueFull THEN 1 ELSE 0
<1>1. queue' = Append(rest, x) /\ dropped_samples' = dropped_samples + drop /\ UNCHANGED fed
  BY HeldCounts DEF MovePut, MQ!PutSample
<1>2. /\ rest \in Seq(Samples \cup {None}) /\ Distinct(rest)
      /\ SamplesIn(rest) \subseteq SamplesIn(queue)
      /\ CountIn(rest) = CountIn(queue) - drop /\ CountIn(rest) \in Nat
  <2>1. CASE MQ!QueueFull
    <3>1. queue # <<>> /\ Head(queue) \in Samples
      BY <2>1, DropsSamples
    <3>2. Tail(queue) \in Seq(Samples \cup {None})
      BY <3>1, HeadTailProperties DEF QTyped
    <3>3. /\ Distinct(Tail(queue)) /\ SamplesIn(Tail(queue)) \subseteq SamplesIn(queue)
          /\ CountIn(Tail(queue)) = CountIn(queue) - 1
      BY <3>1, TailSamples DEF QTyped, Placed
    <3> QED
      BY <2>1, <3>2, <3>3, CountIsCardinality
  <2>2. CASE ~MQ!QueueFull
    BY <2>2, HeldCounts DEF QTyped, Placed
  <2> QED
    BY <2>1, <2>2
<1>3. drop \in Nat
  OBVIOUS
<1> HIDE DEF rest, drop
<1>4. /\ IF x \in Samples THEN x \in putting /\ putting' = putting \ {x} ELSE UNCHANGED putting
      /\ UNCHANGED <<pending_queue, hand, generating, cancel_queue, Arriving, batch, trained,
                     failures>>
  BY SamplesFacts DEF MovePut
<1>5. x \notin SamplesIn(rest)
  <2>1. x \in Samples => In("putting", x)
    BY <1>4 DEF In
  <2>2. x \in SamplesIn(queue) => In("queue", x) /\ x \in Samples
    BY DEF In, SamplesIn
  <2> QED
    BY <1>2, <2>1, <2>2 DEF Placed, OnePlace, PlaceNames
<1>6. /\ Distinct(queue') /\ SamplesIn(queue') = SamplesIn(rest) \cup ({x} \cap Samples)
      /\ CountIn(queue') = IF x \in Samples THEN CountIn(rest) + 1 ELSE CountIn(rest)
  BY <1>1, <1>2, <1>5, AppendSamples
<1>7. OnePlace' /\ HeldFed'
  <2> DEFINE new == {x} \cap Samples
  <2>1. \A s \in Samples : \A p \in PlaceNames :
           In(p, s)' => In(p, s) \/ (s \in new /\ p = "queue")
    BY <1>2, <1>4, <1>6 DEF In
  <2>2. \A s \in new : In("putting", s) /\ ~In("putting", s)'
    BY <1>4 DEF In
  <2>3. new \in SUBSET Samples /\ "putting" \in PlaceNames /\ "queue" \in PlaceNames
    BY DEF PlaceNames
  <2> HIDE DEF new
  <2> QED
    BY <1>1, <2>1, <2>2, <2>3, OneMoves
<1>8. Placed'
  BY <1>4, <1>6, <1>7 DEF Placed
<1>9. Cardinality(putting') =
         IF x \in Samples THEN Cardinality(putting) - 1 ELSE Cardinality(putting)
  BY <1>4, HeldCounts, FS_RemoveElement
<1>10. HeldCount' = HeldCount - drop /\ HeldCount \in Nat
  <2>1. /\ UNCHANGED <<CountIn(pending_queue), CountIn(cancel_queue), Cardinality(generating),
                       Cardinality(Arriving), Cardinality(batch), Cardinality(trained)>>
        /\ UNCHANGED hand
    BY <1>4
  <2>2. CountIn(queue') + Cardinality(putting') = CountIn(queue) + Cardinality(putting) - drop
    BY <1>2, <1>3, <1>6, <1>9, HeldCounts
  <2>3. CountIn(queue') \in Nat /\ Cardinality(putting') \in Int
    BY <1>2, <1>6, <1>9, HeldCounts
  <2> QED
    BY <1>3, <2>1, <2>2, <2>3, HeldCounts DEF HeldCount
<1> QED
  BY <1>1, <1>3, <1>4, <1>8, <1>10, HeldCounts DEF Accounted, FedSamples

\* The trainer takes the oldest entry.
LEMMA GetKeepsPlaces ==
    ASSUME QTyped, PTyped, Placed, MoveGet
    PROVE  Placed' /\ (Accounted => Accounted')
PROOF
<1> DEFINE x == Head(queue)
<1>1. /\ Distinct(queue') /\ SamplesIn(queue') = SamplesIn(queue) \ {x}
      /\ x \in Samples => x \in SamplesIn(queue)
      /\ CountIn(queue') = IF x \in Samples THEN CountIn(queue) - 1 ELSE CountIn(queue)
  BY TailSamples DEF MoveGet, QTyped, Placed
<1>2. Arriving = {} /\ Arriving' = {x} \cap Samples
  BY DEF MoveGet
<1> HIDE DEF x
<1>3. OnePlace' /\ HeldFed'
  <2> DEFINE new == {x} \cap Samples
  <2>1. \A s \in Samples : \A p \in PlaceNames :
           In(p, s)' => In(p, s) \/ (s \in new /\ p = "arriving")
    BY <1>1, <1>2 DEF In, MoveGet
  <2>2. \A s \in new : In("queue", s) /\ ~In("queue", s)'
    BY <1>1 DEF In
  <2>3. new \in SUBSET Samples /\ "queue" \in PlaceNames /\ "arriving" \in PlaceNames
    BY DEF PlaceNames
  <2>4. UNCHANGED fed
    BY DEF MoveGet
  <2> HIDE DEF new
  <2> QED
    BY <2>1, <2>2, <2>3, <2>4, OneMoves
<1>4. Placed'
  BY <1>1, <1>3 DEF Placed, MoveGet
<1>5. Cardinality(Arriving) = 0 /\ Cardinality(Arriving') = IF x \in Samples THEN 1 ELSE 0
  <2>1. {x} \cap Samples = IF x \in Samples THEN {x} ELSE {}
    OBVIOUS
  <2> QED
    BY <1>2, <2>1, FS_EmptySet, FS_Singleton
<1>6. HeldCount' = HeldCount
  <2>1. /\ UNCHANGED <<pending_queue, generating, putting, cancel_queue, batch, trained, hand>>
        /\ UNCHANGED <<dropped_samples, failures>>
    BY DEF MoveGet
  <2> DEFINE q == CountIn(queue)  a == Cardinality(Arriving)
  <2>2. q \in Nat /\ q' + a' = q + a /\ a \in Nat /\ a' \in Nat /\ q' \in Int
    BY <1>1, <1>5, HeldCounts
  <2> HIDE DEF q, a
  <2> QED
    BY <2>1, <2>2, HeldCounts DEF HeldCount, q, a
<1> QED
  BY <1>4, <1>6 DEF Accounted, MoveGet, FedSamples

\* The trainer gathers a batch and trains on it; at the end the queue is cleared.
LEMMA TrainingKeepsPlaces ==
    ASSUME QTyped, PTyped, Placed,
           MoveTrain \/ MoveClear \/ \E s \in Samples : MoveReceive(s)
    PROVE  Placed' /\ (trainer' # "ended" => (Accounted => Accounted'))
PROOF
<1>1. ASSUME NEW x \in Samples, MoveReceive(x) PROVE Placed' /\ (Accounted => Accounted')
  <2>1. \A s \in Samples : \A p \in PlaceNames :
           In(p, s)' => In(p, s) \/ (s \in {x} /\ p = "batch")
    BY <1>1 DEF In, MoveReceive
  <2>2. \A s \in {x} : In("arriving", s) /\ ~In("arriving", s)'
    BY <1>1 DEF In, MoveReceive
  <2>3. /\ {x} \in SUBSET Samples /\ "arriving" \in PlaceNames /\ "batch" \in PlaceNames
        /\ UNCHANGED fed
    BY <1>1 DEF PlaceNames, MoveReceive
  <2>4. Placed'
    BY <1>1, <2>1, <2>2, <2>3, OneMoves DEF Placed, MoveReceive
  <2>5. x \notin batch
    BY <1>1 DEF Placed, OnePlace, In, PlaceNames, MoveReceive
  <2>6. /\ Cardinality(batch') = Cardinality(batch) + 1
        /\ Cardinality(Arriving) = 1 /\ Cardinality(Arriving') = 0
    BY <1>1, <2>5, HeldCounts, AddCounts, FS_EmptySet, FS_Singleton DEF MoveReceive
  <2>7. HeldCount' = HeldCount
    BY <1>1, <2>6, HeldCounts DEF HeldCount, MoveReceive
  <2> QED
    BY <1>1, <2>4, <2>7 DEF Accounted, MoveReceive, FedSamples
<1>2. ASSUME MoveTrain PROVE Placed' /\ (Accounted => Accounted')
  <2>1. \A s \in Samples : \A p \in PlaceNames :
           In(p, s)' => In(p, s) \/ (s \in batch /\ p = "trained")
    BY <1>2 DEF In, MoveTrain
  <2>2. \A s \in batch : In("batch", s) /\ ~In("batch", s)'
    BY <1>2 DEF In, MoveTrain
  <2>3. /\ batch \in SUBSET Samples /\ "batch" \in PlaceNames /\ "trained" \in PlaceNames
        /\ UNCHANGED fed
    BY <1>2 DEF PlaceNames, MoveTrain, Placed
  <2>4. OnePlace' /\ HeldFed'
    BY <2>1, <2>2, <2>3, OneMoves
  <2>5. Placed'
    BY <1>2, <2>4 DEF Placed, MoveTrain
  <2>6. trained \cap batch = {}
    BY DEF Placed, OnePlace, In, PlaceNames
  <2>7. Cardinality(trained \cup batch) = Cardinality(trained) + Cardinality(batch)
    <3>1. Cardinality(trained \cap batch) = 0
      BY <2>6, FS_EmptySet
    <3>2. Cardinality(trained \cup batch) =
             Cardinality(trained) + Cardinality(batch) - Cardinality(trained \cap batch)
      BY HeldCounts, FS_Union
    <3> QED
      BY <3>1, <3>2, HeldCounts
  <2>8. Cardinality(batch') = 0
    BY <1>2, FS_EmptySet DEF MoveTrain
  <2>9. HeldCount' = HeldCount
    BY <1>2, <2>7, <2>8, HeldCounts DEF HeldCount, MoveTrain
  <2> QED
    BY <1>2, <2>5, <2>9 DEF Accounted, MoveTrain, FedSamples
<1>3. ASSUME MoveClear PROVE Placed' /\ trainer' = "ended"
  <2>1. SamplesIn(queue') = {} /\ Distinct(queue')
    BY <1>3 DEF MoveClear, SamplesIn, Distinct
  <2>2. \A s \in Samples : \A p \in PlaceNames :
           In(p, s)' => In(p, s) \/ (s \in {} /\ p = "queue")
    BY <1>3, <2>1 DEF In, MoveClear
  <2>3. {} \in SUBSET Samples /\ "queue" \in PlaceNames /\ UNCHANGED fed
    BY <1>3 DEF PlaceNames, MoveClear
  <2>4. OnePlace' /\ HeldFed'
    BY <2>2, <2>3, OneMoves
  <2> QED
    BY <1>3, <2>1, <2>4 DEF Placed, MoveClear
<1> QED
  BY <1>1, <1>2, <1>3

\* When the run has ended no sample is asked for any more.
LEMMA EndedStays ==
    ASSUME QTyped, [Next]_vars, trainer = "ended"
    PROVE  trainer' = "ended"
PROOF
<1>1. ~MQ!ResumeGetSample("trainer")
  BY DEF QTyped, MQ!ResumeGetSample
<1> QED
  BY <1>1 DEF Next, RollNext, Ended, vars, trainVars, TrainerStep, LogValidation, RequestSample,
     WakeTrainer, ReceiveSample, TrainStep, FinalWait, FinalSync, SyncPause, SyncTransfer,
     SyncReturn, ClearAndEnd

LEMMA PlacedNextPreserves ==
    ASSUME VInv, QTyped, PTyped, TaskLimit, FinishKept, Placed, [Next]_vars
    PROVE  /\ Placed'
           /\ trainer' # "ended" => (Accounted => Accounted')
PROOF
<1>1. ASSUME UNCHANGED heldState PROVE Placed' /\ (Accounted => Accounted')
  BY <1>1 DEF heldState, Placed, OnePlace, HeldFed, In, Accounted, HeldCount, FedSamples
<1>2. CASE ProcessorStep /\ UNCHANGED trainVars
  BY <1>1, <1>2, ProcessorMoves, TakeKeepsPlaces, TakeAgainKeepsPlaces, SubmitKeepsPlaces
<1>3. CASE (FeedSamples \/ TaskStep \/ CallStep \/ MonitorStep \/ MainStep)
              /\ UNCHANGED trainVars
  <2>1. ASSUME NEW s \in Samples,
               MoveGenerated(s) \/ MoveCancelled(s) \/ MoveFailed(s) \/ MovePut(s)
        PROVE  Placed' /\ (Accounted => Accounted')
    BY <2>1, TaskKeepsPlaces, PutKeepsPlaces
  <2>2. ASSUME MovePut(None) PROVE Placed' /\ (Accounted => Accounted')
    BY <2>2, PutKeepsPlaces
  <2> QED
    BY <1>1, <1>3, <2>1, <2>2, CoroutineMoves, FeedKeepsPlaces
<1>4. CASE TrainerStep
  BY <1>1, <1>4, TrainerMoves, GetKeepsPlaces, TrainingKeepsPlaces
<1>5. CASE UNCHANGED vars
  <2>1. UNCHANGED heldState
    BY <1>5 DEF vars, mqVars, rollVars, trainVars, heldState, Arriving, MQ!Outstanding
  <2> QED
    BY <1>1, <2>1
<1> QED
  BY <1>2, <1>3, <1>4, <1>5 DEF Next, RollNext, Ended

-----------------------------------------------------------------------------
(* The invariant *)

\* All of it holds when the coroutines start.
LEMMA SInitEstablishes ==
    Init => /\ QTyped /\ LockHeld /\ PTyped /\ TaskLimit /\ FinishKept
            /\ Placed /\ Accounted /\ trainer # "ended"
PROOF
<1> SUFFICES ASSUME Init
             PROVE  /\ QTyped /\ LockHeld /\ PTyped /\ TaskLimit /\ FinishKept
                    /\ Placed /\ Accounted /\ trainer # "ended"
  OBVIOUS
<1> USE DEF Init, RollInit
<1>1. /\ queue = <<>> /\ pending_queue = <<>> /\ cancel_queue = <<>> /\ lock = <<>>
      /\ generating = {} /\ putting = {} /\ batch = {} /\ trained = {} /\ Arriving = {}
      /\ hand = NoSample /\ fed = 0 /\ dropped_samples = 0 /\ failures = 0
      /\ proc = <<"run", "top">> /\ pc["main"] = "wait" /\ pc["pause"] = "idle"
      /\ pc["update"] = "idle" /\ pc["resume"] = "idle" /\ finished = 0 /\ failed = 0
  BY DEF Arriving
<1>2. Cardinality({}) = 0
  BY FS_EmptySet
<1>3. SamplesIn(<<>>) = {} /\ CountIn(<<>>) = 0 /\ Distinct(<<>>)
  BY <1>2, FS_EmptySet DEF SamplesIn, CountIn, Distinct
<1>4. QTyped
  BY RollouterAssumption DEF QTyped
<1>5. LockHeld
  BY <1>1 DEF LockHeld
<1>6. PTyped
  <2>0. 0 \in 0..DONE /\ 0 \in 0..MaxFailures
    BY SamplesFacts, RollouterAssumption
  <2>3. pending_queue \in Seq(Samples \cup {DONE}) /\ cancel_queue \in Seq(Samples)
    BY <1>1
  <2>4. /\ staleness_samples = 0 /\ counted = 0 /\ done_bound = FALSE /\ servers_paused = FALSE
        /\ paused = FALSE /\ monitor_loop_trigger = TRUE /\ running = TRUE
    OBVIOUS
  <2>5. 0 \in Nat /\ 0 <= 0 /\ {} \subseteq Samples
    OBVIOUS
  <2>1. FTyped
    BY <1>1, <2>0, <2>3, <2>4, <2>5, ZenonT(30) DEF FTyped
  <2>2. HandHeld
    BY <1>1 DEF HandHeld, Places, Spots
  <2> QED
    BY <2>1, <2>2 DEF PTyped
<1>7. TaskLimit /\ FinishKept
  BY <1>1, <1>2, RollouterAssumption DEF TaskLimit, ActiveCount, FinishKept
<1>8. Placed
  BY <1>1, <1>3, SamplesFacts DEF Placed, OnePlace, HeldFed, In
<1>9. Accounted
  BY <1>1, <1>2, <1>3, SamplesFacts DEF Accounted, HeldCount, FedSamples
<1> QED
  BY <1>4, <1>5, <1>6, <1>7, <1>8, <1>9

SInv ==
    /\ VInv
    /\ QTyped
    /\ LockHeld
    /\ PTyped
    /\ TaskLimit
    /\ FinishKept
    /\ Placed
    /\ trainer # "ended" => Accounted

LEMMA SNextPreserves == SInv /\ [Next]_vars => SInv'
PROOF
  BY VNextPreserves, QNextPreserves, LockNextPreserves, PNextPreserves, LimitNextPreserves,
     FinishNextPreserves, PlacedNextPreserves, EndedStays DEF SInv

LEMMA SampleInvariant == Spec => []SInv
PROOF
<1>1. Init => SInv
  BY VInitEstablishes, SInitEstablishes DEF SInv
<1> QED
  BY <1>1, SNextPreserves, PTL DEF Spec

\* Places without a common sample hold as many samples together as apart.
LEMMA DisjointCounts ==
    ASSUME NEW S \in SUBSET Samples, NEW T \in SUBSET Samples, S \cap T = {}
    PROVE  /\ Cardinality(S \cup T) = Cardinality(S) + Cardinality(T)
           /\ S \cup T \in SUBSET Samples
PROOF
<1>1. /\ IsFiniteSet(S) /\ IsFiniteSet(T)
      /\ Cardinality(S) \in Nat /\ Cardinality(T) \in Nat
  BY SamplesFacts
<1>2. Cardinality(S \cap T) = 0
  BY FS_EmptySet
<1>3. Cardinality(S \cup T) = Cardinality(S) + Cardinality(T) - Cardinality(S \cap T)
  BY <1>1, FS_Union
<1> QED
  BY <1>1, <1>2, <1>3

LEMMA HeldOnce ==
    ASSUME QTyped, PTyped, Placed
    PROVE  HeldCount = Cardinality(HeldSamples)
PROOF
<1> DEFINE A == SamplesIn(pending_queue)
           B == {hand} \cap Samples
           C == SamplesIn(cancel_queue)
           D == SamplesIn(queue)
<1>1. /\ A \in SUBSET Samples /\ B \in SUBSET Samples /\ C \in SUBSET Samples
      /\ D \in SUBSET Samples /\ generating \in SUBSET Samples /\ putting \in SUBSET Samples
      /\ Arriving \in SUBSET Samples /\ batch \in SUBSET Samples /\ trained \in SUBSET Samples
  BY DEF SamplesIn, Arriving, PTyped, FTyped, Placed
<1>2. /\ Cardinality(A) = CountIn(pending_queue) /\ Cardinality(C) = CountIn(cancel_queue)
      /\ Cardinality(D) = CountIn(queue)
  BY CountIsCardinality DEF QTyped, PTyped, FTyped, Placed
<1>3. Cardinality(B) = IF hand \in Samples THEN 1 ELSE 0
  <2>1. B = IF hand \in Samples THEN {hand} ELSE {}
    OBVIOUS
  <2> QED
    BY <2>1, FS_EmptySet, FS_Singleton
<1>4. \A s \in Samples :
         /\ s \in A <=> In("pending", s)
         /\ s \in B <=> In("hand", s)
         /\ s \in generating <=> In("generating", s)
         /\ s \in putting <=> In("putting", s)
         /\ s \in C <=> In("cancel", s)
         /\ s \in D <=> In("queue", s)
         /\ s \in Arriving <=> In("arriving", s)
         /\ s \in batch <=> In("batch", s)
         /\ s \in trained <=> In("trained", s)
  BY DEF In
<1> HIDE DEF A, B, C, D
<1>5. /\ A \cap B = {}
      /\ (A \cup B) \cap generating = {}
      /\ (A \cup B \cup generating) \cap putting = {}
      /\ (A \cup B \cup generating \cup putting) \cap C = {}
      /\ (A \cup B \cup generating \cup putting \cup C) \cap D = {}
      /\ (A \cup B \cup generating \cup putting \cup C \cup D) \cap Arriving = {}
      /\ (A \cup B \cup generating \cup putting \cup C \cup D \cup Arriving) \cap batch = {}
      /\ (A \cup B \cup generating \cup putting \cup C \cup D \cup Arriving \cup batch)
            \cap trained = {}
  <2>1. \A s \in Samples : \A p, q \in PlaceNames : In(p, s) /\ In(q, s) => p = q
    BY DEF Placed, OnePlace
  <2> QED
    BY <1>1, <1>4, <2>1 DEF PlaceNames
<1>6. /\ Cardinality(A \cup B) = Cardinality(A) + Cardinality(B)
      /\ A \cup B \in SUBSET Samples
  BY <1>1, <1>5, DisjointCounts
<1>7. /\ Cardinality(A \cup B \cup generating) = Cardinality(A \cup B) + Cardinality(generating)
      /\ A \cup B \cup generating \in SUBSET Samples
  BY <1>1, <1>5, <1>6, DisjointCounts
<1>8. /\ Cardinality(A \cup B \cup generating \cup putting)
            = Cardinality(A \cup B \cup generating) + Cardinality(putting)
      /\ A \cup B \cup generating \cup putting \in SUBSET Samples
  BY <1>1, <1>5, <1>7, DisjointCounts
<1>9. /\ Cardinality(A \cup B \cup generating \cup putting \cup C)
            = Cardinality(A \cup B \cup generating \cup putting) + Cardinality(C)
      /\ A \cup B \cup generating \cup putting \cup C \in SUBSET Samples
  BY <1>1, <1>5, <1>8, DisjointCounts
<1>10. /\ Cardinality(A \cup B \cup generating \cup putting \cup C \cup D)
            = Cardinality(A \cup B \cup generating \cup putting \cup C) + Cardinality(D)
       /\ A \cup B \cup generating \cup putting \cup C \cup D \in SUBSET Samples
  BY <1>1, <1>5, <1>9, DisjointCounts
<1>11. /\ Cardinality(A \cup B \cup generating \cup putting \cup C \cup D \cup Arriving)
            = Cardinality(A \cup B \cup generating \cup putting \cup C \cup D)
                 + Cardinality(Arriving)
       /\ A \cup B \cup generating \cup putting \cup C \cup D \cup Arriving \in SUBSET Samples
  BY <1>1, <1>5, <1>10, DisjointCounts
<1>12. /\ Cardinality(A \cup B \cup generating \cup putting \cup C \cup D \cup Arriving \cup batch)
            = Cardinality(A \cup B \cup generating \cup putting \cup C \cup D \cup Arriving)
                 + Cardinality(batch)
       /\ A \cup B \cup generating \cup putting \cup C \cup D \cup Arriving \cup batch
             \in SUBSET Samples
  BY <1>1, <1>5, <1>11, DisjointCounts
<1>13. Cardinality(A \cup B \cup generating \cup putting \cup C \cup D \cup Arriving \cup batch
                      \cup trained)
          = Cardinality(A \cup B \cup generating \cup putting \cup C \cup D \cup Arriving
                           \cup batch) + Cardinality(trained)
  BY <1>1, <1>5, <1>12, DisjointCounts
<1>14. HeldSamples = A \cup B \cup generating \cup putting \cup C \cup D \cup Arriving \cup batch
                        \cup trained
  BY DEF HeldSamples, A, B, C, D
<1>15. HeldCount = Cardinality(A) + Cardinality(B) + Cardinality(generating)
                      + Cardinality(putting) + Cardinality(C) + Cardinality(D)
                      + Cardinality(Arriving) + Cardinality(batch) + Cardinality(trained)
  BY <1>2, <1>3 DEF HeldCount
<1> QED
  BY <1>6, <1>7, <1>8, <1>9, <1>10, <1>11, <1>12, <1>13, <1>14, <1>15

\* No sample is mislaid or duplicated by a pause, an interruption, a
\* resubmission or a failed task, however the coroutines interleave: every
\* sample fed is in one place or was dropped by a full queue or lost with its
\* task.
THEOREM SamplesAreAccountedFor == Spec => []SamplesAccounted
PROOF
<1>1. SInv => SamplesAccounted
  BY HeldOnce DEF SInv, SamplesAccounted, Accounted
<1> QED
  BY <1>1, SampleInvariant, PTL

-----------------------------------------------------------------------------
(* Batches, versions and types *)

\* A batch is complete exactly when a training step is due.
BatchFills ==
    /\ Cardinality(batch) <= RequiredSamples
    /\ Cardinality(batch) = RequiredSamples <=> trainer = "step"

\* The last synchronization is the last.
FinalOnce ==
    after_sync = "final_validate" =>
        trainer \in {"wait_last_valid", "sync_pause", "sync_transfer", "final_validate",
                     "finished", "ended"}

\* Every version but that of the last synchronization has cost samples.
VersionsCost ==
    train_version <= Cardinality(trained)
                        + (IF trainer \in {"finished", "ended"} \/ after_sync = "final_validate"
                           THEN 1 ELSE 0)

TInv ==
    /\ BatchFills
    /\ local_trigger_step \in 1..TriggerParameterSyncStep
    /\ FinalOnce
    /\ VersionsCost
    /\ val_queue \in Seq(Versions)

\* There are never more versions than samples and one.
LEMMA VersionsCounted == SInv /\ TInv =>
    /\ train_version \in Versions /\ mq_version \in Versions /\ current_param_version \in Versions
    /\ weights \in Versions \cup {Loading}
    /\ param_version \in [Samples -> Versions]
PROOF
<1> SUFFICES ASSUME SInv, TInv
             PROVE  /\ train_version \in Versions /\ mq_version \in Versions
                    /\ current_param_version \in Versions
                    /\ weights \in Versions \cup {Loading}
                    /\ param_version \in [Samples -> Versions]
  OBVIOUS
<1>1. /\ Cardinality(trained) \in Nat /\ Cardinality(trained) <= TotalRolloutSteps
      /\ TotalRolloutSteps \in Nat
  BY SamplesFacts DEF SInv, Placed
<1>2. train_version \in Versions
  BY <1>1 DEF TInv, VersionsCost, Versions, SInv, VInv, VTypes
<1>3. mq_version \in Nat /\ mq_version <= train_version
  BY DEF SInv, VInv, VTypes, TrainerAhead
<1>4. current_param_version \in Nat /\ current_param_version <= mq_version
  BY DEF SInv, VInv, VTypes, RollouterBehind
<1>5. mq_version \in Versions /\ current_param_version \in Versions
  BY <1>1, <1>2, <1>3, <1>4 DEF Versions
<1>6. weights \in Versions \cup {Loading}
  BY <1>5 DEF SInv, VInv, WeightsCurrent
<1>7. \A s \in Samples : param_version[s] \in Versions
  BY <1>1, <1>4, <1>5 DEF SInv, VInv, VTypes, LabelsReached, Versions
<1> QED
  BY <1>2, <1>5, <1>6, <1>7 DEF SInv, VInv, VTypes

\* What the steps of the trainer do to its batch and its versions.
LEMMA BatchNextPreserves == SInv /\ TInv /\ [Next]_vars => BatchFills'
PROOF
<1> SUFFICES ASSUME SInv, TInv, [Next]_vars PROVE BatchFills'
  OBVIOUS
<1>1. /\ IsFiniteSet(batch) /\ Cardinality(batch) \in Nat
      /\ RequiredSamples \in Nat /\ RequiredSamples > 0
      /\ Cardinality({}) = 0
  BY SamplesFacts, FullyAsyncAssumption, FS_EmptySet DEF SInv, Placed
<1>2. ASSUME UNCHANGED batch, trainer # "step", trainer' # "step" PROVE BatchFills'
  BY <1>2 DEF TInv, BatchFills
<1>3. ASSUME UNCHANGED <<batch, trainer>> PROVE BatchFills'
  BY <1>3 DEF TInv, BatchFills
<1>4. CASE ReceiveSample
  <2>1. trainer = "await"
    BY <1>4 DEF ReceiveSample
  <2>2. CASE reply["trainer"] = None /\ trainer' = "final_wait" /\ UNCHANGED batch
    BY <1>2, <2>1, <2>2
  <2>3. CASE /\ batch' = batch \cup {reply["trainer"]}
             /\ trainer' = IF Cardinality(batch') = RequiredSamples THEN "step" ELSE "request"
    <3>1. Cardinality(batch') \in Nat /\ Cardinality(batch') <= Cardinality(batch) + 1
      BY <1>1, <2>3, AddCounts
    <3>2. Cardinality(batch) < RequiredSamples
      BY <1>1, <2>1 DEF TInv, BatchFills
    <3> QED
      BY <1>1, <2>3, <3>1, <3>2 DEF BatchFills
  <2> QED
    BY <1>4, <2>2, <2>3 DEF ReceiveSample
<1>5. CASE TrainStep
  <2>1. batch' = {} /\ trainer' # "step"
    BY <1>5 DEF TrainStep, TriggerParameterSync
  <2> QED
    BY <1>1, <2>1 DEF BatchFills
<1>6. CASE SyncReturn
  BY <1>2, <1>6 DEF SyncReturn, SInv, VInv, VTypes
<1>7. CASE LogValidation \/ RequestSample \/ FinalWait \/ FinalSync
  BY <1>2, <1>7 DEF LogValidation, RequestSample, FinalWait, FinalSync, TriggerParameterSync
<1>8. CASE SyncPause \/ SyncTransfer \/ ClearAndEnd
  BY <1>2, <1>8 DEF SyncPause, SyncTransfer, ClearAndEnd
<1>9. CASE WakeTrainer \/ (RollNext /\ UNCHANGED trainVars) \/ UNCHANGED vars
  BY <1>3, <1>9 DEF WakeTrainer, trainVars, vars
<1> QED
  BY <1>4, <1>5, <1>6, <1>7, <1>8, <1>9 DEF Next, TrainerStep, Ended

LEMMA CostNextPreserves ==
    SInv /\ TInv /\ [Next]_vars =>
        /\ (local_trigger_step \in 1..TriggerParameterSyncStep)'
        /\ FinalOnce' /\ VersionsCost'
PROOF
<1> SUFFICES ASSUME SInv, TInv, [Next]_vars
             PROVE  /\ (local_trigger_step \in 1..TriggerParameterSyncStep)'
                    /\ FinalOnce' /\ VersionsCost'
  OBVIOUS
<1>1. /\ Cardinality(trained) \in Nat /\ train_version \in Nat
      /\ local_trigger_step \in 1..TriggerParameterSyncStep
      /\ TriggerParameterSyncStep \in Nat \ {0} /\ 1 \in 1..TriggerParameterSyncStep
      /\ after_sync \in {"log", "final_validate"}
  BY SamplesFacts, FullyAsyncAssumption DEF SInv, TInv, Placed, VInv, VTypes
<1>2. CASE TrainStep
  <2>1. Cardinality(trained') = Cardinality(trained) + Cardinality(batch)
    <3>1. trained \cap batch = {}
      BY DEF SInv, Placed, OnePlace, In, PlaceNames
    <3> QED
      BY <1>2, <3>1, DisjointCounts DEF TrainStep, SInv, Placed
  <2>2. Cardinality(batch) = RequiredSamples /\ RequiredSamples >= 1 /\ RequiredSamples \in Nat
    BY <1>2, FullyAsyncAssumption DEF TrainStep, TInv, BatchFills
  <2>3. trainer = "step" /\ after_sync = "log"
    BY <1>1, <1>2 DEF TrainStep, TInv, FinalOnce
  <2>4. train_version <= Cardinality(trained)
    BY <1>1, <2>3 DEF TInv, VersionsCost
  <2>5. /\ after_sync' = "log" /\ train_version' \in Nat /\ train_version' <= train_version + 1
        /\ local_trigger_step' \in 1..TriggerParameterSyncStep
    BY <1>1, <1>2, <2>3 DEF TrainStep, TriggerParameterSync, SyncDue
  <2> QED
    BY <1>1, <2>1, <2>2, <2>4, <2>5 DEF FinalOnce, VersionsCost
<1>3. CASE FinalSync
  <2>1. trainer = "final_sync" /\ after_sync = "log" /\ UNCHANGED trained
    BY <1>1, <1>3 DEF FinalSync, TInv, FinalOnce
  <2>2. train_version <= Cardinality(trained)
    BY <1>1, <2>1 DEF TInv, VersionsCost
  <2>3. CASE trainer' = "finished" /\ UNCHANGED <<train_version, after_sync, local_trigger_step>>
    BY <1>1, <2>1, <2>2, <2>3 DEF FinalOnce, VersionsCost
  <2>4. CASE TriggerParameterSync(TRUE, "final_validate")
    <3>1. /\ train_version' = train_version + 1 /\ local_trigger_step' = 1
          /\ after_sync' = "final_validate" /\ trainer' = "wait_last_valid"
      BY <2>4 DEF TriggerParameterSync, SyncDue
    <3> QED
      BY <1>1, <2>1, <2>2, <3>1 DEF FinalOnce, VersionsCost
  <2> QED
    BY <1>3, <2>3, <2>4 DEF FinalSync
<1>4. ASSUME UNCHANGED <<after_sync, trained, train_version, local_trigger_step>>,
             after_sync = "final_validate" =>
                trainer' \in {"wait_last_valid", "sync_pause", "sync_transfer", "final_validate",
                              "finished", "ended"},
             trainer \in {"finished", "ended"} => trainer' \in {"finished", "ended"}
      PROVE  /\ (local_trigger_step \in 1..TriggerParameterSyncStep)'
             /\ FinalOnce' /\ VersionsCost'
  BY <1>1, <1>4 DEF TInv, FinalOnce, VersionsCost
<1>5. CASE LogValidation \/ RequestSample \/ ReceiveSample \/ FinalWait \/ SyncPause
           \/ SyncTransfer \/ SyncReturn \/ ClearAndEnd
  <2>1. UNCHANGED <<after_sync, trained, train_version, local_trigger_step>>
    BY <1>5 DEF LogValidation, RequestSample, ReceiveSample, FinalWait, SyncPause, SyncTransfer,
       SyncReturn, ClearAndEnd
  <2>2. after_sync = "final_validate" =>
           trainer' \in {"wait_last_valid", "sync_pause", "sync_transfer", "final_validate",
                         "finished", "ended"}
    BY <1>5 DEF LogValidation, RequestSample, ReceiveSample, FinalWait, SyncPause, SyncTransfer,
       SyncReturn, ClearAndEnd, TInv, FinalOnce
  <2>3. trainer \in {"finished", "ended"} => trainer' \in {"finished", "ended"}
    BY <1>5 DEF LogValidation, RequestSample, ReceiveSample, FinalWait, SyncPause, SyncTransfer,
       SyncReturn, ClearAndEnd
  <2> QED
    BY <1>4, <2>1, <2>2, <2>3
<1>6. CASE WakeTrainer \/ (RollNext /\ UNCHANGED trainVars) \/ UNCHANGED vars
  <2>1. UNCHANGED trainVars
    BY <1>6 DEF WakeTrainer, vars
  <2> QED
    BY <1>4, <2>1 DEF trainVars, TInv, FinalOnce
<1> QED
  BY <1>2, <1>3, <1>5, <1>6 DEF Next, TrainerStep, Ended

LEMMA ResultsNextPreserve == SInv /\ TInv /\ [Next]_vars => (val_queue \in Seq(Versions))'
PROOF
<1> SUFFICES ASSUME SInv, TInv, [Next]_vars PROVE val_queue' \in Seq(Versions)
  OBVIOUS
<1>1. val_queue \in Seq(Versions) /\ current_param_version \in Versions
  BY VersionsCounted DEF TInv
<1>2. CASE RollNext /\ UNCHANGED trainVars
  <2>1. val_queue' = val_queue \/ val_queue' = Append(val_queue, current_param_version)
    BY <1>2, RollouterKeepsCalls, CallEffects DEF RollNext, callState, SInv
  <2> QED
    BY <1>1, <2>1
<1>3. CASE LogValidation \/ FinalWait
  <2>1. val_queue' = IF val_queue = <<>> THEN val_queue ELSE Tail(val_queue)
    BY <1>3 DEF LogValidation, FinalWait, MQ!GetValidate
  <2> QED
    BY <1>1, <2>1, HeadTailProperties
<1>4. CASE TrainerStep /\ ~LogValidation /\ ~FinalWait
  <2>1. UNCHANGED val_queue
    BY <1>4 DEF TrainerStep, RequestSample, WakeTrainer, ReceiveSample, TrainStep, FinalSync,
       SyncPause, SyncTransfer, SyncReturn, ClearAndEnd, mqVars, MQ!GetSample,
       MQ!ResumeGetSample, MQ!ReturnSample, MQ!SleepUntilNotified, MQ!UpdateParamVersion,
       MQ!ClearQueue
  <2> QED
    BY <1>1, <2>1
<1>5. CASE UNCHANGED vars
  BY <1>1, <1>5 DEF vars, mqVars
<1> QED
  BY <1>2, <1>3, <1>4, <1>5 DEF Next, Ended

LEMMA TrainingInvariant == Spec => [](SInv /\ TInv)
PROOF
<1>1. Init => SInv /\ TInv
  <2> SUFFICES ASSUME Init PROVE SInv /\ TInv
    OBVIOUS
  <2>1. SInv
    BY VInitEstablishes, SInitEstablishes DEF SInv
  <2>2. /\ batch = {} /\ trained = {} /\ trainer = "start" /\ after_sync = "log"
        /\ train_version = 0 /\ local_trigger_step = 1 /\ val_queue = <<0>> /\ Cardinality({}) = 0
    BY FS_EmptySet DEF Init, RollInit
  <2>3. 0 \in Versions /\ 1 \in 1..TriggerParameterSyncStep /\ RequiredSamples \in Nat \ {0}
    BY RollouterAssumption, FullyAsyncAssumption DEF Versions
  <2>4. val_queue \in Seq(Versions)
    BY <2>2, <2>3
  <2> QED
    BY <2>1, <2>2, <2>3, <2>4 DEF TInv, BatchFills, FinalOnce, VersionsCost
<1>2. SInv /\ TInv /\ [Next]_vars => (SInv /\ TInv)'
  BY SNextPreserves, BatchNextPreserves, CostNextPreserves, ResultsNextPreserve DEF TInv
<1> QED
  BY <1>1, <1>2, PTL DEF Spec

\* The composed system is type-correct; in particular no more versions are
\* made than samples and one more for the last synchronization, and the
\* processor, its lock and the two queues hold nothing they should not.
THEOREM TypesAreCorrect == Spec => []TypeOK
PROOF
<1>1. SInv /\ TInv => TypeOK
  <2> SUFFICES ASSUME SInv, TInv PROVE TypeOK
    OBVIOUS
  <2>1. /\ mq_running \in BOOLEAN /\ queue \in Seq(Samples \cup {None})
        /\ lock \in Seq({"proc", "main", "monitor", "pause", "update", "resume"})
        /\ pc \in [{"feed", "main", "monitor", "pause", "update", "resume"} -> Labels]
    BY DEF SInv, QTyped, LockHeld, Lockers, VInv, VTypes, Coroutines
  <2>2. /\ proc \in Places \X Spots /\ hand \in Samples \cup {NoSample}
        /\ pending_queue \in Seq(Samples \cup {DONE}) /\ cancel_queue \in Seq(Samples)
        /\ generating \subseteq Samples /\ putting \subseteq Samples
        /\ finished \in Nat /\ failed \in Nat /\ failures \in 0..MaxFailures
        /\ done_bound \in BOOLEAN /\ staleness_samples \in Nat /\ counted \in Nat
        /\ paused \in BOOLEAN /\ monitor_loop_trigger \in BOOLEAN /\ running \in BOOLEAN
        /\ servers_paused \in BOOLEAN
    BY DEF SInv, PTyped, FTyped, HandHeld
  <2>3. /\ batch \subseteq Samples /\ trained \subseteq Samples
        /\ val_queue \in Seq(Versions)
        /\ local_trigger_step \in 1..TriggerParameterSyncStep
    BY DEF SInv, Placed, TInv
  <2> QED
    BY <2>1, <2>2, <2>3, VersionsCounted DEF TypeOK
<1> QED
  BY <1>1, TrainingInvariant, PTL


-----------------------------------------------------------------------------
(* What has been taken from the feed *)

\* Entries taken from pending_queue, the end signal included.
Taken == fed - Len(pending_queue)
TakenSamples == IF Taken > TotalRolloutSteps THEN TotalRolloutSteps ELSE Taken

\* Updates of the Rollouter that have reset staleness_samples.
Resets ==
    IF trainer = "sync_transfer" \/ pc["update"] # "idle" THEN mq_version - 1 ELSE mq_version

\* What is pending are the next numbers.
PendingOrder ==
    /\ Len(pending_queue) <= fed
    /\ \A i \in DOMAIN pending_queue : pending_queue[i] = Taken + i

\* Every reset gives a quota, and no more than the quotas given is taken.  A
\* processor blocked in get() has passed its test and will take one more.
TakenWithin ==
    /\ Taken <= Resets * MaxRequiredSamples + staleness_samples
    /\ Taken <= (Resets + 1) * MaxRequiredSamples
    /\ proc = <<"blocked", "get">> => Taken < (Resets + 1) * MaxRequiredSamples

\* The trainer has been given the finish signal.
EndSignalled ==
    \/ trainer \in {"final_wait", "final_sync", "final_validate", "finished", "ended"}
    \/ after_sync = "final_validate"
    \/ reply["trainer"] = None

\* It was put there when the processor was over.
EndSeen == EndSignalled => pc["main"] # "wait"

KInv == PendingOrder /\ TakenWithin /\ EndSeen

\* The numbers the quota is about.
LEMMA TakenTyped ==
    ASSUME SInv, PendingOrder
    PROVE  /\ fed \in Nat /\ Len(pending_queue) \in Nat /\ DOMAIN pending_queue = 1..Len(pending_queue)
           /\ Taken \in 0..DONE /\ fed = Taken + Len(pending_queue)
           /\ TotalRolloutSteps \in Nat /\ DONE = TotalRolloutSteps + 1
           /\ TakenSamples \in Nat /\ TakenSamples <= Taken
           /\ MaxRequiredSamples \in Nat /\ MaxRequiredSamples >= 1
           /\ staleness_samples \in Nat
           /\ Resets \in Int /\ mq_version \in Nat /\ train_version \in Nat
PROOF
<1>1. pending_queue \in Seq(Samples \cup {DONE}) /\ fed \in 0..DONE /\ staleness_samples \in Nat
  BY DEF SInv, PTyped, FTyped
<1>2. Len(pending_queue) \in Nat /\ DOMAIN pending_queue = 1..Len(pending_queue)
  BY <1>1, LenProperties
<1>3. TotalRolloutSteps \in Nat /\ DONE = TotalRolloutSteps + 1
  BY SamplesFacts
<1>4. mq_version \in Nat /\ train_version \in Nat /\ Resets \in Int
  BY DEF SInv, VInv, VTypes, Resets
<1> QED
  BY <1>1, <1>2, <1>3, <1>4, RollouterAssumption DEF PendingOrder, Taken, TakenSamples

\* The samples fed are those taken and those pending.
LEMMA PendingCounts ==
    ASSUME SInv, PendingOrder
    PROVE  CountIn(pending_queue) = FedSamples - TakenSamples /\ FedSamples \in Nat
PROOF
<1> DEFINE k == FedSamples - TakenSamples
           at == {i \in DOMAIN pending_queue : pending_queue[i] \in Samples}
<1>1. k \in Nat /\ FedSamples \in Nat
  BY TakenTyped DEF FedSamples, TakenSamples
<1>2. at = 1..k
  <2>1. \A i \in DOMAIN pending_queue : pending_queue[i] \in Samples <=> i <= k
    BY TakenTyped DEF PendingOrder, Samples, FedSamples, TakenSamples
  <2>2. 1..k \subseteq DOMAIN pending_queue
    BY TakenTyped DEF FedSamples, TakenSamples
  <2> QED
    BY <1>1, <2>1, <2>2, TakenTyped
<1>3. Cardinality(1..k) = k
  <2> HIDE DEF k
  <2> QED
    BY <1>1, FS_Interval
<1> QED
  BY <1>1, <1>2, <1>3 DEF CountIn

LEMMA OrderNextPreserves ==
    ASSUME SInv, PendingOrder, [Next]_vars
    PROVE  /\ PendingOrder'
           /\ \/ Taken' = Taken
              \/ MoveTake /\ Taken' = Taken + 1
PROOF
<1>1. CASE UNCHANGED <<pending_queue, fed>>
  BY <1>1 DEF PendingOrder, Taken
<1>2. CASE FeedSamples
  <2>0. fed \in Nat /\ TotalRolloutSteps \in Nat /\ DONE = TotalRolloutSteps + 1
        /\ Len(pending_queue) \in Nat /\ Len(pending_queue) <= fed
    BY TakenTyped DEF PendingOrder
  <2>1. PICK n \in 1..(DONE - fed) :
           /\ pending_queue' = pending_queue \o [i \in 1..n |-> FeedItem(fed + i)]
           /\ fed' = fed + n
    BY <1>2, FeedAdvances DEF SInv
  <2> DEFINE new == [i \in 1..n |-> FeedItem(fed + i)]
  <2>2. n \in Nat /\ \A i \in 1..n : FeedItem(fed + i) = fed + i /\ fed + i \in Samples \cup {DONE}
    <3>1. n \in Nat /\ n <= DONE - fed
      BY <2>0, <2>1
    <3> QED
      BY <2>0, <3>1 DEF FeedItem, Samples
  <2>3. new \in Seq(Samples \cup {DONE}) /\ Len(new) = n /\ \A i \in 1..n : new[i] = fed + i
    <3>1. new \in [1..n -> Samples \cup {DONE}] /\ \A i \in 1..n : new[i] = fed + i
      BY <2>2
    <3> HIDE DEF new
    <3> QED
      BY <2>2, <3>1
  <2> HIDE DEF new
  <2>4. /\ Len(pending_queue') = Len(pending_queue) + n
        /\ DOMAIN pending_queue' = 1..Len(pending_queue')
        /\ \A i \in 1..(Len(pending_queue) + n) : pending_queue'[i] =
              IF i <= Len(pending_queue) THEN pending_queue[i] ELSE new[i - Len(pending_queue)]
    <3>1. pending_queue' = pending_queue \o new /\ pending_queue \in Seq(Samples \cup {DONE})
      BY <2>1 DEF new, SInv, PTyped, FTyped
    <3> QED
      BY <2>3, <3>1, ConcatProperties, LenProperties
  <2>5. Taken' = Taken /\ Len(pending_queue') <= fed'
    <3>1. fed' = fed + n /\ Len(pending_queue') = Len(pending_queue) + n
      BY <2>1, <2>4
    <3> QED
      BY <2>0, <2>2, <3>1 DEF Taken
  <2>6. \A i \in DOMAIN pending_queue' : pending_queue'[i] = Taken + i
    <3> SUFFICES ASSUME NEW i \in 1..(Len(pending_queue) + n)
                 PROVE  pending_queue'[i] = Taken + i
      BY <2>4
    <3>1. CASE i <= Len(pending_queue)
      <4>1. i \in DOMAIN pending_queue
        <5>1. DOMAIN pending_queue = 1..Len(pending_queue)
          BY TakenTyped
        <5> QED
          BY <2>0, <2>2, <3>1, <5>1
      <4>2. pending_queue'[i] = pending_queue[i]
        BY <2>4, <3>1
      <4> QED
        BY <4>1, <4>2 DEF PendingOrder
    <3>2. CASE i > Len(pending_queue)
      <4>1. i - Len(pending_queue) \in 1..n
        BY <2>2, <3>2, TakenTyped
      <4>2. pending_queue'[i] = fed + (i - Len(pending_queue))
        BY <2>3, <2>4, <3>2, <4>1, TakenTyped
      <4> QED
        BY <4>2, TakenTyped
    <3> QED
      BY <3>1, <3>2, TakenTyped, <2>2
  <2> QED
    BY <2>5, <2>6 DEF PendingOrder
<1>3. CASE MoveTake
  <2>1. /\ Len(pending_queue') = Len(pending_queue) - 1 /\ UNCHANGED fed
        /\ Len(pending_queue) # 0
        /\ DOMAIN pending_queue' = 1..Len(pending_queue')
        /\ \A i \in 1..Len(pending_queue') : pending_queue'[i] = pending_queue[i + 1]
    <3>1. pending_queue \in Seq(Samples \cup {DONE}) /\ pending_queue # <<>>
          /\ pending_queue' = Tail(pending_queue)
      BY <1>3 DEF MoveTake, SInv, PTyped, FTyped
    <3> QED
      BY <1>3, <3>1, HeadTailProperties, LenProperties, EmptySeq DEF MoveTake
  <2>2. Taken' = Taken + 1 /\ Len(pending_queue') <= fed'
    BY <2>1, TakenTyped DEF Taken, PendingOrder
  <2>3. \A i \in DOMAIN pending_queue' : pending_queue'[i] = Taken + 1 + i
    <3> SUFFICES ASSUME NEW i \in 1..Len(pending_queue')
                 PROVE  pending_queue'[i] = Taken + 1 + i
      BY <2>1
    <3>1. i + 1 \in DOMAIN pending_queue /\ i \in Int
      BY <2>1, TakenTyped
    <3>2. pending_queue[i + 1] = Taken + (i + 1)
      BY <3>1 DEF PendingOrder
    <3> QED
      BY <2>1, <3>1, <3>2, TakenTyped
  <2> QED
    BY <1>3, <2>2, <2>3 DEF PendingOrder
<1>4. UNCHANGED <<pending_queue, fed>> \/ FeedSamples \/ MoveTake
  <2>1. CASE ProcessorStep /\ UNCHANGED trainVars
    BY <2>1, ProcessorMoves DEF SInv, heldState, MoveTakeAgain, MoveSubmit
  <2>2. CASE (FeedSamples \/ TaskStep \/ CallStep \/ MonitorStep \/ MainStep)
                /\ UNCHANGED trainVars
    BY <2>2, CoroutineMoves DEF heldState, MoveFeed, MoveGenerated, MoveCancelled, MoveFailed,
       MovePut
  <2>3. CASE TrainerStep
    BY <2>3, TrainerLeavesRollouter DEF feedVars
  <2>4. CASE UNCHANGED vars
    BY <2>4 DEF vars, rollVars
  <2> QED
    BY <2>1, <2>2, <2>3, <2>4 DEF Next, RollNext, Ended
<1> QED
  BY <1>1, <1>2, <1>3, <1>4

-----------------------------------------------------------------------------
(* The quota of a version *)

\* Only the processor, at its quota test or in get(), takes, and only the end
\* of an update resets.
LEMMA ProcessorTakes ==
    ASSUME SInv, ProcessorStep, UNCHANGED trainVars
    PROVE  /\ Resets' = Resets
           /\ \/ /\ UNCHANGED <<pending_queue, fed, staleness_samples>>
                 /\ proc' = <<"blocked", "get">> => staleness_samples < MaxRequiredSamples
              \/ /\ staleness_samples' = staleness_samples + 1
                 /\ staleness_samples < MaxRequiredSamples \/ proc = <<"blocked", "get">>
                 /\ proc' # <<"blocked", "get">>
PROOF
<1>1. Resets' = Resets
  BY ProcessorQuiet DEF SInv, Quiet, Resets, trainVars
<1>2. staleness_samples \in Nat /\ MaxRequiredSamples \in Nat
  BY RollouterAssumption DEF SInv, PTyped, FTyped
<1>3. CASE ProcPause \/ ProcPauseLocked
  BY <1>1, <1>3 DEF ProcPause, ProcPauseLocked, feedVars
<1>4. CASE ProcTake
  BY <1>1, <1>2, <1>4 DEF ProcTake, TakePending, ShouldPauseGeneration
<1>5. CASE ProcGot
  BY <1>1, <1>5 DEF ProcGot, TakePending
<1>6. ASSUME NEW loop \in DrainLoops,
             ProcDrainTest(loop) \/ ProcDrainLocked(loop) \/ ProcDrainWake(loop)
      PROVE  UNCHANGED <<pending_queue, fed, staleness_samples>> /\ proc'[1] # "blocked"
  BY <1>6 DEF ProcDrainTest, ProcDrainLocked, ProcDrainWake, feedVars, AfterDrain, DrainLoops
<1>7. ASSUME NEW where \in {"sleep", "submit"},
             ProcEnter(where) \/ ProcEnterLocked(where) \/ ProcWoken(where)
      PROVE  UNCHANGED <<pending_queue, fed, staleness_samples>> /\ proc'[1] # "blocked"
  BY <1>7 DEF ProcEnter, ProcEnterLocked, ProcWoken, UnderLock, feedVars
<1> QED
  BY <1>1, <1>3, <1>4, <1>5, <1>6, <1>7 DEF ProcessorStep

\* The other coroutines take nothing; the end of an update gives a quota.
LEMMA CoroutineTakes ==
    ASSUME SInv, FeedSamples \/ TaskStep \/ CallStep \/ MonitorStep \/ MainStep,
           UNCHANGED trainVars
    PROVE  /\ proc' = <<"blocked", "get">> <=> proc = <<"blocked", "get">>
           /\ \/ Resets' = Resets /\ UNCHANGED staleness_samples
              \/ Resets' = Resets + 1 /\ staleness_samples' \in Nat
PROOF
<1>1. CASE FeedSamples \/ MonitorStep \/ MainStep
  <2>1. Resets' = Resets
    BY <1>1, CoroutineQuiet DEF SInv, Quiet, Resets, trainVars
  <2>2. UNCHANGED staleness_samples /\ (proc' = proc \/ proc' = Notified(proc))
    BY <1>1 DEF FeedSamples, MonitorStep, MonitorWake, MonitorLocked, MainStep, MainFinish,
       MainStop, procVars
  <2> QED
    BY <2>1, <2>2 DEF Notified
<1>2. CASE TaskStep
  <2> PICK s \in Samples : TaskReturns(s) \/ TaskFails(s)
    BY <1>2 DEF TaskStep
  <2>1. UNCHANGED <<pc, proc, staleness_samples, mq_version>>
    BY DEF TaskReturns, TaskGenerated, TaskPut, TaskCancelled, TaskFails, procVars, mqVars,
       MQ!PutSample
  <2> QED
    BY <2>1 DEF Resets, trainVars
<1>3. CASE CallStep /\ ~UpdateEnd
  <2>1. /\ UNCHANGED <<staleness_samples, mq_version>>
        /\ proc' = proc \/ proc' = Notified(proc)
    BY <1>3 DEF CallStep, CallQueues, PauseBegin, PauseCancel, PauseGathered, PauseEnd,
       UpdateBegin, ResumeBegin, ResumeEnd, ResumeGeneration, procVars, mqVars
  <2>2. pc'["update"] = "idle" <=> pc["update"] = "idle"
    BY <1>3 DEF CallStep, CallQueues, PauseBegin, PauseCancel, PauseGathered, PauseEnd,
       UpdateBegin, ResumeBegin, ResumeEnd, ResumeGeneration, Goto, GatherOrFinish, Entered,
       SInv, VInv, VTypes, Coroutines
  <2> QED
    BY <2>1, <2>2 DEF Resets, trainVars, Notified
<1>4. CASE UpdateEnd
  <2>1. /\ pc["update"] = "size" /\ pc'["update"] = "idle" /\ UNCHANGED <<proc, mq_version>>
        /\ staleness_samples' = counted + Len(queue)
    BY <1>4 DEF UpdateEnd, Goto, SInv, VInv, VTypes, Coroutines, procVars, MQ!PutValidate,
       StalenessAfterUpdate
  <2>2. counted \in Nat /\ Len(queue) \in Nat
    BY LenProperties DEF SInv, PTyped, FTyped, QTyped
  <2>3. trainer # "sync_transfer"
    BY <2>1 DEF SInv, VInv, OneSyncAtATime, LastUpdateDone
  <2> QED
    BY <2>1, <2>2, <2>3 DEF Resets, trainVars, SInv, VInv, VTypes
<1> QED
  BY <1>1, <1>2, <1>3, <1>4

\* A synchronization begins with the quota of the last one.
LEMMA TrainerTakes ==
    ASSUME SInv, TrainerStep
    PROVE  Resets' = Resets /\ UNCHANGED <<proc, staleness_samples>>
PROOF
<1>1. UNCHANGED <<proc, staleness_samples>>
  BY TrainerLeavesRollouter DEF procVars
<1>2. CASE SyncTransfer
  <2>1. /\ trainer = "sync_pause" /\ trainer' = "sync_transfer" /\ mq_version' = train_version
        /\ pc["update"] = "idle"
    BY <1>2 DEF SyncTransfer, MQ!UpdateParamVersion, SInv, VInv, OneSyncAtATime, LastUpdateDone
  <2> QED
    BY <1>1, <2>1 DEF Resets, SInv, VInv, VTypes, TrainerAhead
<1>3. CASE SyncReturn
  <2>1. /\ trainer = "sync_transfer" /\ trainer' # "sync_transfer" /\ pc'["update"] = "called"
        /\ UNCHANGED mq_version
    BY <1>3 DEF SyncReturn, SInv, VInv, VTypes, Coroutines, mqVars
  <2> QED
    BY <1>1, <2>1 DEF Resets
<1>4. CASE SyncPause
  <2>1. /\ trainer # "sync_transfer" /\ trainer' # "sync_transfer" /\ UNCHANGED mq_version
        /\ pc'["update"] = pc["update"]
    BY <1>4 DEF SyncPause, Goto, SInv, VInv, VTypes, Coroutines, mqVars
  <2> QED
    BY <1>1, <2>1 DEF Resets
<1>5. CASE \/ LogValidation \/ RequestSample \/ WakeTrainer \/ ReceiveSample
           \/ TrainStep \/ FinalWait \/ FinalSync \/ ClearAndEnd
  <2>1. UNCHANGED pc /\ (trainer' = "sync_transfer" <=> trainer = "sync_transfer")
    BY <1>5, TrainingKeepsCalls DEF SInv
  <2>2. UNCHANGED mq_version
    BY <1>5 DEF LogValidation, RequestSample, WakeTrainer, ReceiveSample, TrainStep, FinalWait,
       FinalSync, ClearAndEnd, mqVars, MQ!GetValidate, MQ!GetSample, MQ!ResumeGetSample,
       MQ!ReturnSample, MQ!SleepUntilNotified, MQ!ClearQueue
  <2> QED
    BY <1>1, <2>1, <2>2 DEF Resets
<1> QED
  BY <1>2, <1>3, <1>4, <1>5 DEF TrainerStep

\* One version more is one quota more.
LEMMA OneMore ==
    ASSUME NEW a \in Int, NEW b \in Nat
    PROVE  a * b \in Int /\ (a + 1) * b = a * b + b
PROOF
  OBVIOUS

LEMMA TakenNextPreserves ==
    ASSUME SInv, PendingOrder, TakenWithin, [Next]_vars
    PROVE  TakenWithin'
PROOF
<1> DEFINE quota == Resets * MaxRequiredSamples
           next == (Resets + 1) * MaxRequiredSamples
<1>1. /\ Taken \in Nat /\ Taken' \in Nat /\ Resets \in Int /\ staleness_samples \in Nat
      /\ MaxRequiredSamples \in Nat /\ (Taken' = Taken \/ Taken' = Taken + 1)
  BY TakenTyped, OrderNextPreserves
<1>0. Taken' <= Taken + 1
  BY <1>1
<1>2. quota \in Int /\ next = quota + MaxRequiredSamples
  <2>1. Resets \in Int /\ MaxRequiredSamples \in Nat
    BY <1>1
  <2> QED
    BY <2>1, OneMore, ZenonT(20)
<1>9. (Resets + 1 + 1) * MaxRequiredSamples = next + MaxRequiredSamples
  <2>1. Resets + 1 \in Int /\ MaxRequiredSamples \in Nat
    BY <1>1
  <2> QED
    BY <2>1, OneMore, ZenonT(20)
<1>3. /\ Taken <= quota + staleness_samples /\ Taken <= next
      /\ proc = <<"blocked", "get">> => Taken < next
  BY DEF TakenWithin
<1>4. ASSUME Resets' = Resets, UNCHANGED staleness_samples, Taken' = Taken,
             proc' = <<"blocked", "get">> =>
                proc = proc' \/ staleness_samples < MaxRequiredSamples
      PROVE  TakenWithin'
  <2>1. proc' = <<"blocked", "get">> => Taken < next
    <3> HIDE DEF quota, next
    <3> QED
      BY <1>1, <1>2, <1>3, <1>4
  <2> QED
    BY <1>3, <1>4, <2>1 DEF TakenWithin
<1>5. CASE ProcessorStep /\ UNCHANGED trainVars
  <2>1. CASE /\ UNCHANGED <<pending_queue, fed, staleness_samples>>
             /\ proc' = <<"blocked", "get">> => staleness_samples < MaxRequiredSamples
    BY <1>4, <1>5, <2>1, ProcessorTakes DEF Taken
  <2>2. CASE /\ staleness_samples' = staleness_samples + 1
             /\ staleness_samples < MaxRequiredSamples \/ proc = <<"blocked", "get">>
             /\ proc' # <<"blocked", "get">>
    <3>1. Taken' <= quota + (staleness_samples + 1) /\ Taken' <= next
      <4> HIDE DEF quota, next
      <4> QED
        BY <1>0, <1>1, <1>2, <1>3, <2>2
    <3>2. Resets' = Resets
      BY <1>5, ProcessorTakes
    <3> QED
      BY <2>2, <3>1, <3>2 DEF TakenWithin
  <2> QED
    BY <1>5, <2>1, <2>2, ProcessorTakes
<1>6. CASE (FeedSamples \/ TaskStep \/ CallStep \/ MonitorStep \/ MainStep)
              /\ UNCHANGED trainVars
  <2>1. Taken' = Taken
    <3>1. CASE FeedSamples
      <4>1. fed' # fed
        <5>1. fed \in 0..DONE /\ DONE \in Nat
          BY SamplesFacts DEF SInv, PTyped, FTyped
        <5> QED
          BY <3>1, <5>1, FeedAdvances DEF SInv
      <4> QED
        BY <4>1, OrderNextPreserves DEF MoveTake
    <3>2. CASE ~FeedSamples
      <4>1. UNCHANGED <<pending_queue, fed>>
        BY <1>6, <3>2, CoroutineMoves
           DEF heldState, MoveFeed, MoveGenerated, MoveCancelled, MoveFailed, MovePut
      <4> QED
        BY <4>1 DEF Taken
    <3> QED
      BY <3>1, <3>2
  <2>2. CASE Resets' = Resets /\ UNCHANGED staleness_samples
    BY <1>4, <1>6, <2>1, <2>2, CoroutineTakes
  <2>3. CASE Resets' = Resets + 1 /\ staleness_samples' \in Nat
    <3>1. Taken' <= next + staleness_samples' /\ Taken' <= next + MaxRequiredSamples
      <4>1. \A k \in Nat : Taken' <= next + k
        <5> HIDE DEF quota, next
        <5> QED
          BY <1>1, <1>2, <1>3, <2>1
      <4> QED
        BY <1>1, <2>3, <4>1
    <3>2. proc' = <<"blocked", "get">> => Taken' < next + MaxRequiredSamples
      <4>1. proc' = <<"blocked", "get">> => proc = <<"blocked", "get">>
        BY <1>6, CoroutineTakes
      <4> HIDE DEF quota, next
      <4> QED
        BY <1>1, <1>2, <1>3, <2>1, <4>1
    <3> QED
      BY <1>9, <2>3, <3>1, <3>2 DEF TakenWithin
  <2> QED
    BY <1>6, <2>2, <2>3, CoroutineTakes
<1>7. CASE TrainerStep
  <2>1. Taken' = Taken
    BY <1>7, TrainerLeavesRollouter DEF feedVars, Taken
  <2> QED
    BY <1>4, <1>7, <2>1, TrainerTakes
<1>8. CASE UNCHANGED vars
  BY <1>4, <1>8 DEF vars, rollVars, trainVars, mqVars, Taken, Resets
<1> QED
  BY <1>5, <1>6, <1>7, <1>8 DEF Next, RollNext, Ended

\* The processor does not call the message queue.
LEMMA ProcessorKeepsQueue == ProcessorStep => UNCHANGED <<mqVars, pc>>
PROOF
<1>1. ASSUME NEW loop \in DrainLoops,
             ProcDrainTest(loop) \/ ProcDrainLocked(loop) \/ ProcDrainWake(loop)
      PROVE  UNCHANGED <<mqVars, pc>>
  BY <1>1 DEF ProcDrainTest, ProcDrainLocked, ProcDrainWake
<1>2. ASSUME NEW where \in {"sleep", "submit"},
             ProcEnter(where) \/ ProcEnterLocked(where) \/ ProcWoken(where)
      PROVE  UNCHANGED <<mqVars, pc>>
  BY <1>2 DEF ProcEnter, ProcEnterLocked, ProcWoken
<1> QED
  BY <1>1, <1>2 DEF ProcessorStep, ProcPause, ProcPauseLocked, ProcTake, ProcGot

\* The trainer is given the finish signal by get_sample, from the queue.
LEMMA SignalTaken ==
    ASSUME SInv, ~EndSignalled, [Next]_vars
    PROVE  EndSignalled' => queue # <<>> /\ Head(queue) = None /\ queue' = Tail(queue)
PROOF
<1>1. CASE RollNext /\ UNCHANGED trainVars
  <2>1. UNCHANGED reply
    <3>1. CASE ProcessorStep
      BY <3>1, ProcessorKeepsQueue DEF mqVars
    <3>2. CASE FeedSamples \/ MonitorStep \/ MainStep
      BY <3>2 DEF FeedSamples, MonitorStep, MonitorWake, MonitorLocked, MainStep, MainFinish,
         MainStop, mqVars, MQ!PutSample
    <3>3. CASE TaskStep
      BY <3>3 DEF TaskStep, TaskReturns, TaskGenerated, TaskPut, TaskCancelled, TaskFails,
         mqVars, MQ!PutSample
    <3>4. CASE CallStep
      BY <3>4 DEF CallStep, CallQueues, PauseBegin, PauseCancel, PauseGathered, PauseEnd,
         UpdateBegin, UpdateEnd, ResumeBegin, ResumeEnd, MQ!PutValidate, MQ!callVars, mqVars
    <3> QED
      BY <1>1, <3>1, <3>2, <3>3, <3>4 DEF RollNext
  <2> QED
    BY <1>1, <2>1 DEF EndSignalled, trainVars
<1>2. CASE RequestSample \/ WakeTrainer
  <2>1. trainer' = "await" /\ UNCHANGED after_sync
    BY <1>2 DEF RequestSample, WakeTrainer, trainVars, SInv, QTyped, MQ!ResumeGetSample
  <2>2. CASE MQ!SleepUntilNotified("trainer")
    BY <2>1, <2>2 DEF MQ!SleepUntilNotified, EndSignalled, SInv, QTyped, None
  <2>3. CASE /\ queue # <<>> /\ queue' = Tail(queue)
             /\ reply' = [reply EXCEPT !["trainer"] = Head(queue)]
    <3>1. reply'["trainer"] = Head(queue)
      BY <2>3 DEF SInv, QTyped
    <3> QED
      BY <2>1, <2>3, <3>1 DEF EndSignalled
  <2> QED
    BY <1>2, <2>2, <2>3 DEF RequestSample, WakeTrainer, MQ!GetSample, MQ!ResumeGetSample,
       MQ!ReturnSample, SInv, QTyped
<1>3. CASE \/ LogValidation \/ ReceiveSample \/ TrainStep \/ FinalWait \/ FinalSync
           \/ SyncPause \/ SyncTransfer \/ SyncReturn \/ ClearAndEnd
  <2>1. UNCHANGED reply
    BY <1>3 DEF LogValidation, ReceiveSample, TrainStep, FinalWait, FinalSync, SyncPause,
       SyncTransfer, SyncReturn, ClearAndEnd, mqVars, MQ!GetValidate, MQ!UpdateParamVersion,
       MQ!ClearQueue, MQ!callVars
  <2>2. /\ after_sync' # "final_validate"
        /\ trainer' \notin {"final_wait", "final_sync", "final_validate", "finished", "ended"}
    BY <1>3 DEF EndSignalled, LogValidation, ReceiveSample, TrainStep, TriggerParameterSync, FinalWait,
       FinalSync, SyncPause, SyncTransfer, SyncReturn, ClearAndEnd, SInv, VInv, VTypes
  <2> QED
    BY <2>1, <2>2 DEF EndSignalled
<1>4. CASE UNCHANGED vars
  BY <1>4 DEF EndSignalled, vars, mqVars, trainVars
<1> QED
  BY <1>1, <1>2, <1>3, <1>4 DEF Next, TrainerStep, Ended

\* The finish signal is seen only after it was put.
LEMMA EndNextPreserves ==
    ASSUME SInv, EndSeen, [Next]_vars
    PROVE  EndSeen'
PROOF
<1>1. pc["main"] # "wait" => pc'["main"] # "wait"
  <2>1. CASE RollNext /\ UNCHANGED trainVars
    <3>1. CASE ProcessorStep
      BY <3>1, ProcessorKeepsQueue
    <3>2. CASE TaskStep
      BY <3>2, TaskEffects DEF TaskStep, SInv
    <3>3. CASE FeedSamples \/ CallStep \/ MonitorStep \/ MainStep
      BY <3>3, CoroutineEffects DEF SInv
    <3> QED
      BY <2>1, <3>1, <3>2, <3>3 DEF RollNext
  <2>2. CASE TrainerStep
    BY <2>2 DEF TrainerStep, LogValidation, RequestSample, WakeTrainer, ReceiveSample, TrainStep,
       FinalWait, FinalSync, SyncPause, SyncTransfer, SyncReturn, ClearAndEnd, Goto, rollVars,
       SInv, VInv, VTypes, Coroutines
  <2>3. CASE UNCHANGED vars
    BY <2>3 DEF vars, rollVars
  <2> QED
    BY <2>1, <2>2, <2>3 DEF Next, Ended
<1>2. CASE EndSignalled
  BY <1>1, <1>2 DEF EndSeen
<1>3. CASE ~EndSignalled /\ EndSignalled'
  <2>1. queue # <<>> /\ Head(queue) = None
    BY <1>3, SignalTaken
  <2>2. queue[1] = None /\ 1 \in DOMAIN queue
    BY <2>1, HeadTailProperties, LenProperties, EmptySeq DEF SInv, QTyped
  <2> QED
    BY <1>1, <2>2 DEF SInv, FinishKept, EndSeen
<1>4. CASE ~EndSignalled'
  BY <1>4 DEF EndSeen
<1> QED
  BY <1>2, <1>3, <1>4

LEMMA QuotaInvariant == Spec => [](SInv /\ TInv /\ KInv)
PROOF
<1>1. Init => KInv
  BY RollouterAssumption
     DEF Init, RollInit, KInv, PendingOrder, TakenWithin, EndSeen, EndSignalled,
     Taken, Resets, None
<1>2. SInv /\ KInv /\ [Next]_vars => KInv'
  BY OrderNextPreserves, TakenNextPreserves, EndNextPreserves DEF KInv
<1> QED
  BY <1>1, <1>2, TrainingInvariant, PTL DEF Spec

-----------------------------------------------------------------------------
(* Samples in flight *)

\* Samples taken from the feed, not lost and not yet trained on.
InFlight ==
    (IF hand \in Samples THEN 1 ELSE 0) + Cardinality(generating) + Cardinality(putting)
        + CountIn(cancel_queue) + CountIn(queue) + Cardinality(Arriving) + Cardinality(batch)

\* What is in flight or trained on has been taken.
LEMMA FlightTaken == SInv /\ KInv =>
    /\ InFlight \in Nat /\ Cardinality(trained) \in Nat
    /\ InFlight + Cardinality(trained) <= TakenSamples
    /\ InFlight + Cardinality(trained) <= Taken
    /\ SubmittedSamples <= InFlight
PROOF
<1> SUFFICES ASSUME SInv, KInv
             PROVE  /\ InFlight \in Nat /\ Cardinality(trained) \in Nat
                    /\ InFlight + Cardinality(trained) <= TakenSamples
                    /\ InFlight + Cardinality(trained) <= Taken
                    /\ SubmittedSamples <= InFlight
  OBVIOUS
<1>1. SInv /\ PendingOrder /\ QTyped /\ PTyped /\ Placed
  BY DEF KInv, SInv
<1>2. HeldCount <= FedSamples
  <2>1. HeldSamples \subseteq 1..FedSamples
    <3>1. \A s \in Samples : (\E p \in PlaceNames : In(p, s)) => s <= fed
      BY <1>1 DEF Placed, HeldFed
    <3>2. \A s \in HeldSamples : s \in Samples /\ \E p \in PlaceNames : In(p, s)
      BY <1>1 DEF HeldSamples, In, PlaceNames, SamplesIn, Arriving, PTyped, FTyped, Placed
    <3>3. fed \in Nat /\ TotalRolloutSteps \in Nat
      BY <1>1, TakenTyped
    <3> QED
      BY <3>1, <3>2, <3>3 DEF FedSamples, Samples
  <2>2. FedSamples \in Nat
    BY <1>1, PendingCounts
  <2>3. Cardinality(1..FedSamples) = FedSamples /\ IsFiniteSet(1..FedSamples)
    <3> HIDE DEF FedSamples
    <3> QED
      BY <2>2, FS_Interval
  <2>4. Cardinality(HeldSamples) <= FedSamples
    BY <2>1, <2>3, FS_Subset
  <2> QED
    BY <1>1, <2>4, HeldOnce
<1>3. CountIn(pending_queue) = FedSamples - TakenSamples /\ FedSamples \in Nat
  BY <1>1, PendingCounts
<1>4. TakenSamples \in Nat /\ TakenSamples <= Taken /\ Taken \in Nat
  BY <1>1, TakenTyped
<1>5. /\ CountIn(cancel_queue) \in Nat /\ CountIn(queue) \in Nat
      /\ Cardinality(generating) \in Nat /\ Cardinality(putting) \in Nat
      /\ Cardinality(Arriving) \in Nat /\ Cardinality(batch) \in Nat
      /\ Cardinality(trained) \in Nat
  BY <1>1, HeldCounts
<1>6. HeldCount = CountIn(pending_queue) + InFlight + Cardinality(trained)
  BY <1>3, <1>4, <1>5 DEF HeldCount, InFlight
<1>7. InFlight \in Nat /\ SubmittedSamples <= InFlight
  BY <1>5 DEF InFlight, SubmittedSamples
<1> HIDE DEF InFlight, FedSamples, TakenSamples, Taken
<1> QED
  BY <1>2, <1>3, <1>4, <1>5, <1>6, <1>7

\* Once the processor is over nothing more is taken.
LEMMA TakenFrozen ==
    ASSUME SInv, PendingOrder, [Next]_vars, proc[1] = "end"
    PROVE  Taken' = Taken
PROOF
<1>1. CASE ProcessorStep
  BY <1>1, ProcessorLimit DEF SInv
<1>2. CASE (FeedSamples \/ TaskStep \/ CallStep \/ MonitorStep \/ MainStep)
              /\ UNCHANGED trainVars
  <2>1. CASE FeedSamples
    <3>1. fed' # fed
      <4>1. fed \in 0..DONE /\ DONE \in Nat
        BY SamplesFacts DEF SInv, PTyped, FTyped
      <4> QED
        BY <2>1, <4>1, FeedAdvances DEF SInv
    <3> QED
      BY <3>1, OrderNextPreserves DEF MoveTake
  <2>2. CASE ~FeedSamples
    <3>1. UNCHANGED <<pending_queue, fed>>
      BY <1>2, <2>2, CoroutineMoves
         DEF heldState, MoveFeed, MoveGenerated, MoveCancelled, MoveFailed, MovePut
    <3> QED
      BY <3>1 DEF Taken
  <2> QED
    BY <2>1, <2>2
<1>3. CASE TrainerStep
  BY <1>3, TrainerLeavesRollouter DEF feedVars, Taken
<1>4. CASE UNCHANGED vars
  BY <1>4 DEF vars, rollVars, Taken
<1> QED
  BY <1>1, <1>2, <1>3, <1>4 DEF Next, RollNext, Ended

-----------------------------------------------------------------------------
(* With staleness_threshold 0 *)

\* The quota of a version is what it trains on.
ThresholdZero == MaxRequiredSamples = RequiredSamples * TriggerParameterSyncStep

\* Every version but the last trains on its quota; the last one begins when
\* nothing more is taken.
TrainedExactly ==
    IF after_sync = "log"
    THEN Cardinality(trained) = train_version * MaxRequiredSamples
                                   + (local_trigger_step - 1) * RequiredSamples
    ELSE /\ Taken <= train_version * MaxRequiredSamples
         /\ Cardinality(trained) >= (train_version - 1) * MaxRequiredSamples

\* The updates that have reset the count are no more than the versions begun.
LEMMA ResetsBehind == SInv =>
    /\ Resets \in Int /\ train_version \in Nat /\ Resets <= train_version
    /\ Resets = train_version =>
          /\ pc["update"] = "idle" /\ ~Syncing
          /\ train_version = current_param_version
PROOF
  BY DEF SInv, VInv, VTypes, Resets, TrainerAhead, RollouterBehind, Syncing, UpdatePending

\* What a step of the trainer does to the samples trained on.
LEMMA ExactNextPreserves ==
    ASSUME ThresholdZero, SInv, TInv, KInv, TrainedExactly, [Next]_vars
    PROVE  TrainedExactly'
PROOF
<1> DEFINE quota == train_version * MaxRequiredSamples
           steps == (local_trigger_step - 1) * RequiredSamples
<1>1. /\ Cardinality(trained) \in Nat /\ train_version \in Nat
      /\ local_trigger_step \in 1..TriggerParameterSyncStep
      /\ TriggerParameterSyncStep \in Nat \ {0} /\ RequiredSamples \in Nat \ {0}
      /\ after_sync \in {"log", "final_validate"} /\ MaxRequiredSamples \in Nat
      /\ Taken \in Nat
  BY SamplesFacts, FullyAsyncAssumption, RollouterAssumption, TakenTyped
     DEF SInv, TInv, KInv, Placed, VInv, VTypes
<1>2. /\ (train_version + 1) * MaxRequiredSamples = quota + MaxRequiredSamples
      /\ quota \in Nat
  <2>1. train_version \in Int /\ MaxRequiredSamples \in Nat /\ train_version \in Nat
    BY <1>1
  <2>2. (train_version + 1) * MaxRequiredSamples = quota + MaxRequiredSamples
    BY <2>1, OneMore, ZenonT(20)
  <2>3. \A a, b \in Nat : a * b \in Nat
    OBVIOUS
  <2> QED
    BY <2>1, <2>2, <2>3
<1>3. /\ local_trigger_step * RequiredSamples = steps + RequiredSamples
      /\ steps \in Nat
  <2>1. local_trigger_step - 1 \in Nat /\ local_trigger_step - 1 \in Int /\ RequiredSamples \in Nat
        /\ local_trigger_step - 1 + 1 = local_trigger_step
    BY <1>1
  <2>2. (local_trigger_step - 1 + 1) * RequiredSamples = steps + RequiredSamples
    BY <2>1, OneMore, ZenonT(20)
  <2>3. \A a, b \in Nat : a * b \in Nat
    OBVIOUS
  <2> QED
    BY <2>1, <2>2, <2>3
<1>4. CASE TrainStep
  <2>1. Cardinality(trained') = Cardinality(trained) + RequiredSamples
    <3>1. trained \cap batch = {}
      BY DEF SInv, Placed, OnePlace, In, PlaceNames
    <3>2. Cardinality(batch) = RequiredSamples
      BY <1>4 DEF TrainStep, TInv, BatchFills
    <3> QED
      BY <1>4, <3>1, <3>2, DisjointCounts DEF TrainStep, SInv, Placed
  <2>2. after_sync = "log" /\ Cardinality(trained) = quota + steps
    BY <1>1, <1>4 DEF TrainStep, TInv, FinalOnce, TrainedExactly
  <2>3. CASE /\ local_trigger_step' = local_trigger_step + 1
             /\ UNCHANGED <<train_version, after_sync>>
    <3>1. local_trigger_step' - 1 = local_trigger_step
      BY <1>1, <2>3
    <3>2. Cardinality(trained') = quota + local_trigger_step * RequiredSamples
      <4> HIDE DEF quota, steps
      <4> QED
        BY <1>1, <1>2, <1>3, <2>1, <2>2
    <3> QED
      BY <2>2, <2>3, <3>1, <3>2 DEF TrainedExactly
  <2>4. CASE /\ local_trigger_step >= TriggerParameterSyncStep
             /\ train_version' = train_version + 1 /\ local_trigger_step' = 1
             /\ after_sync' = "log"
    <3>1. local_trigger_step = TriggerParameterSyncStep
      BY <1>1, <2>4
    <3>2. steps + RequiredSamples = MaxRequiredSamples
      <4>1. TriggerParameterSyncStep * RequiredSamples = RequiredSamples * TriggerParameterSyncStep
        BY <1>1
      <4> QED
        BY <1>3, <3>1, <4>1 DEF ThresholdZero
    <3>3. Cardinality(trained') = train_version' * MaxRequiredSamples
      <4>1. Cardinality(trained') = quota + MaxRequiredSamples
        <5> HIDE DEF quota, steps
        <5> QED
          BY <1>1, <1>2, <1>3, <2>1, <2>2, <3>2
      <4> QED
        BY <1>2, <2>4, <4>1
    <3>4. /\ (local_trigger_step' - 1) * RequiredSamples = 0
          /\ train_version' * MaxRequiredSamples \in Nat
      <4>1. local_trigger_step' - 1 = 0 /\ 0 * RequiredSamples = 0
        BY <1>1, <2>4
      <4>2. train_version' * MaxRequiredSamples = quota + MaxRequiredSamples
        BY <1>2, <2>4
      <4>3. quota + MaxRequiredSamples \in Nat
        <5> HIDE DEF quota
        <5> QED
          BY <1>1, <1>2
      <4> QED
        BY <4>1, <4>2, <4>3
    <3>5. Cardinality(trained') =
             train_version' * MaxRequiredSamples + (local_trigger_step' - 1) * RequiredSamples
      <4> DEFINE all == train_version' * MaxRequiredSamples
      <4> HIDE DEF all
      <4> QED
        BY <3>3, <3>4 DEF all
    <3> QED
      BY <2>4, <3>5 DEF TrainedExactly
  <2> QED
    BY <1>4, <2>3, <2>4 DEF TrainStep, TriggerParameterSync, SyncDue
<1>5. CASE FinalSync /\ TriggerParameterSync(TRUE, "final_validate")
  <2>1. /\ after_sync = "log" /\ after_sync' = "final_validate"
        /\ train_version' = train_version + 1 /\ UNCHANGED trained
    BY <1>1, <1>5 DEF FinalSync, TInv, FinalOnce, TriggerParameterSync, SyncDue
  <2>2. Cardinality(trained) >= quota
    <3>1. Cardinality(trained) = quota + steps
      BY <2>1 DEF TrainedExactly
    <3> HIDE DEF quota, steps
    <3> QED
      BY <1>1, <1>2, <1>3, <3>1
  <2>3. Taken <= (train_version + 1) * MaxRequiredSamples
    <3>1. Taken <= (Resets + 1) * MaxRequiredSamples /\ Resets \in Int /\ Resets <= train_version
      BY ResetsBehind DEF KInv, TakenWithin
    <3>2. \A a, b \in Int : \A m \in Nat : a <= b => a * m <= b * m
      OBVIOUS
    <3>3. (Resets + 1) * MaxRequiredSamples <= (train_version + 1) * MaxRequiredSamples
      <4>1. Resets + 1 \in Int /\ train_version + 1 \in Int /\ Resets + 1 <= train_version + 1
        BY <1>1, <3>1
      <4> QED
        BY <1>1, <3>2, <4>1
    <3> DEFINE x == (Resets + 1) * MaxRequiredSamples
               y == (train_version + 1) * MaxRequiredSamples
    <3>4. x \in Int /\ y \in Int
      BY <1>1, <3>1
    <3> HIDE DEF x, y
    <3>5. Taken <= y
      BY <1>1, <3>1, <3>3, <3>4 DEF x, y
    <3> QED
      BY <3>5 DEF y
  <2>4. Taken' = Taken
    BY <1>5 DEF FinalSync, rollVars, Taken
  <2>5. train_version' - 1 = train_version
    BY <1>1, <2>1
  <2> QED
    BY <2>1, <2>2, <2>3, <2>4, <2>5 DEF TrainedExactly
<1>6. CASE UNCHANGED <<after_sync, trained, train_version, local_trigger_step>>
  <2>1. CASE after_sync = "log"
    BY <1>6, <2>1 DEF TrainedExactly
  <2>2. CASE after_sync # "log"
    <3>1. proc[1] = "end"
      BY <1>1, <2>2 DEF KInv, EndSeen, EndSignalled, SInv, FinishKept
    <3>2. Taken' = Taken
      BY <3>1, TakenFrozen DEF KInv
    <3> QED
      BY <1>6, <2>2, <3>2 DEF TrainedExactly
  <2> QED
    BY <2>1, <2>2
<1>7. \/ TrainStep
      \/ FinalSync /\ TriggerParameterSync(TRUE, "final_validate")
      \/ UNCHANGED <<after_sync, trained, train_version, local_trigger_step>>
  BY DEF Next, TrainerStep, Ended, LogValidation, RequestSample, WakeTrainer, ReceiveSample,
     FinalWait, FinalSync, SyncPause, SyncTransfer, SyncReturn, ClearAndEnd, trainVars, vars
<1> QED
  BY <1>4, <1>5, <1>6, <1>7

EInv == SInv /\ TInv /\ KInv /\ TrainedExactly

LEMMA ExactInvariant ==
    ASSUME ThresholdZero
    PROVE  Spec => []EInv
PROOF
<1>1. Init => TrainedExactly
  <2>1. 0 * MaxRequiredSamples = 0 /\ (1 - 1) * RequiredSamples = 0
    BY RollouterAssumption, FullyAsyncAssumption
  <2> QED
    BY <2>1, FS_EmptySet DEF Init, TrainedExactly
<1>2. SInv /\ TInv /\ KInv /\ TrainedExactly /\ [Next]_vars => TrainedExactly'
  BY ExactNextPreserves
<1> QED
  BY <1>1, <1>2, QuotaInvariant, PTL DEF Spec, EInv

\* What is in flight, the end signal included, never exceeds the quota of one
\* version; if anything is, the Rollouter has caught up with the trainer and no
\* synchronization is under way.
LEMMA FlightWithinQuota ==
    ASSUME ThresholdZero, EInv
    PROVE  /\ InFlight <= MaxRequiredSamples
           /\ InFlight + (Taken - TakenSamples) <= MaxRequiredSamples
           /\ after_sync = "log" /\ InFlight # 0 =>
                 /\ pc["update"] = "idle" /\ ~Syncing
                 /\ train_version = current_param_version
PROOF
<1> DEFINE quota == train_version * MaxRequiredSamples
           steps == (local_trigger_step - 1) * RequiredSamples
           given == (Resets + 1) * MaxRequiredSamples
<1>1. /\ InFlight \in Nat /\ Cardinality(trained) \in Nat
      /\ InFlight + Cardinality(trained) <= TakenSamples
      /\ Taken \in Nat /\ TakenSamples \in Nat /\ TakenSamples <= Taken
  BY FlightTaken, TakenTyped DEF EInv, KInv
<1>2. /\ train_version \in Nat /\ MaxRequiredSamples \in Nat \ {0} /\ Resets \in Int
      /\ local_trigger_step \in 1..TriggerParameterSyncStep /\ TriggerParameterSyncStep \in Nat
      /\ RequiredSamples \in Nat /\ Resets <= train_version
      /\ after_sync \in {"log", "final_validate"}
  BY ResetsBehind, FullyAsyncAssumption, RollouterAssumption DEF EInv, TInv, SInv, VInv, VTypes
<1>3. \A a, b \in Int : \A m \in Nat : a <= b => a * m <= b * m
  OBVIOUS
<1>4. quota \in Nat /\ given \in Int
  <2>1. \A a, b \in Nat : a * b \in Nat
    OBVIOUS
  <2> QED
    BY <1>2, <2>1
<1>5. steps \in Nat
  <2>1. \A a, b \in Nat : a * b \in Nat
    OBVIOUS
  <2>2. local_trigger_step - 1 \in Nat
    BY <1>2
  <2> QED
    BY <1>2, <2>1, <2>2
<1>6. (train_version + 1) * MaxRequiredSamples = quota + MaxRequiredSamples
  <2>1. train_version \in Int /\ MaxRequiredSamples \in Nat
    BY <1>2
  <2> QED
    BY <2>1, OneMore, ZenonT(20)
<1>7. Taken <= given
  BY DEF EInv, KInv, TakenWithin
<1>8. CASE after_sync = "log"
  <2>1. Cardinality(trained) = quota + steps
    BY <1>8 DEF EInv, TrainedExactly
  <2>2. given <= quota + MaxRequiredSamples
    <3>1. Resets + 1 \in Int /\ train_version + 1 \in Int /\ Resets + 1 <= train_version + 1
      BY <1>2
    <3>2. given <= (train_version + 1) * MaxRequiredSamples
      BY <1>2, <1>3, <3>1
    <3> QED
      BY <1>6, <3>2
  <2>3. Resets < train_version => given <= quota
    <3>1. Resets + 1 \in Int /\ train_version \in Int /\ (Resets < train_version => Resets + 1 <= train_version)
      BY <1>2
    <3> QED
      BY <1>2, <1>3, <3>1
  <2> HIDE DEF quota, steps, given, Taken, TakenSamples
  <2>4. /\ InFlight <= MaxRequiredSamples
        /\ InFlight + (Taken - TakenSamples) <= MaxRequiredSamples
    BY <1>1, <1>2, <1>4, <1>5, <1>7, <2>1, <2>2
  <2>5. InFlight # 0 => Resets = train_version
    <3>1. InFlight # 0 => ~(given <= quota)
      BY <1>1, <1>2, <1>4, <1>5, <1>7, <2>1
    <3> QED
      BY <1>2, <2>3, <3>1
  <2> QED
    BY <2>4, <2>5, ResetsBehind DEF EInv
<1>9. CASE after_sync = "final_validate"
  <2>1. Taken <= quota /\ Cardinality(trained) >= (train_version - 1) * MaxRequiredSamples
    BY <1>9 DEF EInv, TrainedExactly
  <2>2. quota = (train_version - 1) * MaxRequiredSamples + MaxRequiredSamples
        /\ (train_version - 1) * MaxRequiredSamples \in Int
    <3>1. train_version - 1 \in Int /\ MaxRequiredSamples \in Nat /\ train_version - 1 + 1 = train_version
      BY <1>2
    <3>2. (train_version - 1 + 1) * MaxRequiredSamples
             = (train_version - 1) * MaxRequiredSamples + MaxRequiredSamples
      BY <3>1, OneMore, ZenonT(20)
    <3>3. (train_version - 1) * MaxRequiredSamples \in Int
      BY <3>1
    <3> QED
      BY <3>1, <3>2, <3>3
  <2> DEFINE last == (train_version - 1) * MaxRequiredSamples
  <2>3. Taken <= quota /\ Cardinality(trained) >= last /\ quota = last + MaxRequiredSamples
        /\ last \in Int
    BY <2>1, <2>2
  <2> HIDE DEF quota, last, Taken, TakenSamples
  <2> QED
    BY <1>1, <1>2, <1>4, <1>9, <2>3
<1> QED
  BY <1>2, <1>8, <1>9

\* With staleness_threshold 0 the samples submitted and not yet trained on
\* never exceed the quota of a version, whatever is in hand, blocked or being
\* counted when an update resets the count.
THEOREM GenerationWithinQuota ==
    ASSUME ThresholdZero
    PROVE  Spec => []WithinQuota
PROOF
<1>1. EInv => WithinQuota
  <2> SUFFICES ASSUME EInv PROVE WithinQuota
    OBVIOUS
  <2>1. InFlight \in Nat /\ SubmittedSamples <= InFlight /\ InFlight <= MaxRequiredSamples
    BY FlightTaken, FlightWithinQuota DEF EInv
  <2>2. SubmittedSamples \in Nat /\ MaxRequiredSamples \in Nat
    BY HeldCounts, RollouterAssumption DEF SubmittedSamples, EInv, SInv
  <2> HIDE DEF SubmittedSamples, InFlight
  <2> QED
    BY <2>1, <2>2 DEF WithinQuota
<1> QED
  BY <1>1, ExactInvariant, PTL

-----------------------------------------------------------------------------
(* On-policy training *)

\* Samples that have been generated and labelled, and not yet trained on.
Generated == putting \cup SamplesIn(queue) \cup Arriving \cup batch

\* They were all generated with the version the trainer is improving.
Labelled ==
    after_sync = "log" => \A s \in Generated : param_version[s] = train_version

\* put_sample adds nothing but the sample it is given.
LEMMA PutAdds ==
    ASSUME QTyped, NEW x \in Samples \cup {None}, MQ!PutSample(x)
    PROVE  SamplesIn(queue') \subseteq SamplesIn(queue) \cup {x}
PROOF
<1> DEFINE d == IF MQ!QueueFull THEN 1 ELSE 0
<1>1. /\ DOMAIN queue' = 1..Len(queue') /\ DOMAIN queue = 1..Len(queue)
      /\ Len(queue') \in Nat
      /\ queue'[Len(queue')] = x
      /\ \A i \in 1..(Len(queue') - 1) : i + d \in 1..Len(queue) /\ queue'[i] = queue[i + d]
  BY PutShifts
<1>2. \A i \in DOMAIN queue' : i = Len(queue') \/ i \in 1..(Len(queue') - 1)
  BY <1>1
<1> HIDE DEF d
<1> QED
  BY <1>1, <1>2 DEF SamplesIn

\* A sample is labelled when its generation returns, with the version of the
\* Rollouter at that moment, and never again.
LEMMA GeneratedOnce ==
    ASSUME SInv, [Next]_vars
    PROVE  \A s \in Generated' :
              \/ s \in Generated /\ param_version'[s] = param_version[s]
              \/ /\ param_version'[s] = current_param_version
                 /\ UNCHANGED <<current_param_version, trainVars>>
PROOF
<1>0. QTyped /\ PTyped /\ VInv /\ Placed /\ param_version \in [Samples -> Nat]
  BY DEF SInv, VInv, VTypes
<1>1. ASSUME NEW x \in Samples, TaskGenerated(x), UNCHANGED trainVars
      PROVE  \A s \in Generated' :
                \/ s \in Generated /\ param_version'[s] = param_version[s]
                \/ /\ param_version'[s] = current_param_version
                   /\ UNCHANGED <<current_param_version, trainVars>>
  <2>1. UNCHANGED <<Arriving, batch, queue, current_param_version, trainVars>>
    BY <1>1, RollouterKeepsTrainer DEF TaskGenerated, mqVars, versionVars
  <2>2. putting' = putting \cup {x}
        /\ param_version' = [param_version EXCEPT ![x] = current_param_version]
    BY <1>1 DEF TaskGenerated
  <2>3. \A s \in Generated' : s = x \/ s \in Generated
    BY <2>1, <2>2 DEF Generated
  <2>4. \A s \in Generated : s \in Samples
    BY <1>0 DEF Generated, SamplesIn, Arriving, PTyped, FTyped, Placed
  <2> QED
    BY <1>0, <2>1, <2>2, <2>3, <2>4
<1>2. ASSUME UNCHANGED param_version, Generated' \subseteq Generated
      PROVE  \A s \in Generated' : s \in Generated /\ param_version'[s] = param_version[s]
  BY <1>2
<1>3. ASSUME NEW x \in Samples \cup {None}, MovePut(x)
      PROVE  Generated' \subseteq Generated
  <2>1. SamplesIn(queue') \subseteq SamplesIn(queue) \cup ({x} \cap Samples)
    <3>1. SamplesIn(queue') \subseteq SamplesIn(queue) \cup {x}
      BY <1>0, <1>3, PutAdds DEF MovePut
    <3> QED
      BY <3>1 DEF SamplesIn
  <2>2. UNCHANGED <<Arriving, batch>>
        /\ putting' \subseteq putting /\ (x \in Samples => x \in putting)
    BY <1>3, SamplesFacts DEF MovePut
  <2> QED
    BY <2>1, <2>2 DEF Generated
<1>4. CASE ProcessorStep /\ UNCHANGED trainVars
  <2>1. UNCHANGED param_version
    <3>1. ASSUME NEW loop \in DrainLoops,
                 ProcDrainTest(loop) \/ ProcDrainLocked(loop) \/ ProcDrainWake(loop)
          PROVE  UNCHANGED param_version
      BY <3>1 DEF ProcDrainTest, ProcDrainLocked, ProcDrainWake, taskVars
    <3>2. ASSUME NEW where \in {"sleep", "submit"},
                 ProcEnter(where) \/ ProcEnterLocked(where) \/ ProcWoken(where)
          PROVE  UNCHANGED param_version
      BY <3>2 DEF ProcEnter, ProcEnterLocked, ProcWoken, taskVars
    <3> QED
      BY <1>4, <3>1, <3>2 DEF ProcessorStep, ProcPause, ProcPauseLocked, ProcTake, ProcGot,
         taskVars
  <2>2. UNCHANGED <<putting, queue, Arriving, batch>>
    BY <1>0, <1>4, ProcessorMoves DEF heldState, MoveTake, MoveTakeAgain, MoveSubmit
  <2> QED
    BY <1>2, <2>1, <2>2 DEF Generated
<1>5. CASE TaskStep /\ UNCHANGED trainVars
  <2> PICK x \in Samples : TaskReturns(x) \/ TaskFails(x)
    BY <1>5 DEF TaskStep
  <2>1. CASE TaskGenerated(x)
    BY <1>1, <1>5, <2>1
  <2>2. CASE TaskPut(x)
    <3>1. MovePut(x) /\ UNCHANGED param_version
      <4>1. UNCHANGED <<Arriving, batch, trained>>
        <5>1. UNCHANGED <<waiting \cup woken, reply>>
          BY <2>2 DEF TaskPut, MQ!PutSample, MQ!NotifyAll
        <5> QED
          BY <1>5, <5>1, RollouterKeepsTrainer
      <4>2. x # None
        BY SamplesFacts
      <4> QED
        BY <2>2, <4>1, <4>2 DEF TaskPut, MovePut, procVars, feedVars
    <3> QED
      BY <1>2, <1>3, <3>1
  <2>3. CASE TaskCancelled(x) \/ TaskFails(x)
    <3>1. UNCHANGED <<putting, queue, Arriving, batch, param_version>>
      BY <1>5, <2>3, RollouterKeepsTrainer DEF TaskCancelled, TaskFails, mqVars
    <3> QED
      BY <1>2, <3>1 DEF Generated
  <2> QED
    BY <2>1, <2>2, <2>3 DEF TaskReturns
<1>6. CASE (FeedSamples \/ CallStep \/ MonitorStep \/ MainStep) /\ UNCHANGED trainVars
  <2>1. UNCHANGED <<generating, putting>>
    BY <1>0, <1>6, CoroutineEffects
  <2>2. UNCHANGED param_version
    BY <1>6 DEF FeedSamples, CallStep, CallQueues, PauseBegin, PauseCancel, PauseGathered,
       PauseEnd, UpdateBegin, UpdateEnd, ResumeBegin, ResumeEnd, MonitorStep, MonitorWake,
       MonitorLocked, MainStep, MainFinish, MainStop, taskVars
  <2>3. CASE UNCHANGED heldState
    BY <1>2, <2>2, <2>3 DEF Generated, heldState
  <2>4. CASE MoveFeed
    BY <1>2, <2>1, <2>2, <2>4 DEF Generated, MoveFeed
  <2>5. ASSUME NEW s \in Samples, MoveGenerated(s) \/ MoveCancelled(s) \/ MoveFailed(s)
        PROVE  FALSE
    BY <2>1, <2>5 DEF MoveGenerated, MoveCancelled, MoveFailed
  <2>6. ASSUME NEW x \in Samples \cup {None}, MovePut(x)
        PROVE  Generated' \subseteq Generated
    BY <1>3, <2>6
  <2> QED
    BY <1>2, <1>6, <2>2, <2>3, <2>4, <2>5, <2>6, CoroutineMoves
<1>7. CASE TrainerStep
  <2>1. UNCHANGED <<param_version, putting>>
    BY <1>7, TrainerLeavesRollouter DEF taskVars
  <2>2. CASE MoveGet
    <3>1. SamplesIn(queue') = SamplesIn(queue) \ {Head(queue)}
          /\ (Head(queue) \in Samples => Head(queue) \in SamplesIn(queue))
      BY <1>0, <2>2, TailSamples DEF MoveGet, QTyped, Placed
    <3>2. Arriving' = {Head(queue)} \cap Samples /\ UNCHANGED batch
      BY <2>2 DEF MoveGet
    <3> QED
      BY <1>2, <2>1, <3>1, <3>2 DEF Generated
  <2>3. ASSUME NEW x \in Samples, MoveReceive(x) PROVE Generated' \subseteq Generated
    BY <2>1, <2>3 DEF MoveReceive, Generated
  <2>4. CASE MoveTrain
    BY <1>2, <2>1, <2>4 DEF MoveTrain, Generated
  <2>5. CASE MoveClear
    <3>1. SamplesIn(queue') = {}
      BY <2>5 DEF MoveClear, SamplesIn
    <3> QED
      BY <1>2, <2>1, <2>5, <3>1 DEF MoveClear, Generated
  <2>6. CASE UNCHANGED heldState
    BY <1>2, <2>1, <2>6 DEF Generated, heldState
  <2> QED
    BY <1>0, <1>2, <1>7, <2>1, <2>2, <2>3, <2>4, <2>5, <2>6, TrainerMoves
<1>8. CASE UNCHANGED vars
  BY <1>2, <1>8 DEF Generated, Arriving, MQ!Outstanding, vars, mqVars, rollVars, trainVars
<1> QED
  BY <1>4, <1>5, <1>6, <1>7, <1>8 DEF Next, RollNext, Ended

\* A sample that is generated is in flight.
LEMMA GeneratedInFlight ==
    SInv /\ KInv /\ InFlight = 0 => Generated = {}
PROOF
<1> SUFFICES ASSUME SInv, InFlight = 0 PROVE Generated = {}
  OBVIOUS
<1>1. /\ CountIn(cancel_queue) \in Nat /\ CountIn(queue) \in Nat
      /\ Cardinality(generating) \in Nat /\ Cardinality(putting) \in Nat
      /\ Cardinality(Arriving) \in Nat /\ Cardinality(batch) \in Nat
      /\ Arriving \subseteq Samples /\ IsFiniteSet(putting) /\ IsFiniteSet(batch)
  BY HeldCounts DEF SInv
<1>2. CountIn(queue) = 0 /\ Cardinality(putting) = 0 /\ Cardinality(Arriving) = 0
      /\ Cardinality(batch) = 0
  BY <1>1 DEF InFlight
<1>3. CountIn(queue) = Cardinality(SamplesIn(queue)) /\ SamplesIn(queue) \subseteq Samples
  BY CountIsCardinality DEF SInv, QTyped, Placed, SamplesIn
<1>4. IsFiniteSet(Arriving) /\ IsFiniteSet(SamplesIn(queue))
  BY <1>1, <1>3, SamplesFacts
<1>5. putting = {} /\ batch = {} /\ Arriving = {} /\ SamplesIn(queue) = {}
  BY <1>1, <1>2, <1>3, <1>4, FS_EmptySet
<1> QED
  BY <1>5 DEF Generated

\* Whenever anything is in flight, Rollouter and trainer are at one version.
Caught ==
    after_sync = "log" /\ Generated # {} =>
        ~Syncing /\ train_version = current_param_version

LEMMA LabelledNextPreserves ==
    ASSUME SInv, TInv, Labelled, Caught', [Next]_vars
    PROVE  Labelled'
PROOF
<1> SUFFICES ASSUME after_sync' = "log", NEW s \in Generated'
             PROVE  param_version'[s] = train_version'
  BY DEF Labelled
<1>1. trainer' \notin {"wait_last_valid", "sync_pause", "sync_transfer"}
      /\ train_version' = current_param_version'
  BY DEF Caught, Syncing
<1>2. UNCHANGED train_version /\ after_sync = "log"
  <2>1. CASE TrainStep
    <3>1. after_sync = "log"
      BY <2>1 DEF TrainStep, TInv, FinalOnce, SInv, VInv, VTypes
    <3> QED
      BY <1>1, <2>1, <3>1 DEF TrainStep, TriggerParameterSync
  <2>2. CASE FinalSync
    BY <1>1, <2>2 DEF FinalSync, TriggerParameterSync
  <2>3. CASE UNCHANGED <<after_sync, train_version>>
    BY <2>3
  <2> QED
    BY <2>1, <2>2, <2>3
       DEF Next, TrainerStep, Ended, LogValidation, RequestSample, WakeTrainer, ReceiveSample,
           FinalWait, SyncPause, SyncTransfer, SyncReturn, ClearAndEnd, trainVars, vars
<1>3. CASE s \in Generated /\ param_version'[s] = param_version[s]
  BY <1>2, <1>3 DEF Labelled
<1>4. CASE param_version'[s] = current_param_version /\ UNCHANGED current_param_version
  BY <1>1, <1>4
<1> QED
  BY <1>3, <1>4, GeneratedOnce

\* With staleness_threshold 0 every batch was generated, sample by sample,
\* with the version it is trained on, although tasks go on and updates reset
\* the count while the trainer works.
THEOREM TrainingOnPolicy ==
    ASSUME ThresholdZero
    PROVE  Spec => []OnPolicy
PROOF
<1>1. EInv => Caught
  BY FlightWithinQuota, GeneratedInFlight DEF EInv, Caught
<1>2. Init => Labelled
  BY DEF Init, RollInit, Labelled, Generated, SamplesIn, Arriving
<1>3. EInv /\ Labelled /\ Caught' /\ [Next]_vars => Labelled'
  BY LabelledNextPreserves DEF EInv
<1>4. EInv /\ Labelled => OnPolicy
  BY DEF EInv, SInv, VInv, VTypes, TInv, FinalOnce, Labelled, Generated, OnPolicy
<1> QED
  BY <1>1, <1>2, <1>3, <1>4, ExactInvariant, PTL DEF Spec
-----------------------------------------------------------------------------
(* The end of the data *)

\* Behind its main loop the processor has taken the end signal.
DoneTaken == proc[2] \in {"end", "done"} => Taken = DONE

\* Which places of the processor a step can lead to.
LEMMA ProcessorGoes ==
    ASSUME SInv, ProcessorStep
    PROVE  \/ proc'[2] = proc[2]
           \/ proc'[2] \in {"top", "flag", "drain", "sleep", "limit", "submit", "get", "crashed"}
           \/ /\ proc'[2] = "end" /\ proc[2] \in {"top", "get"}
              /\ pending_queue # <<>> /\ Head(pending_queue) = DONE
              /\ pending_queue' = Tail(pending_queue) /\ UNCHANGED fed
           \/ /\ proc = <<"run", "end">> /\ proc' = <<"end", "done">>
              /\ ActiveCount = 0 /\ UNCHANGED <<generating, putting>>
PROOF
<1>1. CASE ProcPause \/ ProcPauseLocked
  BY <1>1 DEF ProcPause, ProcPauseLocked
<1>2. CASE ProcTake \/ ProcGot
  BY <1>2 DEF ProcTake, ProcGot, TakePending
<1>3. ASSUME NEW loop \in DrainLoops,
             ProcDrainTest(loop) \/ ProcDrainLocked(loop) \/ ProcDrainWake(loop)
      PROVE  \/ proc'[2] = proc[2]
             \/ proc'[2] \in {"sleep", "submit", "crashed"}
             \/ /\ proc = <<"run", "end">> /\ proc' = <<"end", "done">>
                /\ ActiveCount = 0 /\ UNCHANGED <<generating, putting>>
  <2>1. CASE ProcDrainTest(loop) /\ ~MustDrain(loop) /\ loop = "end"
    <3>1. ActiveCount \in Nat
      BY ActiveCountTyped DEF SInv, PTyped
    <3>2. ~(ActiveCount > 0)
      BY <2>1 DEF MustDrain
    <3> HIDE DEF ActiveCount
    <3>3. ActiveCount = 0
      BY <3>1, <3>2
    <3> QED
      BY <2>1, <3>3 DEF ProcDrainTest, AfterDrain, taskVars
  <2>2. CASE ProcDrainTest(loop) /\ ~(~MustDrain(loop) /\ loop = "end")
    BY <2>2 DEF ProcDrainTest, AfterDrain, DrainLoops
  <2>3. CASE ProcDrainLocked(loop) \/ ProcDrainWake(loop)
    BY <2>3 DEF ProcDrainLocked, ProcDrainWake
  <2> QED
    BY <1>3, <2>1, <2>2, <2>3
<1>4. ASSUME NEW where \in {"sleep", "submit"},
             ProcEnter(where) \/ ProcEnterLocked(where) \/ ProcWoken(where)
      PROVE  proc'[2] \in {"top", "sleep", "submit"}
  BY <1>4 DEF ProcEnter, ProcEnterLocked, ProcWoken, UnderLock
<1> QED
  BY <1>1, <1>2, <1>3, <1>4 DEF ProcessorStep

\* Whatever else runs leaves the processor where it is.
LEMMA OthersKeepProcessor ==
    ASSUME SInv, [Next]_vars, ~(ProcessorStep /\ UNCHANGED trainVars)
    PROVE  proc' = proc \/ proc' = Notified(proc)
PROOF
<1>1. CASE TaskStep
  BY <1>1, TaskEffects DEF TaskStep, SInv
<1>2. CASE FeedSamples \/ CallStep \/ MonitorStep \/ MainStep
  BY <1>2, CoroutineEffects DEF SInv
<1>3. CASE TrainerStep
  BY <1>3, TrainerLeavesRollouter DEF procVars
<1>4. CASE UNCHANGED vars
  BY <1>4 DEF vars, rollVars
<1> QED
  BY <1>1, <1>2, <1>3, <1>4 DEF Next, RollNext, Ended

LEMMA DoneNextPreserves ==
    ASSUME SInv, PendingOrder, DoneTaken, [Next]_vars
    PROVE  DoneTaken'
PROOF
<1>0. /\ Taken \in 0..DONE /\ DONE \in Nat /\ PendingOrder' /\ Taken' \in 0..DONE
      /\ Taken' = Taken \/ Taken' = Taken + 1
  <2>1. PendingOrder' /\ SInv'
    BY OrderNextPreserves, SNextPreserves
  <2>2. fed' \in 0..DONE /\ Len(pending_queue') \in Nat /\ DONE \in Nat
    BY <2>1, SamplesFacts, LenProperties DEF SInv, PTyped, FTyped
  <2>3. Taken' <= DONE
    BY <2>2 DEF Taken
  <2> QED
    BY <2>1, <2>2, <2>3, OrderNextPreserves, TakenTyped
<1>1. CASE proc[2] \in {"end", "done"}
  <2>1. Taken' = DONE
    BY <1>0, <1>1 DEF DoneTaken
  <2> QED
    BY <2>1 DEF DoneTaken
<1>2. CASE proc[2] \notin {"end", "done"}
  <2>1. CASE ProcessorStep /\ UNCHANGED trainVars
    <3>1. CASE /\ pending_queue # <<>> /\ Head(pending_queue) = DONE
               /\ pending_queue' = Tail(pending_queue) /\ UNCHANGED fed
      <4>1. Head(pending_queue) = Taken + 1
        <5>1. 1 \in DOMAIN pending_queue /\ Head(pending_queue) = pending_queue[1]
          BY <3>1, HeadTailProperties, LenProperties, EmptySeq DEF SInv, PTyped, FTyped
        <5> QED
          BY <5>1 DEF PendingOrder
      <4>2. Len(pending_queue') = Len(pending_queue) - 1
        BY <3>1, HeadTailProperties DEF SInv, PTyped, FTyped
      <4>3. Taken' = DONE
        BY <3>1, <4>1, <4>2, TakenTyped DEF Taken
      <4> QED
        BY <4>3 DEF DoneTaken
    <3>2. CASE proc'[2] \notin {"end", "done"}
      BY <3>2 DEF DoneTaken
    <3> QED
      BY <1>2, <2>1, <3>1, <3>2, ProcessorGoes
  <2>2. CASE ~(ProcessorStep /\ UNCHANGED trainVars)
    <3>1. proc'[2] = proc[2]
      BY <2>2, OthersKeepProcessor, NotifiedFacts
    <3> QED
      BY <1>2, <3>1 DEF DoneTaken
  <2> QED
    BY <2>1, <2>2
<1> QED
  BY <1>1, <1>2

LEMMA DoneInvariant == Spec => [](SInv /\ TInv /\ KInv /\ DoneTaken)
PROOF
<1>1. Init => DoneTaken
  BY DEF Init, RollInit, DoneTaken
<1>2. SInv /\ KInv /\ DoneTaken /\ [Next]_vars => DoneTaken'
  BY DoneNextPreserves DEF KInv
<1> QED
  BY <1>1, <1>2, QuotaInvariant, PTL DEF Spec

-----------------------------------------------------------------------------
(* The first tasks *)

\* What the feed puts before the processor takes anything.
FirstPending == IF PendingQueueSize < DONE THEN PendingQueueSize ELSE DONE

\* Nothing has been taken yet.
Fresh ==
    /\ proc \in {<<"run", "top">>, <<"blocked", "get">>}
    /\ ~paused /\ lock = <<>> /\ staleness_samples = 0
    /\ cancel_queue = <<>> /\ generating = {} /\ putting = {} /\ finished = 0 /\ failed = 0
    /\ queue = <<>>
    /\ trainer \in {"start", "request"} \/ (trainer = "await" /\ MQ!Outstanding("trainer"))
    /\ pc["pause"] = "idle" /\ pc["update"] = "idle" /\ pc["resume"] = "idle"
    /\ pc["monitor"] # "lock"
    /\ \/ fed = 0 /\ pending_queue = <<>>
       \/ proc = <<"blocked", "get">> /\ Len(pending_queue) = FirstPending /\ fed = FirstPending

\* The processor submits what is pending without giving way to the tasks.
Bursting ==
    /\ proc[1] = "run" /\ proc[2] \in {"top", "limit", "submit", "drain", "end"}
    /\ lock = <<>> /\ queue = <<>> /\ cancel_queue = <<>>
    /\ putting = {} /\ finished = 0 /\ failed = 0
    /\ proc[2] # "drain" => ~paused
    /\ proc[2] = "drain" => generating # {}
    /\ proc[2] = "top" =>
          /\ staleness_samples = Cardinality(generating)
          /\ Len(pending_queue) + Cardinality(generating) = FirstPending
    /\ proc[2] \in {"limit", "submit"} =>
          /\ staleness_samples = Cardinality(generating) + 1
          /\ Len(pending_queue) + Cardinality(generating) = FirstPending - 1

\* Before the processor has waited for a task it has all its tasks started in
\* one go, so that it never finds the lock taken.
StartedAtOnce == done_bound \/ proc[1] \in {"wait", "end"} \/ Fresh \/ Bursting

\* The numbers and the sets of the start.
LEMMA StartFacts ==
    ASSUME SInv, PendingOrder
    PROVE  /\ FirstPending \in Nat \ {0} /\ FirstPending <= DONE /\ FirstPending <= PendingQueueSize
           /\ Len(pending_queue) \in Nat
           /\ Cardinality(generating) \in Nat /\ Cardinality(generating) <= TotalRolloutSteps
           /\ Cardinality(generating) <= MaxConcurrentSamples
           /\ (Cardinality(generating) = 0 <=> generating = {})
           /\ MaxRequiredSamples \in Nat \ {0} /\ MaxConcurrentSamples \in Nat
           /\ PendingQueueSize \in Nat /\ TotalRolloutSteps \in Nat
           /\ DONE = TotalRolloutSteps + 1
           /\ pending_queue # <<>> => Len(pending_queue) # 0 /\ Head(pending_queue) = Taken + 1
                                      /\ Len(Tail(pending_queue)) = Len(pending_queue) - 1
           /\ pending_queue = <<>> => Len(pending_queue) = 0
           /\ None \notin Samples
PROOF
<1>1. /\ PTyped /\ pending_queue \in Seq(Samples \cup {DONE}) /\ generating \subseteq Samples
      /\ IsFiniteSet(generating)
  BY SamplesFacts DEF SInv, PTyped, FTyped
<1>2. Cardinality(generating) \in Nat /\ Cardinality(generating) <= TotalRolloutSteps
  BY <1>1, SamplesFacts
<1>3. Cardinality(generating) <= MaxConcurrentSamples
  <2>1. ActiveCount <= MaxConcurrentSamples
    BY DEF SInv, TaskLimit
  <2> QED
    BY <1>1, <2>1, TaskCounts DEF ActiveCount
<1>4. Cardinality(generating) = 0 <=> generating = {}
  BY <1>1, FS_EmptySet
<1>5. pending_queue # <<>> => Len(pending_queue) # 0 /\ Head(pending_queue) = Taken + 1
                              /\ Len(Tail(pending_queue)) = Len(pending_queue) - 1
  <2> SUFFICES ASSUME pending_queue # <<>>
               PROVE  Len(pending_queue) # 0 /\ Head(pending_queue) = Taken + 1
                      /\ Len(Tail(pending_queue)) = Len(pending_queue) - 1
    OBVIOUS
  <2>1. 1 \in DOMAIN pending_queue /\ Head(pending_queue) = pending_queue[1]
        /\ Len(pending_queue) # 0 /\ Len(Tail(pending_queue)) = Len(pending_queue) - 1
    BY <1>1, HeadTailProperties, LenProperties, EmptySeq
  <2> QED
    BY <2>1 DEF PendingOrder
<1>6. /\ FirstPending \in Nat \ {0} /\ FirstPending <= DONE /\ FirstPending <= PendingQueueSize
      /\ PendingQueueSize \in Nat
  BY RollouterAssumption, SamplesFacts DEF FirstPending
<1>7. Len(pending_queue) \in Nat /\ (pending_queue = <<>> => Len(pending_queue) = 0)
  BY <1>1, LenProperties, EmptySeq
<1> QED
  BY <1>2, <1>3, <1>4, <1>5, <1>6, <1>7, RollouterAssumption, SamplesFacts

\* The first sample starts the burst.
LEMMA FreshNextPreserves ==
    ASSUME SInv, PendingOrder, Fresh, [Next]_vars
    PROVE  Fresh' \/ Bursting'
PROOF
<1>0. /\ pc["main"] = "wait" /\ proc[1] # "end" /\ VInv /\ QTyped /\ PTyped
      /\ pc \in [Coroutines -> Labels] /\ mq_running = TRUE
  BY DEF Fresh, SInv, FinishKept, VInv, VTypes, QTyped
<1>1. CASE ProcessorStep /\ UNCHANGED trainVars
  <2>1. CASE ProcTake /\ proc' = <<"blocked", "get">>
    <3>1. fed = 0 /\ pending_queue = <<>>
      BY <2>1 DEF Fresh, ProcTake
    <3>2. UNCHANGED <<paused, lock, staleness_samples, cancel_queue, generating, putting,
                      finished, failed, queue, pc, fed, pending_queue, trainer, waiting, woken>>
      BY <1>1, <2>1, <3>1
         DEF ProcTake, TakePending, taskVars, flagVars, mqVars, trainVars
    <3> QED
      BY <2>1, <3>1, <3>2 DEF Fresh, MQ!Outstanding
  <2>2. CASE ProcTake /\ proc' # <<"blocked", "get">>
    BY <2>2 DEF Fresh, ProcTake, TakePending
  <2>3. CASE ProcGot
    <3>1. /\ pending_queue # <<>> /\ pending_queue' = Tail(pending_queue)
          /\ staleness_samples' = 1
          /\ proc' = IF Head(pending_queue) = DONE THEN <<"run", "end">> ELSE <<"run", "limit">>
          /\ UNCHANGED <<paused, lock, cancel_queue, generating, putting, finished, failed, queue>>
      BY <2>3 DEF ProcGot, TakePending, Fresh, taskVars, flagVars, mqVars
    <3>2. Len(pending_queue) = FirstPending /\ fed = FirstPending
      BY <3>1 DEF Fresh
    <3>3. Head(pending_queue) = 1 /\ DONE # 1
      BY <3>1, <3>2, StartFacts, SamplesFacts DEF Taken
    <3>4. Cardinality(generating) = 0
      BY FS_EmptySet DEF Fresh
    <3> QED
      BY <3>1, <3>2, <3>3, <3>4, StartFacts DEF Fresh, Bursting
  <2>4. ASSUME NEW loop \in DrainLoops,
               ProcDrainTest(loop) \/ ProcDrainLocked(loop) \/ ProcDrainWake(loop)
        PROVE  FALSE
    BY <2>4 DEF Fresh, DrainLoops, ProcDrainTest, ProcDrainLocked, ProcDrainWake
  <2>5. ASSUME NEW where \in {"sleep", "submit"},
               ProcEnter(where) \/ ProcEnterLocked(where) \/ ProcWoken(where)
        PROVE  FALSE
    BY <2>5 DEF Fresh, ProcEnter, ProcEnterLocked, ProcWoken
  <2>6. CASE ProcPause \/ ProcPauseLocked
    <3>1. ~ShouldPauseGeneration
      BY StartFacts, EmptySeq DEF Fresh, ShouldPauseGeneration
    <3> QED
      BY <2>6, <3>1 DEF Fresh, ProcPause, ProcPauseLocked
  <2> QED
    BY <1>1, <2>1, <2>2, <2>3, <2>4, <2>5, <2>6 DEF ProcessorStep
<1>2. CASE TaskStep
  BY <1>2 DEF Fresh, TaskStep, TaskReturns, TaskGenerated, TaskPut, TaskCancelled, TaskFails
<1>3. CASE FeedSamples /\ UNCHANGED trainVars
  <2>1. proc = <<"blocked", "get">>
    BY <1>3 DEF FeedSamples, Idle, Fresh
  <2>2. UNCHANGED <<proc, paused, lock, staleness_samples, cancel_queue, generating, putting,
                    finished, failed, queue, trainer, waiting, woken, pc["pause"],
                    pc["update"], pc["resume"], pc["monitor"]>>
    BY <1>0, <1>3 DEF FeedSamples, procVars, taskVars, flagVars, mqVars, trainVars, Goto, Coroutines
  <2>3. CASE fed = 0 /\ pending_queue = <<>>
    <3> DEFINE n == IF PendingQueueSize - Len(pending_queue) < DONE - fed
                    THEN PendingQueueSize - Len(pending_queue) ELSE DONE - fed
    <3>1. n = FirstPending
      BY <2>3, StartFacts DEF FirstPending
    <3>2. /\ fed' = fed + n
          /\ pending_queue' = pending_queue \o [i \in 1..n |-> FeedItem(fed + i)]
      BY <1>3 DEF FeedSamples
    <3> HIDE DEF n
    <3> DEFINE new == [i \in 1..n |-> FeedItem(fed + i)]
               items == {FeedItem(fed + i) : i \in 1..n}
    <3>3. new \in Seq(items) /\ Len(new) = n
      <4>1. n \in Nat
        BY <3>1, StartFacts
      <4>2. new \in [1..n -> items]
        OBVIOUS
      <4> HIDE DEF new, items
      <4> QED
        BY <4>1, <4>2
    <3>4. Len(pending_queue') = FirstPending /\ fed' = FirstPending
      <4>1. pending_queue' = new
        <5>1. pending_queue' = <<>> \o new
          BY <2>3, <3>2
        <5> HIDE DEF new, items
        <5> QED
          BY <3>3, <5>1, ConcatEmptySeq
      <4>2. fed' = FirstPending
        BY <2>3, <3>1, <3>2, StartFacts
      <4> QED
        BY <3>1, <3>3, <4>1, <4>2
    <3> QED
      BY <2>1, <2>2, <3>4 DEF Fresh, MQ!Outstanding
  <2>4. CASE Len(pending_queue) = FirstPending /\ fed = FirstPending
    BY <1>3, <2>4, StartFacts DEF FeedSamples, FirstPending
  <2> QED
    BY <2>1, <2>3, <2>4 DEF Fresh
<1>4. CASE CallStep
  BY <1>0, <1>4 DEF Fresh, CallStep, CallQueues, PauseBegin, PauseCancel, PauseGathered, PauseEnd,
     UpdateBegin, UpdateEnd, ResumeBegin, ResumeEnd, Entered
<1>5. CASE MonitorStep /\ UNCHANGED trainVars
  <2>1. /\ UNCHANGED <<lock, staleness_samples, cancel_queue, generating, putting,
                       finished, failed, queue, trainer, waiting, woken, pc["pause"],
                       pc["update"], pc["resume"], fed, pending_queue>>
        /\ ~paused' /\ pc'["monitor"] # "lock"
        /\ proc' = proc \/ proc' = Notified(proc)
    BY <1>0, <1>5 DEF Fresh, MonitorStep, MonitorWake, MonitorLocked, LockFree, Goto, Coroutines,
       taskVars, feedVars, mqVars, trainVars
  <2>2. proc' = proc
    BY <2>1 DEF Fresh, Notified
  <2> QED
    BY <2>1, <2>2 DEF Fresh, MQ!Outstanding
<1>6. CASE MainStep
  BY <1>0, <1>6 DEF MainStep, MainFinish, MainStop, Entered
<1>7. CASE TrainerStep
  <2>1. UNCHANGED <<proc, paused, lock, staleness_samples, cancel_queue, generating, putting,
                    finished, failed, fed, pending_queue>>
    BY <1>7, TrainerLeavesRollouter DEF procVars, feedVars, taskVars, flagVars
  <2>2. CASE LogValidation
    BY <2>1, <2>2 DEF Fresh, LogValidation, MQ!GetValidate, MQ!queueVars, rollVars
  <2>3. CASE RequestSample \/ WakeTrainer
    <3>1. trainer' = "await" /\ UNCHANGED pc
      BY <1>0, <2>3 DEF RequestSample, WakeTrainer, MQ!ResumeGetSample, rollVars, trainVars,
         QTyped
    <3>2. MQ!SleepUntilNotified("trainer")
      BY <1>0, <2>3 DEF Fresh, RequestSample, WakeTrainer, MQ!GetSample, MQ!ResumeGetSample,
         MQ!ReturnSample
    <3>3. UNCHANGED queue /\ MQ!Outstanding("trainer")'
      BY <3>2 DEF MQ!SleepUntilNotified, MQ!queueVars, MQ!Outstanding
    <3> QED
      BY <2>1, <3>1, <3>3 DEF Fresh
  <2>4. CASE ReceiveSample \/ TrainStep \/ FinalWait \/ FinalSync \/ SyncPause \/ SyncTransfer
             \/ SyncReturn \/ ClearAndEnd
    BY <2>4 DEF Fresh, ReceiveSample, TrainStep, FinalWait, FinalSync, SyncPause, SyncTransfer,
       SyncReturn, ClearAndEnd
  <2> QED
    BY <1>7, <2>2, <2>3, <2>4 DEF TrainerStep
<1>8. CASE UNCHANGED vars
  <2>1. Fresh'
    BY <1>8 DEF Fresh, MQ!Outstanding, vars, mqVars, rollVars, trainVars
  <2> QED
    BY <2>1
<1> QED
  BY <1>1, <1>2, <1>3, <1>4, <1>5, <1>6, <1>7, <1>8 DEF Next, RollNext, Ended

\* A burst goes on until the processor waits for a task.
LEMMA BurstNextPreserves ==
    ASSUME SInv, PendingOrder, PendingQueueSize > MaxConcurrentSamples, Bursting, [Next]_vars
    PROVE  Bursting' \/ proc'[1] \in {"wait", "end"}
PROOF
<1>0. /\ pc["main"] = "wait" /\ proc[1] = "run" /\ ~Idle /\ VInv /\ QTyped /\ PTyped
      /\ proc \in Places \X Spots /\ ActiveCount = Cardinality(generating)
  <2>1. ActiveCount = Cardinality(generating)
    BY FS_EmptySet, StartFacts DEF ActiveCount, Bursting
  <2> QED
    BY <2>1 DEF Bursting, SInv, FinishKept, PTyped, HandHeld, Idle
<1>1. CASE ProcessorStep /\ UNCHANGED trainVars
  <2>1. CASE ProcPause
    <3>1. proc = <<"run", "top">> /\ ShouldPauseGeneration
      BY <2>1 DEF Bursting, ProcPause
    <3>2. generating # {}
      BY <3>1, StartFacts, EmptySeq DEF Bursting, ShouldPauseGeneration
    <3> QED
      BY <2>1, <3>2 DEF Bursting, ProcPause, LockFree, taskVars, mqVars
  <2>2. CASE ProcTake /\ pending_queue # <<>>
    <3>1. /\ proc = <<"run", "top">> /\ pending_queue' = Tail(pending_queue)
          /\ staleness_samples' = staleness_samples + 1
          /\ proc' = IF Head(pending_queue) = DONE THEN <<"run", "end">> ELSE <<"run", "limit">>
          /\ UNCHANGED <<paused, lock, cancel_queue, generating, putting, finished, failed, queue>>
      BY <2>2 DEF ProcTake, TakePending, Bursting, taskVars, flagVars, mqVars
    <3> QED
      BY <2>2, <3>1, StartFacts DEF Bursting
  <2>3. CASE ProcTake /\ pending_queue = <<>>
    <3>1. proc = <<"run", "top">>
      BY <2>3 DEF ProcTake
    <3>2. Cardinality(generating) = FirstPending
      BY <2>3, <3>1, StartFacts DEF Bursting
    <3> QED
      BY <3>2, StartFacts DEF FirstPending
  <2>4. CASE ProcPauseLocked \/ ProcGot
    BY <1>0, <2>4 DEF ProcPauseLocked, ProcGot
  <2>5. ASSUME NEW loop \in DrainLoops, ProcDrainTest(loop)
        PROVE  Bursting' \/ proc'[1] \in {"wait", "end"}
    <3>1. CASE MustDrain(loop)
      BY <2>5, <3>1 DEF ProcDrainTest, Bursting, LockFree
    <3>2. CASE ~MustDrain(loop)
      <4>1. proc = <<"run", loop>> /\ proc' = AfterDrain(loop)
            /\ UNCHANGED <<hand, lock, paused, cancel_queue, generating, putting, finished, failed,
                           queue, pending_queue, staleness_samples>>
        BY <2>5, <3>2 DEF ProcDrainTest, taskVars, feedVars, flagVars, mqVars
      <4>2. loop # "drain"
        <5>1. loop = "drain" => Cardinality(generating) # 0
          BY <4>1, StartFacts DEF Bursting
        <5>2. ~(loop = "drain" /\ Cardinality(generating) > 0)
          BY <1>0, <3>2 DEF MustDrain
        <5> QED
          BY <5>1, <5>2, StartFacts
      <4> QED
        BY <4>1, <4>2 DEF DrainLoops, AfterDrain, Bursting
    <3> QED
      BY <3>1, <3>2
  <2>6. ASSUME NEW loop \in DrainLoops, ProcDrainLocked(loop) \/ ProcDrainWake(loop)
        PROVE  FALSE
    BY <1>0, <2>6 DEF ProcDrainLocked, ProcDrainWake
  <2>7. ASSUME NEW where \in {"sleep", "submit"},
               ProcEnter(where) \/ ProcEnterLocked(where) \/ ProcWoken(where)
        PROVE  Bursting'
    <3>1. /\ where = "submit" /\ proc = <<"run", "submit">> /\ ~paused
          /\ generating' = generating \cup {hand}
          /\ proc' = <<"run", "top">>
          /\ UNCHANGED <<lock, paused, cancel_queue, putting, finished, failed, queue,
                         pending_queue, staleness_samples>>
      BY <1>0, <2>7 DEF ProcEnter, ProcEnterLocked, ProcWoken, UnderLock, Bursting, LockFree,
         feedVars, flagVars, mqVars
    <3>2. Cardinality(generating') = Cardinality(generating) + 1
      <4>1. hand \in Samples
        BY <3>1 DEF SInv, PTyped, HandHeld
      <4>2. hand \notin generating
        BY <4>1 DEF SInv, Placed, OnePlace, In, PlaceNames
      <4>3. IsFiniteSet(generating)
        BY TaskCounts DEF SInv
      <4> QED
        BY <3>1, <4>2, <4>3, AddCounts
    <3> QED
      BY <3>1, <3>2, StartFacts DEF Bursting
  <2> QED
    BY <1>1, <2>1, <2>2, <2>3, <2>4, <2>5, <2>6, <2>7 DEF ProcessorStep
<1>2. CASE FeedSamples \/ TaskStep \/ MonitorStep
  BY <1>0, <1>2 DEF FeedSamples, TaskStep, TaskReturns, TaskGenerated, TaskPut, TaskCancelled,
     TaskFails, MonitorStep, MonitorWake, MonitorLocked
<1>3. CASE CallStep \/ MainStep
  BY <1>0, <1>3 DEF CallStep, CallQueues, PauseBegin, PauseCancel, PauseGathered, PauseEnd,
     UpdateBegin, UpdateEnd, ResumeBegin, ResumeEnd, MainStep, MainFinish, MainStop, Entered
<1>4. CASE TrainerStep
  <2>1. UNCHANGED <<proc, paused, lock, staleness_samples, cancel_queue, generating, putting,
                    finished, failed, pending_queue>>
    BY <1>4, TrainerLeavesRollouter DEF procVars, feedVars, taskVars, flagVars
  <2>2. queue' = <<>>
    <3>1. queue = <<>>
      BY DEF Bursting
    <3> QED
      BY <1>0, <1>4, <3>1, TrainerMoves DEF heldState, MoveGet, MoveTrain, MoveClear, MoveReceive
  <2> QED
    BY <2>1, <2>2 DEF Bursting
<1>5. CASE UNCHANGED vars
  <2>1. Bursting'
    BY <1>5 DEF Bursting, vars, mqVars, rollVars, trainVars
  <2> QED
    BY <2>1
<1> QED
  BY <1>1, <1>2, <1>3, <1>4, <1>5 DEF Next, RollNext, Ended

\* Once it waits, or has waited, or is over, that remains so.
LEMMA WaitedNextPreserves ==
    ASSUME SInv, done_bound \/ proc[1] \in {"wait", "end"}, [Next]_vars
    PROVE  done_bound' \/ proc'[1] \in {"wait", "end"}
PROOF
<1>1. CASE ProcessorStep /\ UNCHANGED trainVars
  <2>1. proc[1] # "end"
    BY <1>1, ProcessorLimit DEF SInv
  <2>2. CASE ProcPause \/ ProcPauseLocked \/ ProcTake \/ ProcGot
    BY <2>1, <2>2 DEF ProcPause, ProcPauseLocked, ProcTake, ProcGot
  <2>3. ASSUME NEW loop \in DrainLoops,
               ProcDrainTest(loop) \/ ProcDrainLocked(loop) \/ ProcDrainWake(loop)
        PROVE  done_bound' \/ proc'[1] \in {"wait", "end"}
    BY <2>1, <2>3 DEF ProcDrainTest, ProcDrainLocked, ProcDrainWake
  <2>4. ASSUME NEW where \in {"sleep", "submit"},
               ProcEnter(where) \/ ProcEnterLocked(where) \/ ProcWoken(where)
        PROVE  done_bound' \/ proc'[1] \in {"wait", "end"}
    BY <2>1, <2>4 DEF ProcEnter, ProcEnterLocked, ProcWoken
  <2> QED
    BY <1>1, <2>2, <2>3, <2>4 DEF ProcessorStep
<1>2. CASE ~(ProcessorStep /\ UNCHANGED trainVars)
  <2>1. UNCHANGED done_bound
    <3>1. CASE RollNext /\ UNCHANGED trainVars
      BY <1>2, <3>1 DEF RollNext, FeedSamples, TaskStep, TaskReturns, TaskGenerated, TaskPut,
         TaskCancelled, TaskFails, CallStep, CallQueues, PauseBegin, PauseCancel, PauseGathered,
         PauseEnd, UpdateBegin, UpdateEnd, ResumeBegin, ResumeEnd, MonitorStep, MonitorWake,
         MonitorLocked, MainStep, MainFinish, MainStop, procVars
    <3>2. CASE TrainerStep
      BY <3>2, TrainerLeavesRollouter DEF procVars
    <3>3. CASE UNCHANGED vars
      BY <3>3 DEF vars, rollVars
    <3> QED
      BY <3>1, <3>2, <3>3 DEF Next, Ended
  <2>2. proc[1] \in {"wait", "end"} => proc'[1] \in {"wait", "end"}
    BY <1>2, OthersKeepProcessor, NotifiedFacts
  <2> QED
    BY <2>1, <2>2
<1> QED
  BY <1>1, <1>2

\* The processor crashes only on a task that raised, or on a wait that finds
\* no task before it has ever waited.
LEMMA CrashNextPreserves ==
    ASSUME SInv, ProcessorSurvives, proc[1] = "lock" => done_bound, [Next]_vars
    PROVE  ProcessorSurvives'
PROOF
<1>0. failed \in Nat /\ failures \in Nat /\ failed <= failures /\ proc \in Places \X Spots
  BY RollouterAssumption DEF SInv, PTyped, FTyped, HandHeld
<1>1. CASE ProcessorStep /\ UNCHANGED trainVars
  <2>1. CASE ProcPause \/ ProcPauseLocked \/ ProcTake \/ ProcGot
    BY <2>1 DEF ProcPause, ProcPauseLocked, ProcTake, ProcGot, TakePending, ProcessorSurvives
  <2>2. ASSUME NEW loop \in DrainLoops, ProcDrainTest(loop) \/ ProcDrainLocked(loop)
        PROVE  ProcessorSurvives'
    <3>1. proc' # <<"end", "crashed">>
      BY <1>0, <2>2 DEF ProcDrainTest, ProcDrainLocked, AfterDrain, DrainLoops
    <3> QED
      BY <3>1 DEF ProcessorSurvives
  <2>3. ASSUME NEW loop \in DrainLoops, ProcDrainWake(loop)
        PROVE  ProcessorSurvives'
    BY <1>0, <2>3 DEF ProcDrainWake, ProcessorSurvives
  <2>4. ASSUME NEW where \in {"sleep", "submit"},
               ProcEnter(where) \/ ProcEnterLocked(where) \/ ProcWoken(where)
        PROVE  ProcessorSurvives'
    <3>1. proc' # <<"end", "crashed">>
      BY <2>4 DEF ProcEnter, ProcEnterLocked, ProcWoken, UnderLock
    <3> QED
      BY <3>1 DEF ProcessorSurvives
  <2> QED
    BY <1>1, <2>1, <2>2, <2>3, <2>4 DEF ProcessorStep
<1>2. CASE ~(ProcessorStep /\ UNCHANGED trainVars)
  <2>1. proc' = <<"end", "crashed">> => proc = <<"end", "crashed">>
    <3>1. proc' = proc \/ proc' = Notified(proc)
      BY <1>2, OthersKeepProcessor
    <3> QED
      BY <3>1 DEF Notified
  <2>2. failures' \in Nat /\ failures' >= failures
    <3>1. UNCHANGED failures \/ failures' = failures + 1
      <4>1. CASE RollNext /\ UNCHANGED trainVars
        BY <1>2, <4>1 DEF RollNext, FeedSamples, TaskStep, TaskReturns, TaskGenerated, TaskPut,
           TaskCancelled, TaskFails, CallStep, CallQueues, PauseBegin, PauseCancel,
           PauseGathered, PauseEnd, UpdateBegin, UpdateEnd, ResumeBegin, ResumeEnd, MonitorStep,
           MonitorWake, MonitorLocked, MainStep, MainFinish, MainStop, taskVars
      <4>2. CASE TrainerStep
        BY <4>2, TrainerLeavesRollouter DEF taskVars
      <4>3. CASE UNCHANGED vars
        BY <4>3 DEF vars, rollVars
      <4> QED
        BY <4>1, <4>2, <4>3 DEF Next, Ended
    <3> QED
      BY <1>0, <3>1
  <2> QED
    BY <1>0, <2>1, <2>2 DEF ProcessorSurvives
<1> QED
  BY <1>1, <1>2

\* If the feed can put more than may be generated at a time, the processor
\* ends with an exception only when a generation raised one: its wait for a
\* task that pause has gathered meanwhile never comes before its first.
THEOREM ProcessorSurvivesPauses ==
    ASSUME PendingQueueSize > MaxConcurrentSamples
    PROVE  Spec => []ProcessorSurvives
PROOF
<1>1. Init => StartedAtOnce /\ ProcessorSurvives
  BY DEF Init, RollInit, StartedAtOnce, Fresh, ProcessorSurvives
<1>2. SInv /\ KInv /\ StartedAtOnce /\ [Next]_vars => StartedAtOnce'
  BY FreshNextPreserves, BurstNextPreserves, WaitedNextPreserves DEF StartedAtOnce, KInv
<1>3. StartedAtOnce => (proc[1] = "lock" => done_bound)
  BY DEF StartedAtOnce, Fresh, Bursting
<1>4. SInv /\ StartedAtOnce /\ ProcessorSurvives /\ [Next]_vars => ProcessorSurvives'
  BY <1>3, CrashNextPreserves
<1> QED
  BY <1>1, <1>2, <1>4, QuotaInvariant, PTL DEF Spec

-----------------------------------------------------------------------------
(* The first version with staleness_threshold 0 *)

\* Before the processor has waited for a task the first version goes on: no
\* call has taken the lock, and what counts as stale is what was taken.
Opening ==
    /\ lock = <<>> /\ train_version = 0 /\ ~Syncing
    /\ pc["pause"] = "idle" /\ pc["update"] = "idle" /\ pc["resume"] = "idle"
    /\ pc["monitor"] # "lock"
    /\ staleness_samples = Taken
    /\ proc[2] # "drain" => ~paused
    /\ \/ proc = <<"run", "top">> /\ (Taken < MaxRequiredSamples \/ generating # {})
       \/ proc \in {<<"run", "limit">>, <<"run", "submit">>, <<"run", "end">>}
       \/ proc = <<"run", "drain">> /\ generating # {}
       \/ proc = <<"blocked", "get">> /\ Taken < MaxRequiredSamples

OpenedAtOnce == done_bound \/ proc[1] \in {"wait", "end"} \/ Opening

\* Until then no version is complete.
LEMMA OpeningTrains ==
    ASSUME ThresholdZero, EInv, DoneTaken, Opening
    PROVE  /\ after_sync = "log"
           /\ trainer = "step" => local_trigger_step < TriggerParameterSyncStep
           /\ Taken <= MaxRequiredSamples
           /\ Taken < MaxRequiredSamples => ~ShouldPauseGeneration
PROOF
<1>1. proc[1] # "end" /\ pc["main"] = "wait" /\ after_sync = "log" /\ SInv /\ TInv /\ KInv
      /\ PTyped /\ QTyped /\ Placed /\ PendingOrder
  BY DEF EInv, Opening, SInv, FinishKept, KInv, EndSeen, EndSignalled, VInv, VTypes
<1>2. /\ local_trigger_step \in 1..TriggerParameterSyncStep /\ TriggerParameterSyncStep \in Nat
      /\ RequiredSamples \in Nat \ {0} /\ MaxRequiredSamples \in Nat \ {0}
      /\ Taken \in Nat /\ TakenSamples \in Nat /\ DONE = TotalRolloutSteps + 1
      /\ TotalRolloutSteps \in Nat
  BY <1>1, TakenTyped, FullyAsyncAssumption, RollouterAssumption DEF TInv
<1>3. /\ InFlight \in Nat /\ Cardinality(trained) \in Nat
      /\ InFlight + Cardinality(trained) <= TakenSamples
  BY <1>1, FlightTaken
<1>4. Taken <= MaxRequiredSamples
  <2>1. Taken <= (Resets + 1) * MaxRequiredSamples
    BY <1>1 DEF KInv, TakenWithin
  <2>2. Resets = 0
    BY <1>1 DEF Opening, Resets, Syncing, SInv, VInv, VTypes, TrainerAhead
  <2>3. (0 + 1) * MaxRequiredSamples = MaxRequiredSamples
    BY <1>2
  <2> QED
    BY <2>1, <2>2, <2>3
<1>5. Cardinality(trained) = (local_trigger_step - 1) * RequiredSamples
  <2>1. Cardinality(trained) = train_version * MaxRequiredSamples
                                  + (local_trigger_step - 1) * RequiredSamples
    BY <1>1 DEF EInv, TrainedExactly
  <2>2. train_version = 0 /\ 0 * MaxRequiredSamples = 0
    BY <1>2 DEF Opening
  <2>3. (local_trigger_step - 1) * RequiredSamples \in Int
    BY <1>2
  <2> DEFINE steps == (local_trigger_step - 1) * RequiredSamples
  <2> HIDE DEF steps
  <2> QED
    BY <2>1, <2>2, <2>3 DEF steps
<1>6. trainer = "step" => local_trigger_step < TriggerParameterSyncStep
  <2> SUFFICES ASSUME trainer = "step", local_trigger_step = TriggerParameterSyncStep
               PROVE  FALSE
    BY <1>2
  <2>1. Cardinality(batch) = RequiredSamples
    BY <1>1 DEF TInv, BatchFills
  <2>2. Cardinality(trained) + RequiredSamples = MaxRequiredSamples
    <3>1. TriggerParameterSyncStep - 1 \in Int /\ RequiredSamples \in Nat
          /\ TriggerParameterSyncStep - 1 + 1 = TriggerParameterSyncStep
      BY <1>2
    <3>2. (TriggerParameterSyncStep - 1 + 1) * RequiredSamples
             = (TriggerParameterSyncStep - 1) * RequiredSamples + RequiredSamples
      BY <3>1, OneMore, ZenonT(20)
    <3>3. TriggerParameterSyncStep * RequiredSamples = RequiredSamples * TriggerParameterSyncStep
      BY <1>2
    <3> QED
      BY <1>5, <3>1, <3>2, <3>3 DEF ThresholdZero
  <2>3. /\ CountIn(cancel_queue) \in Nat /\ CountIn(queue) \in Nat
        /\ Cardinality(generating) \in Nat /\ Cardinality(putting) \in Nat
        /\ Cardinality(Arriving) \in Nat
        /\ generating # {} => Cardinality(generating) # 0
    BY <1>1, HeldCounts, StartFacts
  <2> DEFINE held == IF hand \in Samples THEN 1 ELSE 0
  <2>4. InFlight >= held + Cardinality(generating) + RequiredSamples
    BY <1>2, <2>1, <2>3 DEF InFlight
  <2>5. held + Cardinality(generating) <= 0 /\ TakenSamples >= MaxRequiredSamples
    <3>1. held \in Nat
      OBVIOUS
    <3> HIDE DEF held, TakenSamples, InFlight
    <3>2. TakenSamples <= MaxRequiredSamples
      BY <1>1, <1>4, TakenTyped
    <3> QED
      BY <1>2, <1>3, <2>2, <2>3, <2>4, <3>1, <3>2
  <2>6. hand \notin Samples /\ generating = {}
    <3>1. held = 0 /\ Cardinality(generating) = 0
      <4>1. held \in Nat
        OBVIOUS
      <4> HIDE DEF held
      <4> QED
        BY <2>3, <2>5, <4>1
    <3> QED
      BY <2>3, <3>1
  <2>7. Taken = MaxRequiredSamples /\ TakenSamples = Taken
    BY <1>1, <1>2, <1>4, <2>5, TakenTyped
  <2>8. proc = <<"run", "end">>
    BY <1>1, <1>2, <2>6, <2>7 DEF Opening, PTyped, HandHeld
  <2> QED
    BY <1>2, <2>7, <2>8 DEF DoneTaken, TakenSamples
<1>7. Taken < MaxRequiredSamples => ~ShouldPauseGeneration
  <2>1. Len(queue) <= TakenSamples /\ Len(queue) \in Nat
    <3>1. \A i \in DOMAIN queue : queue[i] \in Samples
      <4>1. \A i \in DOMAIN queue : queue[i] \in Samples \cup {None}
        BY <1>1, LenProperties, ElementOfSeq DEF QTyped
      <4> QED
        BY <1>1, <4>1 DEF SInv, FinishKept
    <3>2. DOMAIN queue = 1..Len(queue) /\ Len(queue) \in Nat
      BY <1>1, LenProperties DEF QTyped
    <3>3. {i \in DOMAIN queue : queue[i] \in Samples} = 1..Len(queue)
      BY <3>1, <3>2
    <3>4. CountIn(queue) = Len(queue)
      <4> DEFINE n == Len(queue)
      <4>1. n \in Nat
        BY <3>2
      <4>2. Cardinality(1..n) = n
        <5> HIDE DEF n
        <5> QED
          BY <4>1, FS_Interval
      <4> QED
        BY <3>3, <4>2 DEF CountIn
    <3>5. CountIn(queue) <= InFlight
      BY <1>1, HeldCounts DEF InFlight
    <3> HIDE DEF InFlight, TakenSamples
    <3> QED
      BY <1>2, <1>3, <3>2, <3>4, <3>5
  <2> QED
    BY <1>1, <1>2, <2>1, TakenTyped DEF ShouldPauseGeneration, Opening
<1> QED
  BY <1>1, <1>4, <1>6, <1>7

\* The opening goes on until the processor waits for a task.
LEMMA OpeningNextPreserves ==
    ASSUME ThresholdZero, EInv, DoneTaken, Opening, [Next]_vars
    PROVE  Opening' \/ proc'[1] \in {"wait", "end"}
PROOF
<1>0. /\ pc["main"] = "wait" /\ proc[1] # "end" /\ VInv /\ QTyped /\ PTyped /\ SInv
      /\ PendingOrder /\ proc \in Places \X Spots /\ pc \in [Coroutines -> Labels]
      /\ after_sync = "log" /\ Taken \in Nat /\ MaxRequiredSamples \in Nat \ {0}
  BY OpeningTrains, TakenTyped, RollouterAssumption
     DEF EInv, KInv, Opening, SInv, FinishKept, PTyped, HandHeld, VInv, VTypes
<1>1. CASE ProcessorStep /\ UNCHANGED trainVars
  <2>0. /\ UNCHANGED <<pc, train_version, trainer>>
    BY <1>1, ProcessorKeepsQueue DEF trainVars
  <2>1. CASE ProcPause
    <3>1. generating # {}
      BY <2>1, OpeningTrains DEF Opening, ProcPause
    <3> QED
      BY <2>0, <2>1, <3>1 DEF Opening, ProcPause, LockFree, feedVars, taskVars, Taken, Syncing
  <2>2. CASE ProcTake /\ UNCHANGED <<pending_queue, staleness_samples>>
    <3>1. /\ proc' \in {<<"run", "limit">>, <<"blocked", "get">>}
          /\ UNCHANGED <<paused, lock, fed>> /\ ~paused
          /\ proc' = <<"blocked", "get">> => staleness_samples < MaxRequiredSamples
      <4>1. proc' \in {<<"run", "limit">>, <<"blocked", "get">>}
        BY <1>0, <2>2 DEF ProcTake, TakePending, PTyped, FTyped
      <4>2. staleness_samples < MaxRequiredSamples
        BY <1>0, <2>2 DEF ProcTake, ShouldPauseGeneration, PTyped, FTyped
      <4> QED
        BY <2>2, <4>1, <4>2 DEF ProcTake, flagVars
    <3> QED
      BY <2>0, <2>2, <3>1 DEF Opening, Taken, Syncing
  <2>3. CASE (ProcTake \/ ProcGot) /\ TakePending
    <3>1. /\ pending_queue # <<>> /\ pending_queue' = Tail(pending_queue)
          /\ staleness_samples' = staleness_samples + 1
          /\ proc' \in {<<"run", "end">>, <<"run", "limit">>}
          /\ UNCHANGED <<paused, lock, fed>> /\ ~paused
      BY <2>3 DEF ProcTake, ProcGot, TakePending, Opening, flagVars
    <3>2. Taken' = Taken + 1
      <4>1. Len(pending_queue') = Len(pending_queue) - 1
        BY <1>0, <3>1, StartFacts
      <4> QED
        BY <1>0, <3>1, <4>1, TakenTyped DEF Taken
    <3> QED
      BY <2>0, <3>1, <3>2 DEF Opening, Syncing
  <2>4. CASE ProcPauseLocked
    BY <2>4 DEF ProcPauseLocked, Opening
  <2>5. ASSUME NEW loop \in DrainLoops, ProcDrainTest(loop)
        PROVE  Opening' \/ proc'[1] \in {"wait", "end"}
    <3>1. CASE MustDrain(loop)
      BY <2>5, <3>1 DEF ProcDrainTest, Opening, LockFree
    <3>2. CASE ~MustDrain(loop)
      <4>1. proc = <<"run", loop>> /\ proc' = AfterDrain(loop)
            /\ UNCHANGED <<lock, paused, fed, pending_queue, staleness_samples, generating>>
        BY <2>5, <3>2 DEF ProcDrainTest, taskVars, feedVars, flagVars
      <4>2. loop # "drain"
        <5>1. loop = "drain" => generating # {}
          BY <4>1 DEF Opening
        <5>2. generating # {} => ActiveCount > 0
          <6>1. generating # {} => Cardinality(generating) # 0
            BY <1>0, StartFacts
          <6> QED
            BY <1>0, <6>1, TaskCounts DEF ActiveCount
        <5>3. ~(loop = "drain" /\ ActiveCount > 0)
          BY <3>2 DEF MustDrain
        <5> QED
          BY <5>1, <5>2, <5>3
      <4>3. proc' \in {<<"run", "submit">>, <<"end", "done">>}
        BY <4>1, <4>2 DEF DrainLoops, AfterDrain
      <4> QED
        BY <2>0, <4>1, <4>2, <4>3 DEF Opening, Syncing, Taken
    <3> QED
      BY <3>1, <3>2
  <2>6. ASSUME NEW loop \in DrainLoops, ProcDrainLocked(loop) \/ ProcDrainWake(loop)
        PROVE  FALSE
    BY <2>6 DEF ProcDrainLocked, ProcDrainWake, Opening
  <2>7. ASSUME NEW where \in {"sleep", "submit"},
               ProcEnter(where) \/ ProcEnterLocked(where) \/ ProcWoken(where)
        PROVE  Opening'
    <3>1. /\ generating' = generating \cup {hand} /\ ~paused
          /\ proc' = <<"run", "top">>
          /\ UNCHANGED <<lock, paused, fed, pending_queue, staleness_samples>>
      BY <2>7 DEF ProcEnter, ProcEnterLocked, ProcWoken, UnderLock, Opening, LockFree,
         feedVars, flagVars
    <3> QED
      BY <2>0, <3>1 DEF Opening, Syncing, Taken
  <2>8. ProcTake => (TakePending \/ UNCHANGED <<pending_queue, staleness_samples>>)
    BY DEF ProcTake
  <2>9. ProcGot => TakePending
    BY DEF ProcGot
  <2> QED
    BY <1>1, <2>1, <2>2, <2>3, <2>4, <2>5, <2>6, <2>7, <2>8, <2>9 DEF ProcessorStep
<1>2. CASE (FeedSamples \/ TaskStep \/ MonitorStep) /\ UNCHANGED trainVars
  <2>1. proc = <<"blocked", "get">>
    BY <1>2 DEF Opening, FeedSamples, TaskStep, TaskReturns, TaskGenerated, TaskPut,
       TaskCancelled, TaskFails, MonitorStep, MonitorWake, MonitorLocked, Idle
  <2>2. /\ UNCHANGED <<lock, staleness_samples>> /\ ~paused'
        /\ pc'["pause"] = "idle" /\ pc'["update"] = "idle" /\ pc'["resume"] = "idle"
        /\ pc'["monitor"] # "lock"
        /\ proc' = proc \/ proc' = Notified(proc)
    <3>1. CASE FeedSamples \/ TaskStep
      BY <1>0, <2>1, <3>1 DEF Opening, FeedSamples, TaskStep, TaskReturns, TaskGenerated, TaskPut,
         TaskCancelled, TaskFails, procVars, flagVars, Goto, Coroutines
    <3>2. CASE MonitorStep
      BY <1>0, <2>1, <3>2 DEF Opening, MonitorStep, MonitorWake, MonitorLocked, LockFree, Goto,
         Coroutines
    <3> QED
      BY <1>2, <3>1, <3>2
  <2>3. proc' = proc
    BY <2>1, <2>2 DEF Notified
  <2>4. Taken' = Taken
    <3>1. proc'[2] = "get" /\ proc[1] = "blocked"
      BY <2>1, <2>3
    <3>2. ~MoveTake
      <4>1. CASE FeedSamples
        <5>1. fed' # fed
          <6>1. fed \in 0..DONE /\ DONE \in Nat
            BY <1>0, SamplesFacts DEF PTyped, FTyped
          <6> QED
            BY <1>0, <4>1, <6>1, FeedAdvances
        <5> QED
          BY <5>1 DEF MoveTake
      <4>2. CASE TaskStep \/ MonitorStep
        <5>1. UNCHANGED pending_queue
          BY <4>2 DEF TaskStep, TaskReturns, TaskGenerated, TaskPut, TaskCancelled, TaskFails,
             MonitorStep, MonitorWake, MonitorLocked, feedVars
        <5>2. pending_queue # <<>> => Len(Tail(pending_queue)) # Len(pending_queue)
          BY <1>0, StartFacts
        <5> QED
          BY <5>1, <5>2 DEF MoveTake
      <4> QED
        BY <1>2, <4>1, <4>2
    <3> QED
      BY <1>0, <3>2, OrderNextPreserves
  <2> QED
    BY <1>2, <2>1, <2>2, <2>3, <2>4 DEF Opening, Syncing, trainVars
<1>3. CASE CallStep \/ MainStep
  BY <1>0, <1>3 DEF Opening, CallStep, CallQueues, PauseBegin, PauseCancel, PauseGathered, PauseEnd,
     UpdateBegin, UpdateEnd, ResumeBegin, ResumeEnd, MainStep, MainFinish, MainStop, Entered
<1>4. CASE TrainerStep
  <2>1. UNCHANGED <<proc, paused, lock, staleness_samples, generating, fed, pending_queue>>
    BY <1>4, TrainerLeavesRollouter DEF procVars, feedVars, taskVars, flagVars
  <2>2. UNCHANGED <<pc, train_version>> /\ ~Syncing'
    <3>1. CASE LogValidation \/ RequestSample \/ WakeTrainer \/ ReceiveSample
      BY <3>1 DEF Opening, LogValidation, RequestSample, WakeTrainer, ReceiveSample, rollVars,
         trainVars, Syncing
    <3>2. CASE TrainStep
      <4>1. local_trigger_step < TriggerParameterSyncStep /\ local_trigger_step \in Nat
            /\ TriggerParameterSyncStep \in Nat
        BY <3>2, OpeningTrains, FullyAsyncAssumption DEF TrainStep, EInv, TInv
      <4> QED
        BY <3>2, <4>1 DEF TrainStep, TriggerParameterSync, SyncDue, rollVars, Syncing
    <3>3. CASE FinalWait \/ FinalSync \/ ClearAndEnd
      BY <1>0, <3>3 DEF FinalWait, FinalSync, ClearAndEnd, EInv, KInv, EndSeen,
         EndSignalled
    <3>4. CASE SyncPause \/ SyncTransfer \/ SyncReturn
      BY <3>4 DEF SyncPause, SyncTransfer, SyncReturn, Opening, Syncing
    <3> QED
      BY <1>4, <3>1, <3>2, <3>3, <3>4 DEF TrainerStep
  <2> QED
    BY <2>1, <2>2 DEF Opening, Taken
<1>5. CASE UNCHANGED vars
  <2>1. Opening'
    BY <1>5 DEF Opening, Syncing, Taken, vars, mqVars, rollVars, trainVars
  <2> QED
    BY <2>1
<1> QED
  BY <1>1, <1>2, <1>3, <1>4, <1>5 DEF Next, RollNext, Ended

\* With staleness_threshold 0 the processor survives every pause, however
\* small the pending queue is: the first version ends only after it has
\* waited for a task.
THEOREM ProcessorSurvivesOnPolicy ==
    ASSUME ThresholdZero
    PROVE  Spec => []ProcessorSurvives
PROOF
<1>1. Init => OpenedAtOnce /\ ProcessorSurvives
  <2> SUFFICES ASSUME Init PROVE OpenedAtOnce /\ ProcessorSurvives
    OBVIOUS
  <2>1. fed = 0 /\ pending_queue = <<>> /\ Len(pending_queue) = 0
    BY EmptySeq DEF Init, RollInit
  <2>2. Taken = 0 /\ 0 < MaxRequiredSamples
    <3>1. Taken = 0 - 0
      BY <2>1 DEF Taken
    <3>2. MaxRequiredSamples \in Nat /\ MaxRequiredSamples # 0
      BY RollouterAssumption
    <3> QED
      BY <3>1, <3>2
  <2>3. Opening
    BY <2>2 DEF Init, RollInit, Opening, Syncing
  <2>4. proc = <<"run", "top">>
    BY DEF Init, RollInit
  <2> QED
    BY <2>3, <2>4 DEF OpenedAtOnce, ProcessorSurvives
<1>2. EInv /\ DoneTaken /\ OpenedAtOnce /\ [Next]_vars => OpenedAtOnce'
  BY OpeningNextPreserves, WaitedNextPreserves DEF OpenedAtOnce, EInv
<1>3. OpenedAtOnce => (proc[1] = "lock" => done_bound)
  BY DEF OpenedAtOnce, Opening
<1>4. EInv /\ OpenedAtOnce /\ ProcessorSurvives /\ [Next]_vars => ProcessorSurvives'
  BY <1>3, CrashNextPreserves DEF EInv
<1> QED
  BY <1>1, <1>2, <1>4, ExactInvariant, DoneInvariant, PTL DEF Spec

-----------------------------------------------------------------------------
(* Generation that is not interrupted *)

\* Without partial rollout no generation is interrupted.
NotInterrupted == ~servers_paused /\ cancel_queue = <<>> /\ pc["pause"] # "cancel"

LEMMA UninterruptedNextPreserves ==
    ASSUME ~PartialRollout, SInv, NotInterrupted, [Next]_vars
    PROVE  NotInterrupted'
PROOF
<1>0. pc \in [Coroutines -> Labels] /\ VInv
  BY DEF SInv, VInv, VTypes
<1>1. CASE CallStep /\ UNCHANGED trainVars
  <2>1. UNCHANGED cancel_queue
    BY <1>1 DEF CallStep, CallQueues, PauseBegin, PauseCancel, PauseGathered, PauseEnd,
       UpdateBegin, UpdateEnd, ResumeBegin, ResumeEnd
  <2>2. ~servers_paused' /\ pc'["pause"] # "cancel"
    <3>1. GatherOrFinish # "cancel"
      BY DEF GatherOrFinish
    <3>2. CASE PauseBegin
      BY <1>0, <3>1, <3>2 DEF PauseBegin, Goto, NotInterrupted, Coroutines, versionVars
    <3>3. CASE PauseCancel
      BY <3>3 DEF PauseCancel, NotInterrupted
    <3>4. CASE PauseGathered
      BY <1>0, <3>4 DEF PauseGathered, Goto, NotInterrupted, Coroutines, versionVars
    <3>5. CASE PauseEnd
      BY <1>0, <3>5 DEF PauseEnd, Goto, NotInterrupted, Coroutines, versionVars
    <3>6. CASE UpdateBegin \/ UpdateEnd
      BY <1>0, <3>6 DEF UpdateBegin, UpdateEnd, Goto, NotInterrupted, Coroutines, versionVars
    <3>7. CASE ResumeBegin \/ ResumeEnd
      BY <1>0, <3>7 DEF ResumeBegin, ResumeEnd, ResumeGeneration, Goto, NotInterrupted,
         Coroutines, versionVars
    <3>8. CASE \E c \in {"pause", "update", "resume", "main"} : CallQueues(c)
      BY <1>0, <3>8 DEF CallQueues, Goto, NotInterrupted, Coroutines, versionVars
    <3> QED
      BY <1>1, <3>2, <3>3, <3>4, <3>5, <3>6, <3>7, <3>8 DEF CallStep
  <2> QED
    BY <2>1, <2>2 DEF NotInterrupted
<1>2. CASE (FeedSamples \/ ProcessorStep \/ TaskStep \/ MonitorStep \/ MainStep)
              /\ UNCHANGED trainVars
  <2>1. ~servers_paused' /\ pc'["pause"] # "cancel"
    BY <1>0, <1>2, RollouterKeepsCalls DEF NotInterrupted, callState
  <2>2. UNCHANGED cancel_queue
    <3>1. CASE FeedSamples \/ MonitorStep \/ MainStep
      BY <3>1 DEF FeedSamples, MonitorStep, MonitorWake, MonitorLocked, MainStep, MainFinish,
         MainStop
    <3>2. CASE TaskStep
      BY <3>2 DEF TaskStep, TaskReturns, TaskGenerated, TaskPut, TaskCancelled, TaskFails,
         NotInterrupted
    <3>3. CASE ProcessorStep
      BY <1>2, <3>3, ProcessorMoves
         DEF SInv, NotInterrupted, heldState, MoveTake, MoveTakeAgain, MoveSubmit
    <3> QED
      BY <1>2, <3>1, <3>2, <3>3
  <2> QED
    BY <2>1, <2>2 DEF NotInterrupted
<1>3. CASE TrainerStep
  <2>1. UNCHANGED <<cancel_queue, servers_paused>>
    BY <1>3, TrainerLeavesRollouter
  <2>2. pc'["pause"] # "cancel"
    BY <1>0, <1>3 DEF NotInterrupted, TrainerStep, LogValidation, RequestSample, WakeTrainer,
       ReceiveSample, TrainStep, FinalWait, FinalSync, SyncPause, SyncTransfer, SyncReturn,
       ClearAndEnd, Goto, rollVars, Coroutines
  <2> QED
    BY <2>1, <2>2 DEF NotInterrupted
<1>4. CASE UNCHANGED vars
  BY <1>4 DEF NotInterrupted, vars, rollVars
<1> QED
  BY <1>1, <1>2, <1>3, <1>4 DEF Next, RollNext, Ended

\* pause runs inside a synchronization, and resume follows its update.
CallsInSync ==
    /\ pc["pause"] # "idle" => trainer = "sync_pause"
    /\ pc["update"] # "idle" => pc["resume"] # "idle"
    /\ pc["resume"] = "servers" => pc["update"] = "idle"

LEMMA CallsNextPreserve ==
    ASSUME VInv, CallsInSync, [Next]_vars
    PROVE  CallsInSync'
PROOF
<1> USE DEF VInv, VTypes, Coroutines, CallsInSync
<1>1. CASE RollNext /\ UNCHANGED trainVars
  <2>1. CASE FeedSamples \/ ProcessorStep \/ TaskStep \/ MonitorStep \/ MainStep
    BY <1>1, <2>1, RollouterKeepsCalls DEF callState
  <2>2. CASE CallStep
    <3>1. UNCHANGED trainer
      BY <1>1 DEF trainVars
    <3>2. pc'["pause"] # "idle" => pc["pause"] # "idle"
      BY <1>1, <2>2, CallEffects
    <3>3. pc'["update"] # "idle" => pc'["resume"] # "idle"
      BY <1>1, <2>2, CallEffects
    <3>4. pc'["resume"] = "servers" => pc'["update"] = "idle"
      BY <1>1, <2>2, CallEffects
    <3> QED
      BY <3>1, <3>2, <3>3, <3>4
  <2> QED
    BY <1>1, <2>1, <2>2 DEF RollNext
<1>2. CASE LogValidation \/ RequestSample \/ WakeTrainer \/ ReceiveSample
           \/ TrainStep \/ FinalWait \/ FinalSync \/ ClearAndEnd
  BY <1>2, TrainingKeepsCalls
<1>3. CASE SyncPause
  BY <1>3 DEF SyncPause, Goto
<1>4. CASE SyncTransfer
  BY <1>4 DEF SyncTransfer, Goto
<1>5. CASE SyncReturn
  <2>1. pc["pause"] = "idle"
    BY <1>5 DEF SyncReturn
  <2> QED
    BY <1>5, <2>1 DEF SyncReturn
<1>6. CASE UNCHANGED vars
  BY <1>6 DEF vars, rollVars, trainVars
<1> QED
  BY <1>1, <1>2, <1>3, <1>4, <1>5, <1>6 DEF Next, TrainerStep, Ended

HasPause(waiters) == \E j \in DOMAIN waiters : waiters[j] = "pause"

PauseOnce(waiters) ==
    \A i, j \in DOMAIN waiters : waiters[i] = "pause" /\ waiters[j] = "pause" => i = j

\* The monitor gets the lock before pause does.
MonitorAhead(waiters) ==
    \E i \in DOMAIN waiters : waiters[i] = "monitor" /\ \A j \in 1..i : waiters[j] # "pause"

\* A pause is at most once among those that hold the lock or wait for it, and
\* a monitor that waits does so ahead of it.
LockOrder ==
    /\ PauseOnce(lock)
    /\ HasPause(lock) => pc["pause"] \in {"lock", "cancel", "gather", "clear"}
    /\ pc["monitor"] = "lock" => MonitorAhead(lock)

\* What waiting, leaving and taking the free lock do to that order.
LEMMA LockQueues ==
    ASSUME lock \in Seq(Lockers), NEW c \in Lockers
    PROVE  /\ lock = <<>> => ~HasPause(lock) /\ ~MonitorAhead(lock)
           /\ HasPause(Append(lock, c)) => HasPause(lock) \/ c = "pause"
           /\ PauseOnce(lock) /\ (c = "pause" => ~HasPause(lock)) => PauseOnce(Append(lock, c))
           /\ MonitorAhead(lock) => MonitorAhead(Append(lock, c))
           /\ ~HasPause(lock) /\ c = "monitor" => MonitorAhead(Append(lock, c))
           /\ PauseOnce(<<c>>) /\ (HasPause(<<c>>) => c = "pause")
PROOF
<1>1. Len(lock) \in Nat /\ DOMAIN lock = 1..Len(lock)
  BY LenProperties
<1>2. /\ DOMAIN Append(lock, c) = 1..(Len(lock) + 1)
      /\ \A i \in 1..Len(lock) : Append(lock, c)[i] = lock[i]
      /\ Append(lock, c)[Len(lock) + 1] = c
  <2>1. /\ Append(lock, c) \in Seq(Lockers)
        /\ Len(Append(lock, c)) = Len(lock) + 1
        /\ \A i \in 1..Len(lock) : Append(lock, c)[i] = lock[i]
        /\ Append(lock, c)[Len(lock) + 1] = c
    BY AppendProperties
  <2> QED
    BY <2>1, LenProperties
<1>3. lock = <<>> => DOMAIN lock = {}
  <2>1. Len(<<>>) = 0
    BY EmptySeq
  <2> QED
    BY <1>1, <2>1
<1> DEFINE longer == Append(lock, c)  n == Len(lock)
<1> HIDE DEF longer, n
<1>4. /\ n \in Nat /\ DOMAIN lock = 1..n /\ DOMAIN longer = 1..(n + 1)
      /\ \A i \in 1..n : longer[i] = lock[i]
      /\ longer[n + 1] = c
      /\ 1..(n + 1) = (1..n) \cup {n + 1}
  BY <1>1, <1>2 DEF longer, n
<1>5. HasPause(longer) => HasPause(lock) \/ c = "pause"
  BY <1>4 DEF HasPause
<1>6. PauseOnce(lock) /\ (c = "pause" => ~HasPause(lock)) => PauseOnce(longer)
  BY <1>4 DEF PauseOnce, HasPause
<1>7. MonitorAhead(lock) => MonitorAhead(longer)
  <2> SUFFICES ASSUME NEW i \in 1..n, lock[i] = "monitor", \A j \in 1..i : lock[j] # "pause"
               PROVE  MonitorAhead(longer)
    BY <1>4 DEF MonitorAhead
  <2>1. \A j \in 1..i : j \in 1..n
    BY <1>4
  <2> QED
    BY <1>4, <2>1 DEF MonitorAhead
<1>8. ~HasPause(lock) /\ c = "monitor" => MonitorAhead(longer)
  <2>1. n + 1 \in 1..(n + 1)
    BY <1>4
  <2> QED
    BY <1>4, <2>1 DEF MonitorAhead, HasPause
<1>9. PauseOnce(<<c>>) /\ (HasPause(<<c>>) => c = "pause")
  BY DEF PauseOnce, HasPause
<1> QED
  BY <1>3, <1>5, <1>6, <1>7, <1>8, <1>9 DEF longer, HasPause, MonitorAhead

LEMMA LockLeaves ==
    ASSUME lock \in Seq(Lockers), lock # <<>>
    PROVE  /\ HasPause(Tail(lock)) => HasPause(lock)
           /\ PauseOnce(lock) => PauseOnce(Tail(lock))
           /\ PauseOnce(lock) /\ Head(lock) = "pause" => ~HasPause(Tail(lock))
           /\ MonitorAhead(lock) /\ Head(lock) # "monitor" => MonitorAhead(Tail(lock))
           /\ MonitorAhead(lock) => Head(lock) # "pause"
PROOF
<1> DEFINE shorter == Tail(lock)  n == Len(lock)
<1>1. n \in Nat /\ n >= 1 /\ DOMAIN lock = 1..n
  <2>1. n \in Nat /\ DOMAIN lock = 1..n
    BY LenProperties
  <2>2. n # 0
    BY EmptySeq
  <2> HIDE DEF n
  <2> QED
    BY <2>1, <2>2
<1>2. /\ DOMAIN shorter = 1..(n - 1) /\ Head(lock) = lock[1]
      /\ \A i \in 1..(n - 1) : shorter[i] = lock[i + 1]
  <2>1. /\ shorter \in Seq(Lockers) /\ Len(shorter) = n - 1
        /\ \A i \in 1..Len(shorter) : shorter[i] = lock[i + 1]
        /\ Head(lock) = lock[1]
    BY HeadTailProperties
  <2>2. DOMAIN shorter = 1..Len(shorter)
    BY <2>1, LenProperties
  <2> QED
    BY <2>1, <2>2
<1> HIDE DEF shorter, n
<1>3. \A i \in 1..(n - 1) : i + 1 \in 1..n /\ i + 1 # 1
  BY <1>1
<1>4. HasPause(shorter) => HasPause(lock)
  BY <1>1, <1>2, <1>3 DEF HasPause
<1>5. PauseOnce(lock) => PauseOnce(shorter)
  <2> SUFFICES ASSUME PauseOnce(lock), NEW i \in 1..(n - 1), NEW j \in 1..(n - 1),
                      shorter[i] = "pause", shorter[j] = "pause"
               PROVE  i = j
    BY <1>2 DEF PauseOnce
  <2>1. i + 1 = j + 1
    BY <1>1, <1>2, <1>3 DEF PauseOnce
  <2> QED
    BY <1>1, <2>1
<1>6. PauseOnce(lock) /\ Head(lock) = "pause" => ~HasPause(shorter)
  <2>1. 1 \in 1..n
    BY <1>1
  <2> QED
    BY <1>1, <1>2, <1>3, <2>1 DEF PauseOnce, HasPause
<1>7. ASSUME MonitorAhead(lock)
      PROVE  Head(lock) # "pause" /\ (Head(lock) # "monitor" => MonitorAhead(shorter))
  <2> PICK i \in 1..n : lock[i] = "monitor" /\ \A j \in 1..i : lock[j] # "pause"
    BY <1>1, <1>7 DEF MonitorAhead
  <2>1. 1 \in 1..i /\ i \in Int
    BY <1>1
  <2>2. ASSUME Head(lock) # "monitor" PROVE MonitorAhead(shorter)
    <3>1. i # 1
      BY <1>2, <2>2
    <3>2. i - 1 \in 1..(n - 1) /\ i - 1 + 1 = i
      BY <1>1, <3>1
    <3>3. \A j \in 1..(i - 1) : j \in 1..(n - 1) /\ j + 1 \in 1..i
      BY <1>1, <2>1, <3>2
    <3>4. shorter[i - 1] = "monitor" /\ \A j \in 1..(i - 1) : shorter[j] # "pause"
      BY <1>2, <3>2, <3>3
    <3> QED
      BY <1>2, <3>2, <3>4 DEF MonitorAhead
  <2> QED
    BY <1>2, <2>1, <2>2
<1> QED
  BY <1>4, <1>5, <1>6, <1>7 DEF shorter

\* Where a step that is not of pause leaves the order: it may queue, leave the
\* lock it holds, or take it when it is free.
LEMMA OrderKept ==
    ASSUME lock \in Seq(Lockers), LockOrder, NEW c \in Lockers \ {"pause"},
           \/ UNCHANGED lock
           \/ lock' = Append(lock, c)
           \/ Owns(c) /\ lock' = Tail(lock)
           \/ lock = <<>> /\ lock' = <<c>>,
           pc'["pause"] = pc["pause"],
           pc'["monitor"] = "lock" =>
              \/ pc["monitor"] = "lock" /\ ~(Owns("monitor") /\ lock' = Tail(lock))
              \/ lock # <<>> /\ lock' = Append(lock, c) /\ c = "monitor" /\ ~HasPause(lock)
    PROVE  LockOrder'
PROOF
<1> USE DEF LockOrder, Lockers
<1>1. CASE UNCHANGED lock
  <2>1. lock' # Append(lock, c)
    <3>1. Len(lock) \in Nat /\ Len(Append(lock, c)) = Len(lock) + 1
      BY LenProperties, AppendProperties
    <3> QED
      BY <1>1, <3>1
  <2> QED
    BY <1>1, <2>1
<1>2. CASE lock' = Append(lock, c)
  <2>1. PauseOnce(lock') /\ (HasPause(lock') => HasPause(lock))
    BY <1>2, LockQueues
  <2>2. pc'["monitor"] = "lock" => MonitorAhead(lock')
    BY <1>2, LockQueues
  <2> QED
    BY <2>1, <2>2
<1>3. CASE Owns(c) /\ lock' = Tail(lock)
  <2>1. lock # <<>> /\ Head(lock) = c
    BY <1>3 DEF Owns
  <2>2. PauseOnce(lock') /\ (HasPause(lock') => HasPause(lock))
    BY <1>3, <2>1, LockLeaves
  <2>3. pc'["monitor"] = "lock" => MonitorAhead(lock')
    <3> SUFFICES ASSUME pc'["monitor"] = "lock" PROVE MonitorAhead(lock')
      OBVIOUS
    <3>1. lock' # Append(lock, c)
      <4>1. Len(lock) \in Nat /\ Len(Append(lock, c)) = Len(lock) + 1
        BY LenProperties, AppendProperties
      <4>2. Len(Tail(lock)) = Len(lock) - 1
        BY <2>1, HeadTailProperties
      <4> QED
        BY <1>3, <4>1, <4>2
    <3>2. pc["monitor"] = "lock" /\ c # "monitor"
      BY <1>3, <3>1
    <3> QED
      BY <1>3, <2>1, <3>2, LockLeaves
  <2> QED
    BY <2>2, <2>3
<1>4. CASE lock = <<>> /\ lock' = <<c>>
  <2>1. PauseOnce(lock') /\ ~HasPause(lock')
    BY <1>4, LockQueues
  <2>2. pc'["monitor"] # "lock"
    <3>1. ~MonitorAhead(lock)
      BY <1>4, LockQueues
    <3> SUFFICES ASSUME pc'["monitor"] = "lock" PROVE FALSE
      OBVIOUS
    <3>2. pc["monitor"] # "lock"
      BY <3>1
    <3> QED
      BY <1>4, <3>2
  <2> QED
    BY <2>1, <2>2
<1> QED
  BY <1>1, <1>2, <1>3, <1>4

\* With staleness_threshold 0 the quota is used up when a synchronization
\* begins, until its update has reset the count.
LEMMA CountIsFull ==
    ASSUME ThresholdZero, EInv, after_sync = "log", Syncing \/ pc["update"] # "idle"
    PROVE  /\ staleness_samples >= MaxRequiredSamples /\ ShouldPauseGeneration
           /\ generating = {} /\ proc[2] \notin {"limit", "submit"}
PROOF
<1> DEFINE quota == train_version * MaxRequiredSamples
           given == Resets * MaxRequiredSamples
           steps == (local_trigger_step - 1) * RequiredSamples
           held == IF hand \in Samples THEN 1 ELSE 0
<1>1. SInv /\ TInv /\ KInv
  BY DEF EInv
<1>2. /\ Resets \in Int /\ train_version \in Nat /\ Resets <= train_version
      /\ Resets # train_version
  BY <1>1, ResetsBehind
<1>3. MaxRequiredSamples \in Nat \ {0} /\ staleness_samples \in Nat
  BY <1>1, RollouterAssumption DEF SInv, PTyped, FTyped
<1>4. given + MaxRequiredSamples <= quota /\ given \in Int /\ quota \in Int
  <2>1. \A a, b \in Int : \A m \in Nat : a <= b => a * m <= b * m
    OBVIOUS
  <2>2. Resets + 1 \in Int /\ train_version \in Int /\ Resets + 1 <= train_version
        /\ MaxRequiredSamples \in Nat
    BY <1>2, <1>3
  <2>3. (Resets + 1) * MaxRequiredSamples <= quota
    BY <2>1, <2>2
  <2>4. (Resets + 1) * MaxRequiredSamples = given + MaxRequiredSamples
    BY <1>2, <2>2, OneMore, ZenonT(20)
  <2> QED
    BY <1>2, <2>2, <2>3, <2>4
<1>5. Cardinality(trained) = quota + steps /\ steps \in Nat
  <2>1. \A a, b \in Nat : a * b \in Nat
    OBVIOUS
  <2>2. local_trigger_step - 1 \in Nat /\ RequiredSamples \in Nat
    BY <1>1, FullyAsyncAssumption DEF TInv
  <2> QED
    BY <2>1, <2>2 DEF EInv, TrainedExactly
<1>6. /\ InFlight \in Nat /\ Cardinality(trained) \in Nat /\ Taken \in Int
      /\ InFlight + Cardinality(trained) <= Taken
  BY <1>1, FlightTaken, TakenTyped DEF KInv
<1>7. Taken <= given + staleness_samples
  BY <1>1 DEF KInv, TakenWithin
<1>8. staleness_samples >= MaxRequiredSamples
  <2> HIDE DEF quota, given, steps, Taken, InFlight
  <2> QED
    BY <1>3, <1>4, <1>5, <1>6, <1>7
<1>9. generating = {} /\ hand \notin Samples
  <2>1. InFlight = 0
    BY FlightWithinQuota
  <2>2. /\ InFlight = held + Cardinality(generating) + Cardinality(putting)
                         + CountIn(cancel_queue) + CountIn(queue)
                         + Cardinality(Arriving) + Cardinality(batch)
        /\ held \in Nat /\ Cardinality(generating) \in Nat /\ Cardinality(putting) \in Nat
        /\ CountIn(cancel_queue) \in Nat /\ CountIn(queue) \in Nat
        /\ Cardinality(Arriving) \in Nat /\ Cardinality(batch) \in Nat
        /\ IsFiniteSet(generating)
    BY <1>1, HeldCounts DEF SInv, InFlight
  <2>3. \A a, b, c, d, e, f, g \in Nat : a + b + c + d + e + f + g = 0 => a = 0 /\ b = 0
    OBVIOUS
  <2>4. held = 0 /\ Cardinality(generating) = 0
    <3> HIDE DEF InFlight, held
    <3> QED
      BY <2>1, <2>2, <2>3
  <2> QED
    BY <2>2, <2>4, FS_EmptySet
<1>10. proc[2] \notin {"limit", "submit"}
  BY <1>1, <1>9 DEF SInv, PTyped, HandHeld
<1> QED
  BY <1>8, <1>9, <1>10 DEF ShouldPauseGeneration

\* The processor queues for the lock and leaves it as any other.
LEMMA ProcessorOrder ==
    ASSUME SInv, LockOrder, ProcessorStep
    PROVE  LockOrder'
PROOF
<1>1. UNCHANGED pc
  BY ProcessorKeepsQueue
<1>2. \/ UNCHANGED lock
      \/ lock' = Append(lock, "proc")
      \/ Owns("proc") /\ lock' = Tail(lock)
  <2>1. CASE ProcPause \/ ProcPauseLocked \/ ProcTake \/ ProcGot
    BY <2>1 DEF ProcPause, ProcPauseLocked, ProcTake, ProcGot, Enqueue, Release
  <2>2. ASSUME NEW loop \in DrainLoops, ProcDrainTest(loop) \/ ProcDrainLocked(loop)
        PROVE  \/ UNCHANGED lock
               \/ lock' = Append(lock, "proc")
               \/ Owns("proc") /\ lock' = Tail(lock)
    BY <2>2 DEF ProcDrainTest, ProcDrainLocked, Enqueue, Release
  <2>3. ASSUME NEW loop \in DrainLoops, ProcDrainWake(loop)
        PROVE  Owns("proc") /\ lock' = Tail(lock)
    BY <2>3 DEF ProcDrainWake, Release, SInv, LockHeld
  <2>4. ASSUME NEW where \in {"sleep", "submit"},
               ProcEnter(where) \/ ProcEnterLocked(where) \/ ProcWoken(where)
        PROVE  \/ UNCHANGED lock
               \/ lock' = Append(lock, "proc")
               \/ Owns("proc") /\ lock' = Tail(lock)
    BY <2>4 DEF ProcEnter, ProcEnterLocked, ProcWoken, Enqueue, Release
  <2> QED
    BY <2>1, <2>2, <2>3, <2>4 DEF ProcessorStep
<1>3. lock \in Seq(Lockers) /\ "proc" \in Lockers \ {"pause"}
  BY DEF SInv, LockHeld, Lockers
<1>4. ~(Owns("monitor") /\ Owns("proc"))
  BY DEF Owns
<1>5. lock' = Tail(lock) /\ Owns("monitor") => FALSE
  <2> SUFFICES ASSUME lock' = Tail(lock), Owns("monitor") PROVE FALSE
    OBVIOUS
  <2>1. Len(lock) \in Nat /\ Len(Append(lock, "proc")) = Len(lock) + 1
    BY <1>3, LenProperties, AppendProperties
  <2>2. Len(Tail(lock)) = Len(lock) - 1
    BY <1>3, HeadTailProperties DEF Owns
  <2> QED
    BY <1>2, <1>4, <2>1, <2>2
<1> QED
  BY <1>1, <1>2, <1>3, <1>5, OrderKept

\* A call queues for the lock, takes it when it is free, and leaves it; only
\* pause queues as a pause, and only when it has not.
LEMMA CallOrder ==
    ASSUME SInv, LockOrder, CallStep
    PROVE  LockOrder'
PROOF
<1> USE DEF SInv, VInv, VTypes, Coroutines
<1>0. lock \in Seq(Lockers)
  BY DEF LockHeld
<1>1. CASE CallQueues("pause")
  <2>1. /\ lock' = Append(lock, "pause") /\ pc["pause"] = "called"
        /\ pc'["pause"] = "lock" /\ pc'["monitor"] = pc["monitor"]
    BY <1>1 DEF CallQueues, Enqueue, Goto
  <2>2. ~HasPause(lock)
    BY <2>1 DEF LockOrder
  <2>3. PauseOnce(lock') /\ (pc'["monitor"] = "lock" => MonitorAhead(lock'))
    <3>1. "pause" \in Lockers
      BY DEF Lockers
    <3> QED
      BY <1>0, <2>1, <2>2, <3>1, LockQueues DEF LockOrder
  <2> QED
    BY <2>1, <2>3 DEF LockOrder
<1>2. ASSUME NEW c \in {"update", "resume", "main"}, CallQueues(c)
      PROVE  LockOrder'
  <2>1. /\ lock' = Append(lock, c) /\ pc'["pause"] = pc["pause"]
        /\ pc'["monitor"] = pc["monitor"]
    BY <1>2 DEF CallQueues, Enqueue, Goto
  <2>2. lock' # Tail(lock) \/ lock = <<>>
    <3>1. Len(lock) \in Nat /\ Len(Append(lock, c)) = Len(lock) + 1
      BY <1>0, LenProperties, AppendProperties DEF Lockers
    <3>2. lock # <<>> => Len(Tail(lock)) = Len(lock) - 1
      BY <1>0, HeadTailProperties
    <3> QED
      BY <2>1, <3>1, <3>2
  <2>3. c \in Lockers \ {"pause"}
    BY DEF Lockers
  <2> QED
    BY <1>0, <2>1, <2>2, <2>3, OrderKept DEF Owns
<1>3. CASE PauseBegin
  <2>1. /\ \/ lock = <<>> /\ lock' = <<"pause">>
           \/ UNCHANGED lock
        /\ pc'["pause"] \in {"cancel", "gather", "clear"}
        /\ pc'["monitor"] = pc["monitor"]
    BY <1>3 DEF PauseBegin, LockFree, Goto, GatherOrFinish
  <2>2. CASE UNCHANGED lock
    BY <2>1, <2>2 DEF LockOrder
  <2>3. CASE lock = <<>> /\ lock' = <<"pause">>
    <3>1. "pause" \in Lockers
      BY DEF Lockers
    <3>2. PauseOnce(lock') /\ pc["monitor"] # "lock"
      BY <1>0, <2>3, <3>1, LockQueues DEF LockOrder
    <3> QED
      BY <2>1, <3>2 DEF LockOrder
  <2> QED
    BY <2>1, <2>2, <2>3
<1>4. CASE PauseCancel \/ PauseGathered
  <2>1. /\ UNCHANGED lock /\ pc'["pause"] \in {"gather", "clear"}
        /\ pc'["monitor"] = pc["monitor"]
    BY <1>4 DEF PauseCancel, PauseGathered, Goto, GatherOrFinish
  <2> QED
    BY <2>1 DEF LockOrder
<1>5. CASE PauseEnd
  <2>1. /\ lock # <<>> /\ Head(lock) = "pause" /\ lock' = Tail(lock)
        /\ pc'["monitor"] = pc["monitor"]
    BY <1>5 DEF PauseEnd, Release, Goto, LockHeld, Owns
  <2>2. PauseOnce(lock') /\ ~HasPause(lock')
    BY <1>0, <2>1, LockLeaves DEF LockOrder
  <2>3. pc["monitor"] # "lock"
    BY <1>0, <2>1, LockLeaves DEF LockOrder
  <2> QED
    BY <2>1, <2>2, <2>3 DEF LockOrder
<1>6. ASSUME NEW c \in {"update", "resume"},
             \/ lock = <<>> /\ lock' = <<c>>
             \/ UNCHANGED lock
             \/ Owns(c) /\ lock' = Tail(lock),
             pc'["pause"] = pc["pause"], pc'["monitor"] = pc["monitor"]
      PROVE  LockOrder'
  <2>1. lock' = Tail(lock) /\ Owns("monitor") => FALSE
    <3> SUFFICES ASSUME lock' = Tail(lock), Owns("monitor") PROVE FALSE
      OBVIOUS
    <3>1. lock # <<>> /\ Len(Tail(lock)) = Len(lock) - 1 /\ Len(lock) \in Nat
      BY <1>0, HeadTailProperties, LenProperties DEF Owns
    <3>2. lock # Tail(lock)
      <4> DEFINE rest == Tail(lock)
      <4>1. Len(rest) = Len(lock) - 1 /\ Len(lock) \in Nat
        BY <3>1
      <4> HIDE DEF rest
      <4>2. rest # lock
        BY <4>1
      <4> QED
        BY <4>2 DEF rest
    <3>3. Owns(c) \/ lock = <<>>
      BY <1>6, <3>2
    <3> QED
      BY <3>1, <3>3 DEF Owns
  <2>2. c \in Lockers \ {"pause"}
    BY DEF Lockers
  <2> QED
    BY <1>0, <1>6, <2>1, <2>2, OrderKept
<1>7. CASE UpdateBegin
  BY <1>6, <1>7 DEF UpdateBegin, LockFree, Goto
<1>8. CASE UpdateEnd
  BY <1>6, <1>8 DEF UpdateEnd, Release, Goto, LockHeld
<1>9. CASE ResumeBegin
  BY <1>6, <1>9 DEF ResumeBegin, ResumeGeneration, Entered, LockFree, Goto
<1>10. CASE ResumeEnd
  BY <1>6, <1>10 DEF ResumeEnd, ResumeGeneration, Release, Goto, LockHeld
<1> QED
  BY <1>1, <1>2, <1>3, <1>4, <1>5, <1>7, <1>8, <1>9, <1>10 DEF CallStep

\* While a pause is under way the quota is used up, so the monitor does not
\* queue behind it.
LEMMA LockOrderNextPreserves ==
    ASSUME SInv, LockOrder, pc["pause"] = "idle" \/ ShouldPauseGeneration, [Next]_vars
    PROVE  LockOrder'
PROOF
<1>0. lock \in Seq(Lockers) /\ pc \in [Coroutines -> Labels]
  BY DEF SInv, LockHeld, VInv, VTypes
<1> USE DEF Coroutines
<1>1. ASSUME UNCHANGED lock, pc'["pause"] = pc["pause"] \/ ~HasPause(lock),
             pc'["monitor"] = pc["monitor"] \/ pc'["monitor"] # "lock"
      PROVE  LockOrder'
  BY <1>1 DEF LockOrder
<1>2. CASE FeedSamples \/ TaskStep
  <2>1. UNCHANGED lock /\ pc'["pause"] = pc["pause"] /\ pc'["monitor"] = pc["monitor"]
    BY <1>0, <1>2 DEF FeedSamples, TaskStep, TaskReturns, TaskGenerated, TaskPut, TaskCancelled,
       TaskFails, Goto
  <2> QED
    BY <1>1, <2>1
<1>3. CASE MonitorWake
  <2>1. pc'["pause"] = pc["pause"] /\ pc["monitor"] = "sleep"
    BY <1>0, <1>3 DEF MonitorWake, Goto
  <2>2. CASE monitor_loop_trigger /\ ~ShouldPauseGeneration /\ ~LockFree
    <3>1. lock' = Append(lock, "monitor") /\ lock # <<>>
      BY <1>3, <2>2 DEF MonitorWake, Enqueue, LockFree
    <3>2. ~HasPause(lock)
      BY <2>2 DEF LockOrder
    <3>3. "monitor" \in Lockers \ {"pause"}
      BY DEF Lockers
    <3> QED
      BY <1>0, <2>1, <3>1, <3>2, <3>3, OrderKept
  <2>3. CASE ~(monitor_loop_trigger /\ ~ShouldPauseGeneration /\ ~LockFree)
    <3>1. UNCHANGED lock /\ pc'["monitor"] # "lock"
      BY <1>0, <1>3, <2>3 DEF MonitorWake, Goto
    <3> QED
      BY <1>1, <2>1, <3>1
  <2> QED
    BY <2>2, <2>3
<1>4. CASE MonitorLocked
  <2>1. /\ pc'["pause"] = pc["pause"] /\ pc'["monitor"] # "lock"
        /\ Owns("monitor") /\ lock' = Tail(lock)
    BY <1>0, <1>4 DEF MonitorLocked, Goto, Release
  <2>2. "monitor" \in Lockers \ {"pause"}
    BY DEF Lockers
  <2> QED
    BY <1>0, <2>1, <2>2, OrderKept
<1>5. CASE MainStep
  <2>1. CASE MainFinish
    BY <1>0, <1>1, <2>1 DEF MainFinish, Goto
  <2>2. CASE MainStop
    <3>1. pc'["pause"] = pc["pause"] /\ pc'["monitor"] = pc["monitor"]
      BY <1>0, <2>2 DEF MainStop, Goto
    <3>2. UNCHANGED lock \/ (Owns("main") /\ lock' = Tail(lock) /\ lock # <<>>)
      BY <2>2 DEF MainStop, Entered, LockFree, Owns
    <3>3. CASE UNCHANGED lock
      BY <1>1, <3>1, <3>3
    <3>4. CASE Owns("main") /\ lock' = Tail(lock)
      <4>1. "main" \in Lockers \ {"pause"} /\ ~Owns("monitor")
        BY <3>4 DEF Lockers, Owns
      <4> QED
        BY <1>0, <3>1, <3>4, <4>1, OrderKept
    <3> QED
      BY <3>2, <3>3, <3>4
  <2> QED
    BY <1>5, <2>1, <2>2 DEF MainStep
<1>6. CASE TrainerStep
  <2>1. UNCHANGED lock
    BY <1>6, TrainerLeavesRollouter
  <2>2. pc'["monitor"] = pc["monitor"]
    BY <1>0, <1>6 DEF TrainerStep, LogValidation, RequestSample, WakeTrainer, ReceiveSample, TrainStep,
       FinalWait, FinalSync, SyncPause, SyncTransfer, SyncReturn, ClearAndEnd, Goto, rollVars
  <2>3. pc'["pause"] = pc["pause"] \/ pc["pause"] \in {"idle", "returned"}
    BY <1>0, <1>6 DEF TrainerStep, LogValidation, RequestSample, WakeTrainer, ReceiveSample, TrainStep,
       FinalWait, FinalSync, SyncPause, SyncTransfer, SyncReturn, ClearAndEnd, Goto, rollVars
  <2>4. pc["pause"] \in {"idle", "returned"} => ~HasPause(lock)
    BY DEF LockOrder
  <2> QED
    BY <1>1, <2>1, <2>2, <2>3, <2>4
<1>7. CASE UNCHANGED vars
  BY <1>1, <1>7 DEF vars, rollVars
<1>8. CASE ProcessorStep
  BY <1>8, ProcessorOrder
<1>9. CASE CallStep
  BY <1>9, CallOrder
<1>10. CASE RollNext
  BY <1>2, <1>3, <1>4, <1>5, <1>8, <1>9, <1>10 DEF RollNext, MonitorStep
<1> QED
  BY <1>6, <1>7, <1>10 DEF Next, Ended

\* From a pause that has begun to the end of the resume that follows it, and
\* from the end of the pause.
InPause ==
    \/ pc["pause"] \in {"cancel", "gather", "clear", "returned"}
    \/ trainer = "sync_transfer"
    \/ pc["resume"] # "idle"

PauseOver == pc["pause"] = "returned" \/ trainer = "sync_transfer" \/ pc["resume"] # "idle"

\* A pause finds no sample to interrupt, and none is generated before the
\* resume, which alone un-pauses the Rollouter.
NoneToInterrupt ==
    /\ cancel_queue = <<>>
    /\ servers_paused => InPause
    /\ InPause => /\ paused /\ generating = {} /\ pc["monitor"] # "lock"
                  /\ proc[2] \notin {"get", "limit", "submit"}
    /\ monitor_loop_trigger => ~PauseOver
    /\ proc[2] = "get" => staleness_samples < MaxRequiredSamples

\* What the processor does to that.
LEMMA ProcessorInterrupts ==
    ASSUME SInv, NoneToInterrupt, ProcessorStep, UNCHANGED trainVars
    PROVE  NoneToInterrupt'
PROOF
<1> USE DEF NoneToInterrupt
<1>1. UNCHANGED <<pc, trainer>> /\ InPause' = InPause /\ PauseOver' = PauseOver
  BY ProcessorKeepsQueue DEF trainVars, InPause, PauseOver
<1>2. CASE ProcPause \/ ProcPauseLocked
  <2>1. /\ UNCHANGED <<cancel_queue, servers_paused, generating, monitor_loop_trigger>>
        /\ paused => paused'
        /\ proc'[2] \notin {"get", "limit", "submit"}
    BY <1>2 DEF ProcPause, ProcPauseLocked, taskVars, versionVars
  <2> QED
    BY <1>1, <2>1
<1>3. CASE ProcTake
  <2>1. /\ UNCHANGED <<cancel_queue, servers_paused, generating, monitor_loop_trigger, paused>>
        /\ ~paused
        /\ proc'[2] = "get" => UNCHANGED staleness_samples /\ ~ShouldPauseGeneration
    BY <1>3 DEF ProcTake, TakePending, taskVars, versionVars, flagVars
  <2>2. staleness_samples \in Nat /\ MaxRequiredSamples \in Nat
    BY RollouterAssumption DEF SInv, PTyped, FTyped
  <2>3. proc'[2] = "get" => staleness_samples' < MaxRequiredSamples
    BY <2>1, <2>2 DEF ShouldPauseGeneration
  <2> QED
    BY <1>1, <2>1, <2>3
<1>4. CASE ProcGot
  <2>1. /\ UNCHANGED <<cancel_queue, servers_paused, generating, monitor_loop_trigger, paused>>
        /\ proc[2] = "get" /\ proc'[2] # "get"
    BY <1>4 DEF ProcGot, TakePending, taskVars, versionVars, flagVars
  <2> QED
    BY <1>1, <2>1
<1>5. ASSUME NEW loop \in DrainLoops,
             ProcDrainTest(loop) \/ ProcDrainLocked(loop) \/ ProcDrainWake(loop)
      PROVE  NoneToInterrupt'
  <2>1. /\ UNCHANGED <<cancel_queue, servers_paused, generating, monitor_loop_trigger, paused>>
        /\ proc[2] = loop
    BY <1>5 DEF ProcDrainTest, ProcDrainLocked, ProcDrainWake, taskVars, versionVars, flagVars
  <2>2. /\ proc'[2] # "get"
        /\ proc'[2] \in {"limit", "submit"} => loop = "limit"
    BY <1>5 DEF ProcDrainTest, ProcDrainLocked, ProcDrainWake, AfterDrain, DrainLoops
  <2> QED
    BY <1>1, <2>1, <2>2
<1>6. ASSUME NEW where \in {"sleep", "submit"},
             ProcEnter(where) \/ ProcEnterLocked(where) \/ ProcWoken(where)
      PROVE  NoneToInterrupt'
  <2>1. /\ UNCHANGED <<cancel_queue, servers_paused, monitor_loop_trigger, paused>>
        /\ proc[2] = where
    BY <1>6 DEF ProcEnter, ProcEnterLocked, ProcWoken, versionVars, flagVars
  <2>2. proc'[2] \in {where, "top"} /\ (where # "submit" => UNCHANGED generating)
    BY <1>6 DEF ProcEnter, ProcEnterLocked, ProcWoken, UnderLock, taskVars
  <2> QED
    BY <1>1, <2>1, <2>2
<1> QED
  BY <1>2, <1>3, <1>4, <1>5, <1>6 DEF ProcessorStep

\* What the calls do to it.
LEMMA CallInterrupts ==
    ASSUME PartialRollout, ThresholdZero, EInv, CallsInSync, LockOrder, after_sync = "log",
           NoneToInterrupt, CallStep, UNCHANGED trainVars
    PROVE  NoneToInterrupt'
PROOF
<1> USE DEF NoneToInterrupt
<1>0. /\ pc \in [Coroutines -> Labels] /\ SInv
      /\ UNCHANGED <<trainer, cancel_queue, generating>>
  <2>1. UNCHANGED <<cancel_queue, generating>>
    BY DEF CallStep, CallQueues, PauseBegin, PauseCancel, PauseGathered, PauseEnd, UpdateBegin,
       UpdateEnd, ResumeBegin, ResumeEnd, taskVars
  <2> QED
    BY <2>1 DEF EInv, SInv, VInv, VTypes, trainVars
<1> USE DEF Coroutines, Goto
<1>1. ASSUME NEW c \in {"pause", "update", "resume", "main"}, CallQueues(c)
      PROVE  NoneToInterrupt'
  <2>1. UNCHANGED <<proc, staleness_samples, servers_paused, paused, monitor_loop_trigger>>
    BY <1>1 DEF CallQueues, procVars, versionVars, flagVars
  <2>2. UNCHANGED <<InPause, PauseOver, pc["monitor"]>>
    BY <1>0, <1>1 DEF CallQueues, InPause, PauseOver
  <2> QED
    BY <1>0, <2>1, <2>2
<1>2. CASE PauseBegin
  <2>1. /\ UNCHANGED <<proc, staleness_samples, servers_paused, monitor_loop_trigger>>
        /\ paused' /\ UNCHANGED <<pc["monitor"], pc["resume"]>>
        /\ pc["pause"] \in {"called", "lock"} /\ pc'["pause"] = "cancel"
    BY <1>0, <1>2 DEF PauseBegin, Entered, procVars, versionVars
  <2>2. InPause' /\ PauseOver' = PauseOver
    BY <1>0, <2>1 DEF InPause, PauseOver
  <2>3. Syncing
    BY <2>1 DEF CallsInSync, Syncing
  <2>4. generating = {}
    BY <2>3, CountIsFull
  <2>5. proc[2] \notin {"get", "limit", "submit"}
    <3>1. staleness_samples >= MaxRequiredSamples /\ proc[2] \notin {"limit", "submit"}
      BY <2>3, CountIsFull
    <3>2. staleness_samples \in Nat /\ MaxRequiredSamples \in Nat
      BY <1>0, RollouterAssumption DEF SInv, PTyped, FTyped
    <3> QED
      BY <3>1, <3>2
  <2>6. pc["monitor"] # "lock"
    <3>1. lock \in Seq(Lockers)
      BY <1>0 DEF SInv, LockHeld
    <3>2. lock = <<>> \/ (lock # <<>> /\ Head(lock) = "pause")
      BY <1>2 DEF PauseBegin, Entered, LockFree, Owns
    <3>3. "pause" \in Lockers
      BY DEF Lockers
    <3>4. ~MonitorAhead(lock)
      BY <3>1, <3>2, <3>3, LockQueues, LockLeaves
    <3> QED
      BY <3>4 DEF LockOrder
  <2> QED
    BY <1>0, <2>1, <2>2, <2>4, <2>5, <2>6
<1>3. CASE PauseCancel \/ PauseGathered \/ PauseEnd
  <2>1. /\ UNCHANGED <<proc, staleness_samples, paused>>
        /\ monitor_loop_trigger' => monitor_loop_trigger /\ ~PauseEnd
        /\ UNCHANGED <<pc["monitor"], pc["resume"]>>
        /\ pc["pause"] \in {"cancel", "gather", "clear"}
        /\ pc'["pause"] \in {"gather", "clear", "returned"}
        /\ pc'["pause"] = "returned" => PauseEnd
    BY <1>0, <1>3 DEF PauseCancel, PauseGathered, PauseEnd, GatherOrFinish, procVars, flagVars
  <2>2. InPause /\ InPause'
    BY <2>1 DEF InPause
  <2>3. monitor_loop_trigger' => ~PauseOver'
    BY <1>0, <2>1 DEF PauseOver
  <2> QED
    BY <1>0, <2>1, <2>2, <2>3
<1>4. CASE UpdateBegin \/ UpdateEnd
  <2>1. /\ UNCHANGED <<proc, servers_paused, paused, monitor_loop_trigger>>
        /\ UNCHANGED <<pc["monitor"], pc["resume"], pc["pause"]>>
        /\ UNCHANGED staleness_samples \/ pc["update"] = "size"
    BY <1>0, <1>4 DEF UpdateBegin, UpdateEnd, procVars, flagVars, versionVars
  <2>2. InPause' = InPause /\ PauseOver' = PauseOver
    BY <1>0, <2>1 DEF InPause, PauseOver
  <2>3. pc["update"] = "size" => InPause
    BY DEF CallsInSync, InPause
  <2> QED
    BY <1>0, <2>1, <2>2, <2>3
<1>5. CASE ResumeBegin
  <2>1. /\ UNCHANGED <<proc, staleness_samples, servers_paused, paused, monitor_loop_trigger>>
        /\ UNCHANGED <<pc["monitor"], pc["pause"]>>
        /\ pc["resume"] # "idle" /\ pc'["resume"] # "idle"
    BY <1>0, <1>5 DEF ResumeBegin, Entered, versionVars
  <2>2. InPause' = InPause /\ PauseOver' = PauseOver
    BY <1>0, <2>1 DEF InPause, PauseOver
  <2> QED
    BY <1>0, <2>1, <2>2
<1>6. CASE ResumeEnd
  <2>1. /\ proc'[2] = proc[2] /\ UNCHANGED staleness_samples /\ ~servers_paused'
        /\ UNCHANGED <<pc["pause"]>>
        /\ pc["resume"] = "servers" /\ pc'["resume"] = "idle"
    BY <1>0, <1>6, NotifiedFacts DEF ResumeEnd, ResumeGeneration
  <2>2. pc["pause"] = "idle" /\ trainer # "sync_transfer"
    BY <1>0, <2>1 DEF CallsInSync, SInv, VInv, OneSyncAtATime, LastUpdateDone
  <2>3. ~InPause' /\ ~PauseOver'
    BY <1>0, <2>1, <2>2 DEF InPause, PauseOver
  <2> QED
    BY <1>0, <2>1, <2>3
<1> QED
  BY <1>1, <1>2, <1>3, <1>4, <1>5, <1>6 DEF CallStep

\* The monitor resumes generation neither during a pause, for the quota is
\* used up, nor after it, for its trigger is off; it does not wait for the lock.
LEMMA MonitorInterrupts ==
    ASSUME ThresholdZero, EInv, CallsInSync, after_sync = "log", NoneToInterrupt, MonitorStep,
           UNCHANGED trainVars
    PROVE  NoneToInterrupt'
PROOF
<1> USE DEF NoneToInterrupt
<1>0. pc \in [Coroutines -> Labels]
  BY DEF EInv, SInv, VInv, VTypes
<1>1. /\ UNCHANGED <<cancel_queue, generating, staleness_samples, servers_paused,
                     monitor_loop_trigger, trainer>>
      /\ proc'[2] = proc[2]
  BY NotifiedFacts
     DEF MonitorStep, MonitorWake, MonitorLocked, taskVars, versionVars, trainVars
<1>2. UNCHANGED <<pc["pause"], pc["resume"]>>
  BY <1>0 DEF MonitorStep, MonitorWake, MonitorLocked, Goto, Coroutines
<1>3. InPause' = InPause /\ PauseOver' = PauseOver
  BY <1>1, <1>2 DEF InPause, PauseOver
<1>4. InPause => UNCHANGED paused /\ pc'["monitor"] # "lock"
  <2> SUFFICES ASSUME InPause PROVE UNCHANGED paused /\ pc'["monitor"] # "lock"
    OBVIOUS
  <2>1. MonitorWake
    BY DEF MonitorStep, MonitorLocked
  <2>2. ~(monitor_loop_trigger /\ ~ShouldPauseGeneration)
    <3>1. CASE PauseOver
      BY <3>1
    <3>2. CASE ~PauseOver
      <4>1. Syncing
        BY <3>2 DEF InPause, PauseOver, CallsInSync, Syncing
      <4> QED
        BY <4>1, CountIsFull
    <3> QED
      BY <3>1, <3>2
  <2> QED
    BY <1>0, <2>1, <2>2 DEF MonitorWake, Goto, Coroutines
<1> QED
  BY <1>1, <1>3, <1>4

\* A synchronization is one pause from its call to the call of resume.
LEMMA TrainerInterrupts ==
    ASSUME SInv, NoneToInterrupt, TrainerStep
    PROVE  NoneToInterrupt'
PROOF
<1> USE DEF NoneToInterrupt
<1>0. pc \in [Coroutines -> Labels]
  BY DEF SInv, VInv, VTypes
<1>1. UNCHANGED <<cancel_queue, generating, staleness_samples, servers_paused, paused,
                  monitor_loop_trigger, proc>>
  BY TrainerLeavesRollouter DEF procVars, taskVars, flagVars
<1>2. ASSUME UNCHANGED <<InPause, PauseOver, pc["monitor"]>> PROVE NoneToInterrupt'
  BY <1>1, <1>2
<1>3. CASE LogValidation \/ RequestSample \/ WakeTrainer \/ ReceiveSample
           \/ TrainStep \/ FinalWait \/ FinalSync \/ ClearAndEnd
  <2>1. UNCHANGED pc /\ (trainer' = "sync_transfer" <=> trainer = "sync_transfer")
    BY <1>3, TrainingKeepsCalls DEF SInv
  <2> QED
    BY <1>2, <2>1 DEF InPause, PauseOver
<1>4. CASE SyncPause
  BY <1>0, <1>2, <1>4 DEF SyncPause, Goto, Coroutines, InPause, PauseOver
<1>5. CASE SyncTransfer
  BY <1>0, <1>2, <1>5 DEF SyncTransfer, Goto, Coroutines, InPause, PauseOver
<1>6. CASE SyncReturn
  BY <1>0, <1>2, <1>6 DEF SyncReturn, Coroutines, InPause, PauseOver
<1> QED
  BY <1>3, <1>4, <1>5, <1>6 DEF TrainerStep

LEMMA NoneNextPreserves ==
    ASSUME PartialRollout, ThresholdZero, EInv, CallsInSync, LockOrder, after_sync = "log",
           NoneToInterrupt, [Next]_vars
    PROVE  NoneToInterrupt'
PROOF
<1>0. SInv
  BY DEF EInv
<1>1. CASE ProcessorStep /\ UNCHANGED trainVars
  BY <1>0, <1>1, ProcessorInterrupts
<1>2. CASE CallStep /\ UNCHANGED trainVars
  BY <1>2, CallInterrupts
<1>3. CASE MonitorStep /\ UNCHANGED trainVars
  BY <1>3, MonitorInterrupts
<1>4. CASE TrainerStep
  BY <1>0, <1>4, TrainerInterrupts
<1>5. CASE TaskStep /\ UNCHANGED trainVars
  <2> PICK s \in Samples : TaskReturns(s) \/ TaskFails(s)
    BY <1>5 DEF TaskStep
  <2>1. UNCHANGED <<InPause, PauseOver, pc, proc, staleness_samples, servers_paused, paused,
                    monitor_loop_trigger>>
        /\ (generating = {} => generating' = {})
    BY <1>5 DEF TaskReturns, TaskGenerated, TaskPut, TaskCancelled, TaskFails, procVars,
       versionVars, flagVars, trainVars, InPause, PauseOver
  <2>2. ~TaskCancelled(s)
    BY DEF TaskCancelled, NoneToInterrupt
  <2>3. UNCHANGED cancel_queue
    BY <2>2 DEF TaskReturns, TaskGenerated, TaskPut, TaskFails
  <2> QED
    BY <2>1, <2>3 DEF NoneToInterrupt
<1>6. CASE (FeedSamples \/ MainStep) /\ UNCHANGED trainVars
  <2>1. pc \in [Coroutines -> Labels]
    BY <1>0 DEF SInv, VInv, VTypes
  <2>2. /\ UNCHANGED <<proc, staleness_samples, servers_paused, paused, monitor_loop_trigger,
                       cancel_queue, generating, trainer>>
        /\ UNCHANGED <<pc["monitor"], pc["pause"], pc["resume"]>>
    BY <1>6, <2>1 DEF FeedSamples, MainStep, MainFinish, MainStop, Goto, procVars, versionVars, flagVars,
       taskVars, trainVars, Coroutines
  <2>3. UNCHANGED <<InPause, PauseOver>>
    BY <2>2 DEF InPause, PauseOver
  <2> QED
    BY <2>2, <2>3 DEF NoneToInterrupt
<1>7. CASE UNCHANGED vars
  BY <1>7 DEF vars, rollVars, trainVars, NoneToInterrupt, InPause, PauseOver
<1> QED
  BY <1>1, <1>2, <1>3, <1>4, <1>5, <1>6, <1>7 DEF Next, RollNext, Ended

\* Nothing is interrupted as long as the last synchronization has not begun.
Uninterrupted ==
    IF PartialRollout THEN after_sync = "log" => LockOrder /\ NoneToInterrupt
                      ELSE NotInterrupted

UInv ==
    /\ SInv /\ TInv /\ KInv
    /\ ThresholdZero => TrainedExactly
    /\ CallsInSync
    /\ Uninterrupted

LEMMA FinalStays ==
    ASSUME SInv, TInv, [Next]_vars, after_sync' = "log"
    PROVE  after_sync = "log"
PROOF
<1>1. after_sync \in {"log", "final_validate"}
  BY DEF SInv, VInv, VTypes
<1>2. CASE TrainStep
  BY <1>1, <1>2 DEF TrainStep, TInv, FinalOnce
<1>3. CASE FinalSync
  BY <1>3 DEF FinalSync, TriggerParameterSync
<1>4. CASE UNCHANGED after_sync
  BY <1>4
<1>5. TrainStep \/ FinalSync \/ UNCHANGED after_sync
  BY DEF Next, TrainerStep, Ended, LogValidation, RequestSample, WakeTrainer, ReceiveSample,
     FinalWait, SyncPause, SyncTransfer, SyncReturn, ClearAndEnd, trainVars, vars
<1> QED
  BY <1>2, <1>3, <1>4, <1>5

\* Without partial rollout or with staleness_threshold 0.
LEMMA UninterruptedInvariant ==
    ASSUME ThresholdZero \/ ~PartialRollout
    PROVE  Spec => []UInv
PROOF
<1> DEFINE Kept == CallsInSync /\ Uninterrupted /\ (ThresholdZero => TrainedExactly)
<1>1. Init => Kept
  <2> SUFFICES ASSUME Init PROVE Kept
    OBVIOUS
  <2>1. /\ pc["pause"] = "idle" /\ pc["update"] = "idle" /\ pc["resume"] = "idle"
        /\ pc["monitor"] = "sleep" /\ trainer = "start" /\ proc[2] = "top"
        /\ lock = <<>> /\ cancel_queue = <<>> /\ ~servers_paused
    BY DEF Init, RollInit
  <2>2. CallsInSync /\ NotInterrupted
    BY <2>1 DEF CallsInSync, NotInterrupted
  <2>3. LockOrder
    <3>1. Len(<<>>) = 0 /\ <<>> \in Seq({})
      BY EmptySeq
    <3>2. DOMAIN lock = {}
      BY <2>1, <3>1, LenProperties
    <3> QED
      BY <2>1, <3>2 DEF LockOrder, PauseOnce, HasPause
  <2>4. NoneToInterrupt
    BY <2>1 DEF NoneToInterrupt, InPause, PauseOver
  <2>5. TrainedExactly
    <3>1. 0 * MaxRequiredSamples = 0 /\ (1 - 1) * RequiredSamples = 0
      BY RollouterAssumption, FullyAsyncAssumption
    <3> QED
      BY <3>1, FS_EmptySet DEF Init, TrainedExactly
  <2> QED
    BY <2>2, <2>3, <2>4, <2>5 DEF Uninterrupted
<1>2. SInv /\ TInv /\ KInv /\ Kept /\ [Next]_vars => Kept'
  <2> SUFFICES ASSUME SInv, TInv, KInv, Kept, [Next]_vars PROVE Kept'
    OBVIOUS
  <2>1. CallsInSync'
    BY CallsNextPreserve DEF SInv
  <2>2. (ThresholdZero => TrainedExactly)'
    BY ExactNextPreserves DEF ThresholdZero
  <2>3. CASE PartialRollout
    <3> SUFFICES ASSUME after_sync' = "log" PROVE LockOrder' /\ NoneToInterrupt'
      BY <2>1, <2>2, <2>3 DEF Uninterrupted
    <3>1. after_sync = "log"
      BY FinalStays
    <3>2. LockOrder /\ NoneToInterrupt /\ EInv
      BY <2>3, <3>1 DEF Uninterrupted, EInv
    <3>3. pc["pause"] = "idle" \/ ShouldPauseGeneration
      <4>1. pc["pause"] # "idle" => Syncing
        BY DEF CallsInSync, Syncing
      <4> QED
        BY <2>3, <3>1, <3>2, <4>1, CountIsFull
    <3>4. LockOrder'
      BY <3>2, <3>3, LockOrderNextPreserves
    <3>5. NoneToInterrupt'
      BY <2>3, <3>1, <3>2, NoneNextPreserves
    <3> QED
      BY <3>4, <3>5
  <2>4. CASE ~PartialRollout
    <3>1. NotInterrupted
      BY <2>4 DEF Uninterrupted
    <3>2. NotInterrupted'
      BY <2>4, <3>1, UninterruptedNextPreserves
    <3> QED
      BY <2>1, <2>2, <2>4, <3>2 DEF Uninterrupted
  <2> QED
    BY <2>3, <2>4
<1> HIDE DEF Kept
<1>3. Spec => []Kept
  BY <1>1, <1>2, QuotaInvariant, PTL DEF Spec
<1>4. SInv /\ TInv /\ KInv /\ Kept => UInv
  BY DEF UInv, Kept
<1> QED
  BY <1>3, <1>4, QuotaInvariant, PTL

\* Nothing waits in cancel_queue, also after the last synchronization has begun
\* if nothing is generated by then.
LEMMA NoneCancelled ==
    ASSUME SInv, Uninterrupted, cancel_queue = <<>>, after_sync = "log" \/ generating = {},
           [Next]_vars
    PROVE  cancel_queue' = <<>>
PROOF
<1>1. CASE ProcessorStep /\ UNCHANGED trainVars
  BY <1>1, ProcessorMoves DEF SInv, heldState, MoveTake, MoveTakeAgain, MoveSubmit
<1>2. ASSUME NEW s \in Samples, TaskCancelled(s) PROVE FALSE
  <2>1. servers_paused /\ generating # {}
    BY <1>2 DEF TaskCancelled
  <2> QED
    BY <2>1 DEF Uninterrupted, NoneToInterrupt, NotInterrupted
<1>3. CASE TaskStep
  BY <1>2, <1>3 DEF TaskStep, TaskReturns, TaskGenerated, TaskPut, TaskFails
<1>4. CASE FeedSamples \/ MonitorStep \/ MainStep
  BY <1>4 DEF FeedSamples, MonitorStep, MonitorWake, MonitorLocked, MainStep, MainFinish,
     MainStop
<1>5. CASE CallStep
  BY <1>5 DEF CallStep, CallQueues, PauseBegin, PauseCancel, PauseGathered, PauseEnd,
     UpdateBegin, UpdateEnd, ResumeBegin, ResumeEnd
<1>6. CASE TrainerStep
  BY <1>6, TrainerLeavesRollouter
<1>7. CASE UNCHANGED vars
  BY <1>7 DEF vars, rollVars
<1> QED
  BY <1>1, <1>3, <1>4, <1>5, <1>6, <1>7 DEF Next, RollNext, Ended

-----------------------------------------------------------------------------
(* Every full batch *)

\* A processor that has ended with all its data has waited for every task.
Drained ==
    /\ proc[1] = "end" => proc[2] \in {"done", "crashed"}
    /\ proc = <<"end", "done">> => generating = {} /\ putting = {}

LEMMA DrainedNextPreserves ==
    ASSUME SInv, Drained, [Next]_vars
    PROVE  Drained'
PROOF
<1>0. VInv /\ PTyped /\ proc \in Places \X Spots
  BY DEF SInv, PTyped, HandHeld
<1>1. CASE ProcessorStep /\ UNCHANGED trainVars
  <2>1. proc[1] # "end"
    BY <1>1, ProcessorLimit DEF SInv
  <2>2. CASE ProcPause \/ ProcPauseLocked \/ ProcTake \/ ProcGot
    <3>1. proc'[1] # "end"
      BY <2>2 DEF ProcPause, ProcPauseLocked, ProcTake, ProcGot, TakePending
    <3> QED
      BY <3>1 DEF Drained
  <2>3. ASSUME NEW loop \in DrainLoops, ProcDrainLocked(loop) \/ ProcDrainWake(loop)
        PROVE  Drained'
    BY <2>3 DEF ProcDrainLocked, ProcDrainWake, Drained, DrainLoops
  <2>4. ASSUME NEW loop \in DrainLoops, ProcDrainTest(loop)
        PROVE  Drained'
    <3>1. CASE proc' = <<"end", "done">>
      <4>1. proc'[2] # proc[2]
        BY <2>1, <2>4, <3>1 DEF ProcDrainTest, DrainLoops
      <4>2. proc = <<"run", "end">> /\ ActiveCount = 0 /\ UNCHANGED <<generating, putting>>
        BY <1>1, <3>1, <4>1, ProcessorGoes
      <4>3. Cardinality(generating) = 0 /\ Cardinality(putting) = 0
        <5>1. /\ Cardinality(generating) \in Nat /\ Cardinality(putting) \in Nat
              /\ finished \in Nat /\ failed \in Nat
          BY <1>0, TaskCounts
        <5>2. Cardinality(generating) + Cardinality(putting) + finished + failed = 0
          BY <4>2 DEF ActiveCount
        <5> DEFINE g == Cardinality(generating)  p == Cardinality(putting)
        <5>3. g \in Nat /\ p \in Nat /\ finished \in Nat /\ failed \in Nat
          BY <5>1
        <5>4. g + p + finished + failed = 0
          BY <5>2
        <5> HIDE DEF g, p
        <5>5. g = 0 /\ p = 0
          BY <5>3, <5>4
        <5> QED
          BY <5>5 DEF g, p
      <4>4. generating = {} /\ putting = {}
        BY <1>0, <4>3, TaskCounts, FS_EmptySet
      <4> QED
        BY <3>1, <4>2, <4>4 DEF Drained
    <3>2. CASE proc'[1] # "end"
      BY <3>2 DEF Drained
    <3> QED
      BY <2>4, <3>1, <3>2 DEF ProcDrainTest, AfterDrain, DrainLoops
  <2>5. ASSUME NEW where \in {"sleep", "submit"},
               ProcEnter(where) \/ ProcEnterLocked(where) \/ ProcWoken(where)
        PROVE  Drained'
    <3>1. proc'[1] # "end"
      BY <2>5 DEF ProcEnter, ProcEnterLocked, ProcWoken, UnderLock
    <3> QED
      BY <3>1 DEF Drained
  <2> QED
    BY <1>1, <2>2, <2>3, <2>4, <2>5 DEF ProcessorStep
<1>2. CASE ~(ProcessorStep /\ UNCHANGED trainVars)
  <2>1. (proc'[1] = "end" => proc' = proc)
    <3>1. proc' = proc \/ proc' = Notified(proc)
      BY <1>2, OthersKeepProcessor
    <3> QED
      BY <3>1 DEF Notified
  <2>2. generating = {} /\ putting = {} => generating' = {} /\ putting' = {}
    <3>1. CASE TaskStep
      BY <3>1 DEF TaskStep, TaskReturns, TaskGenerated, TaskPut, TaskCancelled, TaskFails
    <3>2. CASE FeedSamples \/ CallStep \/ MonitorStep \/ MainStep
      BY <1>0, <3>2, CoroutineEffects
    <3>3. CASE TrainerStep
      BY <3>3, TrainerLeavesRollouter DEF taskVars
    <3>4. CASE UNCHANGED vars
      BY <3>4 DEF vars, rollVars
    <3> QED
      BY <1>2, <3>1, <3>2, <3>3, <3>4 DEF Next, RollNext, Ended
  <2> QED
    BY <2>1, <2>2 DEF Drained
<1> QED
  BY <1>1, <1>2

\* The finish signal is the last entry, it is put once, and the trainer takes
\* it from a queue that stays empty; nothing is lost to a full queue.
LastEntry ==
    /\ \A i \in DOMAIN queue : queue[i] = None => i = Len(queue)
    /\ EndSignalled => queue = <<>>
    /\ dropped_samples = 0

\* Nobody puts anything behind the finish signal.
LEMMA PutBeforeSignal ==
    ASSUME SInv, Drained, ProcessorSurvives, failures = 0,
           (\E s \in Samples : TaskPut(s)) \/ MainFinish
    PROVE  pc["main"] = "wait"
PROOF
<1>1. CASE MainFinish
  BY <1>1 DEF MainFinish
<1>2. ASSUME NEW s \in Samples, TaskPut(s), pc["main"] # "wait"
      PROVE  FALSE
  <2>1. proc[1] = "end" /\ proc \in Places \X Spots
    BY <1>2 DEF SInv, FinishKept, PTyped, HandHeld
  <2>2. proc = <<"end", "done">> \/ proc = <<"end", "crashed">>
    BY <2>1 DEF Drained
  <2>3. s \in putting
    BY <1>2 DEF TaskPut
  <2> QED
    BY <2>2, <2>3 DEF Drained, ProcessorSurvives
<1> QED
  BY <1>1, <1>2

\* The queue has room for every sample put into it, and for the finish signal.
LEMMA PutHasRoom ==
    ASSUME ThresholdZero, EInv, DoneTaken, Drained, ProcessorSurvives, failures = 0,
           (\E s \in Samples : TaskPut(s)) \/ MainFinish
    PROVE  ~MQ!QueueFull
PROOF
<1>1. SInv /\ KInv /\ QTyped /\ PTyped /\ Placed /\ pc["main"] = "wait" /\ PendingOrder
  BY PutBeforeSignal DEF EInv, SInv, KInv
<1>2. CountIn(queue) = Len(queue) /\ Len(queue) \in Nat
  <2>1. \A i \in DOMAIN queue : queue[i] \in Samples
    <3>1. \A i \in DOMAIN queue : queue[i] \in Samples \cup {None}
      BY <1>1, LenProperties, ElementOfSeq DEF QTyped
    <3> QED
      BY <1>1, <3>1 DEF SInv, FinishKept
  <2>2. DOMAIN queue = 1..Len(queue) /\ Len(queue) \in Nat
    BY <1>1, LenProperties DEF QTyped
  <2>3. {i \in DOMAIN queue : queue[i] \in Samples} = 1..Len(queue)
    BY <2>1, <2>2
  <2> DEFINE n == Len(queue)
  <2>4. n \in Nat
    BY <2>2
  <2>5. Cardinality(1..n) = n
    <3> HIDE DEF n
    <3> QED
      BY <2>4, FS_Interval
  <2> QED
    BY <2>2, <2>3, <2>5 DEF CountIn
<1>3. /\ Taken \in Nat /\ TakenSamples \in Nat /\ TakenSamples <= Taken
      /\ DONE = TotalRolloutSteps + 1 /\ TotalRolloutSteps \in Nat /\ MaxRequiredSamples \in Nat
  BY <1>1, TakenTyped
<1>4. /\ InFlight \in Nat
      /\ InFlight + (Taken - TakenSamples) <= MaxRequiredSamples
  BY <1>1, FlightTaken, FlightWithinQuota
<1>5. /\ Cardinality(generating) \in Nat /\ Cardinality(putting) \in Nat
      /\ CountIn(cancel_queue) \in Nat /\ CountIn(queue) \in Nat
      /\ Cardinality(Arriving) \in Nat /\ Cardinality(batch) \in Nat
      /\ IsFiniteSet(putting)
  BY <1>1, HeldCounts
<1>6. CASE \E s \in Samples : TaskPut(s)
  <2>1. Cardinality(putting) >= 1
    <3>1. putting # {}
      BY <1>6 DEF TaskPut
    <3>2. Cardinality(putting) # 0
      BY <1>5, <3>1, FS_EmptySet
    <3> QED
      BY <1>5, <3>2
  <2>2. InFlight >= CountIn(queue) + 1
    BY <1>5, <2>1 DEF InFlight
  <2> HIDE DEF InFlight, Taken, TakenSamples
  <2> QED
    BY <1>2, <1>3, <1>4, <2>2 DEF MQ!QueueFull
<1>7. CASE MainFinish
  <2>1. proc[1] = "end" /\ proc \in Places \X Spots
    BY <1>1, <1>7 DEF MainFinish, PTyped, HandHeld
  <2>2. proc = <<"end", "done">>
    BY <2>1 DEF Drained, ProcessorSurvives
  <2>3. Taken - TakenSamples = 1
    BY <1>3, <2>2 DEF DoneTaken, TakenSamples
  <2>4. InFlight >= CountIn(queue)
    BY <1>5 DEF InFlight
  <2> HIDE DEF InFlight, Taken, TakenSamples
  <2> QED
    BY <1>2, <1>3, <1>4, <2>3, <2>4 DEF MQ!QueueFull
<1> QED
  BY <1>6, <1>7

LEMMA LastNextPreserves ==
    ASSUME ThresholdZero, EInv, DoneTaken, Drained, ProcessorSurvives, failures = 0, LastEntry,
           [Next]_vars
    PROVE  LastEntry'
PROOF
<1>0. SInv /\ QTyped /\ KInv /\ queue \in Seq(Samples \cup {None})
  BY DEF EInv, SInv, QTyped
<1>1. CASE UNCHANGED <<queue, dropped_samples>>
  <2>1. EndSignalled' => queue' = <<>>
    <3>1. CASE EndSignalled
      BY <1>1, <3>1 DEF LastEntry
    <3>2. CASE ~EndSignalled
      <4>1. queue # <<>> => Tail(queue) # queue
        <5>1. queue # <<>> => Len(Tail(queue)) # Len(queue)
          BY <1>0, HeadTailProperties, LenProperties
        <5> QED
          BY <5>1
      <4> QED
        BY <1>0, <1>1, <3>2, <4>1, SignalTaken
    <3> QED
      BY <3>1, <3>2
  <2> QED
    BY <1>1, <2>1 DEF LastEntry
<1>2. ASSUME NEW x \in Samples \cup {None}, MQ!PutSample(x),
             (\E s \in Samples : TaskPut(s)) \/ MainFinish
      PROVE  LastEntry'
  <2>1. pc["main"] = "wait" /\ ~MQ!QueueFull
    BY <1>0, <1>2, PutBeforeSignal, PutHasRoom
  <2>2. ~EndSignalled
    BY <1>0, <2>1 DEF KInv, EndSeen
  <2>3. queue' = Append(queue, x) /\ UNCHANGED dropped_samples
    BY <1>2, <2>1 DEF MQ!PutSample
  <2>4. /\ Len(queue') = Len(queue) + 1 /\ DOMAIN queue' = 1..Len(queue')
        /\ Len(queue) \in Nat /\ DOMAIN queue = 1..Len(queue)
        /\ \A i \in 1..Len(queue) : queue'[i] = queue[i]
    BY <1>0, <2>3, AppendProperties, LenProperties
  <2>5. \A i \in DOMAIN queue' : queue'[i] = None => i = Len(queue')
    BY <1>0, <2>1, <2>4 DEF SInv, FinishKept
  <2>6. ~EndSignalled'
    <3>1. queue' # Tail(queue) \/ queue = <<>>
      <4>1. queue # <<>> => Len(Tail(queue)) = Len(queue) - 1
        BY <1>0, HeadTailProperties
      <4>2. queue # <<>> => Len(Tail(queue)) # Len(queue')
        <5>1. Len(queue') = Len(queue) + 1 /\ Len(queue) \in Nat
          BY <2>4
        <5> DEFINE l == Len(queue)  n == Len(queue')  t == Len(Tail(queue))
        <5>2. n = l + 1 /\ l \in Nat
          BY <5>1
        <5>3. queue # <<>> => t = l - 1
          BY <4>1
        <5> HIDE DEF l, n, t
        <5>4. queue # <<>> => t # n
          BY <5>2, <5>3
        <5> QED
          BY <5>4 DEF n, t
      <4> QED
        BY <4>2
    <3> QED
      BY <1>0, <2>2, <3>1, SignalTaken
  <2> QED
    BY <2>3, <2>5, <2>6 DEF LastEntry
<1>3. CASE queue # <<>> /\ queue' = Tail(queue) /\ UNCHANGED dropped_samples
  <2>1. /\ Len(queue') = Len(queue) - 1 /\ DOMAIN queue' = 1..Len(queue')
        /\ Len(queue) \in Nat /\ DOMAIN queue = 1..Len(queue) /\ Len(queue) # 0
        /\ \A i \in 1..Len(queue') : queue'[i] = queue[i + 1]
        /\ Head(queue) = queue[1]
        /\ queue' \in Seq(Samples \cup {None})
    BY <1>0, <1>3, HeadTailProperties, LenProperties, EmptySeq
  <2>2. \A i \in DOMAIN queue' : queue'[i] = None => i = Len(queue')
    <3> SUFFICES ASSUME NEW i \in 1..Len(queue'), queue'[i] = None
                 PROVE  i = Len(queue')
      BY <2>1
    <3>1. i + 1 \in DOMAIN queue /\ queue[i + 1] = None /\ i \in Int
      BY <2>1
    <3>2. i + 1 = Len(queue)
      BY <3>1 DEF LastEntry
    <3> QED
      BY <2>1, <3>1, <3>2
  <2>3. EndSignalled' => queue' = <<>>
    <3>1. ~EndSignalled
      BY <1>3 DEF LastEntry
    <3>2. EndSignalled' => queue[1] = None
      BY <1>0, <2>1, <3>1, SignalTaken
    <3>3. queue[1] = None => Len(queue) = 1
      BY <2>1 DEF LastEntry
    <3>4. Len(queue) = 1 => queue' = <<>>
      BY <2>1, EmptySeq
    <3> QED
      BY <3>2, <3>3, <3>4
  <2> QED
    BY <1>3, <2>2, <2>3 DEF LastEntry
<1>4. CASE queue' = <<>> /\ UNCHANGED dropped_samples
  <2>1. DOMAIN queue' = {}
    <3>1. <<>> \in Seq({}) /\ Len(<<>>) = 0
      BY EmptySeq
    <3> QED
      BY <1>4, <3>1, LenProperties
  <2> QED
    BY <1>4, <2>1 DEF LastEntry
<1>5. CASE RequestSample \/ WakeTrainer
  <2>1. \/ UNCHANGED <<queue, dropped_samples>>
        \/ queue # <<>> /\ queue' = Tail(queue) /\ UNCHANGED dropped_samples
    BY <1>0, <1>5 DEF RequestSample, WakeTrainer, MQ!GetSample, MQ!ResumeGetSample,
       MQ!ReturnSample, MQ!SleepUntilNotified, MQ!queueVars, QTyped
  <2> QED
    BY <1>1, <1>3, <2>1
<1>6. CASE \E s \in Samples : TaskPut(s)
  BY <1>2, <1>6 DEF TaskPut
<1>7. CASE MainFinish
  BY <1>2, <1>7 DEF MainFinish
<1>8. CASE ClearAndEnd
  BY <1>4, <1>8 DEF ClearAndEnd, MQ!ClearQueue
<1>9. CASE UNCHANGED queueState
  BY <1>1, <1>9 DEF queueState
<1> QED
  BY <1>5, <1>6, <1>7, <1>8, <1>9, QueueCalls

\* Training steps train on full batches only.
Whole == \E k \in Nat : Cardinality(trained) = k * RequiredSamples

LEMMA WholeNextPreserves ==
    ASSUME SInv, TInv, Whole, [Next]_vars
    PROVE  Whole'
PROOF
<1>1. CASE TrainStep
  <2>1. Cardinality(trained') = Cardinality(trained) + RequiredSamples
    <3>1. trained \cap batch = {}
      BY DEF SInv, Placed, OnePlace, In, PlaceNames
    <3>2. Cardinality(batch) = RequiredSamples
      BY <1>1 DEF TrainStep, TInv, BatchFills
    <3> QED
      BY <1>1, <3>1, <3>2, DisjointCounts DEF TrainStep, SInv, Placed
  <2>2. PICK k \in Nat : Cardinality(trained) = k * RequiredSamples
    BY DEF Whole
  <2>3. (k + 1) * RequiredSamples = k * RequiredSamples + RequiredSamples
    <3>1. k \in Int /\ RequiredSamples \in Nat
      BY FullyAsyncAssumption
    <3> QED
      BY <3>1, OneMore, ZenonT(20)
  <2>4. k + 1 \in Nat
    OBVIOUS
  <2> QED
    BY <2>1, <2>2, <2>3, <2>4 DEF Whole
<1>2. CASE UNCHANGED trained
  BY <1>2 DEF Whole
<1>3. TrainStep \/ UNCHANGED trained
  BY DEF Next, TrainerStep, Ended, LogValidation, RequestSample, WakeTrainer, ReceiveSample,
     FinalWait, FinalSync, SyncPause, SyncTransfer, SyncReturn, ClearAndEnd, trainVars, vars
<1> QED
  BY <1>1, <1>2, <1>3

\* Whole batches and the remainder of one.
LEMMA WholeBatches ==
    ASSUME NEW k \in Nat, NEW r \in Nat \ {0}, NEW b \in Nat, b < r
    PROVE  (k * r + b) \div r = k
PROOF
  OBVIOUS

\* With staleness_threshold 0, and if nothing fails, the trainer ends only
\* after every full batch of the data, with partial rollout and without: no
\* sample is interrupted, the finish signal overtakes none, and the queue has
\* room for every one.
THEOREM EveryFullBatchTrained ==
    ASSUME ThresholdZero, MaxFailures = 0
    PROVE  Spec => []FullBatchesTrained
PROOF
<1> DEFINE FInv == cancel_queue = <<>> /\ Drained /\ LastEntry /\ Whole
<1>1. Init => FInv
  <2> SUFFICES ASSUME Init PROVE FInv
    OBVIOUS
  <2>1. cancel_queue = <<>> /\ Drained
    BY DEF Init, RollInit, Drained
  <2>2. LastEntry
    <3>1. <<>> \in Seq({}) /\ Len(<<>>) = 0
      BY EmptySeq
    <3>2. DOMAIN queue = {}
      BY <3>1, LenProperties DEF Init, RollInit
    <3> QED
      BY <3>2 DEF Init, RollInit, LastEntry
  <2>3. Whole
    <3>1. Cardinality(trained) = 0
      BY FS_EmptySet DEF Init
    <3>2. 0 * RequiredSamples = 0
      BY FullyAsyncAssumption
    <3> QED
      BY <3>1, <3>2 DEF Whole
  <2> QED
    BY <2>1, <2>2, <2>3
<1>2. EInv => failures = 0
  BY DEF EInv, SInv, PTyped, FTyped
<1>3. EInv /\ UInv /\ DoneTaken /\ ProcessorSurvives /\ FInv /\ [Next]_vars => FInv'
  <2> SUFFICES ASSUME EInv, UInv, DoneTaken, ProcessorSurvives, FInv, [Next]_vars
               PROVE  FInv'
    OBVIOUS
  <2>1. Drained' /\ LastEntry' /\ Whole'
    BY <1>2, DrainedNextPreserves, LastNextPreserves, WholeNextPreserves DEF EInv
  <2>2. after_sync = "log" \/ generating = {}
    <3> SUFFICES ASSUME after_sync # "log" PROVE generating = {}
      OBVIOUS
    <3>1. EndSignalled
      BY DEF EndSignalled, EInv, SInv, VInv, VTypes
    <3>2. proc[1] = "end" /\ proc \in Places \X Spots
      BY <3>1 DEF EInv, KInv, EndSeen, SInv, FinishKept, PTyped, HandHeld
    <3>3. proc = <<"end", "done">>
      BY <1>2, <3>2 DEF Drained, ProcessorSurvives
    <3> QED
      BY <3>3 DEF Drained
  <2>3. cancel_queue' = <<>>
    BY <2>2, NoneCancelled DEF UInv
  <2> QED
    BY <2>1, <2>3
<1>4. EInv /\ DoneTaken /\ ProcessorSurvives /\ FInv => FullBatchesTrained
  <2> SUFFICES ASSUME EInv, DoneTaken, ProcessorSurvives, FInv, trainer = "finished"
               PROVE  Cardinality(trained) =
                         (TotalRolloutSteps \div RequiredSamples) * RequiredSamples
    BY DEF FullBatchesTrained
  <2>1. SInv /\ TInv /\ KInv /\ QTyped /\ PTyped /\ Placed /\ Accounted /\ PendingOrder
    BY DEF EInv, SInv, KInv
  <2>2. EndSignalled /\ queue = <<>> /\ dropped_samples = 0 /\ failures = 0
    BY <1>2 DEF EndSignalled, LastEntry
  <2>3. proc = <<"end", "done">>
    <3>1. proc[1] = "end" /\ proc \in Places \X Spots
      BY <2>1, <2>2 DEF KInv, EndSeen, SInv, FinishKept, PTyped, HandHeld
    <3> QED
      BY <2>2, <3>1 DEF Drained, ProcessorSurvives
  <2>4. generating = {} /\ putting = {} /\ hand \notin Samples /\ Arriving = {}
        /\ cancel_queue = <<>>
    BY <2>1, <2>3, SamplesFacts
       DEF Drained, PTyped, HandHeld, Arriving
  <2>5. Cardinality(generating) = 0 /\ Cardinality(putting) = 0 /\ Cardinality(Arriving) = 0
    BY <2>4, FS_EmptySet
  <2>6. CountIn(queue) = 0 /\ CountIn(cancel_queue) = 0
    <3>1. <<>> \in Seq({}) /\ Len(<<>>) = 0
      BY EmptySeq
    <3>2. DOMAIN <<>> = {}
      BY <3>1, LenProperties
    <3>3. {i \in DOMAIN <<>> : <<>>[i] \in Samples} = {}
      BY <3>2
    <3> QED
      BY <2>2, <2>4, <3>3, FS_EmptySet DEF CountIn
  <2>7. CountIn(pending_queue) = 0 /\ FedSamples = TotalRolloutSteps
    <3>1. CountIn(pending_queue) = FedSamples - TakenSamples /\ FedSamples \in Nat
      BY <2>1, PendingCounts
    <3>2. Taken = DONE
      BY <2>3 DEF DoneTaken
    <3>3. /\ fed = Taken + Len(pending_queue) /\ Len(pending_queue) \in Nat
          /\ TotalRolloutSteps \in Nat /\ DONE = TotalRolloutSteps + 1
      BY <2>1, TakenTyped
    <3>4. TakenSamples = TotalRolloutSteps /\ FedSamples = TotalRolloutSteps
      BY <3>2, <3>3 DEF TakenSamples, FedSamples
    <3> QED
      BY <3>1, <3>3, <3>4
  <2>8. Cardinality(batch) \in Nat /\ Cardinality(trained) \in Nat
    BY <2>1, HeldCounts
  <2>9. Cardinality(batch) + Cardinality(trained) = TotalRolloutSteps
    <3>1. HeldCount = Cardinality(batch) + Cardinality(trained)
      BY <2>4, <2>5, <2>6, <2>7, <2>8 DEF HeldCount
    <3>2. HeldCount + 0 + 0 = TotalRolloutSteps
      BY <2>1, <2>2, <2>7 DEF Accounted
    <3> QED
      BY <2>8, <3>1, <3>2
  <2>10. Cardinality(batch) < RequiredSamples /\ RequiredSamples \in Nat \ {0}
    BY <2>1, <2>8, FullyAsyncAssumption DEF TInv, BatchFills
  <2>11. PICK k \in Nat : Cardinality(trained) = k * RequiredSamples
    BY DEF Whole
  <2>12. TotalRolloutSteps \div RequiredSamples = k
    <3>1. TotalRolloutSteps = k * RequiredSamples + Cardinality(batch)
      BY <2>8, <2>9, <2>11
    <3> QED
      BY <2>8, <2>10, <3>1, WholeBatches
  <2> QED
    BY <2>11, <2>12
<1> HIDE DEF FInv
<1> QED
  BY <1>1, <1>3, <1>4, ExactInvariant, UninterruptedInvariant, DoneInvariant,
     ProcessorSurvivesOnPolicy, PTL DEF Spec

-----------------------------------------------------------------------------
(* Nobody waits for a sample that is not coming *)

\* A synchronization has begun, or its update or resume is not over.
SyncUnderWay == Syncing \/ pc["update"] # "idle" \/ pc["resume"] # "idle"

\* A processor that sleeps has been paused, by itself when no task was left, or
\* with a sample in hand by a synchronization.
AsleepPaused ==
    /\ proc[1] = "cond" => paused /\ proc[2] \in {"sleep", "submit"}
    /\ proc[2] = "sleep" => ActiveCount = 0
    /\ paused /\ proc[2] \in {"get", "limit", "submit"} => SyncUnderWay

\* The trainer sleeps only on an empty queue.
SleepsOnEmpty == waiting # {} => queue = <<>>

LEMMA SleepsNextPreserve ==
    ASSUME SleepsOnEmpty, [Next]_vars
    PROVE  SleepsOnEmpty'
PROOF
<1>1. CASE UNCHANGED queueState
  BY <1>1 DEF queueState, SleepsOnEmpty
<1>2. CASE (\E s \in Samples : TaskPut(s)) \/ MainFinish
  BY <1>2 DEF TaskPut, MainFinish, MQ!PutSample, MQ!NotifyAll, SleepsOnEmpty
<1>3. CASE RequestSample \/ WakeTrainer
  BY <1>3 DEF RequestSample, WakeTrainer, MQ!GetSample, MQ!ResumeGetSample, MQ!ReturnSample,
     MQ!SleepUntilNotified, MQ!queueVars, SleepsOnEmpty
<1>4. CASE ClearAndEnd
  BY <1>4 DEF ClearAndEnd, MQ!ClearQueue, SleepsOnEmpty
<1> QED
  BY <1>1, <1>2, <1>3, <1>4, QueueCalls

\* A synchronization that is under way stays so until resume is over, which
\* un-pauses the Rollouter.
LEMMA SyncStaysUnderWay ==
    ASSUME SInv, CallsInSync, SyncUnderWay, [Next]_vars
    PROVE  SyncUnderWay' \/ ~paused'
PROOF
<1> USE DEF SInv, VInv, VTypes, Coroutines, SyncUnderWay, Syncing
<1>1. CASE CallStep /\ UNCHANGED trainVars
  <2>1. UNCHANGED trainer
    BY <1>1 DEF trainVars
  <2>2. CASE ResumeBegin \/ ResumeEnd
    BY <2>1, <2>2 DEF ResumeBegin, ResumeEnd, ResumeGeneration, Goto
  <2>3. CASE UpdateBegin \/ UpdateEnd
    BY <2>1, <2>3 DEF UpdateBegin, UpdateEnd, Goto, CallsInSync, Entered
  <2>4. CASE PauseBegin \/ PauseCancel \/ PauseGathered \/ PauseEnd
    BY <2>1, <2>4 DEF PauseBegin, PauseCancel, PauseGathered, PauseEnd, Goto
  <2>5. CASE \E c \in {"pause", "update", "resume", "main"} : CallQueues(c)
    BY <2>1, <2>5 DEF CallQueues, Goto
  <2> QED
    BY <1>1, <2>2, <2>3, <2>4, <2>5 DEF CallStep
<1>2. CASE (FeedSamples \/ ProcessorStep \/ TaskStep \/ MonitorStep \/ MainStep)
              /\ UNCHANGED trainVars
  BY <1>2, RollouterKeepsCalls DEF callState
<1>3. CASE LogValidation \/ RequestSample \/ WakeTrainer \/ ReceiveSample
           \/ TrainStep \/ FinalWait \/ FinalSync \/ ClearAndEnd
  <2>1. UNCHANGED pc
    BY <1>3, TrainingKeepsCalls
  <2>2. Syncing => UNCHANGED trainer
    BY <1>3 DEF LogValidation, RequestSample, WakeTrainer, ReceiveSample, TrainStep, FinalWait,
       FinalSync, ClearAndEnd, MQ!ResumeGetSample, trainVars
  <2> QED
    BY <2>1, <2>2
<1>4. CASE SyncPause \/ SyncTransfer
  BY <1>4 DEF SyncPause, SyncTransfer
<1>5. CASE SyncReturn
  BY <1>5 DEF SyncReturn
<1>6. CASE UNCHANGED vars
  BY <1>6 DEF vars, rollVars, trainVars
<1> QED
  BY <1>1, <1>2, <1>3, <1>4, <1>5, <1>6 DEF Next, RollNext, TrainerStep, Ended

\* What the processor does to being paused.
LEMMA ProcessorPauses ==
    ASSUME SInv, AsleepPaused, ProcessorStep, UNCHANGED trainVars
    PROVE  AsleepPaused'
PROOF
<1>0. SyncUnderWay' = SyncUnderWay
  BY RollouterKeepsCalls DEF SInv, callState, SyncUnderWay, Syncing
<1> USE DEF AsleepPaused
<1>1. CASE ProcPause \/ ProcPauseLocked
  BY <1>0, <1>1 DEF ProcPause, ProcPauseLocked
<1>2. CASE ProcTake
  BY <1>0, <1>2 DEF ProcTake, TakePending, flagVars
<1>3. CASE ProcGot
  BY <1>0, <1>3 DEF ProcGot, TakePending, flagVars
<1>4. ASSUME NEW loop \in DrainLoops, ProcDrainTest(loop) PROVE AsleepPaused'
  <2>1. UNCHANGED <<paused, generating, putting, finished, failed>> /\ proc = <<"run", loop>>
    BY <1>4 DEF ProcDrainTest, flagVars, taskVars
  <2>2. CASE MustDrain(loop)
    BY <1>0, <1>4, <2>1, <2>2 DEF ProcDrainTest, DrainLoops
  <2>3. CASE ~MustDrain(loop)
    <3>1. proc' = AfterDrain(loop)
      BY <1>4, <2>3 DEF ProcDrainTest
    <3>2. CASE loop = "drain"
      <4>1. ActiveCount \in Nat
        BY ActiveCountTyped DEF SInv, PTyped
      <4>2. ActiveCount' = ActiveCount
        BY <2>1 DEF ActiveCount
      <4>3. ~(ActiveCount > 0)
        BY <2>3, <3>2 DEF MustDrain
      <4> HIDE DEF ActiveCount
      <4>4. ActiveCount' = 0
        BY <4>1, <4>2, <4>3
      <4> QED
        BY <3>1, <3>2, <4>4 DEF AfterDrain
    <3>3. CASE loop # "drain"
      BY <1>0, <2>1, <3>1, <3>3 DEF AfterDrain, DrainLoops
    <3> QED
      BY <3>2, <3>3
  <2> QED
    BY <2>2, <2>3
<1>5. ASSUME NEW loop \in DrainLoops, ProcDrainLocked(loop) \/ ProcDrainWake(loop)
      PROVE  AsleepPaused'
  <2>1. UNCHANGED paused /\ proc[2] = loop
        /\ proc'[1] # "cond" /\ proc'[2] \in {loop, "crashed"}
    BY <1>5 DEF ProcDrainLocked, ProcDrainWake, flagVars
  <2> QED
    BY <1>0, <2>1 DEF DrainLoops
<1>6. ASSUME NEW where \in {"sleep", "submit"},
             ProcEnter(where) \/ ProcEnterLocked(where) \/ ProcWoken(where)
      PROVE  AsleepPaused'
  <2>1. UNCHANGED <<paused, putting, finished, failed>> /\ proc[2] = where
    BY <1>6 DEF ProcEnter, ProcEnterLocked, ProcWoken, flagVars, taskVars
  <2>2. \/ proc'[2] = where /\ UNCHANGED generating /\ (proc'[1] = "cond" => paused)
        \/ proc'= <<"run", "top">>
    BY <1>6 DEF ProcEnter, ProcEnterLocked, ProcWoken, UnderLock, taskVars
  <2>3. UNCHANGED generating => ActiveCount' = ActiveCount
    BY <2>1 DEF ActiveCount
  <2> QED
    BY <1>0, <2>1, <2>2, <2>3
<1> QED
  BY <1>1, <1>2, <1>3, <1>4, <1>5, <1>6 DEF ProcessorStep

\* Whatever un-pauses the Rollouter notifies the processor, and only pause
\* pauses it from outside.
LEMMA CoroutinesPause ==
    ASSUME SInv, CallsInSync, FeedSamples \/ CallStep \/ MonitorStep \/ MainStep,
           UNCHANGED trainVars
    PROVE  /\ proc'[2] = proc[2]
           /\ proc'[1] = "cond" => proc[1] = "cond" /\ (paused => paused')
           /\ paused' /\ ~paused => SyncUnderWay'
           /\ ActiveCount = 0 => ActiveCount' = 0
PROOF
<1>1. ActiveCount = 0 => ActiveCount' = 0
  <2>1. /\ Cardinality(generating) \in Nat /\ Cardinality(putting) \in Nat
        /\ finished \in Nat /\ failed \in Nat
    BY TaskCounts DEF SInv
  <2>2. /\ UNCHANGED <<generating, putting>>
        /\ \/ UNCHANGED <<finished, failed>>
           \/ finished' = 0 /\ failed' = 0
    BY CoroutineEffects DEF SInv
  <2> QED
    BY <2>1, <2>2 DEF ActiveCount
<1>2. CASE PauseBegin
  <2>1. pc["pause"] # "idle"
    BY <1>2 DEF PauseBegin, Entered
  <2>2. UNCHANGED <<trainer, proc>> /\ paused' = TRUE
    BY <1>2 DEF PauseBegin, trainVars, procVars
  <2>3. SyncUnderWay'
    BY <2>1, <2>2 DEF CallsInSync, SyncUnderWay, Syncing
  <2> QED
    BY <1>1, <2>2, <2>3
<1>3. CASE ~PauseBegin
  <2>1. \/ UNCHANGED <<proc, paused>>
        \/ proc' = Notified(proc) /\ ~paused'
    BY <1>3 DEF FeedSamples, CallStep, CallQueues, PauseCancel, PauseGathered, PauseEnd,
       UpdateBegin, UpdateEnd, ResumeBegin, ResumeEnd, ResumeGeneration, MonitorStep,
       MonitorWake, MonitorLocked, MainStep, MainFinish, MainStop, procVars, flagVars
  <2> QED
    BY <1>1, <2>1, NotifiedFacts
<1> QED
  BY <1>2, <1>3

LEMMA AsleepNextPreserves ==
    ASSUME SInv, CallsInSync, AsleepPaused, [Next]_vars
    PROVE  AsleepPaused'
PROOF
<1>1. CASE ProcessorStep /\ UNCHANGED trainVars
  BY <1>1, ProcessorPauses
<1>2. CASE (FeedSamples \/ CallStep \/ MonitorStep \/ MainStep) /\ UNCHANGED trainVars
  BY <1>2, CoroutinesPause, SyncStaysUnderWay DEF AsleepPaused
<1>3. CASE TaskStep /\ UNCHANGED trainVars
  <2> PICK s \in Samples : TaskReturns(s) \/ TaskFails(s)
    BY <1>3 DEF TaskStep
  <2>1. UNCHANGED <<proc, paused>>
    BY DEF TaskReturns, TaskGenerated, TaskPut, TaskCancelled, TaskFails, procVars, flagVars
  <2>2. SyncUnderWay' = SyncUnderWay
    BY <1>3, RollouterKeepsCalls DEF SInv, callState, SyncUnderWay, Syncing
  <2>3. ActiveCount = 0 => FALSE
    <3>1. /\ Cardinality(generating) \in Nat /\ Cardinality(putting) \in Nat
          /\ IsFiniteSet(generating) /\ IsFiniteSet(putting)
          /\ finished \in Nat /\ failed \in Nat
      BY TaskCounts DEF SInv
    <3>2. s \in generating \/ s \in putting
      BY DEF TaskReturns, TaskGenerated, TaskPut, TaskCancelled, TaskFails
    <3>3. Cardinality(generating) # 0 \/ Cardinality(putting) # 0
      BY <3>1, <3>2, FS_EmptySet
    <3>4. \A a, b, c, d \in Nat : a + b + c + d = 0 => a = 0 /\ b = 0
      OBVIOUS
    <3> QED
      BY <3>1, <3>3, <3>4, ZenonT(20) DEF ActiveCount
  <2> QED
    BY <2>1, <2>2, <2>3 DEF AsleepPaused
<1>4. CASE TrainerStep
  <2>1. UNCHANGED <<proc, paused, generating, putting, finished, failed>>
    BY <1>4, TrainerLeavesRollouter DEF procVars, flagVars, taskVars
  <2>2. ActiveCount' = ActiveCount
    BY <2>1 DEF ActiveCount
  <2>3. SyncUnderWay => SyncUnderWay' \/ ~paused'
    BY <1>4, SyncStaysUnderWay DEF Next
  <2> QED
    BY <2>1, <2>2, <2>3 DEF AsleepPaused
<1>5. CASE UNCHANGED vars
  BY <1>5 DEF vars, rollVars, trainVars, AsleepPaused, SyncUnderWay, Syncing, ActiveCount
<1> QED
  BY <1>1, <1>2, <1>3, <1>4, <1>5 DEF Next, RollNext, Ended

\* The processor is in its main loop.
InLoop == proc[1] # "end" /\ proc[2] # "end"

\* Samples that a version trains on.
VersionQuota == RequiredSamples * TriggerParameterSyncStep

InHand == IF hand \in Samples THEN 1 ELSE 0

\* What update_param_version counts, and the sample in hand, which it does not.
Load == ActiveCount + Len(cancel_queue) + InHand

Steps == (local_trigger_step - 1) * RequiredSamples

\* Samples in flight, trained on in this version, or failed and still counted.
OfVersion ==
    TakenSamples - dropped_samples - failures + failed - Cardinality(trained) + Steps

\* A sequence of samples has as many as it is long.
LEMMA AllAreSamples ==
    ASSUME NEW seq, Len(seq) \in Nat, DOMAIN seq = 1..Len(seq),
           \A i \in DOMAIN seq : seq[i] \in Samples
    PROVE  CountIn(seq) = Len(seq)
PROOF
<1> DEFINE n == Len(seq)
<1>1. {i \in DOMAIN seq : seq[i] \in Samples} = 1..n
  OBVIOUS
<1>2. n \in Nat
  OBVIOUS
<1>3. Cardinality(1..n) = n
  <2> HIDE DEF n
  <2> QED
    BY <1>2, FS_Interval
<1> QED
  BY <1>1, <1>3 DEF CountIn

\* As long as the processor is in its loop nothing has ended.
LEMMA LoopFacts ==
    ASSUME SInv, TInv, KInv, InLoop
    PROVE  /\ pc["main"] = "wait" /\ after_sync = "log"
           /\ trainer \notin {"final_wait", "final_sync", "final_validate", "finished", "ended"}
           /\ Len(queue) \in Nat /\ CountIn(queue) = Len(queue)
           /\ Len(cancel_queue) \in Nat /\ CountIn(cancel_queue) = Len(cancel_queue)
PROOF
<1>1. pc["main"] = "wait"
  BY DEF InLoop, SInv, FinishKept
<1>2. ~EndSignalled
  BY <1>1 DEF KInv, EndSeen
<1>3. after_sync = "log"
      /\ trainer \notin {"final_wait", "final_sync", "final_validate", "finished", "ended"}
  BY <1>2 DEF EndSignalled, SInv, VInv, VTypes
<1>4. Len(queue) \in Nat /\ CountIn(queue) = Len(queue)
  <2>1. queue \in Seq(Samples \cup {None})
    BY DEF SInv, QTyped
  <2>2. Len(queue) \in Nat /\ DOMAIN queue = 1..Len(queue)
    BY <2>1, LenProperties
  <2>3. \A i \in DOMAIN queue : queue[i] \in Samples
    <3>1. \A i \in DOMAIN queue : queue[i] \in Samples \cup {None}
      BY <2>1, <2>2, ElementOfSeq
    <3>2. \A i \in DOMAIN queue : queue[i] # None
      BY <1>1 DEF SInv, FinishKept
    <3> QED
      BY <3>1, <3>2
  <2> QED
    BY <2>2, <2>3, AllAreSamples
<1>5. Len(cancel_queue) \in Nat /\ CountIn(cancel_queue) = Len(cancel_queue)
  <2>1. cancel_queue \in Seq(Samples)
    BY DEF SInv, PTyped, FTyped
  <2>2. Len(cancel_queue) \in Nat /\ DOMAIN cancel_queue = 1..Len(cancel_queue)
    BY <2>1, LenProperties
  <2>3. \A i \in DOMAIN cancel_queue : cancel_queue[i] \in Samples
    BY <2>1, <2>2, ElementOfSeq
  <2> QED
    BY <2>2, <2>3, AllAreSamples
<1> QED
  BY <1>1, <1>3, <1>4, <1>5

\* The steps of a version made so far have taken a number of samples.
LEMMA StepsTyped ==
    ASSUME TInv
    PROVE  /\ Steps \in Nat /\ VersionQuota \in Nat
           /\ Steps + RequiredSamples <= VersionQuota
           /\ RequiredSamples \in Nat \ {0}
           /\ local_trigger_step \in 1..TriggerParameterSyncStep
           /\ local_trigger_step * RequiredSamples = Steps + RequiredSamples
PROOF
<1>1. /\ local_trigger_step \in 1..TriggerParameterSyncStep
      /\ RequiredSamples \in Nat \ {0} /\ TriggerParameterSyncStep \in Nat \ {0}
  BY FullyAsyncAssumption DEF TInv
<1>2. \A a, b \in Nat : a * b \in Nat /\ a * b = b * a
  OBVIOUS
<1>3. local_trigger_step - 1 \in Nat /\ local_trigger_step \in Nat /\ TriggerParameterSyncStep \in Nat
      /\ RequiredSamples \in Nat /\ local_trigger_step <= TriggerParameterSyncStep
  BY <1>1
<1>4. Steps \in Nat /\ VersionQuota \in Nat
  BY <1>2, <1>3 DEF Steps, VersionQuota
<1>5. local_trigger_step * RequiredSamples = Steps + RequiredSamples
  <2>1. local_trigger_step - 1 \in Int /\ local_trigger_step - 1 + 1 = local_trigger_step
    BY <1>3
  <2>2. (local_trigger_step - 1 + 1) * RequiredSamples = Steps + RequiredSamples
    BY <1>3, <2>1, OneMore, ZenonT(20) DEF Steps
  <2> QED
    BY <2>1, <2>2
<1>6. local_trigger_step * RequiredSamples <= VersionQuota
  <2>1. \A a, b, m \in Nat : a <= b => a * m <= b * m
    OBVIOUS
  <2>2. local_trigger_step * RequiredSamples <= TriggerParameterSyncStep * RequiredSamples
    BY <1>3, <2>1
  <2>3. TriggerParameterSyncStep * RequiredSamples = VersionQuota
    BY <1>2, <1>3 DEF VersionQuota
  <2> QED
    BY <2>2, <2>3
<1> HIDE DEF Steps, VersionQuota
<1> QED
  BY <1>1, <1>4, <1>5, <1>6

\* OfVersion counts what is there.
LEMMA OfVersionCounts ==
    ASSUME SInv, TInv, KInv, InLoop
    PROVE  /\ OfVersion = InFlight + failed + Steps
           /\ InFlight \in Nat /\ failed \in Nat /\ Steps \in Nat /\ OfVersion \in Nat
           /\ InFlight = InHand + Cardinality(generating) + Cardinality(putting)
                            + Len(cancel_queue) + Len(queue)
                            + Cardinality(Arriving) + Cardinality(batch)
           /\ InHand \in {0, 1} /\ Cardinality(generating) \in Nat /\ Cardinality(putting) \in Nat
           /\ IsFiniteSet(generating) /\ IsFiniteSet(putting)
           /\ Cardinality(Arriving) \in Nat /\ Cardinality(batch) \in Nat
           /\ Len(cancel_queue) \in Nat /\ Len(queue) \in Nat
PROOF
<1>1. SInv /\ PendingOrder /\ QTyped /\ PTyped /\ Placed
  BY DEF SInv, KInv
<1>2. /\ trainer # "ended"
      /\ Len(queue) \in Nat /\ CountIn(queue) = Len(queue)
      /\ Len(cancel_queue) \in Nat /\ CountIn(cancel_queue) = Len(cancel_queue)
  BY LoopFacts
<1>3. HeldCount + dropped_samples + failures = FedSamples
  BY <1>2 DEF SInv, Accounted
<1>4. CountIn(pending_queue) = FedSamples - TakenSamples /\ FedSamples \in Nat
  BY <1>1, PendingCounts
<1>5. TakenSamples \in Nat
  BY <1>1, TakenTyped
<1>6. /\ CountIn(cancel_queue) \in Nat /\ CountIn(queue) \in Nat
      /\ Cardinality(generating) \in Nat /\ Cardinality(putting) \in Nat
      /\ IsFiniteSet(generating) /\ IsFiniteSet(putting)
      /\ Cardinality(Arriving) \in Nat /\ Cardinality(batch) \in Nat
      /\ Cardinality(trained) \in Nat
      /\ dropped_samples \in Nat /\ failures \in Nat
  BY <1>1, HeldCounts
<1>7. InHand \in {0, 1} /\ InHand \in Nat
  BY DEF InHand
<1>8. InFlight = InHand + Cardinality(generating) + Cardinality(putting) + Len(cancel_queue)
                    + Len(queue) + Cardinality(Arriving) + Cardinality(batch)
  BY <1>2 DEF InFlight, InHand
<1>9. HeldCount = CountIn(pending_queue) + InFlight + Cardinality(trained)
  BY <1>4, <1>5, <1>6 DEF HeldCount, InFlight
<1>10. InFlight \in Nat
  BY <1>2, <1>6, <1>7, <1>8
<1>11. failed \in Nat /\ Steps \in Nat
  BY <1>1, StepsTyped DEF PTyped, FTyped
<1> HIDE DEF InFlight, FedSamples, TakenSamples, Taken, Steps, InHand, HeldCount
<1>12. OfVersion = InFlight + failed + Steps
  BY <1>3, <1>4, <1>5, <1>6, <1>9, <1>10, <1>11 DEF OfVersion
<1>13. OfVersion \in Nat
  BY <1>10, <1>11, <1>12
<1> QED
  BY <1>2, <1>6, <1>7, <1>8, <1>10, <1>11, <1>12, <1>13

\* The loop is not entered again.
LEMMA LoopLeft ==
    ASSUME SInv, [Next]_vars, InLoop'
    PROVE  InLoop
PROOF
<1>1. CASE ProcessorStep /\ UNCHANGED trainVars
  <2>1. proc[1] # "end"
    BY <1>1, ProcessorLimit DEF SInv
  <2>2. proc[2] = "end" => FALSE
    <3>1. SUFFICES ASSUME proc[2] = "end" PROVE FALSE
      OBVIOUS
    <3>2. \E loop \in DrainLoops :
             ProcDrainTest(loop) \/ ProcDrainLocked(loop) \/ ProcDrainWake(loop)
      BY <1>1, <3>1 DEF ProcessorStep, ProcPause, ProcPauseLocked, ProcTake, ProcGot, ProcEnter,
         ProcEnterLocked, ProcWoken
    <3>3. PICK loop \in DrainLoops :
             ProcDrainTest(loop) \/ ProcDrainLocked(loop) \/ ProcDrainWake(loop)
      BY <3>2
    <3>4. loop = "end"
      BY <3>1, <3>3 DEF ProcDrainTest, ProcDrainLocked, ProcDrainWake
    <3> QED
      BY <3>3, <3>4 DEF ProcDrainTest, ProcDrainLocked, ProcDrainWake, AfterDrain, InLoop
  <2> QED
    BY <2>1, <2>2 DEF InLoop
<1>2. CASE ~(ProcessorStep /\ UNCHANGED trainVars)
  BY <1>2, OthersKeepProcessor, NotifiedFacts DEF InLoop
<1> QED
  BY <1>1, <1>2

\* What the processor takes from the feed it counts.
LEMMA ProcessorCounts ==
    ASSUME SInv, TInv, KInv, InLoop, ProcessorStep, UNCHANGED trainVars, InLoop'
    PROVE  /\ UNCHANGED <<pc, trainer, counted>>
           /\ \/ UNCHANGED <<OfVersion, staleness_samples>> /\ Load' <= Load
              \/ /\ OfVersion' = OfVersion + 1 /\ staleness_samples' = staleness_samples + 1
                 /\ Load' <= Load + 1
PROOF
<1>0. /\ Cardinality(generating) \in Nat /\ Cardinality(putting) \in Nat
      /\ IsFiniteSet(generating) /\ finished \in Nat /\ failed \in Nat
      /\ Len(cancel_queue) \in Nat /\ InHand \in {0, 1} /\ staleness_samples \in Nat
  BY OfVersionCounts, TaskCounts DEF SInv, PTyped, FTyped
<1>1. UNCHANGED <<pc, trainer, counted>>
  <2>1. UNCHANGED pc
    BY ProcessorKeepsQueue
  <2>2. UNCHANGED counted
    BY DEF ProcessorStep, ProcPause, ProcPauseLocked, ProcTake, ProcGot, ProcDrainTest,
       ProcDrainLocked, ProcDrainWake, ProcEnter, ProcEnterLocked, ProcWoken, versionVars
  <2> QED
    BY <2>1, <2>2 DEF trainVars
<1>2. UNCHANGED <<dropped_samples, failures, trained, local_trigger_step>>
  <2>1. UNCHANGED dropped_samples
    BY ProcessorKeepsQueue DEF mqVars
  <2>2. UNCHANGED failures
    BY DEF ProcessorStep, ProcPause, ProcPauseLocked, ProcTake, ProcGot, ProcDrainTest,
       ProcDrainLocked, ProcDrainWake, ProcEnter, ProcEnterLocked, ProcWoken, taskVars
  <2> QED
    BY <2>1, <2>2 DEF trainVars
<1>3. CASE ProcPause \/ ProcPauseLocked
  <2>1. UNCHANGED <<pending_queue, fed, failed, staleness_samples, generating, putting, finished,
                    cancel_queue, hand>>
    BY <1>3 DEF ProcPause, ProcPauseLocked, feedVars, taskVars
  <2> QED
    BY <1>0, <1>1, <1>2, <2>1 DEF OfVersion, TakenSamples, Taken, Steps, Load, ActiveCount, InHand
<1>4. CASE ProcTake \/ ProcGot
  <2>0. UNCHANGED <<generating, putting, finished, failed, fed>>
    BY <1>4 DEF ProcTake, ProcGot, taskVars, TakePending
  <2>1. ActiveCount' = ActiveCount /\ ActiveCount \in Nat
    BY <1>0, <2>0 DEF ActiveCount
  <2>2. hand = NoSample /\ InHand = 0
    BY <1>4, SamplesFacts DEF ProcTake, ProcGot, SInv, PTyped, HandHeld, InHand
  <2>3. CASE TakePending /\ UNCHANGED cancel_queue
    <3>1. Head(pending_queue) # DONE
      BY <1>4, <2>3 DEF TakePending, InLoop
    <3>2. /\ pending_queue # <<>> /\ pending_queue' = Tail(pending_queue)
          /\ staleness_samples' = staleness_samples + 1 /\ UNCHANGED fed
      BY <2>0, <2>3 DEF TakePending
    <3>3. Taken' = Taken + 1 /\ Taken + 1 = Head(pending_queue)
      <4>1. pending_queue \in Seq(Samples \cup {DONE})
        BY DEF SInv, PTyped, FTyped
      <4>2. 1 \in DOMAIN pending_queue /\ Head(pending_queue) = pending_queue[1]
            /\ Len(pending_queue') = Len(pending_queue) - 1 /\ Len(pending_queue) \in Nat
        BY <3>2, <4>1, HeadTailProperties, LenProperties, EmptySeq
      <4>3. fed \in Nat
        BY TakenTyped DEF KInv
      <4>4. Head(pending_queue) = Taken + 1
        BY <4>2 DEF KInv, PendingOrder
      <4> QED
        BY <3>2, <4>2, <4>3, <4>4 DEF Taken
    <3>4. Head(pending_queue) \in Samples
      <4>1. pending_queue \in Seq(Samples \cup {DONE})
        BY DEF SInv, PTyped, FTyped
      <4>2. Head(pending_queue) \in Samples \cup {DONE}
        BY <3>2, <4>1, HeadTailProperties
      <4> QED
        BY <3>1, <4>2
    <3>5. TakenSamples' = TakenSamples + 1 /\ TakenSamples \in Nat
      <4>1. Taken \in Nat /\ TotalRolloutSteps \in Nat /\ TakenSamples \in Nat
        BY TakenTyped DEF KInv
      <4>2. Taken + 1 <= TotalRolloutSteps
        BY <3>3, <3>4, <4>1 DEF Samples
      <4> HIDE DEF Taken
      <4> QED
        BY <3>3, <4>1, <4>2 DEF TakenSamples
    <3>6. OfVersion' = OfVersion + 1
      <4>1. dropped_samples \in Nat /\ failures \in Nat /\ Cardinality(trained) \in Nat
            /\ Steps \in Nat
        BY HeldCounts, StepsTyped DEF SInv
      <4>2. Steps' = Steps
        BY <1>2 DEF Steps
      <4> HIDE DEF TakenSamples, Steps
      <4> QED
        BY <1>0, <1>2, <2>0, <3>5, <4>1, <4>2 DEF OfVersion
    <3>7. Load' <= Load + 1
      <4>1. InHand' \in {0, 1}
        BY DEF InHand
      <4> HIDE DEF ActiveCount, InHand
      <4> QED
        BY <1>0, <2>1, <2>2, <2>3, <4>1 DEF Load
    <3> QED
      BY <1>1, <3>2, <3>6, <3>7
  <2>4. CASE cancel_queue # <<>> /\ cancel_queue' = Tail(cancel_queue)
             /\ UNCHANGED <<pending_queue, staleness_samples>>
    <3>1. cancel_queue \in Seq(Samples)
      BY DEF SInv, PTyped, FTyped
    <3>2. Len(cancel_queue') = Len(cancel_queue) - 1
      BY <2>4, <3>1, HeadTailProperties
    <3>3. InHand' \in {0, 1}
      BY DEF InHand
    <3>4. Load' <= Load
      <4> HIDE DEF ActiveCount, InHand
      <4> QED
        BY <1>0, <2>1, <2>2, <3>2, <3>3 DEF Load
    <3>5. OfVersion' = OfVersion
      BY <1>2, <2>0, <2>4 DEF OfVersion, TakenSamples, Taken, Steps
    <3> QED
      BY <1>1, <2>4, <3>4, <3>5
  <2>5. CASE UNCHANGED <<hand, cancel_queue, pending_queue, staleness_samples>>
    <3>1. OfVersion' = OfVersion
      BY <1>2, <2>0, <2>5 DEF OfVersion, TakenSamples, Taken, Steps
    <3>2. Load' = Load /\ Load \in Nat
      BY <1>0, <2>1, <2>5 DEF Load, InHand
    <3> QED
      BY <1>1, <2>5, <3>1, <3>2
  <2> QED
    BY <1>4, <2>3, <2>4, <2>5 DEF ProcTake, ProcGot
<1>5. ASSUME NEW loop \in DrainLoops,
             ProcDrainTest(loop) \/ ProcDrainLocked(loop) \/ ProcDrainWake(loop)
      PROVE  UNCHANGED <<OfVersion, staleness_samples>> /\ Load' <= Load
  <2>1. UNCHANGED <<pending_queue, fed, staleness_samples, generating, putting, cancel_queue, hand>>
    BY <1>5 DEF ProcDrainTest, ProcDrainLocked, ProcDrainWake, feedVars, taskVars
  <2>2. UNCHANGED failed /\ (UNCHANGED finished \/ finished' = 0)
    <3>1. CASE ProcDrainTest(loop) \/ ProcDrainLocked(loop)
      BY <3>1 DEF ProcDrainTest, ProcDrainLocked, taskVars
    <3>2. CASE ProcDrainWake(loop)
      BY <1>0, <3>2 DEF ProcDrainWake, InLoop
    <3> QED
      BY <1>5, <3>1, <3>2
  <2>3. OfVersion' = OfVersion
    BY <1>2, <2>1, <2>2 DEF OfVersion, TakenSamples, Taken, Steps
  <2>4. Load' <= Load
    BY <1>0, <2>1, <2>2 DEF Load, ActiveCount, InHand
  <2> QED
    BY <2>1, <2>3, <2>4
<1>6. ASSUME NEW where \in {"sleep", "submit"},
             ProcEnter(where) \/ ProcEnterLocked(where) \/ ProcWoken(where)
      PROVE  UNCHANGED <<OfVersion, staleness_samples>> /\ Load' <= Load
  <2>1. UNCHANGED <<pending_queue, fed, failed, staleness_samples, putting, finished, cancel_queue>>
    BY <1>6 DEF ProcEnter, ProcEnterLocked, ProcWoken, feedVars, taskVars
  <2>2. \/ UNCHANGED <<hand, generating>>
        \/ generating' = generating \cup {hand} /\ hand' = NoSample /\ hand \in Samples
    BY <1>6 DEF ProcEnter, ProcEnterLocked, ProcWoken, UnderLock, taskVars, SInv, PTyped, HandHeld
  <2>3. OfVersion' = OfVersion
    BY <1>2, <2>1 DEF OfVersion, TakenSamples, Taken, Steps
  <2>4. CASE UNCHANGED <<hand, generating>>
    BY <1>0, <2>1, <2>3, <2>4 DEF Load, ActiveCount, InHand
  <2>5. CASE generating' = generating \cup {hand} /\ hand' = NoSample /\ hand \in Samples
    <3>1. /\ Cardinality(generating \cup {hand}) \in Nat
          /\ Cardinality(generating \cup {hand}) <= Cardinality(generating) + 1
      BY <1>0, AddCounts
    <3>2. InHand = 1 /\ InHand' = 0
      BY <2>5, SamplesFacts DEF InHand
    <3>3. Load' <= Load
      <4> HIDE DEF InHand
      <4> QED
        BY <1>0, <2>1, <2>5, <3>1, <3>2 DEF Load, ActiveCount
    <3> QED
      BY <2>1, <2>3, <3>3
  <2> QED
    BY <2>2, <2>4, <2>5
<1> QED
  BY <1>1, <1>3, <1>4, <1>5, <1>6 DEF ProcessorStep

\* A task takes its sample along; only a full queue loses one.
LEMMA TaskCountsToo ==
    ASSUME SInv, TInv, KInv, InLoop, NEW s \in Samples, TaskReturns(s) \/ TaskFails(s),
           UNCHANGED trainVars
    PROVE  /\ UNCHANGED <<pc, trainer, counted, staleness_samples>>
           /\ Load' <= Load \/ (servers_paused /\ generating # {})
           /\ \/ OfVersion' = OfVersion
              \/ OfVersion' = OfVersion - 1 /\ OfVersion > MaxRequiredSamples
PROOF
<1>0. /\ Cardinality(generating) \in Nat /\ Cardinality(putting) \in Nat
      /\ IsFiniteSet(generating) /\ IsFiniteSet(putting)
      /\ finished \in Nat /\ failed \in Nat
      /\ Len(cancel_queue) \in Nat /\ Len(queue) \in Nat /\ InHand \in {0, 1}
  BY OfVersionCounts, TaskCounts DEF SInv
<1>1. UNCHANGED <<pc, trainer, counted, staleness_samples, hand, pending_queue, fed, trained,
                  local_trigger_step>>
  BY DEF TaskReturns, TaskGenerated, TaskPut, TaskCancelled, TaskFails, procVars, feedVars,
     versionVars, trainVars
<1>2. InHand' = InHand /\ TakenSamples' = TakenSamples /\ Steps' = Steps
  BY <1>1 DEF InHand, TakenSamples, Taken, Steps
<1>3. /\ TakenSamples \in Nat /\ dropped_samples \in Nat /\ failures \in Nat
      /\ Cardinality(trained) \in Nat /\ Steps \in Nat
  BY TakenTyped, HeldCounts, StepsTyped DEF SInv, KInv
<1>4. ActiveCount' <= ActiveCount /\ ActiveCount' \in Int /\ ActiveCount \in Int
  BY <1>0, TaskEffects DEF SInv, ActiveCount
<1>5. CASE TaskCancelled(s)
  <2>1. servers_paused /\ generating # {} /\ UNCHANGED <<dropped_samples, failures, failed>>
    BY <1>5 DEF TaskCancelled, mqVars
  <2> QED
    BY <1>1, <1>2, <2>1 DEF OfVersion
<1>6. CASE TaskGenerated(s) \/ TaskPut(s) \/ TaskFails(s)
  <2>1. UNCHANGED cancel_queue
    BY <1>6 DEF TaskGenerated, TaskPut, TaskFails
  <2>2. Load' <= Load
    <3> HIDE DEF ActiveCount, InHand
    <3> QED
      BY <1>0, <1>2, <1>4, <2>1 DEF Load
  <2>3. CASE TaskGenerated(s)
    BY <1>1, <1>2, <2>2, <2>3 DEF TaskGenerated, mqVars, OfVersion
  <2>4. CASE TaskFails(s)
    <3>1. failed' = failed + 1 /\ failures' = failures + 1 /\ UNCHANGED dropped_samples
      BY <2>4 DEF TaskFails, mqVars
    <3>2. OfVersion' = OfVersion
      <4> HIDE DEF TakenSamples, Steps
      <4> QED
        BY <1>0, <1>1, <1>2, <1>3, <3>1 DEF OfVersion
    <3> QED
      BY <1>1, <2>2, <3>2
  <2>5. CASE TaskPut(s)
    <3>1. UNCHANGED <<failed, failures>> /\ s \in putting
          /\ dropped_samples' = IF MQ!QueueFull THEN dropped_samples + 1 ELSE dropped_samples
      BY <2>5 DEF TaskPut, MQ!PutSample
    <3>2. CASE ~MQ!QueueFull
      BY <1>1, <1>2, <2>2, <3>1, <3>2 DEF OfVersion
    <3>3. CASE MQ!QueueFull
      <4>1. Cardinality(putting) # 0
        BY <1>0, <3>1, FS_EmptySet
      <4>2. Len(queue) >= MaxRequiredSamples /\ MaxRequiredSamples \in Nat
        BY <3>3, RollouterAssumption DEF MQ!QueueFull
      <4>3. OfVersion > MaxRequiredSamples
        <5>1. OfVersion = InFlight + failed + Steps
              /\ InFlight = InHand + Cardinality(generating) + Cardinality(putting)
                               + Len(cancel_queue) + Len(queue)
                               + Cardinality(Arriving) + Cardinality(batch)
              /\ Cardinality(Arriving) \in Nat /\ Cardinality(batch) \in Nat
          BY OfVersionCounts
        <5>2. Cardinality(putting) >= 1 /\ Cardinality(generating) >= 0 /\ failed \in Nat
              /\ Steps \in Nat /\ InHand \in Nat /\ Len(cancel_queue) \in Nat /\ Len(queue) \in Nat
              /\ Cardinality(putting) \in Nat /\ Cardinality(generating) \in Nat
          BY <1>0, <1>3, <4>1
        <5>3. InFlight \in Nat /\ OfVersion \in Nat
          BY OfVersionCounts
        <5>4. \A a, b, c, d, e, f, g \in Nat :
                 c >= 1 => a + b + c + d + e + f + g > e
          OBVIOUS
        <5> HIDE DEF OfVersion, InFlight, InHand, Steps
        <5>5. InFlight > Len(queue)
          <6>1. InHand + Cardinality(generating) + Cardinality(putting)
                    + Len(cancel_queue) + Len(queue)
                    + Cardinality(Arriving) + Cardinality(batch) > Len(queue)
            BY <5>1, <5>2, <5>4
          <6> QED
            BY <5>1, <6>1
        <5>6. OfVersion > Len(queue)
          BY <5>1, <5>2, <5>3, <5>5
        <5> QED
          BY <4>2, <5>2, <5>3, <5>6
      <4>4. OfVersion' = OfVersion - 1
        <5>1. dropped_samples' = dropped_samples + 1
          BY <3>1, <3>3
        <5> HIDE DEF TakenSamples, Steps
        <5> QED
          BY <1>0, <1>1, <1>2, <1>3, <3>1, <5>1 DEF OfVersion
      <4> QED
        BY <1>1, <2>2, <4>3, <4>4
    <3> QED
      BY <3>2, <3>3
  <2> QED
    BY <1>6, <2>3, <2>4, <2>5
<1> QED
  BY <1>5, <1>6 DEF TaskReturns

\* What the other coroutines do to the counts: a pause forgets the tasks it has
\* gathered, an update counts, and resets with what it has counted.
LEMMA CoroutineCounts ==
    ASSUME SInv, TInv, KInv, InLoop, FeedSamples \/ CallStep \/ MonitorStep \/ MainStep,
           UNCHANGED trainVars
    PROVE  /\ UNCHANGED <<InHand, cancel_queue, trainer>>
           /\ UNCHANGED <<OfVersion, Load>> \/ PauseGathered
           /\ UNCHANGED counted \/ UpdateBegin
           /\ UNCHANGED staleness_samples \/ UpdateEnd
PROOF
<1>1. ~MainFinish
  BY DEF MainFinish, InLoop
<1>2. TakenSamples' = TakenSamples
  <2>1. UNCHANGED <<pending_queue, fed>> \/ FeedSamples
    BY DEF CallStep, CallQueues, PauseBegin, PauseCancel, PauseGathered, PauseEnd,
       UpdateBegin, UpdateEnd, ResumeBegin, ResumeEnd, MonitorStep, MonitorWake, MonitorLocked,
       MainStep, MainFinish, MainStop, feedVars
  <2>2. CASE FeedSamples
    <3>1. fed' # fed
      <4>1. fed \in 0..DONE /\ DONE \in Nat
        BY SamplesFacts DEF SInv, PTyped, FTyped
      <4> QED
        BY <2>2, <4>1, FeedAdvances DEF SInv
    <3>2. [Next]_vars
      BY <2>2 DEF Next, RollNext
    <3>3. Taken' = Taken
      BY <3>1, <3>2, OrderNextPreserves DEF MoveTake, KInv
    <3> QED
      BY <3>3 DEF TakenSamples
  <2> QED
    BY <2>1, <2>2 DEF TakenSamples, Taken
<1>3. UNCHANGED <<trained, local_trigger_step, trainer>>
  BY DEF trainVars
<1>4. UNCHANGED <<hand, cancel_queue, generating, putting, failures, dropped_samples>>
  <2>1. CASE FeedSamples \/ MonitorStep \/ MainStop
    BY <2>1 DEF FeedSamples, MonitorStep, MonitorWake, MonitorLocked, MainStop, procVars, taskVars,
       mqVars
  <2>2. CASE UpdateEnd
    BY <2>2 DEF UpdateEnd, MQ!PutValidate, MQ!queueVars, procVars, taskVars
  <2>3. CASE CallStep /\ ~UpdateEnd
    BY <2>3 DEF CallStep, CallQueues, PauseBegin, PauseCancel, PauseGathered, PauseEnd, UpdateBegin,
       ResumeBegin, ResumeEnd, procVars, taskVars, mqVars
  <2> QED
    BY <1>1, <2>1, <2>2, <2>3 DEF MainStep
<1>5. UNCHANGED <<finished, failed>> \/ PauseGathered
  BY DEF FeedSamples, CallStep, CallQueues, PauseBegin, PauseCancel, PauseEnd, UpdateBegin,
     UpdateEnd, ResumeBegin, ResumeEnd, MonitorStep, MonitorWake, MonitorLocked, MainStep,
     MainFinish, MainStop, taskVars
<1>6. UNCHANGED counted \/ UpdateBegin
  BY DEF FeedSamples, CallStep, CallQueues, PauseBegin, PauseCancel, PauseGathered, PauseEnd,
     UpdateEnd, ResumeBegin, ResumeEnd, MonitorStep, MonitorWake, MonitorLocked, MainStep,
     MainFinish, MainStop, versionVars
<1>7. UNCHANGED staleness_samples \/ UpdateEnd
  BY DEF FeedSamples, CallStep, CallQueues, PauseBegin, PauseCancel, PauseGathered, PauseEnd,
     UpdateBegin, ResumeBegin, ResumeEnd, MonitorStep, MonitorWake, MonitorLocked, MainStep,
     MainFinish, MainStop
<1>8. UNCHANGED InHand
  BY <1>4 DEF InHand
<1>9. UNCHANGED <<finished, failed>> => UNCHANGED <<OfVersion, Load>>
  BY <1>2, <1>3, <1>4, <1>8 DEF OfVersion, Load, ActiveCount, Steps
<1> QED
  BY <1>3, <1>4, <1>5, <1>6, <1>7, <1>8, <1>9

\* What the trainer does to them: a step takes as many samples as it trains on.
LEMMA TrainerCounts ==
    ASSUME SInv, TInv, KInv, InLoop, TrainerStep
    PROVE  /\ UNCHANGED <<Load, counted, staleness_samples>>
           /\ UNCHANGED OfVersion \/ trainer' = "wait_last_valid"
PROOF
<1>1. UNCHANGED <<Load, counted, staleness_samples, fed, pending_queue, failed, failures>>
  BY TrainerLeavesRollouter DEF procVars, taskVars, feedVars, Load, ActiveCount, InHand
<1>2. TakenSamples' = TakenSamples
  BY <1>1 DEF TakenSamples, Taken
<1>3. ~FinalWait /\ ~FinalSync /\ ~ClearAndEnd
  BY LoopFacts DEF FinalWait, FinalSync, ClearAndEnd
<1>4. CASE TrainStep
  <2>1. UNCHANGED dropped_samples
    BY <1>4 DEF TrainStep, mqVars
  <2>2. CASE SyncDue(FALSE)
    BY <1>1, <1>4, <2>2 DEF TrainStep, TriggerParameterSync
  <2>3. CASE ~SyncDue(FALSE)
    <3>1. trained' = trained \cup batch /\ local_trigger_step' = local_trigger_step + 1
      BY <1>4, <2>3 DEF TrainStep, TriggerParameterSync
    <3>2. Cardinality(batch) = RequiredSamples
      BY <1>4 DEF TrainStep, TInv, BatchFills
    <3>3. trained \cap batch = {}
      <4>1. \A s \in trained \cap batch : In("trained", s) /\ In("batch", s) /\ s \in Samples
        BY DEF In, SInv, Placed
      <4> QED
        BY <4>1 DEF SInv, Placed, OnePlace, PlaceNames
    <3>4. IsFiniteSet(trained) /\ IsFiniteSet(batch) /\ Cardinality(trained) \in Nat
          /\ dropped_samples \in Nat /\ failures \in Nat
      BY HeldCounts DEF SInv
    <3>5. Cardinality(trained') = Cardinality(trained) + RequiredSamples
      <4>1. trained \in SUBSET Samples /\ batch \in SUBSET Samples
        BY DEF SInv, Placed
      <4>2. Cardinality(trained \cup batch) = Cardinality(trained) + Cardinality(batch)
        BY <3>3, <4>1, DisjointCounts
      <4> QED
        BY <3>1, <3>2, <4>2
    <3>6. Steps' = Steps + RequiredSamples
      <4>1. local_trigger_step * RequiredSamples = Steps + RequiredSamples
            /\ local_trigger_step \in Int
        BY StepsTyped
      <4>2. local_trigger_step' - 1 = local_trigger_step
        BY <3>1, <4>1
      <4> QED
        BY <4>1, <4>2 DEF Steps
    <3>7. OfVersion' = OfVersion
      <4>1. TakenSamples \in Nat /\ failed \in Nat /\ Steps \in Nat /\ RequiredSamples \in Nat
        BY TakenTyped, StepsTyped DEF KInv, SInv, PTyped, FTyped
      <4> HIDE DEF TakenSamples, Steps
      <4> QED
        BY <1>1, <1>2, <2>1, <3>4, <3>5, <3>6, <4>1 DEF OfVersion
    <3> QED
      BY <1>1, <3>7
  <2> QED
    BY <2>2, <2>3
<1>5. CASE ~TrainStep
  <2>1. UNCHANGED <<trained, local_trigger_step>>
    BY <1>3, <1>5 DEF TrainerStep, LogValidation, RequestSample, WakeTrainer, ReceiveSample,
       SyncPause, SyncTransfer, SyncReturn, trainVars
  <2>2. UNCHANGED dropped_samples
    BY <1>3, <1>5 DEF TrainerStep, LogValidation, RequestSample, WakeTrainer, ReceiveSample,
       SyncPause, SyncTransfer, SyncReturn, mqVars, MQ!GetValidate, MQ!GetSample,
       MQ!ResumeGetSample, MQ!ReturnSample, MQ!SleepUntilNotified, MQ!UpdateParamVersion,
       MQ!queueVars
  <2> QED
    BY <1>1, <1>2, <2>1, <2>2 DEF OfVersion, Steps
<1> QED
  BY <1>4, <1>5

\* From the time a pause has waited for the tasks to the time the update counts.
Gathered ==
    \/ pc["pause"] \in {"clear", "returned"}
    \/ trainer = "sync_transfer"
    \/ pc["update"] \in {"called", "lock"} /\ ~Syncing

Enough == OfVersion >= VersionQuota

\* What an update leaves the count at: the queue counts twice if it fills
\* between the two answers, which staleness_threshold 0 leaves no time for.
Allowance == OfVersion + (IF ThresholdZero THEN 0 ELSE OfVersion)

\* What a new version starts with is there, unless the trainer has all it needs:
\* what the update is going to count, what it has counted, and what it has set.
CountsReal ==
    /\ Gathered => Enough \/ Load <= OfVersion
    /\ pc["update"] = "size" /\ ~Syncing => Enough \/ counted <= OfVersion
    /\ pc["update"] = "idle" /\ ~Syncing => Enough \/ staleness_samples <= Allowance

LEMMA CountsTyped ==
    ASSUME SInv, TInv, KInv, InLoop
    PROVE  /\ OfVersion \in Nat /\ Load \in Nat /\ Allowance \in Nat /\ VersionQuota \in Nat
           /\ VersionQuota <= MaxRequiredSamples /\ MaxRequiredSamples \in Nat
           /\ staleness_samples \in Nat /\ counted \in Nat
           /\ OfVersion <= Allowance
           /\ ~ThresholdZero => Allowance = OfVersion + OfVersion
PROOF
<1>1. OfVersion \in Nat /\ VersionQuota \in Nat
  BY OfVersionCounts, StepsTyped
<1>2. Load \in Nat
  <2>1. ActiveCount \in Nat /\ InHand \in Nat /\ Len(cancel_queue) \in Nat
    <3>1. ActiveCount \in Nat
      BY ActiveCountTyped DEF SInv, PTyped
    <3>2. InHand \in Nat
      BY DEF InHand
    <3>3. Len(cancel_queue) \in Nat
      BY LoopFacts
    <3> QED
      BY <3>1, <3>2, <3>3
  <2> HIDE DEF ActiveCount, InHand
  <2> QED
    BY <2>1 DEF Load
<1>3. VersionQuota <= MaxRequiredSamples /\ MaxRequiredSamples \in Nat
  BY FullyAsyncAssumption, RollouterAssumption DEF VersionQuota
<1>4. staleness_samples \in Nat /\ counted \in Nat
  BY DEF SInv, PTyped, FTyped
<1> HIDE DEF OfVersion, VersionQuota, Load
<1>5. Allowance \in Nat /\ OfVersion <= Allowance
      /\ (~ThresholdZero => Allowance = OfVersion + OfVersion)
  BY <1>1 DEF Allowance
<1> QED
  BY <1>1, <1>2, <1>3, <1>4, <1>5

\* Nothing that matters to CountsReal has happened.
LEMMA CountsCarry ==
    ASSUME CountsReal, SInv, TInv, KInv, InLoop,
           OfVersion' = OfVersion \/ OfVersion' >= VersionQuota,
           Gathered' => (Gathered /\ Load' <= Load) \/ Load' <= OfVersion',
           pc'["update"] = "size" /\ ~Syncing' =>
              (pc["update"] = "size" /\ ~Syncing /\ UNCHANGED counted) \/ Enough'
                 \/ counted' <= OfVersion',
           pc'["update"] = "idle" /\ ~Syncing' =>
              (pc["update"] = "idle" /\ ~Syncing /\ UNCHANGED staleness_samples) \/ Enough'
                 \/ staleness_samples' <= Allowance',
           Load' \in Int
    PROVE  CountsReal'
PROOF
<1>1. /\ OfVersion \in Nat /\ Load \in Nat /\ VersionQuota \in Nat
      /\ staleness_samples \in Nat /\ counted \in Nat
  BY CountsTyped
<1>2. VersionQuota' = VersionQuota
  BY DEF VersionQuota
<1>3. OfVersion' = OfVersion => (Enough' <=> Enough) /\ Allowance' = Allowance
  BY <1>2 DEF Enough, Allowance
<1>4. OfVersion' >= VersionQuota => Enough'
  BY <1>2 DEF Enough
<1>5. CASE OfVersion' = OfVersion
  <2>1. Gathered' => Enough' \/ Load' <= OfVersion'
    <3> HIDE DEF Gathered, Enough, Load, OfVersion
    <3> QED
      BY <1>1, <1>3, <1>5 DEF CountsReal
  <2>2. pc'["update"] = "size" /\ ~Syncing' => Enough' \/ counted' <= OfVersion'
    <3> HIDE DEF Gathered, Enough, Load, OfVersion, Syncing
    <3> QED
      BY <1>1, <1>3, <1>5 DEF CountsReal
  <2>3. pc'["update"] = "idle" /\ ~Syncing' => Enough' \/ staleness_samples' <= Allowance'
    <3> HIDE DEF Gathered, Enough, Load, OfVersion, Syncing, Allowance
    <3> QED
      BY <1>1, <1>3, <1>5 DEF CountsReal
  <2> QED
    BY <2>1, <2>2, <2>3 DEF CountsReal
<1>6. CASE OfVersion' >= VersionQuota
  BY <1>4, <1>6 DEF CountsReal
<1> QED
  BY <1>5, <1>6

\* With staleness_threshold 0 a synchronization finds nothing in flight, and
\* nothing is until its update is over.
LEMMA NothingInFlight ==
    ASSUME ThresholdZero, EInv, InLoop, Syncing \/ pc["update"] # "idle"
    PROVE  /\ generating = {} /\ putting = {} /\ hand \notin Samples
           /\ Len(queue) = 0 /\ Len(cancel_queue) = 0 /\ batch = {} /\ Arriving = {}
PROOF
<1>1. SInv /\ TInv /\ KInv
  BY DEF EInv
<1>2. InFlight = 0
  <2>1. after_sync = "log"
    BY <1>1, LoopFacts
  <2> QED
    BY <2>1, FlightWithinQuota
<1>3. /\ InFlight = InHand + Cardinality(generating) + Cardinality(putting)
                       + Len(cancel_queue) + Len(queue)
                       + Cardinality(Arriving) + Cardinality(batch)
      /\ Len(cancel_queue) \in Nat /\ Len(queue) \in Nat
  BY <1>1, LoopFacts, OfVersionCounts
<1>7. /\ Cardinality(generating) \in Nat /\ Cardinality(putting) \in Nat
      /\ Cardinality(Arriving) \in Nat /\ Cardinality(batch) \in Nat
      /\ IsFiniteSet(generating) /\ IsFiniteSet(putting) /\ IsFiniteSet(batch)
  BY <1>1, HeldCounts DEF SInv
<1>8. InHand \in Nat
  BY DEF InHand
<1>4. \A a, b, c, d, e, f, g \in Nat : a + b + c + d + e + f + g = 0 =>
         a = 0 /\ b = 0 /\ c = 0 /\ d = 0 /\ e = 0 /\ f = 0 /\ g = 0
  OBVIOUS
<1>5. /\ InHand = 0 /\ Cardinality(generating) = 0 /\ Cardinality(putting) = 0
      /\ Len(cancel_queue) = 0 /\ Len(queue) = 0
      /\ Cardinality(Arriving) = 0 /\ Cardinality(batch) = 0
  <2> HIDE DEF InFlight, InHand
  <2> QED
    BY <1>2, <1>3, <1>4, <1>7, <1>8
<1>6. Arriving = {}
  <2>1. IsFiniteSet(Arriving)
    BY <1>1, HeldCounts, SamplesFacts DEF SInv
  <2> QED
    BY <1>5, <2>1, FS_EmptySet
<1> QED
  BY <1>5, <1>6, <1>7, FS_EmptySet DEF InHand

LEMMA LoadTyped ==
    ASSUME SInv, [Next]_vars
    PROVE  Load' \in Nat
PROOF
<1>1. FTyped'
  BY SNextPreserves DEF SInv, PTyped
<1>2. /\ Cardinality(generating)' \in Nat /\ Cardinality(putting)' \in Nat
      /\ finished' \in Nat /\ failed' \in Nat
  BY <1>1, SamplesFacts DEF FTyped
<1>3. Len(cancel_queue)' \in Nat
  <2>1. cancel_queue' \in Seq(Samples)
    BY <1>1 DEF FTyped
  <2> QED
    BY <2>1, LenProperties
<1>4. InHand' \in Nat
  BY DEF InHand
<1>5. ActiveCount' \in Nat
  BY <1>2 DEF ActiveCount
<1> HIDE DEF ActiveCount, InHand
<1> QED
  BY <1>3, <1>4, <1>5 DEF Load

LEMMA ProcessorReal ==
    ASSUME SInv, TInv, KInv, InLoop, CountsReal, ProcessorStep, UNCHANGED trainVars, InLoop'
    PROVE  CountsReal'
PROOF
<1>1. Load' \in Nat
  BY LoadTyped DEF Next, RollNext
<1>2. UNCHANGED <<pc, trainer, counted>>
  BY ProcessorCounts
<1>3. Gathered' = Gathered /\ Syncing' = Syncing
  BY <1>2 DEF Gathered, Syncing
<1>4. CASE UNCHANGED <<OfVersion, staleness_samples>> /\ Load' <= Load
  <2> HIDE DEF Gathered, Syncing, Load, OfVersion
  <2> QED
    BY <1>1, <1>2, <1>3, <1>4, CountsCarry
<1>5. CASE /\ OfVersion' = OfVersion + 1 /\ staleness_samples' = staleness_samples + 1
           /\ Load' <= Load + 1
  <2>1. /\ OfVersion \in Nat /\ Load \in Nat /\ VersionQuota \in Nat /\ VersionQuota' = VersionQuota
        /\ staleness_samples \in Nat /\ counted \in Nat /\ Allowance \in Nat
    BY CountsTyped DEF VersionQuota
  <2>2. Allowance' >= Allowance + 1 /\ Allowance' \in Nat
    <3> HIDE DEF OfVersion
    <3> QED
      BY <1>5, <2>1 DEF Allowance
  <2>3. Enough => Enough'
    <3> HIDE DEF OfVersion, VersionQuota
    <3> QED
      BY <1>5, <2>1 DEF Enough
  <2> HIDE DEF OfVersion, Load, Allowance, Enough, Gathered, Syncing
  <2>4. Gathered' => Enough' \/ Load' <= OfVersion'
    BY <1>1, <1>3, <1>5, <2>1, <2>3 DEF CountsReal
  <2>5. pc'["update"] = "size" /\ ~Syncing' => Enough' \/ counted' <= OfVersion'
    BY <1>2, <1>3, <1>5, <2>1, <2>3 DEF CountsReal
  <2>6. pc'["update"] = "idle" /\ ~Syncing' => Enough' \/ staleness_samples' <= Allowance'
    BY <1>2, <1>3, <1>5, <2>1, <2>2, <2>3 DEF CountsReal
  <2> QED
    BY <2>4, <2>5, <2>6 DEF CountsReal
<1> QED
  BY <1>4, <1>5, ProcessorCounts

LEMMA TaskReal ==
    ASSUME SInv, TInv, KInv, InLoop, CountsReal, TaskStep, UNCHANGED trainVars,
           servers_paused /\ generating # {} => ~Gathered
    PROVE  CountsReal'
PROOF
<1> PICK s \in Samples : TaskReturns(s) \/ TaskFails(s)
  BY DEF TaskStep
<1>1. Load' \in Nat
  BY LoadTyped DEF Next, RollNext
<1>2. UNCHANGED <<pc, trainer, counted, staleness_samples>>
  BY TaskCountsToo
<1>3. Gathered' = Gathered /\ Syncing' = Syncing
  BY <1>2 DEF Gathered, Syncing
<1>4. Gathered' => Gathered /\ Load' <= Load
  <2> HIDE DEF Gathered, Load
  <2> QED
    BY <1>3, TaskCountsToo
<1>5. OfVersion' = OfVersion \/ OfVersion' >= VersionQuota
  <2>1. OfVersion' = OfVersion \/ (OfVersion' = OfVersion - 1 /\ OfVersion > MaxRequiredSamples)
    BY TaskCountsToo
  <2>2. /\ OfVersion \in Nat /\ VersionQuota \in Nat
        /\ VersionQuota <= MaxRequiredSamples /\ MaxRequiredSamples \in Nat
    BY CountsTyped
  <2> HIDE DEF OfVersion, VersionQuota
  <2> QED
    BY <2>1, <2>2
<1> HIDE DEF Gathered, Syncing, Load, OfVersion
<1> QED
  BY <1>1, <1>2, <1>3, <1>4, <1>5, CountsCarry

\* With no task left, what an update would count is in flight.
LEMMA LoadInFlight ==
    ASSUME SInv, TInv, KInv, InLoop
    PROVE  /\ Len(cancel_queue) + InHand <= InFlight
           /\ Len(queue) <= InFlight
           /\ ActiveCount = 0 => Load <= OfVersion
PROOF
<1>1. /\ OfVersion = InFlight + failed + Steps
      /\ InFlight = InHand + Cardinality(generating) + Cardinality(putting)
                       + Len(cancel_queue) + Len(queue)
                       + Cardinality(Arriving) + Cardinality(batch)
      /\ failed \in Nat /\ Steps \in Nat
      /\ Len(cancel_queue) \in Nat /\ Len(queue) \in Nat
      /\ InFlight \in Nat /\ OfVersion \in Nat
  BY LoopFacts, OfVersionCounts
<1>2. /\ Cardinality(generating) \in Nat /\ Cardinality(putting) \in Nat
      /\ Cardinality(Arriving) \in Nat /\ Cardinality(batch) \in Nat
  BY HeldCounts DEF SInv
<1>3. InHand \in Nat
  BY DEF InHand
<1>4. \A a, b, c, d, e, f, g \in Nat :
         d + a <= a + b + c + d + e + f + g /\ e <= a + b + c + d + e + f + g
  OBVIOUS
<1> HIDE DEF OfVersion, InFlight, InHand, Steps
<1>5. /\ Len(cancel_queue) + InHand <= InFlight
      /\ Len(queue) <= InFlight
  BY <1>1, <1>2, <1>3, <1>4
<1>6. ASSUME ActiveCount = 0 PROVE Load <= OfVersion
  <2>1. Load = Len(cancel_queue) + InHand
    <3> HIDE DEF ActiveCount
    <3> QED
      BY <1>1, <1>3, <1>6 DEF Load
  <2> HIDE DEF Load
  <2> QED
    BY <1>1, <1>3, <1>5, <2>1
<1> QED
  BY <1>5, <1>6

LEMMA PauseReal ==
    ASSUME SInv, TInv, KInv, InLoop, CallsInSync, CountsReal, UNCHANGED trainVars,
           PauseBegin \/ PauseCancel \/ PauseGathered \/ PauseEnd
    PROVE  CountsReal'
PROOF
<1> USE DEF SInv, VInv, VTypes, Coroutines
<1>1. CallStep /\ Load' \in Nat
  BY LoadTyped DEF Next, RollNext, CallStep
<1>2. trainer = "sync_pause" /\ trainer' = "sync_pause"
  <2>1. pc["pause"] # "idle"
    BY DEF PauseBegin, PauseCancel, PauseGathered, PauseEnd, Entered
  <2> QED
    BY <2>1 DEF CallsInSync, trainVars
<1>3. Syncing' /\ (Gathered' => pc'["pause"] \in {"clear", "returned"})
  BY <1>2 DEF Syncing, Gathered
<1>4. CASE PauseGathered
  <2>1. ActiveCount' = 0
    BY <1>4, FS_EmptySet DEF PauseGathered, ActiveCount
  <2>2. Load' = Len(cancel_queue) + InHand
    <3>1. UNCHANGED <<cancel_queue, hand>>
      BY <1>4 DEF PauseGathered, procVars
    <3>2. InHand' = InHand /\ InHand \in Nat /\ Len(cancel_queue) \in Nat
      BY <3>1, LoopFacts DEF InHand
    <3> HIDE DEF ActiveCount, InHand
    <3> QED
      BY <2>1, <3>1, <3>2 DEF Load
  <2>3. OfVersion' = OfVersion - failed
    <3>1. TakenSamples' = TakenSamples /\ Steps' = Steps /\ failed' = 0
          /\ UNCHANGED <<dropped_samples, failures, trained>>
      BY <1>4 DEF PauseGathered, feedVars, TakenSamples, Taken, Steps, trainVars, mqVars
    <3>2. TakenSamples \in Nat /\ Steps \in Nat /\ failed \in Nat
      BY TakenTyped, StepsTyped DEF KInv, PTyped, FTyped
    <3>3. dropped_samples \in Nat /\ failures \in Nat /\ Cardinality(trained) \in Nat
      BY HeldCounts
    <3> HIDE DEF TakenSamples, Steps
    <3> QED
      BY <3>1, <3>2, <3>3 DEF OfVersion
  <2>4. Load' <= OfVersion'
    <3>1. OfVersion = InFlight + failed + Steps /\ InFlight \in Nat /\ failed \in Nat
          /\ Steps \in Nat /\ Len(cancel_queue) + InHand <= InFlight
      BY OfVersionCounts, LoadInFlight
    <3>2. Len(cancel_queue) \in Nat /\ InHand \in Nat
      BY LoopFacts DEF InHand
    <3> HIDE DEF OfVersion, InFlight, Steps, InHand, Load
    <3> QED
      BY <2>2, <2>3, <3>1, <3>2
  <2> QED
    BY <1>3, <2>4 DEF CountsReal
<1>5. CASE PauseBegin \/ PauseCancel
  <2>1. UNCHANGED <<OfVersion, Load>>
    <3>1. ~PauseGathered
      <4>1. CASE PauseBegin
        BY <4>1 DEF PauseBegin, PauseGathered, Entered
      <4>2. CASE PauseCancel
        BY <4>2 DEF PauseCancel, PauseGathered
      <4> QED
        BY <1>5, <4>1, <4>2
    <3> QED
      BY <1>1, <3>1, CoroutineCounts
  <2>2. Gathered' => ActiveCount = 0
    <3>1. pc'["pause"] \in {GatherOrFinish, "cancel"}
      BY <1>5 DEF PauseBegin, PauseCancel, Goto
    <3> QED
      BY <1>3, <3>1 DEF GatherOrFinish
  <2>3. ActiveCount = 0 => Load <= OfVersion
    BY LoadInFlight
  <2> HIDE DEF Gathered, Syncing, OfVersion, Load, ActiveCount
  <2> QED
    BY <1>3, <2>1, <2>2, <2>3 DEF CountsReal
<1>6. CASE PauseEnd
  <2>1. pc["pause"] = "clear"
    BY <1>6 DEF PauseEnd
  <2>2. UNCHANGED <<OfVersion, Load>>
    <3>1. ~PauseGathered
      BY <2>1 DEF PauseGathered
    <3> QED
      BY <1>1, <3>1, CoroutineCounts
  <2>3. Gathered
    BY <2>1 DEF Gathered
  <2>4. VersionQuota' = VersionQuota
    BY DEF VersionQuota
  <2>5. Enough => Enough'
    <3> HIDE DEF OfVersion, VersionQuota
    <3> QED
      BY <2>2, <2>4 DEF Enough
  <2> HIDE DEF Gathered, Syncing, OfVersion, Load, Enough
  <2> QED
    BY <1>3, <2>2, <2>3, <2>5 DEF CountsReal
<1> QED
  BY <1>4, <1>5, <1>6

LEMMA UpdateReal ==
    ASSUME SInv, TInv, KInv, InLoop, ThresholdZero => TrainedExactly, CallsInSync, CountsReal,
           UNCHANGED trainVars, UpdateBegin \/ UpdateEnd
    PROVE  CountsReal'
PROOF
<1> USE DEF SInv, VInv, VTypes, Coroutines
<1>1. CallStep /\ Load' \in Nat
  BY LoadTyped DEF Next, RollNext, CallStep
<1>2. UNCHANGED <<trainer, pc["pause"]>> /\ Syncing' = Syncing
  BY DEF trainVars, Syncing, UpdateBegin, UpdateEnd, Goto
<1>3. trainer \notin {"sync_pause", "sync_transfer"} /\ pc["pause"] = "idle"
  <2>1. pc["update"] # "idle"
    BY DEF UpdateBegin, UpdateEnd, Entered
  <2> QED
    BY <2>1 DEF CallsInSync, OneSyncAtATime, LastUpdateDone
<1>4. UNCHANGED <<OfVersion, Load>> /\ ~Gathered'
  <2>1. ~PauseGathered
    BY <1>3 DEF PauseGathered
  <2>2. pc'["update"] \in {"size", "idle"}
    BY DEF UpdateBegin, UpdateEnd, Goto
  <2> QED
    BY <1>1, <1>2, <1>3, <2>1, <2>2, CoroutineCounts DEF Gathered
<1>5. CASE UpdateBegin
  <2>1. pc["update"] \in {"called", "lock"} /\ pc'["update"] = "size"
        /\ counted' = ActiveCount + Len(cancel_queue)
    BY <1>5 DEF UpdateBegin, Entered, Goto
  <2>2. ~Syncing => Enough \/ Load <= OfVersion
    BY <2>1 DEF Gathered, CountsReal
  <2>3. counted' <= Load /\ counted' \in Nat
    <3>1. ActiveCount \in Nat
      BY ActiveCountTyped DEF PTyped
    <3>2. InHand \in Nat
      BY DEF InHand
    <3>3. Len(cancel_queue) \in Nat
      BY LoopFacts
    <3> HIDE DEF ActiveCount, InHand
    <3> QED
      BY <2>1, <3>1, <3>2, <3>3 DEF Load
  <2>4. OfVersion \in Nat /\ Load \in Nat
    BY CountsTyped
  <2> HIDE DEF Gathered, Syncing, OfVersion, Load
  <2>5. pc'["update"] = "size" /\ ~Syncing' => Enough \/ counted' <= OfVersion'
    BY <1>2, <1>4, <2>2, <2>3, <2>4
  <2>6. Enough => OfVersion' >= VersionQuota
    BY <1>4 DEF Enough
  <2> QED
    BY <1>4, <2>1, <2>5, <2>6 DEF CountsReal, Enough, VersionQuota
<1>6. CASE UpdateEnd
  <2>1. pc["update"] = "size" /\ pc'["update"] = "idle"
        /\ staleness_samples' = counted + Len(queue)
    BY <1>6 DEF UpdateEnd, Goto, StalenessAfterUpdate
  <2>2. ~Syncing => Enough \/ counted <= OfVersion
    BY <2>1 DEF CountsReal
  <2>3. ThresholdZero => Len(queue) = 0
    BY <2>1, NothingInFlight DEF EInv
  <2>4. Len(queue) <= OfVersion /\ Len(queue) \in Nat /\ counted \in Nat
    <3>1. OfVersion = InFlight + failed + Steps /\ InFlight \in Nat /\ failed \in Nat
          /\ Steps \in Nat /\ Len(queue) <= InFlight /\ Len(queue) \in Nat
      BY LoopFacts, OfVersionCounts, LoadInFlight
    <3>2. counted \in Nat
      BY CountsTyped
    <3> HIDE DEF OfVersion, InFlight, Steps
    <3> QED
      BY <3>1, <3>2
  <2>5. OfVersion \in Nat /\ Allowance \in Nat /\ OfVersion <= Allowance
        /\ (~ThresholdZero => Allowance = OfVersion + OfVersion)
    BY CountsTyped
  <2>6. Allowance' = Allowance
    BY <1>4 DEF Allowance
  <2> HIDE DEF Gathered, Syncing, OfVersion, Load, Allowance, ThresholdZero
  <2>7. ~Syncing' => Enough \/ staleness_samples' <= Allowance'
    BY <1>2, <2>1, <2>2, <2>3, <2>4, <2>5, <2>6
  <2>8. Enough => OfVersion' >= VersionQuota
    BY <1>4 DEF Enough
  <2> QED
    BY <1>4, <2>1, <2>7, <2>8 DEF CountsReal, Enough, VersionQuota
<1> QED
  BY <1>5, <1>6

\* The other steps of the coroutines leave it all alone.
LEMMA CallReal ==
    ASSUME SInv, TInv, KInv, InLoop, ThresholdZero => TrainedExactly, CallsInSync, CountsReal,
           UNCHANGED trainVars, FeedSamples \/ CallStep \/ MonitorStep \/ MainStep
    PROVE  CountsReal'
PROOF
<1> USE DEF SInv, VInv, VTypes, Coroutines
<1>1. Load' \in Nat
  BY LoadTyped DEF Next, RollNext
<1>2. CASE PauseBegin \/ PauseCancel \/ PauseGathered \/ PauseEnd
  BY <1>2, PauseReal
<1>3. CASE UpdateBegin \/ UpdateEnd
  BY <1>3, UpdateReal
<1>4. CASE /\ ~PauseBegin /\ ~PauseCancel /\ ~PauseGathered /\ ~PauseEnd
           /\ ~UpdateBegin /\ ~UpdateEnd
  <2>1. UNCHANGED <<OfVersion, Load, counted, staleness_samples, trainer>>
    BY <1>4, CoroutineCounts
  <2>2. Syncing' = Syncing
    BY <2>1 DEF Syncing
  <2>3. /\ pc'["pause"] = pc["pause"] \/ (pc["pause"] = "called" /\ pc'["pause"] = "lock")
        /\ pc'["update"] = pc["update"] \/ (pc["update"] = "called" /\ pc'["update"] = "lock")
    <3>1. CASE FeedSamples \/ MonitorStep \/ MainStep
      BY <3>1, RollouterKeepsCalls DEF callState
    <3>2. ASSUME NEW c \in {"pause", "update", "resume", "main"}, CallQueues(c)
          PROVE  /\ pc'["pause"] = pc["pause"] \/ (pc["pause"] = "called" /\ pc'["pause"] = "lock")
                 /\ pc'["update"] = pc["update"]
                      \/ (pc["update"] = "called" /\ pc'["update"] = "lock")
      BY <3>2 DEF CallQueues, Goto
    <3>3. CASE ResumeBegin \/ ResumeEnd
      BY <3>3 DEF ResumeBegin, ResumeEnd, ResumeGeneration, Goto
    <3> QED
      BY <1>4, <3>1, <3>2, <3>3 DEF CallStep
  <2>4. Gathered' => Gathered
    BY <2>1, <2>2, <2>3 DEF Gathered
  <2>5. pc'["update"] \in {"size", "idle"} => pc["update"] = pc'["update"]
    BY <2>3
  <2>6. Load' <= Load
    <3>1. Load \in Nat
      BY CountsTyped
    <3> HIDE DEF Load
    <3> QED
      BY <2>1, <3>1
  <2> HIDE DEF Gathered, Syncing, OfVersion, Load
  <2> QED
    BY <1>1, <2>1, <2>2, <2>4, <2>5, <2>6, CountsCarry
<1> QED
  BY <1>2, <1>3, <1>4

LEMMA TrainerReal ==
    ASSUME SInv, TInv, KInv, InLoop, CallsInSync, CountsReal, TrainerStep
    PROVE  CountsReal'
PROOF
<1> USE DEF SInv, VInv, VTypes, Coroutines
<1>1. UNCHANGED <<Load, counted, staleness_samples>>
      /\ (UNCHANGED OfVersion \/ trainer' = "wait_last_valid")
  BY TrainerCounts
<1>2. Load' <= Load /\ Load' \in Nat
  <2>1. Load \in Nat
    BY CountsTyped
  <2> HIDE DEF Load
  <2> QED
    BY <1>1, <2>1
<1>3. ~FinalWait /\ ~FinalSync /\ ~ClearAndEnd /\ after_sync = "log"
  BY LoopFacts DEF FinalWait, FinalSync, ClearAndEnd
<1>4. CASE trainer' = "wait_last_valid"
  <2>1. UNCHANGED pc /\ pc["pause"] = "idle"
    BY <1>3, <1>4 DEF TrainerStep, LogValidation, RequestSample, WakeTrainer, ReceiveSample,
       TrainStep, SyncPause, SyncTransfer, SyncReturn, rollVars, trainVars, CallsInSync,
       MQ!ResumeGetSample, MQ!Outstanding, QTyped
  <2> QED
    BY <1>4, <2>1 DEF CountsReal, Gathered, Syncing
<1>5. CASE trainer' # "wait_last_valid"
  <2>1. UNCHANGED OfVersion
    BY <1>1, <1>5
  <2>2. CASE SyncPause
    BY <2>2 DEF SyncPause, Goto, CountsReal, Gathered, Syncing
  <2>3. CASE SyncTransfer
    <3>1. Gathered /\ Gathered' /\ Syncing'
      BY <2>3 DEF SyncTransfer, Gathered, Syncing
    <3> HIDE DEF Gathered, Syncing, OfVersion, Load
    <3> QED
      BY <1>2, <2>1, <3>1, CountsCarry
  <2>4. CASE SyncReturn
    <3>1. Gathered /\ pc'["update"] = "called"
      BY <2>4 DEF SyncReturn, Gathered
    <3> HIDE DEF Gathered, Syncing, OfVersion, Load
    <3> QED
      BY <1>2, <2>1, <3>1, CountsCarry
  <2>5. CASE ~SyncPause /\ ~SyncTransfer /\ ~SyncReturn
    <3>1. LogValidation \/ RequestSample \/ WakeTrainer \/ ReceiveSample \/ TrainStep
      BY <1>3, <2>5 DEF TrainerStep
    <3>2. ~Syncing
      BY <3>1 DEF LogValidation, RequestSample, WakeTrainer, ReceiveSample, TrainStep, Syncing,
         MQ!ResumeGetSample, MQ!Outstanding, QTyped
    <3>4. UNCHANGED pc /\ trainer' \notin {"sync_pause", "sync_transfer"}
      BY <3>1, <3>2, TrainingKeepsCalls DEF Syncing
    <3>3. Gathered' => Gathered
      BY <1>5, <3>2, <3>4 DEF Gathered, Syncing
    <3> HIDE DEF Gathered, Syncing, OfVersion, Load
    <3> QED
      BY <1>1, <1>2, <2>1, <3>2, <3>3, <3>4, CountsCarry
  <2> QED
    BY <2>2, <2>3, <2>4, <2>5
<1> QED
  BY <1>4, <1>5

LEMMA CountsNextPreserve ==
    ASSUME SInv, TInv, KInv, ThresholdZero => TrainedExactly, CallsInSync,
           ThresholdZero \/ NotInterrupted, InLoop => CountsReal, [Next]_vars
    PROVE  InLoop' => CountsReal'
PROOF
<1> SUFFICES ASSUME InLoop' PROVE CountsReal'
  OBVIOUS
<1>1. InLoop /\ CountsReal
  BY LoopLeft
<1>2. servers_paused /\ generating # {} => ~Gathered
  <2>1. CASE NotInterrupted
    BY <2>1 DEF NotInterrupted
  <2>2. CASE ThresholdZero
    <3>1. generating # {} => ~Syncing /\ pc["update"] = "idle"
      BY <1>1, <2>2, NothingInFlight DEF EInv
    <3> QED
      BY <3>1 DEF Gathered, Syncing, CallsInSync
  <2> QED
    BY <2>1, <2>2
<1>3. CASE ProcessorStep /\ UNCHANGED trainVars
  BY <1>1, <1>3, ProcessorReal
<1>4. CASE TaskStep /\ UNCHANGED trainVars
  BY <1>1, <1>2, <1>4, TaskReal
<1>5. CASE (FeedSamples \/ CallStep \/ MonitorStep \/ MainStep) /\ UNCHANGED trainVars
  BY <1>1, <1>5, CallReal
<1>6. CASE TrainerStep
  BY <1>1, <1>6, TrainerReal
<1>7. CASE UNCHANGED vars
  <2>1. UNCHANGED <<Gathered, Syncing, OfVersion, Load, pc, counted, staleness_samples>>
    BY <1>7 DEF vars, rollVars, mqVars, trainVars, Gathered, Syncing, OfVersion, TakenSamples,
       Taken, Steps, Load, ActiveCount, InHand
  <2>2. UNCHANGED <<VersionQuota, Allowance>>
    BY <2>1 DEF VersionQuota, Allowance
  <2> HIDE DEF Gathered, Syncing, OfVersion, Load, VersionQuota, Allowance
  <2> QED
    BY <1>1, <2>1, <2>2 DEF CountsReal, Enough
<1> QED
  BY <1>3, <1>4, <1>5, <1>6, <1>7 DEF Next, RollNext, Ended

\* A processor asleep for its quota, with nothing left of what it produced,
\* would have counted samples that are not there.
LEMMA CountedIsThere ==
    ASSUME SInv, TInv, KInv, AsleepPaused, SleepsOnEmpty, InLoop => CountsReal,
           InLoop => cancel_queue = <<>>,
           ThresholdZero \/ MaxRequiredSamples >= 2 * VersionQuota - 1
    PROVE  NeverStalled
PROOF
<1> SUFFICES ASSUME Stalled PROVE FALSE
  BY DEF NeverStalled
<1>1. /\ trainer = "await" /\ waiting # {} /\ proc[1] = "cond" /\ ShouldPauseGeneration
      /\ pc["update"] = "idle" /\ pc["resume"] = "idle"
  BY DEF Stalled, LastUpdateDone
<1>2. ~Syncing /\ ~SyncUnderWay
  BY <1>1 DEF Syncing, SyncUnderWay
<1>3. paused /\ proc[2] = "sleep" /\ ActiveCount = 0
  BY <1>1, <1>2 DEF AsleepPaused
<1>4. InLoop /\ CountsReal
  BY <1>1, <1>3 DEF InLoop
<1>5. hand \notin Samples /\ InHand = 0
  BY <1>3, SamplesFacts DEF SInv, PTyped, HandHeld, InHand
<1>6. queue = <<>> /\ Len(queue) = 0
  <2>1. <<>> \in Seq({}) /\ Len(<<>>) = 0
    BY EmptySeq
  <2> QED
    BY <1>1, <2>1 DEF SleepsOnEmpty
<1>7. Len(cancel_queue) = 0
  BY <1>4, EmptySeq
<1>8. Arriving = {}
  BY <1>1 DEF Arriving, MQ!Outstanding, SInv, QTyped
<1>9. /\ Cardinality(generating) = 0 /\ Cardinality(putting) = 0 /\ failed = 0
  <2>1. /\ Cardinality(generating) \in Nat /\ Cardinality(putting) \in Nat
        /\ finished \in Nat /\ failed \in Nat
    BY TaskCounts DEF SInv
  <2>2. \A a, b, c, d \in Nat : a + b + c + d = 0 => a = 0 /\ b = 0 /\ d = 0
    OBVIOUS
  <2> QED
    BY <1>3, <2>1, <2>2, ZenonT(20) DEF ActiveCount
<1>10. OfVersion = Cardinality(batch) + Steps /\ Cardinality(batch) \in Nat
  <2>1. /\ OfVersion = InFlight + failed + Steps
        /\ InFlight = InHand + Cardinality(generating) + Cardinality(putting)
                         + Len(cancel_queue) + Len(queue)
                         + Cardinality(Arriving) + Cardinality(batch)
        /\ Steps \in Nat /\ Cardinality(batch) \in Nat
    BY <1>4, OfVersionCounts
  <2>2. Cardinality(Arriving) = 0
    BY <1>8, FS_EmptySet
  <2> HIDE DEF OfVersion, InFlight, Steps, InHand
  <2> QED
    BY <1>5, <1>6, <1>7, <1>9, <2>1, <2>2
<1>11. Cardinality(batch) < RequiredSamples
  BY <1>1, <1>10, FullyAsyncAssumption DEF TInv, BatchFills
<1>12. OfVersion < VersionQuota /\ OfVersion \in Nat /\ VersionQuota \in Nat
  <2>1. Steps \in Nat /\ VersionQuota \in Nat /\ RequiredSamples \in Nat
        /\ Steps + RequiredSamples <= VersionQuota
    BY StepsTyped
  <2> HIDE DEF OfVersion, Steps, VersionQuota
  <2> QED
    BY <1>10, <1>11, <2>1
<1>13. staleness_samples >= MaxRequiredSamples
  BY <1>1, <1>6, RollouterAssumption DEF ShouldPauseGeneration
<1>14. staleness_samples <= Allowance
  <2>1. ~Enough
    <3> HIDE DEF OfVersion, VersionQuota
    <3> QED
      BY <1>12 DEF Enough
  <2> QED
    BY <1>1, <1>2, <1>4, <2>1 DEF CountsReal
<1>15. /\ staleness_samples \in Nat /\ MaxRequiredSamples \in Nat /\ Allowance \in Nat
       /\ VersionQuota <= MaxRequiredSamples
  BY <1>4, CountsTyped
<1>16. CASE ThresholdZero
  <2>1. Allowance = OfVersion
    <3> HIDE DEF OfVersion
    <3> QED
      BY <1>12, <1>16 DEF Allowance
  <2> HIDE DEF OfVersion, VersionQuota, Allowance
  <2> QED
    BY <1>12, <1>13, <1>14, <1>15, <2>1
<1>17. CASE ~ThresholdZero
  <2>1. Allowance = OfVersion + OfVersion
    BY <1>4, <1>17, CountsTyped
  <2>2. MaxRequiredSamples >= 2 * VersionQuota - 1
    BY <1>17
  <2> HIDE DEF OfVersion, VersionQuota, Allowance
  <2> QED
    BY <1>12, <1>13, <1>14, <1>15, <2>1, <2>2
<1> QED
  BY <1>16, <1>17

\* Rollouter and trainer never wait for each other, whatever fails.  With
\* staleness_threshold 0, with partial rollout or without, what is counted is
\* there; without partial rollout it is enough that the quota of generation is
\* nearly two of a version.  A Rollouter that pauses for its quota then leaves
\* the trainer enough for the next version, whose update sets the count back.
THEOREM NobodyStalls ==
    ASSUME ThresholdZero \/ (~PartialRollout /\ MaxRequiredSamples >= 2 * VersionQuota - 1)
    PROVE  Spec => []NeverStalled
PROOF
<1> DEFINE WInv == AsleepPaused /\ SleepsOnEmpty /\ (InLoop => CountsReal)
<1>1. Init => WInv
  <2> SUFFICES ASSUME Init PROVE WInv
    OBVIOUS
  <2>1. pc["pause"] = "idle" /\ pc["update"] = "idle" /\ pc["resume"] = "idle"
        /\ proc = <<"run", "top">> /\ trainer = "start" /\ waiting = {}
    BY DEF Init, RollInit
  <2>2. AsleepPaused /\ SleepsOnEmpty
    BY <2>1 DEF AsleepPaused, SleepsOnEmpty
  <2>3. CountsReal
    <3>1. ~Gathered
      BY <2>1 DEF Gathered
    <3>2. staleness_samples = 0 /\ OfVersion = 0
      <4>1. TakenSamples = 0
        <5>1. Len(pending_queue) = 0 /\ fed = 0
          BY EmptySeq DEF Init, RollInit
        <5> QED
          BY <5>1, RollouterAssumption DEF TakenSamples, Taken
      <4>2. Steps = 0
        BY FullyAsyncAssumption DEF Init, Steps
      <4>3. Cardinality(trained) = 0
        BY FS_EmptySet DEF Init
      <4>4. dropped_samples = 0 /\ failures = 0 /\ failed = 0 /\ staleness_samples = 0
        BY DEF Init, RollInit
      <4> HIDE DEF TakenSamples, Steps
      <4> QED
        BY <4>1, <4>2, <4>3, <4>4 DEF OfVersion
    <3>3. Allowance = 0
      <4> HIDE DEF OfVersion
      <4> QED
        BY <3>2 DEF Allowance
    <3> QED
      BY <2>1, <3>1, <3>2, <3>3 DEF CountsReal
  <2> QED
    BY <2>2, <2>3
<1>2. UInv /\ WInv /\ [Next]_vars => WInv'
  <2> SUFFICES ASSUME UInv, WInv, [Next]_vars PROVE WInv'
    OBVIOUS
  <2>1. AsleepPaused' /\ SleepsOnEmpty'
    BY AsleepNextPreserves, SleepsNextPreserve DEF UInv
  <2>2. ThresholdZero \/ NotInterrupted
    BY DEF UInv, Uninterrupted
  <2>3. InLoop' => CountsReal'
    BY <2>2, CountsNextPreserve DEF UInv
  <2> QED
    BY <2>1, <2>3
<1>3. UInv /\ WInv => NeverStalled
  <2> SUFFICES ASSUME UInv, WInv PROVE NeverStalled
    OBVIOUS
  <2>1. ThresholdZero \/ MaxRequiredSamples >= 2 * VersionQuota - 1
    OBVIOUS
  <2>2. InLoop => cancel_queue = <<>>
    <3>1. InLoop => after_sync = "log"
      BY LoopFacts DEF UInv
    <3> QED
      BY <3>1 DEF UInv, Uninterrupted, NoneToInterrupt, NotInterrupted
  <2> QED
    BY <2>1, <2>2, CountedIsThere DEF UInv
<1> HIDE DEF WInv
<1> QED
  BY <1>1, <1>2, <1>3, UninterruptedInvariant, PTL DEF Spec

=============================================================================
