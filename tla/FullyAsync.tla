------------------------------ MODULE FullyAsync ------------------------------
(***************************************************************************)
(* The fully asynchronous policy trainer: the Rollouter composed with the  *)
(* FullyAsyncTrainer (fully_async_trainer.py), the ParameterSynchronizer   *)
(* (param_sync.py) and the task runner (fully_async_main.py), which share  *)
(* the MessageQueue.                                                       *)
(*                                                                         *)
(* The trainer is sequential: every remote call it makes is a blocking     *)
(* ray.get, and so are the synchronizer's, which runs inside such a call.  *)
(* Only update_param_version and resume are left running behind it.        *)
(***************************************************************************)
EXTENDS Rollouter

CONSTANTS RequiredSamples,           \* required_samples: samples of one training step
          TriggerParameterSyncStep,  \* training steps between two weight synchronizations
          TestFreq                   \* config.rollout.test_freq, at least 1

ASSUME FullyAsyncAssumption ==
    /\ RequiredSamples \in Nat \ {0}
    /\ TriggerParameterSyncStep \in Nat \ {0}
    /\ TestFreq \in Nat \ {0}
    /\ MaxRequiredSamples >= RequiredSamples * TriggerParameterSyncStep

VARIABLES
    trainer,             \* where the trainer and the synchronizer it calls are
    after_sync,          \* where the trainer goes on after a synchronization
    batch,               \* queue_samples
    trained,             \* samples of completed training steps
    train_version,       \* the trainer's current_param_version
    local_trigger_step

trainVars == <<trainer, after_sync, batch, trained, train_version, local_trigger_step>>
vars == <<mqVars, rollVars, trainVars>>

Init ==
    /\ RollInit
    /\ trainer = "start"
    /\ after_sync = "log"
    /\ batch = {}
    /\ trained = {}
    /\ train_version = 0
    /\ local_trigger_step = 1

-----------------------------------------------------------------------------
(* FullyAsyncTrainer *)

\* _log_validation_data at the start of fit, after each step, and twice at
\* the end: at most one result is taken from val_queue.
LogValidation ==
    /\ trainer \in {"start", "log"}
    /\ MQ!GetValidate
    /\ trainer' = "request"
    /\ UNCHANGED <<rollVars, after_sync, batch, trained, train_version, local_trigger_step>>

RequestSample ==
    /\ trainer = "request"
    /\ MQ!GetSample("trainer")
    /\ trainer' = "await"
    /\ UNCHANGED <<rollVars, after_sync, batch, trained, train_version, local_trigger_step>>

WakeTrainer ==
    /\ MQ!ResumeGetSample("trainer")
    /\ UNCHANGED <<rollVars, trainVars>>

\* A sample joins the batch; the finish signal ends training, with whatever
\* the batch holds by then.
ReceiveSample ==
    /\ trainer = "await"
    /\ ~MQ!Outstanding("trainer")
    /\ \/ /\ reply["trainer"] = None
          /\ trainer' = "final_wait"
          /\ UNCHANGED batch
       \/ /\ reply["trainer"] \in Samples
          /\ batch' = batch \cup {reply["trainer"]}
          /\ trainer' = IF Cardinality(batch') = RequiredSamples THEN "step" ELSE "request"
    /\ UNCHANGED <<mqVars, rollVars, after_sync, trained, train_version, local_trigger_step>>

\* Mutant: a synchronization is one step late.
SyncDueLate(validate) == local_trigger_step > TriggerParameterSyncStep \/ validate

SyncDue(validate) == local_trigger_step >= TriggerParameterSyncStep \/ validate

\* _trigger_parameter_sync_after_step: count the step, or start a new version.
TriggerParameterSync(validate, next) ==
    \/ /\ ~SyncDue(validate)
       /\ local_trigger_step' = local_trigger_step + 1
       /\ trainer' = next
       /\ UNCHANGED <<train_version, after_sync>>
    \/ /\ SyncDue(validate)
       /\ train_version' = train_version + 1
       /\ local_trigger_step' = 1
       /\ after_sync' = next
       /\ trainer' = "wait_last_valid"

TrainStep ==
    /\ trainer = "step"
    /\ trained' = trained \cup batch
    /\ batch' = {}
    /\ TriggerParameterSync(FALSE, "log")
    /\ UNCHANGED <<mqVars, rollVars>>

\* Mutants: wait_last_valid does not wait; it waits for the update only.
NoWait == TRUE
UpdateDone == pc["update"] = "idle"

\* wait_last_valid has nothing left to wait for.
LastUpdateDone == pc["update"] = "idle" /\ pc["resume"] = "idle"

\* The final wait_last_valid and the validation result it waited for.
FinalWait ==
    /\ trainer \in {"final_wait", "final_validate"}
    /\ LastUpdateDone
    /\ MQ!GetValidate
    /\ trainer' = IF trainer = "final_wait" THEN "final_sync" ELSE "finished"
    /\ UNCHANGED <<rollVars, after_sync, batch, trained, train_version, local_trigger_step>>

\* A last synchronization, with validation, unless the last one was
\* validated and no step has been trained since.
FinalSync ==
    /\ trainer = "final_sync"
    /\ IF train_version % TestFreq # 0 \/ local_trigger_step > 1
       THEN TriggerParameterSync(TRUE, "final_validate")
       ELSE /\ trainer' = "finished"
            /\ UNCHANGED <<train_version, after_sync, local_trigger_step>>
    /\ UNCHANGED <<mqVars, rollVars, batch, trained>>

-----------------------------------------------------------------------------
(* ParameterSynchronizer *)

\* wait_last_valid has returned; sync_weights calls pause.
SyncPause ==
    /\ trainer = "wait_last_valid"
    /\ LastUpdateDone
    /\ pc["pause"] = "idle"
    /\ Goto("pause", "called")
    /\ trainer' = "sync_pause"
    /\ UNCHANGED <<mqVars, procVars, lock, feedVars, taskVars, cancel_queue, staleness_samples,
                   flagVars, versionVars, after_sync, batch, trained, train_version,
                   local_trigger_step>>

\* The Rollouter is paused: the queue learns the version and the transfer begins.
SyncTransfer ==
    /\ trainer = "sync_pause"
    /\ pc["pause"] = "returned"
    /\ MQ!UpdateParamVersion(train_version)
    /\ Goto("pause", "idle")
    /\ weights' = Loading
    /\ trainer' = "sync_transfer"
    /\ UNCHANGED <<procVars, lock, feedVars, taskVars, cancel_queue, staleness_samples, flagVars,
                   current_param_version, counted, servers_paused, after_sync, batch, trained,
                   train_version, local_trigger_step>>

\* The transfer is done; update_param_version and resume are started and not
\* waited for.
SyncReturn ==
    /\ trainer = "sync_transfer"
    /\ weights' = train_version
    /\ pc' = [pc EXCEPT !["update"] = "called", !["resume"] = "called"]
    /\ trainer' = after_sync
    /\ UNCHANGED <<mqVars, procVars, lock, feedVars, taskVars, cancel_queue, staleness_samples,
                   flagVars, current_param_version, counted, servers_paused, after_sync, batch,
                   trained, train_version, local_trigger_step>>

-----------------------------------------------------------------------------
(* FullyAsyncTaskRunner *)

\* Both fit calls have returned: the runner clears the queue and ends.
ClearAndEnd ==
    /\ trainer = "finished"
    /\ FitReturned
    /\ MQ!ClearQueue
    /\ trainer' = "ended"
    /\ UNCHANGED <<rollVars, after_sync, batch, trained, train_version, local_trigger_step>>

Ended == trainer = "ended" /\ UNCHANGED vars

TrainerStep ==
    \/ LogValidation \/ RequestSample \/ WakeTrainer \/ ReceiveSample \/ TrainStep
    \/ FinalWait \/ FinalSync
    \/ SyncPause \/ SyncTransfer \/ SyncReturn
    \/ ClearAndEnd

Next ==
    \/ TrainerStep
    \/ RollNext /\ UNCHANGED trainVars
    \/ Ended

\* Every coroutine that is ready gets its turn in the event loop (its ready
\* queue is first-in first-out), every generation returns, and the trainer
\* never stops between two steps.  A coroutine is disabled whenever another
\* one runs, hence strong fairness for the Rollouter.
Fairness ==
    /\ WF_vars(TrainerStep)
    /\ SF_vars(FeedSamples /\ UNCHANGED trainVars)
    /\ SF_vars(ProcessorStep /\ UNCHANGED trainVars)
    /\ SF_vars(MonitorStep /\ UNCHANGED trainVars)
    /\ SF_vars(CallStep /\ UNCHANGED trainVars)
    /\ SF_vars(MainStep /\ UNCHANGED trainVars)
    /\ \A s \in Samples : SF_vars(TaskReturns(s) /\ UNCHANGED trainVars)

Spec == Init /\ [][Next]_vars /\ Fairness

-----------------------------------------------------------------------------
(* Types *)

Places == {"run", "lock", "wait", "cond", "woken", "blocked", "end"}
Spots == {"top", "flag", "drain", "end", "limit", "sleep", "submit", "get", "done", "crashed"}
Labels == {"feeding", "end", "wait", "sleep", "idle", "called", "lock", "cancel", "gather",
           "clear", "returned", "size", "servers"}
Versions == 0..(TotalRolloutSteps + 1)

\* Type invariant of the composed system.
TypeOK ==
    /\ mq_running \in BOOLEAN
    /\ queue \in Seq(Samples \cup {None})
    /\ val_queue \in Seq(Versions)
    /\ mq_version \in Versions
    /\ proc \in Places \X Spots
    /\ pc \in [{"feed", "main", "monitor", "pause", "update", "resume"} -> Labels]
    /\ lock \in Seq({"proc", "main", "monitor", "pause", "update", "resume"})
    /\ pending_queue \in Seq(Samples \cup {DONE})
    /\ hand \in Samples \cup {NoSample}
    /\ generating \subseteq Samples
    /\ putting \subseteq Samples
    /\ finished \in Nat /\ failed \in Nat /\ failures \in 0..MaxFailures
    /\ done_bound \in BOOLEAN
    /\ cancel_queue \in Seq(Samples)
    /\ staleness_samples \in Nat /\ counted \in Nat
    /\ paused \in BOOLEAN /\ monitor_loop_trigger \in BOOLEAN /\ running \in BOOLEAN
    /\ current_param_version \in Versions
    /\ weights \in Versions \cup {Loading}
    /\ servers_paused \in BOOLEAN
    /\ param_version \in [Samples -> Versions]
    /\ batch \subseteq Samples /\ trained \subseteq Samples
    /\ train_version \in Versions
    /\ local_trigger_step \in 1..TriggerParameterSyncStep

-----------------------------------------------------------------------------
(* Where the samples are *)

SamplesIn(seq) == {seq[i] : i \in DOMAIN seq} \cap Samples
CountIn(seq) == Cardinality({i \in DOMAIN seq : seq[i] \in Samples})

\* The sample get_sample has popped and the trainer has not yet put in its batch.
Arriving == IF trainer = "await" /\ ~MQ!Outstanding("trainer")
            THEN {reply["trainer"]} \cap Samples ELSE {}

HeldSamples ==
    SamplesIn(pending_queue) \cup ({hand} \cap Samples) \cup generating \cup putting
        \cup SamplesIn(cancel_queue) \cup SamplesIn(queue) \cup Arriving \cup batch \cup trained

HeldCount ==
    CountIn(pending_queue) + (IF hand \in Samples THEN 1 ELSE 0)
        + Cardinality(generating) + Cardinality(putting)
        + CountIn(cancel_queue) + CountIn(queue)
        + Cardinality(Arriving) + Cardinality(batch) + Cardinality(trained)

FedSamples == IF fed > TotalRolloutSteps THEN TotalRolloutSteps ELSE fed

\* Every sample fed is in exactly one place of the Rollouter, the message
\* queue or the trainer, or has been lost to a full queue or to a failed
\* task: none is duplicated or mislaid by a pause, an interruption or a
\* resubmission.
SamplesAccounted ==
    trainer # "ended" =>
        /\ HeldCount = Cardinality(HeldSamples)
        /\ HeldCount + dropped_samples + failures = FedSamples

-----------------------------------------------------------------------------
(* Versions *)

\* The three copies of the version never pass one another and are at most
\* one synchronization apart, although updates of the Rollouter run behind
\* the trainer's back; no finished sample is labelled with a version the
\* Rollouter has not reached.
VersionsInOrder ==
    /\ mq_version \in {current_param_version, current_param_version + 1}
    /\ train_version \in {mq_version, mq_version + 1}
    /\ \A s \in Samples : param_version[s] <= current_param_version

\* A Rollouter that is told of a version has its weights, and the trainer
\* has not begun to transfer the next ones.
UpdateTellsTheWeights ==
    pc["update"] # "idle" => weights = mq_version

\* With staleness_threshold 0 every sample a step trains on was generated
\* with the version the trainer is improving.
OnPolicy == trainer = "step" => \A s \in batch : param_version[s] = train_version

\* The chunk now being generated is generated by the weights of the version a
\* sample is labelled with when it returns: the label names the weights of a
\* sample's last chunk.  Those before an interruption are of older weights.
GeneratesWithCurrentWeights ==
    (generating # {} /\ ~servers_paused) => weights = current_param_version

-----------------------------------------------------------------------------
(* Staleness control *)

\* Samples of this version that were submitted and not yet trained on.
SubmittedSamples ==
    Cardinality(generating) + Cardinality(putting) + CountIn(cancel_queue) + CountIn(queue)

\* What the Rollouter has produced ahead of the trainer never exceeds
\* max_required_samples, the quota of one parameter version.
WithinQuota == SubmittedSamples <= MaxRequiredSamples

-----------------------------------------------------------------------------
(* Termination and progress *)

\* The processor ends with an exception only if a generation raised.
ProcessorSurvives == proc = <<"end", "crashed">> => failures > 0

\* Training ends with every full batch of the data trained on.
FullBatchesTrained ==
    trainer = "finished" =>
        Cardinality(trained) = (TotalRolloutSteps \div RequiredSamples) * RequiredSamples

\* The trainer has logged every validation result when it ends.
ValidationLogged == trainer = "finished" => val_queue = <<>>

\* The trainer waits for a sample that nobody will produce: the processor
\* waits for the quota, and only a synchronization resets it.
Stalled ==
    /\ trainer = "await" /\ waiting # {}
    /\ proc[1] = "cond"
    /\ ShouldPauseGeneration
    /\ generating = {} /\ putting = {}
    /\ LastUpdateDone

\* Rollouter and trainer never wait for each other.
NeverStalled == ~Stalled

\* The run ends, also when generations fail.
Finishes == <>(trainer = "ended")
=============================================================================
