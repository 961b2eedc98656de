----------------------------- MODULE OneStepOff ------------------------------
(* OneStepOffRayTrainer of recipe/one_step_off_policy: fit trains on a batch *)
(* while the rollout servers generate the next one, and saves checkpoints    *)
(* from which a new job resumes.                                             *)
(*                                                                           *)
(* Abstractions: a batch is its position in the data of all epochs; weights  *)
(* are the set of batches the actor was updated with, so that what a         *)
(* checkpoint restores shows in them.  _save_checkpoint is one step: a crash *)
(* in the middle of it is the subject of AsyncCheckpoint.                    *)
EXTENDS Naturals, Sequences, FiniteSets

CONSTANTS
    DataLength,          \* batches of one epoch; total_epochs is 1
    TotalTrainingSteps,
    CriticWarmup,        \* critic_warmup: steps below it do not update the actor
    SaveFreq,
    TestFreq,
    MaxCrashes           \* bound

VARIABLES
    fit,              \* what the coroutine fit does next
    position,         \* batches the dataloader has handed out
    global_steps,
    actor_weights,    \* the batches the actor's weights were trained on
    rollout_weights,  \* the same for the rollout servers' weights
    generating,       \* batch_data_future: the batch, its state, the weights it started with
    batch,            \* the result awaited, while fit works on it
    disk,             \* the latest checkpoint
    lags,             \* history: by how many updates the weights of a batch lagged behind
    validated,        \* history: <<step, number of updates>> of each validation
    crashes

vars == <<fit, position, global_steps, actor_weights, rollout_weights, generating, batch, disk,
          lags, validated, crashes>>

\* _async_gen_next_batch returns None when the data have run out.
NoData == 0
NoFuture == [batch |-> NoData, state |-> "none", weights |-> {}]

Init ==
    /\ fit = "load"
    /\ position = 0
    /\ global_steps = 0
    /\ actor_weights = {} /\ rollout_weights = {}
    /\ generating = NoFuture
    /\ batch = NoFuture
    /\ disk = [steps |-> 0, weights |-> {}, position |-> 0]
    /\ lags = {} /\ validated = {}
    /\ crashes = 0

-----------------------------------------------------------------------------

\* asyncio.create_task(_async_gen_next_batch) and the first turn of the task:
\* it takes a batch and hands it to the servers.
StartGeneration ==
    IF position < DataLength
    THEN /\ position' = position + 1
         /\ generating' = [batch |-> position + 1, state |-> "running",
                           weights |-> rollout_weights]
    ELSE /\ generating' = [NoFuture EXCEPT !.state = "done"]
         /\ UNCHANGED position

GenerationReturns ==
    /\ generating.state = "running"
    /\ generating' = [generating EXCEPT !.state = "done"]
    /\ UNCHANGED <<fit, position, global_steps, actor_weights, rollout_weights, batch, disk,
                   lags, validated, crashes>>

\* Mutant: the step of the checkpoint is made again.
LoadCheckpointRedoes ==
    /\ fit = "load"
    /\ global_steps' = disk.steps
    /\ actor_weights' = disk.weights
    /\ rollout_weights' = disk.weights
    /\ position' = disk.position
    /\ fit' = "start"
    /\ UNCHANGED <<generating, batch, disk, lags, validated, crashes>>

\* _load_checkpoint, then the first synchronization.
LoadCheckpoint ==
    /\ fit = "load"
    /\ global_steps' = disk.steps + 1
    /\ actor_weights' = disk.weights
    /\ rollout_weights' = disk.weights
    /\ position' = disk.position
    /\ fit' = "start"
    /\ UNCHANGED <<generating, batch, disk, lags, validated, crashes>>

StartFirstGeneration ==
    /\ fit = "start"
    /\ StartGeneration
    /\ fit' = "await"
    /\ UNCHANGED <<global_steps, actor_weights, rollout_weights, batch, disk, lags, validated,
                   crashes>>

IsLastStep == global_steps >= TotalTrainingSteps

\* Mutant: the batch is not waited for.
AwaitNothing ==
    /\ fit = "await"
    /\ batch' = generating
    /\ fit' = IF generating.batch = NoData THEN "raised" ELSE "sync"
    /\ UNCHANGED <<position, global_steps, actor_weights, rollout_weights, generating, disk,
                   lags, validated, crashes>>

\* await batch_data_future; the None of exhausted data cannot be unpacked.
AwaitBatch ==
    /\ fit = "await"
    /\ generating.state = "done"
    /\ batch' = generating
    /\ fit' = IF generating.batch = NoData THEN "raised" ELSE "sync"
    /\ UNCHANGED <<position, global_steps, actor_weights, rollout_weights, generating, disk,
                   lags, validated, crashes>>

SyncRolloutWeights ==
    /\ fit = "sync"
    /\ rollout_weights' = actor_weights
    /\ fit' = IF IsLastStep THEN "train" ELSE "generate"
    /\ UNCHANGED <<position, global_steps, actor_weights, generating, batch, disk, lags,
                   validated, crashes>>

GenerateNext ==
    /\ fit = "generate"
    /\ StartGeneration
    /\ fit' = "train"
    /\ UNCHANGED <<global_steps, actor_weights, rollout_weights, batch, disk, lags, validated,
                   crashes>>

\* Reward, advantage and the updates; the critic's does not show here.
Train ==
    /\ fit = "train"
    /\ lags' = lags \cup {Cardinality(actor_weights \ batch.weights)}
    /\ actor_weights' = IF CriticWarmup <= global_steps THEN actor_weights \cup {batch.batch}
                                                        ELSE actor_weights
    /\ fit' = "validate"
    /\ UNCHANGED <<position, global_steps, rollout_weights, generating, batch, disk, validated,
                   crashes>>

\* _validate runs on the rollout workers.
Validate ==
    /\ fit = "validate"
    /\ validated' = IF IsLastStep \/ global_steps % TestFreq = 0
                    THEN validated \cup {<<global_steps, Cardinality(rollout_weights)>>}
                    ELSE validated
    /\ fit' = "save"
    /\ UNCHANGED <<position, global_steps, actor_weights, rollout_weights, generating, batch,
                   disk, lags, crashes>>

\* _save_checkpoint, also when the instance is about to expire, and the end
\* of the step.
SaveCheckpoint ==
    disk' = [steps |-> global_steps, weights |-> actor_weights, position |-> position]

EndStep ==
    /\ fit = "save"
    /\ IF IsLastStep \/ global_steps % SaveFreq = 0
       THEN SaveCheckpoint
       ELSE SaveCheckpoint \/ UNCHANGED disk
    /\ global_steps' = global_steps + 1
    /\ fit' = IF IsLastStep THEN "returned" ELSE "await"
    /\ UNCHANGED <<position, actor_weights, rollout_weights, generating, batch, lags, validated,
                   crashes>>

\* The job dies, with everything but the disk, and a new one starts.
Crash ==
    /\ fit \notin {"returned", "raised", "load"}
    /\ crashes < MaxCrashes
    /\ crashes' = crashes + 1
    /\ fit' = "load"
    /\ generating' = NoFuture /\ batch' = NoFuture
    /\ UNCHANGED <<position, global_steps, actor_weights, rollout_weights, disk, lags, validated>>

Ended == fit \in {"returned", "raised"} /\ UNCHANGED vars

FitStep ==
    \/ LoadCheckpoint \/ StartFirstGeneration \/ AwaitBatch \/ SyncRolloutWeights
    \/ GenerateNext \/ Train \/ Validate \/ EndStep

Next == FitStep \/ GenerationReturns \/ Crash \/ Ended

\* fit is never stopped between two steps, and every generation returns.
Fairness == WF_vars(FitStep) /\ WF_vars(GenerationReturns)

Spec == Init /\ [][Next]_vars /\ Fairness

-----------------------------------------------------------------------------
(* Properties *)

\* Type invariant.
TypeOK ==
    /\ position \in 0..DataLength
    /\ global_steps \in 0..(TotalTrainingSteps + 1)
    /\ actor_weights \subseteq 1..DataLength /\ rollout_weights \subseteq 1..DataLength
    /\ generating.batch \in 0..DataLength /\ generating.state \in {"none", "running", "done"}
    /\ disk.steps \in 0..TotalTrainingSteps /\ disk.position \in 0..DataLength

\* The updates made by steps 1..k.
UpdatesAfter(k) == Cardinality({s \in 1..k : CriticWarmup <= s})

\* Every batch is generated by the servers' current weights, which do not
\* change under it, and trained when they lack at most one update; a
\* validation of step k measures the weights as they were before that step.
OneStepOffPolicy ==
    /\ lags \subseteq {0, 1}
    /\ generating.state = "running" => generating.weights = rollout_weights
    /\ \A v \in validated : v[2] = UpdatesAfter(v[1] - 1)

\* Whatever crashes come before it, a checkpoint holds one update for every
\* step it counts, of a batch of its own, and of the batches the dataloader
\* will not hand out again only those in flight when a checkpoint was taken,
\* at most one each time, were never trained on.
OnlyInFlightLost ==
    /\ Cardinality(disk.weights) = UpdatesAfter(disk.steps)
    /\ disk.position <= disk.steps + crashes + 1

FitOver == fit = "returned" \/ (fit = "raised" /\ crashes > 0)

\* fit ends, and only a job that resumed can run out of data before its last
\* step and fail.
FitEnds == <>FitOver
=============================================================================
