---------------------------- MODULE MCComponents -----------------------------
(* The components that share no state, side by side for TLC: in a behaviour  *)
(* one of them, named by part, is at work and the others stand still.        *)
EXTENDS AsyncCheckpoint

CONSTANTS
    OffDataLength, OffTrainingSteps, OffCriticWarmup, OffSaveFreq, OffTestFreq, OffMaxCrashes,
    GkdBatches, GkdWorkers, GkdMaxTroubles,
    LimRequests, LimMaxRpm, LimMaxTpm, LimRequestCost, LimTokenCost, LimMaxConcurrent,
    LimTimeout, LimPoolSize,
    RtMaxCalls, RtMaxAttempts,
    EngActors, EngRollouts, EngParams, EngMaxSize, EngBufferSize, EngMaxSyncs,
    BatPromptNum, BatRolloutN, BatValPrompts, BatWorkers, BatDpSize, BatMiniBatch,
    BatMaxTokenLen, BatLengths, BatKinds, BatValKinds, BatMaxRows,
    BalMaxItems, BalMaxParts, BalWorkloads

ASSUME ComponentsAssumption ==
    /\ OffDataLength \in Nat /\ OffTrainingSteps \in Nat \ {0} /\ OffCriticWarmup \in Nat
    /\ OffSaveFreq \in Nat \ {0} /\ OffTestFreq \in Nat \ {0} /\ OffMaxCrashes \in Nat
    /\ GkdBatches \in Nat /\ GkdBatches >= 2 \* with one batch teacher_future is unbound
    /\ GkdWorkers \in Nat \ {0} /\ GkdMaxTroubles \in Nat
    /\ IsFiniteSet(LimRequests)
    /\ LimMaxRpm \in Nat /\ LimMaxTpm \in Nat /\ LimRequestCost \in Nat /\ LimTokenCost \in Nat
    /\ LimMaxConcurrent \in Nat \ {0} /\ LimTimeout \in Nat /\ LimPoolSize \in Nat \ {0}
    /\ RtMaxCalls \in Nat /\ RtMaxAttempts \in Nat \ {0}
    /\ EngActors \in Nat \ {0} /\ EngRollouts \in Nat /\ EngParams \in Nat \ {0}
    /\ EngMaxSize \in Nat \ {0} /\ EngBufferSize \in Nat /\ EngMaxSyncs \in Nat
    /\ BatPromptNum \in Nat \ {0} /\ BatRolloutN \in Nat \ {0} /\ BatValPrompts \in Nat \ {0}
    /\ BatWorkers \in Nat \ {0} /\ BatDpSize \in Nat \ {0} /\ BatMiniBatch \in Nat \ {0}
    /\ BatMaxTokenLen \in Nat \ {0} /\ BatLengths \subseteq Nat
    \* DataProto.chunk asserts that the rows divide among the workers
    /\ (BatPromptNum * BatRolloutN) % BatWorkers = 0
    /\ BatKinds \cup BatValKinds \subseteq {"single", "characters", "uneven", "copy", "empty"}
    /\ BalMaxItems \in Nat /\ BalMaxParts \in Nat
    /\ BalWorkloads \subseteq Nat /\ 0 \in BalWorkloads

VARIABLE part

(* One step off policy. *)
VARIABLES
    off_fit, off_position, off_global_steps, off_actor_weights, off_rollout_weights,
    off_generating, off_batch, off_disk, off_lags, off_validated, off_crashes

offVars ==
    <<off_fit, off_position, off_global_steps, off_actor_weights, off_rollout_weights,
      off_generating, off_batch, off_disk, off_lags, off_validated, off_crashes>>

Off == INSTANCE OneStepOff WITH
    DataLength <- OffDataLength, TotalTrainingSteps <- OffTrainingSteps,
    CriticWarmup <- OffCriticWarmup, SaveFreq <- OffSaveFreq, TestFreq <- OffTestFreq,
    MaxCrashes <- OffMaxCrashes,
    fit <- off_fit, position <- off_position, global_steps <- off_global_steps,
    actor_weights <- off_actor_weights, rollout_weights <- off_rollout_weights,
    generating <- off_generating, batch <- off_batch, disk <- off_disk, lags <- off_lags,
    validated <- off_validated, crashes <- off_crashes

(* On-policy distillation, two steps off. *)
VARIABLES
    gkd_step, gkd_todo, gkd_generations, gkd_generated, gkd_rollout_future, gkd_teacher_future,
    gkd_result, gkd_padded, gkd_updates, gkd_rollout_weights, gkd_global_steps, gkd_handled,
    gkd_lag, gkd_skipped, gkd_fit, gkd_task_queue, gkd_thread, gkd_taken, gkd_socket, gkd_asked,
    gkd_answers, gkd_future, gkd_reply, gkd_troubled, gkd_troubles

gkdVars ==
    <<gkd_step, gkd_todo, gkd_generations, gkd_generated, gkd_rollout_future,
      gkd_teacher_future, gkd_result, gkd_padded, gkd_updates, gkd_rollout_weights,
      gkd_global_steps, gkd_handled, gkd_lag, gkd_skipped, gkd_fit, gkd_task_queue, gkd_thread,
      gkd_taken, gkd_socket, gkd_asked, gkd_answers, gkd_future, gkd_reply, gkd_troubled,
      gkd_troubles>>

Distill == INSTANCE DistillPipeline WITH
    Scheduler <- "two_step_off", Batches <- GkdBatches, Workers <- GkdWorkers,
    MaxTroubles <- GkdMaxTroubles,
    step <- gkd_step, todo <- gkd_todo, generations <- gkd_generations,
    generated <- gkd_generated, rollout_future <- gkd_rollout_future,
    teacher_future <- gkd_teacher_future, result <- gkd_result, padded <- gkd_padded,
    updates <- gkd_updates, rollout_weights <- gkd_rollout_weights,
    global_steps <- gkd_global_steps, handled <- gkd_handled, lag <- gkd_lag,
    skipped <- gkd_skipped, fit <- gkd_fit, task_queue <- gkd_task_queue, thread <- gkd_thread,
    taken <- gkd_taken, socket <- gkd_socket, asked <- gkd_asked, answers <- gkd_answers,
    future <- gkd_future, reply <- gkd_reply, troubled <- gkd_troubled, troubles <- gkd_troubles

(* Checkpoint engine: actor and rollout ranks. *)
VARIABLES
    eng_weights_info, eng_overlap, eng_assigned, eng_global_buckets, eng_sync, eng_main, eng_turn,
    eng_gidx, eng_joined, eng_memory_buffers, eng_h2d_buffer, eng_broadcast_load_buffer, eng_sent,
    eng_arrived, eng_request, eng_reply, eng_loader, eng_loaded

engVars ==
    <<eng_weights_info, eng_overlap, eng_assigned, eng_global_buckets, eng_sync, eng_main, eng_turn,
      eng_gidx, eng_joined, eng_memory_buffers, eng_h2d_buffer, eng_broadcast_load_buffer,
      eng_sent, eng_arrived, eng_request, eng_reply, eng_loader, eng_loaded>>

Engine == INSTANCE CheckpointEngine WITH
    ActorNum <- EngActors, RolloutNum <- EngRollouts, ParamNum <- EngParams,
    MaxSize <- EngMaxSize, DeviceBufferSize <- EngBufferSize, MaxSyncs <- EngMaxSyncs,
    weights_info <- eng_weights_info, overlap <- eng_overlap, assigned <- eng_assigned,
    global_buckets <- eng_global_buckets, sync <- eng_sync, main <- eng_main,
    turn <- eng_turn, gidx <- eng_gidx, joined <- eng_joined,
    memory_buffers <- eng_memory_buffers, h2d_buffer <- eng_h2d_buffer,
    broadcast_load_buffer <- eng_broadcast_load_buffer, sent <- eng_sent,
    arrived <- eng_arrived, request <- eng_request, reply <- eng_reply,
    loader <- eng_loader, loaded <- eng_loaded

(* Rate limits. *)
VARIABLES
    lim_is_async_reward_score, lim_request, lim_sleep, lim_tokens, lim_elapsed, lim_waiters,
    lim_left, lim_call, lim_ideal

limVars ==
    <<lim_is_async_reward_score, lim_request, lim_sleep, lim_tokens, lim_elapsed, lim_waiters,
      lim_left, lim_call, lim_ideal>>

Limits == INSTANCE RateLimits WITH
    Requests <- LimRequests, MaxTokens <- [rpm |-> LimMaxRpm, tpm |-> LimMaxTpm],
    Cost <- [rpm |-> LimRequestCost, tpm |-> LimTokenCost],
    MaxConcurrent <- LimMaxConcurrent, Timeout <- LimTimeout, PoolSize <- LimPoolSize,
    is_async_reward_score <- lim_is_async_reward_score, request <- lim_request,
    sleep <- lim_sleep, tokens <- lim_tokens, elapsed <- lim_elapsed, waiters <- lim_waiters,
    left <- lim_left, call <- lim_call, ideal <- lim_ideal

(* Environment client: lost requests and answers, and restarts of the service *)
(* at any time and as often as they like. *)
VARIABLES
    rt_chat, rt_next, rt_pc, rt_after, rt_replayed, rt_attempts, rt_exists, rt_executed,
    rt_results, rt_skipped, rt_reward

rtVars ==
    <<rt_chat, rt_next, rt_pc, rt_after, rt_replayed, rt_attempts, rt_exists, rt_executed,
      rt_results, rt_skipped, rt_reward>>

Runtime == INSTANCE RuntimeEnv WITH
    MaxCalls <- RtMaxCalls, MaxAttempts <- RtMaxAttempts, Unreliable <- TRUE,
    chat <- rt_chat, next <- rt_next, pc <- rt_pc, after <- rt_after, replayed <- rt_replayed,
    attempts <- rt_attempts, exists <- rt_exists, executed <- rt_executed,
    results <- rt_results, skipped <- rt_skipped, reward <- rt_reward

(* The batch of a synchronous step, of training or of validation. *)
VARIABLES
    bat_mode, bat_stage, bat_out, bat_batch, bat_old_log_probs, bat_advantages, bat_updates,
    bat_scores

batVars ==
    <<bat_mode, bat_stage, bat_out, bat_batch, bat_old_log_probs, bat_advantages, bat_updates,
      bat_scores>>

Batch == INSTANCE RolloutBatch WITH
    Modes <- {"fit", "validate"}, PromptNum <- BatPromptNum, RolloutN <- BatRolloutN,
    ValPrompts <- BatValPrompts, NumWorkers <- BatWorkers, DpSize <- BatDpSize,
    MiniBatch <- BatMiniBatch, MaxTokenLen <- BatMaxTokenLen, Lengths <- BatLengths,
    Kinds <- BatKinds, ValKinds <- BatValKinds, MaxRows <- BatMaxRows,
    mode <- bat_mode, stage <- bat_stage, out <- bat_out, batch <- bat_batch,
    old_log_probs <- bat_old_log_probs, advantages <- bat_advantages, updates <- bat_updates,
    scores <- bat_scores

(* Balancing the rows of a batch. *)
VARIABLES bal_n, bal_k, bal_equal_size, bal_workloads, bal_states_pq, bal_partitions

balVars == <<bal_n, bal_k, bal_equal_size, bal_workloads, bal_states_pq, bal_partitions>>

Balancing == INSTANCE SeqlenBalancing WITH
    MaxItems <- BalMaxItems, MaxParts <- BalMaxParts, Workloads <- BalWorkloads,
    n <- bal_n, k <- bal_k, equal_size <- bal_equal_size, workloads <- bal_workloads,
    states_pq <- bal_states_pq, partitions <- bal_partitions

allVars == <<part, vars, offVars, gkdVars, engVars, limVars, rtVars, batVars, balVars>>

Components ==
    {"checkpoint", "one_step_off", "distillation", "engine", "limits", "runtime", "batch",
     "balancing"}

\* A component that stands still has one initial state.
MCInit ==
    /\ part \in Components
    /\ Init /\ Off!Init /\ Distill!Init /\ Engine!Init /\ Limits!Init /\ Runtime!Init
    /\ part # "checkpoint" => elastic
    /\ part # "engine" => eng_overlap /\ \A p \in DOMAIN eng_weights_info : eng_weights_info[p] = 1
    /\ part # "limits" => lim_is_async_reward_score
    /\ Batch!Init /\ (part # "batch" => bat_mode = "fit")
    /\ Balancing!Init /\ (part # "balancing" => bal_workloads = <<0>> /\ bal_equal_size)

MCNext ==
    /\ UNCHANGED part
    /\ IF part = "checkpoint" THEN Next ELSE UNCHANGED vars
    /\ IF part = "one_step_off" THEN Off!Next ELSE UNCHANGED offVars
    /\ IF part = "distillation" THEN Distill!Next ELSE UNCHANGED gkdVars
    /\ IF part = "engine" THEN Engine!Next ELSE UNCHANGED engVars
    /\ IF part = "limits" THEN Limits!Next ELSE UNCHANGED limVars
    /\ IF part = "runtime" THEN Runtime!Next ELSE UNCHANGED rtVars
    /\ IF part = "batch" THEN Batch!Next ELSE UNCHANGED batVars
    /\ IF part = "balancing" THEN Balancing!Next ELSE UNCHANGED balVars

\* The fairness of each component, while it is at work.
OffFairness ==
    /\ WF_offVars(part = "one_step_off" /\ Off!FitStep)
    /\ WF_offVars(part = "one_step_off" /\ Off!GenerationReturns)

DistillFairness ==
    /\ WF_gkdVars(part = "distillation" /\ Distill!SchedulerStep)
    /\ WF_gkdVars(part = "distillation" /\ Distill!GenerationReturns)
    /\ \A t \in 1..GkdWorkers :
        /\ WF_gkdVars(part = "distillation" /\ Distill!TeacherThreadStep(t))
        /\ WF_gkdVars(part = "distillation" /\ Distill!ServiceAnswers(t))

EngineFairness ==
    /\ WF_engVars(part = "engine" /\ Engine!AssignParameter)
    /\ \A r \in 0..(EngActors + EngRollouts - 1) :
        /\ WF_engVars(part = "engine" /\ Engine!MainStep(r))
        /\ WF_engVars(part = "engine" /\ Engine!LoaderStep(r))

LimitsFairness ==
    /\ \A r \in LimRequests :
        /\ WF_limVars(part = "limits" /\ Limits!LoopStep(r))
        /\ WF_limVars(part = "limits" /\ ~lim_is_async_reward_score /\ Limits!ComputeScoreEnds(r))
    /\ WF_limVars(part = "limits" /\ Limits!EnterSemaphore)
    /\ WF_limVars(part = "limits" /\ Limits!Tick)

RuntimeFairness == WF_rtVars(part = "runtime" /\ Runtime!ClientStep)

BalancingFairness == WF_balVars(part = "balancing" /\ Balancing!Next)

MCSpec ==
    /\ MCInit /\ [][MCNext]_allVars
    /\ OffFairness /\ DistillFairness /\ EngineFairness /\ LimitsFairness /\ RuntimeFairness
    /\ BalancingFairness

-----------------------------------------------------------------------------
(* Properties *)

\* What a crash leaves on disk is restored as a whole: the checkpoint the
\* tracker names is complete and its parts belong together.
CheckpointWhole == part = "checkpoint" => (TypeOK /\ LatestIsWhole /\ RestoredTogether)

\* Restarts do not shorten the training, nor miscount its versions.
TrainingCounted == part = "checkpoint" => (FullLengthTraining /\ VersionCountsSteps)

\* A resumed training has every sample at most once and has lost only those
\* that were in flight.
SamplesKept == part = "checkpoint" => (NoSampleTwice /\ OnlyInFlightLost)

\* One step off policy, a batch is generated by weights that do not change
\* under it and lack at most one update when it is trained; a job that resumes
\* has lost only batches that were in flight.
OffPolicyByOne ==
    part = "one_step_off" => (Off!TypeOK /\ Off!OneStepOffPolicy /\ Off!OnlyInFlightLost)

\* The two-step-off scheduler gives fit every batch once, in order, generated by
\* weights that lack at most two updates.
DistillsEachOnce ==
    part = "distillation" => (Distill!TypeOK /\ Distill!EachBatchOnce /\ Distill!LagAsNamed)

\* fit trains a batch with the teacher's knowledge of that batch.
DistillKnowledge == part = "distillation" => Distill!KnowledgeOfBatch

\* The engine's buckets hold every parameter once and fit in the buffers; after a
\* synchronization the rollout ranks have the values of that one.
EngineDelivers ==
    part = "engine" => (Engine!TypeOK /\ Engine!BucketsHoldAll /\ Engine!WeightsAgree)

\* Budgets and slots of the reward requests are kept.
LimitsRespected ==
    part = "limits" => (Limits!TypeOK /\ Limits!RatesRespected /\ Limits!SlotsRespected)

\* What the agent has seen done is done, in the order of the conversation, in
\* the environment it works with, and a reward is calculated from calls of the
\* conversation only.
RuntimeAsSeen ==
    part = "runtime" =>
        (Runtime!TypeOK /\ Runtime!ResultsAreExecuted /\ Runtime!FirstExecutionsInOrder
            /\ Runtime!RewardOfCalls)

\* Every row of a batch meets the data of the prompt it was generated from.
RowsOfPrompts == part = "batch" => (Batch!TypeOK /\ Batch!JoinedToOwnPrompt)

\* Micro-batches of any composition leave every log probability at its row.
LogProbsAligned == part = "batch" => Batch!LogProbsAligned

\* Advantages compare the rollouts of a prompt, each counted once.
GroupOfRollouts == part = "batch" => Batch!GroupOfRollouts

\* The mini-batches of the ranks hold every generated row once.
UpdatesEachRowOnce == part = "batch" => Batch!UpdatesEachRowOnce

\* A validation scores every rollout slot once, from all of its rows.
ScorePerSlot == part = "batch" => Batch!ScorePerSlot

\* The partitions hold every row once, none is empty, they are equally large
\* where the ranks need it, and no two differ by more than one row's workload.
PartitionsBalanced ==
    part = "balancing" =>
        (Balancing!TypeOK /\ Balancing!EachItemOnce /\ Balancing!NoPartitionEmpty
            /\ Balancing!EqualSizes /\ Balancing!SpreadBounded)

\* Each component finishes what it has begun: training ends, weights arrive,
\* requests are scored, rollouts end and partitions are returned, whatever the
\* services do.
ComponentsEnd ==
    <>(CASE part = "one_step_off" -> Off!FitOver
         [] part = "distillation" -> Distill!DistillationOver
         [] part = "engine" -> Engine!AllSynced
         [] part = "limits" -> Limits!EveryRequestScored
         [] part = "runtime" -> Runtime!RolloutOver
         [] part = "balancing" -> bal_partitions # <<>>
         [] OTHER -> TRUE)
=============================================================================
