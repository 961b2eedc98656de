---------------------------- MODULE AsyncCheckpoint ----------------------------
(***************************************************************************)
(* Checkpoints of the fully asynchronous trainer: what is written in which *)
(* order, what a crash between two writes leaves on disk, and what trainer *)
(* and Rollouter restore (fully_async_trainer.py, fully_async_rollouter.py,*)
(* verl/utils/checkpoint/).                                                *)
(*                                                                         *)
(* Generation and the message queue are one first-in first-out queue,      *)
(* in_flight; a sample is its position in the data.  What weights have     *)
(* learnt is the set of samples they were trained on.                      *)
(***************************************************************************)
EXTENDS Integers, Sequences, FiniteSets

CONSTANTS TotalRolloutSteps,         \* total_rollout_steps
          DataLength,                \* samples the data loader can yield (total_epochs 1)
          RequiredSamples,           \* required_samples
          TriggerParameterSyncStep,  \* trigger_parameter_sync_step
          SaveFreq,                  \* trainer.save_freq
          TestFreq,                  \* rollout.test_freq
          MaxCkptToKeep,             \* max_actor_ckpt_to_keep, 0 for null
          MaxInFlight,               \* bound: samples fed and not yet trained
          MaxRestarts                \* bound: how often the job is started again

ASSUME AsyncCheckpointAssumption ==
    /\ TotalRolloutSteps \in Nat \ {0}
    /\ DataLength \in Nat /\ DataLength >= TotalRolloutSteps
    /\ RequiredSamples \in Nat \ {0}
    /\ TriggerParameterSyncStep \in Nat \ {0}
    /\ SaveFreq \in Nat \ {0} /\ TestFreq \in Nat \ {0}
    /\ MaxCkptToKeep \in Nat
    /\ MaxInFlight \in Nat /\ MaxInFlight >= RequiredSamples
    /\ MaxRestarts \in Nat

Parts == {"actor", "critic"}
Versions == 1..(TotalRolloutSteps + 2 * MaxRestarts + 1)
Missing == {0}             \* no such file: there is no sample 0
Empty == -1                   \* the tracker file, opened for writing
NoTracker == 0

VARIABLES
    \* on disk
    weights_file,         \* per part and version: samples its weights were trained on
    data_file,            \* per version: data.pt, the data loader's position
    tracker,              \* latest_checkpointed_iteration.txt
    \* in the processes
    status,               \* "up", "down", "finished" or "unrecoverable"
    restarts,
    elastic,              \* the job runs on an elastic instance, which may expire
    current_param_version,
    local_trigger_step,
    last_ckpt_version,
    previous_saved_paths, \* per part: versions this process has saved
    trained,              \* samples the trainer's weights were trained on
    todo,                 \* what the save under way has still to write
    stopped,              \* the training loop is over
    position,             \* samples the data loader has yielded
    global_steps,         \* the Rollouter's
    feed_done,
    in_flight

diskVars == <<weights_file, data_file, tracker>>
trainerVars == <<current_param_version, local_trigger_step, last_ckpt_version,
                 previous_saved_paths, trained, todo, stopped>>
feedVars == <<position, global_steps, feed_done>>
vars == <<diskVars, status, restarts, elastic, trainerVars, feedVars, in_flight>>

Init ==
    /\ weights_file = [p \in Parts |-> [v \in Versions |-> Missing]]
    /\ data_file = [v \in Versions |-> -1]
    /\ tracker = NoTracker
    /\ status = "up"
    /\ restarts = 0
    /\ elastic \in BOOLEAN
    /\ current_param_version = 0
    /\ local_trigger_step = 1
    /\ last_ckpt_version = 0
    /\ previous_saved_paths = [p \in Parts |-> <<>>]
    /\ trained = {}
    /\ todo = <<>>
    /\ stopped = FALSE
    /\ position = 0
    /\ global_steps = 1
    /\ feed_done = FALSE
    /\ in_flight = <<>>

-----------------------------------------------------------------------------
(* Rollouter: _feed_samples *)

\* The next sample is put before the bound is looked at.
FeedSample ==
    /\ status = "up"
    /\ ~feed_done
    /\ position < DataLength
    /\ Len(in_flight) < MaxInFlight
    /\ position' = position + 1
    /\ in_flight' = Append(in_flight, position')
    /\ IF global_steps >= TotalRolloutSteps
       THEN feed_done' = TRUE /\ UNCHANGED global_steps
       ELSE global_steps' = global_steps + 1 /\ UNCHANGED feed_done
    /\ UNCHANGED <<diskVars, status, restarts, elastic, trainerVars>>

\* The data is exhausted.
FeedExhausted ==
    /\ status = "up"
    /\ ~feed_done
    /\ position = DataLength
    /\ feed_done' = TRUE
    /\ UNCHANGED <<diskVars, status, restarts, elastic, trainerVars, position, global_steps,
                   in_flight>>

-----------------------------------------------------------------------------
(* Trainer: fit, _trigger_parameter_sync_after_step, _check_save_checkpoint *)

\* Mutant: the tracker is written before what it points to.
SaveStepsTrackerFirst ==
    <<<<"truncate", "tracker">>, <<"write", "tracker">>,
      <<"rotate", "actor">>, <<"write", "actor">>, <<"rotate", "critic">>, <<"write", "critic">>,
      <<"write", "data">>>>

\* _save_checkpoint: the tracker is written last.
SaveSteps ==
    <<<<"rotate", "actor">>, <<"write", "actor">>, <<"rotate", "critic">>, <<"write", "critic">>,
      <<"write", "data">>, <<"truncate", "tracker">>, <<"write", "tracker">>>>

\* A checkpoint is due for version v.
CheckSave(v) ==
    \E esi_close_to_expiration \in IF elastic THEN BOOLEAN ELSE {FALSE} :
        todo' = IF v # last_ckpt_version /\ (v % SaveFreq = 0 \/ esi_close_to_expiration)
                THEN SaveSteps ELSE <<>>

SyncDue == local_trigger_step >= TriggerParameterSyncStep

NewVersion(starts) ==
    /\ current_param_version' = IF starts THEN current_param_version + 1 ELSE current_param_version
    /\ CheckSave(current_param_version')

TrainStep ==
    /\ status = "up"
    /\ ~stopped /\ todo = <<>>
    /\ Len(in_flight) >= RequiredSamples
    /\ trained' = trained \cup {in_flight[i] : i \in 1..RequiredSamples}
    /\ in_flight' = SubSeq(in_flight, RequiredSamples + 1, Len(in_flight))
    /\ local_trigger_step' = IF SyncDue THEN 1 ELSE local_trigger_step + 1
    /\ NewVersion(SyncDue)
    /\ UNCHANGED <<diskVars, status, restarts, elastic, last_ckpt_version, previous_saved_paths,
                   stopped, feedVars>>

\* The finish signal arrives with less than a batch left: the final
\* synchronization, and the last look at the checkpoint.
StopTraining ==
    /\ status = "up"
    /\ ~stopped /\ todo = <<>>
    /\ feed_done /\ Len(in_flight) < RequiredSamples
    /\ stopped' = TRUE
    /\ LET starts == current_param_version % TestFreq # 0 \/ local_trigger_step > 1
       IN /\ local_trigger_step' = IF starts THEN 1 ELSE local_trigger_step
          /\ NewVersion(starts)
    /\ UNCHANGED <<diskVars, status, restarts, elastic, last_ckpt_version, previous_saved_paths,
                   trained, feedVars, in_flight>>

Finish ==
    /\ status = "up"
    /\ stopped /\ todo = <<>>
    /\ status' = "finished"
    /\ UNCHANGED <<diskVars, restarts, elastic, trainerVars, feedVars, in_flight>>

-----------------------------------------------------------------------------
(* _save_checkpoint, one write after the other *)

Saving(what) ==
    /\ status = "up"
    /\ todo # <<>>
    /\ Head(todo) = what
    /\ todo' = Tail(todo)
    /\ UNCHANGED <<status, restarts, elastic, current_param_version, local_trigger_step, trained,
                   stopped, feedVars, in_flight>>

\* The weights of a part.
SavedWeights(p) == trained

\* Before it writes, a checkpoint manager removes what it has saved and is
\* to keep no longer.
Rotate(p) ==
    /\ Saving(<<"rotate", p>>)
    /\ LET saved == previous_saved_paths[p]
           dropped == IF MaxCkptToKeep > 0 /\ Len(saved) >= MaxCkptToKeep
                      THEN Len(saved) - MaxCkptToKeep + 1 ELSE 0
           removed == {saved[i] : i \in 1..dropped}
       IN /\ weights_file' = [weights_file EXCEPT ![p] =
                                 [v \in Versions |-> IF v \in removed THEN Missing ELSE @[v]]]
          /\ previous_saved_paths' = [previous_saved_paths EXCEPT ![p] =
                                         SubSeq(saved, dropped + 1, Len(saved))]
    /\ UNCHANGED <<data_file, tracker, last_ckpt_version>>

WriteWeights(p) ==
    /\ Saving(<<"write", p>>)
    /\ weights_file' = [weights_file EXCEPT ![p][current_param_version] = SavedWeights(p)]
    /\ previous_saved_paths' = [previous_saved_paths EXCEPT ![p] =
                                   Append(@, current_param_version)]
    /\ UNCHANGED <<data_file, tracker, last_ckpt_version>>

\* The Rollouter saves its data loader, not what is in flight.
WriteData ==
    /\ Saving(<<"write", "data">>)
    /\ data_file' = [data_file EXCEPT ![current_param_version] = position]
    /\ UNCHANGED <<weights_file, tracker, last_ckpt_version, previous_saved_paths>>

\* The tracker is opened for writing, which empties it ...
TruncateTracker ==
    /\ Saving(<<"truncate", "tracker">>)
    /\ tracker' = Empty
    /\ UNCHANGED <<weights_file, data_file, last_ckpt_version, previous_saved_paths>>

\* ... and written.
WriteTracker ==
    /\ Saving(<<"write", "tracker">>)
    /\ tracker' = current_param_version
    /\ last_ckpt_version' = current_param_version
    /\ UNCHANGED <<weights_file, data_file, previous_saved_paths>>

SaveStep ==
    \/ \E p \in Parts : Rotate(p) \/ WriteWeights(p)
    \/ WriteData \/ TruncateTracker \/ WriteTracker

-----------------------------------------------------------------------------
(* Crash and restart *)

\* The job dies at any time.
Crash ==
    /\ status = "up"
    /\ restarts < MaxRestarts
    /\ status' = "down"
    /\ UNCHANGED <<diskVars, restarts, elastic, trainerVars, feedVars, in_flight>>

\* Mutant: the weights are not loaded.
RestoredWeightsNone(v) == {}

RestoredWeights(v) == IF v = 0 THEN {} ELSE weights_file["actor"][v]

\* Mutant: the data loader starts from the beginning again.
RestoredPositionLost(v) == 0

RestoredPosition(v) == IF v = 0 THEN 0 ELSE data_file[v]

\* Mutant: the Rollouter counts on from the position of its data loader.
RestoredStepsByPosition(v) == RestoredPosition(v) + 1

\* The Rollouter's global_steps: the samples v versions have taken.
RestoredSteps(v) == v * RequiredSamples * TriggerParameterSyncStep + 1

\* load_checkpoint of trainer and Rollouter, and fresh processes.
LoadCheckpoint(v) ==
    /\ status' = "up"
    /\ current_param_version' = v
    /\ last_ckpt_version' = v
    /\ trained' = RestoredWeights(v)
    /\ position' = RestoredPosition(v)
    /\ global_steps' = RestoredSteps(v)
    /\ local_trigger_step' = 1
    /\ previous_saved_paths' = [p \in Parts |-> <<>>]
    /\ todo' = <<>>
    /\ stopped' = FALSE
    /\ feed_done' = FALSE
    /\ in_flight' = <<>>

\* The tracker names a checkpoint that can be loaded.
Loadable ==
    \/ tracker = NoTracker
    \/ tracker \in Versions /\ \A p \in Parts : weights_file[p][tracker] # Missing

\* The job is started again, after a crash or once more at its end, with
\* resume_mode "auto": a tracker that cannot be parsed and weights that are
\* missing raise.
Restart ==
    /\ status \in {"down", "finished"}
    /\ restarts < MaxRestarts
    /\ restarts' = restarts + 1
    /\ \/ Loadable /\ LoadCheckpoint(tracker)
       \/ /\ ~Loadable
          /\ status' = "unrecoverable"
          /\ UNCHANGED <<trainerVars, feedVars, in_flight>>
    /\ UNCHANGED <<diskVars, elastic>>

-----------------------------------------------------------------------------

Ended ==
    /\ status = "unrecoverable" \/ (status = "finished" /\ restarts = MaxRestarts)
    /\ UNCHANGED vars

Next ==
    \/ FeedSample \/ FeedExhausted
    \/ TrainStep \/ StopTraining \/ Finish
    \/ SaveStep
    \/ Crash \/ Restart
    \/ Ended

Spec == Init /\ [][Next]_vars

-----------------------------------------------------------------------------
(* Properties *)

SamplesUpTo(n) == 1..n
SamplesIn(seq) == {seq[i] : i \in DOMAIN seq}

\* Type invariant of processes and disk.
TypeOK ==
    /\ \A p \in Parts : \A v \in Versions :
          weights_file[p][v] = Missing \/ weights_file[p][v] \subseteq SamplesUpTo(DataLength)
    /\ data_file \in [Versions -> -1..DataLength]
    /\ tracker \in Versions \cup {NoTracker, Empty}
    /\ status \in {"up", "down", "finished", "unrecoverable"}
    /\ restarts \in 0..MaxRestarts
    /\ elastic \in BOOLEAN
    /\ current_param_version \in Versions \cup {0}
    /\ local_trigger_step \in 1..TriggerParameterSyncStep
    /\ last_ckpt_version \in 0..current_param_version
    /\ previous_saved_paths \in [Parts -> Seq(Versions)]
    /\ trained \subseteq SamplesUpTo(DataLength)
    /\ todo \in Seq({"rotate", "write", "truncate"} \X {"actor", "critic", "data", "tracker"})
    /\ stopped \in BOOLEAN /\ feed_done \in BOOLEAN
    /\ position \in 0..DataLength
    /\ global_steps \in Nat
    /\ in_flight \in Seq(SamplesUpTo(DataLength))

\* Whenever the job dies, the checkpoint the tracker names is whole.
LatestIsWhole ==
    tracker \in Versions =>
        /\ \A p \in Parts : weights_file[p][tracker] # Missing
        /\ data_file[tracker] # -1

\* Actor and critic that are restored together have learnt from the same
\* samples, and the data loader continues behind all of them.
RestoredTogether ==
    (LatestIsWhole /\ tracker \in Versions) =>
        /\ weights_file["actor"][tracker] = weights_file["critic"][tracker]
        /\ weights_file["actor"][tracker] \subseteq SamplesUpTo(data_file[tracker])

\* No restart makes the model learn from a sample twice.
NoSampleTwice == SamplesIn(in_flight) \cap trained = {}

\* A restart costs at most the samples that were in flight: all other data
\* the loader has passed has been trained on.
OnlyInFlightLost ==
    status = "up" =>
        Cardinality(SamplesUpTo(position) \ (trained \cup SamplesIn(in_flight)))
            <= restarts * MaxInFlight

\* Samples lost to a restart are made up for: as long as there is data, the
\* training takes as many steps as without a crash.
FullLengthTraining ==
    (status = "finished" /\ position < DataLength) =>
        Cardinality(trained) >= (TotalRolloutSteps \div RequiredSamples) * RequiredSamples

\* A checkpoint of version v holds the training steps of v versions, which
\* is what trainer and Rollouter count from when they restore it; only an
\* elastic instance saves in the middle of a version.  (The last version has
\* less if the data run out.)
VersionCountsSteps ==
    (status = "up" /\ ~stopped /\ ~elastic /\ position < DataLength) =>
        Cardinality(trained) =
            (current_param_version * TriggerParameterSyncStep + local_trigger_step - 1) * RequiredSamples
=============================================================================
