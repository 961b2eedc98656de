------------------------------ MODULE Rollouter ------------------------------
(***************************************************************************)
(* The Rollouter of recipe/fully_async_policy/fully_async_rollouter.py: an *)
(* asyncio actor whose coroutines feed samples, run generation tasks, pause*)
(* when generation runs ahead of training, and obey the pause,             *)
(* update_param_version and resume calls of the ParameterSynchronizer.     *)
(*                                                                         *)
(* All coroutines share one event loop: one runs until it suspends, and    *)
(* nothing else of the Rollouter runs meanwhile.  The processor is the only*)
(* coroutine that does several things between suspensions, so it is modelled*)
(* in small steps and Idle (the processor is suspended) guards every other *)
(* coroutine.  asyncio.Lock is first-in first-out: lock is the queue of its*)
(* owner and waiters, and an acquire of a free lock does not suspend.      *)
(*                                                                         *)
(* A sample is a number, its position in the data; its payload is left out.*)
(***************************************************************************)
EXTENDS Integers, Sequences, FiniteSets

CONSTANTS TotalRolloutSteps,     \* total_rollout_steps
          MaxRequiredSamples,    \* max_required_samples, also the size of the message queue
          MaxConcurrentSamples,  \* max_concurrent_samples
          PendingQueueSize,      \* maxsize of pending_queue (128 in the code)
          PartialRollout,        \* config.async_training.partial_rollout
          MaxFailures            \* bound: generation tasks that may raise

ASSUME RollouterAssumption ==
    /\ TotalRolloutSteps \in Nat \ {0}
    /\ MaxRequiredSamples \in Nat \ {0}
    /\ MaxConcurrentSamples \in 1..MaxRequiredSamples
    /\ PendingQueueSize \in Nat \ {0}
    /\ PartialRollout \in BOOLEAN
    /\ MaxFailures \in Nat

Samples == 1..TotalRolloutSteps
DONE == TotalRolloutSteps + 1    \* the end signal of the feed
None == 0                        \* the finish signal put into the message queue
NoSample == -1
Loading == -1                    \* the rollout servers' weights while they are being transferred

VARIABLES queue, val_queue, mq_running, mq_version, total_produced,
          total_consumed, dropped_samples, waiting, woken, reply

mqVars == <<queue, val_queue, mq_running, mq_version, total_produced,
            total_consumed, dropped_samples, waiting, woken, reply>>

MQ == INSTANCE MessageQueue WITH
    Items <- Samples \cup {None},
    Consumers <- {"trainer"},
    MaxQueueSize <- MaxRequiredSamples,
    Closed <- -1, NoReply <- -2,
    MaxProduced <- TotalRolloutSteps + 1,
    MaxVersion <- TotalRolloutSteps + 1,
    MaxValidate <- TotalRolloutSteps + 1,
    running <- mq_running,
    current_param_version <- mq_version

VARIABLES
    proc,            \* <<how, where>>: the processor coroutine
    pc,              \* the other coroutines
    lock,            \* owner of self.lock, then the coroutines waiting for it
    pending_queue,
    fed,             \* entries the feed has put, DONE included
    hand,            \* rollout_sample: the sample the processor has taken but not submitted
    generating,      \* active_tasks: samples whose task is generating
    putting,         \* active_tasks: samples whose task is sending them to the message queue
    finished,        \* active_tasks: tasks that are done but not yet removed
    failed,          \* active_tasks: tasks that raised and are not yet removed
    done_bound,      \* the local name done_tasks of the processor has been assigned
    failures,        \* generation tasks that have raised so far
    cancel_queue,
    staleness_samples,
    paused,
    monitor_loop_trigger,
    running,
    current_param_version,
    counted,         \* update_param_version: active and cancelled tasks counted before its await
    weights,         \* version of the weights in the rollout servers
    servers_paused,  \* the rollout servers have been told to cancel (partial rollout)
    param_version    \* version each finished sample is labelled with

taskVars == <<generating, putting, finished, failed, failures, param_version>>
feedVars == <<pending_queue, fed>>
flagVars == <<paused, monitor_loop_trigger, running>>
versionVars == <<current_param_version, counted, weights, servers_paused>>
procVars == <<proc, hand, done_bound>>
rollVars == <<proc, hand, done_bound, pc, lock, pending_queue, fed, generating,
              putting, finished, failed, failures, param_version, cancel_queue,
              staleness_samples, paused, monitor_loop_trigger, running,
              current_param_version, counted, weights, servers_paused>>

\* The state in which fit() starts its coroutines, after the first weight
\* synchronization (version 0) has paused, updated and resumed the Rollouter.
RollInit ==
    /\ queue = <<>>
    /\ val_queue = <<0>>
    /\ mq_running = TRUE
    /\ mq_version = 0
    /\ total_produced = 0
    /\ total_consumed = 0
    /\ dropped_samples = 0
    /\ waiting = {}
    /\ woken = {}
    /\ reply = [c \in {"trainer"} |-> -2]
    /\ proc = <<"run", "top">>
    /\ pc = [feed |-> "feeding", main |-> "wait", monitor |-> "sleep",
             pause |-> "idle", update |-> "idle", resume |-> "idle"]
    /\ lock = <<>>
    /\ pending_queue = <<>>
    /\ fed = 0
    /\ hand = NoSample
    /\ generating = {}
    /\ putting = {}
    /\ finished = 0
    /\ failed = 0
    /\ done_bound = FALSE
    /\ failures = 0
    /\ cancel_queue = <<>>
    /\ staleness_samples = 0
    /\ paused = FALSE
    /\ monitor_loop_trigger = TRUE
    /\ running = TRUE
    /\ current_param_version = 0
    /\ counted = 0
    /\ weights = 0
    /\ servers_paused = FALSE
    /\ param_version = [s \in Samples |-> 0]

-----------------------------------------------------------------------------
(* Event loop, lock and condition *)

Idle == proc[1] # "run"

LockFree == lock = <<>>
Owns(c) == lock # <<>> /\ Head(lock) = c
Enqueue(c) == lock' = Append(lock, c)
Release == lock' = Tail(lock)

\* Mutant: the condition is never notified.
NotifiedNever(p) == p

\* condition.notify_all(): only the processor ever waits on the condition.
Notified(p) == IF p[1] = "cond" THEN <<"woken", p[2]>> ELSE p

Goto(c, label) == pc' = [pc EXCEPT ![c] = label]

ActiveCount == Cardinality(generating) + Cardinality(putting) + finished + failed

\* Mutant: generation pauses one sample too late.
ShouldPauseLate ==
    \/ Len(queue) > MaxRequiredSamples
    \/ staleness_samples > MaxRequiredSamples

ShouldPauseGeneration ==
    \/ Len(queue) >= MaxRequiredSamples
    \/ staleness_samples >= MaxRequiredSamples

-----------------------------------------------------------------------------
(* _feed_samples *)

FeedItem(i) == IF i <= TotalRolloutSteps THEN i ELSE DONE

\* The feed runs until pending_queue is full or DONE is in it.
FeedSamples ==
    /\ Idle
    /\ pc["feed"] = "feeding"
    /\ LET room == PendingQueueSize - Len(pending_queue)
           left == DONE - fed
           n == IF room < left THEN room ELSE left
       IN /\ n > 0
          /\ pending_queue' = pending_queue \o [i \in 1..n |-> FeedItem(fed + i)]
          /\ fed' = fed + n
          /\ IF n = left THEN Goto("feed", "end") ELSE UNCHANGED pc
    /\ UNCHANGED <<procVars, lock, taskVars, cancel_queue, staleness_samples,
                   flagVars, versionVars, mqVars>>

-----------------------------------------------------------------------------
(* _processor_worker *)

\* Mutant: submitted samples are not counted.
TakePendingUncounted ==
    /\ pending_queue # <<>>
    /\ pending_queue' = Tail(pending_queue)
    /\ UNCHANGED staleness_samples
    /\ IF Head(pending_queue) = DONE
       THEN proc' = <<"run", "end">> /\ UNCHANGED hand
       ELSE proc' = <<"run", "limit">> /\ hand' = Head(pending_queue)

\* pending_queue.get(): DONE counts as a stale sample too.
TakePending ==
    /\ pending_queue # <<>>
    /\ pending_queue' = Tail(pending_queue)
    /\ staleness_samples' = staleness_samples + 1
    /\ IF Head(pending_queue) = DONE
       THEN proc' = <<"run", "end">> /\ UNCHANGED hand
       ELSE proc' = <<"run", "limit">> /\ hand' = Head(pending_queue)

ProcPause ==
    /\ proc = <<"run", "top">>
    /\ paused \/ ShouldPauseGeneration
    /\ IF LockFree
       THEN paused' = TRUE /\ proc' = <<"run", "drain">> /\ UNCHANGED lock
       ELSE Enqueue("proc") /\ proc' = <<"lock", "flag">> /\ UNCHANGED paused
    /\ UNCHANGED <<hand, done_bound, pc, feedVars, taskVars, cancel_queue, staleness_samples,
                   monitor_loop_trigger, running, versionVars, mqVars>>

ProcPauseLocked ==
    /\ proc = <<"lock", "flag">>
    /\ Owns("proc")
    /\ paused' = TRUE
    /\ Release
    /\ proc' = <<"run", "drain">>
    /\ UNCHANGED <<hand, done_bound, pc, feedVars, taskVars, cancel_queue, staleness_samples,
                   monitor_loop_trigger, running, versionVars, mqVars>>

\* Interrupted samples go first; without one the processor takes the next
\* pending sample, or suspends in get() when there is none.
ProcTake ==
    /\ proc = <<"run", "top">>
    /\ ~paused
    /\ ~ShouldPauseGeneration
    /\ \/ /\ cancel_queue # <<>>
          /\ hand' = Head(cancel_queue)
          /\ cancel_queue' = Tail(cancel_queue)
          /\ proc' = <<"run", "limit">>
          /\ UNCHANGED <<pending_queue, staleness_samples>>
       \/ /\ cancel_queue = <<>>
          /\ TakePending
          /\ UNCHANGED cancel_queue
       \/ /\ cancel_queue = <<>>
          /\ pending_queue = <<>>
          /\ proc' = <<"blocked", "get">>
          /\ UNCHANGED <<hand, cancel_queue, pending_queue, staleness_samples>>
    /\ UNCHANGED <<done_bound, pc, lock, fed, taskVars, flagVars, versionVars, mqVars>>

ProcGot ==
    /\ proc = <<"blocked", "get">>
    /\ TakePending
    /\ UNCHANGED <<done_bound, pc, lock, fed, taskVars, cancel_queue, flagVars, versionVars, mqVars>>

\* The three loops that wait for tasks, and where each goes when it is over:
\* after a pause decision, after DONE, and at the concurrency limit.
DrainLoops == {"drain", "end", "limit"}

\* Mutant: at the end of the data running tasks are not waited for.
MustDrainNotAtEnd(loop) ==
    CASE loop = "limit" -> ActiveCount >= MaxConcurrentSamples
      [] loop = "drain" -> ActiveCount > 0
      [] loop = "end"   -> FALSE

MustDrain(loop) ==
    IF loop = "limit" THEN ActiveCount >= MaxConcurrentSamples ELSE ActiveCount > 0

AfterDrain(loop) ==
    CASE loop = "drain" -> <<"run", "sleep">>
      [] loop = "end"   -> <<"end", "done">>
      [] loop = "limit" -> <<"run", "submit">>

ProcDrainTest(loop) ==
    /\ proc = <<"run", loop>>
    /\ IF ~MustDrain(loop)
       THEN proc' = AfterDrain(loop) /\ UNCHANGED lock
       ELSE /\ Enqueue("proc")
            /\ proc' = <<IF LockFree THEN "wait" ELSE "lock", loop>>
    /\ UNCHANGED <<hand, done_bound, pc, feedVars, taskVars, cancel_queue, staleness_samples,
                   flagVars, versionVars, mqVars>>

\* Mutant: active_tasks is not tested again under the lock, and asyncio.wait
\* raises ValueError on an empty set.
ProcDrainLockedUnchecked(loop) ==
    /\ proc = <<"lock", loop>>
    /\ Owns("proc")
    /\ IF ActiveCount > 0
       THEN proc' = <<"wait", loop>> /\ UNCHANGED lock
       ELSE proc' = <<"end", "crashed">> /\ Release
    /\ UNCHANGED <<hand, done_bound, pc, feedVars, taskVars, cancel_queue, staleness_samples,
                   flagVars, versionVars, mqVars>>

\* The lock arrives late: pause() may have emptied active_tasks meanwhile.
\* Then "for task in done_tasks" runs over the tasks of an earlier turn, or
\* raises UnboundLocalError when there was none.
ProcDrainLocked(loop) ==
    /\ proc = <<"lock", loop>>
    /\ Owns("proc")
    /\ \/ /\ ActiveCount > 0
          /\ proc' = <<"wait", loop>>
          /\ UNCHANGED lock
       \/ /\ ActiveCount = 0
          /\ proc' = IF done_bound THEN <<"run", loop>> ELSE <<"end", "crashed">>
          /\ Release
    /\ UNCHANGED <<hand, done_bound, pc, feedVars, taskVars, cancel_queue, staleness_samples,
                   flagVars, versionVars, mqVars>>

\* asyncio.wait returns: the tasks done so far leave active_tasks, and
\* awaiting one that raised ends the processor.
ProcDrainWake(loop) ==
    /\ proc = <<"wait", loop>>
    /\ finished + failed > 0
    /\ finished' = 0
    /\ failed' = 0
    /\ done_bound' = TRUE
    /\ proc' = IF failed > 0 THEN <<"end", "crashed">> ELSE <<"run", loop>>
    /\ Release
    /\ UNCHANGED <<hand, pc, feedVars, generating, putting, failures, param_version,
                   cancel_queue, staleness_samples, flagVars, versionVars, mqVars>>

\* With the lock held: wait on the condition while paused, else go on; at
\* "submit" that creates the task of the sample in hand.
UnderLock(where) ==
    \/ /\ paused
       /\ proc' = <<"cond", where>>
       /\ UNCHANGED <<hand, generating>>
    \/ /\ ~paused
       /\ proc' = <<"run", "top">>
       /\ IF where = "submit"
          THEN generating' = generating \cup {hand} /\ hand' = NoSample
          ELSE UNCHANGED <<hand, generating>>

ProcEnter(where) ==
    /\ proc = <<"run", where>>
    /\ IF LockFree
       THEN UnderLock(where) /\ UNCHANGED lock
       ELSE Enqueue("proc") /\ proc' = <<"lock", where>> /\ UNCHANGED <<hand, generating>>
    /\ UNCHANGED <<done_bound, pc, feedVars, putting, finished, failed, failures, param_version,
                   cancel_queue, staleness_samples, flagVars, versionVars, mqVars>>

ProcEnterLocked(where) ==
    /\ proc = <<"lock", where>>
    /\ Owns("proc")
    /\ UnderLock(where)
    /\ Release
    /\ UNCHANGED <<done_bound, pc, feedVars, putting, finished, failed, failures, param_version,
                   cancel_queue, staleness_samples, flagVars, versionVars, mqVars>>

\* Mutant: after the pause the loop starts over, with a sample in hand.
ProcWokenContinue(where) ==
    /\ proc = <<"woken", where>>
    /\ proc' = <<"run", "top">>
    /\ UNCHANGED <<hand, done_bound, pc, lock, feedVars, taskVars, cancel_queue,
                   staleness_samples, flagVars, versionVars, mqVars>>

\* Notified: the condition takes the lock again before wait() returns.
ProcWoken(where) ==
    /\ proc = <<"woken", where>>
    /\ proc' = <<"run", where>>
    /\ UNCHANGED <<hand, done_bound, pc, lock, feedVars, taskVars, cancel_queue,
                   staleness_samples, flagVars, versionVars, mqVars>>

ProcessorStep ==
    \/ ProcPause \/ ProcPauseLocked \/ ProcTake \/ ProcGot
    \/ \E loop \in DrainLoops :
          ProcDrainTest(loop) \/ ProcDrainLocked(loop) \/ ProcDrainWake(loop)
    \/ \E where \in {"sleep", "submit"} :
          ProcEnter(where) \/ ProcEnterLocked(where) \/ ProcWoken(where)

-----------------------------------------------------------------------------
(* _process_single_sample_streaming *)

\* Generation returns complete; the sample is labelled with the Rollouter's
\* current version.
TaskGenerated(s) ==
    /\ Idle
    /\ s \in generating
    /\ generating' = generating \ {s}
    /\ putting' = putting \cup {s}
    /\ param_version' = [param_version EXCEPT ![s] = current_param_version]
    /\ UNCHANGED <<procVars, pc, lock, feedVars, finished, failed, failures, cancel_queue,
                   staleness_samples, flagVars, versionVars, mqVars>>

TaskPut(s) ==
    /\ Idle
    /\ s \in putting
    /\ MQ!PutSample(s)
    /\ putting' = putting \ {s}
    /\ finished' = finished + 1
    /\ UNCHANGED <<procVars, pc, lock, feedVars, generating, failed, failures, param_version,
                   cancel_queue, staleness_samples, flagVars, versionVars>>

\* Generation was interrupted: the partial sample waits in cancel_queue.
TaskCancelled(s) ==
    /\ Idle
    /\ servers_paused
    /\ s \in generating
    /\ generating' = generating \ {s}
    /\ cancel_queue' = Append(cancel_queue, s)
    /\ finished' = finished + 1
    /\ UNCHANGED <<procVars, pc, lock, feedVars, putting, failed, failures, param_version,
                   staleness_samples, flagVars, versionVars, mqVars>>

TaskFails(s) ==
    /\ Idle
    /\ failures < MaxFailures
    /\ s \in generating
    /\ generating' = generating \ {s}
    /\ failed' = failed + 1
    /\ failures' = failures + 1
    /\ UNCHANGED <<procVars, pc, lock, feedVars, putting, finished, param_version, cancel_queue,
                   staleness_samples, flagVars, versionVars, mqVars>>

-----------------------------------------------------------------------------
(* _async_monitor_loop *)

\* The trigger and the queues are read before the lock is taken.  The lock
\* the loop takes to read self.running only lengthens its sleep.
MonitorWake ==
    /\ Idle
    /\ pc["monitor"] = "sleep"
    /\ IF monitor_loop_trigger /\ ~ShouldPauseGeneration /\ ~LockFree
       THEN /\ Enqueue("monitor")
            /\ Goto("monitor", "lock")
            /\ UNCHANGED <<paused, proc>>
       ELSE /\ IF monitor_loop_trigger /\ ~ShouldPauseGeneration
               THEN paused' = FALSE /\ proc' = Notified(proc)
               ELSE UNCHANGED <<paused, proc>>
            /\ Goto("monitor", IF running THEN "sleep" ELSE "end")
            /\ UNCHANGED lock
    /\ UNCHANGED <<hand, done_bound, feedVars, taskVars, cancel_queue, staleness_samples,
                   monitor_loop_trigger, running, versionVars, mqVars>>

MonitorLocked ==
    /\ Idle
    /\ pc["monitor"] = "lock"
    /\ Owns("monitor")
    /\ paused' = FALSE
    /\ proc' = Notified(proc)
    /\ Release
    /\ Goto("monitor", IF running THEN "sleep" ELSE "end")
    /\ UNCHANGED <<hand, done_bound, feedVars, taskVars, cancel_queue, staleness_samples,
                   monitor_loop_trigger, running, versionVars, mqVars>>

-----------------------------------------------------------------------------
(* pause, update_param_version, resume: calls of the ParameterSynchronizer *)

\* A coroutine that was called takes the lock, or queues for it; either way
\* it goes on only as the owner.
Entered(c) ==
    \/ pc[c] = "called" /\ LockFree
    \/ pc[c] = "lock" /\ Owns(c)

CallQueues(c) ==
    /\ Idle
    /\ pc[c] = "called"
    /\ c = "resume" => pc["update"] = "idle"
    /\ ~LockFree
    /\ Enqueue(c)
    /\ Goto(c, "lock")
    /\ UNCHANGED <<procVars, feedVars, taskVars, cancel_queue, staleness_samples, flagVars,
                   versionVars, mqVars>>

GatherOrFinish == IF ActiveCount = 0 THEN "clear" ELSE "gather"

PauseBegin ==
    /\ Idle
    /\ Entered("pause")
    /\ lock' = IF LockFree THEN <<"pause">> ELSE lock
    /\ paused' = TRUE
    /\ Goto("pause", IF PartialRollout THEN "cancel" ELSE GatherOrFinish)
    /\ UNCHANGED <<procVars, feedVars, taskVars, cancel_queue, staleness_samples,
                   monitor_loop_trigger, running, versionVars, mqVars>>

PauseCancel ==
    /\ Idle
    /\ pc["pause"] = "cancel"
    /\ servers_paused' = TRUE
    /\ Goto("pause", GatherOrFinish)
    /\ UNCHANGED <<procVars, lock, feedVars, taskVars, cancel_queue, staleness_samples, flagVars,
                   current_param_version, counted, weights, mqVars>>

\* gather(return_exceptions=True): a task that raised is forgotten here.
PauseGathered ==
    /\ Idle
    /\ pc["pause"] = "gather"
    /\ generating = {}
    /\ putting = {}
    /\ finished' = 0
    /\ failed' = 0
    /\ Goto("pause", "clear")
    /\ UNCHANGED <<procVars, lock, feedVars, generating, putting, failures, param_version,
                   cancel_queue, staleness_samples, flagVars, versionVars, mqVars>>

\* clear_kv_cache has returned.
PauseEnd ==
    /\ Idle
    /\ pc["pause"] = "clear"
    /\ monitor_loop_trigger' = FALSE
    /\ Release
    /\ Goto("pause", "returned")
    /\ UNCHANGED <<procVars, feedVars, taskVars, cancel_queue, staleness_samples, paused, running,
                   versionVars, mqVars>>

\* The version sent is that of the weights just transferred.
UpdateBegin ==
    /\ Idle
    /\ Entered("update")
    /\ lock' = IF LockFree THEN <<"update">> ELSE lock
    /\ current_param_version' = weights
    /\ counted' = ActiveCount + Len(cancel_queue)
    /\ Goto("update", "size")
    /\ UNCHANGED <<procVars, feedVars, taskVars, cancel_queue, staleness_samples, flagVars,
                   weights, servers_paused, mqVars>>

\* Mutant: an update does not reset the count.
StalenessKept == staleness_samples

\* What the new version starts with: the tasks and interrupted samples counted
\* before the answer of get_queue_size, and the size it reports.
StalenessAfterUpdate == counted + Len(queue)

\* get_queue_size answers; then validation and its result.
UpdateEnd ==
    /\ Idle
    /\ pc["update"] = "size"
    /\ staleness_samples' = StalenessAfterUpdate
    /\ MQ!PutValidate(current_param_version)
    /\ Release
    /\ Goto("update", "idle")
    /\ UNCHANGED <<procVars, feedVars, taskVars, cancel_queue, flagVars, versionVars>>

\* resume() is given the reference of the update call: Ray starts it after.
ResumeGeneration ==
    /\ paused' = FALSE
    /\ monitor_loop_trigger' = TRUE
    /\ proc' = Notified(proc)
    /\ Goto("resume", "idle")

ResumeBegin ==
    /\ Idle
    /\ pc["update"] = "idle"
    /\ Entered("resume")
    /\ IF PartialRollout
       THEN /\ lock' = IF LockFree THEN <<"resume">> ELSE lock
            /\ Goto("resume", "servers")
            /\ UNCHANGED <<paused, monitor_loop_trigger, proc>>
       ELSE /\ lock' = IF LockFree THEN lock ELSE Tail(lock)
            /\ ResumeGeneration
    /\ UNCHANGED <<hand, done_bound, feedVars, taskVars, cancel_queue, staleness_samples, running,
                   versionVars, mqVars>>

ResumeEnd ==
    /\ Idle
    /\ pc["resume"] = "servers"
    /\ servers_paused' = FALSE
    /\ ResumeGeneration
    /\ Release
    /\ UNCHANGED <<hand, done_bound, feedVars, taskVars, cancel_queue, staleness_samples, running,
                   current_param_version, counted, weights, mqVars>>

-----------------------------------------------------------------------------
(* _streaming_generation_main after the processor has ended *)

\* However the processor ended, the finish signal is put.
MainFinish ==
    /\ pc["main"] = "wait"
    /\ proc[1] = "end"
    /\ MQ!PutSample(None)
    /\ Goto("main", "called")
    /\ UNCHANGED <<procVars, lock, feedVars, taskVars, cancel_queue, staleness_samples, flagVars,
                   versionVars>>

MainStop ==
    /\ Entered("main")
    /\ lock' = IF LockFree THEN lock ELSE Tail(lock)
    /\ running' = FALSE
    /\ Goto("main", "end")
    /\ UNCHANGED <<procVars, feedVars, taskVars, cancel_queue, staleness_samples, paused,
                   monitor_loop_trigger, versionVars, mqVars>>

\* fit() returns when both generation and monitor are over.
FitReturned == pc["main"] = "end" /\ pc["monitor"] = "end"

-----------------------------------------------------------------------------

TaskReturns(s) == TaskGenerated(s) \/ TaskPut(s) \/ TaskCancelled(s)
TaskStep == \E s \in Samples : TaskReturns(s) \/ TaskFails(s)

CallStep ==
    \/ \E c \in {"pause", "update", "resume", "main"} : CallQueues(c)
    \/ PauseBegin \/ PauseCancel \/ PauseGathered \/ PauseEnd
    \/ UpdateBegin \/ UpdateEnd
    \/ ResumeBegin \/ ResumeEnd

MonitorStep == MonitorWake \/ MonitorLocked
MainStep == MainFinish \/ MainStop

RollNext ==
    \/ FeedSamples \/ ProcessorStep \/ TaskStep
    \/ MonitorStep \/ CallStep \/ MainStep
=============================================================================
