# OdysSim: TLA+ models and proofs

OdysSim trains user-simulating language models. It is a fork of verl 0.7.0: a library of Ray
actors for reinforcement learning (`verl/`), the environments and rollouts of the project
(`agents/`), recipes that combine them (`recipe/`), and supervised fine-tuning (`sft/`).
This directory models the parts of it whose correctness is a matter of control: actors,
coroutines and queues whose steps interleave.

## 1. Inventory

| Component | State it keeps | Operations | Hard behaviour |
|---|---|---|---|
| **Message queue** `recipe/fully_async_policy/message_queue.py` | sample deque, validation deque, running flag, version, three counters, a condition | put, get, clear, shutdown, update version, put/get validation | drop-oldest at the limit; competing waiters; shutdown with sleepers |
| **Rollouter** `fully_async_rollouter.py` | pending and cancel queues, active tasks, `staleness_samples`, `paused`, `monitor_loop_trigger`, one lock and condition, version | feed, processor, one task per sample, monitor; calls pause, update_param_version, resume | every `await` is an interleaving point; the lock is held across awaits; state is read before an await and used after it |
| **Trainer** `fully_async_trainer.py` | batch, version, `local_trigger_step` | collect a batch, train, synchronize, final validation | blocking calls into actors that call back; end of data |
| **Parameter synchronizer** `param_sync.py` | references of the last update and resume | sync_weights, wait_last_valid | update and resume run behind the caller's back |
| **Task runner** `fully_async_main.py` | futures of both fit calls | start, wait, clear | one component failing |
| **Partial rollout** `vllm_rollout/`, `agent_loop/` | per-request events and outputs, paused flag, cancellation event | generate, cancel, resume | a cancel racing the first token; resumed multi-chunk turns |
| **Checkpoint engine** `checkpoint_engine.py` | buckets in host memory, a device buffer in two halves, two sockets per rank | cache, broadcast, load | a thread loads one half while the next bucket is broadcast; barriers and sockets waiting for one another |
| **Checkpointing** (trainer and Rollouter, `verl/utils/checkpoint/`) | checkpoint directories, tracker file, dataloader position | save, load, rotation | a crash between two steps; samples in flight |
| **One-step-off trainer** `recipe/one_step_off_policy/` | the future of the next batch, two copies of the weights | fit | generation beside training; resume with a batch in flight |
| **Distillation trainer** `recipe/gkd/` | futures of rollout and teacher, padded buffers shared by all batches | two schedulers, fit | overlap by the order of statements; stale buffers |
| **Teacher client** `recipe/gkd/teacher/` | task queue, one REQ socket per thread, futures | submit, background thread | a time-out racing a late answer |
| **Synchronous trainer and actor** `verl/trainer/ppo/`, `verl/workers/actor/dp_actor.py` | the rows of a batch with their uids | generate, join, pad, balance, log probabilities, advantages, update; validate | rollouts of any number of rows; reordered rows; dummies |
| **Batch balancing** `verl/utils/seqlen_balancing.py` | a heap of states of sets | partition, rearrange, restore | rows without tokens; ties |
| **Environment client** `agents/env_utils.py`, `agents/tau_usi/` | the client's runtime id and conversation; the service's runtimes | create, ping, step, restore, reward | retries of what was already executed; a service that forgets |
| **Rate limiters** `verl/experimental/reward_loop/`, `verl/tools/` | token buckets, semaphore, executor threads | acquire, score with time-out | oversize requests; a call that outlives its time-out |
| **Model and judge clients, agent context** `agents/utils.py` | attempt counters, token segments | call with fallback, append | fallback and retry order |
| **Agent loop core** `verl/experimental/agent_loop/` | server heap and sticky map, tool-agent state | generate, tool calls, interaction turns | load balance, limits on turns and lengths |
| Single controller, engines and kernels, other recipes, environments and benchmarks, SFT | | | see section 7 |

How they interact: the Rollouter puts samples into the message queue and the trainer takes
them, blocking. After `trigger_parameter_sync_step` steps the trainer calls the
synchronizer, which calls the Rollouter's `pause`, transfers the weights, and starts
`update_param_version` and `resume` without waiting for them; the next synchronization waits
for both first. `update_param_version` validates and puts the result into the validation
queue, which the trainer polls. At the end of the data the Rollouter puts `None`, and the
trainer stops at the first `None`.

The synchronous trainer calls the agent loops, which call the environment client, the reward
manager and its rate limiter; it balances the rows over the ranks of the actor. The
one-step-off and the distillation trainer replace its loop by one that overlaps generation,
the latter with a teacher behind the teacher client. The synchronizer's transfer of weights
is the checkpoint engine.

What makes each correct: the queue never loses a fresh sample or a wake-up; the Rollouter
keeps its quota of samples ahead of training, never generates during a weight transfer and
never loses a sample; versions of trainer, queue and Rollouter stay one synchronization
apart; both sides end. The checkpoint engine delivers every parameter of one version; the
trainers that overlap generation train on every batch once, with weights and knowledge that
belong to it; a crash loses only what was in flight; the rows of a batch meet the prompt,
the log probabilities and the group they belong to; partitions are balanced and whole;
requests for rewards keep their budgets and get an answer.

## 2. Modules

| Module | Models | Uses |
|---|---|---|
| `MessageQueue` | the queue actor; one action per method, three for `get_sample` | |
| `SampleLog` | what the queue promises: an append-only log and a cursor | |
| `MessageQueueHistory` | the queue with its log of puts; the refinement mapping | extends `MessageQueue`, instantiates `SampleLog` |
| `MCMessageQueue` | the instance TLC checks | extends `MessageQueueHistory` |
| `MessageQueueProofs` | proofs about the queue | extends `MessageQueueHistory` |
| `Rollouter` | every coroutine and call of the Rollouter | instantiates `MessageQueue` |
| `FullyAsync` | trainer, synchronizer and task runner, composed with the Rollouter | extends `Rollouter` |
| `FullyAsyncProofs` | proofs about its versions, samples, quota and end | extends `FullyAsync` |
| `PartialRollout` | rollouts of one sample under cancel and resume | |
| `MCPartialRollout` | its two setups: a tool conversation, two single-turn rollouts | extends and instantiates `PartialRollout` |
| `PartialRolloutProofs` | proofs about the rollouts of one sample | extends `PartialRollout` |
| `MCPartialRolloutProofs` | the same of the two setups | extends `MCPartialRollout`, instantiates `PartialRolloutProofs` |
| `AsyncCheckpoint` | checkpoints, crashes and restarts | |
| `CheckpointEngine` | buckets, broadcasts and loading threads of a weight transfer | |
| `CheckpointEngineProofs` | proofs about them | extends `CheckpointEngine` |
| `OneStepOff` | the one-step-off trainer with its checkpoints | |
| `TeacherClient` | threads, sockets and futures of the teacher client | |
| `DistillPipeline` | the schedulers and fit of the distillation trainer | instantiates `TeacherClient` |
| `RuntimeEnv` | tool calls of a rollout in a remote environment | |
| `RateLimits` | token buckets, slots and time-outs of reward requests | |
| `RolloutBatch` | the rows of one batch of the synchronous trainer | |
| `RolloutBatchProofs` | proofs about it | extends `RolloutBatch` |
| `SeqlenBalancing` | the Karmarkar-Karp partition | |
| `SeqlenBalancingProofs` | proofs about it | extends `SeqlenBalancing` |
| `MCComponents` | the components that share no state, side by side | extends `AsyncCheckpoint`, instantiates the seven others |
| `ComponentsProofs` | proofs about them, and about `AsyncCheckpoint` alone | extends `MCComponents`, instantiates the proofs of `CheckpointEngine`, `RolloutBatch` and `SeqlenBalancing` |

The numbers that bound or configure a component are constants of its module. `MCComponents`
hands them on as constants of its own, with the prefix of the component (`Off`, `Gkd`,
`Eng`, `Lim`, `Rt`, `Bat`, `Bal`), and `MCPartialRollout` those of its two setups, so that
the theorems about the compositions hold for all their values as well; the `.cfg` files
choose the instance TLC checks.

### State and code

`MessageQueue` has the actor's attributes under their own names, plus `waiting` and `woken`,
the callers inside `Condition.wait()` before and after a notification, and `reply`, what
each caller last received. No method but `get_sample` awaits while it holds the lock, so
each is one step.

`Rollouter` models asyncio's cooperative scheduling. One coroutine runs until it suspends.
The processor (`_processor_worker`) is the only one that does several things between
suspensions: `proc = <<how, where>>` says whether it runs (`"run"`), waits for the lock
(`"lock"`), waits for a task with the lock held (`"wait"`), sleeps on the condition
(`"cond"`, then `"woken"`), or is blocked on an empty queue. `where` names the place in the
loop: `top` 426, `drain` 432, `sleep` 442, `limit` 471, `submit` 481, `end` 460. While it
runs nothing else of the Rollouter does (`Idle`). `asyncio.Lock` is first-in first-out, so
`lock` is a sequence: the owner and the coroutines waiting. The active tasks are kept by
phase (`generating`, `putting`) and, once done, as the counts `finished` and `failed` of
tasks not yet removed from `active_tasks`; the difference matters, since `len(active_tasks)`
counts them. `pc` holds the remaining coroutines.

`get_statistics_sync` is a blocking call inside the event loop, so reading the queue's
length is part of the step that tests it; `get_queue_size` is awaited, so
`update_param_version` is two steps and `counted` is what it read before the second.

`FullyAsync` adds the trainer's program counter; the synchronizer runs inside the trainer's
blocking call. `weights` is the version in the rollout servers, `Loading` during the
transfer.

`FullyAsync` has one step for `cancel` and one for `resume` of the rollout servers;
`PartialRollout` opens them. It follows the rollouts of one sample through the agent loop
(`run`: in the loop, request sent, generating, in a tool, handed back), the request on its
server (`req_output`, `cancel_event`, and `generated` for a finished generation task), and
the calls of `cancel` and `resume`, which reach servers and workers in any order. The phases
are those of `pause` and `resume`: the weights change when all calls have returned and the
sample is back, and the sample is submitted only while the Rollouter runs. A token is its
kind, whether it ends its turn, and the version of the weights behind it; the properties
need no more. The server's lock is left out because no critical section contains an `await`.
Two things a server keeps of a request cancelled before its first token (`cancel_event`,
`req_output`, line 107) are left out as well: they are never read.

`AsyncCheckpoint` cuts `_save_checkpoint` into the writes of the processes involved
(`todo`), puts a crash between any two, and restores what is on disk. Rollouter, message
queue and everything in flight are one first-in first-out sequence; what matters here is
which samples the weights have learnt from and where the data loader is.

`RuntimeEnv` is one Tau rollout, sequential on the client's side: `pc` is the request it has
to make next, one action per request (`Create`, `Ping`, `Replay`, `ExecuteStep`,
`GetReward`), each with its outcome: answered, refused (4xx), unreachable, or served without
the answer arriving. A connection error is tried again up to `MaxAttempts`, which stands for
30 seconds of attempts two seconds apart; a timeout ends the request at once, so the model
lets any lost request be the last. The adversary is the service's restart or idle expiry,
`Forget`. A call is its place in the conversation and is a tool of the environment, an
unknown tool, or a message in the wrong format, of which `restore` makes a step the service
refuses (`actions.extend` takes the key of the error).

`CheckpointEngine` has one process per rank, and a loading thread per rank. A broadcast is
the append to `sent` by its source and the read of it by every other rank, and a barrier is
a count of arrivals, so that a rank may run ahead as far as the collectives allow.
`register_checkpoint` puts one parameter after the other into the buckets
(`AssignParameter`); a bucket is its size and the names and offsets of its tensors. The loop
is the same on every rank, so it is modelled once, before the first barrier. `turn[r]` is
the bucket at which the two loops of `update_checkpoint` are. A buffer holds the last bucket
written to it, so a buffer overwritten too early shows as parameters with another bucket's
values.

`OneStepOff` has one action per statement of `fit` that an `await` or a crash separates
(`fit` names the next). Weights are the set of batches they were trained on: what a
checkpoint restores and what a resume repeats shows in them.

`DistillPipeline` gives each iteration of a scheduler the list of its calls (`todo`), from
the branch the code takes for `i`; fit runs between two yields. Generations are numbered in
the order they are started, so a batch generated twice is two generations. `TeacherClient`
follows each background thread through get, send and receive; `socket[t]` is the alternation
that ZeroMQ enforces on a REQ socket. The service answers, reports an error, or is late, in
which case the answer may still arrive.

`RateLimits` measures time in ticks and lets everything the event loop can run happen before
the next. `ideal` is a history variable: the level of a bucket that every request pays when
it is let through. `call` is the call of `compute_score`, which may outlive its request
(`wait_for` cannot stop a thread).

`RolloutBatch` is sequential: `stage` is the place in `fit` or `_validate`, and each action
one of their calls with all it does to the rows. The nondeterminism is in the data: what
each rollout returns (one row, several, a hinted copy, nothing), how long the rows are and
how ties are broken. Tokens are reduced to their number, rewards to names. The partition
into ranks and micro-batches is any that `get_seqlen_balanced_partitions` may return as
`SeqlenBalancing` has it: all items, none empty, and equal sizes where asked.

`SeqlenBalancing` is the heap: `Merge` pops two states and pushes their merge. Ties, which
the code breaks by comparing lists of items, are left open.

Lines named in `PROJECT.json` tie every definition to the code.

## 3. Runs

| Run | Instance | Question and answer |
|---|---|---|
| `message_queue` | 2 samples and `None`, 2 consumers, capacity 2, 4 puts | Does the queue keep the newest samples, its counters, its wake-ups, and implement `SampleLog`? Yes. |
| `on_policy` | 11 samples, batches of 2, 2 steps per version, quota 4, 3 concurrent | With staleness threshold 0, is training on-policy, within quota and complete? Yes. |
| `staleness` | 3 samples, quota 2, 2 concurrent, one failing task, no partial rollout | With threshold 1, are versions ordered, does the processor survive, is validation logged, does nobody wait forever, and does the system end? Yes. |
| `partial` | 4 samples, quota 2, 2 concurrent, one failing task | With interruptions, is every sample accounted for, and does what runs generate with the weights of the version a sample that returns is labelled with? Yes. |
| `stalled` | 4 samples, partial rollout | Does nobody wait forever? No. |
| `partial_rollout` | 1 tool-calling rollout of 5 tokens and 2 turns on 2 workers, or 2 single-turn rollouts on 2 servers; 2 synchronizations | Do interrupted rollouts stay consistent, are they scored once, do cancels reach every request and does the sample end? Yes. |
| `partial_split` | 1 rollout, 3 turns, 1 synchronization | Is every tool call executed? No. |
| `components` | eight components, one at a time; see below | Does each keep its promises, and end? Yes. |
| `runtime_replay` | 3 calls, nothing lost, the service restarts | Is each call executed once? No. |
| `gkd_one_step` | one-step-off distillation, 4 batches | Is every batch trained on once? No. |
| `teacher_timeout` | two-step-off distillation, 4 batches, one time-out | Is a batch skipped only for a failure of its own? No. |
| `balance_order` | 1 prompt, 2 rollouts of up to 2 sub-sequences, 1 rank | Does balancing leave the advantages alone? No. |

`MCComponents` puts the components that share no state into one state machine: the variable
`part` says which is at work, and the others stand still in one initial state, so the state
space is the sum of theirs and each property is about one of them.

| `part` | Instance | Properties |
|---|---|---|
| `checkpoint` | 8 samples in batches of 2, 2 steps per version, 2 restarts, 2 checkpoints kept, with and without an elastic instance | `CheckpointWhole`, `SamplesKept`, `TrainingCounted`: the latest checkpoint is whole wherever the job dies, a restart repeats no sample and loses only those in flight, the counters agree with the training |
| `one_step_off` | 6 batches, 5 steps, the first without an update of the actor, 2 crashes | `OffPolicyByOne`: weights lag by at most one update and never change under a generation; a checkpoint misses at most the batch in flight |
| `distillation` | 4 batches two steps off, 2 teacher threads, one time-out or error | `DistillsEachOnce`, `DistillKnowledge`: every batch once, in order, with its own knowledge although all share two buffers |
| `engine` | 3 parameters of size 1 or 2, 2 actor ranks, 1 rollout rank, 2 transfers, with and without overlap | `EngineDelivers`: buckets hold every parameter once; whoever leaves a transfer has that version in every parameter |
| `limits` | 3 requests, a request budget they fit in (2 tokens of 2) and a token budget they do not (3 of 2), 1 slot, 2 threads | `LimitsRespected`: no more is let through than the budget and one burst; no more calls than slots |
| `runtime` | 3 calls, 2 attempts, any number of losses and restarts | `RuntimeAsSeen`: recovery by replay keeps what the agent has seen, in order, and rewards no call outside the conversation |
| `batch` | 2 prompts rolled out twice, or 3 prompts validated by 2 workers; 2 ranks, mini-batches of 2, at most 5 rows | `RowsOfPrompts`, `LogProbsAligned`, `GroupOfRollouts`, `UpdatesEachRowOnce`, `ScorePerSlot` |
| `balancing` | up to 5 rows in up to 3 partitions, workloads 0, 1, 2, 5 | `PartitionsBalanced` |

`ComponentsEnd` says that each ends: training, transfers, requests, rollouts, partitions. Of
the batch it says nothing, as that component is sequential: TLC's deadlock check shows that
it never stops short.

### What the violations show

* `stalled`: the monitor decides to resume, waits for the lock that `pause` holds, gets it
  when `pause` has returned, and un-pauses the Rollouter while weights are transferred.
  Tasks submitted to the paused servers return at once as interrupted. Until the processor
  removes them they are counted as active and as interrupted, and the quota is full with
  nothing generating.
* `partial_split`: when a turn resumes, only the tokens of the last request are searched for
  tool calls; a call generated before the interruption is never executed.
* `runtime_replay`: the conversation holds the call already when `restore` replays it, and
  `step` executes it once more.
* `gkd_one_step`: iteration 0 falls through to the `else` branch although the comment says
  it does not. Batch 0 is generated twice and trained on twice, the weights of batch 1 are
  one synchronization old, and fit returns with the last batch never trained on.
* `teacher_timeout`: a REQ socket whose answer has not arrived refuses to send. After one
  time-out every later request of that thread fails at once, and its batches are skipped,
  until the late answer is read, which nobody does.
* `balance_order`: two rollouts return the rows 1 and 2a, 2b, and the reward of 2b is half
  that of 2a. All are equally long, so `_balance_batch` leaves the order 1, 2b, 2a, and
  `compute_foldgrpo_advantage`, which takes the first row it sees of a `gen_uid`, compares
  the rollouts by the reward of 2b instead of 2a. The comment of `ray_trainer.py:1634-1635`
  says that the order does not affect the advantages.

Each is a trace of the code as it is. `stalled` uses a configuration the documentation
recommends (`staleness_threshold` 1 with partial rollout).

### What is true only under a restriction

* `WithinQuota` is checked, and proved, with threshold 0. With a larger one the processor
  may wait at the concurrency limit with a sample in hand, holding the lock; `pause` queues
  behind it, and the sample is submitted only after the update has reset `staleness_samples`
  to the active tasks, of which it is none: one sample more than `max_required_samples`.
  (Five samples, batches of one, a quota of two, two concurrent, three pending.)
* `LatestIsWhole` is checked with two checkpoints kept, and proved for any number but one.
  With `max_actor_ckpt_to_keep` 1 the previous actor is removed before the next one is
  written, while the tracker names it, and the folder still exists because of `data.pt`. It
  says nothing of an empty tracker: the file is truncated and then written, and a crash in
  between leaves a file every later start fails to parse (`status` is then
  `"unrecoverable"`).
* `FullLengthTraining` bounds the training from below. A finished job that is started again
  rolls out one sample more than `total_rollout_steps`, since the feed puts a sample before
  it looks at the bound.
* A sample that a synchronization interrupts after the processor has taken `DONE` stays in
  `cancel_queue` and is never generated again, since the processor only waits for active
  tasks then. `SamplesAccounted` counts it there; it is one sample at the end of the data
  for each interrupted task.
* `SlotsRespected` bounds the calls of an asynchronous `compute_score`. A synchronous one
  runs in the executor, goes on after its time-out, and gives its slot away.
* `ComponentsEnd` admits that the one-step-off trainer raises after a crash: the batch in
  flight is lost, and with one epoch the resumed job may run out of data before its last
  step.
* `JoinedToOwnPrompt` lets the step raise when a rollout returns nothing: if the totals
  happen to agree the rows are joined by position, and it is the assertion of `union` on
  equal uids that stops the training then.
* `GroupOfRollouts` says that each rollout counts once, not which of its rows: that depends
  on the balancing, as the `balance_order` run shows.
* `UpdatesEachRowOnce` is about which rows are in which update, not about losses. The loss
  of a micro-batch of dummies alone is 0/0 in `agg_loss`, and the logged `actor/pg_loss` is
  not a number then; its gradient is zero, since `masked_sum` takes masked values out by
  `torch.where`, so the optimizer steps as for any other mini-batch.
* `GeneratesWithCurrentWeights` is about the chunk now being generated. A sample interrupted
  by a synchronization and resumed after it has older chunks of older weights, and is still
  labelled with the version at its return (`fully_async_rollouter.py:511`); which versions
  its chunks span is recorded in `param_version_start` and `param_version_end`, the subject
  of `TokensConsistent`.
* `ScorePerSlot` lets the scores of the first slots include rows of the runs added by
  padding: these have the same `gen_uid`, and the larger score is kept. Empty rollouts are
  left out of the validation instance, since unpadding drops rows by position and would drop
  rows of other prompts.
* Micro-batches may exceed `ppo_max_token_len_per_gpu`; the code promises only their number.
* `VersionCountsSteps` excepts elastic instances, which save in the middle of a version, and
  is checked, and proved, where `total_rollout_steps` does not cut the data within a version
  (section 6); `ResultsAreExecuted` excepts calls
  whose replay has failed, which `restore` passes over.

## 4. Bounds

The quota, the concurrency limit and the batch are small multiples of one another as in the
code (`max_concurrent_samples <= max_required_samples`, and `max_required_samples = (1 +
threshold) * required_samples * trigger_parameter_sync_step`). Three or four samples with a
quota of two give one or two full synchronizations and another that races the end of the
data; eleven samples with a quota of four and batches of two leave one sample over, so the
final synchronization and an incomplete batch both occur. `PendingQueueSize` is 2 or 3 (128
in the code): what matters is that the feed can be behind and can be blocked.
`PendingQueueSize <= MaxConcurrentSamples` with an instance of one task would let the feed
be late by a whole quota; there the code could meet `done_tasks` unbound (line 439), which
needs a pause to take the lock between the feed's first puts and the processor's wake-up.
The event loop's order makes that practically impossible, and no finding is made of it.
`MaxFailures`, `MaxProduced`, `MaxVersion`, `MaxValidate` bound the exploration only.

In `PartialRollout` two synchronizations let a resumed rollout be interrupted again; five
tokens hold a turn in several chunks, a tool's answer and a second turn, and end inside
either; two workers let a sample be resumed by another one than interrupted it. In
`AsyncCheckpoint` two restarts give a crash of a resumed job, and eight samples with four
per version two versions and those of the samples that were lost, so that a third checkpoint
removes the first; `total_epochs` is 1, since the epochs before the restored one are counted
again on a resume. `MaxInFlight` stands for the capacities of the queues.

In `RuntimeEnv` three calls hold a message of two calls behind one whose result is known,
and a malformed one between them; two attempts give one retry of every request. Losses and
restarts are not bounded: `executed` stays finite because attempts are.

In `CheckpointEngine` sizes of 1 and 2 with a buffer of 2 give buckets that are full, half
full, and closed by a parameter that does not fit; two actor ranks give both roles to each
in turn, and a second transfer shows a rank running into it early. `OneStepOff`: two crashes
give one of a resumed job; saving every second step leaves a step to be made again; one more
batch than steps is the generation in flight at the end, and a second lost one exhausts the
data. `DistillPipeline`: four batches are the least in which every branch of both schedulers
is taken; two threads may answer in either order. `RateLimits`: three requests for one slot,
a budget that delays the third, and one smaller than any request; two ticks of time-out and
two threads let calls that have timed out fill the executor. `RolloutBatch`: lengths of 1
and 3 under a limit of 3 give micro-batches of one row and of several; four or five rows on
two ranks with mini-batches of two give one or two updates with and without a dummy.
`SeqlenBalancing`: workloads with ties, zeros, and one larger than the sum of two others;
the proofs remove the bounds.

## 5. Fairness

`MessageQueue`: a notified consumer gets the lock (weak fairness of `ResumeGetSample`);
callers owe nothing. `FullyAsync`: weak fairness of the trainer, whose process is
sequential; strong fairness of each Rollouter coroutine, because a coroutine that is ready
is in asyncio's first-in first-out ready queue and gets its turn, but is disabled in between
whenever another one runs; strong fairness of each task's return, since every generation is
bounded by its response length. Failing is never fair. `PartialRollout`: weak fairness of
the sample's submission and return, of each agent loop and of the calls of `cancel` and
`resume`; that the engine outputs tokens is assumed only by `SampleCompletes`, in the
property itself, and `PauseDrains` holds without. `RuntimeEnv`: weak fairness of the
client's next step, since every request has a timeout and every conversation a bound on its
turns; the service owes nothing, and may forget at any time. `CheckpointEngine`: weak
fairness of the assignment of parameters to buckets, which is a loop, and of every rank and
every loading thread, which are processes that block only in the
collectives and sockets that are modelled. `OneStepOff`: weak fairness of `fit` and of the
return of a generation; crashes owe nothing. `DistillPipeline`: weak fairness of the
scheduler, the generation, each thread and the service's answer; that the service is late or
fails is never fair, and bounded by `MaxTroubles`. `RateLimits`: weak fairness of every
coroutine, of time, and of the end of a synchronous `compute_score`; an asynchronous one may
never end, it is the time-out that ends the request. `SeqlenBalancing`: weak fairness of its
one sequential process. `MCComponents` states the same conditions, each for its own part.
`RolloutBatch` and `AsyncCheckpoint` have no fairness; the latter says what holds whenever
the job stops.

The order in which ready coroutines run is left open where asyncio fixes it: the models
allow more interleavings than one event loop produces, so what holds here holds there.

## 6. Proofs

TLC checks the instances of section 3; the theorems here hold for every value of the
constants that the named assumptions of the modules and the hypotheses below admit. A
theorem is about the specification without its fairness, which safety does not need. Of the
40 properties that the passing runs check, 35 are stated by a theorem; the others are the
five liveness properties.

### Message queue

`MessageQueueProofs` proves, for every capacity, every set of samples and every number of
consumers, that the queue is type-correct, holds the newest end of the log of puts, that its
counters add up, that no consumer sleeps on a non-empty or closed queue, and that it
implements `SampleLog`. The assumption is `MessageQueueAssumption` (a positive capacity; the
three special answers are no samples). The inductive invariant `HInv` is the conjunction of
the four: the suffix property needs the types, the counters need the capacity, and the
refinement needs the suffix property, which says that the head of the queue is the log entry
at the cursor. Two lemmas about suffixes carry the sequence reasoning.

### Trainer, queue, synchronizer and Rollouter

`FullyAsyncProofs` is about the composed system, for every amount of data, quota, batch,
concurrency and number of failures, from `RollouterAssumption` and `FullyAsyncAssumption`.

* *Versions.* `VersionsInOrder` and `UpdateTellsTheWeights` follow from `VInv`, which ties
  each version to where the trainer is and to whether an update is outstanding: the trainer
  is one ahead from the end of a version to the transfer, the Rollouter is one behind from
  the transfer to its update, and, the part that makes it inductive, a synchronization
  begins only when the last update and resume are over (`OneSyncAtATime`, which is what
  `wait_last_valid` is for). Every coroutine that is not one of the three calls is `Quiet`:
  it touches neither versions nor the calls' program counters.
  `GeneratesWithCurrentWeights` adds `LInv`: the servers are paused from the cancellation to the end of the resume.
  `ValidationLogged` adds `RInv`: results in the queue or due from an update are never more
  than the trainer will poll.
* *Samples.* `TypeOK` and `SamplesAccounted` follow from `SInv` and `TInv`. `SInv` says who
  may be in the Rollouter's lock and in which order they wait (`LockHeld`), what the
  processor may hold in its hand at each place of its loop (`HandHeld`), that each sample is
  in one place (`Placed`, `OnePlace`), and that the places hold as many as were fed
  (`Accounted`); `TaskLimit` bounds the active tasks, `FinishKept` orders the finish signal
  after all samples. `TInv` is the trainer's share: when a batch is full, and that versions
  cost samples. A step is first described by what it moves from where to where (*How samples
  move*), and the invariants are preserved by each kind of move.
* *Quota.* `WithinQuota` and `OnPolicy` follow from `KInv`, which counts what has been taken
  from the feed against the resets of `staleness_samples`, and from `TrainedExactly`: after
  `v` versions, exactly `v` quotas have been trained on. Together they say that what is
  generated before a reset cannot exceed what the version's training will take, so a batch
  has no sample of an earlier version.
* *Interruption.* With threshold 0 a pause finds nothing to interrupt even with partial
  rollout: a version ends when its quota has been trained on, and nothing beyond the quota
  has been taken (`CountIsFull`). It stays so until the resume (`NoneToInterrupt`), because
  only `resume` un-pauses the Rollouter: the monitor finds the quota used up or its trigger
  off, and does not wait for the lock behind a pause (`LockOrder`, about the positions of
  `pause` and monitor in the lock's first-in first-out order).
* *The end.* `ProcessorSurvives` rests on the first tasks of a run: the processor awaits
  done tasks (line 439) only after it has once found the concurrency full or was told to
  stop; `FullBatchesTrained` on the exact count of the quota when the data ends, and on
  nothing being interrupted.
* *Progress.* `NeverStalled` asks that `staleness_samples`, which the processor waits for,
  counts samples that exist. A processor asleep without a synchronization has waited for
  its tasks (`AsleepPaused`), so a trainer that sleeps too has an empty queue, and all that
  is left of the version is in its batch, which is not full. `CountsReal` bounds the count
  by what is of the version: in flight, or trained on since the version began (`OfVersion`).
  An update counts the tasks, waits, and adds the queue; what a task puts meanwhile is
  counted twice, so the bound is twice that number, or once with threshold 0, where nothing
  is in flight by then (`Allowance`). Either the trainer has had its quota, and a
  synchronization is due, or the count is below `max_required_samples`.

The hypotheses are needed; TLC gives a counterexample without each:

| Theorem | Hypothesis | Without it |
|---|---|---|
| `CurrentWeightsGenerate` | `PartialRollout` | a monitor queued before the pause un-pauses the Rollouter during the transfer |
| `GenerationWithinQuota`, `TrainingOnPolicy` | `ThresholdZero` | one sample more than the quota: see section 3; being off-policy is what a threshold is for |
| `ProcessorSurvivesPauses` | `PendingQueueSize > MaxConcurrentSamples` | with 1 pending, 2 concurrent and a quota of 3 the feed is late by a whole quota (section 4). The code has 128 pending against 16 tasks per server, so from 8 servers on only `ProcessorSurvivesOnPolicy` applies, which needs `ThresholdZero` instead |
| `EveryFullBatchTrained` | `ThresholdZero`, `MaxFailures = 0` | samples interrupted at the end of the data, or failed, are missing from the last batch |
| `NobodyStalls` | `ThresholdZero`, or no partial rollout and a quota of at least `2 * VersionQuota - 1` (a threshold of 1 or more) | with partial rollout and threshold 1, the `stalled` run. For thresholds between 0 and 1 without partial rollout the argument does not hold, and TLC finds no counterexample on small instances: nothing is claimed |

### Partial rollout

`PartialRolloutProofs` proves `TypeOK`, `ScoredOnce`, `TokensConsistent`, `TurnsWhole` and
`CancelReachesRequests` for every number of rollouts, servers, workers and synchronizations,
all lengths, and both agent loops. `IInv` has a part for the data at rest (`LoopInv`: where
the agent loop is, what its state machine says and what the tokens are) and one for the
request in flight (`RequestInv`: its tokens are generated, by versions of this submission,
and only the last one can end the turn). Both are stated of values (`LoopSound`,
`RequestSound`), so that the lemmas about appending and truncating tokens are free of the
state. `CancelReachesRequests` is inductive with the types. `MCPartialRolloutProofs` lifts
the results to the two setups that TLC checks side by side.

### Checkpoints and restarts

`ComponentsProofs` begins with the module that `MCComponents` extends. It proves, for every
amount of data, batch, frequency and number of crashes, `TypeOK`, `LatestIsWhole`,
`RestoredTogether`, `NoSampleTwice`, `OnlyInFlightLost` and `FullLengthTraining`. `IInv`
relates what the processes hold (`LiveInv`), how far the save under way has come
(`SaveInv`), and what a restart would find on disk (`DiskInv`); a crash is the step from the
second to the third. `LatestIsWhole` needs `MaxCkptToKeep # 1` (section 3), the others do
not. `ProgressInv` is what shows that restarts do not shorten a training: it counts the
samples that training steps have taken against those fed.

`VersionCountsSteps` has an invariant of its own, `CountInv`, for jobs that are not elastic:
as long as there are data, what is trained and in flight is exactly what was fed, a
checkpoint is begun with a version (`Exact`), and the weights have as many samples as the
version has had steps (`InStep`), in the processes and in what a restart would find on disk.
Its hypothesis, `EndsWithVersion`, is that `total_rollout_steps` leaves the data whole (the
default), or cuts them after a whole version with batches of at least two samples and
`test_freq` 1, as in the instance of section 3. TLC gives a counterexample without each:
otherwise the final synchronization counts a version that has not had all its steps, and a
job restarted from there goes on with that number.

Of the one-step-off trainer `TypeOK`, `OneStepOffPolicy` and `OnlyInFlightLost` are proved.
Besides types, `OffInv` counts batches against steps and crashes (`OffPositionInv`), updates
against steps (`OffUpdatesInv`), orders the batches in flight (`OffOrderInv`), and says that
at every place of `fit` the generation in flight lacks at most the update of the step under
way (`OffLagInv`).

### Weight transfer

`CheckpointEngineProofs` proves `BucketsHoldAll` and `WeightsAgree` of `CheckpointEngine`,
for any number of actor and rollout ranks, parameters of any size, buffers and
synchronizations, with and without overlap (`Numbers`, the hypothesis). The parts of `IInv`:

* `PlanInv`: the parameters assigned so far are in one bucket each and the others in none;
  a bucket's tensors lie one behind the other within its size; only a last bucket is empty.
* `SentInv`: the broadcasts of all synchronizations are one sequence, in which the buckets
  of each follow one another in the order of the two loops, with the values of that one.
* `RankInv(r)`: where rank `r` is in that sequence (`PlaceInv`), that the half of its buffer
  under way holds what was broadcast there and every bucket before is loaded (`LoadInv`),
  and what an actor rank has at hand to send next (`CopyInv`).

A step of one rank only appends to the sequence and to the counts of barriers, so it leaves
`RankInv` of the others as it is (`RankStays`), and each action has to be looked at for the
rank that takes it alone. The half a thread loads is not the half the next broadcast goes
into (`HalvesDiffer`), and a rank is never more than one bucket ahead of its own thread,
whose answer it awaits. The barriers are not needed for this: the order of the broadcasts
and a rank's wait for its own thread are enough, also from one synchronization to the next.

### Partitions

`SeqlenBalancingProofs` proves all safety properties of `SeqlenBalancing` for every number
of items and partitions and every workload in the natural numbers (`Numbers`, the hypothesis
of each theorem). `SpreadIsBounded` is inductive with the types and the order of the
workloads: opposite places are added, so the differences of one state cancel those of the
other. `PartitionsAreExact` rests on `ItemsInv`: no item in two sets of the heap, none in no
set. `PartitionsAreEqual` follows from the disjointness. `PartitionsHaveItems` is the one
with a thought in it: the empty sets of a sorted state are its last, so a merge puts them
opposite the others' first, and while a state has an empty set none of its sets has two
items (`FewIfEmpty`); a last state with an empty set would then have fewer than `k` items,
and there are at least `k`. The invariant needs the comparison by length that `Set.__lt__`
makes between equal sums: without it (`LessBySum`) TLC finds an empty partition.

### The batch

`RolloutBatchProofs` proves the properties of `RolloutBatch` that hold (all but that of
the `balance_order` run), for any numbers of prompts, rollouts, workers, ranks and
mini-batches, rows of any length, and rollouts of any of the five kinds. `Numbers`, the hypothesis, requires that the prompts
divide among the workers, as `DataProto.chunk` asserts, and `ScoreForSlot` that validated
rollouts return rows, all under a `gen_uid` of their own (`OwnKinds`): of a rollout that
returns nothing, unpadding would drop the rows of another (section 3), and hinted copies are
made in training only.

What is proved first is about sequences. The community modules define flattening and the
like by recursive functions, and their theorems about recursion cannot be used here; that
such a function exists and is unique is proved for each from the least counterexample
(`UpTo`, `PrefixesDefined`). Three predicates then replace the definitions: `Layout` (where
the sequences lie in their concatenation), `Enumerates` (a sorted set has every element at
one place) and sums that a rearrangement leaves alone. Ranks, micro-batches and their
inverse are rearrangements by these.

The inductive invariant `BatInv` says what each stage has left to the next: `Origins`, the
rows are those that the slots' rollouts have returned, in their order, less what unpadding
dropped; `Batches`, the batch has each of them once and its dummies besides (`BatchOf`),
after balancing equally many for each rank (`Dealt`); `Results`, log probabilities,
advantages and scores are those of the rows in their places; `Updates`, so many mini-batches
have been seen by all ranks, each a rearrangement of the rank's rows by its micro-batches
(`TakenBy`).

### Components side by side

`ComponentsProofs` is about `MCComponents`. In a behaviour of `MCSpec` each component's
variables follow that component's own specification or stutter (`CheckpointPart`, `BatPart`,
`BalPart`, …), so what is proved of a component alone holds of it there; the instances
that `MCComponents` and the proof modules make of a component are shown equal first. That
gives `CheckpointWhole`, `SamplesKept`, `TrainingCounted`, `EngineDelivers`, the five
properties of the batch and `PartitionsBalanced`. The other components are proved about in
place, from `ComponentsAssumption`: the one-step-off trainer as above, and

* `RuntimeAsSeen`, from `RuntimeInv`: what is in the sequence of executed calls has a first
  occurrence there (`FirstsExist`); before a call come the smaller ones, those excepted
  whose replay failed (`SmallerFirst`); and a replay has executed what it has passed over
  (`RuntimeProgress`).
* `LimitsRespected`, from `LimitsInv`. The hard part is `Budget`, which relates a bucket's
  level to `ideal`, the level it would have if nobody slept: those that have paid and sleep
  wake at least one cost apart, so each one's share is gained before it is let through.
* `DistillsEachOnce` and `DistillKnowledge`, from `DistillInv`. `ClientInv` is the
  alternation of each REQ socket: a thread that waits for an answer waits for that of its
  own request (`Awaited`). `SchedInv` is a table (`Plan`) of what the scheduler has still to
  do in an iteration against how many generations, teacher requests, results and yields
  there have been. Two batches at least are assumed: with a single one the code's
  `teacher_future` is unbound.

### What stays with TLC

* Liveness under fairness, which is out of the prover's reach, as is `ENABLED`:
  `ShutdownReleasesConsumers`, `Finishes`, `PauseDrains`, `SamplesComplete` and
  `ComponentsEnd`.

## 7. Not modelled, and the plan

Planned next, in this order:

1. An abstract specification of streamed training (batches of fresh samples, one version at
   a time), implemented by `FullyAsync` with threshold 0.
2. `JudgeClient`, `AgentContext` (retries and fallbacks in `agents/utils.py`) and
   `ServerManager` (choice of the server by least requests), the search tool's rate limiter.

Left out of the modelled parts: the `INTERACTING` state and multi-modal data of agent loops;
HDFS copies and `resume_path`; failures of the calls of the synchronizer; `initialize` with
an existing runtime_id and the other agents that use the environment client; the engine's
path that broadcasts parameter by parameter; asynchronous rewards, several epochs of the
one-step-off trainer; resume and validation of the distillation trainer; batching of several
requests by a teacher thread; critic, reference and reward models, KL, the other advantage
estimators and on-policy distillation terms of the synchronous trainer, and the teacher that
follows the actor by moving average, which a resume restarts from the loaded weights because
no checkpoint holds it.

Left out for good: model engines, kernels, worker wrappers (numerical code or other
programs), prompt templates, data sets and scores in `agents/` (data: the instruction
checkers alone are several thousand lines of predicates on strings), the recipes that share
the synchronous trainer's loop, SFT scripts, logging and metrics everywhere. These are most
of the repository's lines, and why the map covers a small share of them: the models are
about the control that coordinates them.
