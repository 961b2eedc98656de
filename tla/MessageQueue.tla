---------------------------- MODULE MessageQueue ----------------------------
(***************************************************************************)
(* The MessageQueue actor of recipe/fully_async_policy/message_queue.py:   *)
(* a bounded queue between the Rollouter (producer) and the Trainer        *)
(* (consumer) that drops its oldest sample instead of blocking the         *)
(* producer, plus an unbounded queue of validation results.                *)
(*                                                                         *)
(* The actor is an asyncio program.  No method awaits anything while it    *)
(* holds self._lock except get_sample, whose Condition.wait() gives the    *)
(* lock up; so every method is one action and get_sample is three: the     *)
(* call, the wake-up by notify_all, and the re-acquisition of the lock     *)
(* that re-checks the loop condition.  Between the last two another caller *)
(* may take the sample.                                                    *)
(***************************************************************************)
EXTENDS Naturals, Sequences, FiniteSets

CONSTANTS Items,         \* what put_sample may carry: samples and the sentinel None
          Consumers,     \* callers of get_sample, one outstanding call each
          MaxQueueSize,  \* max_queue_size
          Closed,        \* the bare None get_sample returns once the queue is shut down
          NoReply,       \* a consumer that has had no answer yet
          MaxProduced,   \* bound: number of put_sample calls explored
          MaxVersion,    \* bound: largest parameter version
          MaxValidate    \* bound: length of val_queue

ASSUME MessageQueueAssumption ==
    /\ MaxQueueSize \in Nat \ {0}
    /\ MaxProduced \in Nat
    /\ MaxVersion \in Nat
    /\ MaxValidate \in Nat
    /\ Closed \notin Items
    /\ NoReply \notin Items
    /\ Closed # NoReply

VARIABLES queue,                  \* deque(maxlen=max_queue_size)
          val_queue,              \* deque() of validation results, by parameter version
          running,
          current_param_version,
          total_produced,
          total_consumed,
          dropped_samples,
          waiting,                \* consumers asleep in _consumer_condition.wait()
          woken,                  \* consumers notified that have not re-acquired the lock
          reply                   \* last value get_sample returned to each consumer

queueVars == <<queue, total_produced, total_consumed, dropped_samples>>
callVars == <<waiting, woken, reply>>
mqVars == <<queue, val_queue, running, current_param_version, total_produced,
            total_consumed, dropped_samples, waiting, woken, reply>>

Init ==
    /\ queue = <<>>
    /\ val_queue = <<>>
    /\ running = TRUE
    /\ current_param_version = 0
    /\ total_produced = 0
    /\ total_consumed = 0
    /\ dropped_samples = 0
    /\ waiting = {}
    /\ woken = {}
    /\ reply = [c \in Consumers |-> NoReply]

\* Mutant: one sample too many is kept.
QueueFullLate == Len(queue) > MaxQueueSize

QueueFull == Len(queue) >= MaxQueueSize

\* Mutant: put_sample and shutdown notify nobody.
NotifyNobody == UNCHANGED <<waiting, woken>>

\* notify_all(): every sleeper becomes a contender for the lock.
NotifyAll ==
    /\ waiting' = {}
    /\ woken' = woken \cup waiting

\* A full queue gives up its oldest sample to make room for the new one.
PutSample(x) ==
    /\ queue' = Append(IF QueueFull THEN Tail(queue) ELSE queue, x)
    /\ dropped_samples' = IF QueueFull THEN dropped_samples + 1 ELSE dropped_samples
    /\ total_produced' = total_produced + 1
    /\ NotifyAll
    /\ UNCHANGED <<val_queue, running, current_param_version, total_consumed, reply>>

\* Mutant: pop() takes the newest sample instead of the oldest.
ReturnNewestSample(c) ==
    /\ queue # <<>>
    /\ queue' = SubSeq(queue, 1, Len(queue) - 1)
    /\ total_consumed' = total_consumed + 1
    /\ reply' = [reply EXCEPT ![c] = queue[Len(queue)]]
    /\ UNCHANGED <<val_queue, running, current_param_version, total_produced, dropped_samples>>

\* The part of get_sample after its wait loop: pop the oldest sample, or
\* answer None when the queue is shut down and empty.
ReturnSample(c) ==
    \/ /\ queue # <<>>
       /\ queue' = Tail(queue)
       /\ total_consumed' = total_consumed + 1
       /\ reply' = [reply EXCEPT ![c] = Head(queue)]
       /\ UNCHANGED <<val_queue, running, current_param_version, total_produced, dropped_samples>>
    \/ /\ queue = <<>>
       /\ ~running
       /\ reply' = [reply EXCEPT ![c] = Closed]
       /\ UNCHANGED <<queueVars, val_queue, running, current_param_version>>

\* Mutant: the loop does not test running, so a closed queue is waited on.
SleepWhenEmpty(c) ==
    /\ queue = <<>>
    /\ waiting' = waiting \cup {c}
    /\ reply' = [reply EXCEPT ![c] = NoReply]
    /\ UNCHANGED <<queueVars, val_queue, running, current_param_version>>

\* The loop condition of get_sample holds: sleep until notified.
SleepUntilNotified(c) ==
    /\ queue = <<>>
    /\ running
    /\ waiting' = waiting \cup {c}
    /\ reply' = [reply EXCEPT ![c] = NoReply]
    /\ UNCHANGED <<queueVars, val_queue, running, current_param_version>>

Outstanding(c) == c \in waiting \cup woken

GetSample(c) ==
    /\ ~Outstanding(c)
    /\ \/ ReturnSample(c) /\ UNCHANGED <<waiting, woken>>
       \/ SleepUntilNotified(c) /\ UNCHANGED woken

\* A notified consumer gets the lock back and tests the condition again.
ResumeGetSample(c) ==
    /\ c \in woken
    /\ woken' = woken \ {c}
    /\ \/ ReturnSample(c) /\ UNCHANGED waiting
       \/ SleepUntilNotified(c)

\* Mutant: the version is advanced by v instead of set to it.
AdvanceParamVersion(v) ==
    /\ current_param_version' = current_param_version + v
    /\ UNCHANGED <<queueVars, callVars, val_queue, running>>

UpdateParamVersion(v) ==
    /\ current_param_version' = v
    /\ UNCHANGED <<queueVars, callVars, val_queue, running>>

\* Mutant: clearing the queue restarts the production counter.
ClearQueueAndCount ==
    /\ queue' = <<>>
    /\ total_produced' = 0
    /\ UNCHANGED <<val_queue, running, current_param_version, total_consumed,
                   dropped_samples, callVars>>

ClearQueue ==
    /\ queue' = <<>>
    /\ UNCHANGED <<val_queue, running, current_param_version, total_produced,
                   total_consumed, dropped_samples, callVars>>

Shutdown ==
    /\ running' = FALSE
    /\ NotifyAll
    /\ UNCHANGED <<queueVars, val_queue, current_param_version, reply>>

PutValidate(v) ==
    /\ val_queue' = Append(val_queue, v)
    /\ UNCHANGED <<queueVars, callVars, running, current_param_version>>

\* Never waits: an empty val_queue is answered at once with None.
GetValidate ==
    /\ val_queue' = IF val_queue = <<>> THEN val_queue ELSE Tail(val_queue)
    /\ UNCHANGED <<queueVars, callVars, running, current_param_version>>

Next ==
    \/ \E x \in Items : total_produced < MaxProduced /\ PutSample(x)
    \/ \E c \in Consumers : GetSample(c) \/ ResumeGetSample(c)
    \/ \E v \in 0..MaxVersion : UpdateParamVersion(v)
    \/ ClearQueue
    \/ Shutdown
    \/ \E v \in 0..MaxVersion : Len(val_queue) < MaxValidate /\ PutValidate(v)
    \/ GetValidate

\* The actor's event loop runs every ready coroutine, so a notified consumer
\* gets the lock eventually; callers owe nothing.
Fairness == \A c \in Consumers : WF_mqVars(ResumeGetSample(c))

Spec == Init /\ [][Next]_mqVars /\ Fairness
=============================================================================
