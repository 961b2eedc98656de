------------------------- MODULE MessageQueueHistory -------------------------
(***************************************************************************)
(* The MessageQueue with two history variables, which no action reads: the *)
(* log of everything ever put, and the number of samples clear_queue threw *)
(* away (the actor's statistics do not count them).  They let the queue's  *)
(* promise be stated, and shown, as a refinement of SampleLog.             *)
(***************************************************************************)
EXTENDS MessageQueue

VARIABLES put_log, cleared

histVars == <<queue, val_queue, running, current_param_version, total_produced,
              total_consumed, dropped_samples, waiting, woken, reply, put_log, cleared>>

HInit ==
    /\ Init
    /\ put_log = <<>>
    /\ cleared = 0

HPut(x) ==
    /\ total_produced < MaxProduced
    /\ PutSample(x)
    /\ put_log' = Append(put_log, x)
    /\ UNCHANGED cleared

HGet(c) ==
    /\ GetSample(c) \/ ResumeGetSample(c)
    /\ UNCHANGED <<put_log, cleared>>

HClear ==
    /\ ClearQueue
    /\ cleared' = cleared + Len(queue)
    /\ UNCHANGED put_log

HShutdown ==
    /\ Shutdown
    /\ UNCHANGED <<put_log, cleared>>

\* The operations that never touch the sample queue.
HOther ==
    /\ \/ \E v \in 0..MaxVersion : UpdateParamVersion(v)
       \/ \E v \in 0..MaxVersion : Len(val_queue) < MaxValidate /\ PutValidate(v)
       \/ GetValidate
    /\ UNCHANGED <<put_log, cleared>>

HNext ==
    \/ \E x \in Items : HPut(x)
    \/ \E c \in Consumers : HGet(c)
    \/ HClear
    \/ HShutdown
    \/ HOther

HSpec == HInit /\ [][HNext]_histVars /\ Fairness

-----------------------------------------------------------------------------
(* Types *)

Answers == Items \cup {Closed, NoReply}

\* Type invariant of the queue actor and of the history variables.
TypeOK ==
    /\ queue \in Seq(Items)
    /\ val_queue \in Seq(0..MaxVersion)
    /\ running \in BOOLEAN
    /\ current_param_version \in 0..MaxVersion
    /\ total_produced \in Nat
    /\ total_consumed \in Nat
    /\ dropped_samples \in Nat
    /\ waiting \subseteq Consumers
    /\ woken \subseteq Consumers
    /\ reply \in [Consumers -> Answers]
    /\ put_log \in Seq(Items)
    /\ cleared \in Nat

-----------------------------------------------------------------------------
(* Safety *)

SuffixOf(q, l) ==
    /\ Len(q) <= Len(l)
    /\ \A i \in 1..Len(q) : q[i] = l[Len(l) - Len(q) + i]

\* The queue always holds exactly the newest samples put, in production
\* order, and never more than its capacity: whatever put_sample, get_sample
\* and clear_queue interleave, a sample is lost only to newer ones.
FreshestSuffix == Len(queue) <= MaxQueueSize /\ SuffixOf(queue, put_log)

\* The counters get_statistics reports add up: every sample produced was
\* consumed, dropped by a full queue, thrown away by clear_queue, or is still
\* in the queue.
StatisticsBalance ==
    /\ total_produced = Len(put_log)
    /\ total_produced = total_consumed + dropped_samples + cleared + Len(queue)

\* No lost wake-up in get_sample: a consumer sleeps in Condition.wait only
\* while there is nothing to take and the queue is open, although samples
\* arrive, other consumers take them and the queue is shut down meanwhile.
SleepOnlyWhenEmpty == waiting # {} => queue = <<>> /\ running

-----------------------------------------------------------------------------
(* Refinement and liveness *)

Promise == INSTANCE SampleLog WITH
    Capacity <- MaxQueueSize,
    log <- put_log,
    next <- Len(put_log) - Len(queue),
    open <- running,
    answer <- reply

\* The bounded drop-oldest deque implements the log with a cursor: at most
\* one delivery per sample, in production order, oldest lost first.
ImplementsSampleLog == Promise!LogSpec

\* A consumer blocked in get_sample when the queue is shut down does not
\* sleep forever: shutdown notifies, and the loop exits on a closed queue.
ShutdownReleasesConsumers ==
    \A c \in Consumers : (~running /\ Outstanding(c)) ~> ~Outstanding(c)
=============================================================================
