--------------------------- MODULE DistillPipeline ---------------------------
(* OnPolicyDistillTrainer of recipe/gkd: a scheduler (a generator) overlaps  *)
(* the generation of a batch with the teacher's work on an earlier one, and  *)
(* fit trains on the batches it yields.  The teacher client is the module    *)
(* TeacherClient.                                                            *)
(*                                                                           *)
(* Abstractions: a batch is its number in the order of the dataloader over   *)
(* all epochs; weights are the number of updates of the actor they are the   *)
(* result of.                                                                *)
EXTENDS Naturals, Sequences

CONSTANTS
    Scheduler,     \* "one_step_off" or "two_step_off"
    Batches,       \* batches of all epochs, also total_training_steps
    Workers,       \* n_server_workers, which is also the number of microbatches
    MaxTroubles    \* bound, see TeacherClient

VARIABLES
    step,          \* i of the scheduler's loop; Batches after the loop
    todo,          \* what the scheduler still does in this iteration
    generations,   \* generations[g]: the g-th generation, its batch and the weights it runs with
    generated,     \* how many of them have returned
    rollout_future, \* the latest generation
    teacher_future, \* the generation the teacher has been asked about last
    result,        \* the generation whose result the scheduler holds, and whether it is knowledge
    padded,        \* the generation whose knowledge the module's padded buffers hold
    updates,       \* updates of the actor
    rollout_weights, \* the updates the rollout workers' weights contain
    global_steps,
    handled,       \* batches fit has been given, in order
    lag,           \* how many updates the weights of the batches trained on lagged behind
    skipped,       \* generations skipped for want of knowledge
    fit,           \* "next" or "returned"
    task_queue, thread, taken, socket, asked, answers, future, reply, troubled, troubles

Generations == 1..(Batches + 1)
Requests == Generations \X (1..Workers)
None == 0
NoRequest == <<None, None>>

Teacher == INSTANCE TeacherClient WITH Threads <- 1..Workers

schedVars == <<step, todo, generations, generated, rollout_future, teacher_future, result,
               padded, updates, rollout_weights, global_steps, handled, lag, skipped, fit>>
clientVars == <<task_queue, thread, taken, socket, asked, answers, future, reply, troubled, troubles>>
vars == <<schedVars, clientVars>>

\* What a scheduler does in iteration i: "sync" is sync_rollout_weights, "gen"
\* starts the generation of the batch, "teach" waits for the latest generation
\* and asks the teacher about it, "get" waits for the teacher, "yield" hands
\* the result to fit.
OneStepBody == <<"sync", "gen", "get", "yield", "teach">>

OneStepOff(i) ==
    CASE i = 0 -> <<"sync", "gen", "teach">> \o OneStepBody
      [] i = 1 -> <<"gen", "get", "yield", "teach">>
      [] i \in 2..(Batches - 1) -> OneStepBody
      [] OTHER -> <<"get", "yield">>

\* Mutants: the last batch is not waited for; the weights are synchronized
\* once.
TwoStepOffNoLastGet(i) ==
    CASE i = 0 -> <<"sync", "gen">>
      [] i = 1 -> <<"teach", "gen">>
      [] i = 2 /\ i < Batches -> <<"get", "teach", "gen", "yield">>
      [] i \in 3..(Batches - 1) -> <<"get", "teach", "sync", "gen", "yield">>
      [] OTHER -> <<"get", "teach", "yield", "yield">>
TwoStepOffNoSync(i) ==
    CASE i = 0 -> <<"sync", "gen">>
      [] i = 1 -> <<"teach", "gen">>
      [] i \in 2..(Batches - 1) -> <<"get", "teach", "gen", "yield">>
      [] OTHER -> <<"get", "teach", "yield", "get", "yield">>

TwoStepOff(i) ==
    CASE i = 0 -> <<"sync", "gen">>
      [] i = 1 -> <<"teach", "gen">>
      [] i = 2 /\ i < Batches -> <<"get", "teach", "gen", "yield">>
      [] i \in 3..(Batches - 1) -> <<"get", "teach", "sync", "gen", "yield">>
      [] OTHER -> <<"get", "teach", "yield", "get", "yield">>

Iteration(i) == IF Scheduler = "one_step_off" THEN OneStepOff(i) ELSE TwoStepOff(i)

Init ==
    /\ step = 0 /\ todo = Iteration(0)
    /\ generations = <<>> /\ generated = 0
    /\ rollout_future = None /\ teacher_future = None
    /\ result = [of |-> None, knowledge |-> FALSE]
    /\ padded = None
    /\ updates = 0 /\ rollout_weights = 0
    /\ global_steps = 1
    /\ handled = <<>> /\ lag = {} /\ skipped = {}
    /\ fit = "next"
    /\ Teacher!ClientInit

-----------------------------------------------------------------------------

\* The scheduler goes on with operation op.
Does(op) == fit = "next" /\ todo # <<>> /\ Head(todo) = op /\ todo' = Tail(todo)

\* A method of the rollout workers waits for the calls before it.
RolloutIdle == generated = Len(generations)

SyncRolloutWeights ==
    /\ Does("sync")
    /\ RolloutIdle
    /\ rollout_weights' = updates
    /\ UNCHANGED <<step, generations, generated, rollout_future, teacher_future, result, padded,
                   updates, global_steps, handled, lag, skipped, fit, clientVars>>

AsyncGenNextBatch ==
    /\ Does("gen")
    /\ generations' = Append(generations, [batch |-> step, weights |-> rollout_weights])
    /\ rollout_future' = Len(generations')
    /\ UNCHANGED <<step, generated, teacher_future, result, padded, updates, rollout_weights,
                   global_steps, handled, lag, skipped, fit, clientVars>>

\* The rollout workers return the sequences of the oldest generation under way.
GenerationReturns ==
    /\ ~RolloutIdle
    /\ generated' = generated + 1
    /\ UNCHANGED <<step, todo, generations, rollout_future, teacher_future, result, padded,
                   updates, rollout_weights, global_steps, handled, lag, skipped, fit,
                   clientVars>>

Microbatches(g) == [m \in 1..Workers |-> <<g, m>>]

AsyncGetTeacherKnowledge ==
    /\ Does("teach")
    /\ generated >= rollout_future
    /\ teacher_future' = rollout_future
    /\ Teacher!Submit(Microbatches(rollout_future))
    /\ UNCHANGED <<step, generations, generated, rollout_future, result, padded, updates,
                   rollout_weights, global_steps, handled, lag, skipped, fit>>

State(g, m) == future[<<g, m>>]
AllAnswered(g) == \A m \in 1..Workers : State(g, m) = "result"

\* The futures are waited for in order, up to the first that raises.
FirstRaises(g) ==
    \E m \in 1..Workers :
        State(g, m) = "exception" /\ \A k \in 1..(m - 1) : State(g, k) = "result"

GetTeacherKnowledge ==
    /\ Does("get")
    /\ AllAnswered(teacher_future) \/ FirstRaises(teacher_future)
    /\ result' = [of |-> teacher_future, knowledge |-> AllAnswered(teacher_future)]
    /\ padded' = IF AllAnswered(teacher_future) THEN teacher_future ELSE padded
    /\ UNCHANGED <<step, generations, generated, rollout_future, teacher_future, updates,
                   rollout_weights, global_steps, handled, lag, skipped, fit, clientVars>>

\* fit is given the result: it trains on it, or skips it if there is no
\* knowledge, and returns after the last step.
TrainOnResult ==
    /\ Does("yield")
    /\ LET generation == generations[result.of] IN
        /\ handled' = Append(handled, generation.batch)
        /\ IF result.knowledge
           THEN /\ updates' = updates + 1
                /\ lag' = lag \cup {updates - generation.weights}
                /\ UNCHANGED skipped
           ELSE /\ skipped' = skipped \cup {result.of}
                /\ UNCHANGED <<updates, lag>>
    /\ global_steps' = global_steps + 1
    /\ fit' = IF global_steps >= Batches THEN "returned" ELSE "next"
    /\ UNCHANGED <<step, generations, generated, rollout_future, teacher_future, result, padded,
                   rollout_weights, clientVars>>

\* The loop goes on with the next batch, or ends.  (A scheduler that ends
\* before fit has returned raises StopIteration there; in the model nothing
\* follows then, so that TLC reports a deadlock.)
NextIteration ==
    /\ fit = "next" /\ todo = <<>> /\ step < Batches
    /\ step' = step + 1
    /\ todo' = Iteration(step + 1)
    /\ UNCHANGED <<generations, generated, rollout_future, teacher_future, result, padded,
                   updates, rollout_weights, global_steps, handled, lag, skipped, fit,
                   clientVars>>

Ended == fit = "returned" /\ UNCHANGED vars

SchedulerStep ==
    \/ SyncRolloutWeights \/ AsyncGenNextBatch \/ AsyncGetTeacherKnowledge
    \/ GetTeacherKnowledge \/ TrainOnResult \/ NextIteration

TeacherStep == Teacher!ClientNext /\ UNCHANGED schedVars

TeacherThreadStep(t) == Teacher!ThreadStep(t) /\ UNCHANGED schedVars
ServiceAnswers(t) == Teacher!Answer(t) /\ UNCHANGED schedVars

Next == SchedulerStep \/ GenerationReturns \/ TeacherStep \/ Ended

\* The driver and the threads are never stopped, generations return, and the
\* service answers in the end what is not given up before.
Fairness ==
    /\ WF_vars(SchedulerStep)
    /\ WF_vars(GenerationReturns)
    /\ \A t \in 1..Workers :
        /\ WF_vars(TeacherThreadStep(t))
        /\ WF_vars(ServiceAnswers(t))

Spec == Init /\ [][Next]_vars /\ Fairness

-----------------------------------------------------------------------------
(* Properties *)

\* Type invariant of the pipeline; the client's variables are constrained by
\* the properties below.
TypeOK ==
    /\ step \in 0..Batches
    /\ generations \in Seq([batch : 0..(Batches - 1), weights : 0..Batches])
    /\ Len(generations) <= Batches + 1
    /\ generated \in 0..Len(generations)
    /\ {rollout_future, teacher_future, padded, result.of} \subseteq 0..Len(generations)
    /\ updates \in 0..Batches /\ rollout_weights \in 0..updates
    /\ fit \in {"next", "returned"}

\* fit is given every batch of the data exactly once, in the order of the
\* dataloader, whatever the scheduler overlaps.
EachBatchOnce == handled = [i \in DOMAIN handled |-> i - 1]

\* The weights that generated a batch lag behind those it trains by at most as
\* many updates as the scheduler's name says.
LagAsNamed == lag \subseteq 0..(IF Scheduler = "one_step_off" THEN 1 ELSE 2)

\* The knowledge fit trains a batch with is the teacher's answer to the
\* requests made for that very batch: the threads, whose order is free, mix
\* up no answers, and the padded buffers, which all batches share, have not
\* been refilled for a later batch.
KnowledgeOfBatch ==
    (fit = "next" /\ todo # <<>> /\ Head(todo) = "yield" /\ result.knowledge) =>
        /\ padded = result.of
        /\ \A m \in 1..Workers : reply[<<result.of, m>>] = <<result.of, m>>

\* A batch is skipped only because the service failed on a request of its own.
OnlyOwnFailures ==
    \A g \in skipped : \E m \in 1..Workers : <<g, m>> \in troubled

DistillationOver == fit = "returned"

\* Whatever the service does, fit returns after its last step: no future is
\* left without an answer or an exception, and the data do not run out.
DistillationEnds == <>DistillationOver
=============================================================================
