---------------------------- MODULE PartialRollout ----------------------------
(***************************************************************************)
(* Partial rollout: one sample's rollouts under the cancel and resume of   *)
(* weight synchronizations (agent_loop/ and vllm_rollout/ of               *)
(* recipe/fully_async_policy).                                             *)
(*                                                                         *)
(* A rollout is an agent loop in a worker that sends requests to a vLLM    *)
(* server.  cancel and resume reach each server and each worker by a call  *)
(* of its own, in any order.  A cancelled rollout hands back what it has,  *)
(* and the sample is submitted again, perhaps to another worker.           *)
(*                                                                         *)
(* The critical sections of a server contain no await, so its lock is never*)
(* contended and is left out.  A token is what it means (text, a whole tool*)
(* call, a tool's answer), whether it ends its turn, and the version of the*)
(* weights that generated it; the prompt is left out.                      *)
(***************************************************************************)
EXTENDS Integers, Sequences, FiniteSets

CONSTANTS Rollouts,           \* the rollouts of the sample (rollout.n)
          Servers, Workers,
          ToolAgent,          \* async_partial_tool_agent, else the partial single-turn agent
          ResponseLength,     \* response_length
          ModelLength,        \* max_model_len, less the prompt
          MaxAssistantTurns,
          MaxCancels          \* bound: weight synchronizations

ASSUME PartialRolloutAssumption ==
    /\ Rollouts # {} /\ Servers # {} /\ Workers # {}
    /\ ToolAgent \in BOOLEAN
    /\ ResponseLength \in Nat \ {0}
    /\ ModelLength \in Nat /\ ModelLength >= ResponseLength
    /\ MaxAssistantTurns \in Nat \ {0}
    /\ MaxCancels \in Nat

VARIABLES
    phase,               \* where the Rollouter's pause and resume are
    calls,               \* servers and workers its cancel or resume has not reached
    cancels,             \* synchronizations so far
    version,             \* of the weights in the servers
    paused,              \* servers whose paused flag is set
    cancellation_event,  \* workers whose event is set
    sample,              \* "queued", "running" or "done"
    worker,              \* the worker the sample was submitted to
    server,              \* the server of each rollout's requests in this submission
    run,                 \* where each rollout's agent loop is
    agent_data,          \* state machine, tokens and versions of each rollout
    output,              \* last output of each rollout: "none", "cancelled" or "complete"
    scored,              \* how often a rollout's output was post-processed
    req_output,          \* tokens the request in flight has output
    cancel_event,        \* requests in flight whose cancel event is set
    generated            \* requests in flight whose generation task is done

syncVars == <<phase, calls, cancels, version, paused, cancellation_event>>
sampleVars == <<sample, worker, server>>
loopVars == <<run, agent_data, output, scored>>
requestVars == <<req_output, cancel_event, generated>>
vars == <<syncVars, sampleVars, loopVars, requestVars>>

NewAgentData ==
    [state |-> IF ToolAgent THEN "PENDING" ELSE "GENERATING",
     response |-> <<>>, mask |-> <<>>, assistant_turns |-> 0,
     param_version_start |-> 0, param_version_end |-> 0]

Init ==
    /\ phase = "running"
    /\ calls = {}
    /\ cancels = 0
    /\ version = 0
    /\ paused = {}
    /\ cancellation_event = {}
    /\ sample = "queued"
    /\ worker \in Workers
    /\ server \in [Rollouts -> Servers]
    /\ run = [r \in Rollouts |-> "off"]
    /\ agent_data = [r \in Rollouts |-> NewAgentData]
    /\ output = [r \in Rollouts |-> "none"]
    /\ scored = [r \in Rollouts |-> 0]
    /\ req_output = [r \in Rollouts |-> <<>>]
    /\ cancel_event = {}
    /\ generated = {}

-----------------------------------------------------------------------------
(* The sample: _process_single_sample_streaming and generate_sequences_no_post *)

\* Mutant: a completed rollout is run again with the others.
SkipsNothing(r) == FALSE

\* A rollout completed by an earlier submission is returned as it is.
AlreadyComplete(r) == output[r] = "complete"

\* Mutant: a resumed rollout forgets the version it began with.
BeginsWithNow(r) == version

\* param_version_start: kept by a rollout that is resumed.
BeginsWith(r) ==
    IF output[r] = "none" THEN version ELSE agent_data[r].param_version_start

\* Where the state machine starts; a restored one goes on where it was.  The
\* worker is the next one of all samples' turns, a server the least used one.
SubmitSample ==
    /\ phase = "running"
    /\ sample = "queued"
    /\ sample' = "running"
    /\ worker' \in Workers
    /\ server' \in [Rollouts -> Servers]
    /\ run' = [r \in Rollouts |->
                  IF AlreadyComplete(r) THEN "back" ELSE IF ToolAgent THEN "loop" ELSE "sent"]
    /\ agent_data' = [r \in Rollouts |->
                         IF AlreadyComplete(r) THEN agent_data[r]
                         ELSE [agent_data[r] EXCEPT !.param_version_start = BeginsWith(r)]]
    /\ UNCHANGED <<syncVars, output, scored, requestVars>>

AnyCancelled == \E r \in Rollouts : output[r] = "cancelled"

\* gather has all rollouts: the sample goes to cancel_queue or to training.
SampleReturns ==
    /\ sample = "running"
    /\ \A r \in Rollouts : run[r] = "back"
    /\ sample' = IF AnyCancelled THEN "queued" ELSE "done"
    /\ run' = [r \in Rollouts |-> "off"]
    /\ UNCHANGED <<syncVars, worker, server, agent_data, output, scored, requestVars>>

-----------------------------------------------------------------------------
(* Agent loops *)

Ones(n) == [i \in 1..n |-> 1]

\* A response is cut to response_length when it is handed back.
Truncate(seq) == IF Len(seq) > ResponseLength THEN SubSeq(seq, 1, ResponseLength) ELSE seq

\* The loop of r ends with data d; a complete output is post-processed.
HandBack(r, d, cancelled) ==
    /\ run' = [run EXCEPT ![r] = "back"]
    /\ agent_data' = [agent_data EXCEPT ![r] = d]
    /\ output' = [output EXCEPT ![r] = IF cancelled THEN "cancelled" ELSE "complete"]
    /\ scored' = IF cancelled THEN scored ELSE [scored EXCEPT ![r] = @ + 1]

\* PartialSingleTurnAgentLoop: the answer is appended to what was resumed.
SingleTurnAnswer(r, token_ids, is_cancel) ==
    LET d == agent_data[r]
        response_ids == d.response \o token_ids
    IN HandBack(r,
           [d EXCEPT !.response = Truncate(response_ids),
                     !.mask = Truncate(Ones(Len(response_ids))),
                     !.param_version_end = version],
           is_cancel /\ Len(response_ids) < ResponseLength)

HasToolCall(token_ids) == \E i \in DOMAIN token_ids : token_ids[i].kind = "call"

\* What follows an answer.  Only the tokens of this answer are searched for
\* tool calls.
NextState(d, token_ids, is_cancel) ==
    LET full == Len(d.mask) + Len(token_ids) >= ResponseLength
        last == d.assistant_turns + 1 >= MaxAssistantTurns
    IN  CASE full -> "TERMINATED"
          [] is_cancel /\ ~full -> "GENERATING"
          [] ~is_cancel /\ ~full /\ ~last /\ HasToolCall(token_ids) -> "PROCESSING_TOOLS"
          [] OTHER -> "TERMINATED"

MaskOf(token_ids, is_cancel) == Ones(Len(token_ids))

\* _handle_generating_state_partial.
ToolAgentAnswer(r, token_ids, is_cancel) ==
    LET d == agent_data[r]
        next == NextState(d, token_ids, is_cancel)
    IN  /\ run' = [run EXCEPT ![r] = "loop"]
        /\ agent_data' = [agent_data EXCEPT ![r] =
               [d EXCEPT !.state = next,
                         !.response = @ \o token_ids,
                         !.mask = @ \o MaskOf(token_ids, is_cancel),
                         !.assistant_turns = IF next = "GENERATING" THEN @ ELSE @ + 1]]
        /\ UNCHANGED <<output, scored>>

Answer(r, token_ids, is_cancel) ==
    IF ToolAgent
    THEN ToolAgentAnswer(r, token_ids, is_cancel)
    ELSE SingleTurnAnswer(r, token_ids, is_cancel)

\* One turn of _run_state_machine, up to the next await.
LoopTurn(r) ==
    /\ run[r] = "loop"
    /\ LET d == agent_data[r]
       IN \/ /\ d.state = "TERMINATED"
             /\ HandBack(r, [d EXCEPT !.response = Truncate(@), !.mask = Truncate(@),
                                      !.param_version_end = version], FALSE)
          \/ /\ d.state # "TERMINATED"
             /\ worker \in cancellation_event
             /\ HandBack(r, d, TRUE)
          \/ /\ d.state = "PENDING"
             /\ worker \notin cancellation_event
             /\ agent_data' = [agent_data EXCEPT ![r] =
                                  [d EXCEPT !.state = "GENERATING", !.response = <<>>]]
             /\ UNCHANGED <<run, output, scored>>
          \/ /\ d.state \in {"GENERATING", "PROCESSING_TOOLS"}
             /\ worker \notin cancellation_event
             /\ run' = [run EXCEPT ![r] = IF d.state = "GENERATING" THEN "sent" ELSE "tools"]
             /\ UNCHANGED <<agent_data, output, scored>>
    /\ UNCHANGED <<syncVars, sampleVars, requestVars>>

\* The tools have answered: with one token, or by ending a conversation that
\* has no room for it.
ToolsReturn(r) ==
    /\ run[r] = "tools"
    /\ run' = [run EXCEPT ![r] = "loop"]
    /\ LET d == agent_data[r]
           answer == [kind |-> "tool", last |-> TRUE, version |-> version]
       IN agent_data' = [agent_data EXCEPT ![r] =
              IF Len(d.mask) + 1 >= ResponseLength
              THEN [d EXCEPT !.state = "TERMINATED"]
              ELSE [d EXCEPT !.state = "GENERATING", !.response = Append(d.response, answer),
                             !.mask = Append(d.mask, 0)]]
    /\ UNCHANGED <<syncVars, sampleVars, output, scored, requestVars>>

-----------------------------------------------------------------------------
(* FullyAsyncvLLMHttpServer *)

\* Mutant: a paused server accepts requests.
RefusesNothing(r) == FALSE

Refuses(r) == server[r] \in paused

\* A request arrives: a paused server answers at once, with nothing.
StartRequest(r) ==
    /\ run[r] = "sent"
    /\ \/ /\ Refuses(r)
          /\ Answer(r, <<>>, TRUE)
          /\ UNCHANGED requestVars
       \/ /\ ~Refuses(r)
          /\ run' = [run EXCEPT ![r] = "generating"]
          /\ req_output' = [req_output EXCEPT ![r] = <<>>]
          /\ cancel_event' = cancel_event \ {r}
          /\ generated' = generated \ {r}
          /\ UNCHANGED <<agent_data, output, scored>>
    /\ UNCHANGED <<syncVars, sampleVars>>

\* The engine outputs one more token: the end of the turn and the end of
\* max_tokens finish the generation task.
GenerateToken(r) ==
    /\ run[r] = "generating"
    /\ r \notin generated
    /\ \E kind \in IF ToolAgent THEN {"text", "call"} ELSE {"text"}, last \in BOOLEAN :
          /\ req_output' = [req_output EXCEPT ![r] =
                                Append(@, [kind |-> kind, last |-> last, version |-> version])]
          /\ generated' =
                IF last \/ Len(agent_data[r].response) + Len(req_output'[r]) >= ModelLength
                THEN generated \cup {r} ELSE generated
    /\ UNCHANGED <<syncVars, sampleVars, loopVars, cancel_event>>

\* Mutant: an answer counts as cancelled whenever the cancel event is set.
IsCancelledByEvent(r) == r \in cancel_event

\* is_cancel: the generation task is not among the tasks done.  (A request
\* that was cancelled before its first output says so too.)
IsCancelled(r) == r \notin generated

\* asyncio.wait has returned: generation is done or the request is cancelled,
\* perhaps both.
EndRequest(r) ==
    /\ run[r] = "generating"
    /\ r \in generated \cup cancel_event
    /\ Answer(r, req_output[r], IsCancelled(r))
    /\ req_output' = [req_output EXCEPT ![r] = <<>>]
    /\ cancel_event' = cancel_event \ {r}
    /\ generated' = generated \ {r}
    /\ UNCHANGED <<syncVars, sampleVars>>

-----------------------------------------------------------------------------
(* pause, weight transfer and resume of the Rollouter *)

Everyone == Servers \cup Workers

CancelBegin ==
    /\ phase = "running"
    /\ cancels < MaxCancels
    /\ cancels' = cancels + 1
    /\ phase' = "cancelling"
    /\ calls' = Everyone
    /\ UNCHANGED <<version, paused, cancellation_event, sampleVars, loopVars, requestVars>>

\* Mutant: cancel pauses a server without waking its requests.
WakesNobody(s) == {}

\* The requests in flight whose event cancel sets.
Wakes(s) == {r \in Rollouts : run[r] = "generating" /\ server[r] = s}

CancelServer(s) ==
    /\ phase = "cancelling"
    /\ s \in calls
    /\ calls' = calls \ {s}
    /\ paused' = paused \cup {s}
    /\ cancel_event' = cancel_event \cup Wakes(s)
    /\ UNCHANGED <<phase, cancels, version, cancellation_event, sampleVars, loopVars,
                   req_output, generated>>

CancelWorker(w) ==
    /\ phase = "cancelling"
    /\ w \in calls
    /\ calls' = calls \ {w}
    /\ cancellation_event' = cancellation_event \cup {w}
    /\ UNCHANGED <<phase, cancels, version, paused, sampleVars, loopVars, requestVars>>

\* Every call has returned and every active task is gathered: the weights
\* change, and the Rollouter is resumed.
TransferWeights ==
    /\ phase = "cancelling"
    /\ calls = {}
    /\ sample # "running"
    /\ phase' = "resuming"
    /\ version' = version + 1
    /\ calls' = Everyone
    /\ UNCHANGED <<cancels, paused, cancellation_event, sampleVars, loopVars, requestVars>>

ResumeServer(s) ==
    /\ phase = "resuming"
    /\ s \in calls
    /\ calls' = calls \ {s}
    /\ paused' = paused \ {s}
    /\ UNCHANGED <<phase, cancels, version, cancellation_event, sampleVars, loopVars, requestVars>>

\* Mutant: the worker's event stays set.
ResumeWorkerKeepsEvent(w) ==
    /\ phase = "resuming"
    /\ w \in calls
    /\ calls' = calls \ {w}
    /\ UNCHANGED <<phase, cancels, version, paused, cancellation_event, sampleVars, loopVars,
                   requestVars>>

ResumeWorker(w) ==
    /\ phase = "resuming"
    /\ w \in calls
    /\ calls' = calls \ {w}
    /\ cancellation_event' = cancellation_event \ {w}
    /\ UNCHANGED <<phase, cancels, version, paused, sampleVars, loopVars, requestVars>>

ResumeEnd ==
    /\ phase = "resuming"
    /\ calls = {}
    /\ phase' = "running"
    /\ UNCHANGED <<calls, cancels, version, paused, cancellation_event, sampleVars, loopVars,
                   requestVars>>

-----------------------------------------------------------------------------

SampleStep == SubmitSample \/ SampleReturns
RolloutStep(r) == LoopTurn(r) \/ ToolsReturn(r) \/ StartRequest(r) \/ EndRequest(r)
SyncStep ==
    \/ \E s \in Servers : CancelServer(s) \/ ResumeServer(s)
    \/ \E w \in Workers : CancelWorker(w) \/ ResumeWorker(w)
    \/ TransferWeights \/ ResumeEnd

\* The sample is trained on and no synchronization is under way.
Finished == sample = "done" /\ phase = "running" /\ UNCHANGED vars

Next ==
    \/ SampleStep
    \/ \E r \in Rollouts : RolloutStep(r) \/ GenerateToken(r)
    \/ CancelBegin
    \/ SyncStep
    \/ Finished

\* Event loops and remote calls go on and tools answer.  Nothing is assumed
\* of the engine.
Fairness ==
    /\ WF_vars(SampleStep)
    /\ WF_vars(SyncStep)
    /\ \A r \in Rollouts : WF_vars(RolloutStep(r))

Spec == Init /\ [][Next]_vars /\ Fairness

-----------------------------------------------------------------------------
(* Properties *)

Token == [kind : {"text", "call", "tool"}, last : BOOLEAN, version : 0..MaxCancels]

\* Type invariant of the partial rollout.
TypeOK ==
    /\ phase \in {"running", "cancelling", "resuming"}
    /\ calls \subseteq Everyone
    /\ cancels \in 0..MaxCancels
    /\ version \in 0..MaxCancels
    /\ paused \subseteq Servers
    /\ cancellation_event \subseteq Workers
    /\ sample \in {"queued", "running", "done"}
    /\ worker \in Workers
    /\ server \in [Rollouts -> Servers]
    /\ run \in [Rollouts -> {"off", "loop", "sent", "generating", "tools", "back"}]
    /\ agent_data \in [Rollouts ->
          [state : {"PENDING", "GENERATING", "PROCESSING_TOOLS", "TERMINATED"},
           response : Seq(Token), mask : Seq({0, 1}),
           assistant_turns : 0..MaxAssistantTurns,
           param_version_start : 0..MaxCancels, param_version_end : 0..MaxCancels]]
    /\ output \in [Rollouts -> {"none", "cancelled", "complete"}]
    /\ scored \in [Rollouts -> Nat]
    /\ req_output \in [Rollouts -> Seq(Token)]
    /\ cancel_event \subseteq Rollouts
    /\ generated \subseteq Rollouts

\* A sample goes to training with every rollout complete and post-processed
\* once, however often the sample was submitted.
ScoredOnce == sample = "done" => \A r \in Rollouts : output[r] = "complete" /\ scored[r] = 1

\* Every generated token of a complete rollout was generated by weights of
\* its span, from param_version_start to param_version_end.
SpanCoversTokens ==
    \A r \in Rollouts : output[r] = "complete" =>
        LET d == agent_data[r]
        IN \A i \in DOMAIN d.response :
              d.response[i].version \in d.param_version_start..d.param_version_end

\* The mask has a place for every token, and trains on just the generated ones.
MaskMarksGenerated ==
    \A r \in Rollouts :
        LET d == agent_data[r]
        IN /\ Len(d.mask) = Len(d.response)
           /\ \A i \in DOMAIN d.mask : d.mask[i] = 0 <=> d.response[i].kind = "tool"

\* A request, also a resumed one, leaves room for at least one token: the
\* engine refuses max_tokens 0.
RequestsHaveRoom ==
    \A r \in Rollouts : run[r] = "sent" => Len(agent_data[r].response) < ResponseLength

\* Nothing that was cut short by a synchronization passes for complete: the
\* last turn was ended by the model, or the response is as long as it may be.
CompleteIsWhole ==
    \A r \in Rollouts : output[r] = "complete" =>
        LET response == agent_data[r].response
        IN \/ Len(response) >= ResponseLength
           \/ response # <<>> /\ response[Len(response)].last

\* A turn the model has finished is never generated on: what was complete
\* when the cancellation came is taken as complete.
TurnsEndOnce ==
    \A r \in Rollouts :
        LET response == agent_data[r].response
        IN \A i \in 2..Len(response) : 
              response[i - 1].last => "tool" \in {response[i - 1].kind, response[i].kind}

\* A request in flight on a paused server knows that it is cancelled: none is
\* overlooked by a cancel that races with its start.
CancelReachesRequests ==
    \A r \in Rollouts : run[r] = "generating" /\ server[r] \in paused => r \in cancel_event

\* A synchronization does not wait for generations to end: it gets its pause
\* even if the engine outputs nothing more.
PauseDrains == phase = "cancelling" ~> phase = "resuming"

\* If the engine goes on, the sample is trained on in the end.
SampleCompletes ==
    (\A r \in Rollouts : WF_vars(GenerateToken(r))) => <>(sample = "done")

\* A tool call in a complete turn is answered by the tools, unless the turn
\* is the last one or there is no room for the answer.
CallsExecuted ==
    \A r \in Rollouts : output[r] = "complete" =>
        LET d == agent_data[r]
        IN \A i \in DOMAIN d.response : d.response[i].kind = "call" =>
              \/ \E j \in i..Len(d.response) : d.response[j].kind = "tool"
              \/ d.assistant_turns >= MaxAssistantTurns
              \/ Len(d.response) + 1 >= ResponseLength
=============================================================================
