------------------------------ MODULE RuntimeEnv ------------------------------
(***************************************************************************)
(* Tool calls of a Tau rollout in a remote environment: the client with    *)
(* its retries and its recovery by replay (agents/env_utils.py), the       *)
(* conversation that drives it (agents/tau_usi/agent.py) and the runtime   *)
(* service (agents/tau_usi/runtime.py).                                    *)
(*                                                                         *)
(* A call is its place in the conversation.  An environment is the         *)
(* sequence of calls it has executed.  Of the service only the environment *)
(* behind the client's runtime_id is kept: those it has no id of, or no    *)
(* longer, are never asked again and expire.                               *)
(***************************************************************************)
EXTENDS Integers, Sequences, FiniteSets

CONSTANTS MaxCalls,       \* bound: tool calls and malformed calls in the conversation
          MaxAttempts,    \* bound: attempts of one request within MAX_RETRY_TIME
          Unreliable      \* requests and answers may be lost

VARIABLES
    chat,         \* the calls in the conversation: "tool", "unknown" tool, or format "error"
    next,         \* the first call that has not been stepped
    pc,           \* the request the client has to make
    after,        \* what a replay leads to: "execute" after ping, "again" after a failure
    replayed,     \* how many calls of the conversation restore has replayed
    attempts,     \* failed attempts of the request under way
    exists,       \* the service knows the client's runtime_id
    executed,     \* calls that environment has executed
    results,      \* calls whose result the agent has got
    skipped,      \* calls whose replay in this environment failed
    reward        \* the calls the reward was calculated from

clientVars == <<chat, next, after, replayed, results, skipped, reward>>
serviceVars == <<exists, executed>>
vars == <<clientVars, serviceVars, pc, attempts>>

NoReward == <<-1>>
GroundTruth == 0          \* the expected calls of the task

Init ==
    /\ chat = <<>>
    /\ next = 1
    /\ pc = "initialize"
    /\ after = "execute"
    /\ replayed = 0
    /\ attempts = 0
    /\ exists = FALSE
    /\ executed = <<>>
    /\ results = {}
    /\ skipped = {}
    /\ reward = NoReward

-----------------------------------------------------------------------------
(* _request_with_retry *)

\* One attempt of a request the service serves or refuses (4xx).  "lost":
\* it is served, but the answer does not arrive.  A connection error is tried
\* again while there is time; a timeout and a refusal end the request.
Attempt(outcome, served, retried) ==
    /\ outcome \in (IF served THEN {"ok"} ELSE {"refused"})
                     \cup (IF Unreliable THEN {"unreachable", "lost"} ELSE {})
    /\ retried => outcome \in {"unreachable", "lost"} /\ attempts + 1 < MaxAttempts
    /\ attempts' = IF retried THEN attempts + 1 ELSE 0

Reached(outcome) == outcome \in {"ok", "lost"}

-----------------------------------------------------------------------------
(* The service *)

\* lookup finds the runtime, and the tool is one of its tools.
Accepts(c) == exists /\ chat[c] = "tool"

\* /step executes call c.
Executes(c, outcome) ==
    /\ executed' = IF Accepts(c) /\ Reached(outcome) THEN Append(executed, c) ELSE executed
    /\ UNCHANGED exists

\* The service restarts, or drops a runtime that was idle for too long.
Forget ==
    /\ exists
    /\ exists' = FALSE
    /\ executed' = <<>>
    /\ UNCHANGED <<clientVars, pc, attempts>>

-----------------------------------------------------------------------------
(* BaseEnv: create, ping, restore, step *)

\* The calls of the message are over: all have results, or one has raised.
DropMessage ==
    /\ next' = Len(chat) + 1
    /\ pc' = "turn"

Create ==
    /\ pc \in {"initialize", "restore"}
    /\ \E outcome \in {"ok", "unreachable", "lost"}, retried \in BOOLEAN :
          /\ Attempt(outcome, TRUE, retried)
          /\ CASE outcome = "ok" ->
                    /\ exists' = TRUE
                    /\ executed' = <<>>
                    /\ skipped' = {}
                    /\ replayed' = 0
                    /\ pc' = IF pc = "initialize" THEN "turn" ELSE "replay"
                    /\ UNCHANGED next
               [] retried -> UNCHANGED <<serviceVars, skipped, replayed, pc, next>>
               [] ~retried /\ outcome # "ok" ->
                    /\ IF pc = "initialize" THEN pc' = "failed" /\ UNCHANGED next ELSE DropMessage
                    /\ UNCHANGED <<serviceVars, skipped, replayed>>
    /\ UNCHANGED <<chat, after, results, reward>>

\* An environment that is gone, or does not answer, is restored.
Ping ==
    /\ pc = "ping"
    /\ \E outcome \in {"ok", "unreachable", "lost"}, retried \in BOOLEAN :
          /\ Attempt(outcome, TRUE, retried)
          /\ pc' = IF retried THEN "ping"
                   ELSE IF outcome = "ok" /\ exists THEN "execute" ELSE "restore"
    /\ after' = "execute"
    /\ UNCHANGED <<chat, next, replayed, results, skipped, reward, serviceVars>>

\* Mutant: the actions are collected from the last message backwards.
ReplayedCallBackwards == Len(chat) - replayed

\* restore replays every call of the conversation, in order.
ReplayedCall == replayed + 1

\* Mutant: a step that fails ends the replay.
GoesOn(outcome) == outcome = "ok" /\ replayed + 1 < Len(chat)

\* A step that fails does not.
ReplayGoesOn(outcome) == replayed + 1 < Len(chat)

Replay ==
    /\ pc = "replay"
    /\ LET c == ReplayedCall
       IN \E outcome \in {"ok", "refused", "unreachable", "lost"}, retried \in BOOLEAN :
             /\ Attempt(outcome, Accepts(c), retried)
             /\ Executes(c, outcome)
             /\ IF retried
                THEN UNCHANGED <<replayed, skipped, pc>>
                ELSE /\ replayed' = replayed + 1
                     /\ skipped' = IF outcome = "ok" THEN skipped ELSE skipped \cup {c}
                     /\ pc' = IF ReplayGoesOn(outcome) THEN "replay" ELSE after
    /\ UNCHANGED <<chat, next, after, results, reward>>

\* The step after a recovery is not recovered again.
Recovers == pc = "execute"

\* step executes the call; if that raises, it restores and executes it again.
ExecuteStep ==
    /\ pc \in {"execute", "again"}
    /\ \E outcome \in {"ok", "refused", "unreachable", "lost"}, retried \in BOOLEAN :
          /\ Attempt(outcome, Accepts(next), retried)
          /\ Executes(next, outcome)
          /\ CASE outcome = "ok" ->
                    /\ results' = results \cup {next}
                    /\ next' = next + 1
                    /\ pc' = IF next = Len(chat) THEN "turn" ELSE "ping"
                    /\ UNCHANGED after
               [] retried -> UNCHANGED <<results, next, pc, after>>
               [] ~retried /\ outcome # "ok" ->
                    /\ IF Recovers
                       THEN pc' = "restore" /\ after' = "again" /\ UNCHANGED next
                       ELSE DropMessage /\ UNCHANGED after
                    /\ UNCHANGED results
    /\ UNCHANGED <<chat, replayed, skipped, reward>>

-----------------------------------------------------------------------------
(* rollout_one_task *)

\* The agent's message: one or two calls, or one that is malformed.  It is in
\* the conversation before its first call is stepped.
AgentResponds ==
    /\ pc = "turn"
    /\ \/ /\ Len(chat) < MaxCalls
          /\ chat' = Append(chat, "error")
          /\ next' = next + 1
          /\ UNCHANGED pc
       \/ \E n \in 1..2 : \E calls \in [1..n -> {"tool", "unknown"}] :
             /\ Len(chat) + n <= MaxCalls
             /\ chat' = chat \o calls
             /\ pc' = "ping"
             /\ UNCHANGED next
    /\ UNCHANGED <<after, replayed, results, skipped, reward, serviceVars, attempts>>

ConversationEnds ==
    /\ pc = "turn"
    /\ pc' = "reward"
    /\ UNCHANGED <<clientVars, serviceVars, attempts>>

\* Mutant: the environment itself is scored.
ScoresRuntime(outcome) ==
    executed' = IF exists /\ Reached(outcome) THEN Append(executed, GroundTruth) ELSE executed

\* Scoring executes the expected calls of the task, in a copy.
Scores(outcome) == UNCHANGED executed

\* get_reward neither pings nor restores.
GetReward ==
    /\ pc = "reward"
    /\ \E outcome \in {"ok", "refused", "unreachable", "lost"}, retried \in BOOLEAN :
          /\ Attempt(outcome, exists, retried)
          /\ Scores(outcome)
          /\ reward' = IF outcome = "ok" THEN executed ELSE reward
          /\ pc' = IF retried THEN "reward" ELSE "end"
    /\ UNCHANGED <<chat, next, after, replayed, results, skipped, exists>>

-----------------------------------------------------------------------------

Ended == pc \in {"end", "failed"} /\ UNCHANGED vars

ClientStep ==
    Create \/ Ping \/ Replay \/ ExecuteStep \/ AgentResponds \/ ConversationEnds \/ GetReward

Next == ClientStep \/ Forget \/ Ended

\* Every request is answered or times out, and the agent goes on.
Fairness == WF_vars(ClientStep)

Spec == Init /\ [][Next]_vars /\ Fairness

-----------------------------------------------------------------------------
(* Properties *)

Calls == 1..MaxCalls

\* Type invariant of client and environment.
TypeOK ==
    /\ chat \in Seq({"tool", "unknown", "error"}) /\ Len(chat) <= MaxCalls
    /\ next \in 1..(Len(chat) + 1)
    /\ pc \in {"initialize", "turn", "ping", "restore", "replay", "execute", "again", "reward",
               "end", "failed"}
    /\ after \in {"execute", "again"}
    /\ replayed \in 0..Len(chat)
    /\ attempts \in 0..(MaxAttempts - 1)
    /\ exists \in BOOLEAN
    /\ executed \in Seq(Calls)
    /\ results \subseteq Calls
    /\ skipped \subseteq Calls
    /\ reward = NoReward \/ reward \in Seq(Calls)

Executed == {executed[i] : i \in DOMAIN executed}

\* The client does not replay: it works with the environment it has.
Recovered == exists /\ pc \in {"turn", "ping", "execute", "again", "reward"}

\* However often the service was restarted and answers were lost: what the
\* agent has seen done is done in the environment it works with, unless the
\* replay of that very call has failed.
ResultsAreExecuted == Recovered => results \subseteq Executed \cup skipped

FirstTime(c) == CHOOSE i \in DOMAIN executed :
                    executed[i] = c /\ \A j \in 1..(i - 1) : executed[j] # c

\* Retries and replays repeat calls but do not reorder them: calls are first
\* executed in the order of the conversation.
FirstExecutionsInOrder ==
    \A c, d \in Executed \ skipped : c < d => FirstTime(c) < FirstTime(d)

\* A reward is calculated from calls of the conversation only, although a
\* request that is tried again has calculated it before.
RewardOfCalls == reward # NoReward => \A i \in DOMAIN reward : reward[i] # GroundTruth

RolloutOver == pc \in {"end", "failed"}

\* Every rollout ends, whatever the service does.
RolloutEnds == <>RolloutOver

\* After a message the environment has executed the calls the agent has got
\* results of, each of them once: this is what recovery by replay is for.
ExecutedOnce == (pc = "turn" /\ exists) =>
    /\ Executed = results
    /\ Len(executed) = Cardinality(results)
=============================================================================
