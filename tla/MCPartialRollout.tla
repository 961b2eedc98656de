-------------------------- MODULE MCPartialRollout ---------------------------
(* PartialRollout for TLC in two setups, a job with one agent loop and one   *)
(* with the other: a multi-turn tool conversation, and single-turn rollouts. *)
(* The constants of PartialRollout are those of the first.                   *)
EXTENDS PartialRollout

CONSTANTS SingleRollouts, SingleServers, SingleWorkers, SingleResponseLength, SingleModelLength

ASSUME SingleAssumption ==
    /\ SingleRollouts # {} /\ SingleServers # {} /\ SingleWorkers # {}
    /\ SingleResponseLength \in Nat \ {0}
    /\ SingleModelLength \in Nat /\ SingleModelLength >= SingleResponseLength

VARIABLE setup

Single == INSTANCE PartialRollout WITH
    Rollouts <- SingleRollouts, Servers <- SingleServers, Workers <- SingleWorkers,
    ToolAgent <- FALSE, ResponseLength <- SingleResponseLength,
    ModelLength <- SingleModelLength, MaxAssistantTurns <- 1

MCInit ==
    \/ setup = "tools" /\ Init
    \/ setup = "single" /\ Single!Init

MCNext ==
    /\ \/ setup = "tools" /\ Next
       \/ setup = "single" /\ Single!Next
    /\ UNCHANGED setup

MCFairness ==
    /\ WF_vars(setup = "tools" /\ SampleStep)
    /\ WF_vars(setup = "tools" /\ SyncStep)
    /\ \A r \in Rollouts : WF_vars(setup = "tools" /\ RolloutStep(r))
    /\ WF_vars(setup = "single" /\ Single!SampleStep)
    /\ WF_vars(setup = "single" /\ Single!SyncStep)
    /\ \A r \in SingleRollouts : WF_vars(setup = "single" /\ Single!RolloutStep(r))

MCSpec == MCInit /\ [][MCNext]_<<vars, setup>> /\ MCFairness

\* The type invariant holds, the tokens of a rollout were generated by weights
\* of its span and are masked as generated, and a resumed request has room.
TokensConsistent ==
    IF setup = "tools"
    THEN TypeOK /\ SpanCoversTokens /\ MaskMarksGenerated /\ RequestsHaveRoom
    ELSE Single!TypeOK /\ Single!SpanCoversTokens /\ Single!MaskMarksGenerated
             /\ Single!RequestsHaveRoom

\* No turn is cut short, and none that was complete is generated on.
TurnsWhole ==
    IF setup = "tools" THEN CompleteIsWhole /\ TurnsEndOnce
                       ELSE Single!CompleteIsWhole /\ Single!TurnsEndOnce

\* A sample is trained on with every rollout scored once.
EachScoredOnce == IF setup = "tools" THEN ScoredOnce ELSE Single!ScoredOnce

\* A cancel overlooks no request that races with it.
CancelsReach == IF setup = "tools" THEN CancelReachesRequests ELSE Single!CancelReachesRequests

\* If the engine goes on, the sample is trained on in the end.
SamplesComplete ==
    ((\A r \in Rollouts : WF_vars(setup = "tools" /\ GenerateToken(r)))
        /\ (\A r \in SingleRollouts : WF_vars(setup = "single" /\ Single!GenerateToken(r))))
    => <>(sample = "done")
=============================================================================
