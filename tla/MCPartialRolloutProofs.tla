------------------------ MODULE MCPartialRolloutProofs ------------------------
(***************************************************************************)
(* What PartialRolloutProofs proves of one setup holds of the two that     *)
(* MCPartialRollout puts side by side over the same variables.             *)
(***************************************************************************)
EXTENDS MCPartialRollout, PartialRolloutProofs

SingleProofs == INSTANCE PartialRolloutProofs WITH
    Rollouts <- SingleRollouts, Servers <- SingleServers, Workers <- SingleWorkers,
    ToolAgent <- FALSE, ResponseLength <- SingleResponseLength,
    ModelLength <- SingleModelLength, MaxAssistantTurns <- 1

-----------------------------------------------------------------------------
(* The specification and the properties of both instances are the same *)

LEMMA SingleInitSame == Single!Init <=> SingleProofs!Init
PROOF
  BY DEF Single!Init, SingleProofs!Init, Single!NewAgentData, SingleProofs!NewAgentData

LEMMA SingleNextSame == Single!Next <=> SingleProofs!Next
PROOF
<1> USE DEF Single!syncVars, SingleProofs!syncVars, Single!sampleVars, SingleProofs!sampleVars,
            Single!loopVars, SingleProofs!loopVars, Single!requestVars, SingleProofs!requestVars,
            Single!Everyone, SingleProofs!Everyone
<1>1. Single!SampleStep <=> SingleProofs!SampleStep
  BY DEF Single!SampleStep, SingleProofs!SampleStep, Single!SubmitSample,
         SingleProofs!SubmitSample, Single!SampleReturns, SingleProofs!SampleReturns,
         Single!AlreadyComplete, SingleProofs!AlreadyComplete, Single!BeginsWith,
         SingleProofs!BeginsWith, Single!AnyCancelled, SingleProofs!AnyCancelled
<1>2. \A s : Single!Truncate(s) = SingleProofs!Truncate(s)
  BY DEF Single!Truncate, SingleProofs!Truncate
<1>3. \A n : Single!Ones(n) = SingleProofs!Ones(n)
  BY DEF Single!Ones, SingleProofs!Ones
<1>4. \A r, d, c : Single!HandBack(r, d, c) <=> SingleProofs!HandBack(r, d, c)
  BY DEF Single!HandBack, SingleProofs!HandBack
<1>5. \A r, ids, c : Single!Answer(r, ids, c) <=> SingleProofs!Answer(r, ids, c)
  BY <1>2, <1>3, <1>4
  DEF Single!Answer, SingleProofs!Answer, Single!SingleTurnAnswer, SingleProofs!SingleTurnAnswer
<1>6. \A r : Single!LoopTurn(r) <=> SingleProofs!LoopTurn(r)
  BY <1>2, <1>4 DEF Single!LoopTurn, SingleProofs!LoopTurn
<1>7. \A r : Single!ToolsReturn(r) <=> SingleProofs!ToolsReturn(r)
  BY DEF Single!ToolsReturn, SingleProofs!ToolsReturn
<1>8. \A r : Single!StartRequest(r) <=> SingleProofs!StartRequest(r)
  BY <1>5 DEF Single!StartRequest, SingleProofs!StartRequest, Single!Refuses,
              SingleProofs!Refuses
<1>9. \A r : Single!EndRequest(r) <=> SingleProofs!EndRequest(r)
  BY <1>5 DEF Single!EndRequest, SingleProofs!EndRequest, Single!IsCancelled,
              SingleProofs!IsCancelled
<1>10. \A r : Single!GenerateToken(r) <=> SingleProofs!GenerateToken(r)
  BY DEF Single!GenerateToken, SingleProofs!GenerateToken
<1>11. Single!CancelBegin <=> SingleProofs!CancelBegin
  BY DEF Single!CancelBegin, SingleProofs!CancelBegin
<1>12. \A s : /\ Single!CancelServer(s) <=> SingleProofs!CancelServer(s)
              /\ Single!ResumeServer(s) <=> SingleProofs!ResumeServer(s)
  BY DEF Single!CancelServer, SingleProofs!CancelServer, Single!Wakes, SingleProofs!Wakes,
         Single!ResumeServer, SingleProofs!ResumeServer
<1>13. \A w : /\ Single!CancelWorker(w) <=> SingleProofs!CancelWorker(w)
              /\ Single!ResumeWorker(w) <=> SingleProofs!ResumeWorker(w)
  BY DEF Single!CancelWorker, SingleProofs!CancelWorker, Single!ResumeWorker,
         SingleProofs!ResumeWorker
<1>14. Single!SyncStep <=> SingleProofs!SyncStep
  BY <1>12, <1>13 DEF Single!SyncStep, SingleProofs!SyncStep, Single!TransferWeights,
                      SingleProofs!TransferWeights, Single!ResumeEnd, SingleProofs!ResumeEnd
<1>15. Single!Finished <=> SingleProofs!Finished
  BY DEF Single!Finished, SingleProofs!Finished, Single!vars, SingleProofs!vars
<1> QED
  BY <1>1, <1>6, <1>7, <1>8, <1>9, <1>10, <1>11, <1>14, <1>15
  DEF Single!Next, SingleProofs!Next, Single!RolloutStep, SingleProofs!RolloutStep

\* The constants of the second setup are as PartialRollout assumes.
LEMMA SingleConstants == SingleProofs!PartialRolloutAssumption
PROOF
  BY SingleAssumption, PartialRolloutAssumption DEF SingleProofs!PartialRolloutAssumption

LEMMA SingleSuffices ==
    SingleProofs!IInv =>
        /\ Single!TypeOK /\ Single!ScoredOnce /\ Single!SpanCoversTokens
        /\ Single!MaskMarksGenerated /\ Single!RequestsHaveRoom /\ Single!CompleteIsWhole
        /\ Single!TurnsEndOnce /\ Single!CancelReachesRequests
PROOF
<1> SUFFICES ASSUME SingleProofs!IInv
             PROVE  /\ Single!TypeOK /\ Single!ScoredOnce /\ Single!SpanCoversTokens
                    /\ Single!MaskMarksGenerated /\ Single!RequestsHaveRoom
                    /\ Single!CompleteIsWhole /\ Single!TurnsEndOnce
                    /\ Single!CancelReachesRequests
  OBVIOUS
<1>1. /\ SingleProofs!TypeOK /\ SingleProofs!ScoredOnce /\ SingleProofs!SpanCoversTokens
      /\ SingleProofs!MaskMarksGenerated /\ SingleProofs!RequestsHaveRoom
      /\ SingleProofs!CompleteIsWhole /\ SingleProofs!TurnsEndOnce
      /\ SingleProofs!CancelReachesRequests
  BY SingleConstants, SingleProofs!InvariantSuffices
<1>2. Single!TypeOK
  BY <1>1 DEF Single!TypeOK, SingleProofs!TypeOK, Single!Token, SingleProofs!Token,
              Single!Everyone, SingleProofs!Everyone
<1>3. Single!ScoredOnce /\ Single!SpanCoversTokens /\ Single!MaskMarksGenerated
  BY <1>1 DEF Single!ScoredOnce, SingleProofs!ScoredOnce, Single!SpanCoversTokens,
              SingleProofs!SpanCoversTokens, Single!MaskMarksGenerated,
              SingleProofs!MaskMarksGenerated
<1>4. Single!RequestsHaveRoom /\ Single!CompleteIsWhole
  BY <1>1 DEF Single!RequestsHaveRoom, SingleProofs!RequestsHaveRoom, Single!CompleteIsWhole,
              SingleProofs!CompleteIsWhole
<1>5. Single!TurnsEndOnce /\ Single!CancelReachesRequests
  BY <1>1 DEF Single!TurnsEndOnce, SingleProofs!TurnsEndOnce, Single!CancelReachesRequests,
              SingleProofs!CancelReachesRequests
<1> QED
  BY <1>2, <1>3, <1>4, <1>5

-----------------------------------------------------------------------------
(* The invariant of the two setups *)

SetupInv == IF setup = "tools" THEN IInv ELSE setup = "single" /\ SingleProofs!IInv

LEMMA SetupInvariant == MCSpec => []SetupInv
PROOF
<1>1. MCInit => SetupInv
  BY InitHolds, SingleConstants, SingleInitSame, SingleProofs!InitHolds DEF MCInit, SetupInv
<1>2. SetupInv /\ [MCNext]_<<vars, setup>> => SetupInv'
  <2> SUFFICES ASSUME SetupInv, [MCNext]_<<vars, setup>> PROVE SetupInv'
    OBVIOUS
  <2>1. setup' = setup
    BY DEF MCNext
  <2>2. CASE setup = "tools"
    <3>1. IInv /\ [Next]_vars
      BY <2>2 DEF SetupInv, MCNext
    <3> QED
      BY <3>1, <2>1, <2>2, NextKeeps DEF SetupInv
  <2>3. CASE setup # "tools"
    <3>1. vars = SingleProofs!vars
      BY DEF vars, syncVars, sampleVars, loopVars, requestVars, SingleProofs!vars,
             SingleProofs!syncVars, SingleProofs!sampleVars, SingleProofs!loopVars,
             SingleProofs!requestVars
    <3>2. SingleProofs!IInv /\ [SingleProofs!Next]_(SingleProofs!vars)
      BY <2>3, <3>1, SingleNextSame
      DEF SetupInv, MCNext, vars, syncVars, sampleVars, loopVars, requestVars,
          SingleProofs!vars, SingleProofs!syncVars, SingleProofs!sampleVars,
          SingleProofs!loopVars, SingleProofs!requestVars
    <3>3. SingleProofs!IInv'
      BY <3>2, SingleConstants, SingleProofs!NextKeeps
    <3> QED
      BY <3>3, <2>1, <2>3 DEF SetupInv
  <2> QED
    BY <2>2, <2>3
<1> QED
  BY <1>1, <1>2, PTL DEF MCSpec

-----------------------------------------------------------------------------
(* Theorems *)

\* In both setups: every token of a complete rollout was generated by weights of
\* its span and is masked as generated or not, and a resumed request has room.
THEOREM TokensAreConsistent == MCSpec => []TokensConsistent
PROOF
<1>1. SetupInv => TokensConsistent
  BY InvariantSuffices, SingleSuffices DEF SetupInv, TokensConsistent
<1> QED
  BY <1>1, SetupInvariant, PTL

\* In both setups: no turn is cut short by a synchronization, and none that was
\* complete is generated on.
THEOREM TurnsAreWhole == MCSpec => []TurnsWhole
PROOF
<1>1. SetupInv => TurnsWhole
  BY InvariantSuffices, SingleSuffices DEF SetupInv, TurnsWhole
<1> QED
  BY <1>1, SetupInvariant, PTL

\* In both setups: a sample is trained on with every rollout complete and scored
\* once, however often it is cancelled and submitted again.
THEOREM EachIsScoredOnce == MCSpec => []EachScoredOnce
PROOF
<1>1. SetupInv => EachScoredOnce
  BY InvariantSuffices, SingleSuffices DEF SetupInv, EachScoredOnce
<1> QED
  BY <1>1, SetupInvariant, PTL

\* In both setups: a cancel overlooks no request that races with it.
THEOREM AllCancelsReach == MCSpec => []CancelsReach
PROOF
<1>1. SetupInv => CancelsReach
  BY InvariantSuffices, SingleSuffices DEF SetupInv, CancelsReach
<1> QED
  BY <1>1, SetupInvariant, PTL
=============================================================================
