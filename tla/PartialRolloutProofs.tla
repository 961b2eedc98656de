------------------------- MODULE PartialRolloutProofs -------------------------
(***************************************************************************)
(* Proofs, for any number of rollouts, servers, workers and                *)
(* synchronizations, any lengths and both agent loops: a rollout cancelled *)
(* any number of times and resumed on other servers and workers keeps its  *)
(* tokens, mask, versions and turns together, is handed back once, and no  *)
(* cancel overlooks a request.                                             *)
(***************************************************************************)
EXTENDS PartialRollout, SequenceTheorems, TLAPS

\* The specification without its fairness.
SafetySpec == Init /\ [][Next]_vars

-----------------------------------------------------------------------------
(* Tokens *)

\* Every token has its place in the mask, which leaves out the tools' answers.
Masks(mask, tokens) ==
    /\ Len(mask) = Len(tokens)
    /\ \A i \in DOMAIN mask : mask[i] = 0 <=> tokens[i].kind = "tool"

\* Tokens generated by weights of versions start to v.
Between(tokens, start, v) == \A i \in DOMAIN tokens : tokens[i].version \in start..v

Generated(tokens) == \A i \in DOMAIN tokens : tokens[i].kind # "tool"

\* No turn the model has ended is generated on.
Turns(tokens) ==
    \A i \in 2..Len(tokens) :
        tokens[i - 1].last => "tool" \in {tokens[i - 1].kind, tokens[i].kind}

\* The model has ended its turn; it may go on; it or the limit has ended it.
Closed(tokens) == tokens # <<>> /\ tokens[Len(tokens)].last
Open(tokens) == Closed(tokens) => tokens[Len(tokens)].kind = "tool"
Whole(tokens) == Len(tokens) >= ResponseLength \/ Closed(tokens)

\* No token ends a turn; none but the last one does.
Unended(tokens) == \A i \in DOMAIN tokens : ~tokens[i].last
EndedLast(tokens) == \A i \in DOMAIN tokens : i < Len(tokens) => ~tokens[i].last

-----------------------------------------------------------------------------
(* The invariant *)

States == {"PENDING", "GENERATING", "PROCESSING_TOOLS", "TERMINATED"}
AgentData ==
    [state : States, response : Seq(Token), mask : Seq({0, 1}),
     assistant_turns : 0..MaxAssistantTurns,
     param_version_start : 0..MaxCancels, param_version_end : 0..MaxCancels]

\* A synchronization changes the weights once.
VersionInv == version = IF phase = "cancelling" THEN cancels - 1 ELSE cancels

\* A submission runs all rollouts and returns with an output of each.
SampleInv ==
    /\ sample = "running" => \A r \in Rollouts : run[r] # "off"
    /\ sample # "running" => \A r \in Rollouts : run[r] = "off"
    /\ sample = "done" => \A r \in Rollouts : output[r] = "complete"

\* A rollout is scored when it is complete, and not run again.
ScoreSound(at, out, count) ==
    /\ count = IF out = "complete" THEN 1 ELSE 0
    /\ out = "complete" => at \in {"back", "off"}
    /\ at = "back" => out # "none"

\* The agent loop is where its state machine says.
StateSound(at, d, out) ==
    /\ at \in {"sent", "generating"} => d.state = "GENERATING"
    /\ at = "tools" => d.state = "PROCESSING_TOOLS"
    /\ d.state = "TERMINATED" => at = "loop" \/ out = "complete"
    /\ d.state # "TERMINATED" => d.assistant_turns < MaxAssistantTurns
    /\ ToolAgent /\ out = "complete" => d.state = "TERMINATED"
    /\ ~ToolAgent => at \notin {"loop", "tools"} /\ d.state = "GENERATING"

\* The tokens of the response so far.
TokensSound(at, d, out, v) ==
    /\ Masks(d.mask, d.response)
    /\ d.param_version_start <= v
    /\ Between(d.response, d.param_version_start, v)
    /\ out = "complete" => Between(d.response, d.param_version_start, d.param_version_end)
    /\ ~ToolAgent => Generated(d.response)
    /\ at = "off" /\ out = "none" => d.response = <<>>

\* Its turns, as far as the state machine says.
TurnsSound(d, out) ==
    /\ Turns(d.response)
    /\ d.state = "PENDING" => d.response = <<>>
    /\ d.state = "GENERATING" /\ out # "complete" =>
           Len(d.response) < ResponseLength /\ Open(d.response)
    /\ d.state = "PROCESSING_TOOLS" => Closed(d.response)
    /\ d.state = "TERMINATED" \/ out = "complete" => Whole(d.response)

LoopSound(at, d, out, count, v) ==
    ScoreSound(at, out, count) /\ StateSound(at, d, out) /\ TokensSound(at, d, out, v)
        /\ TurnsSound(d, out)

LoopInv == \A r \in Rollouts : LoopSound(run[r], agent_data[r], output[r], scored[r], version)

\* What the request in flight of data d has output; ended: its task is done.
RequestSound(d, tokens, v, ended) ==
    /\ Generated(tokens)
    /\ Between(tokens, d.param_version_start, v)
    /\ EndedLast(tokens)
    /\ ~ended => Unended(tokens)
    /\ ended => Closed(tokens) \/ Len(d.response) + Len(tokens) >= ModelLength

RequestInv ==
    \A r \in Rollouts : run[r] = "generating" =>
        RequestSound(agent_data[r], req_output[r], version, r \in generated)

IInv ==
    TypeOK /\ VersionInv /\ SampleInv /\ CancelReachesRequests /\ LoopInv /\ RequestInv

-----------------------------------------------------------------------------
(* Lemmas on sequences of tokens *)

LEMMA TruncateFacts ==
    ASSUME NEW S, NEW seq \in Seq(S)
    PROVE  /\ Truncate(seq) \in Seq(S)
           /\ Len(Truncate(seq)) = IF Len(seq) > ResponseLength THEN ResponseLength ELSE Len(seq)
           /\ \A i \in 1..Len(Truncate(seq)) : i \in 1..Len(seq) /\ Truncate(seq)[i] = seq[i]
PROOF
<1>1. CASE Len(seq) > ResponseLength
  <2>1. \A i \in 1..ResponseLength : seq[i] \in S
    BY <1>1, PartialRolloutAssumption, ElementOfSeq, LenProperties
  <2>2. Truncate(seq) = SubSeq(seq, 1, ResponseLength)
    BY <1>1 DEF Truncate
  <2>3. /\ SubSeq(seq, 1, ResponseLength) \in Seq(S)
        /\ Len(SubSeq(seq, 1, ResponseLength)) = ResponseLength
        /\ \A i \in 1..ResponseLength : SubSeq(seq, 1, ResponseLength)[i] = seq[i]
    BY <2>1, PartialRolloutAssumption, SubSeqProperties
  <2> QED
    BY <1>1, <2>2, <2>3, PartialRolloutAssumption, LenProperties
<1>2. CASE ~(Len(seq) > ResponseLength)
  BY <1>2 DEF Truncate
<1> QED
  BY <1>1, <1>2

LEMMA OnesFacts ==
    ASSUME NEW n \in Nat
    PROVE  /\ Ones(n) \in Seq({0, 1}) /\ Len(Ones(n)) = n
           /\ \A i \in 1..n : Ones(n)[i] = 1
PROOF
  BY DEF Ones

\* What truncation leaves as it is.
LEMMA TruncateKeeps ==
    ASSUME NEW tokens \in Seq(Token), NEW mask \in Seq({0, 1}), NEW a \in Int, NEW b \in Int
    PROVE  /\ Masks(mask, tokens) => Masks(Truncate(mask), Truncate(tokens))
           /\ Between(tokens, a, b) => Between(Truncate(tokens), a, b)
           /\ Generated(tokens) => Generated(Truncate(tokens))
           /\ Turns(tokens) => Turns(Truncate(tokens))
           /\ Whole(tokens) => Whole(Truncate(tokens))
           /\ Truncate(tokens) \in Seq(Token) /\ Truncate(mask) \in Seq({0, 1})
           /\ Len(tokens) < ResponseLength => Truncate(tokens) = tokens
PROOF
<1> DEFINE s == Truncate(tokens)
           m == Truncate(mask)
<1>1. /\ s \in Seq(Token)
      /\ Len(s) = IF Len(tokens) > ResponseLength THEN ResponseLength ELSE Len(tokens)
      /\ \A i \in 1..Len(s) : i \in 1..Len(tokens) /\ s[i] = tokens[i]
  BY TruncateFacts
<1>2. /\ m \in Seq({0, 1})
      /\ Len(m) = IF Len(mask) > ResponseLength THEN ResponseLength ELSE Len(mask)
      /\ \A i \in 1..Len(m) : i \in 1..Len(mask) /\ m[i] = mask[i]
  BY TruncateFacts
<1>3. /\ DOMAIN s = 1..Len(s) /\ DOMAIN m = 1..Len(m) /\ DOMAIN tokens = 1..Len(tokens)
      /\ DOMAIN mask = 1..Len(mask) /\ Len(tokens) \in Nat /\ Len(s) \in Nat
  BY <1>1, <1>2, LenProperties
<1>4. Len(tokens) <= ResponseLength => s = tokens
  <2>1. Len(tokens) \in Nat /\ ResponseLength \in Nat
    BY <1>3, PartialRolloutAssumption
  <2>2. Len(tokens) <= ResponseLength => ~(Len(tokens) > ResponseLength)
    BY <2>1
  <2> QED
    BY <2>2 DEF Truncate
<1> HIDE DEF s, m
<1>5. Masks(mask, tokens) => Masks(m, s)
  BY <1>1, <1>2, <1>3 DEF Masks
<1>6. Between(tokens, a, b) => Between(s, a, b)
  BY <1>1, <1>3 DEF Between
<1>7. Generated(tokens) => Generated(s)
  BY <1>1, <1>3 DEF Generated
<1>8. Turns(tokens) => Turns(s)
  <2> SUFFICES ASSUME Turns(tokens), NEW i \in 2..Len(s), s[i - 1].last
               PROVE  "tool" \in {s[i - 1].kind, s[i].kind}
    BY DEF Turns
  <2>1. i \in 2..Len(tokens) /\ s[i] = tokens[i] /\ s[i - 1] = tokens[i - 1]
    BY <1>1, <1>3
  <2> QED
    BY <2>1 DEF Turns
<1>9. Whole(tokens) => Whole(s)
  BY <1>1, <1>3, <1>4, PartialRolloutAssumption DEF Whole
<1> QED
  BY <1>1, <1>2, <1>3, <1>4, <1>5, <1>6, <1>7, <1>8, <1>9, PartialRolloutAssumption DEF s, m

\* An answer of the model appended to a response.
LEMMA AnswerFacts ==
    ASSUME NEW tokens \in Seq(Token), NEW ids \in Seq(Token), NEW mask \in Seq({0, 1}),
           NEW a \in Int, NEW b \in Int, Generated(ids)
    PROVE  /\ tokens \o ids \in Seq(Token) /\ Len(tokens \o ids) = Len(tokens) + Len(ids)
           /\ mask \o Ones(Len(ids)) \in Seq({0, 1})
           /\ Masks(mask, tokens) => Masks(mask \o Ones(Len(ids)), tokens \o ids)
           /\ Between(tokens, a, b) /\ Between(ids, a, b) => Between(tokens \o ids, a, b)
           /\ Generated(tokens) => Generated(tokens \o ids)
           /\ Turns(tokens) /\ Open(tokens) /\ EndedLast(ids) => Turns(tokens \o ids)
           /\ Open(tokens) /\ Unended(ids) => Open(tokens \o ids)
           /\ Closed(ids) => Closed(tokens \o ids)
PROOF
<1> DEFINE s == tokens \o ids
           o == Ones(Len(ids))
           m == mask \o o
<1>1. Len(tokens) \in Nat /\ Len(ids) \in Nat /\ Len(mask) \in Nat
      /\ DOMAIN tokens = 1..Len(tokens) /\ DOMAIN ids = 1..Len(ids) /\ DOMAIN mask = 1..Len(mask)
  BY LenProperties
<1>2. o \in Seq({0, 1}) /\ Len(o) = Len(ids) /\ \A i \in 1..Len(ids) : o[i] = 1
  BY <1>1, OnesFacts
<1>3. /\ s \in Seq(Token) /\ Len(s) = Len(tokens) + Len(ids)
      /\ \A i \in 1..(Len(tokens) + Len(ids)) :
             s[i] = IF i <= Len(tokens) THEN tokens[i] ELSE ids[i - Len(tokens)]
  BY ConcatProperties
<1> HIDE DEF o
<1>4. /\ m \in Seq({0, 1}) /\ Len(m) = Len(mask) + Len(o)
      /\ \A i \in 1..(Len(mask) + Len(o)) : m[i] = IF i <= Len(mask) THEN mask[i] ELSE o[i - Len(mask)]
  BY <1>2, ConcatProperties
<1>5. DOMAIN s = 1..Len(s) /\ DOMAIN m = 1..Len(m)
  BY <1>3, <1>4, LenProperties
<1> HIDE DEF s, m
<1>6. \A i \in DOMAIN s :
          \/ i \in DOMAIN tokens /\ s[i] = tokens[i]
          \/ i - Len(tokens) \in DOMAIN ids /\ s[i] = ids[i - Len(tokens)]
  <2> SUFFICES ASSUME NEW i \in DOMAIN s
               PROVE  \/ i \in DOMAIN tokens /\ s[i] = tokens[i]
                      \/ i - Len(tokens) \in DOMAIN ids /\ s[i] = ids[i - Len(tokens)]
    OBVIOUS
  <2>1. i \in 1..(Len(tokens) + Len(ids))
    BY <1>3, <1>5
  <2>2. s[i] = IF i <= Len(tokens) THEN tokens[i] ELSE ids[i - Len(tokens)]
    BY <1>3, <2>1
  <2> QED
    BY <2>1, <2>2, <1>1
<1>7. Masks(mask, tokens) => Masks(m, s)
  <2> SUFFICES ASSUME Masks(mask, tokens), NEW i \in 1..Len(m)
               PROVE  m[i] = 0 <=> s[i].kind = "tool"
    BY <1>1, <1>2, <1>3, <1>4, <1>5 DEF Masks
  <2>1. CASE i <= Len(tokens)
    <3>1. Len(mask) = Len(tokens) /\ i \in 1..Len(mask)
      BY <2>1, <1>1, <1>4 DEF Masks
    <3>2. m[i] = mask[i]
      BY <3>1, <1>4
    <3>3. s[i] = tokens[i]
      BY <3>1, <1>3
    <3> QED
      BY <3>1, <3>2, <3>3, <1>1 DEF Masks
  <2>2. CASE ~(i <= Len(tokens))
    <3>1. Len(mask) = Len(tokens)
      BY DEF Masks
    <3>2. Len(tokens) \in Nat /\ i \in Int /\ i > Len(tokens) /\ i <= Len(tokens) + Len(ids)
      BY <2>2, <3>1, <1>1, <1>2, <1>4
    <3>3. i - Len(tokens) \in 1..Len(ids)
      BY <3>2, <1>1
    <3>4. m[i] = 1
      BY <3>1, <3>2, <3>3, <1>1, <1>2, <1>4
    <3>5. i \in 1..(Len(tokens) + Len(ids)) /\ ~(i <= Len(tokens))
      BY <3>2, <1>1
    <3>6. s[i] = IF i <= Len(tokens) THEN tokens[i] ELSE ids[i - Len(tokens)]
      BY <3>5, <1>3
    <3>7. s[i] = ids[i - Len(tokens)]
      BY <3>5, <3>6
    <3>8. ids[i - Len(tokens)].kind # "tool"
      BY <3>3, <1>1 DEF Generated
    <3> QED
      BY <3>4, <3>7, <3>8
  <2> QED
    BY <2>1, <2>2
<1>8. Between(tokens, a, b) /\ Between(ids, a, b) => Between(s, a, b)
  BY <1>1, <1>6 DEF Between
<1>9. Generated(tokens) => Generated(s)
  BY <1>1, <1>6 DEF Generated
<1>10. Turns(tokens) /\ Open(tokens) /\ EndedLast(ids) => Turns(s)
  <2> SUFFICES ASSUME Turns(tokens), Open(tokens), EndedLast(ids), NEW i \in 2..Len(s),
                      s[i - 1].last
               PROVE  "tool" \in {s[i - 1].kind, s[i].kind}
    BY DEF Turns
  <2>1. CASE i <= Len(tokens)
    <3>1. i \in 1..Len(tokens) /\ i - 1 \in 1..Len(tokens) /\ i \in 2..Len(tokens)
      BY <2>1, <1>1
    <3>2. s[i] = tokens[i]
      BY <3>1, <1>3
    <3>3. s[i - 1] = tokens[i - 1]
      BY <3>1, <1>3
    <3> QED
      BY <3>1, <3>2, <3>3 DEF Turns
  <2>2. CASE i = Len(tokens) + 1
    <3>1. s[i - 1] = tokens[Len(tokens)] /\ tokens # <<>>
      BY <2>2, <1>1, <1>3
    <3> QED
      BY <3>1 DEF Open, Closed
  <2>3. CASE i > Len(tokens) + 1
    <3>1. i - 1 - Len(tokens) \in 1..Len(ids) /\ i - 1 - Len(tokens) < Len(ids)
      BY <2>3, <1>1, <1>3
    <3>2. i - 1 \in 1..Len(s) /\ ~(i - 1 <= Len(tokens))
      BY <2>3, <1>1
    <3>3. s[i - 1] = ids[i - 1 - Len(tokens)]
      BY <3>1, <3>2, <1>1, <1>3
    <3> QED
      BY <3>1, <3>3, <1>1 DEF EndedLast
  <2> QED
    BY <2>1, <2>2, <2>3, <1>1, <1>3
<1>11. Open(tokens) /\ Unended(ids) => Open(s)
  <2>1. CASE ids = <<>>
    BY <2>1, ConcatEmptySeq DEF s
  <2>2. CASE ids # <<>>
    <3>1. Len(ids) \in 1..Len(ids) /\ s[Len(s)] = ids[Len(ids)]
      BY <2>2, <1>1, <1>3, EmptySeq
    <3> QED
      BY <3>1, <1>1 DEF Unended, Open, Closed
  <2> QED
    BY <2>1, <2>2
<1>12. Closed(ids) => Closed(s)
  <2> SUFFICES ASSUME Closed(ids) PROVE Closed(s)
    OBVIOUS
  <2>1. Len(ids) \in 1..Len(ids)
    BY <1>1, EmptySeq DEF Closed
  <2>2. s[Len(s)] = ids[Len(ids)] /\ s # <<>>
    BY <2>1, <1>1, <1>3
  <2> QED
    BY <2>2 DEF Closed
<1> QED
  BY <1>3, <1>4, <1>7, <1>8, <1>9, <1>10, <1>11, <1>12 DEF s, m, o

-----------------------------------------------------------------------------
(* What the steps of an agent loop do to sound data *)

LEMMA DataFacts ==
    ASSUME NEW d \in AgentData
    PROVE  /\ d.response \in Seq(Token) /\ Len(d.response) \in Nat
           /\ DOMAIN d.response = 1..Len(d.response)
           /\ d.mask \in Seq({0, 1}) /\ Len(d.mask) \in Nat /\ DOMAIN d.mask = 1..Len(d.mask)
           /\ d.state \in States /\ d.assistant_turns \in 0..MaxAssistantTurns
           /\ d.param_version_start \in 0..MaxCancels /\ d.param_version_end \in 0..MaxCancels
           /\ ResponseLength \in Nat \ {0} /\ ModelLength \in Nat /\ ModelLength >= ResponseLength
           /\ MaxAssistantTurns \in Nat \ {0} /\ MaxCancels \in Nat
PROOF
<1>1. d.response \in Seq(Token) /\ d.mask \in Seq({0, 1})
  BY DEF AgentData
<1> QED
  BY <1>1, LenProperties, PartialRolloutAssumption DEF AgentData

LEMMA EmptySound ==
    ASSUME NEW a, NEW b
    PROVE  /\ Masks(<<>>, <<>>) /\ Between(<<>>, a, b) /\ Generated(<<>>) /\ Turns(<<>>)
           /\ Open(<<>>) /\ Unended(<<>>) /\ EndedLast(<<>>) /\ ~Closed(<<>>)
PROOF
  BY DEF Masks, Between, Generated, Turns, Open, Unended, EndedLast, Closed

LEMMA NewDataSound ==
    ASSUME NEW v \in 0..MaxCancels
    PROVE  NewAgentData \in AgentData /\ LoopSound("off", NewAgentData, "none", 0, v)
PROOF
<1>1. NewAgentData \in AgentData
  BY PartialRolloutAssumption, EmptySeq DEF NewAgentData, AgentData, States
<1>2. /\ NewAgentData.response = <<>> /\ NewAgentData.mask = <<>>
      /\ NewAgentData.state = IF ToolAgent THEN "PENDING" ELSE "GENERATING"
      /\ NewAgentData.assistant_turns = 0 /\ NewAgentData.param_version_start = 0
  BY DEF NewAgentData
<1>3. ScoreSound("off", "none", 0) /\ StateSound("off", NewAgentData, "none")
  BY <1>2, PartialRolloutAssumption DEF ScoreSound, StateSound
<1>4. TokensSound("off", NewAgentData, "none", v)
  BY <1>2, EmptySound DEF TokensSound
<1>5. TurnsSound(NewAgentData, "none")
  BY <1>2, EmptySound, PartialRolloutAssumption DEF TurnsSound
<1> QED
  BY <1>1, <1>3, <1>4, <1>5 DEF LoopSound

\* Submitting a rollout.
LEMMA SubmitSound ==
    ASSUME NEW d \in AgentData, NEW out, NEW count, NEW v \in 0..MaxCancels,
           LoopSound("off", d, out, count, v)
    PROVE  /\ out = "complete" => LoopSound("back", d, out, count, v)
           /\ out # "complete" =>
                  LET start == IF out = "none" THEN v ELSE d.param_version_start
                      e == [d EXCEPT !.param_version_start = start]
                  IN e \in AgentData
                     /\ LoopSound(IF ToolAgent THEN "loop" ELSE "sent", e, out, count, v)
PROOF
<1> DEFINE start == IF out = "none" THEN v ELSE d.param_version_start
           e == [d EXCEPT !.param_version_start = start]
           at == IF ToolAgent THEN "loop" ELSE "sent"
<1>1. start \in 0..MaxCancels
  BY DataFacts
<1>2. /\ e \in AgentData /\ e.response = d.response /\ e.mask = d.mask /\ e.state = d.state
      /\ e.assistant_turns = d.assistant_turns /\ e.param_version_start = start
      /\ e.param_version_end = d.param_version_end
  BY <1>1 DEF AgentData
<1>3. ScoreSound("off", out, count) /\ StateSound("off", d, out) /\ TokensSound("off", d, out, v)
      /\ TurnsSound(d, out)
  BY DEF LoopSound
<1>4. ASSUME out = "complete" PROVE LoopSound("back", d, out, count, v)
  <2>1. ScoreSound("back", out, count) /\ StateSound("back", d, out)
    BY <1>3, <1>4 DEF ScoreSound, StateSound
  <2>2. TokensSound("back", d, out, v)
    BY <1>3, <1>4 DEF TokensSound
  <2> QED
    BY <2>1, <2>2, <1>3 DEF LoopSound
<1>5. ASSUME out # "complete" PROVE LoopSound(at, e, out, count, v)
  <2> HIDE DEF e, start
  <2>1. ScoreSound(at, out, count)
    BY <1>3, <1>5 DEF ScoreSound
  <2>2. StateSound(at, e, out)
    BY <1>2, <1>3, <1>5 DEF StateSound
  <2>3. start <= v /\ Between(d.response, start, v)
    BY <1>3, EmptySound, DataFacts DEF TokensSound, start
  <2>4. TokensSound(at, e, out, v)
    BY <2>3, <1>2, <1>3, <1>5 DEF TokensSound
  <2>5. TurnsSound(e, out)
    BY <1>2, <1>3 DEF TurnsSound
  <2> QED
    BY <2>1, <2>2, <2>4, <2>5 DEF LoopSound
<1> QED
  BY <1>2, <1>4, <1>5

\* gather has all rollouts.
LEMMA ReturnSound ==
    ASSUME NEW d \in AgentData, NEW out, NEW count, NEW v, LoopSound("back", d, out, count, v)
    PROVE  LoopSound("off", d, out, count, v)
PROOF
<1>1. ScoreSound("back", out, count) /\ StateSound("back", d, out)
      /\ TokensSound("back", d, out, v) /\ TurnsSound(d, out)
  BY DEF LoopSound
<1>2. ScoreSound("off", out, count) /\ StateSound("off", d, out)
  BY <1>1 DEF ScoreSound, StateSound
<1>3. TokensSound("off", d, out, v)
  BY <1>1 DEF TokensSound, ScoreSound
<1> QED
  BY <1>1, <1>2, <1>3 DEF LoopSound

\* Later weights.
LEMMA LaterSound ==
    ASSUME NEW at, NEW d \in AgentData, NEW out, NEW count, NEW v \in Nat, NEW w \in Nat, v <= w,
           LoopSound(at, d, out, count, v)
    PROVE  LoopSound(at, d, out, count, w)
PROOF
<1>1. TokensSound(at, d, out, v)
  BY DEF LoopSound
<1>2. Between(d.response, d.param_version_start, w)
  BY <1>1, DataFacts DEF TokensSound, Between
<1>3. TokensSound(at, d, out, w)
  BY <1>1, <1>2, DataFacts DEF TokensSound
<1> QED
  BY <1>3 DEF LoopSound

\* The single-turn agent hands back what it resumed and the answer.
LEMMA SingleTurnSound ==
    ASSUME ~ToolAgent, NEW at \in {"sent", "generating"}, NEW d \in AgentData, NEW out, NEW count,
           NEW v \in 0..MaxCancels, NEW ids \in Seq(Token), NEW is_cancel \in BOOLEAN,
           LoopSound(at, d, out, count, v), RequestSound(d, ids, v, ~is_cancel)
    PROVE  LET response_ids == d.response \o ids
               e == [d EXCEPT !.response = Truncate(response_ids),
                              !.mask = Truncate(Ones(Len(response_ids))),
                              !.param_version_end = v]
               cancelled == is_cancel /\ Len(response_ids) < ResponseLength
           IN /\ e \in AgentData
              /\ cancelled => LoopSound("back", e, "cancelled", count, v)
              /\ ~cancelled => LoopSound("back", e, "complete", count + 1, v)
PROOF
<1> DEFINE s == d.response \o ids
           m == Ones(Len(s))
           e == [d EXCEPT !.response = Truncate(s), !.mask = Truncate(m),
                          !.param_version_end = v]
           cancelled == is_cancel /\ Len(s) < ResponseLength
<1>1. /\ count = (IF out = "complete" THEN 1 ELSE 0) /\ out # "complete"
      /\ d.state = "GENERATING" /\ d.assistant_turns < MaxAssistantTurns
      /\ d.param_version_start <= v /\ Between(d.response, d.param_version_start, v)
      /\ Generated(d.response)
      /\ Turns(d.response) /\ Len(d.response) < ResponseLength /\ Open(d.response)
  BY DEF LoopSound, ScoreSound, StateSound, TokensSound, TurnsSound
<1>2. /\ Generated(ids) /\ Between(ids, d.param_version_start, v) /\ EndedLast(ids)
      /\ is_cancel => Unended(ids)
      /\ ~is_cancel => Closed(ids) \/ Len(d.response) + Len(ids) >= ModelLength
  BY DEF RequestSound
<1>3. Len(ids) \in Nat
  BY LenProperties
<1>4. d.param_version_start \in Int /\ v \in Int
  BY DataFacts
<1>5. /\ s \in Seq(Token) /\ Len(s) = Len(d.response) + Len(ids)
      /\ Between(s, d.param_version_start, v) /\ Generated(s) /\ Turns(s)
      /\ is_cancel => Open(s)
      /\ Closed(ids) => Closed(s)
  BY <1>1, <1>2, <1>4, DataFacts, AnswerFacts
<1>6. Len(s) \in Nat /\ DOMAIN s = 1..Len(s)
  BY <1>5, LenProperties
<1> HIDE DEF s
<1>7. m \in Seq({0, 1}) /\ Len(m) = Len(s) /\ \A i \in 1..Len(s) : m[i] = 1
  BY <1>6, OnesFacts
<1> HIDE DEF m
<1>8. Masks(m, s)
  <2>1. DOMAIN m = 1..Len(s)
    BY <1>7, LenProperties
  <2> QED
    BY <2>1, <1>5, <1>6, <1>7 DEF Masks, Generated
<1>9. /\ Masks(Truncate(m), Truncate(s)) /\ Between(Truncate(s), d.param_version_start, v)
      /\ Generated(Truncate(s)) /\ Turns(Truncate(s)) /\ (Whole(s) => Whole(Truncate(s)))
      /\ Truncate(s) \in Seq(Token) /\ Truncate(m) \in Seq({0, 1})
      /\ (Len(s) < ResponseLength => Truncate(s) = s)
  BY <1>4, <1>5, <1>7, <1>8, TruncateKeeps
<1>10. /\ e \in AgentData /\ e.response = Truncate(s) /\ e.mask = Truncate(m)
       /\ e.state = "GENERATING" /\ e.assistant_turns = d.assistant_turns
       /\ e.param_version_start = d.param_version_start /\ e.param_version_end = v
  BY <1>1, <1>9 DEF AgentData
<1> HIDE DEF e
<1>11. ASSUME cancelled PROVE LoopSound("back", e, "cancelled", count, v)
  <2>1. ScoreSound("back", "cancelled", count)
    BY <1>1 DEF ScoreSound
  <2>2. StateSound("back", e, "cancelled")
    BY <1>1, <1>10 DEF StateSound
  <2>3. TokensSound("back", e, "cancelled", v)
    BY <1>1, <1>9, <1>10 DEF TokensSound
  <2>4. e.response = s /\ Open(s) /\ Len(s) < ResponseLength
    BY <1>5, <1>9, <1>10, <1>11
  <2>5. TurnsSound(e, "cancelled")
    BY <2>4, <1>5, <1>10 DEF TurnsSound
  <2> QED
    BY <2>1, <2>2, <2>3, <2>5 DEF LoopSound
<1>12. ASSUME ~cancelled PROVE LoopSound("back", e, "complete", count + 1, v)
  <2>1. ScoreSound("back", "complete", count + 1)
    BY <1>1 DEF ScoreSound
  <2>2. StateSound("back", e, "complete")
    BY <1>1, <1>10 DEF StateSound
  <2>3. TokensSound("back", e, "complete", v)
    BY <1>1, <1>9, <1>10 DEF TokensSound
  <2>4. Len(s) >= ResponseLength \/ Closed(s)
    BY <1>2, <1>3, <1>5, <1>6, <1>12, DataFacts
  <2>5. TurnsSound(e, "complete")
    BY <2>4, <1>9, <1>10 DEF TurnsSound, Whole
  <2> QED
    BY <2>1, <2>2, <2>3, <2>5 DEF LoopSound
<1> QED
  BY <1>10, <1>11, <1>12 DEF e, s, m

\* The tool agent takes an answer.
LEMMA ToolAgentSound ==
    ASSUME ToolAgent, NEW at \in {"sent", "generating"}, NEW d \in AgentData, NEW out, NEW count,
           NEW v \in 0..MaxCancels, NEW ids \in Seq(Token), NEW is_cancel \in BOOLEAN,
           LoopSound(at, d, out, count, v), RequestSound(d, ids, v, ~is_cancel)
    PROVE  LET next == NextState(d, ids, is_cancel)
               turns == IF next = "GENERATING" THEN d.assistant_turns ELSE d.assistant_turns + 1
               e == [d EXCEPT !.state = next, !.response = d.response \o ids,
                              !.mask = d.mask \o MaskOf(ids, is_cancel),
                              !.assistant_turns = turns]
           IN e \in AgentData /\ LoopSound("loop", e, out, count, v)
PROOF
<1> DEFINE next == NextState(d, ids, is_cancel)
           turns == IF next = "GENERATING" THEN d.assistant_turns ELSE d.assistant_turns + 1
           s == d.response \o ids
           m == d.mask \o MaskOf(ids, is_cancel)
           e == [d EXCEPT !.state = next, !.response = s, !.mask = m, !.assistant_turns = turns]
<1>1. /\ ScoreSound(at, out, count) /\ out # "complete" /\ d.assistant_turns < MaxAssistantTurns
      /\ d.param_version_start <= v /\ Between(d.response, d.param_version_start, v)
      /\ Masks(d.mask, d.response) /\ Len(d.mask) = Len(d.response)
      /\ Turns(d.response) /\ Len(d.response) < ResponseLength /\ Open(d.response)
  BY DEF LoopSound, ScoreSound, StateSound, TokensSound, TurnsSound, Masks
<1>2. /\ Generated(ids) /\ Between(ids, d.param_version_start, v) /\ EndedLast(ids)
      /\ is_cancel => Unended(ids)
      /\ ~is_cancel => Closed(ids) \/ Len(d.response) + Len(ids) >= ModelLength
  BY DEF RequestSound
<1>3. Len(ids) \in Nat /\ d.param_version_start \in Int /\ v \in Int
  BY DataFacts, LenProperties
<1>4. /\ s \in Seq(Token) /\ Len(s) = Len(d.response) + Len(ids)
      /\ m \in Seq({0, 1}) /\ Masks(m, s)
      /\ Between(s, d.param_version_start, v) /\ Turns(s)
      /\ is_cancel => Open(s)
      /\ Closed(ids) => Closed(s)
  BY <1>1, <1>2, <1>3, DataFacts, AnswerFacts DEF MaskOf
<1> HIDE DEF s, m
<1>5. \/ next = "GENERATING" /\ is_cancel /\ Len(s) < ResponseLength
      \/ next = "PROCESSING_TOOLS" /\ ~is_cancel /\ Len(s) < ResponseLength
            /\ d.assistant_turns + 1 < MaxAssistantTurns
      \/ next = "TERMINATED" /\ (Len(s) >= ResponseLength \/ ~is_cancel)
  BY <1>1, <1>3, <1>4, DataFacts DEF NextState
<1> HIDE DEF next
<1>6. next \in States /\ turns \in 0..MaxAssistantTurns
      /\ (next # "TERMINATED" => turns < MaxAssistantTurns)
  BY <1>1, <1>5, DataFacts DEF States
<1> HIDE DEF turns
<1>7. /\ e \in AgentData /\ e.response = s /\ e.mask = m /\ e.state = next
      /\ e.assistant_turns = turns /\ e.param_version_start = d.param_version_start
  BY <1>4, <1>6 DEF AgentData
<1> HIDE DEF e
<1>8. ScoreSound("loop", out, count)
  BY <1>1 DEF ScoreSound
<1>9. StateSound("loop", e, out)
  BY <1>1, <1>6, <1>7 DEF StateSound
<1>10. TokensSound("loop", e, out, v)
  BY <1>1, <1>4, <1>7 DEF TokensSound
<1>11. ~is_cancel => Len(s) >= ResponseLength \/ Closed(s)
  BY <1>2, <1>3, <1>4, DataFacts
<1>12. TurnsSound(e, out)
  BY <1>1, <1>4, <1>5, <1>7, <1>11, DataFacts DEF TurnsSound, Whole
<1> QED
  BY <1>7, <1>8, <1>9, <1>10, <1>12 DEF LoopSound, e, s, m, turns, next

\* The state machine has terminated: its tokens are cut to size and scored.
LEMMA TerminateSound ==
    ASSUME NEW d \in AgentData, NEW out, NEW count, NEW v \in 0..MaxCancels,
           d.state = "TERMINATED", LoopSound("loop", d, out, count, v)
    PROVE  LET e == [d EXCEPT !.response = Truncate(d.response), !.mask = Truncate(d.mask),
                              !.param_version_end = v]
           IN e \in AgentData /\ LoopSound("back", e, "complete", count + 1, v)
PROOF
<1> DEFINE e == [d EXCEPT !.response = Truncate(d.response), !.mask = Truncate(d.mask),
                          !.param_version_end = v]
<1>1. /\ count = 0 /\ ToolAgent
      /\ d.param_version_start <= v /\ Between(d.response, d.param_version_start, v)
      /\ Masks(d.mask, d.response) /\ Turns(d.response) /\ Whole(d.response)
  BY DEF LoopSound, ScoreSound, StateSound, TokensSound, TurnsSound
<1>2. /\ Masks(Truncate(d.mask), Truncate(d.response))
      /\ Between(Truncate(d.response), d.param_version_start, v)
      /\ Turns(Truncate(d.response)) /\ Whole(Truncate(d.response))
      /\ Truncate(d.response) \in Seq(Token) /\ Truncate(d.mask) \in Seq({0, 1})
  <2>1. d.param_version_start \in Int /\ v \in Int /\ d.response \in Seq(Token)
        /\ d.mask \in Seq({0, 1})
    BY DataFacts
  <2> QED
    BY <2>1, <1>1, TruncateKeeps
<1>3. /\ e \in AgentData /\ e.response = Truncate(d.response) /\ e.mask = Truncate(d.mask)
      /\ e.state = "TERMINATED" /\ e.assistant_turns = d.assistant_turns
      /\ e.param_version_start = d.param_version_start /\ e.param_version_end = v
  BY <1>2 DEF AgentData
<1> HIDE DEF e
<1>4. ScoreSound("back", "complete", count + 1)
  BY <1>1 DEF ScoreSound
<1>5. StateSound("back", e, "complete")
  BY <1>1, <1>3 DEF StateSound
<1>6. TokensSound("back", e, "complete", v)
  BY <1>1, <1>2, <1>3 DEF TokensSound
<1>7. TurnsSound(e, "complete")
  BY <1>2, <1>3 DEF TurnsSound
<1> QED
  BY <1>3, <1>4, <1>5, <1>6, <1>7 DEF LoopSound, e

\* The worker was cancelled between two awaits: what there is is handed back.
LEMMA CancelledSound ==
    ASSUME NEW d \in AgentData, NEW out, NEW count, NEW v,
           d.state # "TERMINATED", LoopSound("loop", d, out, count, v)
    PROVE  LoopSound("back", d, "cancelled", count, v)
PROOF
<1>1. ScoreSound("loop", out, count) /\ StateSound("loop", d, out)
      /\ TokensSound("loop", d, out, v) /\ TurnsSound(d, out)
  BY DEF LoopSound
<1>2. ScoreSound("back", "cancelled", count)
  BY <1>1 DEF ScoreSound
<1>3. StateSound("back", d, "cancelled")
  BY <1>1 DEF StateSound
<1>4. TokensSound("back", d, "cancelled", v)
  BY <1>1 DEF TokensSound
<1>5. TurnsSound(d, "cancelled")
  BY <1>1 DEF TurnsSound, ScoreSound
<1> QED
  BY <1>2, <1>3, <1>4, <1>5 DEF LoopSound

\* The first turn of the state machine, and its next await.
LEMMA PendingSound ==
    ASSUME NEW d \in AgentData, NEW out, NEW count, NEW v,
           d.state = "PENDING", LoopSound("loop", d, out, count, v)
    PROVE  LET e == [d EXCEPT !.state = "GENERATING", !.response = <<>>]
           IN e \in AgentData /\ LoopSound("loop", e, out, count, v)
PROOF
<1> DEFINE e == [d EXCEPT !.state = "GENERATING", !.response = <<>>]
<1>1. ScoreSound("loop", out, count) /\ StateSound("loop", d, out)
      /\ TokensSound("loop", d, out, v) /\ TurnsSound(d, out) /\ d.response = <<>>
  BY DEF LoopSound, TurnsSound
<1>2. /\ e \in AgentData /\ e.response = d.response /\ e.mask = d.mask
      /\ e.state = "GENERATING" /\ e.assistant_turns = d.assistant_turns
      /\ e.param_version_start = d.param_version_start
      /\ e.param_version_end = d.param_version_end
  BY <1>1, EmptySeq DEF AgentData, States
<1> HIDE DEF e
<1>3. StateSound("loop", e, out)
  BY <1>1, <1>2 DEF StateSound, ScoreSound
<1>4. TokensSound("loop", e, out, v)
  BY <1>1, <1>2 DEF TokensSound
<1>5. TurnsSound(e, out)
  BY <1>1, <1>2, EmptySound, PartialRolloutAssumption DEF TurnsSound, ScoreSound
<1> QED
  BY <1>1, <1>2, <1>3, <1>4, <1>5 DEF LoopSound, e

LEMMA GoesOnSound ==
    ASSUME NEW d \in AgentData, NEW out, NEW count, NEW v, LoopSound("loop", d, out, count, v)
    PROVE  /\ d.state = "GENERATING" => LoopSound("sent", d, out, count, v)
           /\ d.state = "PROCESSING_TOOLS" => LoopSound("tools", d, out, count, v)
PROOF
  BY DEF LoopSound, ScoreSound, StateSound, TokensSound

LEMMA AcceptedSound ==
    ASSUME NEW d \in AgentData, NEW out, NEW count, NEW v, LoopSound("sent", d, out, count, v)
    PROVE  LoopSound("generating", d, out, count, v)
PROOF
  BY DEF LoopSound, ScoreSound, StateSound, TokensSound

\* The tools have answered.
LEMMA ToolsSound ==
    ASSUME NEW d \in AgentData, NEW out, NEW count, NEW v \in 0..MaxCancels,
           LoopSound("tools", d, out, count, v)
    PROVE  LET answer == [kind |-> "tool", last |-> TRUE, version |-> v]
               e == IF Len(d.mask) + 1 >= ResponseLength
                    THEN [d EXCEPT !.state = "TERMINATED"]
                    ELSE [d EXCEPT !.state = "GENERATING",
                                   !.response = Append(d.response, answer),
                                   !.mask = Append(d.mask, 0)]
           IN e \in AgentData /\ LoopSound("loop", e, out, count, v)
PROOF
<1> DEFINE answer == [kind |-> "tool", last |-> TRUE, version |-> v]
           s == Append(d.response, answer)
           m == Append(d.mask, 0)
           t == [d EXCEPT !.state = "TERMINATED"]
           g == [d EXCEPT !.state = "GENERATING", !.response = s, !.mask = m]
<1>1. /\ ScoreSound("tools", out, count) /\ StateSound("tools", d, out)
      /\ TokensSound("tools", d, out, v) /\ TurnsSound(d, out)
  BY DEF LoopSound
<1>2. /\ d.state = "PROCESSING_TOOLS" /\ out # "complete" /\ ToolAgent
      /\ d.assistant_turns < MaxAssistantTurns /\ Closed(d.response) /\ Turns(d.response)
      /\ Masks(d.mask, d.response) /\ Len(d.mask) = Len(d.response)
      /\ d.param_version_start <= v /\ Between(d.response, d.param_version_start, v)
  BY <1>1, DataFacts DEF StateSound, ScoreSound, TurnsSound, TokensSound, Masks
<1>3. ScoreSound("loop", out, count)
  BY <1>1 DEF ScoreSound
<1>4. t \in AgentData /\ LoopSound("loop", t, out, count, v)
  <2>1. /\ t \in AgentData /\ t.response = d.response /\ t.mask = d.mask /\ t.state = "TERMINATED"
        /\ t.param_version_start = d.param_version_start
        /\ t.param_version_end = d.param_version_end
    BY DEF AgentData, States
  <2> HIDE DEF t
  <2>2. StateSound("loop", t, out)
    BY <2>1, <1>2 DEF StateSound
  <2>3. TokensSound("loop", t, out, v)
    BY <2>1, <1>1 DEF TokensSound
  <2>4. TurnsSound(t, out)
    BY <2>1, <1>2 DEF TurnsSound, Whole
  <2> QED
    BY <2>1, <2>2, <2>3, <2>4, <1>3 DEF LoopSound
<1>5. ASSUME Len(d.mask) + 1 < ResponseLength
      PROVE  g \in AgentData /\ LoopSound("loop", g, out, count, v)
  <2>1. answer \in Token /\ answer.kind = "tool" /\ answer.version = v
    BY DEF Token
  <2> HIDE DEF answer
  <2>2. /\ s \in Seq(Token) /\ Len(s) = Len(d.response) + 1 /\ DOMAIN s = 1..Len(s)
        /\ \A i \in 1..Len(d.response) : s[i] = d.response[i]
        /\ s[Len(d.response) + 1] = answer
    BY <2>1, DataFacts, AppendProperties, LenProperties
  <2>3. /\ m \in Seq({0, 1}) /\ Len(m) = Len(d.mask) + 1 /\ DOMAIN m = 1..Len(m)
        /\ \A i \in 1..Len(d.mask) : m[i] = d.mask[i]
        /\ m[Len(d.mask) + 1] = 0
    BY DataFacts, AppendProperties, LenProperties
  <2> HIDE DEF s, m
  <2>4. /\ g \in AgentData /\ g.response = s /\ g.mask = m /\ g.state = "GENERATING"
        /\ g.assistant_turns = d.assistant_turns
        /\ g.param_version_start = d.param_version_start
    BY <2>2, <2>3 DEF AgentData, States
  <2> HIDE DEF g
  <2>5. Masks(m, s)
    <3> SUFFICES ASSUME NEW i \in 1..Len(m) PROVE m[i] = 0 <=> s[i].kind = "tool"
      BY <2>2, <2>3, <1>2 DEF Masks
    <3>1. CASE i = Len(d.mask) + 1
      BY <3>1, <2>1, <2>2, <2>3, <1>2
    <3>2. CASE i # Len(d.mask) + 1
      <4>1. i \in 1..Len(d.mask)
        BY <3>2, <2>3, DataFacts
      <4> QED
        BY <4>1, <2>2, <2>3, <1>2, DataFacts DEF Masks
    <3> QED
      BY <3>1, <3>2
  <2>6. Between(s, d.param_version_start, v)
    <3> SUFFICES ASSUME NEW i \in 1..Len(s) PROVE s[i].version \in d.param_version_start..v
      BY <2>2 DEF Between
    <3>1. CASE i = Len(d.response) + 1
      BY <3>1, <2>1, <2>2, <1>2, DataFacts
    <3>2. CASE i # Len(d.response) + 1
      <4>1. i \in 1..Len(d.response)
        BY <3>2, <2>2, DataFacts
      <4> QED
        BY <4>1, <2>2, <1>2, DataFacts DEF Between
    <3> QED
      BY <3>1, <3>2
  <2>7. Turns(s)
    <3> SUFFICES ASSUME NEW i \in 2..Len(s), s[i - 1].last
                 PROVE  "tool" \in {s[i - 1].kind, s[i].kind}
      BY DEF Turns
    <3>1. CASE i = Len(d.response) + 1
      BY <3>1, <2>1, <2>2
    <3>2. CASE i # Len(d.response) + 1
      <4>1. i \in 2..Len(d.response) /\ i \in 1..Len(d.response) /\ i - 1 \in 1..Len(d.response)
        BY <3>2, <2>2, DataFacts
      <4>2. s[i] = d.response[i] /\ s[i - 1] = d.response[i - 1]
        BY <4>1, <2>2
      <4> QED
        BY <4>1, <4>2, <1>2 DEF Turns
    <3> QED
      BY <3>1, <3>2
  <2>8. Open(s)
    BY <2>1, <2>2 DEF Open
  <2>9. StateSound("loop", g, out)
    BY <2>4, <1>2 DEF StateSound
  <2>10. TokensSound("loop", g, out, v)
    BY <2>4, <2>5, <2>6, <1>2 DEF TokensSound
  <2>11. TurnsSound(g, out)
    BY <2>2, <2>4, <2>7, <2>8, <1>2, <1>5, DataFacts DEF TurnsSound
  <2> QED
    BY <2>4, <2>9, <2>10, <2>11, <1>3 DEF LoopSound
<1> QED
  BY <1>4, <1>5, DataFacts

-----------------------------------------------------------------------------
(* The invariant holds initially *)

Places == {"off", "loop", "sent", "generating", "tools", "back"}
Outputs == {"none", "cancelled", "complete"}

LEMMA InitHolds == Init => IInv
PROOF
<1> SUFFICES ASSUME Init PROVE IInv
  OBVIOUS
<1>1. 0 \in 0..MaxCancels /\ MaxCancels \in Nat
  BY PartialRolloutAssumption
<1>2. NewAgentData \in AgentData /\ LoopSound("off", NewAgentData, "none", 0, 0)
  BY <1>1, NewDataSound
<1>3. agent_data \in [Rollouts -> AgentData]
  BY <1>2 DEF Init
<1>4. req_output \in [Rollouts -> Seq(Token)]
  BY EmptySeq DEF Init
<1>5. TypeOK
  BY <1>1, <1>3, <1>4 DEF Init, TypeOK, AgentData, States, Everyone
<1>6. VersionInv
  BY DEF Init, VersionInv
<1>7. SampleInv
  BY DEF Init, SampleInv
<1>8. CancelReachesRequests
  BY DEF Init, CancelReachesRequests
<1>9. LoopInv
  BY <1>2 DEF Init, LoopInv
<1>10. RequestInv
  BY DEF Init, RequestInv
<1> QED
  BY <1>5, <1>6, <1>7, <1>8, <1>9, <1>10 DEF IInv

-----------------------------------------------------------------------------
(* Steps of one rollout *)

\* What an invariant state says of rollout r.
LEMMA RolloutFacts ==
    ASSUME IInv, NEW r \in Rollouts
    PROVE  /\ run[r] \in Places /\ agent_data[r] \in AgentData /\ output[r] \in Outputs
           /\ scored[r] \in Nat /\ req_output[r] \in Seq(Token)
           /\ version \in 0..MaxCancels /\ MaxCancels \in Nat
           /\ LoopSound(run[r], agent_data[r], output[r], scored[r], version)
           /\ run[r] # "off" => sample = "running"
PROOF
<1>1. agent_data[r] \in AgentData
  BY DEF IInv, TypeOK, AgentData, States
<1>2. /\ run[r] \in Places /\ output[r] \in Outputs /\ scored[r] \in Nat
      /\ req_output[r] \in Seq(Token) /\ version \in 0..MaxCancels
  BY DEF IInv, TypeOK, Places, Outputs
<1> QED
  BY <1>1, <1>2, PartialRolloutAssumption DEF IInv, LoopInv, SampleInv

\* A step of rollout r alone, after which r is sound.
StepOf(r, at, d, out, count, req) ==
    /\ run' = [run EXCEPT ![r] = at]
    /\ agent_data' = [agent_data EXCEPT ![r] = d]
    /\ output' = [output EXCEPT ![r] = out]
    /\ scored' = [scored EXCEPT ![r] = count]
    /\ req_output' = [req_output EXCEPT ![r] = req]
    /\ generated' \subseteq Rollouts /\ generated' \ {r} = generated \ {r}
    /\ cancel_event' \subseteq Rollouts /\ cancel_event' \ {r} = cancel_event \ {r}
    /\ UNCHANGED <<syncVars, sampleVars>>

LEMMA StepKeeps ==
    ASSUME IInv, NEW r \in Rollouts, run[r] # "off",
           NEW at \in Places \ {"off"}, NEW d \in AgentData, NEW out \in Outputs,
           NEW count \in Nat, NEW req \in Seq(Token),
           StepOf(r, at, d, out, count, req),
           LoopSound(at, d, out, count, version),
           at = "generating" =>
               /\ RequestSound(d, req, version, r \in generated')
               /\ server[r] \in paused => r \in cancel_event'
    PROVE  IInv'
PROOF
<1>1. /\ run \in [Rollouts -> Places] /\ agent_data \in [Rollouts -> AgentData]
      /\ output \in [Rollouts -> Outputs] /\ scored \in [Rollouts -> Nat]
      /\ req_output \in [Rollouts -> Seq(Token)]
  BY DEF IInv, TypeOK, AgentData, States, Places, Outputs
<1>2. /\ run' \in [Rollouts -> Places] /\ agent_data' \in [Rollouts -> AgentData]
      /\ output' \in [Rollouts -> Outputs] /\ scored' \in [Rollouts -> Nat]
      /\ req_output' \in [Rollouts -> Seq(Token)]
  BY <1>1 DEF StepOf
<1>3. /\ run'[r] = at /\ agent_data'[r] = d /\ output'[r] = out /\ scored'[r] = count
      /\ req_output'[r] = req
  BY <1>1 DEF StepOf
<1>4. ASSUME NEW q \in Rollouts, q # r
      PROVE  /\ run'[q] = run[q] /\ agent_data'[q] = agent_data[q] /\ output'[q] = output[q]
             /\ scored'[q] = scored[q] /\ req_output'[q] = req_output[q]
             /\ q \in generated' <=> q \in generated
             /\ q \in cancel_event' <=> q \in cancel_event
  BY <1>1, <1>4 DEF StepOf
<1>5. UNCHANGED <<phase, calls, cancels, version, paused, cancellation_event, sample, worker,
                  server>>
  BY DEF StepOf, syncVars, sampleVars
<1>6. TypeOK'
  BY <1>2, <1>5 DEF IInv, TypeOK, StepOf, AgentData, States, Places, Outputs, Everyone
<1>7. VersionInv'
  BY <1>5 DEF IInv, VersionInv
<1>8. SampleInv'
  <2>1. sample = "running" /\ \A q \in Rollouts : run[q] # "off"
    BY DEF IInv, SampleInv
  <2>2. \A q \in Rollouts : run'[q] # "off"
    BY <2>1, <1>3, <1>4
  <2> QED
    BY <2>1, <2>2, <1>5 DEF SampleInv
<1>9. CancelReachesRequests'
  <2> SUFFICES ASSUME NEW q \in Rollouts, run'[q] = "generating", server[q] \in paused
               PROVE  q \in cancel_event'
    BY <1>5 DEF CancelReachesRequests
  <2>1. CASE q = r
    BY <2>1, <1>3
  <2>2. CASE q # r
    BY <2>2, <1>4 DEF IInv, CancelReachesRequests
  <2> QED
    BY <2>1, <2>2
<1>10. LoopInv'
  <2> SUFFICES ASSUME NEW q \in Rollouts
               PROVE  LoopSound(run'[q], agent_data'[q], output'[q], scored'[q], version)
    BY <1>5 DEF LoopInv
  <2>1. CASE q = r
    BY <2>1, <1>3
  <2>2. CASE q # r
    BY <2>2, <1>4 DEF IInv, LoopInv
  <2> QED
    BY <2>1, <2>2
<1>11. RequestInv'
  <2> SUFFICES ASSUME NEW q \in Rollouts, run'[q] = "generating"
               PROVE  RequestSound(agent_data'[q], req_output'[q], version, q \in generated')
    BY <1>5 DEF RequestInv
  <2>1. CASE q = r
    BY <2>1, <1>3
  <2>2. CASE q # r
    <3>1. run[q] = "generating"
      BY <2>2, <1>4
    <3>2. RequestSound(agent_data[q], req_output[q], version, q \in generated)
      BY <3>1 DEF IInv, RequestInv
    <3>3. /\ agent_data'[q] = agent_data[q] /\ req_output'[q] = req_output[q]
          /\ q \in generated' <=> q \in generated
      BY <2>2, <1>4
    <3> QED
      BY <3>2, <3>3 DEF RequestSound
  <2> QED
    BY <2>1, <2>2
<1> QED
  BY <1>6, <1>7, <1>8, <1>9, <1>10, <1>11 DEF IInv

LEMMA Same ==
    ASSUME IInv, NEW r \in Rollouts
    PROVE  /\ run = [run EXCEPT ![r] = run[r]]
           /\ agent_data = [agent_data EXCEPT ![r] = agent_data[r]]
           /\ output = [output EXCEPT ![r] = output[r]]
           /\ scored = [scored EXCEPT ![r] = scored[r]]
           /\ req_output = [req_output EXCEPT ![r] = req_output[r]]
           /\ generated \subseteq Rollouts /\ cancel_event \subseteq Rollouts
PROOF
  BY DEF IInv, TypeOK

\* The loop of r takes an answer, whatever becomes of the request.
LEMMA AnswerKeeps ==
    ASSUME IInv, NEW r \in Rollouts, run[r] \in {"sent", "generating"},
           NEW ids \in Seq(Token), NEW is_cancel \in BOOLEAN, NEW req \in Seq(Token),
           RequestSound(agent_data[r], ids, version, ~is_cancel),
           Answer(r, ids, is_cancel),
           req_output' = [req_output EXCEPT ![r] = req],
           generated' \subseteq Rollouts, generated' \ {r} = generated \ {r},
           cancel_event' \subseteq Rollouts, cancel_event' \ {r} = cancel_event \ {r},
           UNCHANGED <<syncVars, sampleVars>>
    PROVE  IInv'
PROOF
<1> DEFINE d == agent_data[r]
           v == version
<1>1. /\ run[r] \in Places /\ d \in AgentData /\ output[r] \in Outputs /\ scored[r] \in Nat
      /\ v \in 0..MaxCancels
      /\ LoopSound(run[r], d, output[r], scored[r], v)
  BY RolloutFacts
<1>2. CASE ~ToolAgent
  <2> DEFINE s == d.response \o ids
             e == [d EXCEPT !.response = Truncate(s), !.mask = Truncate(Ones(Len(s))),
                            !.param_version_end = v]
             cancelled == is_cancel /\ Len(s) < ResponseLength
  <2>1. /\ e \in AgentData
        /\ cancelled => LoopSound("back", e, "cancelled", scored[r], v)
        /\ ~cancelled => LoopSound("back", e, "complete", scored[r] + 1, v)
    BY <1>1, <1>2, SingleTurnSound
  <2>2. HandBack(r, e, cancelled)
    BY <1>2 DEF Answer, SingleTurnAnswer
  <2> HIDE DEF e, cancelled
  <2>3. CASE cancelled
    <3>1. StepOf(r, "back", e, "cancelled", scored[r], req)
      BY <2>2, <2>3, Same DEF HandBack, StepOf
    <3> QED
      BY <3>1, <2>1, <2>3, <1>1, StepKeeps DEF Places, Outputs
  <2>4. CASE ~cancelled
    <3>1. StepOf(r, "back", e, "complete", scored[r] + 1, req)
      BY <2>2, <2>4 DEF HandBack, StepOf
    <3> QED
      BY <3>1, <2>1, <2>4, <1>1, StepKeeps DEF Places, Outputs
  <2> QED
    BY <2>3, <2>4
<1>3. CASE ToolAgent
  <2> DEFINE next == NextState(d, ids, is_cancel)
             turns == IF next = "GENERATING" THEN d.assistant_turns ELSE d.assistant_turns + 1
             e == [d EXCEPT !.state = next, !.response = d.response \o ids,
                            !.mask = d.mask \o MaskOf(ids, is_cancel), !.assistant_turns = turns]
  <2>1. e \in AgentData /\ LoopSound("loop", e, output[r], scored[r], v)
    BY <1>1, <1>3, ToolAgentSound
  <2>2. /\ run' = [run EXCEPT ![r] = "loop"]
        /\ agent_data' = [agent_data EXCEPT ![r] = e]
        /\ UNCHANGED <<output, scored>>
    BY <1>3 DEF Answer, ToolAgentAnswer
  <2> HIDE DEF e
  <2>3. StepOf(r, "loop", e, output[r], scored[r], req)
    BY <2>2, Same DEF StepOf
  <2> QED
    BY <2>1, <2>3, <1>1, StepKeeps DEF Places
<1> QED
  BY <1>2, <1>3

LEMMA LoopTurnKeeps ==
    ASSUME IInv, NEW r \in Rollouts, LoopTurn(r)
    PROVE  IInv'
PROOF
<1> DEFINE d == agent_data[r]
           v == version
<1>1. /\ run[r] = "loop" /\ d \in AgentData /\ output[r] \in Outputs /\ scored[r] \in Nat
      /\ v \in 0..MaxCancels /\ req_output[r] \in Seq(Token)
      /\ LoopSound("loop", d, output[r], scored[r], v)
  BY RolloutFacts DEF LoopTurn
<1>2. UNCHANGED <<syncVars, sampleVars, req_output, generated, cancel_event>>
  BY DEF LoopTurn, requestVars
<1>3. CASE d.state = "TERMINATED"
  <2> DEFINE e == [d EXCEPT !.response = Truncate(d.response), !.mask = Truncate(d.mask),
                            !.param_version_end = v]
  <2>1. e \in AgentData /\ LoopSound("back", e, "complete", scored[r] + 1, v)
    BY <1>1, <1>3, TerminateSound
  <2>2. HandBack(r, e, FALSE)
    BY <1>3 DEF LoopTurn
  <2> HIDE DEF e
  <2>3. StepOf(r, "back", e, "complete", scored[r] + 1, req_output[r])
    BY <2>2, <1>2, Same DEF HandBack, StepOf
  <2> QED
    BY <2>1, <2>3, <1>1, StepKeeps DEF Places, Outputs
<1>4. CASE d.state # "TERMINATED" /\ worker \in cancellation_event
  <2>1. LoopSound("back", d, "cancelled", scored[r], v)
    BY <1>1, <1>4, CancelledSound
  <2>2. HandBack(r, d, TRUE)
    BY <1>4 DEF LoopTurn
  <2>3. StepOf(r, "back", d, "cancelled", scored[r], req_output[r])
    BY <2>2, <1>2, Same DEF HandBack, StepOf
  <2> QED
    BY <2>1, <2>3, <1>1, StepKeeps DEF Places, Outputs
<1>5. CASE d.state = "PENDING" /\ worker \notin cancellation_event
  <2> DEFINE e == [d EXCEPT !.state = "GENERATING", !.response = <<>>]
  <2>1. e \in AgentData /\ LoopSound("loop", e, output[r], scored[r], v)
    BY <1>1, <1>5, PendingSound
  <2>2. agent_data' = [agent_data EXCEPT ![r] = e] /\ UNCHANGED <<run, output, scored>>
    BY <1>5 DEF LoopTurn
  <2> HIDE DEF e
  <2>3. StepOf(r, "loop", e, output[r], scored[r], req_output[r])
    BY <2>2, <1>1, <1>2, Same DEF StepOf
  <2> QED
    BY <2>1, <2>3, <1>1, StepKeeps DEF Places
<1>6. CASE d.state = "GENERATING" /\ worker \notin cancellation_event
  <2>1. LoopSound("sent", d, output[r], scored[r], v)
    BY <1>1, <1>6, GoesOnSound
  <2>2. run' = [run EXCEPT ![r] = "sent"] /\ UNCHANGED <<agent_data, output, scored>>
    BY <1>6 DEF LoopTurn
  <2>3. StepOf(r, "sent", d, output[r], scored[r], req_output[r])
    BY <2>2, <1>2, Same DEF StepOf
  <2> QED
    BY <2>1, <2>3, <1>1, StepKeeps DEF Places
<1>7. CASE d.state = "PROCESSING_TOOLS" /\ worker \notin cancellation_event
  <2>1. LoopSound("tools", d, output[r], scored[r], v)
    BY <1>1, <1>7, GoesOnSound
  <2>2. run' = [run EXCEPT ![r] = "tools"] /\ UNCHANGED <<agent_data, output, scored>>
    BY <1>7 DEF LoopTurn
  <2>3. StepOf(r, "tools", d, output[r], scored[r], req_output[r])
    BY <2>2, <1>2, Same DEF StepOf
  <2> QED
    BY <2>1, <2>3, <1>1, StepKeeps DEF Places
<1> QED
  BY <1>1, <1>3, <1>4, <1>5, <1>6, <1>7, DataFacts DEF States

LEMMA ToolsReturnKeeps ==
    ASSUME IInv, NEW r \in Rollouts, ToolsReturn(r)
    PROVE  IInv'
PROOF
<1> DEFINE d == agent_data[r]
           answer == [kind |-> "tool", last |-> TRUE, version |-> version]
           e == IF Len(d.mask) + 1 >= ResponseLength
                THEN [d EXCEPT !.state = "TERMINATED"]
                ELSE [d EXCEPT !.state = "GENERATING", !.response = Append(d.response, answer),
                               !.mask = Append(d.mask, 0)]
<1>1. /\ run[r] = "tools" /\ d \in AgentData /\ output[r] \in Outputs /\ scored[r] \in Nat
      /\ version \in 0..MaxCancels /\ req_output[r] \in Seq(Token)
      /\ LoopSound("tools", d, output[r], scored[r], version)
  BY RolloutFacts DEF ToolsReturn
<1>2. e \in AgentData /\ LoopSound("loop", e, output[r], scored[r], version)
  BY <1>1, ToolsSound
<1>3. /\ run' = [run EXCEPT ![r] = "loop"]
      /\ UNCHANGED <<syncVars, sampleVars, output, scored, req_output, generated, cancel_event>>
  BY DEF ToolsReturn, requestVars
<1>4. agent_data' = [agent_data EXCEPT ![r] = e]
  <2>1. CASE Len(d.mask) + 1 >= ResponseLength
    BY <2>1 DEF ToolsReturn
  <2>2. CASE ~(Len(d.mask) + 1 >= ResponseLength)
    BY <2>2 DEF ToolsReturn
  <2> QED
    BY <2>1, <2>2
<1> HIDE DEF e
<1>5. StepOf(r, "loop", e, output[r], scored[r], req_output[r])
  BY <1>3, <1>4, Same DEF StepOf
<1> QED
  BY <1>1, <1>2, <1>5, StepKeeps DEF Places

LEMMA StartRequestKeeps ==
    ASSUME IInv, NEW r \in Rollouts, StartRequest(r)
    PROVE  IInv'
PROOF
<1>1. /\ run[r] = "sent" /\ agent_data[r] \in AgentData /\ output[r] \in Outputs
      /\ scored[r] \in Nat /\ version \in 0..MaxCancels /\ req_output[r] \in Seq(Token)
      /\ LoopSound("sent", agent_data[r], output[r], scored[r], version)
  BY RolloutFacts DEF StartRequest
<1>2. UNCHANGED <<syncVars, sampleVars>>
  BY DEF StartRequest
<1>3. <<>> \in Seq(Token)
  BY EmptySeq
<1>4. \A ended \in BOOLEAN : ~ended => RequestSound(agent_data[r], <<>>, version, ended)
  BY EmptySound DEF RequestSound
<1>5. CASE Refuses(r)
  <2>1. Answer(r, <<>>, TRUE) /\ UNCHANGED <<req_output, generated, cancel_event>>
    BY <1>5 DEF StartRequest, requestVars
  <2>2. RequestSound(agent_data[r], <<>>, version, ~TRUE)
    BY <1>4
  <2>3. /\ req_output' = [req_output EXCEPT ![r] = req_output[r]]
        /\ generated' \subseteq Rollouts /\ generated' \ {r} = generated \ {r}
        /\ cancel_event' \subseteq Rollouts /\ cancel_event' \ {r} = cancel_event \ {r}
    BY <2>1, Same
  <2> QED
    BY <2>1, <2>2, <2>3, <1>1, <1>2, <1>3, AnswerKeeps
<1>6. CASE ~Refuses(r)
  <2>1. /\ run' = [run EXCEPT ![r] = "generating"]
        /\ req_output' = [req_output EXCEPT ![r] = <<>>]
        /\ cancel_event' = cancel_event \ {r} /\ generated' = generated \ {r}
        /\ UNCHANGED <<agent_data, output, scored>>
    BY <1>6 DEF StartRequest
  <2>2. LoopSound("generating", agent_data[r], output[r], scored[r], version)
    BY <1>1, AcceptedSound
  <2>3. StepOf(r, "generating", agent_data[r], output[r], scored[r], <<>>)
    BY <2>1, <1>2, Same DEF StepOf
  <2>4. r \notin generated' /\ server[r] \notin paused
    BY <2>1, <1>6 DEF Refuses
  <2>5. RequestSound(agent_data[r], <<>>, version, r \in generated')
    BY <2>4, EmptySound DEF RequestSound
  <2> QED
    BY <2>2, <2>3, <2>4, <2>5, <1>1, <1>3, StepKeeps DEF Places
<1> QED
  BY <1>5, <1>6

LEMMA EndRequestKeeps ==
    ASSUME IInv, NEW r \in Rollouts, EndRequest(r)
    PROVE  IInv'
PROOF
<1>1. /\ run[r] = "generating" /\ req_output[r] \in Seq(Token)
      /\ RequestSound(agent_data[r], req_output[r], version, r \in generated)
  BY RolloutFacts DEF EndRequest, IInv, RequestInv
<1>2. /\ Answer(r, req_output[r], IsCancelled(r))
      /\ req_output' = [req_output EXCEPT ![r] = <<>>]
      /\ cancel_event' = cancel_event \ {r} /\ generated' = generated \ {r}
      /\ UNCHANGED <<syncVars, sampleVars>>
  BY DEF EndRequest
<1>3. /\ IsCancelled(r) \in BOOLEAN
      /\ RequestSound(agent_data[r], req_output[r], version, ~IsCancelled(r))
  BY <1>1 DEF IsCancelled, RequestSound
<1>4. generated' \subseteq Rollouts /\ generated' \ {r} = generated \ {r}
      /\ cancel_event' \subseteq Rollouts /\ cancel_event' \ {r} = cancel_event \ {r}
  BY <1>2, Same
<1>5. <<>> \in Seq(Token)
  BY EmptySeq
<1> QED
  BY <1>1, <1>2, <1>3, <1>4, <1>5, AnswerKeeps

LEMMA GenerateTokenKeeps ==
    ASSUME IInv, NEW r \in Rollouts, GenerateToken(r)
    PROVE  IInv'
PROOF
<1> DEFINE d == agent_data[r]
           tokens == req_output[r]
<1>1. /\ run[r] = "generating" /\ d \in AgentData /\ output[r] \in Outputs
      /\ scored[r] \in Nat /\ version \in 0..MaxCancels /\ tokens \in Seq(Token)
      /\ LoopSound("generating", d, output[r], scored[r], version)
      /\ RequestSound(d, tokens, version, r \in generated) /\ r \notin generated
  BY RolloutFacts DEF GenerateToken, IInv, RequestInv
<1>2. PICK kind \in {"text", "call"}, last \in BOOLEAN :
          /\ req_output' = [req_output EXCEPT ![r] =
                                Append(tokens, [kind |-> kind, last |-> last, version |-> version])]
          /\ generated' = IF last \/ Len(d.response) + Len(req_output'[r]) >= ModelLength
                          THEN generated \cup {r} ELSE generated
  BY DEF GenerateToken
<1> DEFINE token == [kind |-> kind, last |-> last, version |-> version]
           s == Append(tokens, token)
<1>3. token \in Token /\ token.kind # "tool" /\ token.version = version /\ token.last = last
  BY <1>1 DEF Token
<1> HIDE DEF token
<1>4. /\ s \in Seq(Token) /\ Len(s) = Len(tokens) + 1 /\ DOMAIN s = 1..Len(s)
      /\ \A i \in 1..Len(tokens) : s[i] = tokens[i]
      /\ s[Len(tokens) + 1] = token
      /\ Len(tokens) \in Nat /\ DOMAIN tokens = 1..Len(tokens)
  BY <1>1, <1>3, AppendProperties, LenProperties
<1>5. req_output' = [req_output EXCEPT ![r] = s] /\ req_output'[r] = s
  BY <1>2 DEF IInv, TypeOK, token
<1> HIDE DEF s, tokens
<1>6. \A i \in DOMAIN s : (i \in DOMAIN tokens /\ s[i] = tokens[i]) \/ (i = Len(s) /\ s[i] = token)
  <2> SUFFICES ASSUME NEW i \in 1..Len(s), i # Len(s)
               PROVE  i \in 1..Len(tokens) /\ s[i] = tokens[i]
    BY <1>4
  <2> QED
    BY <1>4
<1>7. /\ Generated(tokens) /\ Between(tokens, d.param_version_start, version) /\ Unended(tokens)
      /\ d.param_version_start <= version
  BY <1>1 DEF RequestSound, LoopSound, TokensSound
<1>8. Generated(s)
  BY <1>3, <1>6, <1>7 DEF Generated
<1>9. Between(s, d.param_version_start, version)
  BY <1>1, <1>3, <1>6, <1>7, DataFacts DEF Between
<1>10. EndedLast(s)
  BY <1>4, <1>6, <1>7 DEF EndedLast, Unended
<1>11. r \notin generated' => Unended(s)
  BY <1>2, <1>3, <1>6, <1>7 DEF Unended
<1>12. r \in generated' => Closed(s) \/ Len(d.response) + Len(s) >= ModelLength
  <2> SUFFICES ASSUME r \in generated' PROVE Closed(s) \/ Len(d.response) + Len(s) >= ModelLength
    OBVIOUS
  <2>1. last \/ Len(d.response) + Len(s) >= ModelLength
    BY <1>1, <1>2, <1>5
  <2>2. s[Len(s)] = token /\ s # <<>>
    BY <1>4
  <2> QED
    BY <2>1, <2>2, <1>3 DEF Closed
<1>13. RequestSound(d, s, version, r \in generated')
  BY <1>8, <1>9, <1>10, <1>11, <1>12 DEF RequestSound
<1>14. StepOf(r, "generating", d, output[r], scored[r], s)
  BY <1>1, <1>2, <1>5, Same DEF StepOf, GenerateToken, loopVars
<1>15. server[r] \in paused => r \in cancel_event'
  BY <1>1 DEF GenerateToken, IInv, CancelReachesRequests
<1> QED
  BY <1>1, <1>4, <1>13, <1>14, <1>15, StepKeeps DEF Places

-----------------------------------------------------------------------------
(* Steps of the sample *)

LEMMA SubmitSampleKeeps ==
    ASSUME IInv, SubmitSample
    PROVE  IInv'
PROOF
<1>1. /\ sample = "queued" /\ sample' = "running" /\ server' \in [Rollouts -> Servers]
      /\ worker' \in Workers
      /\ UNCHANGED <<phase, calls, cancels, version, paused, cancellation_event, output, scored,
                     req_output, cancel_event, generated>>
  BY DEF SubmitSample, syncVars, requestVars
<1>2. \A r \in Rollouts : run[r] = "off"
  BY <1>1 DEF IInv, SampleInv
<1>3. \A r \in Rollouts :
        /\ agent_data[r] \in AgentData /\ version \in 0..MaxCancels
        /\ LoopSound("off", agent_data[r], output[r], scored[r], version)
  BY <1>2, RolloutFacts
<1>4. ASSUME NEW r \in Rollouts
      PROVE  /\ run'[r] \in {"back", "loop", "sent"} /\ agent_data'[r] \in AgentData
             /\ LoopSound(run'[r], agent_data'[r], output[r], scored[r], version)
  <2> DEFINE start == IF output[r] = "none" THEN version ELSE agent_data[r].param_version_start
             e == [agent_data[r] EXCEPT !.param_version_start = start]
  <2>1. CASE output[r] = "complete"
    <3>1. run'[r] = "back" /\ agent_data'[r] = agent_data[r]
      BY <2>1 DEF SubmitSample, AlreadyComplete
    <3> QED
      BY <3>1, <2>1, <1>3, SubmitSound
  <2>2. CASE output[r] # "complete"
    <3>1. run'[r] = (IF ToolAgent THEN "loop" ELSE "sent") /\ agent_data'[r] = e
      BY <2>2 DEF SubmitSample, AlreadyComplete, BeginsWith
    <3>2. e \in AgentData
          /\ LoopSound(IF ToolAgent THEN "loop" ELSE "sent", e, output[r], scored[r], version)
      BY <2>2, <1>3, SubmitSound
    <3> HIDE DEF e
    <3> QED
      BY <3>1, <3>2
  <2> QED
    BY <2>1, <2>2
<1>5. run' \in [Rollouts -> Places] /\ agent_data' \in [Rollouts -> AgentData]
  <2>1. /\ run' = [r \in Rollouts |-> run'[r]]
        /\ agent_data' = [r \in Rollouts |-> agent_data'[r]]
    BY DEF SubmitSample
  <2>2. \A r \in Rollouts : run'[r] \in Places /\ agent_data'[r] \in AgentData
    BY <1>4 DEF Places
  <2> QED
    BY <2>1, <2>2
<1>6. TypeOK'
  BY <1>1, <1>5 DEF IInv, TypeOK, AgentData, States, Places, Everyone
<1>7. VersionInv'
  BY <1>1 DEF IInv, VersionInv
<1>8. SampleInv'
  BY <1>1, <1>4 DEF SampleInv
<1>9. CancelReachesRequests'
  BY <1>4 DEF CancelReachesRequests
<1>10. LoopInv'
  BY <1>1, <1>4 DEF LoopInv
<1>11. RequestInv'
  BY <1>4 DEF RequestInv
<1> QED
  BY <1>6, <1>7, <1>8, <1>9, <1>10, <1>11 DEF IInv

LEMMA SampleReturnsKeeps ==
    ASSUME IInv, SampleReturns
    PROVE  IInv'
PROOF
<1>1. /\ \A r \in Rollouts : run[r] = "back"
      /\ sample' = (IF AnyCancelled THEN "queued" ELSE "done")
      /\ run' = [r \in Rollouts |-> "off"]
      /\ UNCHANGED <<phase, calls, cancels, version, paused, cancellation_event, worker, server,
                     agent_data, output, scored, req_output, cancel_event, generated>>
  BY DEF SampleReturns, syncVars, requestVars
<1>2. ASSUME NEW r \in Rollouts
      PROVE  /\ output[r] \in {"cancelled", "complete"}
             /\ LoopSound("off", agent_data[r], output[r], scored[r], version)
  <2>1. /\ LoopSound("back", agent_data[r], output[r], scored[r], version)
        /\ agent_data[r] \in AgentData /\ output[r] \in Outputs
    BY <1>1, RolloutFacts
  <2>2. output[r] # "none"
    BY <2>1 DEF LoopSound, ScoreSound
  <2> QED
    BY <2>1, <2>2, ReturnSound DEF Outputs
<1>3. TypeOK'
  BY <1>1 DEF IInv, TypeOK, Everyone
<1>4. VersionInv'
  BY <1>1 DEF IInv, VersionInv
<1>5. SampleInv'
  BY <1>1, <1>2 DEF SampleInv, AnyCancelled
<1>6. CancelReachesRequests'
  BY <1>1 DEF CancelReachesRequests
<1>7. LoopInv'
  BY <1>1, <1>2 DEF LoopInv
<1>8. RequestInv'
  BY <1>1 DEF RequestInv
<1> QED
  BY <1>3, <1>4, <1>5, <1>6, <1>7, <1>8 DEF IInv

-----------------------------------------------------------------------------
(* Steps of a synchronization *)

\* They leave the rollouts alone and the weights as they are, or make them later.
LEMMA RolloutsKept ==
    ASSUME IInv, version' \in Nat, version <= version',
           UNCHANGED <<loopVars, req_output, generated>>
    PROVE  LoopInv' /\ RequestInv'
PROOF
<1>1. UNCHANGED <<run, agent_data, output, scored, req_output, generated>>
  BY DEF loopVars
<1>2. version \in Nat /\ \A r \in Rollouts : agent_data[r] \in AgentData
  BY PartialRolloutAssumption DEF IInv, TypeOK, AgentData, States
<1>3. LoopInv'
  <2> SUFFICES ASSUME NEW r \in Rollouts
               PROVE  LoopSound(run[r], agent_data[r], output[r], scored[r], version')
    BY <1>1 DEF LoopInv
  <2>1. LoopSound(run[r], agent_data[r], output[r], scored[r], version)
    BY DEF IInv, LoopInv
  <2> QED
    BY <2>1, <1>2, LaterSound
<1>4. RequestInv'
  <2> SUFFICES ASSUME NEW r \in Rollouts, run[r] = "generating"
               PROVE  RequestSound(agent_data[r], req_output[r], version', r \in generated)
    BY <1>1 DEF RequestInv
  <2>1. RequestSound(agent_data[r], req_output[r], version, r \in generated)
    BY DEF IInv, RequestInv
  <2>2. Between(req_output[r], agent_data[r].param_version_start, version')
    BY <2>1, <1>2, DataFacts DEF RequestSound, Between
  <2> QED
    BY <2>1, <2>2 DEF RequestSound
<1> QED
  BY <1>3, <1>4

LEMMA SyncKeeps ==
    ASSUME IInv, CancelBegin \/ SyncStep
    PROVE  IInv'
PROOF
<1>1. /\ TypeOK /\ VersionInv /\ SampleInv /\ CancelReachesRequests
      /\ MaxCancels \in Nat /\ version \in Nat
  BY PartialRolloutAssumption DEF IInv, TypeOK
<1> DEFINE Kept == UNCHANGED <<sample, worker, server, run, agent_data, output, scored,
                               req_output, generated>>
<1>2. ASSUME Kept, version' \in Nat, version <= version', TypeOK', VersionInv',
             CancelReachesRequests'
      PROVE  IInv'
  <2>1. SampleInv'
    BY <1>1, <1>2 DEF SampleInv
  <2>2. LoopInv' /\ RequestInv'
    BY <1>2, RolloutsKept DEF loopVars
  <2> QED
    BY <1>2, <2>1, <2>2 DEF IInv
<1> USE DEF sampleVars, loopVars, requestVars
<1>3. CASE CancelBegin
  <2>1. Kept /\ version' = version /\ TypeOK'
    BY <1>1, <1>3 DEF CancelBegin, TypeOK, Everyone
  <2>2. VersionInv'
    BY <1>1, <1>3 DEF CancelBegin, VersionInv, TypeOK
  <2>3. CancelReachesRequests'
    BY <1>1, <1>3 DEF CancelBegin, CancelReachesRequests
  <2> QED
    BY <1>1, <1>2, <2>1, <2>2, <2>3
<1>4. ASSUME NEW s \in Servers, CancelServer(s) PROVE IInv'
  <2>1. Kept /\ version' = version /\ VersionInv'
    BY <1>1, <1>4 DEF CancelServer, VersionInv
  <2>2. TypeOK'
    BY <1>1, <1>4 DEF CancelServer, TypeOK, Wakes, Everyone
  <2>3. CancelReachesRequests'
    <3> SUFFICES ASSUME NEW r \in Rollouts, run[r] = "generating", server[r] \in paused'
                 PROVE  r \in cancel_event'
      BY <2>1 DEF CancelReachesRequests
    <3> QED
      BY <1>1, <1>4 DEF CancelServer, CancelReachesRequests, Wakes
  <2> QED
    BY <1>1, <1>2, <2>1, <2>2, <2>3
<1>5. ASSUME NEW s \in Servers, ResumeServer(s) PROVE IInv'
  <2>1. Kept /\ version' = version /\ VersionInv'
    BY <1>1, <1>5 DEF ResumeServer, VersionInv
  <2>2. TypeOK'
    BY <1>1, <1>5 DEF ResumeServer, TypeOK, Everyone
  <2>3. CancelReachesRequests'
    BY <1>1, <1>5 DEF ResumeServer, CancelReachesRequests
  <2> QED
    BY <1>1, <1>2, <2>1, <2>2, <2>3
<1>6. ASSUME NEW w \in Workers, CancelWorker(w) \/ ResumeWorker(w) PROVE IInv'
  <2>1. Kept /\ version' = version /\ VersionInv'
    BY <1>1, <1>6 DEF CancelWorker, ResumeWorker, VersionInv
  <2>2. TypeOK'
    BY <1>1, <1>6 DEF CancelWorker, ResumeWorker, TypeOK, Everyone
  <2>3. CancelReachesRequests'
    BY <1>1, <1>6 DEF CancelWorker, ResumeWorker, CancelReachesRequests
  <2> QED
    BY <1>1, <1>2, <2>1, <2>2, <2>3
<1>7. CASE TransferWeights
  <2>1. Kept /\ version' = version + 1
    BY <1>7 DEF TransferWeights
  <2>2. version + 1 = cancels
    BY <1>1, <1>7 DEF TransferWeights, VersionInv, TypeOK
  <2>3. TypeOK'
    BY <1>1, <1>7, <2>2 DEF TransferWeights, TypeOK, Everyone
  <2>4. VersionInv'
    BY <1>7, <2>2 DEF TransferWeights, VersionInv
  <2>5. CancelReachesRequests'
    BY <1>1, <1>7 DEF TransferWeights, CancelReachesRequests
  <2> QED
    BY <1>1, <1>2, <2>1, <2>3, <2>4, <2>5
<1>8. CASE ResumeEnd
  <2>1. Kept /\ version' = version /\ TypeOK'
    BY <1>1, <1>8 DEF ResumeEnd, TypeOK, Everyone
  <2>2. VersionInv'
    BY <1>1, <1>8 DEF ResumeEnd, VersionInv
  <2>3. CancelReachesRequests'
    BY <1>1, <1>8 DEF ResumeEnd, CancelReachesRequests
  <2> QED
    BY <1>1, <1>2, <2>1, <2>2, <2>3
<1> QED
  BY <1>3, <1>4, <1>5, <1>6, <1>7, <1>8 DEF SyncStep

-----------------------------------------------------------------------------
(* Theorems *)

LEMMA NextKeeps == IInv /\ [Next]_vars => IInv'
PROOF
<1> SUFFICES ASSUME IInv, [Next]_vars PROVE IInv'
  OBVIOUS
<1>1. CASE UNCHANGED vars
  BY <1>1 DEF vars, syncVars, sampleVars, loopVars, requestVars, IInv, TypeOK, VersionInv,
              SampleInv, CancelReachesRequests, LoopInv, RequestInv
<1>2. CASE SampleStep
  BY <1>2, SubmitSampleKeeps, SampleReturnsKeeps DEF SampleStep
<1>3. ASSUME NEW r \in Rollouts, RolloutStep(r) \/ GenerateToken(r) PROVE IInv'
  BY <1>3, LoopTurnKeeps, ToolsReturnKeeps, StartRequestKeeps, EndRequestKeeps,
     GenerateTokenKeeps DEF RolloutStep
<1>4. CASE CancelBegin \/ SyncStep
  BY <1>4, SyncKeeps
<1>5. CASE Finished
  BY <1>1, <1>5 DEF Finished
<1> QED
  BY <1>1, <1>2, <1>3, <1>4, <1>5 DEF Next

LEMMA InvariantHolds == SafetySpec => []IInv
PROOF
  BY InitHolds, NextKeeps, PTL DEF SafetySpec

LEMMA InvariantSuffices ==
    IInv => /\ TypeOK /\ ScoredOnce /\ SpanCoversTokens /\ MaskMarksGenerated /\ RequestsHaveRoom
            /\ CompleteIsWhole /\ TurnsEndOnce /\ CancelReachesRequests
PROOF
<1> SUFFICES ASSUME IInv
             PROVE  /\ TypeOK /\ ScoredOnce /\ SpanCoversTokens /\ MaskMarksGenerated
                    /\ RequestsHaveRoom /\ CompleteIsWhole /\ TurnsEndOnce
                    /\ CancelReachesRequests
  OBVIOUS
<1>1. ASSUME NEW r \in Rollouts
      PROVE  /\ ScoreSound(run[r], output[r], scored[r])
             /\ StateSound(run[r], agent_data[r], output[r])
             /\ TokensSound(run[r], agent_data[r], output[r], version)
             /\ TurnsSound(agent_data[r], output[r])
  BY DEF IInv, LoopInv, LoopSound
<1>2. ScoredOnce
  BY <1>1 DEF ScoredOnce, IInv, SampleInv, ScoreSound
<1>3. SpanCoversTokens
  BY <1>1 DEF SpanCoversTokens, TokensSound, Between
<1>4. MaskMarksGenerated
  BY <1>1 DEF MaskMarksGenerated, TokensSound, Masks
<1>5. RequestsHaveRoom
  BY <1>1 DEF RequestsHaveRoom, StateSound, ScoreSound, TurnsSound
<1>6. CompleteIsWhole
  BY <1>1 DEF CompleteIsWhole, TurnsSound, Whole, Closed
<1>7. TurnsEndOnce
  BY <1>1 DEF TurnsEndOnce, TurnsSound, Turns
<1> QED
  BY <1>2, <1>3, <1>4, <1>5, <1>6, <1>7 DEF IInv

\* Partial rollout is type-correct.
THEOREM TypesCorrect == Spec => []TypeOK
PROOF
  BY InvariantHolds, InvariantSuffices, PTL DEF Spec, SafetySpec

\* A sample goes to training with every rollout complete and post-processed
\* once, however often it was cancelled and submitted again.
THEOREM RolloutsScoredOnce == Spec => []ScoredOnce
PROOF
  BY InvariantHolds, InvariantSuffices, PTL DEF Spec, SafetySpec

\* The tokens of a rollout were generated by weights of its span, the mask
\* marks just those the model generated, and a request that goes on with a
\* response leaves the engine room.
THEOREM TokensStayConsistent ==
    Spec => [](SpanCoversTokens /\ MaskMarksGenerated /\ RequestsHaveRoom)
PROOF
  BY InvariantHolds, InvariantSuffices, PTL DEF Spec, SafetySpec

\* A turn cut short by a synchronization is finished before it passes for
\* complete, and one that was complete is not generated on.
THEOREM TurnsStayWhole == Spec => [](CompleteIsWhole /\ TurnsEndOnce)
PROOF
  BY InvariantHolds, InvariantSuffices, PTL DEF Spec, SafetySpec

\* A cancel that races with the start of a request overlooks none.
THEOREM CancelsReachRequests == Spec => []CancelReachesRequests
PROOF
  BY InvariantHolds, InvariantSuffices, PTL DEF Spec, SafetySpec
=============================================================================
