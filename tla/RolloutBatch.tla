---------------------------- MODULE RolloutBatch -----------------------------
(* The batch of one step of the synchronous trainer (fit and _validate of     *)
(* verl/trainer/ppo/ray_trainer.py) on its way from the prompts through       *)
(* rollouts that return any number of sub-sequences, the join with the        *)
(* prompts, padding, balancing over the data-parallel ranks, old log          *)
(* probabilities, FOLDGRPO advantages and the mini-batch updates with dynamic *)
(* micro-batches; or, in validation, from the padded prompts to one score per *)
(* rollout slot.                                                              *)
(*                                                                            *)
(* A row is known by uid (its prompt), gen_uid, agent_role and its number in  *)
(* the rollout; tokens are reduced to their number, rewards to names.         *)
EXTENDS Integers, FiniteSets, SequencesExt, FiniteSetsExt

CONSTANTS
    Modes,        \* subset of {"fit", "validate"}
    PromptNum,    \* prompts of a batch
    RolloutN,     \* rollout.n (in validation one rollout per prompt)
    ValPrompts,   \* prompts of a validation batch
    NumWorkers,   \* agent loop workers
    DpSize,       \* data-parallel ranks
    MiniBatch,    \* ppo_mini_batch_size of a rank
    MaxTokenLen,  \* ppo_max_token_len_per_gpu
    Lengths,      \* tokens a row of a prompt may have
    Kinds,        \* what a rollout may return in training, see Outputs
    ValKinds,     \* and in validation
    MaxRows       \* bound on the rows of a generation

VARIABLES
    mode, stage,
    out,            \* gen_batch_output
    batch,          \* batch after the join: its own and the rollout's fields
    old_log_probs,
    advantages,
    updates,        \* the mini-batches done: by rank, the rows in the order of the micro-batches
    scores          \* of a validation

vars == <<mode, stage, out, batch, old_log_probs, advantages, updates, scores>>

Ranks == 1..DpSize

-----------------------------------------------------------------------------
(* Generation *)

\* uid and slot of the rows given to the agent loops: prompts repeated,
\* interleaved; run tells the repetitions of padding from the originals.
Slots ==
    IF mode = "fit"
      THEN [i \in 1..(PromptNum * RolloutN) |->
              [uid |-> (i - 1) \div RolloutN + 1, slot |-> i, run |-> i]]
      ELSE [i \in 1..ValPrompts |-> [uid |-> i, slot |-> i, run |-> i]]

PadSize == (NumWorkers - (Len(Slots) % NumWorkers)) % NumWorkers

\* pad_dataproto_to_divisor: the first rows again.
PaddedSlots ==
    Slots \o [i \in 1..PadSize |->
                [Slots[((i - 1) % Len(Slots)) + 1] EXCEPT !.run = Len(Slots) + i]]

\* What one rollout returns: one sequence; one for each of two characters,
\* whose rewards may differ; with a hint, the sequence, a copy of the hinted
\* one under a gen_uid of its own and the hinted one in a role of its own;
\* nothing, when no character has said anything.
Outputs(kind, s, len) ==
    LET first == [uid |-> s.uid, gen_uid |-> <<s.slot, "own">>, agent_role |-> "", part |-> 1,
                  run |-> s.run, reward |-> "own", len |-> len, dummy |-> FALSE]
        hinted == [first EXCEPT !.reward = "hinted"]
    IN  CASE kind = "single" -> <<first>>
          [] kind = "characters" -> <<first, [first EXCEPT !.part = 2]>>
          [] kind = "uneven" -> <<first, [first EXCEPT !.part = 2, !.reward = "halved"]>>
          [] kind = "copy" -> <<first, [hinted EXCEPT !.part = 2, !.gen_uid = <<s.slot, "copy">>],
                                [hinted EXCEPT !.part = 3, !.agent_role = "hint_agent"]>>
          [] kind = "empty" -> <<>>

\* AgentLoopManager.generate_sequences: equal chunks for the workers, whose
\* outputs are flattened; a worker without any output raises in _postprocess.
Chunks(s, m) == [c \in 1..m |-> SubSeq(s, (c - 1) * (Len(s) \div m) + 1, c * (Len(s) \div m))]

Generate ==
    /\ stage = "generate"
    /\ LET slots == IF mode = "fit" THEN Slots ELSE PaddedSlots
           uids == {slots[i].uid : i \in DOMAIN slots}
       IN  \E kind \in [DOMAIN slots -> IF mode = "fit" THEN Kinds ELSE ValKinds],
              len \in [uids -> Lengths] :
            LET rows == [i \in DOMAIN slots |-> Outputs(kind[i], slots[i], len[slots[i].uid])]
                workers == Chunks(rows, NumWorkers)
            IN  /\ Len(FlattenSeq(rows)) <= MaxRows
                /\ out' = FlattenSeq(rows)
                /\ stage' = IF \A c \in 1..NumWorkers : FlattenSeq(workers[c]) # <<>>
                              THEN IF mode = "fit" THEN "join" ELSE "unpad"
                              ELSE "raised"
    /\ UNCHANGED <<mode, batch, old_log_probs, advantages, updates, scores>>

UnpadOneMore(rows, pad_size) == SubSeq(rows, 1, Len(rows) - pad_size - 1)

\* unpad_dataproto: the last pad_size rows are dropped.
UnpadDataproto(rows, pad_size) == SubSeq(rows, 1, Len(rows) - pad_size)

Unpad ==
    /\ stage = "unpad"
    /\ out' = UnpadDataproto(out, PadSize)
    /\ stage' = "join"
    /\ UNCHANGED <<mode, batch, old_log_probs, advantages, updates, scores>>

-----------------------------------------------------------------------------
(* Join with the prompts *)

\* The prompt of every row: by uid when rollouts returned more or fewer rows
\* than slots, by position otherwise.
Prompt(i) == IF Len(out) # Len(Slots) THEN out[i].uid ELSE Slots[i].uid

UnionUnchecked == TRUE

\* DataProto.union asserts that a field of both, here uid, is the same.
UnionAgrees == \A i \in DOMAIN out : Prompt(i) = out[i].uid

Join ==
    /\ stage = "join"
    /\ IF UnionAgrees
         THEN /\ batch' = [i \in DOMAIN out |-> [prompt |-> Prompt(i), row |-> out[i]]]
              /\ stage' = IF mode = "fit" THEN "pad" ELSE "score"
         ELSE UNCHANGED batch /\ stage' = "raised"
    /\ UNCHANGED <<mode, out, old_log_probs, advantages, updates, scores>>

-----------------------------------------------------------------------------
(* Padding and balancing *)

\* _pad_dummy_sample: copies of the first row without attention and response
\* mask, under a uid and gen_uid of their own.
Dummy(b) ==
    [b EXCEPT !.row = [b.row EXCEPT !.uid = 0, !.gen_uid = <<0, "dummy">>, !.len = 0,
                                    !.dummy = TRUE]]

PadBatch ==
    /\ stage = "pad"
    /\ batch' = IF Len(batch) % DpSize = 0 THEN batch
                ELSE batch \o [i \in 1..(DpSize - (Len(batch) % DpSize)) |-> Dummy(batch[1])]
    /\ stage' = "balance"
    /\ UNCHANGED <<mode, out, old_log_probs, advantages, updates, scores>>

\* The sum of a sequence, over the places in S.
SumOver(S, s) ==
    LET sum[i \in 0..Len(s)] == IF i = 0 THEN 0
                                ELSE IF i \in S THEN sum[i - 1] + s[i] ELSE sum[i - 1]
    IN  sum[Len(s)]

CalculateWorkload(len) == 24576 * len + len * len

\* What get_seqlen_balanced_partitions promises (shown of SeqlenBalancing):
\* every item in one of m parts, none empty, equally large with equal_size,
\* the sums descending and no further apart than the largest workload.
Partitions(load, m, equal_size) ==
    LET Assigned(f, p) == {i \in DOMAIN load : f[i] = p}
        Even(f) == \A p \in 1..m : Cardinality(Assigned(f, p)) * m = Len(load)
        Close(f) == \A p, q \in 1..m :
            p < q => SumOver(Assigned(f, p), load) - SumOver(Assigned(f, q), load)
                        \in 0..Max({load[i] : i \in DOMAIN load})
    IN  {[p \in 1..m |-> Assigned(f, p)] :
            f \in {g \in [DOMAIN load -> 1..m] :
                    (\A p \in 1..m : Assigned(g, p) # {}) /\ (equal_size => Even(g)) /\ Close(g)}}

\* A set as a sequence, in the given total order: the place of an element tells
\* how many are smaller.
Sorted(S, smaller) ==
    [i \in 1..Cardinality(S) |->
        CHOOSE x \in S : Cardinality({y \in S : <<y, x>> \in smaller}) = i - 1]

Ascending(S) == {pair \in S \X S : pair[1] < pair[2]}

OddPlaces(s) == [i \in 1..((Len(s) + 1) \div 2) |-> s[2 * i - 1]]
EvenPlaces(s) == [i \in 1..(Len(s) \div 2) |-> s[2 * i]]

Workload(b) == [i \in DOMAIN b |-> CalculateWorkload(b[i].row.len)]

\* _balance_batch: the ranks' rows one after the other, the small ones of a
\* rank at both ends.
BalanceBatch ==
    /\ stage = "balance"
    /\ LET load == Workload(batch)
           smaller == {pair \in (DOMAIN batch) \X (DOMAIN batch) :
                        \/ load[pair[1]] < load[pair[2]]
                        \/ load[pair[1]] = load[pair[2]] /\ pair[1] < pair[2]}
       IN  \E parts \in Partitions(load, DpSize, TRUE) :
            LET sorted == [r \in Ranks |-> Sorted(parts[r], smaller)]
                order == FlattenSeq([r \in Ranks |-> OddPlaces(sorted[r]) \o
                                                     Reverse(EvenPlaces(sorted[r]))])
            IN  batch' = [i \in DOMAIN order |-> batch[order[i]]]
    /\ stage' = "log_prob"
    /\ UNCHANGED <<mode, out, old_log_probs, advantages, updates, scores>>

-----------------------------------------------------------------------------
(* Micro-batches *)

CeilDiv(a, b) == (a + b - 1) \div b

\* The rows of batch a rank is given.
Local(r) ==
    LET rows == Len(batch) \div DpSize
    IN  [i \in 1..rows |-> (r - 1) * rows + i]

Length(i) == batch[i].row.len

\* The number of micro-batches all ranks agree on (all_reduce MAX).
NumMicroBatches(rows) ==
    LET Tokens(r) == SumOver(DOMAIN rows[r], [i \in DOMAIN rows[r] |-> Length(rows[r][i])])
    IN  Max({Min({Len(rows[r]), CeilDiv(Tokens(r), MaxTokenLen)}) : r \in Ranks})

\* rearrange_micro_batches: lists of places in rows, the large ones in the
\* middle.
RearrangeMicroBatches(rows, m) ==
    LET load == [i \in DOMAIN rows |-> CalculateWorkload(Length(rows[i]))]
        Total(S) == SumOver(S, load)
        Larger(sets) == {pair \in sets \X sets :
                            \/ Total(pair[1]) > Total(pair[2])
                            \/ Total(pair[1]) = Total(pair[2]) /\ Min(pair[1]) > Min(pair[2])}
    IN  {LET sets == {parts[p] : p \in 1..m}
             sorted == Sorted(sets, Larger(sets))
             middle == Reverse(OddPlaces(sorted)) \o EvenPlaces(sorted)
         IN  [p \in 1..m |-> Sorted(middle[p], Ascending(middle[p]))] :
            parts \in Partitions(load, m, FALSE)}

IndicesThemselves(indices) == indices

\* get_reverse_idx
ReverseIdx(indices) == [j \in DOMAIN indices |-> CHOOSE i \in DOMAIN indices : indices[i] = j]

\* restore_dynamic_batch
RestoreDynamicBatch(data, indices) ==
    LET reverse == ReverseIdx(indices) IN [j \in DOMAIN data |-> data[reverse[j]]]

\* compute_log_prob on a rank: forward passes over the micro-batches, their
\* outputs in the order of the rows again.  An output is named by its row.
LogProbs(rows, m) ==
    {LET indices == FlattenSeq(micro)
     IN  RestoreDynamicBatch([i \in DOMAIN indices |-> rows[indices[i]]], indices) :
        micro \in RearrangeMicroBatches(rows, m)}

\* Functions that take a value of S[r] for every rank.
PerRank(S) == {f \in [Ranks -> UNION {S[r] : r \in Ranks}] : \A r \in Ranks : f[r] \in S[r]}

ComputeOldLogProb ==
    /\ stage = "log_prob"
    /\ LET rows == [r \in Ranks |-> Local(r)]
           m == NumMicroBatches(rows)
       IN  \E computed \in PerRank([r \in Ranks |-> LogProbs(rows[r], m)]) :
            old_log_probs' = FlattenSeq(computed)
    /\ stage' = "advantage"
    /\ UNCHANGED <<mode, out, batch, advantages, updates, scores>>

-----------------------------------------------------------------------------
(* Advantages *)

GroupKey(i) == <<batch[i].row.uid, batch[i].row.agent_role>>

CountedEveryRow(key) == {i \in DOMAIN batch : GroupKey(i) = key}

\* compute_foldgrpo_advantage: a row's reward relative to the group of its
\* prompt and role, in which the first row of every gen_uid counts.  An
\* advantage is the set of rows of its group.
Counted(key) ==
    LET rows == {i \in DOMAIN batch : GroupKey(i) = key}
    IN  {i \in rows : \A j \in rows : batch[j].row.gen_uid = batch[i].row.gen_uid => i <= j}

ComputeAdvantage ==
    /\ stage = "advantage"
    /\ advantages' = [i \in DOMAIN batch |-> Counted(GroupKey(i))]
    /\ stage' = "update"
    /\ UNCHANGED <<mode, out, batch, old_log_probs, updates, scores>>

-----------------------------------------------------------------------------
(* Updates *)

FullMiniBatches(rows) ==
    [b \in 1..(Len(rows) \div MiniBatch) |-> SubSeq(rows, (b - 1) * MiniBatch + 1, b * MiniBatch)]

\* update_policy splits the rows of a rank into mini-batches.
MiniBatches(rows) ==
    [b \in 1..CeilDiv(Len(rows), MiniBatch) |->
        SubSeq(rows, (b - 1) * MiniBatch + 1, Min({b * MiniBatch, Len(rows)}))]

\* The rows of a mini-batch of a rank in the order of its micro-batches.
MicroBatched(rows, m) ==
    {LET indices == FlattenSeq(micro) IN [i \in DOMAIN indices |-> rows[indices[i]]] :
        micro \in RearrangeMicroBatches(rows, m)}

\* One mini-batch of update_policy: the gradients of its micro-batches are
\* accumulated and the optimizer steps.
UpdateMiniBatch ==
    /\ stage = "update"
    /\ LET step == Len(updates) + 1
           mini == [r \in Ranks |-> MiniBatches(Local(r))[step]]
           m == NumMicroBatches(mini)
       IN  \E taken \in PerRank([r \in Ranks |-> MicroBatched(mini[r], m)]) :
            /\ updates' = Append(updates, taken)
            /\ stage' = IF step = Len(MiniBatches(Local(1))) THEN "done" ELSE stage
    /\ UNCHANGED <<mode, out, batch, old_log_probs, advantages, scores>>

-----------------------------------------------------------------------------
(* Validation *)

\* One score per gen_uid, in the order of their first rows; the maximum of the
\* rewards, here the rows it is taken from.
ScoreRollouts ==
    /\ stage = "score"
    /\ LET GenUid(i) == batch[i].row.gen_uid
           firsts == {i \in DOMAIN batch : \A j \in 1..(i - 1) : GenUid(j) # GenUid(i)}
           order == Sorted(firsts, Ascending(firsts))
       IN  scores' = [s \in DOMAIN order |->
                        [prompt |-> batch[order[s]].prompt,
                         rows |-> {batch[i].row : i \in {j \in DOMAIN batch :
                                                            GenUid(j) = GenUid(order[s])}}]]
    /\ stage' = "done"
    /\ UNCHANGED <<mode, out, batch, old_log_probs, advantages, updates>>

Ended == stage \in {"done", "raised"} /\ UNCHANGED vars

Init ==
    /\ mode \in Modes /\ stage = "generate"
    /\ out = <<>> /\ batch = <<>> /\ old_log_probs = <<>> /\ advantages = <<>>
    /\ updates = <<>> /\ scores = <<>>

Next ==
    \/ Generate \/ Unpad \/ Join \/ PadBatch \/ BalanceBatch
    \/ ComputeOldLogProb \/ ComputeAdvantage \/ UpdateMiniBatch \/ ScoreRollouts
    \/ Ended

Spec == Init /\ [][Next]_vars

-----------------------------------------------------------------------------
(* Properties *)

Rows(s) == {s[i] : i \in DOMAIN s}
Joined == {batch[i].row : i \in DOMAIN batch}

TypeOK ==
    /\ mode \in Modes
    /\ stage \in {"generate", "unpad", "join", "pad", "balance", "log_prob", "advantage",
                  "update", "score", "done", "raised"}
    /\ \A b \in Rows(batch) : b.prompt \in 1..Max({PromptNum, ValPrompts}) /\ b.row.len \in Nat
    /\ \A u \in Rows(updates) : DOMAIN u = Ranks

\* Whatever number of sub-sequences the rollouts return, a row is joined to the
\* prompt it was generated from (its ground truth and reward settings), or the
\* step raises; and it raises only when a rollout has returned nothing.
JoinedToOwnPrompt ==
    /\ \A b \in Rows(batch) : b.row.dummy \/ b.prompt = b.row.uid
    /\ stage = "raised" =>
        \E i \in DOMAIN PaddedSlots : \A r \in Rows(out) : r.run # PaddedSlots[i].run

\* After padding, dispatch, micro-batching, restoring and collecting, the old
\* log probabilities in row i are those of row i.
LogProbsAligned == stage = "advantage" => old_log_probs = [i \in DOMAIN batch |-> i]

\* In the group of a row every rollout of its prompt and role counts once, and
\* nothing else does: neither the number of characters nor the dummies, nor the
\* order the balancing leaves, change which rollouts are compared.
GroupOfRollouts ==
    stage = "update" =>
        \A i \in DOMAIN advantages :
            LET row == batch[i].row
                mine == {r \in Rows(out) : r.uid = row.uid /\ r.agent_role = row.agent_role}
                group == {batch[c].row : c \in advantages[i]}
            IN  row.dummy \/
                /\ group \subseteq mine /\ Cardinality(group) = Cardinality(advantages[i])
                /\ \A r \in mine : Cardinality({c \in group : c.gen_uid = r.gen_uid}) = 1

\* Every row that was generated is in one micro-batch of one mini-batch of one
\* rank; every rank has as many rows as the others in every mini-batch, and
\* fewer dummies than there are ranks take part.
UpdatesEachRowOnce ==
    (mode = "fit" /\ stage = "done") =>
        LET Places == {p \in (DOMAIN updates) \X Ranks \X (1..MiniBatch) :
                            p[3] \in DOMAIN updates[p[1]][p[2]]}
            At(p) == batch[updates[p[1]][p[2]][p[3]]].row
        IN  /\ \A row \in Rows(out) : Cardinality({p \in Places : At(p) = row}) = 1
            /\ Cardinality({p \in Places : At(p) \notin Rows(out)}) < DpSize
            /\ \A u \in DOMAIN updates : \A q, r \in Ranks :
                Len(updates[u][q]) = Len(updates[u][r])

\* Validation has one score for every rollout slot, in the order of the slots,
\* from all rows of that rollout.
ScorePerSlot ==
    (mode = "validate" /\ stage = "done") =>
        /\ Len(scores) = Len(Slots)
        /\ \A i \in DOMAIN Slots :
            /\ scores[i].prompt = Slots[i].uid
            /\ {r \in Joined : r.run = Slots[i].run} \subseteq scores[i].rows
            /\ \E r \in scores[i].rows : r.run = Slots[i].run

\* Balancing, which reorders the rows, does not affect the advantages: the
\* reward a rollout has in its group is that of its first row as generated.
BalancingKeepsAdvantages ==
    stage = "update" =>
        \A i \in DOMAIN advantages :
            LET row == batch[i].row
                mine == {k \in DOMAIN out : /\ out[k].uid = row.uid
                                            /\ out[k].agent_role = row.agent_role}
                first == {k \in mine : \A j \in mine : out[j].gen_uid = out[k].gen_uid => k <= j}
                Rewards(rows) == {<<r.gen_uid, r.reward>> : r \in rows}
            IN  row.dummy \/ Rewards({batch[c].row : c \in advantages[i]})
                                = Rewards({out[k] : k \in first})
=============================================================================
