----------------------------- MODULE RateLimits ------------------------------
(* RateLimitedRewardManager.run_single with its AsyncTokenBuckets: a request *)
(* buys its place in the request and the token budget, then one of           *)
(* max_concurrent slots, and is scored or times out.                         *)
(*                                                                           *)
(* Abstractions: time passes in ticks, and a bucket's unit is what it gains  *)
(* in one tick.  What the event loop can run it runs before time passes.     *)
(* The budgets are those of one process, as in the code.                     *)
EXTENDS Integers, Sequences, FiniteSets, FiniteSetsExt

CONSTANTS
    Requests,
    MaxTokens,       \* max_tokens of the buckets "rpm" and "tpm"
    Cost,            \* what a request takes from each: 1 request, estimated_tokens
    MaxConcurrent,
    Timeout,         \* in ticks
    PoolSize         \* threads of the loop's default executor

Buckets == {"rpm", "tpm"}

VARIABLES
    is_async_reward_score, \* as configured
    request,         \* request[r]: where run_single of request r is
    sleep,           \* sleep[r]: ticks until its asyncio.sleep ends
    tokens,          \* tokens[b]: may be negative
    elapsed,         \* elapsed[b]: ticks since last_update, as far as they matter
    waiters,         \* the queue of the semaphore
    left,            \* left[r]: ticks until wait_for times out
    call,            \* call[r]: compute_score, which may outlive its request
    ideal            \* history: the level of a bucket that pays when a request is let through

vars == <<is_async_reward_score, request, sleep, tokens, elapsed, waiters, left, call, ideal>>

\* The most that may be let through at once.
Burst(b) == Max({MaxTokens[b], Cost[b]})

Init ==
    /\ is_async_reward_score \in BOOLEAN
    /\ request = [r \in Requests |-> "decode"]
    /\ sleep = [r \in Requests |-> 0]
    /\ tokens = MaxTokens
    /\ elapsed = [b \in Buckets |-> 0]
    /\ waiters = <<>>
    /\ left = [r \in Requests |-> 0]
    /\ call = [r \in Requests |-> "none"]
    /\ ideal = [b \in Buckets |-> Burst(b)]

-----------------------------------------------------------------------------
(* AsyncTokenBucket.acquire *)

Refilled(b) == Min({MaxTokens[b], tokens[b] + elapsed[b]})

\* r leaves bucket b for the next one, or for the semaphore.
LetThrough(r, b) ==
    /\ request' = [request EXCEPT ![r] = IF b = "rpm" THEN "tpm" ELSE "semaphore"]
    /\ waiters' = IF b = "tpm" THEN Append(waiters, r) ELSE waiters
    /\ ideal' = [ideal EXCEPT ![b] = @ - Cost[b]]

\* Mutant: last_update is not set.
PaysWithoutUpdate(b, level) ==
    /\ tokens' = [tokens EXCEPT ![b] = level]
    /\ UNCHANGED elapsed

\* r sets the level of b, now, and sleeps for so many ticks.
Pays(b, level) ==
    /\ tokens' = [tokens EXCEPT ![b] = level]
    /\ elapsed' = [elapsed EXCEPT ![b] = 0]

\* num_tokens <= max_tokens: r tries again after every sleep.
AcquireStandard(r, b) ==
    /\ request[r] = b /\ sleep[r] = 0
    /\ Cost[b] <= MaxTokens[b]
    /\ IF Refilled(b) >= Cost[b]
       THEN /\ Pays(b, Refilled(b) - Cost[b])
            /\ LetThrough(r, b)
            /\ UNCHANGED sleep
       ELSE /\ Pays(b, Refilled(b))
            /\ sleep' = [sleep EXCEPT ![r] = Cost[b] - Refilled(b)]
            /\ UNCHANGED <<request, waiters, ideal>>
    /\ UNCHANGED <<is_async_reward_score, left, call>>

\* Mutant: every request is treated as one that fits in the bucket.
AcquireOversizeAgain(r, b) ==
    /\ request[r] = b /\ sleep[r] = 0
    /\ Cost[b] > MaxTokens[b]
    /\ Pays(b, Refilled(b))
    /\ sleep' = [sleep EXCEPT ![r] = Cost[b] - Refilled(b)]
    /\ UNCHANGED <<is_async_reward_score, request, waiters, left, call, ideal>>

\* The place of a request that has paid bucket b and sleeps for what it owes.
Paid(b) == IF b = "rpm" THEN "rpm_paid" ELSE "tpm_paid"

\* num_tokens > max_tokens: r pays at once, what it owes delays the others.
AcquireOversize(r, b) ==
    /\ request[r] = b /\ sleep[r] = 0
    /\ Cost[b] > MaxTokens[b]
    /\ Pays(b, Refilled(b) - Cost[b])
    /\ sleep' = [sleep EXCEPT ![r] = Cost[b] - Refilled(b)]
    /\ request' = [request EXCEPT ![r] = Paid(b)]
    /\ UNCHANGED <<is_async_reward_score, waiters, left, call, ideal>>

SleptAfterPaying(r, b) ==
    /\ request[r] = Paid(b) /\ sleep[r] = 0
    /\ LetThrough(r, b)
    /\ UNCHANGED <<is_async_reward_score, sleep, tokens, elapsed, left, call>>

-----------------------------------------------------------------------------
(* run_single *)

Running == {r \in Requests : call[r] = "running"}
Holders == {r \in Requests : request[r] = "computing"}

\* The executor, which also decodes the responses, has an idle thread.
ThreadIdle == is_async_reward_score \/ Cardinality(Running) < PoolSize

DecodeResponse(r) ==
    /\ request[r] = "decode"
    /\ ThreadIdle
    /\ request' = [request EXCEPT ![r] = "rpm"]
    /\ UNCHANGED <<is_async_reward_score, sleep, tokens, elapsed, waiters, left, call, ideal>>

\* async with _semaphore: compute_score is called, or submitted to the executor.
EnterSemaphore ==
    /\ waiters # <<>>
    /\ Cardinality(Holders) < MaxConcurrent
    /\ LET r == Head(waiters) IN
        /\ request' = [request EXCEPT ![r] = "computing"]
        /\ left' = [left EXCEPT ![r] = Timeout]
        /\ call' = [call EXCEPT ![r] = IF is_async_reward_score THEN "running" ELSE "submitted"]
    /\ waiters' = Tail(waiters)
    /\ UNCHANGED <<is_async_reward_score, sleep, tokens, elapsed, ideal>>

ThreadStarts(r) ==
    /\ call[r] = "submitted"
    /\ ThreadIdle
    /\ call' = [call EXCEPT ![r] = "running"]
    /\ UNCHANGED <<is_async_reward_score, request, sleep, tokens, elapsed, waiters, left, ideal>>

\* compute_score returns or raises; the request has its reward if it still waits.
ComputeScoreEnds(r) ==
    /\ call[r] = "running"
    /\ call' = [call EXCEPT ![r] = "none"]
    /\ request' = [request EXCEPT ![r] = "scored"]
    /\ left' = [left EXCEPT ![r] = 0]
    /\ UNCHANGED <<is_async_reward_score, sleep, tokens, elapsed, waiters, ideal>>

\* wait_for cancels compute_score: a coroutine ends, a thread goes on.
TimesOut(r) ==
    /\ request[r] = "computing" /\ left[r] = 0
    /\ request' = [request EXCEPT ![r] = "scored"]
    /\ call' = IF is_async_reward_score \/ call[r] = "submitted"
               THEN [call EXCEPT ![r] = "none"] ELSE call
    /\ UNCHANGED <<is_async_reward_score, sleep, tokens, elapsed, waiters, left, ideal>>

AcquireStep(r) ==
    \E b \in Buckets : AcquireStandard(r, b) \/ AcquireOversize(r, b) \/ SleptAfterPaying(r, b)

LoopStep(r) == DecodeResponse(r) \/ AcquireStep(r) \/ ThreadStarts(r) \/ TimesOut(r)

-----------------------------------------------------------------------------

Less(n) == IF n = 0 THEN 0 ELSE n - 1

\* Nothing is due before the next tick.
NothingDue ==
    /\ \A r \in Requests :
        /\ request[r] \in {"rpm", "tpm", "rpm_paid", "tpm_paid"} => sleep[r] > 0
        /\ request[r] = "computing" => left[r] > 0
    /\ waiters # <<>> => Cardinality(Holders) >= MaxConcurrent

Tick ==
    /\ NothingDue
    /\ sleep' = [r \in Requests |-> Less(sleep[r])]
    /\ left' = [r \in Requests |-> Less(left[r])]
    /\ elapsed' = [b \in Buckets |-> Min({elapsed[b] + 1, MaxTokens[b] - tokens[b]})]
    /\ ideal' = [b \in Buckets |-> Min({ideal[b] + 1, Burst(b)})]
    /\ UNCHANGED <<is_async_reward_score, request, tokens, waiters, call>>

Next == (\E r \in Requests : LoopStep(r) \/ ComputeScoreEnds(r)) \/ EnterSemaphore \/ Tick

\* The loop runs what is due and time passes.  A compute_score in a thread
\* returns in the end; a coroutine that waits for an API may never return.
Fairness ==
    /\ \A r \in Requests :
        /\ WF_vars(LoopStep(r))
        /\ WF_vars(ComputeScoreEnds(r) /\ ~is_async_reward_score)
    /\ WF_vars(EnterSemaphore)
    /\ WF_vars(Tick)

Spec == Init /\ [][Next]_vars /\ Fairness

-----------------------------------------------------------------------------
(* Properties *)

\* Type invariant.
TypeOK ==
    /\ request \in [Requests -> {"decode", "rpm", "rpm_paid", "tpm", "tpm_paid", "semaphore",
                                 "computing", "scored"}]
    /\ sleep \in [Requests -> Nat] /\ left \in [Requests -> 0..Timeout]
    /\ \A b \in Buckets : tokens[b] <= MaxTokens[b] /\ elapsed[b] \in 0..(MaxTokens[b] - tokens[b])
    /\ call \in [Requests -> {"none", "submitted", "running"}]

\* In any span of time a budget lets through no more than it gains in that
\* time and one burst: also when requests cost more than the bucket holds,
\* and although the tokens a request sleeps for can be taken by another.
RatesRespected == \A b \in Buckets : ideal[b] >= 0

\* The requests being scored never outnumber the slots, nor the calls to the
\* API, if they end with their requests.
SlotsRespected ==
    /\ Cardinality(Holders) <= MaxConcurrent
    /\ is_async_reward_score => Cardinality(Running) <= MaxConcurrent

EveryRequestScored == \A r \in Requests : request[r] = "scored"

\* Every request gets a reward: none sleeps forever for tokens that others
\* take, nor waits for a slot or a thread that a call without an end holds.
AllScored == <>EveryRequestScored
=============================================================================
