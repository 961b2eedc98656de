-------------------------- MODULE CheckpointEngine ---------------------------
(* CheckpointEngine of recipe/fully_async_policy: the actor ranks hold the   *)
(* new parameters in buckets in host memory, and every rank, actor or        *)
(* rollout, broadcasts the buckets in the same order and loads them.  With   *)
(* overlap_broadcast_and_consume a thread of each rank loads one half of the *)
(* broadcast buffer while the next bucket is broadcast into the other half.  *)
(*                                                                           *)
(* Abstractions: a parameter is its index in weights_info and its value the  *)
(* number of the synchronization; sizes count units of the alignment.  The   *)
(* content of a buffer is the bucket last written to it.                     *)
EXTENDS Naturals, Sequences, FiniteSetsExt

CONSTANTS
    ActorNum,      \* actor ranks are 0..ActorNum-1
    RolloutNum,    \* rollout ranks follow
    ParamNum,      \* parameters of the model
    MaxSize,       \* bound: the size of a parameter
    DeviceBufferSize,
    MaxSyncs       \* bound: synchronizations

ActorRanks == 0..(ActorNum - 1)
RolloutRanks == ActorNum..(ActorNum + RolloutNum - 1)
Ranks == ActorRanks \cup RolloutRanks
Params == 1..ParamNum

VARIABLES
    weights_info,    \* the sizes of the parameters
    overlap,         \* overlap_broadcast_and_consume, as configured
    assigned,        \* how many parameters have a place in a bucket
    global_buckets,  \* global_buckets[a]: the buckets of actor rank a
    sync,            \* sync[r]: how many synchronizations rank r has begun
    main,            \* main[r]: where its update_checkpoint is
    turn,            \* turn[r]: the bucket its two loops have come to
    gidx,            \* gidx[r]: how many buckets it has broadcast
    joined,          \* joined[r]: the broadcasts it has joined, in all synchronizations
    memory_buffers,  \* memory_buffers[r]: the value held in host memory, 0 if there is none
    h2d_buffer,      \* h2d_buffer[r]: the bucket in device memory of an actor rank
    broadcast_load_buffer, \* broadcast_load_buffer[r][h]: the bucket in half h
    sent,            \* the buckets broadcast so far, in all synchronizations
    arrived,         \* arrived[r]: how many barriers it has come to
    request,         \* request[r]: the message the loading thread of r has not received
    reply,           \* reply[r]: the thread has answered
    loader,          \* loader[r]: what the thread still loads, and from which half
    loaded           \* loaded[r][p]: the value of parameter p in the model of rank r

\* What the configuration and the first registration fix.
plan == <<weights_info, overlap, assigned, global_buckets>>

rankVars ==
    <<sync, main, turn, gidx, joined, memory_buffers, h2d_buffer, broadcast_load_buffer, sent,
      arrived, request, reply, loader, loaded>>

vars == <<plan, rankVars>>

-----------------------------------------------------------------------------
(* register_checkpoint: the buckets *)

BucketSize == Max({DeviceBufferSize} \cup {weights_info[p] : p \in Params})

EmptyBucket == [size |-> 0, metas |-> <<>>]

\* A parameter goes to the end of a bucket.
Put(bucket, p) ==
    [size |-> bucket.size + weights_info[p],
     metas |-> Append(bucket.metas, [name |-> p, offset |-> bucket.size])]

\* Mutant: the bucket is closed one parameter late.
PlaceLate(buckets, p) ==
    LET last == buckets[Len(buckets)]
    IN  IF last.size > BucketSize
        THEN Append(buckets, Put(EmptyBucket, p))
        ELSE [buckets EXCEPT ![Len(buckets)] = Put(last, p)]

\* A parameter goes into the last bucket of its rank, or into a new one if it
\* does not fit.
Place(buckets, p) ==
    LET last == buckets[Len(buckets)]
    IN  IF last.size + weights_info[p] > BucketSize
        THEN Append(buckets, Put(EmptyBucket, p))
        ELSE [buckets EXCEPT ![Len(buckets)] = Put(last, p)]

\* The rank that stores parameter p.
AssignRank(p) == (p - 1) % ActorNum

\* cache_actor_weights_to_cpu: the parameters a rank keeps.
CachedBy(r) == {p \in Params : (p - 1) % ActorNum = r}

\* A bucket is named by the iteration that broadcasts it and its rank.
Buckets ==
    UNION {{[iter |-> i, src |-> a] : i \in DOMAIN global_buckets[a]} : a \in ActorRanks}

Metas(b) == global_buckets[b.src][b.iter].metas

Holds(b, p) == \E i \in DOMAIN Metas(b) : Metas(b)[i].name = p

\* The two loops of update_checkpoint: in each iteration the ranks that have
\* so many buckets, in turn.
Before(b, c) == b.iter < c.iter \/ (b.iter = c.iter /\ b.src < c.src)
FirstBucket == [iter |-> 1, src |-> 0]
Follows(c, b) ==
    /\ Before(b, c)
    /\ \A d \in Buckets : Before(d, c) => d = b \/ Before(d, b)
IsLast(b) == \A c \in Buckets : ~Before(b, c)

\* Mutant: every bucket goes to the first half.
StartOneHalf(k) == 0

\* The half of the buffer that the k-th bucket is broadcast into, from k = 0.
Start(k) == IF overlap THEN k % 2 ELSE 0

\* A buffer that holds no bucket.
NoBucket == [iter |-> 0, src |-> 0, value |-> 0]
Nothing == [kind |-> "nothing"]

\* Every rank of the group has come to as many barriers as r.
BarrierOpen(r) == \A q \in Ranks : arrived[q] >= arrived[r]

Arrive(r) == arrived' = [arrived EXCEPT ![r] = @ + 1]

Init ==
    /\ weights_info \in [Params -> 1..MaxSize]
    /\ overlap \in BOOLEAN
    /\ assigned = 0
    /\ global_buckets = [a \in ActorRanks |-> <<EmptyBucket>>]
    /\ sync = [r \in Ranks |-> 0]
    /\ main = [r \in Ranks |-> "idle"]
    /\ turn = [r \in Ranks |-> FirstBucket]
    /\ gidx = [r \in Ranks |-> 0]
    /\ joined = [r \in Ranks |-> 0]
    /\ memory_buffers = [r \in Ranks |-> 0]
    /\ h2d_buffer = [r \in ActorRanks |-> NoBucket]
    /\ broadcast_load_buffer = [r \in Ranks |-> [h \in {0, 1} |-> NoBucket]]
    /\ sent = <<>>
    /\ arrived = [r \in Ranks |-> 0]
    /\ request = [r \in Ranks |-> Nothing]
    /\ reply = [r \in Ranks |-> FALSE]
    /\ loader = [r \in Ranks |-> [state |-> "none", todo |-> <<>>, half |-> 0]]
    /\ loaded = [r \in RolloutRanks |-> [p \in Params |-> 0]]

\* The loop of register_checkpoint puts the next parameter into a bucket.  Every
\* rank goes through it before its first barrier; as it depends on nothing but
\* weights_info, it is made here once for all of them.
AssignParameter ==
    /\ assigned < ParamNum
    /\ assigned' = assigned + 1
    /\ LET a == AssignRank(assigned + 1) IN
        global_buckets' = [global_buckets EXCEPT ![a] = Place(global_buckets[a], assigned + 1)]
    /\ UNCHANGED <<weights_info, overlap, rankVars>>

-----------------------------------------------------------------------------
(* The main thread of a rank *)

\* sync_rollout_weights_by_checkpoint up to its barrier: an actor rank caches
\* its share of the parameters, which the training has changed.
RegisterCheckpoint(r) ==
    /\ assigned = ParamNum
    /\ main[r] = "idle" /\ sync[r] < MaxSyncs
    /\ sync' = [sync EXCEPT ![r] = @ + 1]
    /\ memory_buffers' =
            [memory_buffers EXCEPT ![r] = IF r \in ActorRanks THEN sync[r] + 1 ELSE 0]
    /\ Arrive(r)
    /\ main' = [main EXCEPT ![r] = "registered"]
    /\ UNCHANGED <<plan, turn, gidx, joined, h2d_buffer, broadcast_load_buffer, sent, request,
                   reply, loader, loaded>>

\* update_checkpoint allocates its buffers and, with overlap, starts the
\* loading thread and sends it a first message.
BeginUpdate(r) ==
    /\ main[r] = "registered"
    /\ BarrierOpen(r)
    /\ gidx' = [gidx EXCEPT ![r] = 0]
    /\ turn' = [turn EXCEPT ![r] = FirstBucket]
    /\ broadcast_load_buffer' = [broadcast_load_buffer EXCEPT ![r] = [h \in {0, 1} |-> NoBucket]]
    /\ h2d_buffer' = [q \in ActorRanks |-> IF q = r THEN NoBucket ELSE h2d_buffer[q]]
    /\ IF overlap
       THEN /\ loader' = [loader EXCEPT ![r].state = "ready"]
            /\ request' = [request EXCEPT ![r] = [kind |-> "hello"]]
       ELSE UNCHANGED <<loader, request>>
    /\ main' = [main EXCEPT ![r] = "copy"]
    /\ UNCHANGED <<plan, sync, joined, memory_buffers, sent, arrived, reply, loaded>>

\* Step 1 of an iteration: an actor rank that has so many buckets copies its own.
CopyToDevice(r) ==
    /\ main[r] = "copy"
    /\ IF [iter |-> turn[r].iter, src |-> r] \in Buckets
       THEN h2d_buffer' = [h2d_buffer EXCEPT ![r] =
                            [iter |-> turn[r].iter, src |-> r, value |-> memory_buffers[r]]]
       ELSE UNCHANGED h2d_buffer
    /\ main' = [main EXCEPT ![r] = "broadcast"]
    /\ UNCHANGED <<plan, sync, turn, gidx, joined, memory_buffers, broadcast_load_buffer, sent,
                   arrived, request, reply, loader, loaded>>

\* collective.broadcast: its source sends, the others receive.
Broadcast(r) ==
    /\ main[r] = "broadcast"
    /\ joined' = [joined EXCEPT ![r] = @ + 1]
    /\ IF turn[r].src = r
       THEN sent' = Append(sent, h2d_buffer[r])
       ELSE joined[r] < Len(sent) /\ UNCHANGED sent
    /\ broadcast_load_buffer' =
            [broadcast_load_buffer EXCEPT ![r][Start(gidx[r])] = sent'[joined[r] + 1]]
    /\ main' = [main EXCEPT ![r] = IF overlap THEN "ack" ELSE "load"]
    /\ UNCHANGED <<plan, sync, turn, gidx, memory_buffers, h2d_buffer, arrived, request, reply,
                   loader, loaded>>

\* The value load_weights finds for parameter p in half h: what was broadcast
\* into it, if p lies there.
ValueIn(r, h, p) ==
    LET content == broadcast_load_buffer[r][h]
    IN  IF content # NoBucket /\ Holds(content, p) THEN content.value ELSE 0

\* gidx += 1, and on to the next bucket, in this iteration or the next one.
Advance(r) ==
    /\ gidx' = [gidx EXCEPT ![r] = @ + 1]
    /\ \/ \E b \in Buckets :
            /\ Follows(b, turn[r])
            /\ turn' = [turn EXCEPT ![r] = b]
            /\ main' = [main EXCEPT ![r] =
                            IF b.iter = turn[r].iter THEN "broadcast" ELSE "copy"]
       \/ /\ IsLast(turn[r])
          /\ main' = [main EXCEPT ![r] = IF overlap THEN "last_ack" ELSE "finish"]
          /\ UNCHANGED turn

\* Without overlap the rank loads the bucket itself.
LoadInPlace(r) ==
    /\ main[r] = "load"
    /\ loaded' = [q \in RolloutRanks |-> [p \in Params |->
                    IF q = r /\ Holds(turn[r], p) THEN ValueIn(r, 0, p) ELSE loaded[q][p]]]
    /\ Advance(r)
    /\ UNCHANGED <<plan, sync, joined, memory_buffers, h2d_buffer, broadcast_load_buffer, sent,
                   arrived, request, reply, loader>>

\* socket.recv, then the barrier is entered.
ReceiveAck(r) ==
    /\ main[r] = "ack"
    /\ reply[r]
    /\ reply' = [reply EXCEPT ![r] = FALSE]
    /\ Arrive(r)
    /\ main' = [main EXCEPT ![r] = "barrier"]
    /\ UNCHANGED <<plan, sync, turn, gidx, joined, memory_buffers, h2d_buffer,
                   broadcast_load_buffer, sent, request, loader, loaded>>

\* The barrier is left and the thread is told where the bucket is.
SendMetas(r) ==
    /\ main[r] = "barrier"
    /\ BarrierOpen(r)
    /\ request' = [request EXCEPT ![r] =
                    [kind |-> "metas", metas |-> Metas(turn[r]), half |-> Start(gidx[r])]]
    /\ Advance(r)
    /\ UNCHANGED <<plan, sync, joined, memory_buffers, h2d_buffer, broadcast_load_buffer, sent,
                   arrived, reply, loader, loaded>>

\* The answer to the last bucket, and None for the thread.
SendNone(r) ==
    /\ main[r] = "last_ack"
    /\ reply[r]
    /\ reply' = [reply EXCEPT ![r] = FALSE]
    /\ request' = [request EXCEPT ![r] = [kind |-> "done"]]
    /\ main' = [main EXCEPT ![r] = "join"]
    /\ UNCHANGED <<plan, sync, turn, gidx, joined, memory_buffers, h2d_buffer,
                   broadcast_load_buffer, sent, arrived, loader, loaded>>

JoinThread(r) ==
    /\ main[r] = "join"
    /\ reply[r] /\ loader[r].state = "none"
    /\ reply' = [reply EXCEPT ![r] = FALSE]
    /\ main' = [main EXCEPT ![r] = "finish"]
    /\ UNCHANGED <<plan, sync, turn, gidx, joined, memory_buffers, h2d_buffer,
                   broadcast_load_buffer, sent, arrived, request, loader, loaded>>

\* The last barrier.
EnterLastBarrier(r) ==
    /\ main[r] = "finish"
    /\ Arrive(r)
    /\ main' = [main EXCEPT ![r] = "leaving"]
    /\ UNCHANGED <<plan, sync, turn, gidx, joined, memory_buffers, h2d_buffer,
                   broadcast_load_buffer, sent, request, reply, loader, loaded>>

EndUpdate(r) ==
    /\ main[r] = "leaving"
    /\ BarrierOpen(r)
    /\ memory_buffers' = [memory_buffers EXCEPT ![r] = 0]
    /\ main' = [main EXCEPT ![r] = "idle"]
    /\ UNCHANGED <<plan, sync, turn, gidx, joined, h2d_buffer, broadcast_load_buffer, sent,
                   arrived, request, reply, loader, loaded>>

-----------------------------------------------------------------------------
(* The loading thread *)

\* socket.recv_pyobj: the first message and None are answered at once, with
\* metas the load begins.
ReceiveRequest(r) ==
    /\ loader[r].state = "ready"
    /\ request[r] # Nothing
    /\ request' = [request EXCEPT ![r] = Nothing]
    /\ CASE request[r].kind = "hello" ->
              reply' = [reply EXCEPT ![r] = TRUE] /\ UNCHANGED loader
         [] request[r].kind = "done" ->
              reply' = [reply EXCEPT ![r] = TRUE] /\ loader' = [loader EXCEPT ![r].state = "none"]
         [] OTHER ->
              /\ loader' = [loader EXCEPT ![r] = [state |-> "load", todo |-> request[r].metas,
                                                  half |-> request[r].half]]
              /\ UNCHANGED reply
    /\ UNCHANGED <<plan, sync, main, turn, gidx, joined, memory_buffers, h2d_buffer,
                   broadcast_load_buffer, sent, arrived, loaded>>

\* load_weights takes the tensors out of the buffer one after the other.
LoadTensor(r) ==
    /\ loader[r].state = "load" /\ loader[r].todo # <<>>
    /\ LET p == Head(loader[r].todo).name IN
        loaded' = [q \in RolloutRanks |->
                    IF q = r THEN [loaded[q] EXCEPT ![p] = ValueIn(r, loader[r].half, p)]
                             ELSE loaded[q]]
    /\ loader' = [loader EXCEPT ![r].todo = Tail(@)]
    /\ UNCHANGED <<plan, sync, main, turn, gidx, joined, memory_buffers, h2d_buffer,
                   broadcast_load_buffer, sent, arrived, request, reply>>

AnswerLoaded(r) ==
    /\ loader[r].state = "load" /\ loader[r].todo = <<>>
    /\ loader' = [loader EXCEPT ![r].state = "ready"]
    /\ reply' = [reply EXCEPT ![r] = TRUE]
    /\ UNCHANGED <<plan, sync, main, turn, gidx, joined, memory_buffers, h2d_buffer,
                   broadcast_load_buffer, sent, arrived, request, loaded>>

-----------------------------------------------------------------------------

MainStep(r) ==
    \/ RegisterCheckpoint(r) \/ BeginUpdate(r) \/ CopyToDevice(r) \/ Broadcast(r)
    \/ LoadInPlace(r) \/ ReceiveAck(r) \/ SendMetas(r) \/ SendNone(r) \/ JoinThread(r)
    \/ EnterLastBarrier(r) \/ EndUpdate(r)

LoaderStep(r) == ReceiveRequest(r) \/ LoadTensor(r) \/ AnswerLoaded(r)

AllSynced == \A r \in Ranks : main[r] = "idle" /\ sync[r] = MaxSyncs

Ended == AllSynced /\ UNCHANGED vars

Next == AssignParameter \/ (\E r \in Ranks : MainStep(r) \/ LoaderStep(r)) \/ Ended

\* Neither thread of a rank is ever stopped.
Fairness ==
    /\ WF_vars(AssignParameter)
    /\ \A r \in Ranks : WF_vars(MainStep(r)) /\ WF_vars(LoaderStep(r))

Spec == Init /\ [][Next]_vars /\ Fairness

-----------------------------------------------------------------------------
(* Properties *)

\* Type invariant.
TypeOK ==
    /\ assigned \in 0..ParamNum
    /\ sync \in [Ranks -> 0..MaxSyncs]
    /\ turn \in [Ranks -> Buckets]
    /\ gidx \in [Ranks -> Nat] /\ joined \in [Ranks -> 0..Len(sent)]
    /\ \A r \in Ranks : request[r].kind \in {"nothing", "hello", "metas", "done"}
    /\ reply \in [Ranks -> BOOLEAN]
    /\ loaded \in [RolloutRanks -> [Params -> 0..MaxSyncs]]

\* The buckets hold every parameter once, on the rank that caches it.  The
\* tensors of a bucket lie one behind the other within its size, which is at
\* most that of the buffers, and none is closed while it is empty (the
\* assertion of register_checkpoint).
BucketsHoldAll ==
    /\ assigned = ParamNum =>
        \A p \in Params :
            \E b \in Buckets : Holds(b, p) /\ \A c \in Buckets : Holds(c, p) => c = b
    /\ \A b \in Buckets :
        LET bucket == global_buckets[b.src][b.iter]
            metas == bucket.metas
        IN  /\ bucket.size <= BucketSize
            /\ b.iter < Len(global_buckets[b.src]) => bucket.size # 0
            /\ \A i \in DOMAIN metas :
                /\ metas[i].name \in CachedBy(b.src)
                /\ metas[i].offset + weights_info[metas[i].name] <= bucket.size
                /\ \A j \in 1..(i - 1) :
                    metas[j].offset + weights_info[metas[j].name] <= metas[i].offset

\* A rollout rank that leaves a synchronization has the values of that
\* synchronization in every parameter, although the next bucket is broadcast
\* while the thread loads and the actor ranks go on to the next
\* synchronization on their own.
WeightsAgree ==
    \A r \in RolloutRanks :
        (main[r] \in {"finish", "leaving", "idle"} /\ sync[r] > 0) =>
            \A p \in Params : loaded[r][p] = sync[r]

\* Every synchronization ends on every rank: the broadcasts, the barriers and
\* the two sockets never wait for each other in a circle.
SyncsEnd == <>AllSynced
=============================================================================
