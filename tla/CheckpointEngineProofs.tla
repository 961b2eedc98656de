------------------------ MODULE CheckpointEngineProofs ------------------------
(***************************************************************************)
(* Proofs about CheckpointEngine, for any number of ranks, parameters of   *)
(* any size and synchronizations, with and without overlap: the buckets    *)
(* hold every parameter once and fit the buffers, and a rollout rank       *)
(* leaves a synchronization with the values of that synchronization.       *)
(*                                                                         *)
(* The invariant says where a rank is in the one sequence of broadcasts    *)
(* (PlaceInv), that its half of the buffer holds what was broadcast and    *)
(* that it has loaded every bucket before (LoadInv), and what an actor     *)
(* rank has at hand to send (CopyInv).  As a step of one rank leaves the   *)
(* others where they are (RankStays), each action is treated for the rank  *)
(* that takes it.                                                          *)
(***************************************************************************)
EXTENDS CheckpointEngine, SequenceTheorems, WellFoundedInduction, TLAPS

\* What is assumed of the constants.
Numbers ==
    /\ ActorNum \in Nat \ {0} /\ RolloutNum \in Nat /\ ParamNum \in Nat \ {0}
    /\ MaxSize \in Nat \ {0} /\ DeviceBufferSize \in Nat /\ MaxSyncs \in Nat

\* The specification without its fairness.
SafetySpec == Init /\ [][Next]_vars

\* The bucket that b names.
BucketOf(b) == global_buckets[b.src][b.iter]

TensorMetas == [name : Params, offset : Nat]
BucketRecords == [size : Nat, metas : Seq(TensorMetas)]

\* The tensors of a bucket of rank a lie one behind the other.
LaidOut(bucket, a) ==
    /\ bucket.size <= BucketSize
    /\ \A i \in DOMAIN bucket.metas :
        /\ bucket.metas[i].name \in CachedBy(a)
        /\ bucket.metas[i].offset + weights_info[bucket.metas[i].name] <= bucket.size
        /\ \A j \in 1..(i - 1) :
            bucket.metas[j].offset + weights_info[bucket.metas[j].name] <= bucket.metas[i].offset

\* The parameters assigned so far are in one bucket each, the others in none.
PlanInv ==
    /\ weights_info \in [Params -> 1..MaxSize] /\ overlap \in BOOLEAN
    /\ assigned \in 0..ParamNum
    /\ global_buckets \in [ActorRanks -> Seq(BucketRecords) \ {<<>>}]
    /\ \A b \in Buckets :
        /\ LaidOut(BucketOf(b), b.src)
        /\ b.iter < Len(global_buckets[b.src]) => BucketOf(b).size # 0
        /\ \A p \in Params : Holds(b, p) => p <= assigned
    /\ \A p \in 1..assigned :
        \E b \in Buckets : Holds(b, p) /\ \A c \in Buckets : Holds(c, p) => c = b

-----------------------------------------------------------------------------
(* Transfers *)

MainPlaces ==
    {"idle", "registered", "copy", "broadcast", "load", "ack", "barrier", "last_ack", "join",
     "finish", "leaving"}
Contents == [iter : Nat, src : Nat, value : 0..MaxSyncs]

\* What is in a buffer: bucket b with the values of synchronization s.
Of(b, s) == [iter |-> b.iter, src |-> b.src, value |-> s]
BucketIn(content) == [iter |-> content.iter, src |-> content.src]

\* What is broadcast after content c.
After(d, c) ==
    \/ d.value = c.value /\ Follows(BucketIn(d), BucketIn(c))
    \/ d.value = c.value + 1 /\ IsLast(BucketIn(c)) /\ BucketIn(d) = FirstBucket

Typed ==
    /\ sync \in [Ranks -> 0..MaxSyncs]
    /\ main \in [Ranks -> MainPlaces]
    /\ turn \in [Ranks -> Buckets]
    /\ gidx \in [Ranks -> Nat]
    /\ joined \in [Ranks -> Nat]
    /\ memory_buffers \in [Ranks -> 0..MaxSyncs]
    /\ h2d_buffer \in [ActorRanks -> Contents]
    /\ broadcast_load_buffer \in [Ranks -> [{0, 1} -> Contents]]
    /\ sent \in Seq(Contents)
    /\ request = [q \in Ranks |-> request[q]]
    /\ reply \in [Ranks -> BOOLEAN]
    /\ loader \in [Ranks -> [state : {"none", "ready", "load"}, todo : Seq(TensorMetas),
                             half : {0, 1}]]
    /\ loaded \in [RolloutRanks -> [Params -> 0..MaxSyncs]]

\* The broadcasts make one sequence.
SentInv ==
    /\ \A n \in 1..Len(sent) : BucketIn(sent[n]) \in Buckets
    /\ sent # <<>> => sent[1] = Of(FirstBucket, 1)
    /\ \A n \in 1..(Len(sent) - 1) : After(sent[n + 1], sent[n])

\* The synchronizations whose broadcasts rank r has behind it.
Done(r) == IF main[r] = "registered" THEN sync[r] - 1 ELSE sync[r]

\* Where rank r is in that sequence.
PlaceInv(r) ==
    /\ joined[r] <= Len(sent)
    /\ \A n \in 1..Len(sent) : sent[n].src = r => n <= joined[r]
    /\ main[r] # "idle" => sync[r] # 0
    /\ main[r] \in {"copy", "broadcast"} =>
        IF joined[r] = 0 THEN Of(turn[r], sync[r]) = Of(FirstBucket, 1)
        ELSE After(Of(turn[r], sync[r]), sent[joined[r]])
    /\ main[r] \in {"load", "ack", "barrier"} =>
        joined[r] # 0 /\ sent[joined[r]] = Of(turn[r], sync[r])
    /\ main[r] \in {"last_ack", "join", "finish", "leaving", "idle", "registered"} =>
        IF Done(r) = 0 THEN joined[r] = 0
        ELSE joined[r] # 0 /\ sent[joined[r]] = Of(turn[r], Done(r)) /\ IsLast(turn[r])

\* An actor rank has the values of its synchronization, and on the device
\* its bucket of the iteration.
CopyInv(r) ==
    /\ main[r] # "idle" => memory_buffers[r] = sync[r]
    /\ main[r] \in {"broadcast", "load", "ack", "barrier"} =>
        LET mine == [iter |-> turn[r].iter, src |-> r]
        IN  mine \in Buckets => h2d_buffer[r] = Of(mine, sync[r])

Loaded(r, b) == r \in RolloutRanks => \A p \in Params : Holds(b, p) => loaded[r][p] = sync[r]

LoadedBefore(r, b) == \A c \in Buckets : Before(c, b) => Loaded(r, c)

LoadedAll(r) == \A c \in Buckets : Loaded(r, c)

\* Nothing is under way between the threads of rank r.
Quiet(r, state) == request[r] = Nothing /\ ~reply[r] /\ loader[r].state = state

\* Bucket b lies in half h and has been passed to the loading thread.
Consumed(r, b, h) ==
    /\ LoadedBefore(r, b)
    /\ broadcast_load_buffer[r][h] = Of(b, sync[r])
    /\ \/ /\ request[r] = [kind |-> "metas", metas |-> Metas(b), half |-> h]
          /\ ~reply[r] /\ loader[r].state = "ready"
       \/ /\ request[r] = Nothing /\ ~reply[r]
          /\ loader[r].state = "load" /\ loader[r].half = h
          /\ \A i \in 1..Len(loader[r].todo) : Holds(b, loader[r].todo[i].name)
          /\ r \in RolloutRanks =>
              \A p \in Params : Holds(b, p) =>
                loaded[r][p] = sync[r] \/ \E i \in 1..Len(loader[r].todo) : loader[r].todo[i].name = p
       \/ request[r] = Nothing /\ reply[r] /\ loader[r].state = "ready" /\ Loaded(r, b)

\* The first message to the thread.
Greeted(r) ==
    /\ loader[r].state = "ready"
    /\ \/ request[r] = [kind |-> "hello"] /\ ~reply[r]
       \/ request[r] = Nothing /\ reply[r]

\* The thread is told to end.
Dismissed(r) ==
    \/ request[r] = [kind |-> "done"] /\ ~reply[r] /\ loader[r].state = "ready"
    \/ request[r] = Nothing /\ reply[r] /\ loader[r].state = "none"

\* Without overlap the thread does not exist.
PlainInv(r) ==
    /\ Quiet(r, "none")
    /\ main[r] \notin {"ack", "barrier", "last_ack", "join"}
    /\ main[r] \in {"copy", "broadcast", "load"} => LoadedBefore(r, turn[r])
    /\ main[r] = "load" => broadcast_load_buffer[r][0] = Of(turn[r], sync[r])

\* With overlap one message or one bucket is under way to the thread.
OverlapInv(r) ==
    /\ main[r] # "load"
    /\ main[r] \in {"copy", "broadcast", "ack"} =>
        IF gidx[r] = 0 THEN turn[r] = FirstBucket /\ Greeted(r)
        ELSE \E b \in Buckets : Follows(turn[r], b) /\ Consumed(r, b, (gidx[r] - 1) % 2)
    /\ main[r] \in {"ack", "barrier"} =>
        broadcast_load_buffer[r][gidx[r] % 2] = Of(turn[r], sync[r])
    /\ main[r] = "barrier" => Quiet(r, "ready") /\ LoadedBefore(r, turn[r])
    /\ main[r] = "last_ack" => gidx[r] # 0 /\ Consumed(r, turn[r], (gidx[r] - 1) % 2)
    /\ main[r] = "join" => Dismissed(r) /\ LoadedAll(r)
    /\ main[r] \in {"idle", "registered", "finish", "leaving"} => Quiet(r, "none")

LoadInv(r) ==
    /\ IF overlap THEN OverlapInv(r) ELSE PlainInv(r)
    /\ main[r] \in {"finish", "leaving"} \/ (main[r] = "idle" /\ sync[r] # 0) => LoadedAll(r)

RankInv(r) == PlaceInv(r) /\ LoadInv(r) /\ (r \in ActorRanks => CopyInv(r))

\* No transfer begins before the last parameter has its bucket.
Untouched ==
    /\ sent = <<>>
    /\ \A r \in Ranks :
        /\ main[r] = "idle" /\ sync[r] = 0 /\ joined[r] = 0 /\ turn[r] = FirstBucket
        /\ Quiet(r, "none")

IInv ==
    /\ PlanInv
    /\ Typed
    /\ assigned # ParamNum => Untouched
    /\ SentInv
    /\ \A r \in Ranks : RankInv(r)

\* Every set of numbers has a least element.
LEMMA LeastOf ==
    ASSUME NEW T \in SUBSET Nat, T # {}
    PROVE  \E n \in T : \A m \in T : n <= m
PROOF
<1> DEFINE R == OpToRel(<, Nat)
<1>1. IsWellFoundedOn(R, Nat)
  BY NatLessThanWellFounded
<1>2. R = {ss \in Nat \X Nat : ss[1] < ss[2]}
  BY DEF OpToRel
<1> HIDE DEF R
<1>3. PICK n \in T : \A m \in T : ~(<<m, n>> \in R)
  BY <1>1, WFMin
<1>4. ASSUME NEW m \in T
      PROVE  n <= m
  <2>1. <<m, n>> \notin R
    BY <1>3
  <2>2. <<m, n>> \in Nat \X Nat
    OBVIOUS
  <2>3. ~(m < n)
    BY <2>1, <2>2, <1>2
  <2> QED
    BY <2>3
<1> QED
  BY <1>4

\* A bounded set of numbers has a largest element.
LEMMA LargestOf ==
    ASSUME NEW S \in SUBSET Nat, S # {}, NEW top \in Nat, \A x \in S : x <= top
    PROVE  \E x \in S : \A y \in S : x >= y
PROOF
<1> DEFINE T == {n \in Nat : \A x \in S : x <= n}
<1>1. T \in SUBSET Nat /\ top \in T
  OBVIOUS
<1>2. PICK n \in T : \A m \in T : n <= m
  BY <1>1, LeastOf
<1>3. CASE n \in S
  BY <1>2, <1>3
<1>4. CASE n \notin S
  <2>1. PICK x \in S : TRUE
    OBVIOUS
  <2>2. \A y \in S : y < n
    BY <1>2, <1>4
  <2>3. n - 1 \in Nat /\ \A y \in S : y <= n - 1
    BY <1>2, <2>1, <2>2
  <2>4. n - 1 \in T
    BY <2>3
  <2> QED
    BY <1>2, <2>4
<1> QED
  BY <1>3, <1>4

LEMMA LargestFits ==
    ASSUME Numbers, NEW w \in [Params -> 1..MaxSize], weights_info = w
    PROVE  BucketSize \in Nat /\ \A p \in Params : w[p] <= BucketSize
PROOF
<1> DEFINE S == {DeviceBufferSize} \cup {w[p] : p \in Params}
           top == DeviceBufferSize + MaxSize
<1>1. S \in SUBSET Nat /\ S # {}
  BY DEF Numbers
<1>2. top \in Nat /\ \A x \in S : x <= top
  <2>1. \A p \in Params : w[p] \in 1..MaxSize
    OBVIOUS
  <2> QED
    BY <2>1 DEF Numbers
<1>3. BucketSize = CHOOSE x \in S : \A y \in S : x >= y
  BY DEF BucketSize, Max
<1> HIDE DEF top
<1>4. \E x \in S : \A y \in S : x >= y
  BY <1>1, <1>2, LargestOf
<1>5. BucketSize \in S /\ \A y \in S : BucketSize >= y
  BY <1>3, <1>4
<1>6. ASSUME NEW p \in Params PROVE w[p] \in S
  OBVIOUS
<1> QED
  BY <1>1, <1>5, <1>6

LEMMA AssignRankIsActor ==
    ASSUME Numbers, NEW p \in Params
    PROVE  AssignRank(p) \in ActorRanks /\ p \in CachedBy(AssignRank(p))
PROOF
<1>1. ActorNum \in Nat /\ ActorNum > 0 /\ p - 1 \in Nat
  BY DEF Numbers, Params
<1>2. (p - 1) % ActorNum \in 0..(ActorNum - 1)
  BY <1>1
<1> QED
  BY <1>2 DEF AssignRank, ActorRanks, CachedBy

LEMMA BucketsAre ==
    \A b : b \in Buckets <=>
             \E a \in ActorRanks : \E i \in DOMAIN global_buckets[a] : b = [iter |-> i, src |-> a]
PROOF
  BY DEF Buckets

-----------------------------------------------------------------------------
(* Buckets *)

\* The names of a bucket's tensors.
Named(bucket, p) == \E i \in DOMAIN bucket.metas : bucket.metas[i].name = p

LEMMA PutLaysOut ==
    ASSUME Numbers, NEW old \in BucketRecords, NEW a, NEW p \in CachedBy(a),
           weights_info \in [Params -> 1..MaxSize],
           LaidOut(old, a), old.size + weights_info[p] <= BucketSize
    PROVE  /\ Put(old, p) \in BucketRecords /\ Put(old, p).size # 0
           /\ LaidOut(Put(old, p), a)
           /\ \A x : Named(Put(old, p), x) <=> x = p \/ Named(old, x)
PROOF
<1> DEFINE m == [name |-> p, offset |-> old.size]
           s == old.metas
           t == Append(s, m)
           new == Put(old, p)
<1>1. p \in Params /\ weights_info[p] \in Nat \ {0} /\ old.size \in Nat
  BY DEF Numbers, CachedBy, BucketRecords
<1>2. m \in TensorMetas /\ s \in Seq(TensorMetas)
  BY <1>1 DEF TensorMetas, BucketRecords
<1>3. /\ t \in Seq(TensorMetas)
      /\ DOMAIN t = 1..(Len(s) + 1) /\ DOMAIN s = 1..Len(s)
      /\ t[Len(s) + 1] = m /\ \A i \in 1..Len(s) : t[i] = s[i]
  BY <1>2
<1>4. new.metas = t /\ new.size = old.size + weights_info[p]
  BY DEF Put
<1>5. new \in BucketRecords /\ new.size # 0
  BY <1>1, <1>3 DEF Put, BucketRecords
<1>6. \A x : Named(new, x) <=> x = p \/ Named(old, x)
  <2>1. m.name = p /\ Len(s) \in Nat
    BY <1>2
  <2>2. s = old.metas
    OBVIOUS
  <2> HIDE DEF m, s, t, new
  <2>3. TAKE x
  <2>4. Named(new, x) <=> \E i \in 1..(Len(s) + 1) : t[i].name = x
    BY <1>3, <1>4 DEF Named
  <2>5. Named(old, x) <=> \E i \in 1..Len(s) : t[i].name = x
    BY <1>3, <2>2 DEF Named
  <2>6. \A i : i \in 1..(Len(s) + 1) <=> i \in 1..Len(s) \/ i = Len(s) + 1
    BY <2>1
  <2> QED
    BY <1>3, <2>1, <2>4, <2>5, <2>6
<1>7. ASSUME NEW i \in DOMAIN s
      PROVE  s[i] \in TensorMetas /\ weights_info[s[i].name] \in Nat
  <2>1. s[i] \in TensorMetas
    BY <1>2
  <2> HIDE DEF s
  <2>2. s[i].name \in Params
    BY <2>1 DEF TensorMetas
  <2> QED
    BY <2>1, <2>2 DEF Numbers
<1>8. ASSUME NEW i \in DOMAIN t
      PROVE  /\ t[i].name \in CachedBy(a)
             /\ t[i].offset + weights_info[t[i].name] <= new.size
             /\ \A j \in 1..(i - 1) : t[j].offset + weights_info[t[j].name] <= t[i].offset
  <2>1. CASE i = Len(s) + 1
    <3>1. t[i] = m /\ m.name = p /\ m.offset = old.size
      BY <1>3, <2>1
    <3>2. \A j \in 1..(i - 1) : t[j] = s[j] /\ j \in DOMAIN s
      BY <1>2, <1>3, <2>1
    <3>3. \A j \in DOMAIN s : s[j].offset + weights_info[s[j].name] <= old.size
      BY DEF LaidOut
    <3> HIDE DEF m, s, t, new
    <3> QED
      BY <1>1, <1>4, <3>1, <3>2, <3>3
  <2>2. CASE i # Len(s) + 1
    <3>1. i \in DOMAIN s /\ t[i] = s[i] /\ \A j \in 1..(i - 1) : t[j] = s[j] /\ j \in DOMAIN s
      BY <1>2, <1>3, <2>2
    <3>2. /\ s[i].name \in CachedBy(a)
          /\ s[i].offset + weights_info[s[i].name] <= old.size
          /\ \A j \in 1..(i - 1) : s[j].offset + weights_info[s[j].name] <= s[i].offset
      BY <3>1 DEF LaidOut
    <3>3. s[i].offset \in Nat /\ weights_info[s[i].name] \in Nat
      BY <1>7, <3>1 DEF TensorMetas
    <3> HIDE DEF m, s, t, new
    <3> QED
      BY <1>1, <1>4, <3>1, <3>2, <3>3
  <2> QED
    BY <2>1, <2>2
<1>9. new.size <= BucketSize
  BY <1>4
<1> HIDE DEF m, s, t, new
<1>10. LaidOut(new, a)
  BY <1>4, <1>8, <1>9 DEF LaidOut
<1> QED
  BY <1>5, <1>6, <1>10 DEF new

\* What Place does to the buckets of a rank: the last one of the new ones is old
\* and the parameter, where old is the last one there was or a new one.
PlacedIn(bs, new, p, old) ==
    /\ new \in Seq(BucketRecords) \ {<<>>}
    /\ new[Len(new)] = Put(old, p)
    /\ old \in BucketRecords
    /\ old.size + weights_info[p] <= BucketSize
    /\ \/ Len(new) = Len(bs) /\ old = bs[Len(bs)]
       \/ Len(new) = Len(bs) + 1 /\ old = EmptyBucket /\ bs[Len(bs)].size # 0
    /\ \A i \in 1..(Len(new) - 1) : new[i] = bs[i]

LEMMA PlacePlaces ==
    ASSUME Numbers, NEW bs \in Seq(BucketRecords) \ {<<>>}, NEW p \in Params,
           weights_info \in [Params -> 1..MaxSize]
    PROVE  \E old : PlacedIn(bs, Place(bs, p), p, old)
PROOF
<1> DEFINE n == Len(bs)
           last == bs[n]
<1>0. n \in Nat /\ n >= 1
  OBVIOUS
<1>1. last \in BucketRecords /\ last.size \in Nat /\ weights_info[p] \in Nat \ {0}
  <2>1. last \in BucketRecords
    BY <1>0
  <2> QED
    BY <2>1 DEF BucketRecords, Numbers
<1>2. BucketSize \in Nat /\ weights_info[p] <= BucketSize
  BY LargestFits
<1>3. EmptyBucket \in BucketRecords /\ EmptyBucket.size = 0
  <2>1. <<>> \in Seq(TensorMetas)
    OBVIOUS
  <2> QED
    BY <2>1 DEF EmptyBucket, BucketRecords
<1>4. \A old \in BucketRecords : Put(old, p) \in BucketRecords
  <2> TAKE old \in BucketRecords
  <2>1. old.metas \in Seq(TensorMetas) /\ old.size \in Nat
    BY DEF BucketRecords
  <2>2. [name |-> p, offset |-> old.size] \in TensorMetas
    BY <2>1 DEF TensorMetas
  <2>3. Append(old.metas, [name |-> p, offset |-> old.size]) \in Seq(TensorMetas)
    BY <2>1, <2>2
  <2> QED
    BY <1>1, <2>1, <2>3 DEF Put, BucketRecords
<1>5. CASE last.size + weights_info[p] > BucketSize
  <2> DEFINE b == Put(EmptyBucket, p)
             new == Append(bs, b)
  <2>1. Place(bs, p) = new
    BY <1>5 DEF Place
  <2>2. b \in BucketRecords
    BY <1>3, <1>4
  <2> HIDE DEF b
  <2>3. /\ new \in Seq(BucketRecords) /\ Len(new) = n + 1 /\ new[n + 1] = b
        /\ \A i \in 1..n : new[i] = bs[i]
    BY <2>2
  <2>4. new \in Seq(BucketRecords) \ {<<>>} /\ Len(new) - 1 = n
    BY <2>3, <1>0
  <2>5. last.size # 0 /\ EmptyBucket.size + weights_info[p] <= BucketSize
    BY <1>1, <1>2, <1>3, <1>5
  <2> HIDE DEF new
  <2>6. PlacedIn(bs, new, p, EmptyBucket)
    BY <1>3, <2>3, <2>4, <2>5 DEF PlacedIn, b
  <2> QED
    BY <2>1, <2>6
<1>6. CASE ~(last.size + weights_info[p] > BucketSize)
  <2> DEFINE b == Put(last, p)
             new == [bs EXCEPT ![n] = b]
  <2>1. Place(bs, p) = new
    BY <1>6 DEF Place
  <2>2. b \in BucketRecords
    BY <1>1, <1>4
  <2> HIDE DEF b
  <2>3. /\ new \in Seq(BucketRecords) /\ Len(new) = n /\ new[n] = b
        /\ \A i \in 1..(n - 1) : new[i] = bs[i]
    BY <1>0, <2>2
  <2>4. new \in Seq(BucketRecords) \ {<<>>}
    <3> HIDE DEF new
    <3>1. Len(new) # 0 /\ Len(<<>>) = 0
      BY <1>0, <2>3
    <3> QED
      BY <2>3, <3>1
  <2>5. last.size + weights_info[p] <= BucketSize
    BY <1>1, <1>2, <1>6
  <2> HIDE DEF new
  <2>6. PlacedIn(bs, new, p, last)
    BY <1>1, <2>3, <2>4, <2>5 DEF PlacedIn, b
  <2> QED
    BY <2>1, <2>6
<1> QED
  BY <1>5, <1>6

LEMMA PlanAssigned ==
    ASSUME Numbers, PlanInv, AssignParameter
    PROVE  PlanInv'
PROOF
<1>a. PICK q : q = assigned + 1
  OBVIOUS
<1>b. PICK a : a = AssignRank(q)
  OBVIOUS
<1>c. PICK bs : bs = global_buckets[a]
  OBVIOUS
<1>d. PICK new : new = Place(bs, q)
  OBVIOUS
<1>e. PICK T : T = [iter |-> Len(new), src |-> a]
  OBVIOUS
<1>1. q \in Params /\ assigned' = q /\ assigned \in 0..ParamNum /\ q \in 1..ParamNum
  BY <1>a DEF AssignParameter, PlanInv, Params, Numbers
<1>2. a \in ActorRanks /\ q \in CachedBy(a)
  BY <1>1, <1>b, AssignRankIsActor
<1>3. weights_info \in [Params -> 1..MaxSize] /\ weights_info' = weights_info
      /\ overlap \in BOOLEAN /\ overlap' = overlap
      /\ global_buckets \in [ActorRanks -> Seq(BucketRecords) \ {<<>>}]
  BY DEF PlanInv, AssignParameter
<1>4. bs \in Seq(BucketRecords) \ {<<>>}
  BY <1>2, <1>3, <1>c
<1>5. PICK old : PlacedIn(bs, new, q, old)
  BY <1>1, <1>3, <1>4, <1>d, PlacePlaces
<1>6. global_buckets' = [global_buckets EXCEPT ![a] = new]
  BY <1>a, <1>b, <1>c, <1>d DEF AssignParameter
<1>7. /\ global_buckets' \in [ActorRanks -> Seq(BucketRecords) \ {<<>>}]
      /\ global_buckets'[a] = new
      /\ \A c \in ActorRanks \ {a} : global_buckets'[c] = global_buckets[c]
  BY <1>2, <1>3, <1>5, <1>6 DEF PlacedIn
<1>8. Len(bs) \in Nat /\ Len(bs) >= 1 /\ Len(new) \in Nat /\ Len(new) >= 1
      /\ DOMAIN bs = 1..Len(bs) /\ DOMAIN new = 1..Len(new)
      /\ Len(bs) <= Len(new)
  BY <1>4, <1>5 DEF PlacedIn
<1>9. /\ \A b : b \in Buckets <=>
            b = [iter |-> b.iter, src |-> b.src] /\ b.src \in ActorRanks
                /\ b.iter \in DOMAIN global_buckets[b.src]
      /\ \A b : b \in Buckets' <=>
            b = [iter |-> b.iter, src |-> b.src] /\ b.src \in ActorRanks
                /\ b.iter \in DOMAIN global_buckets'[b.src]
  BY DEF Buckets
\* The buckets there are now: T has changed or is new.
<1>10. T \in Buckets' /\ BucketOf(T)' = Put(old, q)
  <2>0. T.iter = Len(new) /\ T.src = a /\ T = [iter |-> T.iter, src |-> T.src]
    BY <1>e
  <2>1. T \in Buckets'
    BY <1>2, <1>7, <1>8, <1>9, <2>0
  <2>3. global_buckets'[T.src][T.iter] = Put(old, q)
    BY <1>5, <1>7, <2>0 DEF PlacedIn
  <2> QED
    BY <2>1, <2>3 DEF BucketOf
<1>11. ASSUME NEW b \in Buckets', b # T
       PROVE  b \in Buckets /\ BucketOf(b)' = BucketOf(b)
  <2> DEFINE c == b.src
         i == b.iter
  <2>1. c \in ActorRanks /\ i \in DOMAIN global_buckets'[c] /\ b = [iter |-> i, src |-> c]
    BY <1>9
  <2>2. CASE c = a
    <3>1. i \in 1..Len(new) /\ i # Len(new)
      BY <1>7, <1>8, <1>11, <1>e, <2>1, <2>2
    <3>2. i \in 1..(Len(new) - 1) /\ i \in 1..Len(bs)
      <4>1. Len(new) = Len(bs) \/ Len(new) = Len(bs) + 1
        BY <1>5 DEF PlacedIn
      <4>2. Len(new) \in Nat /\ Len(bs) \in Nat
        BY <1>8
      <4> DEFINE u == Len(new)
             v == Len(bs)
      <4>3. i \in 1..u /\ i # u /\ u \in Nat /\ v \in Nat /\ (u = v \/ u = v + 1)
        BY <3>1, <4>1, <4>2
      <4> HIDE DEF i, u, v
      <4>4. i \in 1..(u - 1) /\ i \in 1..v
        BY <4>3
      <4> QED
        BY <4>4 DEF u, v
    <3>3. new[i] = bs[i]
      BY <1>5, <3>2 DEF PlacedIn
    <3> QED
      BY <1>7, <1>8, <1>9, <1>c, <2>1, <2>2, <3>2, <3>3 DEF BucketOf
  <2>3. CASE c # a
    BY <1>7, <1>9, <2>1, <2>3 DEF BucketOf
  <2> QED
    BY <2>2, <2>3
<1>12. ASSUME NEW b \in Buckets
       PROVE  b \in Buckets'
  <2> DEFINE c == b.src
         i == b.iter
  <2>1. c \in ActorRanks /\ i \in DOMAIN global_buckets[c] /\ b = [iter |-> i, src |-> c]
    BY <1>9
  <2>2. i \in DOMAIN global_buckets'[c]
    <3>1. CASE c = a
      BY <1>7, <1>8, <1>c, <2>1, <3>1
    <3>2. CASE c # a
      BY <1>7, <2>1, <3>2
    <3> QED
      BY <3>1, <3>2
  <2> QED
    BY <1>9, <2>1, <2>2
\* What T was before, if it was there.
<1>13. \/ T \in Buckets /\ old = BucketOf(T)
       \/ T \notin Buckets /\ old = EmptyBucket
  <2>1. CASE Len(new) = Len(bs) /\ old = bs[Len(bs)]
    BY <1>2, <1>8, <1>9, <1>c, <1>e, <2>1 DEF BucketOf
  <2>2. CASE Len(new) = Len(bs) + 1 /\ old = EmptyBucket
    <3>1. ASSUME T \in Buckets PROVE FALSE
      <4> DEFINE c == T.src
             i == T.iter
      <4>1. c \in ActorRanks /\ i \in DOMAIN global_buckets[c] /\ T = [iter |-> i, src |-> c]
        BY <1>9, <3>1
      <4>2. c = a /\ i = Len(new)
        BY <1>e
      <4> QED
        BY <1>8, <1>c, <2>2, <4>1, <4>2
    <3> QED
      BY <2>2, <3>1
  <2> QED
    BY <1>5, <2>1, <2>2 DEF PlacedIn
<1>14. LaidOut(old, a) /\ \A x \in Params : Named(old, x) => x <= assigned /\ Holds(T, x) /\ T \in Buckets
  <2>1. CASE T \in Buckets /\ old = BucketOf(T)
    BY <1>e, <2>1 DEF PlanInv, Named, Holds, BucketOf, Metas
  <2>2. CASE old = EmptyBucket
    <3>1. DOMAIN old.metas = {} /\ old.size = 0
      BY <2>2 DEF EmptyBucket
    <3>2. BucketSize \in Nat
      BY <1>3, LargestFits
    <3> QED
      BY <3>1, <3>2 DEF LaidOut, Named
  <2> QED
    BY <1>13, <2>1, <2>2
<1>15. /\ Put(old, q) \in BucketRecords /\ Put(old, q).size # 0
       /\ LaidOut(Put(old, q), a)
       /\ \A x : Named(Put(old, q), x) <=> x = q \/ Named(old, x)
  BY <1>2, <1>3, <1>5, <1>14, PutLaysOut DEF PlacedIn
<1>16. \A bucket, c : LaidOut(bucket, c)' <=> LaidOut(bucket, c)
  BY <1>3 DEF LaidOut, BucketSize, CachedBy
<1>17. \A b, x : (Holds(b, x) <=> Named(BucketOf(b), x)) /\ (Holds(b, x)' <=> Named(BucketOf(b)', x))
  BY DEF Holds, Named, BucketOf, Metas
<1>18. ASSUME NEW b \in Buckets'
       PROVE  /\ LaidOut(BucketOf(b), b.src)'
              /\ b.iter < Len(global_buckets'[b.src]) => BucketOf(b)'.size # 0
              /\ \A p \in Params : Holds(b, p)' => p <= assigned'
  <2>1. CASE b = T
    <3>0. BucketOf(b)' = Put(old, q) /\ b.iter = Len(new) /\ b.src = a
      BY <1>10, <1>e, <2>1
    <3>1. ASSUME NEW p \in Params, Holds(b, p)' PROVE p <= assigned'
      <4>1. p = q \/ Named(old, p)
        BY <1>15, <1>17, <3>0, <3>1
      <4>2. p = q \/ p <= assigned
        BY <1>14, <3>1, <4>1
      <4> QED
        BY <1>1, <1>a, <3>1, <4>2 DEF Params
    <3>2. LaidOut(BucketOf(b)', b.src)
      BY <1>15, <3>0
    <3>3. LaidOut(BucketOf(b), b.src)'
      BY <3>2, <1>3 DEF LaidOut, BucketSize, CachedBy
    <3> QED
      BY <1>7, <1>8, <1>15, <3>0, <3>1, <3>3
  <2>2. CASE b # T
    <3>1. b \in Buckets /\ BucketOf(b)' = BucketOf(b)
      BY <1>11, <2>2
    <3>2. /\ LaidOut(BucketOf(b), b.src)
          /\ b.iter < Len(global_buckets[b.src]) => BucketOf(b).size # 0
          /\ \A p \in Params : Holds(b, p) => p <= assigned
      BY <3>1 DEF PlanInv
    <3>3. LaidOut(BucketOf(b), b.src)'
      BY <3>1, <3>2, <1>3 DEF LaidOut, BucketSize, CachedBy
    <3>4. \A p \in Params : Holds(b, p)' => p <= assigned'
      <4> TAKE p \in Params
      <4>1. Holds(b, p)' => Holds(b, p)
        BY <1>17, <3>1
      <4>2. Holds(b, p)' => p <= assigned
        BY <3>2, <4>1
      <4> QED
        BY <1>1, <1>a, <4>2 DEF Params
    <3>5. b.iter < Len(global_buckets'[b.src]) => BucketOf(b).size # 0
      <4> DEFINE c == b.src
             i == b.iter
      <4>1. c \in ActorRanks /\ i \in DOMAIN global_buckets[c] /\ b = [iter |-> i, src |-> c]
        BY <1>9, <3>1
      <4>2. CASE c # a
        BY <1>7, <3>2, <4>1, <4>2
      <4>3. CASE c = a /\ i < Len(bs)
        BY <1>c, <3>2, <4>1, <4>3
      <4>4. CASE c = a /\ i = Len(bs)
        <5>1. Len(new) = Len(bs) + 1 /\ bs[Len(bs)].size # 0
          BY <1>5, <1>8, <1>e, <2>2, <4>1, <4>4 DEF PlacedIn
        <5> QED
          BY <1>c, <4>1, <4>4, <5>1 DEF BucketOf
      <4>5. c = a => i \in 1..Len(bs)
        BY <1>8, <1>c, <4>1
      <4> QED
        BY <1>8, <4>2, <4>3, <4>4, <4>5
    <3> QED
      BY <3>1, <3>3, <3>4, <3>5
  <2> QED
    BY <2>1, <2>2
<1>19. ASSUME NEW p \in 1..assigned'
       PROVE  \E b \in Buckets' : Holds(b, p)' /\ \A c \in Buckets' : Holds(c, p)' => c = b
  <2>0. p \in Params /\ \A b \in Buckets : Holds(b, p) => p <= assigned
    <3>1. p \in Params
      BY <1>1, <1>a, <1>19 DEF Params, Numbers
    <3> QED
      BY <3>1 DEF PlanInv
  <2>1. CASE p = q
    <3>1. Holds(T, p)'
      BY <1>10, <1>15, <1>17, <2>1
    <3>2. ASSUME NEW c \in Buckets', Holds(c, p)', c # T PROVE FALSE
      <4>1. c \in Buckets /\ Holds(c, p)
        BY <1>11, <1>17, <3>2
      <4> QED
        BY <1>1, <1>a, <2>0, <2>1, <4>1
    <3> QED
      BY <1>10, <3>1, <3>2
  <2>2. CASE p # q
    <3>1. p \in 1..assigned
      BY <1>1, <1>a, <1>19, <2>2
    <3>2. PICK b \in Buckets : Holds(b, p) /\ \A c \in Buckets : Holds(c, p) => c = b
      BY <3>1 DEF PlanInv
    <3>3. \A c \in Buckets' : Holds(c, p)' <=> c \in Buckets /\ Holds(c, p)
      <4> TAKE c \in Buckets'
      <4>1. CASE c = T
        <5>1. Holds(c, p)' <=> Named(old, p)
          <6>1. Holds(c, p)' <=> Named(Put(old, q), p)
            BY <1>10, <1>17, <4>1
          <6> QED
            BY <1>15, <2>2, <6>1
        <5>2. Named(old, p) <=> T \in Buckets /\ Holds(T, p)
          <6>1. CASE T \in Buckets /\ old = BucketOf(T)
            BY <1>17, <6>1
          <6>2. CASE T \notin Buckets /\ old = EmptyBucket
            BY <2>0, <1>14, <6>2
          <6> QED
            BY <1>13, <6>1, <6>2
        <5> QED
          BY <4>1, <5>1, <5>2
      <4>2. CASE c # T
        BY <1>11, <1>17, <4>2
      <4> QED
        BY <4>1, <4>2
    <3>4. b \in Buckets'
      BY <1>12
    <3> QED
      BY <3>2, <3>3, <3>4
  <2> QED
    BY <2>1, <2>2
<1>20. assigned' \in 0..ParamNum
  BY <1>1
<1> QED
  BY <1>3, <1>7, <1>18, <1>19, <1>20 DEF PlanInv

-----------------------------------------------------------------------------
(* The order of the buckets *)

LEMMA BucketNames ==
    ASSUME Numbers, PlanInv
    PROVE  /\ \A b \in Buckets : /\ b.iter \in Nat \ {0} /\ b.src \in ActorRanks /\ b.src \in Nat
                                 /\ b = [iter |-> b.iter, src |-> b.src]
           /\ FirstBucket \in Buckets
PROOF
<1>1. global_buckets \in [ActorRanks -> Seq(BucketRecords) \ {<<>>}]
  BY DEF PlanInv
<1>2. \A a \in ActorRanks : /\ global_buckets[a] \in Seq(BucketRecords) /\ global_buckets[a] # <<>>
                            /\ DOMAIN global_buckets[a] = 1..Len(global_buckets[a])
                            /\ Len(global_buckets[a]) \in Nat /\ Len(global_buckets[a]) >= 1
  <2> TAKE a \in ActorRanks
  <2>1. global_buckets[a] \in Seq(BucketRecords) /\ global_buckets[a] # <<>>
    BY <1>1
  <2> QED
    BY <2>1
<1>3. ASSUME NEW b \in Buckets
      PROVE  /\ b.iter \in Nat \ {0} /\ b.src \in ActorRanks /\ b.src \in Nat
             /\ b = [iter |-> b.iter, src |-> b.src]
  <2>0. PICK a \in ActorRanks :
              \E i \in DOMAIN global_buckets[a] : b = [iter |-> i, src |-> a]
    BY BucketsAre
  <2>1. PICK i \in DOMAIN global_buckets[a] : b = [iter |-> i, src |-> a]
    BY <2>0
  <2>2. i \in Nat \ {0}
    BY <1>2, <2>1
  <2>3. a \in Nat
    BY DEF Numbers, ActorRanks
  <2> QED
    BY <2>1, <2>2, <2>3
<1>4. FirstBucket \in Buckets
  <2>1. 0 \in ActorRanks
    BY DEF Numbers, ActorRanks
  <2>2. 1 \in DOMAIN global_buckets[0]
    BY <1>2, <2>1
  <2> QED
    BY <2>1, <2>2, BucketsAre DEF FirstBucket
<1> QED
  BY <1>3, <1>4

LEMMA BucketOrder ==
    ASSUME Numbers, PlanInv, NEW b \in Buckets, NEW c \in Buckets
    PROVE  /\ b = c \/ Before(b, c) \/ Before(c, b)
           /\ ~Before(b, b)
           /\ Before(b, c) => ~Before(c, b)
           /\ ~Before(b, FirstBucket)
PROOF
<1>1. /\ b.iter \in Nat \ {0} /\ b.src \in Nat /\ b = [iter |-> b.iter, src |-> b.src]
      /\ c.iter \in Nat \ {0} /\ c.src \in Nat /\ c = [iter |-> c.iter, src |-> c.src]
  BY BucketNames
<1>2. b.iter = c.iter /\ b.src = c.src => b = c
  BY <1>1
<1>3. FirstBucket.iter = 1 /\ FirstBucket.src = 0
  BY DEF FirstBucket
<1> QED
  BY <1>1, <1>2, <1>3 DEF Before

\* One bucket follows another, and nothing lies between them.
LEMMA OneFollows ==
    ASSUME Numbers, PlanInv, NEW b \in Buckets, NEW c \in Buckets, Follows(c, b)
    PROVE  /\ \A d \in Buckets : Follows(d, b) => d = c
           /\ ~IsLast(b)
           /\ \A d \in Buckets : Before(d, c) => d = b \/ Before(d, b)
PROOF
<1>1. Before(b, c) /\ \A d \in Buckets : Before(d, c) => d = b \/ Before(d, b)
  BY DEF Follows
<1>2. ASSUME NEW d \in Buckets, Follows(d, b) PROVE d = c
  <2>1. Before(b, d) /\ \A e \in Buckets : Before(e, d) => e = b \/ Before(e, b)
    BY <1>2 DEF Follows
  <2>2. ~Before(d, c)
    BY <1>1, <2>1, BucketOrder
  <2>3. ~Before(c, d)
    BY <1>1, <2>1, BucketOrder
  <2> QED
    BY <2>2, <2>3, BucketOrder
<1>3. ~IsLast(b)
  BY <1>1 DEF IsLast
<1> QED
  BY <1>1, <1>2, <1>3

LEMMA LastIsLast ==
    ASSUME Numbers, PlanInv, NEW b \in Buckets, IsLast(b)
    PROVE  \A c \in Buckets : c = b \/ Before(c, b)
PROOF
  BY BucketOrder DEF IsLast

\* A content is determined by the one before it.
LEMMA OneAfter ==
    ASSUME Numbers, PlanInv, NEW c \in Contents, NEW d \in Contents, NEW e \in Contents,
           BucketIn(c) \in Buckets, BucketIn(d) \in Buckets, BucketIn(e) \in Buckets,
           After(d, c), After(e, c)
    PROVE  d = e
PROOF
<1>1. BucketIn(d) = BucketIn(e) /\ d.value = e.value
  <2>1. CASE d.value = c.value /\ Follows(BucketIn(d), BucketIn(c))
    <3>1. ~IsLast(BucketIn(c))
      BY <2>1, OneFollows
    <3>2. e.value = c.value /\ Follows(BucketIn(e), BucketIn(c))
      BY <3>1 DEF After
    <3> QED
      BY <2>1, <3>2, OneFollows
  <2>2. CASE d.value = c.value + 1 /\ IsLast(BucketIn(c)) /\ BucketIn(d) = FirstBucket
    <3>1. ~Follows(BucketIn(e), BucketIn(c))
      BY <2>2, OneFollows
    <3> QED
      BY <2>2, <3>1 DEF After
  <2> QED
    BY <2>1, <2>2 DEF After
<1>2. d.iter = e.iter /\ d.src = e.src
  BY <1>1 DEF BucketIn
<1> QED
  BY <1>1, <1>2 DEF Contents

LEMMA OfIsContent ==
    ASSUME Numbers, PlanInv, NEW b \in Buckets, NEW s \in 0..MaxSyncs
    PROVE  /\ Of(b, s) \in Contents /\ BucketIn(Of(b, s)) = b
           /\ Of(b, s).value = s /\ Of(b, s).src = b.src /\ Of(b, s).iter = b.iter
           /\ Of(b, s) # NoBucket
           /\ \A p : Holds(Of(b, s), p) <=> Holds(b, p)
PROOF
<1>1. b.iter \in Nat \ {0} /\ b.src \in Nat /\ b = [iter |-> b.iter, src |-> b.src]
  BY BucketNames
<1>2. Of(b, s).value = s /\ Of(b, s).src = b.src /\ Of(b, s).iter = b.iter
  BY DEF Of
<1>3. Of(b, s) \in Contents /\ BucketIn(Of(b, s)) = b
  BY <1>1 DEF Of, Contents, BucketIn
<1>4. Of(b, s) # NoBucket
  BY <1>1, <1>2 DEF NoBucket
<1>5. \A p : Holds(Of(b, s), p) <=> Holds(b, p)
  BY <1>2 DEF Holds, Metas
<1> QED
  BY <1>2, <1>3, <1>4, <1>5

-----------------------------------------------------------------------------
(* What a step of a rank leaves alone *)

\* The buckets are as they were.
SamePlan ==
    /\ overlap' = overlap /\ assigned' = assigned
    /\ Buckets' = Buckets
    /\ \A b : Metas(b)' = Metas(b)
    /\ \A b, p : Holds(b, p)' <=> Holds(b, p)
    /\ \A b, c : Follows(b, c)' <=> Follows(b, c)
    /\ \A b : IsLast(b)' <=> IsLast(b)
    /\ \A b, c : After(b, c)' <=> After(b, c)

LEMMA PlanStays ==
    ASSUME UNCHANGED plan
    PROVE  SamePlan /\ (PlanInv => PlanInv')
PROOF
<1>1. /\ weights_info' = weights_info /\ overlap' = overlap /\ assigned' = assigned
      /\ global_buckets' = global_buckets
  BY DEF plan
<1>2. Buckets' = Buckets
  BY <1>1 DEF Buckets
<1>3. \A b : Metas(b)' = Metas(b) /\ BucketOf(b)' = BucketOf(b)
  BY <1>1 DEF Metas, BucketOf
<1>4. \A b, p : Holds(b, p)' <=> Holds(b, p)
  BY <1>3 DEF Holds
<1>5. \A b, c : Follows(b, c)' <=> Follows(b, c)
  BY <1>2 DEF Follows, Before
<1>6. \A b : IsLast(b)' <=> IsLast(b)
  BY <1>2 DEF IsLast, Before
<1>7. \A b, c : After(b, c)' <=> After(b, c)
  BY <1>5, <1>6 DEF After, BucketIn, FirstBucket
<1>8. \A bucket, a : LaidOut(bucket, a)' <=> LaidOut(bucket, a)
  BY <1>1 DEF LaidOut, BucketSize, CachedBy
<1>9. PlanInv => PlanInv'
  BY <1>1, <1>2, <1>3, <1>4, <1>8 DEF PlanInv
<1> QED
  BY <1>1, <1>2, <1>3, <1>4, <1>5, <1>6, <1>7, <1>9 DEF SamePlan

\* The broadcasts made so far stay, and what is added is not of rank q.
SentGrows(q) ==
    /\ Len(sent') >= Len(sent)
    /\ \A n \in 1..Len(sent) : sent'[n] = sent[n]
    /\ \A n \in 1..Len(sent') : n > Len(sent) => sent'[n].src # q

\* The state of rank q is as it was.
SameRank(q) ==
    /\ sync'[q] = sync[q] /\ main'[q] = main[q] /\ turn'[q] = turn[q] /\ gidx'[q] = gidx[q]
    /\ joined'[q] = joined[q] /\ memory_buffers'[q] = memory_buffers[q]
    /\ broadcast_load_buffer'[q] = broadcast_load_buffer[q]
    /\ request'[q] = request[q] /\ reply'[q] = reply[q] /\ loader'[q] = loader[q]
    /\ q \in RolloutRanks => loaded'[q] = loaded[q]
    /\ q \in ActorRanks => h2d_buffer'[q] = h2d_buffer[q]

LEMMA PlaceStays ==
    ASSUME NEW q \in Ranks, Typed, SamePlan, SentGrows(q),
           sync'[q] = sync[q], main'[q] = main[q], turn'[q] = turn[q], joined'[q] = joined[q],
           Len(sent') \in Nat, PlaceInv(q)
    PROVE  PlaceInv(q)'
PROOF
<1>1. joined[q] \in Nat /\ Len(sent) \in Nat
  BY DEF Typed
<1>2. joined[q] <= Len(sent)
  BY DEF PlaceInv
<1>3. joined[q] # 0 => sent'[joined[q]] = sent[joined[q]]
  BY <1>1, <1>2 DEF SentGrows
<1>4. joined'[q] <= Len(sent')
  BY <1>1, <1>2 DEF SentGrows
<1>5. ASSUME NEW n \in 1..Len(sent'), sent'[n].src = q
      PROVE  n <= joined'[q]
  <2>1. n \in 1..Len(sent)
    BY <1>1, <1>5 DEF SentGrows
  <2>2. sent[n].src = q
    BY <1>5, <2>1 DEF SentGrows
  <2> QED
    BY <2>1, <2>2 DEF PlaceInv
<1>6. Done(q)' = Done(q)
  BY DEF Done
<1>7. (main[q] # "idle" => sync[q] # 0)'
  BY DEF PlaceInv
<1>8. (main[q] \in {"copy", "broadcast"} =>
        IF joined[q] = 0 THEN Of(turn[q], sync[q]) = Of(FirstBucket, 1)
        ELSE After(Of(turn[q], sync[q]), sent[joined[q]]))'
  <2>1. PICK o : o = Of(turn[q], sync[q])
    OBVIOUS
  <2>2. Of(turn[q], sync[q])' = o /\ (Of(FirstBucket, 1) = Of(FirstBucket, 1)')
    BY <2>1 DEF Of, FirstBucket
  <2>3. main[q] \in {"copy", "broadcast"} =>
          IF joined[q] = 0 THEN o = Of(FirstBucket, 1) ELSE After(o, sent[joined[q]])
    BY <2>1 DEF PlaceInv
  <2>4. \A b, c : After(b, c)' <=> After(b, c)
    BY DEF SamePlan
  <2> QED
    BY <1>3, <2>2, <2>3, <2>4
<1>9. (main[q] \in {"load", "ack", "barrier"} =>
        joined[q] # 0 /\ sent[joined[q]] = Of(turn[q], sync[q]))'
  <2>1. Of(turn[q], sync[q])' = Of(turn[q], sync[q])
    BY DEF Of
  <2> QED
    BY <1>3, <2>1 DEF PlaceInv
<1>10. (main[q] \in {"last_ack", "join", "finish", "leaving", "idle", "registered"} =>
        IF Done(q) = 0 THEN joined[q] = 0
        ELSE joined[q] # 0 /\ sent[joined[q]] = Of(turn[q], Done(q)) /\ IsLast(turn[q]))'
  <2>1. Of(turn[q], Done(q))' = Of(turn[q], Done(q))
    BY <1>6 DEF Of
  <2>2. IsLast(turn[q])' <=> IsLast(turn[q])
    BY DEF SamePlan
  <2> QED
    BY <1>3, <1>6, <2>1, <2>2 DEF PlaceInv
<1> QED
  BY <1>4, <1>5, <1>7, <1>8, <1>9, <1>10 DEF PlaceInv

LEMMA CopyStays ==
    ASSUME NEW q \in Ranks, SamePlan, CopyInv(q),
           sync'[q] = sync[q], main'[q] = main[q], turn'[q] = turn[q],
           memory_buffers'[q] = memory_buffers[q], h2d_buffer'[q] = h2d_buffer[q]
    PROVE  CopyInv(q)'
PROOF
<1>1. Buckets' = Buckets
  BY DEF SamePlan
<1>2. \A m : Of(m, sync[q])' = Of(m, sync[q])
  BY DEF Of
<1> QED
  BY <1>1, <1>2 DEF CopyInv, Of

LEMMA LoadedStays ==
    ASSUME NEW q \in Ranks, SamePlan, sync'[q] = sync[q],
           q \in RolloutRanks => loaded'[q] = loaded[q]
    PROVE  /\ \A b : Loaded(q, b)' <=> Loaded(q, b)
           /\ \A b : LoadedBefore(q, b)' <=> LoadedBefore(q, b)
           /\ LoadedAll(q)' <=> LoadedAll(q)
PROOF
<1>1. \A b : Loaded(q, b)' <=> Loaded(q, b)
  BY DEF Loaded, SamePlan
<1>2. \A b, c : Before(b, c)' <=> Before(b, c)
  BY DEF Before
<1>3. \A b : LoadedBefore(q, b)' <=> LoadedBefore(q, b)
  BY <1>1, <1>2 DEF LoadedBefore, SamePlan
<1>4. LoadedAll(q)' <=> LoadedAll(q)
  BY <1>1 DEF LoadedAll, SamePlan
<1> QED
  BY <1>1, <1>3, <1>4

LEMMA ConsumedStays ==
    ASSUME NEW q \in Ranks, SamePlan, NEW b, NEW h, Consumed(q, b, h),
           sync'[q] = sync[q], q \in RolloutRanks => loaded'[q] = loaded[q],
           broadcast_load_buffer'[q][h] = broadcast_load_buffer[q][h],
           request'[q] = request[q], reply'[q] = reply[q], loader'[q] = loader[q]
    PROVE  Consumed(q, b, h)'
PROOF
<1>1. /\ \A c : Loaded(q, c)' <=> Loaded(q, c)
      /\ \A c : LoadedBefore(q, c)' <=> LoadedBefore(q, c)
  BY LoadedStays
<1>2. LoadedBefore(q, b)' /\ (broadcast_load_buffer[q][h] = Of(b, sync[q]))'
  BY <1>1 DEF Consumed, Of
<1>3. CASE /\ request[q] = [kind |-> "metas", metas |-> Metas(b), half |-> h]
           /\ ~reply[q] /\ loader[q].state = "ready"
  <2>1. Metas(b)' = Metas(b)
    BY DEF SamePlan
  <2> QED
    BY <1>2, <1>3, <2>1 DEF Consumed
<1>4. CASE /\ request[q] = Nothing /\ ~reply[q]
           /\ loader[q].state = "load" /\ loader[q].half = h
           /\ \A i \in 1..Len(loader[q].todo) : Holds(b, loader[q].todo[i].name)
           /\ q \in RolloutRanks =>
              \A p \in Params : Holds(b, p) =>
                loaded[q][p] = sync[q] \/ \E i \in 1..Len(loader[q].todo) : loader[q].todo[i].name = p
  <2>1. \A p : Holds(b, p)' <=> Holds(b, p)
    BY DEF SamePlan
  <2>2. (\A i \in 1..Len(loader[q].todo) : Holds(b, loader[q].todo[i].name))'
    BY <1>4, <2>1
  <2>3. (q \in RolloutRanks =>
              \A p \in Params : Holds(b, p) =>
                loaded[q][p] = sync[q] \/ \E i \in 1..Len(loader[q].todo) : loader[q].todo[i].name = p)'
    BY <1>4, <2>1
  <2>4. (request[q] = Nothing /\ ~reply[q] /\ loader[q].state = "load" /\ loader[q].half = h)'
    BY <1>4 DEF Nothing
  <2> QED
    BY <1>2, <2>2, <2>3, <2>4 DEF Consumed
<1>5. CASE request[q] = Nothing /\ reply[q] /\ loader[q].state = "ready" /\ Loaded(q, b)
  BY <1>1, <1>2, <1>5 DEF Consumed, Nothing
<1> QED
  BY <1>3, <1>4, <1>5 DEF Consumed

LEMMA ThreadStays ==
    ASSUME NEW q, request'[q] = request[q], reply'[q] = reply[q], loader'[q] = loader[q]
    PROVE  /\ \A s : Quiet(q, s)' <=> Quiet(q, s)
           /\ Greeted(q)' <=> Greeted(q)
           /\ Dismissed(q)' <=> Dismissed(q)
PROOF
  BY DEF Quiet, Greeted, Dismissed, Nothing

LEMMA OverlapStays ==
    ASSUME NEW q \in Ranks, SamePlan, SameRank(q), OverlapInv(q)
    PROVE  OverlapInv(q)'
PROOF
<1>1. /\ main'[q] = main[q] /\ gidx'[q] = gidx[q] /\ turn'[q] = turn[q]
      /\ broadcast_load_buffer'[q] = broadcast_load_buffer[q]
      /\ Buckets' = Buckets /\ \A b, c : Follows(b, c)' <=> Follows(b, c)
  BY DEF SamePlan, SameRank
<1>2. /\ \A s : Quiet(q, s)' <=> Quiet(q, s)
      /\ Greeted(q)' <=> Greeted(q)
      /\ Dismissed(q)' <=> Dismissed(q)
  BY ThreadStays DEF SameRank
<1>3. \A b, h : Consumed(q, b, h) => Consumed(q, b, h)'
  BY ConsumedStays DEF SameRank
<1>4. /\ \A b : LoadedBefore(q, b)' <=> LoadedBefore(q, b)
      /\ LoadedAll(q)' <=> LoadedAll(q)
  BY LoadedStays DEF SameRank
<1>5. Of(turn[q], sync[q])' = Of(turn[q], sync[q])
  BY DEF Of, SameRank
<1>6. (main[q] \in {"copy", "broadcast", "ack"} =>
        IF gidx[q] = 0 THEN turn[q] = FirstBucket /\ Greeted(q)
        ELSE \E b \in Buckets : Follows(turn[q], b) /\ Consumed(q, b, (gidx[q] - 1) % 2))'
  <2> SUFFICES ASSUME main[q] \in {"copy", "broadcast", "ack"}
               PROVE  (IF gidx[q] = 0 THEN turn[q] = FirstBucket /\ Greeted(q)
                       ELSE \E b \in Buckets :
                              Follows(turn[q], b) /\ Consumed(q, b, (gidx[q] - 1) % 2))'
    BY <1>1
  <2>1. CASE gidx[q] = 0
    BY <1>1, <1>2, <2>1 DEF OverlapInv, FirstBucket
  <2>2. CASE gidx[q] # 0
    <3>1. PICK b \in Buckets : Follows(turn[q], b) /\ Consumed(q, b, (gidx[q] - 1) % 2)
      BY <2>2 DEF OverlapInv
    <3>2. PICK h : h = (gidx[q] - 1) % 2
      OBVIOUS
    <3>3. Consumed(q, b, h)'
      BY <1>3, <3>1, <3>2
    <3>4. h = ((gidx[q] - 1) % 2)'
      BY <1>1, <3>2
    <3>5. Consumed(q, b, (gidx[q] - 1) % 2)'
      BY <3>3, <3>4
    <3>6. Follows(turn[q], b)'
      BY <1>1, <3>1
    <3> QED
      BY <1>1, <2>2, <3>5, <3>6
  <2> QED
    BY <2>1, <2>2
<1>7. (main[q] \in {"ack", "barrier"} =>
        broadcast_load_buffer[q][gidx[q] % 2] = Of(turn[q], sync[q]))'
  BY <1>1, <1>5 DEF OverlapInv
<1>8. (main[q] = "barrier" => Quiet(q, "ready") /\ LoadedBefore(q, turn[q]))'
  BY <1>1, <1>2, <1>4 DEF OverlapInv
<1>9. (main[q] = "last_ack" => gidx[q] # 0 /\ Consumed(q, turn[q], (gidx[q] - 1) % 2))'
  <2> SUFFICES ASSUME main[q] = "last_ack"
               PROVE  (gidx[q] # 0 /\ Consumed(q, turn[q], (gidx[q] - 1) % 2))'
    BY <1>1
  <2>1. PICK h : h = (gidx[q] - 1) % 2
    OBVIOUS
  <2>2. PICK t : t = turn[q]
    OBVIOUS
  <2>3. gidx[q] # 0 /\ Consumed(q, t, h)
    BY <2>1, <2>2 DEF OverlapInv
  <2>4. Consumed(q, t, h)'
    BY <1>3, <2>3
  <2>5. t = turn'[q] /\ h = ((gidx[q] - 1) % 2)'
    BY <1>1, <2>1, <2>2
  <2> QED
    BY <1>1, <2>3, <2>4, <2>5
<1>10. (main[q] = "join" => Dismissed(q) /\ LoadedAll(q))'
  BY <1>1, <1>2, <1>4 DEF OverlapInv
<1>11. (main[q] \in {"idle", "registered", "finish", "leaving"} => Quiet(q, "none"))'
  BY <1>1, <1>2 DEF OverlapInv
<1>12. main'[q] # "load"
  BY <1>1 DEF OverlapInv
<1> QED
  BY <1>6, <1>7, <1>8, <1>9, <1>10, <1>11, <1>12 DEF OverlapInv

LEMMA LoadStays ==
    ASSUME NEW q \in Ranks, SamePlan, SameRank(q), LoadInv(q)
    PROVE  LoadInv(q)'
PROOF
<1>1. main'[q] = main[q] /\ sync'[q] = sync[q] /\ overlap' = overlap
  BY DEF SameRank, SamePlan
<1>2. LoadedAll(q)' <=> LoadedAll(q)
  BY LoadedStays DEF SameRank
<1>3. ASSUME PlainInv(q)
      PROVE  PlainInv(q)'
  <2>1. \A s : Quiet(q, s)' <=> Quiet(q, s)
    BY ThreadStays DEF SameRank
  <2>2. \A b : LoadedBefore(q, b)' <=> LoadedBefore(q, b)
    BY LoadedStays DEF SameRank
  <2>3. Of(turn[q], sync[q])' = Of(turn[q], sync[q])
    BY DEF Of, SameRank
  <2>4. turn'[q] = turn[q] /\ broadcast_load_buffer'[q] = broadcast_load_buffer[q]
    BY DEF SameRank
  <2> QED
    BY <1>1, <1>3, <2>1, <2>2, <2>3, <2>4 DEF PlainInv
<1> QED
  BY <1>1, <1>2, <1>3, OverlapStays DEF LoadInv

LEMMA RankStays ==
    ASSUME NEW q \in Ranks, Typed, Typed', SamePlan, SameRank(q), SentGrows(q), RankInv(q)
    PROVE  RankInv(q)'
PROOF
<1>1. Len(sent') \in Nat
  BY DEF Typed
<1>2. PlaceInv(q)'
  BY <1>1, PlaceStays DEF RankInv, SameRank
<1>3. LoadInv(q)'
  BY LoadStays DEF RankInv
<1>4. q \in ActorRanks => CopyInv(q)'
  BY CopyStays DEF RankInv, SameRank
<1> QED
  BY <1>2, <1>3, <1>4 DEF RankInv

\* What a step of rank r does.
RankStep(r) ==
    /\ UNCHANGED plan
    /\ \A q \in Ranks \ {r} : SameRank(q) /\ SentGrows(q)
    /\ Typed' /\ SentInv' /\ RankInv(r)'

LEMMA StepKeeps ==
    ASSUME IInv, assigned = ParamNum, NEW r \in Ranks, RankStep(r)
    PROVE  IInv'
PROOF
<1>1. SamePlan /\ PlanInv'
  BY PlanStays DEF RankStep, IInv
<1>2. assigned' = assigned
  BY <1>1 DEF SamePlan
<1>3. ASSUME NEW q \in Ranks PROVE RankInv(q)'
  <2>1. CASE q = r
    BY <2>1 DEF RankStep
  <2>2. CASE q # r
    BY <1>1, <2>2, RankStays DEF RankStep, IInv
  <2> QED
    BY <2>1, <2>2
<1> QED
  BY <1>1, <1>2, <1>3 DEF IInv, RankStep

-----------------------------------------------------------------------------
(* Rank r is at a place *)

\* A rank that is not idle, or whose thread runs, has a complete plan.
LEMMA PlanComplete ==
    ASSUME IInv, NEW r \in Ranks, main[r] # "idle" \/ loader[r].state # "none"
    PROVE  assigned = ParamNum
PROOF
  BY DEF IInv, Untouched, Quiet

\* The step appends nothing.
LEMMA SentSame ==
    ASSUME IInv, SamePlan, sent' = sent
    PROVE  SentInv' /\ \A q \in Ranks : SentGrows(q)
PROOF
<1>1. SentInv /\ Len(sent) \in Nat
  BY DEF IInv, Typed
<1>2. Buckets' = Buckets /\ \A b, c : After(b, c)' <=> After(b, c)
  BY DEF SamePlan
<1>3. \A n \in 1..Len(sent) : BucketIn(sent[n])' = BucketIn(sent[n])
  BY DEF BucketIn
<1>4. SentInv'
  BY <1>1, <1>2, <1>3 DEF SentInv, Of, FirstBucket
<1>5. \A q \in Ranks : SentGrows(q)
  BY <1>1 DEF SentGrows
<1> QED
  BY <1>4, <1>5

-----------------------------------------------------------------------------
(* Types *)

LEMMA MetasTyped ==
    ASSUME PlanInv, NEW b \in Buckets
    PROVE  Metas(b) \in Seq(TensorMetas)
PROOF
<1>1. PICK a \in ActorRanks : \E i \in DOMAIN global_buckets[a] : b = [iter |-> i, src |-> a]
  BY BucketsAre
<1>2. PICK i \in DOMAIN global_buckets[a] : b = [iter |-> i, src |-> a]
  BY <1>1
<1>3. global_buckets[a] \in Seq(BucketRecords)
  BY DEF PlanInv
<1>4. global_buckets[a][i] \in BucketRecords
  BY <1>3
<1> QED
  BY <1>2, <1>4 DEF Metas, BucketRecords

\* The tensors the thread is asked to load.
LEMMA RequestTyped ==
    ASSUME IInv, NEW r \in Ranks, loader[r].state = "ready", request[r] # Nothing,
           request[r].kind # "hello", request[r].kind # "done"
    PROVE  request[r].metas \in Seq(TensorMetas) /\ request[r].half \in {0, 1}
PROOF
<1>1. OverlapInv(r) /\ main[r] \in MainPlaces
  BY DEF IInv, RankInv, LoadInv, PlainInv, Quiet, Typed
<1>2. gidx[r] \in Nat /\ turn[r] \in Buckets /\ PlanInv
  BY DEF IInv, Typed
<1>3. (gidx[r] - 1) % 2 \in {0, 1} \/ gidx[r] = 0
  BY <1>2
<1>4. \A b \in Buckets, h \in {0, 1} : Consumed(r, b, h) =>
        request[r].metas \in Seq(TensorMetas) /\ request[r].half \in {0, 1}
  <2> TAKE b \in Buckets, h \in {0, 1}
  <2> HAVE Consumed(r, b, h)
  <2>1. request[r] = [kind |-> "metas", metas |-> Metas(b), half |-> h]
    BY DEF Consumed
  <2>2. Metas(b) \in Seq(TensorMetas)
    BY <1>2, MetasTyped
  <2> QED
    BY <2>1, <2>2
<1>5. ~Greeted(r) /\ ~Dismissed(r)
  BY DEF Greeted, Dismissed
<1>6. CASE main[r] \in {"copy", "broadcast", "ack"}
  BY <1>1, <1>2, <1>3, <1>4, <1>5, <1>6 DEF OverlapInv
<1>7. CASE main[r] = "last_ack"
  BY <1>1, <1>2, <1>3, <1>4, <1>7 DEF OverlapInv
<1>8. CASE main[r] \in {"barrier", "join", "idle", "registered", "finish", "leaving"}
  BY <1>1, <1>5, <1>8 DEF OverlapInv, Quiet
<1> QED
  BY <1>1, <1>6, <1>7, <1>8 DEF OverlapInv, MainPlaces

LEMMA ValueTyped ==
    ASSUME Numbers, Typed, NEW r \in Ranks, NEW h \in {0, 1}, NEW p
    PROVE  ValueIn(r, h, p) \in 0..MaxSyncs
PROOF
<1>1. broadcast_load_buffer[r][h] \in Contents
  BY DEF Typed
<1>2. broadcast_load_buffer[r][h].value \in 0..MaxSyncs /\ 0 \in 0..MaxSyncs
  BY <1>1 DEF Contents, Numbers
<1> QED
  BY <1>2 DEF ValueIn

LEMMA NoBucketTyped == ASSUME Numbers PROVE NoBucket \in Contents /\ 0 \in 0..MaxSyncs
PROOF
  BY DEF Numbers, NoBucket, Contents

LEMMA StartIsHalf ==
    ASSUME NEW k \in Nat
    PROVE  Start(k) \in {0, 1}
PROOF
  BY DEF Start

\* Advance moves the place of rank r only.
LEMMA AdvanceTyped ==
    ASSUME Typed, UNCHANGED plan, NEW r \in Ranks, Advance(r)
    PROVE  /\ (turn \in [Ranks -> Buckets])' /\ gidx' \in [Ranks -> Nat]
           /\ main' \in [Ranks -> MainPlaces]
           /\ gidx'[r] = gidx[r] + 1
           /\ \A q \in Ranks \ {r} : gidx'[q] = gidx[q] /\ turn'[q] = turn[q] /\ main'[q] = main[q]
           /\ \/ \E b \in Buckets : /\ Follows(b, turn[r]) /\ turn'[r] = b
                                    /\ main'[r] = IF b.iter = turn[r].iter THEN "broadcast" ELSE "copy"
              \/ /\ IsLast(turn[r]) /\ turn'[r] = turn[r]
                 /\ main'[r] = IF overlap THEN "last_ack" ELSE "finish"
PROOF
<1>1. /\ turn \in [Ranks -> Buckets] /\ gidx \in [Ranks -> Nat] /\ main \in [Ranks -> MainPlaces]
  BY DEF Typed
<1>2. gidx' \in [Ranks -> Nat] /\ gidx'[r] = gidx[r] + 1 /\ \A q \in Ranks \ {r} : gidx'[q] = gidx[q]
  <2>1. gidx' = [gidx EXCEPT ![r] = gidx[r] + 1] /\ gidx[r] + 1 \in Nat
    BY <1>1 DEF Advance
  <2> QED
    BY <1>1, <2>1
<1>3. Buckets' = Buckets
  BY PlanStays DEF SamePlan
<1>4. CASE \E b \in Buckets :
            /\ Follows(b, turn[r])
            /\ turn' = [turn EXCEPT ![r] = b]
            /\ main' = [main EXCEPT ![r] =
                            IF b.iter = turn[r].iter THEN "broadcast" ELSE "copy"]
  <2>1. PICK b \in Buckets :
            /\ Follows(b, turn[r])
            /\ turn' = [turn EXCEPT ![r] = b]
            /\ main' = [main EXCEPT ![r] =
                            IF b.iter = turn[r].iter THEN "broadcast" ELSE "copy"]
    BY <1>4
  <2>2. turn' \in [Ranks -> Buckets] /\ turn'[r] = b /\ \A q \in Ranks \ {r} : turn'[q] = turn[q]
    BY <1>1, <2>1
  <2>3. "broadcast" \in MainPlaces /\ "copy" \in MainPlaces
    BY DEF MainPlaces
  <2>4. /\ main' \in [Ranks -> MainPlaces]
        /\ main'[r] = (IF b.iter = turn[r].iter THEN "broadcast" ELSE "copy")
        /\ \A q \in Ranks \ {r} : main'[q] = main[q]
    BY <1>1, <2>1, <2>3
  <2> QED
    BY <1>2, <1>3, <2>1, <2>2, <2>4
<1>5. CASE /\ IsLast(turn[r])
           /\ main' = [main EXCEPT ![r] = IF overlap THEN "last_ack" ELSE "finish"]
           /\ UNCHANGED turn
  <2>1. "last_ack" \in MainPlaces /\ "finish" \in MainPlaces
    BY DEF MainPlaces
  <2>2. /\ main' \in [Ranks -> MainPlaces]
        /\ main'[r] = (IF overlap THEN "last_ack" ELSE "finish")
        /\ \A q \in Ranks \ {r} : main'[q] = main[q]
    BY <1>1, <1>5, <2>1
  <2> QED
    BY <1>1, <1>2, <1>3, <1>5, <2>2
<1> QED
  BY <1>4, <1>5 DEF Advance

\* What the rest of Typed is about.
RestTypes ==
    /\ sync \in [Ranks -> 0..MaxSyncs]
    /\ joined \in [Ranks -> Nat]
    /\ memory_buffers \in [Ranks -> 0..MaxSyncs]
    /\ h2d_buffer \in [ActorRanks -> Contents]
    /\ broadcast_load_buffer \in [Ranks -> [{0, 1} -> Contents]]
    /\ sent \in Seq(Contents)
    /\ request = [q \in Ranks |-> request[q]]
    /\ reply \in [Ranks -> BOOLEAN]
    /\ loader \in [Ranks -> [state : {"none", "ready", "load"}, todo : Seq(TensorMetas),
                             half : {0, 1}]]
    /\ loaded \in [RolloutRanks -> [Params -> 0..MaxSyncs]]

LEMMA TypesAre ==
    Typed <=> /\ RestTypes
                 /\ turn \in [Ranks -> Buckets] /\ gidx \in [Ranks -> Nat]
                 /\ main \in [Ranks -> MainPlaces]
PROOF
  BY DEF Typed, RestTypes

LEMMA RegisterTyped ==
    ASSUME Numbers, IInv, NEW r \in Ranks, RegisterCheckpoint(r)
    PROVE  Typed' /\ \A q \in Ranks \ {r} : SameRank(q)
PROOF
<1>1. Typed /\ RestTypes
  BY TypesAre DEF IInv
<1>2. Buckets' = Buckets
  BY PlanStays DEF RegisterCheckpoint, SamePlan
<1>3. sync' = [sync EXCEPT ![r] = sync[r] + 1] /\ sync[r] + 1 \in 0..MaxSyncs
      /\ memory_buffers' = [memory_buffers EXCEPT ![r] = IF r \in ActorRanks THEN sync[r] + 1 ELSE 0]
  BY <1>1 DEF RegisterCheckpoint, RestTypes, Numbers
<1>4. main' = [main EXCEPT ![r] = "registered"] /\ "registered" \in MainPlaces /\ 0 \in 0..MaxSyncs
  BY NoBucketTyped DEF RegisterCheckpoint, MainPlaces
<1>5. sync' \in [Ranks -> 0..MaxSyncs] /\ memory_buffers' \in [Ranks -> 0..MaxSyncs]
      /\ main' \in [Ranks -> MainPlaces]
  BY <1>1, <1>3, <1>4 DEF Typed
<1>6. Typed'
  BY <1>1, <1>2, <1>5 DEF RegisterCheckpoint, Typed
<1>7. \A q \in Ranks \ {r} : SameRank(q)
  BY <1>1, <1>3, <1>4 DEF RegisterCheckpoint, SameRank, Typed
<1> QED
  BY <1>6, <1>7

LEMMA BeginTyped ==
    ASSUME Numbers, IInv, NEW r \in Ranks, BeginUpdate(r)
    PROVE  Typed' /\ \A q \in Ranks \ {r} : SameRank(q)
PROOF
<1>1. Typed /\ FirstBucket \in Buckets
  BY BucketNames DEF IInv
<1>2. Buckets' = Buckets
  BY PlanStays DEF BeginUpdate, SamePlan
<1>3. gidx' \in [Ranks -> Nat] /\ turn' \in [Ranks -> Buckets]
      /\ gidx'[r] = 0 /\ turn'[r] = FirstBucket
      /\ \A q \in Ranks \ {r} : gidx'[q] = gidx[q] /\ turn'[q] = turn[q]
  BY <1>1 DEF BeginUpdate, Typed
<1>4. NoBucket \in Contents /\ "copy" \in MainPlaces
  BY NoBucketTyped DEF MainPlaces
<1>5. /\ broadcast_load_buffer' \in [Ranks -> [{0, 1} -> Contents]]
      /\ h2d_buffer' \in [ActorRanks -> Contents]
      /\ main' \in [Ranks -> MainPlaces]
      /\ \A q \in Ranks \ {r} : /\ broadcast_load_buffer'[q] = broadcast_load_buffer[q]
                                /\ main'[q] = main[q]
                                /\ q \in ActorRanks => h2d_buffer'[q] = h2d_buffer[q]
  BY <1>1, <1>4 DEF BeginUpdate, Typed
<1>6. /\ (loader \in [Ranks -> [state : {"none", "ready", "load"}, todo : Seq(TensorMetas),
                             half : {0, 1}]])'
      /\ \A q \in Ranks \ {r} : loader'[q] = loader[q] /\ request'[q] = request[q]
      /\ request' = [q \in Ranks |-> request'[q]]
  <2>1. CASE overlap
    <3>1. loader' = [loader EXCEPT ![r].state = "ready"] /\ request' = [request EXCEPT ![r] = [kind |-> "hello"]]
      BY <2>1 DEF BeginUpdate
    <3>2. loader \in [Ranks -> [state : {"none", "ready", "load"}, todo : Seq(TensorMetas),
                             half : {0, 1}]]
      BY <1>1 DEF Typed
    <3> DEFINE one == [loader[r] EXCEPT !.state = "ready"]
               Loaders == [state : {"none", "ready", "load"}, todo : Seq(TensorMetas), half : {0, 1}]
    <3>3. one \in Loaders
      <4>1. loader[r] \in Loaders
        BY <3>2
      <4> QED
        BY <4>1
    <3>4. loader' = [loader EXCEPT ![r] = one]
      BY <3>1
    <3> HIDE DEF one, Loaders
    <3>5. loader \in [Ranks -> Loaders]
      BY <3>2 DEF Loaders
    <3>6. loader' \in [Ranks -> Loaders] /\ \A q \in Ranks \ {r} : loader'[q] = loader[q]
      BY <3>3, <3>4, <3>5
    <3>7. request = [q \in Ranks |-> request[q]]
      BY <1>1 DEF Typed
    <3>8. \A q \in Ranks \ {r} : request'[q] = request[q]
      BY <3>1, <3>7
    <3>9. request' = [q \in Ranks |-> request'[q]]
      BY <3>1, <3>7
    <3> QED
      BY <3>6, <3>8, <3>9 DEF Loaders
  <2>2. CASE ~overlap
    BY <1>1, <2>2 DEF BeginUpdate, Typed
  <2> QED
    BY <2>1, <2>2
<1>7. Typed'
  BY <1>1, <1>2, <1>3, <1>5, <1>6 DEF BeginUpdate, Typed
<1>8. \A q \in Ranks \ {r} : SameRank(q)
  BY <1>1, <1>3, <1>5, <1>6 DEF BeginUpdate, SameRank
<1> QED
  BY <1>7, <1>8

LEMMA CopyTyped ==
    ASSUME Numbers, IInv, NEW r \in Ranks, CopyToDevice(r)
    PROVE  Typed' /\ \A q \in Ranks \ {r} : SameRank(q)
PROOF
<1> DEFINE mine == [iter |-> turn[r].iter, src |-> r]
           content == [iter |-> turn[r].iter, src |-> r, value |-> memory_buffers[r]]
<1>1. Typed /\ PlanInv /\ "broadcast" \in MainPlaces
  BY DEF IInv, MainPlaces
<1>2. Buckets' = Buckets
  BY PlanStays DEF CopyToDevice, SamePlan
<1>3. main' \in [Ranks -> MainPlaces] /\ \A q \in Ranks \ {r} : main'[q] = main[q]
  BY <1>1 DEF CopyToDevice, Typed
<1>4. h2d_buffer' \in [ActorRanks -> Contents]
      /\ \A q \in ActorRanks \ {r} : h2d_buffer'[q] = h2d_buffer[q]
  <2>1. CASE mine \in Buckets
    <3>1. h2d_buffer' = [h2d_buffer EXCEPT ![r] = content]
      BY <2>1 DEF CopyToDevice
    <3>2. turn[r].iter \in Nat /\ r \in Nat /\ memory_buffers[r] \in 0..MaxSyncs
      BY <1>1, <2>1, BucketNames DEF Typed
    <3>3. content \in Contents
      BY <3>2 DEF Contents
    <3> HIDE DEF content
    <3> QED
      BY <1>1, <3>1, <3>3 DEF Typed
  <2>2. CASE mine \notin Buckets
    BY <1>1, <2>2 DEF CopyToDevice, Typed
  <2> QED
    BY <2>1, <2>2
<1>5. Typed'
  BY <1>1, <1>2, <1>3, <1>4 DEF CopyToDevice, Typed
<1>6. \A q \in Ranks \ {r} : SameRank(q)
  BY <1>3, <1>4 DEF CopyToDevice, SameRank
<1> QED
  BY <1>5, <1>6

\* The steps of the main thread that move no data.
LEMMA AckTyped ==
    ASSUME Numbers, IInv, NEW r \in Ranks, UNCHANGED plan,
           UNCHANGED <<sync, turn, gidx, joined, h2d_buffer, broadcast_load_buffer, sent,
                       loader, loaded>>,
           NEW m \in MainPlaces, main' = [main EXCEPT ![r] = m],
           reply' = reply \/ reply' = [reply EXCEPT ![r] = FALSE],
           memory_buffers' = memory_buffers \/ memory_buffers' = [memory_buffers EXCEPT ![r] = 0],
           request' = request \/ request' = [request EXCEPT ![r] = [kind |-> "done"]]
    PROVE  Typed' /\ \A q \in Ranks \ {r} : SameRank(q)
PROOF
<1>1. Typed /\ 0 \in 0..MaxSyncs
  BY NoBucketTyped DEF IInv
<1>2. Buckets' = Buckets
  BY PlanStays DEF SamePlan
<1>3. main' \in [Ranks -> MainPlaces] /\ \A q \in Ranks \ {r} : main'[q] = main[q]
  BY <1>1 DEF Typed
<1>4. reply' \in [Ranks -> BOOLEAN] /\ \A q \in Ranks \ {r} : reply'[q] = reply[q]
  BY <1>1 DEF Typed
<1>5. memory_buffers' \in [Ranks -> 0..MaxSyncs]
      /\ \A q \in Ranks \ {r} : memory_buffers'[q] = memory_buffers[q]
  BY <1>1 DEF Typed
<1>6. request' = [q \in Ranks |-> request'[q]] /\ \A q \in Ranks \ {r} : request'[q] = request[q]
  <2>1. request = [q \in Ranks |-> request[q]]
    BY <1>1 DEF Typed
  <2> QED
    BY <2>1
<1>7. Typed'
  BY <1>1, <1>2, <1>3, <1>4, <1>5, <1>6 DEF Typed
<1> QED
  BY <1>3, <1>4, <1>5, <1>6, <1>7 DEF SameRank

LEMMA LoadInPlaceTyped ==
    ASSUME Numbers, IInv, NEW r \in Ranks, LoadInPlace(r)
    PROVE  Typed' /\ \A q \in Ranks \ {r} : SameRank(q)
PROOF
<1>1. Typed /\ UNCHANGED plan /\ Advance(r)
  BY DEF IInv, LoadInPlace
<1>2. /\ (turn \in [Ranks -> Buckets])' /\ gidx' \in [Ranks -> Nat] /\ main' \in [Ranks -> MainPlaces]
      /\ \A q \in Ranks \ {r} : gidx'[q] = gidx[q] /\ turn'[q] = turn[q] /\ main'[q] = main[q]
  BY <1>1, AdvanceTyped
<1>3. \A p : ValueIn(r, 0, p) \in 0..MaxSyncs
  BY <1>1, ValueTyped
<1>4. loaded' = [q \in RolloutRanks |-> [p \in Params |->
                    IF q = r /\ Holds(turn[r], p) THEN ValueIn(r, 0, p) ELSE loaded[q][p]]]
  BY DEF LoadInPlace
<1>5. loaded \in [RolloutRanks -> [Params -> 0..MaxSyncs]]
  BY <1>1 DEF Typed
<1>6. loaded' \in [RolloutRanks -> [Params -> 0..MaxSyncs]]
  BY <1>3, <1>4, <1>5
<1>7. \A q \in RolloutRanks \ {r} : loaded'[q] = loaded[q]
  <2> TAKE q \in RolloutRanks \ {r}
  <2>1. loaded'[q] = [p \in Params |-> loaded[q][p]]
    BY <1>4
  <2>2. loaded[q] \in [Params -> 0..MaxSyncs]
    BY <1>5
  <2> QED
    BY <2>1, <2>2
<1>8. Typed'
  BY <1>1, <1>2, <1>6 DEF LoadInPlace, Typed
<1> QED
  BY <1>2, <1>7, <1>8 DEF LoadInPlace, SameRank

LEMMA SendMetasTyped ==
    ASSUME IInv, NEW r \in Ranks, SendMetas(r)
    PROVE  Typed' /\ \A q \in Ranks \ {r} : SameRank(q)
PROOF
<1>1. Typed /\ UNCHANGED plan /\ Advance(r)
  BY DEF IInv, SendMetas
<1>2. /\ (turn \in [Ranks -> Buckets])' /\ gidx' \in [Ranks -> Nat] /\ main' \in [Ranks -> MainPlaces]
      /\ \A q \in Ranks \ {r} : gidx'[q] = gidx[q] /\ turn'[q] = turn[q] /\ main'[q] = main[q]
  BY <1>1, AdvanceTyped
<1>3. request' = [q \in Ranks |-> request'[q]] /\ \A q \in Ranks \ {r} : request'[q] = request[q]
  <2>1. request = [q \in Ranks |-> request[q]]
    BY <1>1 DEF Typed
  <2> DEFINE new == [kind |-> "metas", metas |-> Metas(turn[r]), half |-> Start(gidx[r])]
  <2>2. request' = [request EXCEPT ![r] = new]
    BY DEF SendMetas
  <2> HIDE DEF new
  <2> QED
    BY <2>1, <2>2
<1>4. Typed'
  BY <1>1, <1>2, <1>3 DEF SendMetas, Typed
<1> QED
  BY <1>2, <1>3, <1>4 DEF SendMetas, SameRank

LoaderStates == [state : {"none", "ready", "load"}, todo : Seq(TensorMetas), half : {0, 1}]

\* The steps of the thread.
LEMMA LoaderTyped ==
    ASSUME IInv, NEW r \in Ranks, UNCHANGED plan,
           UNCHANGED <<sync, main, turn, gidx, joined, memory_buffers, h2d_buffer,
                       broadcast_load_buffer, sent>>,
           request' = request \/ request' = [request EXCEPT ![r] = Nothing],
           reply' = reply \/ reply' = [reply EXCEPT ![r] = TRUE],
           NEW new \in LoaderStates, loader' = [loader EXCEPT ![r] = new],
           loaded' \in [RolloutRanks -> [Params -> 0..MaxSyncs]],
           \A q \in RolloutRanks \ {r} : loaded'[q] = loaded[q]
    PROVE  Typed' /\ loader'[r] = new /\ \A q \in Ranks \ {r} : SameRank(q)
PROOF
<1>1. Typed
  BY DEF IInv
<1>2. Buckets' = Buckets
  BY PlanStays DEF SamePlan
<1>3. request' = [q \in Ranks |-> request'[q]] /\ \A q \in Ranks \ {r} : request'[q] = request[q]
  <2>1. request = [q \in Ranks |-> request[q]]
    BY <1>1 DEF Typed
  <2> QED
    BY <2>1
<1>4. reply' \in [Ranks -> BOOLEAN] /\ \A q \in Ranks \ {r} : reply'[q] = reply[q]
  BY <1>1 DEF Typed
<1>5. /\ loader' \in [Ranks -> LoaderStates] /\ loader'[r] = new
      /\ \A q \in Ranks \ {r} : loader'[q] = loader[q]
  <2>1. loader \in [Ranks -> LoaderStates]
    BY <1>1 DEF Typed, LoaderStates
  <2> QED
    BY <2>1
<1>6. Typed'
  BY <1>1, <1>2, <1>3, <1>4, <1>5 DEF Typed, LoaderStates
<1> QED
  BY <1>3, <1>4, <1>5, <1>6 DEF SameRank

LEMMA ReceiveTyped ==
    ASSUME IInv, NEW r \in Ranks, ReceiveRequest(r)
    PROVE  Typed' /\ \A q \in Ranks \ {r} : SameRank(q)
PROOF
<1> DEFINE one == IF request[r].kind = "hello" THEN loader[r]
                  ELSE IF request[r].kind = "done" THEN [loader[r] EXCEPT !.state = "none"]
                  ELSE [state |-> "load", todo |-> request[r].metas, half |-> request[r].half]
<1>1. Typed /\ loader[r] \in LoaderStates
  BY DEF IInv, Typed, LoaderStates
<1>2. one \in LoaderStates
  <2>1. CASE request[r].kind = "hello"
    BY <1>1, <2>1
  <2>2. CASE request[r].kind # "hello" /\ request[r].kind = "done"
    BY <1>1, <2>2 DEF LoaderStates
  <2>3. CASE request[r].kind # "hello" /\ request[r].kind # "done"
    <3>1. request[r].metas \in Seq(TensorMetas) /\ request[r].half \in {0, 1}
      BY <2>3, RequestTyped DEF ReceiveRequest
    <3> QED
      BY <2>3, <3>1 DEF LoaderStates
  <2> QED
    BY <2>1, <2>2, <2>3
<1>3. loader' = [loader EXCEPT ![r] = one]
      /\ (reply' = reply \/ reply' = [reply EXCEPT ![r] = TRUE])
  <2>0. loader = [loader EXCEPT ![r] = loader[r]]
    BY <1>1 DEF Typed
  <2>1. CASE request[r].kind = "hello"
    BY <2>0, <2>1 DEF ReceiveRequest
  <2>2. CASE request[r].kind # "hello" /\ request[r].kind = "done"
    BY <2>2 DEF ReceiveRequest
  <2>3. CASE request[r].kind # "hello" /\ request[r].kind # "done"
    BY <2>3 DEF ReceiveRequest
  <2> QED
    BY <2>1, <2>2, <2>3
<1> HIDE DEF one
<1>4. loaded' \in [RolloutRanks -> [Params -> 0..MaxSyncs]] /\ loaded' = loaded
  BY <1>1 DEF ReceiveRequest, Typed
<1> QED
  BY <1>2, <1>3, <1>4, LoaderTyped DEF ReceiveRequest

LEMMA LoadTensorTyped ==
    ASSUME Numbers, IInv, NEW r \in Ranks, LoadTensor(r)
    PROVE  /\ Typed' /\ \A q \in Ranks \ {r} : SameRank(q)
           /\ loader'[r] = [loader[r] EXCEPT !.todo = Tail(loader[r].todo)]
           /\ r \in RolloutRanks =>
                loaded'[r] = [loaded[r] EXCEPT ![Head(loader[r].todo).name] =
                                ValueIn(r, loader[r].half, Head(loader[r].todo).name)]
PROOF
<1> DEFINE one == [loader[r] EXCEPT !.todo = Tail(loader[r].todo)]
           p == Head(loader[r].todo).name
           v == ValueIn(r, loader[r].half, p)
<1>1. Typed /\ loader[r] \in LoaderStates
  BY DEF IInv, Typed, LoaderStates
<1>2. loader[r].todo \in Seq(TensorMetas) /\ loader[r].todo # <<>> /\ loader[r].half \in {0, 1}
  BY <1>1 DEF LoaderStates, LoadTensor
<1>3. Tail(loader[r].todo) \in Seq(TensorMetas) /\ Head(loader[r].todo) \in TensorMetas
  BY <1>2
<1>4. one \in LoaderStates
  BY <1>1, <1>3 DEF LoaderStates
<1>5. loader' = [loader EXCEPT ![r] = one]
  BY DEF LoadTensor
<1>6. v \in 0..MaxSyncs
  BY <1>1, <1>2, ValueTyped
<1>7. loaded' = [q \in RolloutRanks |-> IF q = r THEN [loaded[q] EXCEPT ![p] = v] ELSE loaded[q]]
  BY DEF LoadTensor
<1>8. loaded \in [RolloutRanks -> [Params -> 0..MaxSyncs]]
  BY <1>1 DEF Typed
<1> HIDE DEF one, p, v
<1>9. \A q \in RolloutRanks : loaded'[q] \in [Params -> 0..MaxSyncs]
  BY <1>6, <1>7, <1>8
<1>10. loaded' \in [RolloutRanks -> [Params -> 0..MaxSyncs]]
       /\ \A q \in RolloutRanks \ {r} : loaded'[q] = loaded[q]
  BY <1>7, <1>9
<1>11. Typed' /\ loader'[r] = one /\ \A q \in Ranks \ {r} : SameRank(q)
  BY <1>4, <1>5, <1>10, LoaderTyped DEF LoadTensor
<1>12. r \in RolloutRanks => loaded'[r] = [loaded[r] EXCEPT ![p] = v]
  BY <1>7
<1> QED
  BY <1>11, <1>12 DEF one, p, v

LEMMA AnswerTyped ==
    ASSUME IInv, NEW r \in Ranks, AnswerLoaded(r)
    PROVE  /\ Typed' /\ \A q \in Ranks \ {r} : SameRank(q)
           /\ loader'[r] = [loader[r] EXCEPT !.state = "ready"]
PROOF
<1> DEFINE one == [loader[r] EXCEPT !.state = "ready"]
<1>1. Typed /\ loader[r] \in LoaderStates
  BY DEF IInv, Typed, LoaderStates
<1>2. one \in LoaderStates
  BY <1>1 DEF LoaderStates
<1>3. loader' = [loader EXCEPT ![r] = one]
  BY DEF AnswerLoaded
<1> HIDE DEF one
<1>4. loaded' \in [RolloutRanks -> [Params -> 0..MaxSyncs]] /\ loaded' = loaded
  BY <1>1 DEF AnswerLoaded, Typed
<1>5. Typed' /\ loader'[r] = one /\ \A q \in Ranks \ {r} : SameRank(q)
  BY <1>2, <1>3, <1>4, LoaderTyped DEF AnswerLoaded
<1> QED
  BY <1>5 DEF one

\* What is known of rank r.
LEMMA RankFacts ==
    ASSUME Numbers, IInv, NEW r \in Ranks
    PROVE  /\ sync[r] \in 0..MaxSyncs /\ sync[r] \in Nat /\ main[r] \in MainPlaces /\ turn[r] \in Buckets
           /\ gidx[r] \in Nat /\ joined[r] \in Nat /\ Len(sent) \in Nat
           /\ PlaceInv(r) /\ LoadInv(r) /\ (r \in ActorRanks => CopyInv(r))
           /\ PlanInv /\ Typed /\ SentInv
PROOF
<1>1. Typed
  BY DEF IInv
<1>2. /\ sync[r] \in 0..MaxSyncs /\ main[r] \in MainPlaces /\ turn[r] \in Buckets
      /\ gidx[r] \in Nat /\ joined[r] \in Nat /\ Len(sent) \in Nat
  BY <1>1 DEF Typed
<1>3. sync[r] \in Nat
  BY <1>2 DEF Numbers
<1> QED
  BY <1>1, <1>2, <1>3 DEF IInv, RankInv

LEMMA RegisterStep ==
    ASSUME Numbers, IInv, NEW r \in Ranks, RegisterCheckpoint(r)
    PROVE  RankStep(r)
PROOF
<1>1. Typed' /\ \A q \in Ranks \ {r} : SameRank(q)
  BY RegisterTyped
<1>2. UNCHANGED plan /\ SamePlan /\ sent' = sent
  BY PlanStays DEF RegisterCheckpoint
<1>3. SentInv' /\ \A q \in Ranks : SentGrows(q)
  BY <1>2, SentSame
<1>4. /\ sync[r] \in Nat /\ joined[r] \in Nat /\ PlaceInv(r) /\ LoadInv(r)
      /\ main[r] = "idle"
  BY RankFacts DEF RegisterCheckpoint
<1>5. /\ main'[r] = "registered" /\ sync'[r] = sync[r] + 1
      /\ memory_buffers'[r] = (IF r \in ActorRanks THEN sync[r] + 1 ELSE 0)
  BY RankFacts DEF RegisterCheckpoint, Typed
<1>6. PlaceInv(r)'
  <2>1. Done(r)' = sync[r] /\ Done(r) = sync[r]
    BY <1>4, <1>5 DEF Done
  <2>2. joined'[r] = joined[r] /\ turn' = turn
    BY DEF RegisterCheckpoint
  <2>3. IsLast(turn[r])' <=> IsLast(turn[r])
    BY <1>2, <2>2 DEF SamePlan
  <2>4. Of(turn[r], Done(r))' = Of(turn[r], Done(r))
    BY <2>1, <2>2 DEF Of
  <2>5. IF Done(r) = 0 THEN joined[r] = 0
        ELSE joined[r] # 0 /\ sent[joined[r]] = Of(turn[r], Done(r)) /\ IsLast(turn[r])
    BY <1>4 DEF PlaceInv
  <2>6. (IF Done(r) = 0 THEN joined[r] = 0
        ELSE joined[r] # 0 /\ sent[joined[r]] = Of(turn[r], Done(r)) /\ IsLast(turn[r]))'
    BY <1>2, <2>1, <2>2, <2>3, <2>4, <2>5
  <2>7. joined'[r] <= Len(sent') /\ \A n \in 1..Len(sent') : sent'[n].src = r => n <= joined'[r]
    BY <1>2, <1>4, <2>2 DEF PlaceInv
  <2>8. sync'[r] # 0
    BY <1>4, <1>5
  <2> QED
    BY <1>5, <2>6, <2>7, <2>8 DEF PlaceInv
<1>7. LoadInv(r)'
  <2>1. Quiet(r, "none")
    BY <1>4 DEF LoadInv, OverlapInv, PlainInv
  <2>2. Quiet(r, "none")'
    BY <2>1 DEF RegisterCheckpoint, Quiet, Nothing
  <2> QED
    BY <1>5, <2>2 DEF LoadInv, OverlapInv, PlainInv
<1>8. r \in ActorRanks => CopyInv(r)'
  BY <1>5 DEF CopyInv
<1> QED
  BY <1>1, <1>2, <1>3, <1>6, <1>7, <1>8 DEF RankStep, RankInv

LEMMA BeginStep ==
    ASSUME Numbers, IInv, NEW r \in Ranks, BeginUpdate(r)
    PROVE  RankStep(r)
PROOF
<1>1. Typed' /\ \A q \in Ranks \ {r} : SameRank(q)
  BY BeginTyped
<1>2. UNCHANGED plan /\ SamePlan /\ sent' = sent
  BY PlanStays DEF BeginUpdate
<1>3. SentInv' /\ \A q \in Ranks : SentGrows(q)
  BY <1>2, SentSame
<1>4. /\ sync[r] \in Nat /\ joined[r] \in Nat /\ PlaceInv(r) /\ LoadInv(r) /\ PlanInv
      /\ (r \in ActorRanks => CopyInv(r)) /\ turn[r] \in Buckets /\ sync[r] \in 0..MaxSyncs
      /\ main[r] = "registered" /\ sync[r] # 0
  <2>1. main[r] = "registered"
    BY DEF BeginUpdate
  <2> QED
    BY <2>1, RankFacts DEF PlaceInv
<1>5. /\ main'[r] = "copy" /\ turn'[r] = FirstBucket /\ gidx'[r] = 0
      /\ sync' = sync /\ joined' = joined /\ memory_buffers' = memory_buffers /\ reply' = reply
  BY RankFacts DEF BeginUpdate, Typed
<1>6. FirstBucket' = FirstBucket /\ FirstBucket \in Buckets
  BY <1>4, BucketNames DEF FirstBucket
<1>7. PlaceInv(r)'
  <2>1. Done(r) = sync[r] - 1
    BY <1>4 DEF Done
  <2>2. IF Done(r) = 0 THEN joined[r] = 0
        ELSE joined[r] # 0 /\ sent[joined[r]] = Of(turn[r], Done(r)) /\ IsLast(turn[r])
    BY <1>4 DEF PlaceInv
  <2>3. PICK o : o = Of(FirstBucket, sync[r])
    OBVIOUS
  <2>4. Of(turn[r], sync[r])' = o
    BY <1>5, <2>3 DEF Of
  <2>5. joined[r] = 0 => o = Of(FirstBucket, 1)
    BY <1>4, <2>1, <2>2, <2>3
  <2>6. ASSUME joined[r] # 0 PROVE After(o, sent[joined[r]])
    <3>1. Done(r) # 0 /\ sent[joined[r]] = Of(turn[r], Done(r)) /\ IsLast(turn[r])
      BY <2>2, <2>6
    <3>2. Done(r) \in 0..MaxSyncs /\ Done(r) + 1 = sync[r]
      BY <1>4, <2>1 DEF Numbers
    <3>3. BucketIn(sent[joined[r]]) = turn[r] /\ sent[joined[r]].value = Done(r)
      BY <1>4, <3>1, <3>2, OfIsContent
    <3>4. BucketIn(o) = FirstBucket /\ o.value = sync[r]
      BY <1>4, <1>6, <2>3, OfIsContent
    <3> QED
      BY <3>1, <3>2, <3>3, <3>4 DEF After
  <2>7. Of(FirstBucket, 1)' = Of(FirstBucket, 1)
    BY DEF Of, FirstBucket
  <2>8. joined[r] # 0 => After(o, sent[joined[r]])'
    BY <1>2, <1>5, <2>6 DEF SamePlan
  <2>9. (IF joined[r] = 0 THEN Of(turn[r], sync[r]) = Of(FirstBucket, 1)
        ELSE After(Of(turn[r], sync[r]), sent[joined[r]]))'
    BY <1>2, <1>5, <2>4, <2>5, <2>7, <2>8
  <2>10. joined'[r] <= Len(sent') /\ \A n \in 1..Len(sent') : sent'[n].src = r => n <= joined'[r]
    BY <1>2, <1>4, <1>5 DEF PlaceInv
  <2> QED
    BY <1>4, <1>5, <2>9, <2>10 DEF PlaceInv
<1>8. LoadInv(r)'
  <2>1. Quiet(r, "none")
    BY <1>4 DEF LoadInv, OverlapInv, PlainInv
  <2>2. CASE overlap
    <3>1. loader' = [loader EXCEPT ![r].state = "ready"] /\ request' = [request EXCEPT ![r] = [kind |-> "hello"]]
      BY <2>2 DEF BeginUpdate
    <3>2. loader'[r].state = "ready" /\ request'[r] = [kind |-> "hello"]
      <4>1. loader \in [Ranks -> LoaderStates] /\ request = [q \in Ranks |-> request[q]]
        BY RankFacts DEF Typed, LoaderStates
      <4>2. loader[r] \in LoaderStates /\ loader'[r] = [loader[r] EXCEPT !.state = "ready"]
        BY <3>1, <4>1
      <4>3. request'[r] = [kind |-> "hello"]
        BY <3>1, <4>1
      <4> QED
        BY <4>2, <4>3 DEF LoaderStates
    <3>3. Greeted(r)'
      BY <1>5, <2>1, <3>2 DEF Greeted, Quiet
    <3>4. OverlapInv(r)'
      BY <1>5, <1>6, <3>3 DEF OverlapInv
    <3>5. overlap'
      BY <1>2, <2>2 DEF SamePlan
    <3> QED
      BY <1>5, <3>4, <3>5 DEF LoadInv
  <2>3. CASE ~overlap
    <3>1. loader' = loader /\ request' = request
      BY <2>3 DEF BeginUpdate
    <3>2. Quiet(r, "none")'
      BY <1>5, <2>1, <3>1 DEF Quiet, Nothing
    <3>3. \A c \in Buckets : ~Before(c, FirstBucket)
      BY <1>4, BucketOrder
    <3>4. LoadedBefore(r, turn[r])'
      <4>1. \A c \in Buckets' : ~Before(c, turn[r])'
        BY <1>2, <1>5, <3>3 DEF SamePlan, Before
      <4> QED
        BY <4>1 DEF LoadedBefore
    <3>5. PlainInv(r)'
      BY <1>5, <3>2, <3>4 DEF PlainInv
    <3>6. ~overlap'
      BY <1>2, <2>3 DEF SamePlan
    <3> QED
      BY <1>5, <3>5, <3>6 DEF LoadInv
  <2> QED
    BY <2>2, <2>3
<1>9. r \in ActorRanks => CopyInv(r)'
  BY <1>4, <1>5 DEF CopyInv
<1> QED
  BY <1>1, <1>2, <1>3, <1>7, <1>8, <1>9 DEF RankStep, RankInv

LEMMA CopyStep ==
    ASSUME Numbers, IInv, NEW r \in Ranks, CopyToDevice(r)
    PROVE  RankStep(r)
PROOF
<1>1. Typed' /\ \A q \in Ranks \ {r} : SameRank(q)
  BY CopyTyped
<1>2. UNCHANGED plan /\ SamePlan /\ sent' = sent
  BY PlanStays DEF CopyToDevice
<1>3. SentInv' /\ \A q \in Ranks : SentGrows(q)
  BY <1>2, SentSame
<1>4. /\ joined[r] \in Nat /\ PlaceInv(r) /\ LoadInv(r) /\ (r \in ActorRanks => CopyInv(r))
      /\ main[r] = "copy" /\ Len(sent) \in Nat /\ PlanInv
  BY RankFacts DEF CopyToDevice
<1>5. /\ main'[r] = "broadcast" /\ turn' = turn /\ gidx' = gidx
      /\ sync' = sync /\ joined' = joined /\ memory_buffers' = memory_buffers /\ reply' = reply
      /\ request' = request /\ loader' = loader /\ loaded' = loaded
      /\ broadcast_load_buffer' = broadcast_load_buffer
  BY RankFacts DEF CopyToDevice, Typed
<1>7. PlaceInv(r)'
  <2>1. PICK o : o = Of(turn[r], sync[r])
    OBVIOUS
  <2>2. Of(turn[r], sync[r])' = o /\ Of(FirstBucket, 1)' = Of(FirstBucket, 1)
    BY <1>5, <2>1 DEF Of, FirstBucket
  <2>3. IF joined[r] = 0 THEN o = Of(FirstBucket, 1) ELSE After(o, sent[joined[r]])
    BY <1>4, <2>1 DEF PlaceInv
  <2>4. (IF joined[r] = 0 THEN Of(turn[r], sync[r]) = Of(FirstBucket, 1)
        ELSE After(Of(turn[r], sync[r]), sent[joined[r]]))'
    BY <1>2, <1>5, <2>2, <2>3 DEF SamePlan
  <2>5. joined'[r] <= Len(sent') /\ \A n \in 1..Len(sent') : sent'[n].src = r => n <= joined'[r]
    BY <1>2, <1>4, <1>5 DEF PlaceInv
  <2>6. sync'[r] # 0
    BY <1>4, <1>5 DEF PlaceInv
  <2> QED
    BY <1>5, <2>4, <2>5, <2>6 DEF PlaceInv
<1>8. LoadInv(r)'
  <2>1. \A b : LoadedBefore(r, b)' <=> LoadedBefore(r, b)
    BY <1>2, <1>5, LoadedStays
  <2>2. (\A s : Quiet(r, s)' <=> Quiet(r, s)) /\ (Greeted(r)' <=> Greeted(r))
    BY <1>5, ThreadStays
  <2>3. CASE overlap
    <3>1. OverlapInv(r) /\ overlap'
      BY <1>2, <1>4, <2>3 DEF LoadInv, SamePlan
    <3>2. (IF gidx[r] = 0 THEN turn[r] = FirstBucket /\ Greeted(r)
           ELSE \E b \in Buckets : Follows(turn[r], b) /\ Consumed(r, b, (gidx[r] - 1) % 2))'
      <4>1. CASE gidx[r] = 0
        BY <1>4, <1>5, <2>2, <3>1, <4>1 DEF OverlapInv, FirstBucket
      <4>2. CASE gidx[r] # 0
        <5>1. PICK b \in Buckets : Follows(turn[r], b) /\ Consumed(r, b, (gidx[r] - 1) % 2)
          BY <1>4, <3>1, <4>2 DEF OverlapInv
        <5>2. PICK h : h = (gidx[r] - 1) % 2
          OBVIOUS
        <5>3. Consumed(r, b, h)
          BY <5>1, <5>2
        <5>4. Consumed(r, b, h)'
          BY <1>2, <1>5, <5>3, ConsumedStays
        <5>5. h = ((gidx[r] - 1) % 2)' /\ Follows(turn[r], b)' /\ b \in Buckets'
          BY <1>2, <1>5, <5>1, <5>2 DEF SamePlan
        <5> QED
          BY <1>5, <4>2, <5>4, <5>5
      <4> QED
        BY <4>1, <4>2
    <3>3. OverlapInv(r)'
      BY <1>5, <3>2 DEF OverlapInv
    <3> QED
      BY <1>5, <3>1, <3>3 DEF LoadInv
  <2>4. CASE ~overlap
    <3>1. PlainInv(r) /\ ~overlap'
      BY <1>2, <1>4, <2>4 DEF LoadInv, SamePlan
    <3>2. Quiet(r, "none")' /\ LoadedBefore(r, turn[r])'
      BY <1>4, <1>5, <2>1, <2>2, <3>1 DEF PlainInv
    <3>3. PlainInv(r)'
      BY <1>5, <3>2 DEF PlainInv
    <3> QED
      BY <1>5, <3>1, <3>3 DEF LoadInv
  <2> QED
    BY <2>3, <2>4
<1>9. ASSUME r \in ActorRanks PROVE CopyInv(r)'
  <2> DEFINE mine == [iter |-> turn[r].iter, src |-> r]
  <2>1. memory_buffers[r] = sync[r]
    BY <1>4, <1>9 DEF CopyInv
  <2>2. ASSUME mine \in Buckets PROVE h2d_buffer'[r] = Of(mine, sync[r])
    <3>1. h2d_buffer' = [h2d_buffer EXCEPT ![r] =
                            [iter |-> turn[r].iter, src |-> r, value |-> memory_buffers[r]]]
      BY <2>2 DEF CopyToDevice
    <3>2. h2d_buffer'[r] = [iter |-> turn[r].iter, src |-> r, value |-> memory_buffers[r]]
      BY <1>9, <3>1, RankFacts DEF Typed
    <3> QED
      BY <2>1, <3>2 DEF Of
  <2>3. Buckets' = Buckets
    BY <1>2 DEF SamePlan
  <2> QED
    BY <1>5, <2>1, <2>2, <2>3 DEF CopyInv, Of
<1> QED
  BY <1>1, <1>2, <1>3, <1>7, <1>8, <1>9 DEF RankStep, RankInv

\* What rank r is about to broadcast comes next in the sequence.
LEMMA NextContent ==
    ASSUME Numbers, IInv, NEW r \in Ranks, main[r] = "broadcast"
    PROVE  /\ joined[r] < Len(sent) => sent[joined[r] + 1] = Of(turn[r], sync[r])
           /\ turn[r].src = r => /\ joined[r] = Len(sent) /\ r \in ActorRanks
                                 /\ h2d_buffer[r] = Of(turn[r], sync[r])
           /\ joined[r] # 0 => After(Of(turn[r], sync[r]), sent[joined[r]])
           /\ joined[r] = 0 => Of(turn[r], sync[r]) = Of(FirstBucket, 1)
PROOF
<1> DEFINE o == Of(turn[r], sync[r])
           k == joined[r]
<1>1. /\ sync[r] \in 0..MaxSyncs /\ turn[r] \in Buckets /\ k \in Nat /\ Len(sent) \in Nat
      /\ PlaceInv(r) /\ (r \in ActorRanks => CopyInv(r)) /\ PlanInv /\ Typed /\ SentInv
  BY RankFacts
<1>2. o \in Contents /\ BucketIn(o) = turn[r] /\ o.src = turn[r].src
  BY <1>1, OfIsContent
<1>3. IF k = 0 THEN o = Of(FirstBucket, 1) ELSE After(o, sent[k])
  BY <1>1 DEF PlaceInv
<1> HIDE DEF o
<1>4. ASSUME k < Len(sent) PROVE sent[k + 1] = o
  <2>1. CASE k = 0
    <3>1. sent # <<>>
      BY <1>4, <2>1
    <3> QED
      BY <1>1, <1>3, <2>1, <3>1 DEF SentInv
  <2>2. CASE k # 0
    <3>1. k \in 1..(Len(sent) - 1) /\ k \in 1..Len(sent) /\ k + 1 \in 1..Len(sent)
      BY <1>1, <1>4, <2>2
    <3>2. After(sent[k + 1], sent[k])
      BY <1>1, <3>1 DEF SentInv
    <3>3. sent[k] \in Contents /\ sent[k + 1] \in Contents
      BY <1>1, <3>1 DEF Typed
    <3>4. BucketIn(sent[k]) \in Buckets /\ BucketIn(sent[k + 1]) \in Buckets
      BY <1>1, <3>1 DEF SentInv
    <3>5. After(o, sent[k])
      BY <1>3, <2>2
    <3> QED
      BY <1>1, <1>2, <3>2, <3>3, <3>4, <3>5, OneAfter
  <2> QED
    BY <2>1, <2>2
<1>5. ASSUME turn[r].src = r
      PROVE  k = Len(sent) /\ r \in ActorRanks /\ h2d_buffer[r] = o
  <2>1. k = Len(sent)
    <3>1. ASSUME k < Len(sent) PROVE FALSE
      <4>1. sent[k + 1].src = r /\ k + 1 \in 1..Len(sent)
        BY <1>1, <1>2, <1>4, <1>5, <3>1
      <4>2. k + 1 <= k
        BY <1>1, <4>1 DEF PlaceInv
      <4> QED
        BY <1>1, <4>2
    <3>2. k <= Len(sent)
      BY <1>1 DEF PlaceInv
    <3> QED
      BY <1>1, <3>1, <3>2
  <2>2. r \in ActorRanks /\ turn[r] = [iter |-> turn[r].iter, src |-> r]
    BY <1>1, <1>5, BucketNames
  <2>3. h2d_buffer[r] = o
    <3>1. CopyInv(r)
      BY <1>1, <2>2
    <3> QED
      BY <1>1, <2>2, <3>1 DEF CopyInv, o
  <2> QED
    BY <2>1, <2>2, <2>3
<1> QED
  BY <1>3, <1>4, <1>5 DEF o

LEMMA BroadcastTyped ==
    ASSUME Numbers, IInv, NEW r \in Ranks, Broadcast(r), NEW o, o = Of(turn[r], sync[r])
    PROVE  /\ Typed' /\ \A q \in Ranks \ {r} : SameRank(q) /\ SentGrows(q)
           /\ SentInv'
           /\ joined'[r] = joined[r] + 1 /\ main'[r] = (IF overlap THEN "ack" ELSE "load")
           /\ joined[r] + 1 <= Len(sent') /\ sent'[joined[r] + 1] = o
           /\ \A n \in 1..Len(sent') : sent'[n].src = r => n <= joined[r] + 1
           /\ broadcast_load_buffer'[r] = [broadcast_load_buffer[r] EXCEPT ![Start(gidx[r])] = o]
PROOF
<1> DEFINE k == joined[r]
<1>1. /\ sync[r] \in 0..MaxSyncs /\ turn[r] \in Buckets /\ k \in Nat /\ Len(sent) \in Nat
      /\ gidx[r] \in Nat
      /\ PlaceInv(r) /\ (r \in ActorRanks => CopyInv(r)) /\ PlanInv /\ Typed /\ SentInv
  BY RankFacts
<1>2. main[r] = "broadcast" /\ UNCHANGED plan
  BY DEF Broadcast
<1>3. SamePlan /\ Buckets' = Buckets
  BY <1>2, PlanStays DEF SamePlan
<1>4. o \in Contents /\ BucketIn(o) = turn[r] /\ o.src = turn[r].src
  BY <1>1, OfIsContent
<1>5. k <= Len(sent) /\ \A n \in 1..Len(sent) : sent[n].src = r => n <= k
  BY <1>1 DEF PlaceInv
<1>6. /\ sent' \in Seq(Contents) /\ k + 1 <= Len(sent') /\ sent'[k + 1] = o
      /\ \A n \in 1..Len(sent') : sent'[n].src = r => n <= k + 1
      /\ SentInv'
      /\ \A q \in Ranks \ {r} : SentGrows(q)
  <2>1. CASE turn[r].src = r
    <3>1. k = Len(sent) /\ sent' = Append(sent, o)
      BY <1>2, <2>1, NextContent DEF Broadcast
    <3>2. sent \in Seq(Contents)
      BY <1>1 DEF Typed
    <3>3. /\ sent' \in Seq(Contents) /\ Len(sent') = k + 1 /\ sent'[k + 1] = o
          /\ \A n \in 1..k : sent'[n] = sent[n]
      BY <1>1, <1>4, <3>1, <3>2
    <3>4. SentInv'
      <4>1. \A n \in 1..Len(sent') : BucketIn(sent'[n]) \in Buckets
        <5> TAKE n \in 1..Len(sent')
        <5>1. CASE n = k + 1
          BY <1>1, <1>4, <3>3, <5>1
        <5>2. CASE n # k + 1
          <6>1. n \in 1..k /\ sent'[n] = sent[n]
            BY <1>1, <3>3, <5>2
          <6> QED
            BY <1>1, <3>1, <6>1 DEF SentInv
        <5> QED
          BY <5>1, <5>2
      <4>2. sent'[1] = Of(FirstBucket, 1)
        <5>1. CASE k = 0
          BY <1>2, <3>3, <5>1, NextContent
        <5>2. CASE k # 0
          <6>1. 1 \in 1..k /\ sent # <<>>
            BY <1>1, <3>1, <5>2
          <6> QED
            BY <1>1, <3>3, <6>1 DEF SentInv
        <5> QED
          BY <5>1, <5>2
      <4>3. \A n \in 1..(Len(sent') - 1) : After(sent'[n + 1], sent'[n])
        <5> TAKE n \in 1..(Len(sent') - 1)
        <5>1. CASE n = k
          <6>1. After(o, sent[k]) /\ k # 0
            BY <1>2, <5>1, NextContent
          <6> QED
            BY <1>1, <3>3, <5>1, <6>1
        <5>2. CASE n # k
          <6>1. n \in 1..(k - 1) /\ n \in 1..k /\ n + 1 \in 1..k
            BY <1>1, <3>3, <5>2
          <6>2. sent'[n] = sent[n] /\ sent'[n + 1] = sent[n + 1]
            BY <3>3, <6>1
          <6>3. After(sent[n + 1], sent[n])
            BY <1>1, <3>1, <6>1 DEF SentInv
          <6> QED
            BY <6>2, <6>3
        <5> QED
          BY <5>1, <5>2
      <4>4. \A n \in 1..Len(sent') : BucketIn(sent[n])' = BucketIn(sent'[n])
        BY DEF BucketIn
      <4>5. (\A n \in 1..(Len(sent) - 1) : After(sent[n + 1], sent[n]))'
        BY <1>3, <4>3 DEF SamePlan
      <4>6. Of(FirstBucket, 1)' = Of(FirstBucket, 1)
        BY DEF Of, FirstBucket
      <4>7. (\A n \in 1..Len(sent) : BucketIn(sent[n]) \in Buckets)'
        BY <1>3, <4>1, <4>4
      <4> QED
        BY <4>2, <4>5, <4>6, <4>7 DEF SentInv
    <3>5. \A n \in 1..Len(sent') : sent'[n].src = r => n <= k + 1
      BY <1>1, <3>3
    <3>6. \A q \in Ranks \ {r} : SentGrows(q)
      <4> TAKE q \in Ranks \ {r}
      <4>1. \A n \in 1..Len(sent') : n > Len(sent) => n = k + 1
        BY <1>1, <3>1, <3>3
      <4>2. o.src # q
        BY <1>4, <2>1
      <4>3. \A n \in 1..Len(sent') : n > Len(sent) => sent'[n].src # q
        BY <3>3, <4>1, <4>2
      <4>4. Len(sent') >= Len(sent) /\ \A n \in 1..Len(sent) : sent'[n] = sent[n]
        BY <1>1, <3>1, <3>3
      <4> QED
        BY <4>3, <4>4 DEF SentGrows
    <3> QED
      BY <1>1, <3>3, <3>4, <3>5, <3>6
  <2>2. CASE turn[r].src # r
    <3>1. k < Len(sent) /\ sent' = sent
      BY <2>2 DEF Broadcast
    <3>2. sent[k + 1] = o
      BY <1>2, <3>1, NextContent
    <3>3. SentInv' /\ \A q \in Ranks : SentGrows(q)
      BY <1>3, <3>1, SentSame
    <3>4. \A n \in 1..Len(sent) : sent[n].src = r => n <= k + 1
      BY <1>1, <1>5
    <3> QED
      BY <1>1, <3>1, <3>2, <3>3, <3>4 DEF Typed
  <2> QED
    BY <2>1, <2>2
<1>7. joined' \in [Ranks -> Nat] /\ joined'[r] = k + 1 /\ \A q \in Ranks \ {r} : joined'[q] = joined[q]
  <2>1. joined' = [joined EXCEPT ![r] = k + 1] /\ k + 1 \in Nat
    BY <1>1 DEF Broadcast
  <2> HIDE DEF k
  <2> QED
    BY <1>1, <2>1 DEF Typed
<1>8. main' \in [Ranks -> MainPlaces] /\ main'[r] = (IF overlap THEN "ack" ELSE "load")
      /\ \A q \in Ranks \ {r} : main'[q] = main[q]
  <2>1. "ack" \in MainPlaces /\ "load" \in MainPlaces
    BY DEF MainPlaces
  <2> QED
    BY <1>1, <2>1 DEF Broadcast, Typed
<1>9. /\ broadcast_load_buffer' \in [Ranks -> [{0, 1} -> Contents]]
      /\ broadcast_load_buffer'[r] = [broadcast_load_buffer[r] EXCEPT ![Start(gidx[r])] = o]
      /\ \A q \in Ranks \ {r} : broadcast_load_buffer'[q] = broadcast_load_buffer[q]
  <2> DEFINE h == Start(gidx[r])
             half == [broadcast_load_buffer[r] EXCEPT ![h] = o]
  <2>1. h \in {0, 1}
    BY <1>1, StartIsHalf
  <2>2. broadcast_load_buffer' = [broadcast_load_buffer EXCEPT ![r] = half]
    BY <1>6 DEF Broadcast
  <2> HIDE DEF h
  <2>3. broadcast_load_buffer \in [Ranks -> [{0, 1} -> Contents]]
    BY <1>1 DEF Typed
  <2>4. half \in [{0, 1} -> Contents]
    BY <1>4, <2>1, <2>3
  <2> HIDE DEF half
  <2>5. /\ broadcast_load_buffer' \in [Ranks -> [{0, 1} -> Contents]]
        /\ broadcast_load_buffer'[r] = half
        /\ \A q \in Ranks \ {r} : broadcast_load_buffer'[q] = broadcast_load_buffer[q]
    BY <2>2, <2>3, <2>4
  <2> QED
    BY <2>5 DEF half, h
<1>10. Typed'
  BY <1>1, <1>3, <1>6, <1>7, <1>8, <1>9 DEF Broadcast, Typed
<1>11. \A q \in Ranks \ {r} : SameRank(q)
  BY <1>7, <1>8, <1>9 DEF Broadcast, SameRank
<1> QED
  BY <1>6, <1>7, <1>8, <1>9, <1>10, <1>11

\* Two buckets in turn go to the two halves.
LEMMA HalvesDiffer ==
    ASSUME NEW k \in Nat, k # 0
    PROVE  k % 2 \in {0, 1} /\ (k - 1) % 2 \in {0, 1} /\ k % 2 # (k - 1) % 2
PROOF
  OBVIOUS

LEMMA BroadcastStep ==
    ASSUME Numbers, IInv, NEW r \in Ranks, Broadcast(r)
    PROVE  RankStep(r)
PROOF
<1>0. PICK o : o = Of(turn[r], sync[r])
  OBVIOUS
<1>1. /\ Typed' /\ \A q \in Ranks \ {r} : SameRank(q) /\ SentGrows(q)
      /\ SentInv'
      /\ joined'[r] = joined[r] + 1 /\ main'[r] = (IF overlap THEN "ack" ELSE "load")
      /\ joined[r] + 1 <= Len(sent') /\ sent'[joined[r] + 1] = o
      /\ \A n \in 1..Len(sent') : sent'[n].src = r => n <= joined[r] + 1
      /\ broadcast_load_buffer'[r] = [broadcast_load_buffer[r] EXCEPT ![Start(gidx[r])] = o]
  BY <1>0, BroadcastTyped
<1>2. UNCHANGED plan /\ SamePlan
  BY PlanStays DEF Broadcast
<1>3. /\ turn' = turn /\ gidx' = gidx /\ sync' = sync /\ memory_buffers' = memory_buffers
      /\ reply' = reply /\ request' = request /\ loader' = loader /\ loaded' = loaded
      /\ h2d_buffer' = h2d_buffer
  BY DEF Broadcast
<1>4. /\ joined[r] \in Nat /\ gidx[r] \in Nat /\ PlaceInv(r) /\ LoadInv(r)
      /\ (r \in ActorRanks => CopyInv(r)) /\ main[r] = "broadcast" /\ Typed
  BY RankFacts DEF Broadcast
<1>5. Of(turn[r], sync[r])' = o
  BY <1>0, <1>3 DEF Of
<1>6. PlaceInv(r)'
  <2>1. joined'[r] # 0 /\ sync'[r] # 0
    BY <1>1, <1>3, <1>4 DEF PlaceInv
  <2>2. (sent[joined[r]] = Of(turn[r], sync[r]))'
    BY <1>1, <1>5
  <2>3. main'[r] \in {"ack", "load"}
    BY <1>1
  <2>4. (joined[r] <= Len(sent) /\ \A n \in 1..Len(sent) : sent[n].src = r => n <= joined[r])'
    BY <1>1
  <2> QED
    BY <2>1, <2>2, <2>3, <2>4 DEF PlaceInv
<1>7. LoadInv(r)'
  <2>1. broadcast_load_buffer[r] = [h \in {0, 1} |-> broadcast_load_buffer[r][h]]
    <3>1. broadcast_load_buffer[r] \in [{0, 1} -> Contents]
      BY <1>4 DEF Typed
    <3> QED
      BY <3>1
  <2>2. CASE overlap
    <3>1. OverlapInv(r) /\ overlap' /\ main'[r] = "ack"
      BY <1>1, <1>2, <1>4, <2>2 DEF LoadInv, SamePlan
    <3>2. Start(gidx[r]) = gidx[r] % 2 /\ gidx[r] % 2 \in {0, 1}
      BY <1>4, <2>2 DEF Start
    <3>3. broadcast_load_buffer'[r][gidx[r] % 2] = o
      BY <1>1, <2>1, <3>2
    <3>4. (IF gidx[r] = 0 THEN turn[r] = FirstBucket /\ Greeted(r)
           ELSE \E b \in Buckets : Follows(turn[r], b) /\ Consumed(r, b, (gidx[r] - 1) % 2))'
      <4>1. CASE gidx[r] = 0
        <5>1. turn[r] = FirstBucket /\ Greeted(r)
          BY <1>4, <3>1, <4>1 DEF OverlapInv
        <5>2. Greeted(r)'
          BY <1>3, <5>1, ThreadStays
        <5> QED
          BY <1>3, <4>1, <5>1, <5>2 DEF FirstBucket
      <4>2. CASE gidx[r] # 0
        <5>1. PICK b \in Buckets : Follows(turn[r], b) /\ Consumed(r, b, (gidx[r] - 1) % 2)
          BY <1>4, <3>1, <4>2 DEF OverlapInv
        <5>2. PICK h : h = (gidx[r] - 1) % 2
          OBVIOUS
        <5>3. Consumed(r, b, h)
          BY <5>1, <5>2
        <5>4. h \in {0, 1} /\ h # gidx[r] % 2
          BY <1>4, <4>2, <5>2, HalvesDiffer
        <5>5. broadcast_load_buffer'[r][h] = broadcast_load_buffer[r][h]
          BY <1>1, <2>1, <3>2, <5>4
        <5>6. Consumed(r, b, h)'
          BY <1>2, <1>3, <5>3, <5>5, ConsumedStays
        <5>7. h = ((gidx[r] - 1) % 2)' /\ Follows(turn[r], b)' /\ b \in Buckets'
          BY <1>2, <1>3, <5>1, <5>2 DEF SamePlan
        <5> QED
          BY <1>3, <4>2, <5>6, <5>7
      <4> QED
        BY <4>1, <4>2
    <3>5. (broadcast_load_buffer[r][gidx[r] % 2] = Of(turn[r], sync[r]))'
      BY <1>3, <1>5, <3>3
    <3>6. OverlapInv(r)'
      BY <3>1, <3>4, <3>5 DEF OverlapInv
    <3> QED
      BY <3>1, <3>6 DEF LoadInv
  <2>3. CASE ~overlap
    <3>1. PlainInv(r) /\ ~overlap' /\ main'[r] = "load"
      BY <1>1, <1>2, <1>4, <2>3 DEF LoadInv, SamePlan
    <3>2. Start(gidx[r]) = 0
      BY <2>3 DEF Start
    <3>3. broadcast_load_buffer'[r][0] = o
      BY <1>1, <2>1, <3>2
    <3>4. LoadedBefore(r, turn[r])' /\ Quiet(r, "none")'
      <4>1. LoadedBefore(r, turn[r]) /\ Quiet(r, "none")
        BY <1>4, <3>1 DEF PlainInv
      <4>2. LoadedBefore(r, turn[r])'
        BY <1>2, <1>3, <4>1, LoadedStays
      <4> QED
        BY <1>3, <4>1, <4>2, ThreadStays
    <3>5. PlainInv(r)'
      BY <1>5, <3>1, <3>3, <3>4 DEF PlainInv
    <3> QED
      BY <3>1, <3>5 DEF LoadInv
  <2> QED
    BY <2>2, <2>3
<1>8. ASSUME r \in ActorRanks PROVE CopyInv(r)'
  <2> DEFINE mine == [iter |-> turn[r].iter, src |-> r]
  <2>1. memory_buffers[r] = sync[r] /\ (mine \in Buckets => h2d_buffer[r] = Of(mine, sync[r]))
    BY <1>4, <1>8 DEF CopyInv
  <2>2. Buckets' = Buckets
    BY <1>2 DEF SamePlan
  <2>3. Of(mine, sync[r])' = Of(mine, sync[r]) /\ mine' = mine
    BY <1>3 DEF Of
  <2> QED
    BY <1>3, <2>1, <2>2, <2>3 DEF CopyInv
<1> QED
  BY <1>1, <1>2, <1>6, <1>7, <1>8 DEF RankStep, RankInv

\* Where rank r comes to after bucket t.
LEMMA AdvancePlace ==
    ASSUME Numbers, IInv, NEW r \in Ranks, main[r] \in {"load", "barrier"}, Advance(r), UNCHANGED plan,
           sync' = sync, joined' = joined, sent' = sent, Typed'
    PROVE  PlaceInv(r)'
PROOF
<1>0. PICK t : t = turn[r]
  OBVIOUS
<1>1. /\ sync[r] \in 0..MaxSyncs /\ t \in Buckets /\ joined[r] \in Nat /\ Len(sent) \in Nat
      /\ PlaceInv(r) /\ PlanInv /\ Typed
  BY <1>0, RankFacts
<1>2. SamePlan
  BY PlanStays
<1>3. joined[r] # 0 /\ sent[joined[r]] = Of(t, sync[r]) /\ sync[r] # 0
  BY <1>0, <1>1 DEF PlaceInv
<1>4. \/ \E b \in Buckets : /\ Follows(b, t) /\ turn'[r] = b
                            /\ main'[r] \in {"broadcast", "copy"}
      \/ /\ IsLast(t) /\ turn'[r] = t
         /\ main'[r] \in {"last_ack", "finish"}
  BY <1>0, <1>1, AdvanceTyped
<1>5. joined'[r] <= Len(sent') /\ (\A n \in 1..Len(sent') : sent'[n].src = r => n <= joined'[r])
      /\ sync'[r] # 0
  BY <1>1, <1>3 DEF PlaceInv
<1>6. CASE \E b \in Buckets : /\ Follows(b, t) /\ turn'[r] = b
                              /\ main'[r] \in {"broadcast", "copy"}
  <2>1. PICK b \in Buckets : Follows(b, t) /\ turn'[r] = b /\ main'[r] \in {"broadcast", "copy"}
    BY <1>6
  <2>2. PICK o : o = Of(b, sync[r])
    OBVIOUS
  <2>3. BucketIn(o) = b /\ o.value = sync[r]
    BY <1>1, <2>2, OfIsContent
  <2>4. BucketIn(sent[joined[r]]) = t /\ sent[joined[r]].value = sync[r]
    BY <1>1, <1>3, OfIsContent
  <2>5. After(o, sent[joined[r]])
    BY <2>1, <2>3, <2>4 DEF After
  <2>6. Of(turn[r], sync[r])' = o
    BY <2>1, <2>2 DEF Of
  <2>7. After(Of(turn[r], sync[r]), sent[joined[r]])'
    BY <1>2, <2>5, <2>6 DEF SamePlan
  <2> QED
    BY <1>3, <1>5, <2>1, <2>7 DEF PlaceInv
<1>7. CASE IsLast(t) /\ turn'[r] = t /\ main'[r] \in {"last_ack", "finish"}
  <2>1. Done(r)' = sync[r]
    BY <1>7 DEF Done
  <2>2. Of(turn[r], Done(r))' = Of(t, sync[r])
    BY <1>7, <2>1 DEF Of
  <2>3. IsLast(turn[r])'
    BY <1>2, <1>7 DEF SamePlan
  <2>4. (joined[r] # 0 /\ sent[joined[r]] = Of(turn[r], Done(r)) /\ IsLast(turn[r]))'
    BY <1>3, <2>2, <2>3
  <2>5. Done(r)' # 0
    BY <1>3, <2>1
  <2> QED
    BY <1>5, <1>7, <2>4, <2>5 DEF PlaceInv
<1> QED
  BY <1>4, <1>6, <1>7

LEMMA AdvanceCopied ==
    ASSUME Numbers, IInv, NEW r \in ActorRanks, main[r] \in {"load", "barrier"}, Advance(r), UNCHANGED plan,
           sync' = sync, memory_buffers' = memory_buffers, h2d_buffer' = h2d_buffer
    PROVE  CopyInv(r)'
PROOF
<1>1. r \in Ranks
  BY DEF Ranks
<1>2. CopyInv(r) /\ turn[r] \in Buckets /\ Typed
  BY <1>1, RankFacts
<1>3. SamePlan /\ Buckets' = Buckets
  BY PlanStays DEF SamePlan
<1>4. \/ turn'[r].iter = turn[r].iter
      \/ main'[r] \notin {"broadcast", "load", "ack", "barrier"}
  <2>1. \/ \E b \in Buckets : /\ Follows(b, turn[r]) /\ turn'[r] = b
                              /\ main'[r] = IF b.iter = turn[r].iter THEN "broadcast" ELSE "copy"
        \/ /\ IsLast(turn[r]) /\ turn'[r] = turn[r]
           /\ main'[r] = IF overlap THEN "last_ack" ELSE "finish"
    BY <1>1, <1>2, AdvanceTyped
  <2> QED
    BY <2>1
<1>5. memory_buffers[r] = sync[r]
      /\ LET mine == [iter |-> turn[r].iter, src |-> r]
         IN  mine \in Buckets => h2d_buffer[r] = Of(mine, sync[r])
  BY <1>2 DEF CopyInv
<1>6. CASE turn'[r].iter = turn[r].iter
  <2>1. \A m : Of(m, sync[r])' = Of(m, sync[r])
    BY DEF Of
  <2> QED
    BY <1>3, <1>5, <1>6, <2>1 DEF CopyInv, Of
<1>7. CASE main'[r] \notin {"broadcast", "load", "ack", "barrier"}
  BY <1>5, <1>7 DEF CopyInv
<1> QED
  BY <1>4, <1>6, <1>7

\* The value of a parameter in a half that holds its bucket.
LEMMA ValueFound ==
    ASSUME Numbers, PlanInv, NEW r, NEW h, NEW b \in Buckets, NEW s \in 0..MaxSyncs, NEW p,
           broadcast_load_buffer[r][h] = Of(b, s), Holds(b, p)
    PROVE  ValueIn(r, h, p) = s
PROOF
  BY OfIsContent DEF ValueIn

LEMMA LoadInPlaceStep ==
    ASSUME Numbers, IInv, NEW r \in Ranks, LoadInPlace(r)
    PROVE  RankStep(r)
PROOF
<1>0. PICK t : t = turn[r]
  OBVIOUS
<1>1. Typed' /\ \A q \in Ranks \ {r} : SameRank(q)
  BY LoadInPlaceTyped
<1>2. UNCHANGED plan /\ SamePlan /\ sent' = sent /\ Buckets' = Buckets
  BY PlanStays DEF LoadInPlace, SamePlan
<1>3. SentInv' /\ \A q \in Ranks : SentGrows(q)
  BY <1>2, SentSame
<1>4. /\ joined[r] \in Nat /\ PlaceInv(r) /\ LoadInv(r) /\ t \in Buckets /\ sync[r] \in 0..MaxSyncs
      /\ main[r] = "load" /\ Typed /\ PlanInv
  BY <1>0, RankFacts DEF LoadInPlace
<1>5. /\ sync' = sync /\ joined' = joined /\ memory_buffers' = memory_buffers /\ reply' = reply
      /\ request' = request /\ loader' = loader /\ h2d_buffer' = h2d_buffer
      /\ broadcast_load_buffer' = broadcast_load_buffer /\ Advance(r)
  BY DEF LoadInPlace
<1>6. PlaceInv(r)'
  BY <1>1, <1>2, <1>4, <1>5, AdvancePlace
<1>7. r \in ActorRanks => CopyInv(r)'
  BY <1>2, <1>4, <1>5, AdvanceCopied
<1>8. PlainInv(r) /\ ~overlap /\ ~overlap'
  BY <1>2, <1>4 DEF LoadInv, OverlapInv, SamePlan
<1>9. \A b : Loaded(r, b) \/ b = t => Loaded(r, b)'
  <2> SUFFICES ASSUME NEW b, Loaded(r, b) \/ b = t, r \in RolloutRanks, NEW p \in Params, Holds(b, p)
               PROVE  loaded'[r][p] = sync[r]
    BY <1>2, <1>5 DEF Loaded, SamePlan
  <2>1. loaded'[r][p] = IF Holds(t, p) THEN ValueIn(r, 0, p) ELSE loaded[r][p]
    BY <1>0 DEF LoadInPlace
  <2>2. Holds(t, p) => ValueIn(r, 0, p) = sync[r]
    <3>1. broadcast_load_buffer[r][0] = Of(t, sync[r])
      BY <1>0, <1>4, <1>8 DEF PlainInv
    <3> QED
      BY <1>4, <3>1, ValueFound
  <2>3. Holds(t, p) \/ loaded[r][p] = sync[r]
    BY DEF Loaded
  <2> QED
    BY <2>1, <2>2, <2>3
<1>10. \A c \in Buckets : c = t \/ Before(c, t) => Loaded(r, c)'
  BY <1>0, <1>4, <1>8, <1>9 DEF PlainInv, LoadedBefore
<1>11. Quiet(r, "none")'
  BY <1>5, <1>8, ThreadStays DEF PlainInv
<1>12. \/ \E b \in Buckets : /\ Follows(b, t) /\ turn'[r] = b
                            /\ main'[r] \in {"broadcast", "copy"}
       \/ /\ IsLast(t) /\ turn'[r] = t
          /\ main'[r] = "finish"
  BY <1>0, <1>2, <1>4, <1>5, <1>8, AdvanceTyped
<1>13. CASE \E b \in Buckets : /\ Follows(b, t) /\ turn'[r] = b
                               /\ main'[r] \in {"broadcast", "copy"}
  <2>1. PICK b \in Buckets : Follows(b, t) /\ turn'[r] = b /\ main'[r] \in {"broadcast", "copy"}
    BY <1>13
  <2>2. \A c \in Buckets : Before(c, b) => c = t \/ Before(c, t)
    BY <1>4, <2>1, OneFollows
  <2>3. \A c \in Buckets : Before(c, b) => Loaded(r, c)'
    BY <1>10, <2>2
  <2>4. LoadedBefore(r, turn[r])'
    <3>1. \A c : Before(c, turn[r])' <=> Before(c, b)
      BY <2>1 DEF Before
    <3> QED
      BY <1>2, <2>3, <3>1 DEF LoadedBefore
  <2>5. PlainInv(r)'
    BY <1>11, <2>1, <2>4 DEF PlainInv
  <2> QED
    BY <1>2, <1>6, <1>7, <1>1, <1>3, <1>8, <2>1, <2>5 DEF RankStep, RankInv, LoadInv
<1>14. CASE IsLast(t) /\ turn'[r] = t /\ main'[r] = "finish"
  <2>1. \A c \in Buckets : c = t \/ Before(c, t)
    BY <1>4, <1>14, LastIsLast
  <2>2. LoadedAll(r)'
    BY <1>2, <1>10, <2>1 DEF LoadedAll
  <2>3. PlainInv(r)'
    BY <1>11, <1>14 DEF PlainInv
  <2> QED
    BY <1>1, <1>2, <1>3, <1>6, <1>7, <1>8, <1>14, <2>2, <2>3 DEF RankStep, RankInv, LoadInv
<1> QED
  BY <1>12, <1>13, <1>14

LEMMA SendMetasStep ==
    ASSUME Numbers, IInv, NEW r \in Ranks, SendMetas(r)
    PROVE  RankStep(r)
PROOF
<1>0. PICK t : t = turn[r]
  OBVIOUS
<1>00. PICK h : h = gidx[r] % 2
  OBVIOUS
<1>1. Typed' /\ \A q \in Ranks \ {r} : SameRank(q)
  BY SendMetasTyped
<1>2. UNCHANGED plan /\ SamePlan /\ sent' = sent /\ Buckets' = Buckets
  BY PlanStays DEF SendMetas, SamePlan
<1>3. SentInv' /\ \A q \in Ranks : SentGrows(q)
  BY <1>2, SentSame
<1>4. /\ joined[r] \in Nat /\ PlaceInv(r) /\ LoadInv(r) /\ t \in Buckets /\ sync[r] \in 0..MaxSyncs
      /\ main[r] = "barrier" /\ Typed /\ PlanInv /\ gidx[r] \in Nat
  BY <1>0, RankFacts DEF SendMetas
<1>5. /\ sync' = sync /\ joined' = joined /\ memory_buffers' = memory_buffers /\ reply' = reply
      /\ loader' = loader /\ h2d_buffer' = h2d_buffer /\ loaded' = loaded
      /\ broadcast_load_buffer' = broadcast_load_buffer /\ Advance(r)
  BY DEF SendMetas
<1>6. PlaceInv(r)'
  BY <1>1, <1>2, <1>4, <1>5, AdvancePlace
<1>7. r \in ActorRanks => CopyInv(r)'
  BY <1>2, <1>4, <1>5, AdvanceCopied
<1>8. OverlapInv(r) /\ overlap /\ overlap'
  BY <1>2, <1>4 DEF LoadInv, PlainInv, SamePlan
<1>9. gidx'[r] = gidx[r] + 1 /\ gidx'[r] # 0 /\ ((gidx[r] - 1) % 2)' = h
  <2>1. gidx'[r] = gidx[r] + 1
    BY <1>2, <1>4, <1>5, AdvanceTyped
  <2>2. gidx'[r] - 1 = gidx[r]
    BY <1>4, <2>1
  <2> QED
    BY <1>00, <1>4, <2>1, <2>2
<1>10. Consumed(r, t, h)'
  <2>1. request'[r] = [kind |-> "metas", metas |-> Metas(t), half |-> h]
    <3>1. Start(gidx[r]) = h
      BY <1>00, <1>8 DEF Start
    <3>2. request = [q \in Ranks |-> request[q]]
      BY <1>4 DEF Typed
    <3>3. request' = [request EXCEPT ![r] =
                    [kind |-> "metas", metas |-> Metas(turn[r]), half |-> Start(gidx[r])]]
      BY DEF SendMetas
    <3>4. request'[r] = [kind |-> "metas", metas |-> Metas(turn[r]), half |-> Start(gidx[r])]
      BY <3>2, <3>3
    <3> QED
      BY <1>0, <3>1, <3>4
  <2>2. Metas(t)' = Metas(t)
    BY <1>2 DEF SamePlan
  <2>3. ~reply[r] /\ loader[r].state = "ready" /\ LoadedBefore(r, t)
    BY <1>0, <1>4, <1>8 DEF OverlapInv, Quiet
  <2>4. LoadedBefore(r, t)'
    BY <1>2, <1>5, <2>3, LoadedStays
  <2>5. broadcast_load_buffer[r][h] = Of(t, sync[r])
    BY <1>0, <1>00, <1>4, <1>8 DEF OverlapInv
  <2>6. (broadcast_load_buffer[r][h] = Of(t, sync[r]))'
    BY <1>5, <2>5 DEF Of
  <2> QED
    BY <1>5, <2>1, <2>2, <2>3, <2>4, <2>6 DEF Consumed
<1>12. \/ \E b \in Buckets : /\ Follows(b, t) /\ turn'[r] = b
                            /\ main'[r] \in {"broadcast", "copy"}
       \/ /\ IsLast(t) /\ turn'[r] = t
          /\ main'[r] = "last_ack"
  BY <1>0, <1>2, <1>4, <1>5, <1>8, AdvanceTyped
<1>13. CASE \E b \in Buckets : /\ Follows(b, t) /\ turn'[r] = b
                               /\ main'[r] \in {"broadcast", "copy"}
  <2>1. PICK b \in Buckets : Follows(b, t) /\ turn'[r] = b /\ main'[r] \in {"broadcast", "copy"}
    BY <1>13
  <2>2. Follows(turn[r], t)'
    BY <1>2, <2>1 DEF SamePlan
  <2>3. (\E c \in Buckets : Follows(turn[r], c) /\ Consumed(r, c, (gidx[r] - 1) % 2))'
    BY <1>2, <1>4, <1>9, <1>10, <2>2
  <2>4. OverlapInv(r)'
    BY <1>9, <2>1, <2>3 DEF OverlapInv
  <2> QED
    BY <1>1, <1>2, <1>3, <1>6, <1>7, <1>8, <2>1, <2>4 DEF RankStep, RankInv, LoadInv
<1>14. CASE IsLast(t) /\ turn'[r] = t /\ main'[r] = "last_ack"
  <2>1. Consumed(r, turn[r], (gidx[r] - 1) % 2)'
    BY <1>9, <1>10, <1>14
  <2>2. OverlapInv(r)'
    BY <1>9, <1>14, <2>1 DEF OverlapInv
  <2> QED
    BY <1>1, <1>2, <1>3, <1>6, <1>7, <1>8, <1>14, <2>2 DEF RankStep, RankInv, LoadInv
<1> QED
  BY <1>12, <1>13, <1>14

\* A step of the main thread that goes from one place to the next.
LEMMA MainMoves ==
    ASSUME Numbers, IInv, NEW r \in Ranks, UNCHANGED plan,
           UNCHANGED <<sync, turn, gidx, joined, h2d_buffer, broadcast_load_buffer, sent,
                       loader, loaded>>,
           NEW m \in MainPlaces, main' = [main EXCEPT ![r] = m],
           \/ main[r] = "ack" /\ m = "barrier"
           \/ main[r] = "last_ack" /\ m = "join"
           \/ main[r] = "join" /\ m = "finish"
           \/ main[r] = "finish" /\ m = "leaving"
           \/ main[r] = "leaving" /\ m = "idle",
           IF m = "idle" THEN memory_buffers' = [memory_buffers EXCEPT ![r] = 0]
                         ELSE memory_buffers' = memory_buffers,
           reply' = reply \/ reply' = [reply EXCEPT ![r] = FALSE],
           request' = request \/ request' = [request EXCEPT ![r] = [kind |-> "done"]],
           LoadInv(r)'
    PROVE  RankStep(r)
PROOF
<1>1. Typed' /\ \A q \in Ranks \ {r} : SameRank(q)
  BY AckTyped
<1>2. SamePlan /\ Buckets' = Buckets
  BY PlanStays DEF SamePlan
<1>3. SentInv' /\ \A q \in Ranks : SentGrows(q)
  BY <1>2, SentSame
<1>4. /\ joined[r] \in Nat /\ PlaceInv(r) /\ (r \in ActorRanks => CopyInv(r)) /\ Typed
      /\ Len(sent) \in Nat
  BY RankFacts
<1>5. main'[r] = m
  BY <1>4 DEF Typed
<1>6. (joined[r] <= Len(sent) /\ \A n \in 1..Len(sent) : sent[n].src = r => n <= joined[r])'
      /\ sync'[r] # 0
  BY <1>4 DEF PlaceInv
<1>7. PlaceInv(r)'
  <2>1. CASE m = "barrier"
    <3>1. joined[r] # 0 /\ sent[joined[r]] = Of(turn[r], sync[r])
      BY <1>4, <2>1 DEF PlaceInv
    <3>2. (joined[r] # 0 /\ sent[joined[r]] = Of(turn[r], sync[r]))'
      BY <3>1 DEF Of
    <3> QED
      BY <1>5, <1>6, <2>1, <3>2 DEF PlaceInv
  <2>2. CASE m # "barrier"
    <3>1. Done(r) = sync[r] /\ Done(r)' = sync[r] /\ sync[r] # 0
      BY <1>4, <1>5, <2>2 DEF Done, PlaceInv
    <3>2. joined[r] # 0 /\ sent[joined[r]] = Of(turn[r], sync[r]) /\ IsLast(turn[r])
      BY <1>4, <2>2, <3>1 DEF PlaceInv
    <3>3. Of(turn[r], Done(r))' = Of(turn[r], sync[r])
      BY <3>1 DEF Of
    <3>4. (joined[r] # 0 /\ sent[joined[r]] = Of(turn[r], Done(r)) /\ IsLast(turn[r]))'
      BY <1>2, <3>2, <3>3 DEF SamePlan
    <3>5. Done(r)' # 0
      BY <3>1
    <3> QED
      BY <1>5, <1>6, <2>2, <3>4, <3>5 DEF PlaceInv
  <2> QED
    BY <2>1, <2>2
<1>8. ASSUME r \in ActorRanks PROVE CopyInv(r)'
  <2>1. m # "idle" => memory_buffers'[r] = sync'[r]
    BY <1>4, <1>8 DEF CopyInv
  <2>2. CASE m = "barrier"
    <3> DEFINE mine == [iter |-> turn[r].iter, src |-> r]
    <3>1. mine \in Buckets => h2d_buffer[r] = Of(mine, sync[r])
      BY <1>4, <1>8, <2>2 DEF CopyInv
    <3>2. Of(mine, sync[r])' = Of(mine, sync[r]) /\ mine' = mine
      BY DEF Of
    <3> QED
      BY <1>2, <1>5, <2>1, <2>2, <3>1, <3>2 DEF CopyInv
  <2>3. CASE m # "barrier"
    BY <1>5, <2>1, <2>3 DEF CopyInv
  <2> QED
    BY <2>2, <2>3
<1> QED
  BY <1>1, <1>2, <1>3, <1>7, <1>8 DEF RankStep, RankInv

LEMMA ReceiveAckStep ==
    ASSUME Numbers, IInv, NEW r \in Ranks, ReceiveAck(r)
    PROVE  RankStep(r)
PROOF
<1>1. /\ UNCHANGED plan
      /\ UNCHANGED <<sync, turn, gidx, joined, h2d_buffer, broadcast_load_buffer, sent,
                       loader, loaded>>
      /\ main' = [main EXCEPT ![r] = "barrier"] /\ "barrier" \in MainPlaces
      /\ main[r] = "ack" /\ memory_buffers' = memory_buffers /\ request' = request
      /\ reply' = [reply EXCEPT ![r] = FALSE] /\ reply[r]
  BY DEF ReceiveAck, MainPlaces
<1>2. SamePlan /\ Buckets' = Buckets
  BY <1>1, PlanStays DEF SamePlan
<1>3. /\ LoadInv(r) /\ PlanInv /\ Typed /\ turn[r] \in Buckets
  BY RankFacts
<1>4. OverlapInv(r) /\ overlap /\ overlap'
  BY <1>1, <1>2, <1>3 DEF LoadInv, PlainInv, SamePlan
<1>5. main'[r] = "barrier" /\ ~reply'[r]
  BY <1>1, <1>3 DEF Typed
<1>6. request[r] = Nothing /\ loader[r].state = "ready" /\ LoadedBefore(r, turn[r])
  <2>1. CASE gidx[r] = 0
    <3>1. turn[r] = FirstBucket /\ Greeted(r)
      BY <1>1, <1>4, <2>1 DEF OverlapInv
    <3>2. LoadedBefore(r, FirstBucket)
      BY <1>3, BucketNames, BucketOrder DEF LoadedBefore
    <3> QED
      BY <1>1, <3>1, <3>2 DEF Greeted
  <2>2. CASE gidx[r] # 0
    <3>1. PICK b \in Buckets : Follows(turn[r], b) /\ Consumed(r, b, (gidx[r] - 1) % 2)
      BY <1>1, <1>4, <2>2 DEF OverlapInv
    <3>2. request[r] = Nothing /\ loader[r].state = "ready" /\ Loaded(r, b) /\ LoadedBefore(r, b)
      BY <1>1, <3>1 DEF Consumed
    <3>3. \A c \in Buckets : Before(c, turn[r]) => c = b \/ Before(c, b)
      BY <1>3, <3>1, OneFollows
    <3> QED
      BY <3>2, <3>3 DEF LoadedBefore
  <2> QED
    BY <2>1, <2>2
<1>7. LoadInv(r)'
  <2>1. Quiet(r, "ready")'
    BY <1>1, <1>5, <1>6 DEF Quiet, Nothing
  <2>2. LoadedBefore(r, turn[r])'
    BY <1>1, <1>2, <1>6, LoadedStays
  <2>3. broadcast_load_buffer[r][gidx[r] % 2] = Of(turn[r], sync[r])
    BY <1>1, <1>4 DEF OverlapInv
  <2>4. (broadcast_load_buffer[r][gidx[r] % 2] = Of(turn[r], sync[r]))'
    BY <1>1, <2>3 DEF Of
  <2>5. OverlapInv(r)'
    BY <1>5, <2>1, <2>2, <2>4 DEF OverlapInv
  <2> QED
    BY <1>4, <1>5, <2>5 DEF LoadInv
<1> QED
  BY <1>1, <1>7, MainMoves

LEMMA SendNoneStep ==
    ASSUME Numbers, IInv, NEW r \in Ranks, SendNone(r)
    PROVE  RankStep(r)
PROOF
<1>1. /\ UNCHANGED plan
      /\ UNCHANGED <<sync, turn, gidx, joined, h2d_buffer, broadcast_load_buffer, sent,
                       loader, loaded>>
      /\ main' = [main EXCEPT ![r] = "join"] /\ "join" \in MainPlaces
      /\ main[r] = "last_ack" /\ memory_buffers' = memory_buffers
      /\ request' = [request EXCEPT ![r] = [kind |-> "done"]]
      /\ reply' = [reply EXCEPT ![r] = FALSE] /\ reply[r]
  BY DEF SendNone, MainPlaces
<1>2. SamePlan /\ Buckets' = Buckets
  BY <1>1, PlanStays DEF SamePlan
<1>3. /\ LoadInv(r) /\ PlanInv /\ Typed /\ turn[r] \in Buckets /\ sync[r] # 0 /\ IsLast(turn[r])
  <2>1. LoadInv(r) /\ PlanInv /\ Typed /\ turn[r] \in Buckets /\ PlaceInv(r)
    BY RankFacts
  <2>2. sync[r] # 0 /\ Done(r) = sync[r]
    BY <1>1, <2>1 DEF PlaceInv, Done
  <2> QED
    BY <1>1, <2>1, <2>2 DEF PlaceInv
<1>4. OverlapInv(r) /\ overlap /\ overlap'
  BY <1>1, <1>2, <1>3 DEF LoadInv, PlainInv, SamePlan
<1>5. main'[r] = "join" /\ ~reply'[r] /\ request'[r] = [kind |-> "done"]
  <2>1. request = [q \in Ranks |-> request[q]] /\ main \in [Ranks -> MainPlaces]
        /\ reply \in [Ranks -> BOOLEAN]
    BY <1>3 DEF Typed
  <2>2. request'[r] = [kind |-> "done"]
    BY <1>1, <2>1
  <2> QED
    BY <1>1, <2>1, <2>2
<1>6. loader[r].state = "ready" /\ LoadedAll(r)
  <2>1. Consumed(r, turn[r], (gidx[r] - 1) % 2)
    BY <1>1, <1>4 DEF OverlapInv
  <2>2. loader[r].state = "ready" /\ Loaded(r, turn[r]) /\ LoadedBefore(r, turn[r])
    BY <1>1, <2>1 DEF Consumed
  <2>3. \A c \in Buckets : c = turn[r] \/ Before(c, turn[r])
    BY <1>3, LastIsLast
  <2> QED
    BY <2>2, <2>3 DEF LoadedBefore, LoadedAll
<1>7. LoadInv(r)'
  <2>1. Dismissed(r)'
    BY <1>1, <1>5, <1>6 DEF Dismissed
  <2>2. LoadedAll(r)'
    BY <1>1, <1>2, <1>6, LoadedStays
  <2>3. OverlapInv(r)'
    BY <1>5, <2>1, <2>2 DEF OverlapInv
  <2> QED
    BY <1>4, <1>5, <2>3 DEF LoadInv
<1> QED
  BY <1>1, <1>7, MainMoves

LEMMA JoinStep ==
    ASSUME Numbers, IInv, NEW r \in Ranks, JoinThread(r)
    PROVE  RankStep(r)
PROOF
<1>1. /\ UNCHANGED plan
      /\ UNCHANGED <<sync, turn, gidx, joined, h2d_buffer, broadcast_load_buffer, sent,
                       loader, loaded>>
      /\ main' = [main EXCEPT ![r] = "finish"] /\ "finish" \in MainPlaces
      /\ main[r] = "join" /\ memory_buffers' = memory_buffers /\ request' = request
      /\ reply' = [reply EXCEPT ![r] = FALSE] /\ reply[r] /\ loader[r].state = "none"
  BY DEF JoinThread, MainPlaces
<1>2. SamePlan /\ Buckets' = Buckets
  BY <1>1, PlanStays DEF SamePlan
<1>3. LoadInv(r) /\ Typed
  BY RankFacts
<1>4. OverlapInv(r) /\ overlap /\ overlap'
  BY <1>1, <1>2, <1>3 DEF LoadInv, PlainInv, SamePlan
<1>5. main'[r] = "finish" /\ ~reply'[r]
  BY <1>1, <1>3 DEF Typed
<1>6. Dismissed(r) /\ LoadedAll(r)
  BY <1>1, <1>4 DEF OverlapInv
<1>7. LoadInv(r)'
  <2>1. request[r] = Nothing
    BY <1>1, <1>6 DEF Dismissed
  <2>2. Quiet(r, "none")'
    BY <1>1, <1>5, <2>1 DEF Quiet, Nothing
  <2>3. LoadedAll(r)'
    BY <1>1, <1>2, <1>6, LoadedStays
  <2>4. OverlapInv(r)'
    BY <1>5, <2>2 DEF OverlapInv
  <2> QED
    BY <1>4, <1>5, <2>3, <2>4 DEF LoadInv
<1> QED
  BY <1>1, <1>7, MainMoves

LEMMA LeaveStep ==
    ASSUME Numbers, IInv, NEW r \in Ranks, EnterLastBarrier(r) \/ EndUpdate(r)
    PROVE  RankStep(r)
PROOF
<1> DEFINE m == IF main[r] = "finish" THEN "leaving" ELSE "idle"
<1>1. /\ UNCHANGED plan
      /\ UNCHANGED <<sync, turn, gidx, joined, h2d_buffer, broadcast_load_buffer, sent,
                       loader, loaded>>
      /\ main' = [main EXCEPT ![r] = m] /\ m \in MainPlaces
      /\ main[r] \in {"finish", "leaving"} /\ m \in {"leaving", "idle"}
      /\ IF m = "idle" THEN memory_buffers' = [memory_buffers EXCEPT ![r] = 0]
                       ELSE memory_buffers' = memory_buffers
      /\ request' = request /\ reply' = reply
      /\ (main[r] = "finish" /\ m = "leaving") \/ (main[r] = "leaving" /\ m = "idle")
  BY DEF EnterLastBarrier, EndUpdate, MainPlaces
<1> HIDE DEF m
<1>2. SamePlan /\ Buckets' = Buckets
  BY <1>1, PlanStays DEF SamePlan
<1>3. LoadInv(r) /\ Typed /\ sync[r] # 0
  BY <1>1, RankFacts DEF PlaceInv
<1>4. main'[r] = m
  BY <1>1, <1>3 DEF Typed
<1>5. LoadedAll(r) /\ Quiet(r, "none")
  BY <1>1, <1>3 DEF LoadInv, OverlapInv, PlainInv
<1>6. LoadedAll(r)' /\ Quiet(r, "none")'
  BY <1>1, <1>2, <1>5, LoadedStays, ThreadStays
<1>7. LoadInv(r)'
  BY <1>1, <1>4, <1>6 DEF LoadInv, OverlapInv, PlainInv
<1>8. reply' = reply \/ reply' = [reply EXCEPT ![r] = FALSE]
  BY <1>1
<1>9. request' = request \/ request' = [request EXCEPT ![r] = [kind |-> "done"]]
  BY <1>1
<1> QED
  BY <1>1, <1>7, <1>8, <1>9, MainMoves

-----------------------------------------------------------------------------
(* The thread *)

\* The steps of the thread that leave the main thread where it is.
LEMMA ThreadMoves ==
    ASSUME Numbers, IInv, NEW r \in Ranks, Typed', \A q \in Ranks \ {r} : SameRank(q),
           UNCHANGED <<plan, sync, main, turn, gidx, joined, memory_buffers, h2d_buffer,
                       broadcast_load_buffer, sent>>,
           loader[r].state # "none", OverlapInv(r) => OverlapInv(r)',
           loaded' = loaded \/ main[r] \notin {"finish", "leaving", "idle"}
    PROVE  RankStep(r)
PROOF
<1>1. UNCHANGED plan /\ SamePlan /\ sent' = sent
  BY PlanStays
<1>2. SentInv' /\ \A q \in Ranks : SentGrows(q)
  BY <1>1, SentSame
<1>3. PlaceInv(r) /\ LoadInv(r) /\ (r \in ActorRanks => CopyInv(r)) /\ Typed /\ Len(sent) \in Nat
  BY RankFacts
<1>4. PlaceInv(r)'
  <2>1. Len(sent') \in Nat
    BY <1>1, <1>3
  <2> QED
    BY <1>1, <1>2, <1>3, <2>1, PlaceStays
<1>5. r \in ActorRanks => CopyInv(r)'
  BY <1>1, <1>3, CopyStays
<1>6. overlap /\ overlap' /\ OverlapInv(r)
  BY <1>1, <1>3 DEF LoadInv, PlainInv, Quiet, SamePlan
<1>7. LoadInv(r)'
  <2>1. loaded' = loaded => (LoadedAll(r)' <=> LoadedAll(r))
    BY <1>1, LoadedStays
  <2> QED
    BY <1>3, <1>6, <2>1 DEF LoadInv
<1> QED
  BY <1>1, <1>2, <1>4, <1>5, <1>7 DEF RankStep, RankInv

\* With a bucket under way, only what is known of that bucket matters.
LEMMA ConsumedMoves ==
    ASSUME Numbers, IInv, NEW r \in Ranks, SamePlan,
           UNCHANGED <<sync, main, turn, gidx, broadcast_load_buffer>>,
           OverlapInv(r), main[r] \in {"copy", "broadcast", "ack", "last_ack"}, gidx[r] # 0,
           \A b \in Buckets, h \in {0, 1} : Consumed(r, b, h) => Consumed(r, b, h)'
    PROVE  OverlapInv(r)'
PROOF
<1>1. gidx[r] \in Nat /\ turn[r] \in Buckets
  BY RankFacts
<1>2. PICK h : h = (gidx[r] - 1) % 2
  OBVIOUS
<1>3. h \in {0, 1} /\ h = ((gidx[r] - 1) % 2)'
  BY <1>1, <1>2, HalvesDiffer
<1>4. Buckets' = Buckets /\ \A b, c : Follows(b, c)' <=> Follows(b, c)
  BY DEF SamePlan
<1>5. main[r] = "ack" => (broadcast_load_buffer[r][gidx[r] % 2] = Of(turn[r], sync[r]))'
  BY DEF OverlapInv, Of
<1>6. CASE main[r] \in {"copy", "broadcast", "ack"}
  <2>1. PICK b \in Buckets : Follows(turn[r], b) /\ Consumed(r, b, h)
    BY <1>2, <1>6 DEF OverlapInv
  <2>2. Consumed(r, b, h)'
    BY <1>3, <2>1
  <2>3. (\E c \in Buckets : Follows(turn[r], c) /\ Consumed(r, c, (gidx[r] - 1) % 2))'
    BY <1>3, <1>4, <2>1, <2>2
  <2> QED
    BY <1>5, <1>6, <2>3 DEF OverlapInv
<1>7. CASE main[r] = "last_ack"
  <2>1. PICK t : t = turn[r]
    OBVIOUS
  <2>2. Consumed(r, t, h)'
    BY <1>1, <1>2, <1>3, <1>7, <2>1 DEF OverlapInv
  <2>3. Consumed(r, turn[r], (gidx[r] - 1) % 2)'
    BY <1>3, <2>1, <2>2
  <2> QED
    BY <1>7, <2>3 DEF OverlapInv
<1> QED
  BY <1>6, <1>7

LEMMA ReceiveStep ==
    ASSUME Numbers, IInv, NEW r \in Ranks, ReceiveRequest(r)
    PROVE  RankStep(r)
PROOF
<1>1. Typed' /\ \A q \in Ranks \ {r} : SameRank(q)
  BY ReceiveTyped
<1>2. /\ UNCHANGED <<plan, sync, main, turn, gidx, joined, memory_buffers, h2d_buffer,
                       broadcast_load_buffer, sent>>
      /\ loaded' = loaded /\ loader[r].state = "ready" /\ request[r] # Nothing
  BY DEF ReceiveRequest
<1>3. SamePlan
  BY <1>2, PlanStays
<1>4. Typed /\ gidx[r] \in Nat /\ main[r] \in MainPlaces
  BY RankFacts
<1>5. request'[r] = Nothing
  <2>1. request = [q \in Ranks |-> request[q]]
    BY <1>4 DEF Typed
  <2> QED
    BY <2>1 DEF ReceiveRequest
<1>6. ASSUME request[r].kind = "hello"
      PROVE  reply'[r] /\ loader' = loader
  BY <1>4, <1>6 DEF ReceiveRequest, Typed
<1>7. ASSUME request[r].kind = "done"
      PROVE  reply'[r] /\ loader'[r].state = "none"
  <2>1. reply' = [reply EXCEPT ![r] = TRUE] /\ loader' = [loader EXCEPT ![r].state = "none"]
    BY <1>7 DEF ReceiveRequest
  <2>2. loader[r] \in LoaderStates /\ loader \in [Ranks -> LoaderStates]
    BY <1>4 DEF Typed, LoaderStates
  <2>3. loader'[r] = [loader[r] EXCEPT !.state = "none"]
    BY <2>1, <2>2
  <2>4. loader'[r].state = "none"
    BY <2>2, <2>3 DEF LoaderStates
  <2> QED
    BY <1>4, <2>1, <2>4 DEF Typed
<1>8. ASSUME request[r].kind = "metas"
      PROVE  reply' = reply /\ loader'[r] = [state |-> "load", todo |-> request[r].metas,
                                             half |-> request[r].half]
  <2> DEFINE one == [state |-> "load", todo |-> request[r].metas, half |-> request[r].half]
  <2>1. reply' = reply /\ loader' = [loader EXCEPT ![r] = one]
    BY <1>8 DEF ReceiveRequest
  <2> HIDE DEF one
  <2>2. loader'[r] = one
    BY <1>4, <2>1 DEF Typed
  <2> QED
    BY <2>1, <2>2 DEF one
<1>9. ASSUME NEW b \in Buckets, NEW h \in {0, 1}, Consumed(r, b, h)
      PROVE  Consumed(r, b, h)'
  <2>1. request[r] = [kind |-> "metas", metas |-> Metas(b), half |-> h] /\ ~reply[r]
    BY <1>2, <1>9 DEF Consumed
  <2>2. reply' = reply /\ loader'[r] = [state |-> "load", todo |-> Metas(b), half |-> h]
    BY <1>8, <2>1
  <2>3. Metas(b) \in Seq(TensorMetas)
    BY RankFacts, MetasTyped
  <2>4. DOMAIN Metas(b) = 1..Len(Metas(b))
    BY <2>3
  <2>5. \A p : Holds(b, p) <=> \E i \in 1..Len(Metas(b)) : Metas(b)[i].name = p
    BY <2>4 DEF Holds
  <2>6. \A i \in 1..Len(Metas(b)) : Holds(b, Metas(b)[i].name)
    BY <2>5
  <2>7. \A p : Holds(b, p)' <=> Holds(b, p)
    BY <1>3 DEF SamePlan
  <2>8. loader'[r].todo = Metas(b) /\ loader'[r].state = "load" /\ loader'[r].half = h
    BY <2>2
  <2>9. (\A i \in 1..Len(loader[r].todo) : Holds(b, loader[r].todo[i].name))'
    BY <2>6, <2>7, <2>8
  <2>10. (\A p \in Params : Holds(b, p) =>
                \E i \in 1..Len(loader[r].todo) : loader[r].todo[i].name = p)'
    BY <2>5, <2>7, <2>8
  <2>11. LoadedBefore(r, b)'
    BY <1>2, <1>3, <1>9, LoadedStays DEF Consumed
  <2>12. (broadcast_load_buffer[r][h] = Of(b, sync[r]))'
    BY <1>2, <1>9 DEF Consumed, Of
  <2>13. (request[r] = Nothing /\ ~reply[r])'
    BY <1>5, <2>1, <2>2 DEF Nothing
  <2> QED
    BY <2>8, <2>9, <2>10, <2>11, <2>12, <2>13 DEF Consumed
<1>10. ASSUME OverlapInv(r)
       PROVE  OverlapInv(r)'
  <2>1. CASE main[r] \in {"copy", "broadcast", "ack"} /\ gidx[r] = 0
    <3>1. turn[r] = FirstBucket /\ request[r] = [kind |-> "hello"]
      BY <1>2, <1>10, <2>1 DEF OverlapInv, Greeted
    <3>2. Greeted(r)'
      BY <1>2, <1>5, <1>6, <3>1 DEF Greeted, Nothing
    <3>3. main[r] = "ack" => (broadcast_load_buffer[r][gidx[r] % 2] = Of(turn[r], sync[r]))'
      BY <1>2, <1>10 DEF OverlapInv, Of
    <3>4. (turn[r] = FirstBucket)' /\ gidx'[r] = 0 /\ main'[r] = main[r]
      BY <1>2, <2>1, <3>1 DEF FirstBucket
    <3> QED
      BY <2>1, <3>2, <3>3, <3>4 DEF OverlapInv
  <2>2. CASE main[r] \in {"copy", "broadcast", "ack"} /\ gidx[r] # 0
    BY <1>2, <1>3, <1>9, <1>10, <2>2, ConsumedMoves
  <2>3. CASE main[r] = "last_ack"
    <3>1. gidx[r] # 0
      BY <1>10, <2>3 DEF OverlapInv
    <3> QED
      BY <1>2, <1>3, <1>9, <1>10, <2>3, <3>1, ConsumedMoves
  <2>4. CASE main[r] = "join"
    <3>1. request[r] = [kind |-> "done"] /\ LoadedAll(r)
      BY <1>2, <1>10, <2>4 DEF OverlapInv, Dismissed
    <3>2. LoadedAll(r)'
      BY <1>2, <1>3, <3>1, LoadedStays
    <3>3. Dismissed(r)'
      BY <1>5, <1>7, <3>1 DEF Dismissed, Nothing
    <3> QED
      BY <1>2, <2>4, <3>2, <3>3 DEF OverlapInv
  <2>5. CASE main[r] \notin {"copy", "broadcast", "ack", "last_ack", "join"}
    BY <1>2, <1>4, <1>10, <2>5 DEF OverlapInv, Quiet, MainPlaces
  <2> QED
    BY <2>1, <2>2, <2>3, <2>4, <2>5
<1> QED
  BY <1>1, <1>2, <1>10, ThreadMoves

\* A thread that loads has a bucket under way.
LEMMA LoadsBucket ==
    ASSUME Numbers, IInv, NEW r \in Ranks, loader[r].state = "load", OverlapInv(r)
    PROVE  main[r] \in {"copy", "broadcast", "ack", "last_ack"} /\ gidx[r] # 0
PROOF
<1>1. main[r] \in MainPlaces
  BY RankFacts
<1> QED
  BY <1>1 DEF OverlapInv, Greeted, Dismissed, Quiet, MainPlaces

LEMMA LoadTensorStep ==
    ASSUME Numbers, IInv, NEW r \in Ranks, LoadTensor(r)
    PROVE  RankStep(r)
PROOF
<1>0. PICK p : p = Head(loader[r].todo).name
  OBVIOUS
<1>1. Typed' /\ \A q \in Ranks \ {r} : SameRank(q)
  BY LoadTensorTyped
<1>2. /\ UNCHANGED <<plan, sync, main, turn, gidx, joined, memory_buffers, h2d_buffer,
                       broadcast_load_buffer, sent>>
      /\ request' = request /\ reply' = reply
      /\ loader[r].state = "load" /\ loader[r].todo # <<>>
  BY DEF LoadTensor
<1>3. SamePlan
  BY <1>2, PlanStays
<1>4. Typed /\ PlanInv /\ sync[r] \in 0..MaxSyncs
  BY RankFacts
<1>5. PICK s \in Seq(TensorMetas) : s = loader[r].todo
  BY <1>4 DEF Typed
<1>6. /\ s # <<>> /\ Head(s) = s[1] /\ Len(Tail(s)) = Len(s) - 1 /\ Len(s) \in Nat /\ Len(s) >= 1
      /\ \A i \in 1..(Len(s) - 1) : Tail(s)[i] = s[i + 1]
  BY <1>2, <1>5
<1>7. /\ loader'[r].state = "load" /\ loader'[r].half = loader[r].half
      /\ loader'[r].todo = Tail(s)
  <2>1. loader'[r] = [loader[r] EXCEPT !.todo = Tail(s)]
    BY <1>5, LoadTensorTyped
  <2>2. loader[r] \in LoaderStates
    BY <1>4 DEF Typed, LoaderStates
  <2> QED
    BY <1>2, <2>1, <2>2 DEF LoaderStates
<1>8. ASSUME NEW b \in Buckets, NEW h \in {0, 1}, Consumed(r, b, h)
      PROVE  Consumed(r, b, h)'
  <2>1. /\ request[r] = Nothing /\ ~reply[r] /\ loader[r].half = h
        /\ \A i \in 1..Len(s) : Holds(b, s[i].name)
        /\ r \in RolloutRanks =>
              \A x \in Params : Holds(b, x) =>
                loaded[r][x] = sync[r] \/ \E i \in 1..Len(s) : s[i].name = x
        /\ broadcast_load_buffer[r][h] = Of(b, sync[r]) /\ LoadedBefore(r, b)
    BY <1>2, <1>5, <1>8 DEF Consumed
  <2>2. Holds(b, p) /\ p = s[1].name
    BY <1>0, <1>5, <1>6, <2>1
  <2>3. ValueIn(r, h, p) = sync[r]
    BY <1>4, <2>1, <2>2, ValueFound
  <2>4. ASSUME r \in RolloutRanks
        PROVE  /\ \A x : loaded[r][x] = sync[r] /\ x \in Params => loaded'[r][x] = sync[r]
               /\ p \in Params => loaded'[r][p] = sync[r]
    <3>1. loaded'[r] = [loaded[r] EXCEPT ![p] = sync[r]]
      BY <1>0, <2>1, <2>3, <2>4, LoadTensorTyped
    <3>2. loaded[r] \in [Params -> 0..MaxSyncs]
      BY <1>4, <2>4 DEF Typed
    <3> QED
      BY <3>1, <3>2
  <2>5. \A x : Holds(b, x)' <=> Holds(b, x)
    BY <1>3 DEF SamePlan
  <2>6. (\A i \in 1..Len(loader[r].todo) : Holds(b, loader[r].todo[i].name))'
    <3>1. \A i \in 1..Len(Tail(s)) : i + 1 \in 1..Len(s) /\ Tail(s)[i] = s[i + 1]
      BY <1>6
    <3> QED
      BY <1>7, <2>1, <2>5, <3>1
  <2>7. (r \in RolloutRanks =>
              \A x \in Params : Holds(b, x) =>
                loaded[r][x] = sync[r] \/ \E i \in 1..Len(loader[r].todo) : loader[r].todo[i].name = x)'
    <3> SUFFICES ASSUME r \in RolloutRanks, NEW x \in Params, Holds(b, x)
                 PROVE  loaded'[r][x] = sync[r] \/ \E i \in 1..Len(Tail(s)) : Tail(s)[i].name = x
      BY <1>2, <1>7, <2>5
    <3>1. CASE loaded[r][x] = sync[r]
      BY <2>4, <3>1
    <3>2. CASE \E i \in 1..Len(s) : s[i].name = x
      <4>1. PICK i \in 1..Len(s) : s[i].name = x
        BY <3>2
      <4>2. CASE i = 1
        BY <2>2, <2>4, <4>1, <4>2
      <4>3. CASE i # 1
        <5>1. i - 1 \in 1..Len(Tail(s)) /\ i - 1 \in 1..(Len(s) - 1) /\ (i - 1) + 1 = i
          BY <1>6, <4>1, <4>3
        <5>2. Tail(s)[i - 1] = s[i]
          BY <1>6, <5>1
        <5> QED
          BY <4>1, <5>1, <5>2
      <4> QED
        BY <4>2, <4>3
    <3> QED
      BY <2>1, <3>1, <3>2
  <2>8. LoadedBefore(r, b)'
    <3>1. \A c \in Buckets : Loaded(r, c) => Loaded(r, c)'
      BY <1>2, <1>3, <2>4 DEF Loaded, SamePlan
    <3>2. \A c : Before(c, b)' <=> Before(c, b)
      BY DEF Before
    <3>3. Buckets' = Buckets
      BY <1>3 DEF SamePlan
    <3> QED
      BY <2>1, <3>1, <3>2, <3>3 DEF LoadedBefore
  <2>9. (broadcast_load_buffer[r][h] = Of(b, sync[r]))'
    BY <1>2, <2>1 DEF Of
  <2>10. (request[r] = Nothing /\ ~reply[r] /\ loader[r].state = "load" /\ loader[r].half = h)'
    BY <1>2, <1>7, <2>1 DEF Nothing
  <2> QED
    BY <2>6, <2>7, <2>8, <2>9, <2>10 DEF Consumed
<1>9. ASSUME OverlapInv(r)
      PROVE  OverlapInv(r)' /\ main[r] \notin {"finish", "leaving", "idle"}
  <2>1. main[r] \in {"copy", "broadcast", "ack", "last_ack"} /\ gidx[r] # 0
    BY <1>2, <1>9, LoadsBucket
  <2> QED
    BY <1>2, <1>3, <1>8, <1>9, <2>1, ConsumedMoves
<1>10. OverlapInv(r)
  BY <1>2, RankFacts DEF LoadInv, PlainInv, Quiet
<1> QED
  BY <1>1, <1>2, <1>9, <1>10, ThreadMoves

LEMMA AnswerStep ==
    ASSUME Numbers, IInv, NEW r \in Ranks, AnswerLoaded(r)
    PROVE  RankStep(r)
PROOF
<1>1. Typed' /\ \A q \in Ranks \ {r} : SameRank(q)
  BY AnswerTyped
<1>2. /\ UNCHANGED <<plan, sync, main, turn, gidx, joined, memory_buffers, h2d_buffer,
                       broadcast_load_buffer, sent>>
      /\ request' = request /\ loaded' = loaded
      /\ loader[r].state = "load" /\ loader[r].todo = <<>>
  BY DEF AnswerLoaded
<1>3. SamePlan
  BY <1>2, PlanStays
<1>4. Typed
  BY RankFacts
<1>5. loader'[r].state = "ready" /\ reply'[r]
  <2>1. loader'[r] = [loader[r] EXCEPT !.state = "ready"]
    BY AnswerTyped
  <2>2. loader[r] \in LoaderStates /\ reply \in [Ranks -> BOOLEAN]
    BY <1>4 DEF Typed, LoaderStates
  <2>3. loader'[r].state = "ready"
    BY <2>1, <2>2 DEF LoaderStates
  <2> QED
    BY <2>2, <2>3 DEF AnswerLoaded
<1>6. ASSUME NEW b \in Buckets, NEW h \in {0, 1}, Consumed(r, b, h)
      PROVE  Consumed(r, b, h)'
  <2>1. /\ request[r] = Nothing
        /\ r \in RolloutRanks =>
              \A p \in Params : Holds(b, p) =>
                loaded[r][p] = sync[r]
                  \/ \E i \in 1..Len(loader[r].todo) : loader[r].todo[i].name = p
        /\ broadcast_load_buffer[r][h] = Of(b, sync[r]) /\ LoadedBefore(r, b)
    BY <1>2, <1>6 DEF Consumed
  <2>2. Len(loader[r].todo) = 0
    BY <1>2
  <2>3. Loaded(r, b)
    BY <2>1, <2>2 DEF Loaded
  <2>4. Loaded(r, b)' /\ LoadedBefore(r, b)'
    BY <1>2, <1>3, <2>1, <2>3, LoadedStays
  <2>5. (broadcast_load_buffer[r][h] = Of(b, sync[r]))'
    BY <1>2, <2>1 DEF Of
  <2>6. (request[r] = Nothing)'
    BY <1>2, <2>1 DEF Nothing
  <2> QED
    BY <1>5, <2>4, <2>5, <2>6 DEF Consumed
<1>7. ASSUME OverlapInv(r)
      PROVE  OverlapInv(r)'
  <2>1. main[r] \in {"copy", "broadcast", "ack", "last_ack"} /\ gidx[r] # 0
    BY <1>2, <1>7, LoadsBucket
  <2> QED
    BY <1>2, <1>3, <1>6, <1>7, <2>1, ConsumedMoves
<1> QED
  BY <1>1, <1>2, <1>7, ThreadMoves

\* Before the transfers nothing is claimed of them that does not hold.
LEMMA NothingMoved ==
    ASSUME Untouched, NEW r \in Ranks
    PROVE  SentInv /\ RankInv(r)
PROOF
<1>1. /\ main[r] = "idle" /\ sync[r] = 0 /\ joined[r] = 0 /\ sent = <<>>
      /\ Quiet(r, "none") /\ Len(sent) = 0
  BY DEF Untouched
<1>2. SentInv
  BY <1>1 DEF SentInv
<1>3. PlaceInv(r)
  BY <1>1 DEF PlaceInv, Done
<1>4. LoadInv(r)
  BY <1>1 DEF LoadInv, OverlapInv, PlainInv
<1>5. CopyInv(r)
  BY <1>1 DEF CopyInv
<1> QED
  BY <1>2, <1>3, <1>4, <1>5 DEF RankInv

LEMMA NothingMovedYet == Untouched => \A r \in Ranks : SentInv /\ RankInv(r)
PROOF
  BY NothingMoved

LEMMA NothingMovedNext == (Untouched => \A r \in Ranks : SentInv /\ RankInv(r))'
PROOF
  BY NothingMovedYet, PTL

LEMMA InitPlan ==
    ASSUME Numbers, Init
    PROVE  PlanInv
PROOF
<1>1. /\ weights_info \in [Params -> 1..MaxSize] /\ overlap \in BOOLEAN /\ assigned = 0
      /\ global_buckets = [a \in ActorRanks |-> <<EmptyBucket>>]
  BY DEF Init
<1>2. <<EmptyBucket>> \in Seq(BucketRecords) \ {<<>>}
  <2>1. <<>> \in Seq(TensorMetas)
    OBVIOUS
  <2>2. EmptyBucket \in BucketRecords
    BY <2>1 DEF EmptyBucket, BucketRecords
  <2> QED
    BY <2>2
<1>3. BucketSize \in Nat
  BY <1>1, LargestFits
<1>4. ASSUME NEW b \in Buckets
      PROVE  /\ BucketOf(b) = EmptyBucket /\ b.iter = 1
             /\ global_buckets[b.src] = <<EmptyBucket>>
  <2>1. PICK a \in ActorRanks : \E i \in DOMAIN global_buckets[a] : b = [iter |-> i, src |-> a]
    BY BucketsAre
  <2>2. PICK i \in DOMAIN global_buckets[a] : b = [iter |-> i, src |-> a]
    BY <2>1
  <2>3. global_buckets[a] = <<EmptyBucket>> /\ i = 1
    BY <1>1, <2>2
  <2> QED
    BY <2>2, <2>3 DEF BucketOf
<1>5. DOMAIN EmptyBucket.metas = {} /\ EmptyBucket.size = 0
  BY DEF EmptyBucket
<1>6. ASSUME NEW b \in Buckets
      PROVE  /\ LaidOut(BucketOf(b), b.src)
             /\ b.iter < Len(global_buckets[b.src]) => BucketOf(b).size # 0
             /\ \A p \in Params : Holds(b, p) => p <= assigned
  <2>0. BucketOf(b) = EmptyBucket /\ b.iter = 1 /\ global_buckets[b.src] = <<EmptyBucket>>
    BY <1>4
  <2>1. BucketOf(b) = EmptyBucket /\ b.iter = 1 /\ Len(global_buckets[b.src]) = 1
    BY <2>0
  <2>2. LaidOut(BucketOf(b), b.src)
    BY <1>3, <1>5, <2>1 DEF LaidOut
  <2>3. \A p \in Params : ~Holds(b, p)
    BY <1>5, <2>1 DEF Holds, Metas, BucketOf
  <2> QED
    BY <2>1, <2>2, <2>3
<1>7. 1..assigned = {} /\ assigned \in 0..ParamNum
  BY <1>1 DEF Numbers
<1>8. global_buckets \in [ActorRanks -> Seq(BucketRecords) \ {<<>>}]
  BY <1>1, <1>2
<1> QED
  BY <1>1, <1>6, <1>7, <1>8 DEF PlanInv

LEMMA InitHolds ==
    ASSUME Numbers, Init
    PROVE  IInv
PROOF
<1>1. PlanInv /\ FirstBucket \in Buckets
  BY InitPlan, BucketNames
<1>2. Untouched
  BY DEF Init, Untouched, Quiet
<1>3. \A r \in Ranks : SentInv /\ RankInv(r)
  BY <1>2, NothingMoved
<1>4. SentInv
  <2>1. 0 \in Ranks
    BY DEF Numbers, Ranks, ActorRanks
  <2> QED
    BY <1>3, <2>1
<1>5. Typed
  <2>1. 0 \in 0..MaxSyncs /\ 0 \in Nat /\ "idle" \in MainPlaces /\ NoBucket \in Contents
    BY NoBucketTyped DEF MainPlaces
  <2>2. (\A S : <<>> \in Seq(S))
    OBVIOUS
  <2>3. [state |-> "none", todo |-> <<>>, half |-> 0] \in
            [state : {"none", "ready", "load"}, todo : Seq(TensorMetas), half : {0, 1}]
    BY <2>2
  <2>4. /\ sync \in [Ranks -> 0..MaxSyncs] /\ main \in [Ranks -> MainPlaces]
        /\ turn \in [Ranks -> Buckets] /\ gidx \in [Ranks -> Nat] /\ joined \in [Ranks -> Nat]
        /\ memory_buffers \in [Ranks -> 0..MaxSyncs] /\ reply \in [Ranks -> BOOLEAN]
        /\ request = [q \in Ranks |-> request[q]]
    BY <1>1, <2>1 DEF Init
  <2>5. /\ h2d_buffer \in [ActorRanks -> Contents]
        /\ broadcast_load_buffer \in [Ranks -> [{0, 1} -> Contents]]
        /\ loaded \in [RolloutRanks -> [Params -> 0..MaxSyncs]]
    BY <2>1 DEF Init
  <2>6. loader \in [Ranks -> [state : {"none", "ready", "load"}, todo : Seq(TensorMetas),
                             half : {0, 1}]]
    BY <2>3 DEF Init
  <2>7. sent \in Seq(Contents)
    BY <2>2 DEF Init
  <2> QED
    BY <2>4, <2>5, <2>6, <2>7 DEF Typed
<1> QED
  BY <1>1, <1>2, <1>3, <1>4, <1>5 DEF IInv

LEMMA AssignKeeps ==
    ASSUME Numbers, IInv, AssignParameter
    PROVE  IInv'
PROOF
<1>1. PlanInv /\ Typed /\ Untouched
  BY DEF IInv, AssignParameter, PlanInv
<1>2. PlanInv'
  BY <1>1, PlanAssigned
<1>3. FirstBucket \in Buckets'
  <2>1. 0 \in ActorRanks
    BY DEF Numbers, ActorRanks
  <2>2. global_buckets'[0] \in Seq(BucketRecords) /\ global_buckets'[0] # <<>>
    BY <1>2, <2>1 DEF PlanInv
  <2>3. 1 \in DOMAIN global_buckets'[0]
    BY <2>2
  <2> QED
    BY <2>1, <2>3 DEF Buckets, FirstBucket
<1>4. rankVars' = rankVars
  BY DEF AssignParameter
<1>5. /\ sync' = sync /\ main' = main /\ turn' = turn /\ gidx' = gidx /\ joined' = joined
      /\ memory_buffers' = memory_buffers /\ h2d_buffer' = h2d_buffer
      /\ broadcast_load_buffer' = broadcast_load_buffer /\ sent' = sent
      /\ request' = request /\ reply' = reply /\ loader' = loader /\ loaded' = loaded
  BY <1>4 DEF rankVars
<1>6. Untouched'
  BY <1>1, <1>5 DEF Untouched, Quiet, Nothing, FirstBucket
<1>7. turn' \in [Ranks -> Buckets']
  <2>1. \A r \in Ranks : turn'[r] = FirstBucket
    BY <1>1, <1>5 DEF Untouched
  <2>2. turn' = [r \in Ranks |-> turn'[r]]
    BY <1>1, <1>5 DEF Typed
  <2> QED
    BY <1>3, <2>1, <2>2
<1>8. Typed'
  BY <1>1, <1>5, <1>7 DEF Typed
<1>9. \A r \in Ranks : (SentInv /\ RankInv(r))'
  BY <1>6, NothingMovedNext
<1>10. SentInv'
  <2>1. 0 \in Ranks
    BY DEF Numbers, Ranks, ActorRanks
  <2> QED
    BY <1>9, <2>1
<1> QED
  BY <1>2, <1>6, <1>8, <1>9, <1>10 DEF IInv

LEMMA StutterKeeps ==
    ASSUME IInv, UNCHANGED vars
    PROVE  IInv'
PROOF
<1>1. UNCHANGED plan /\ rankVars' = rankVars /\ SamePlan /\ PlanInv'
  BY PlanStays DEF vars, IInv
<1>2. /\ sync' = sync /\ main' = main /\ turn' = turn /\ gidx' = gidx /\ joined' = joined
      /\ memory_buffers' = memory_buffers /\ h2d_buffer' = h2d_buffer
      /\ broadcast_load_buffer' = broadcast_load_buffer /\ sent' = sent
      /\ request' = request /\ reply' = reply /\ loader' = loader /\ loaded' = loaded
  BY <1>1 DEF rankVars
<1>3. assigned' = assigned /\ Buckets' = Buckets
  BY <1>1 DEF SamePlan
<1>4. Typed'
  BY <1>2, <1>3 DEF Typed, IInv
<1>5. SentInv' /\ \A q \in Ranks : SentGrows(q)
  BY <1>1, <1>2, SentSame
<1>6. \A q \in Ranks : SameRank(q)
  BY <1>2 DEF SameRank
<1>7. \A q \in Ranks : RankInv(q)'
  BY <1>1, <1>4, <1>5, <1>6, RankStays DEF IInv
<1>8. assigned' # ParamNum => Untouched'
  BY <1>2, <1>3 DEF IInv, Untouched, Quiet, Nothing, FirstBucket
<1> QED
  BY <1>1, <1>4, <1>5, <1>7, <1>8 DEF IInv

LEMMA RankSteps ==
    ASSUME Numbers, IInv, NEW r \in Ranks, MainStep(r) \/ LoaderStep(r)
    PROVE  RankStep(r) /\ assigned = ParamNum
PROOF
<1>1. RankStep(r)
  <2>1. CASE MainStep(r)
    BY <2>1, RegisterStep, BeginStep, CopyStep, BroadcastStep, LoadInPlaceStep, ReceiveAckStep,
       SendMetasStep, SendNoneStep, JoinStep, LeaveStep DEF MainStep
  <2>2. CASE LoaderStep(r)
    BY <2>2, ReceiveStep, LoadTensorStep, AnswerStep DEF LoaderStep
  <2> QED
    BY <2>1, <2>2
<1>2. assigned = ParamNum
  <2>1. CASE RegisterCheckpoint(r)
    BY <2>1 DEF RegisterCheckpoint
  <2>2. CASE MainStep(r) /\ ~RegisterCheckpoint(r)
    <3>1. main[r] # "idle"
      BY <2>2 DEF MainStep, BeginUpdate, CopyToDevice, Broadcast, LoadInPlace, ReceiveAck,
                  SendMetas, SendNone, JoinThread, EnterLastBarrier, EndUpdate
    <3> QED
      BY <3>1, PlanComplete
  <2>3. CASE LoaderStep(r)
    <3>1. loader[r].state # "none"
      BY <2>3 DEF LoaderStep, ReceiveRequest, LoadTensor, AnswerLoaded
    <3> QED
      BY <3>1, PlanComplete
  <2> QED
    BY <2>1, <2>2, <2>3
<1> QED
  BY <1>1, <1>2

LEMMA NextKeeps ==
    ASSUME Numbers, IInv, [Next]_vars
    PROVE  IInv'
PROOF
<1>1. CASE AssignParameter
  BY <1>1, AssignKeeps
<1>2. CASE \E r \in Ranks : MainStep(r) \/ LoaderStep(r)
  <2>1. PICK r \in Ranks : MainStep(r) \/ LoaderStep(r)
    BY <1>2
  <2> QED
    BY <2>1, RankSteps, StepKeeps
<1>3. CASE Ended
  BY <1>3, StutterKeeps DEF Ended
<1>4. CASE UNCHANGED vars
  BY <1>4, StutterKeeps
<1> QED
  BY <1>1, <1>2, <1>3, <1>4 DEF Next

LEMMA InvariantSuffices ==
    ASSUME Numbers, IInv
    PROVE  TypeOK /\ BucketsHoldAll /\ WeightsAgree
PROOF
<1>1. PlanInv /\ Typed
  BY DEF IInv
<1>2. ASSUME NEW r \in Ranks
      PROVE  joined[r] \in 0..Len(sent) /\ request[r].kind \in {"nothing", "hello", "metas", "done"}
  <2>1. /\ joined[r] \in Nat /\ Len(sent) \in Nat /\ PlaceInv(r) /\ LoadInv(r)
        /\ main[r] \in MainPlaces
    BY RankFacts
  <2>2. joined[r] \in 0..Len(sent)
    BY <2>1 DEF PlaceInv
  <2>3. request[r] = Nothing => request[r].kind = "nothing"
    BY DEF Nothing
  <2>4. CASE ~overlap
    BY <2>1, <2>2, <2>3, <2>4 DEF LoadInv, PlainInv, Quiet
  <2>5. CASE overlap
    <3>1. OverlapInv(r)
      BY <2>1, <2>5 DEF LoadInv
    <3>2. \A s : Quiet(r, s) => request[r].kind = "nothing"
      BY <2>3 DEF Quiet
    <3>3. Greeted(r) => request[r].kind \in {"nothing", "hello"}
      BY <2>3 DEF Greeted
    <3>4. Dismissed(r) => request[r].kind \in {"nothing", "done"}
      BY <2>3 DEF Dismissed
    <3>5. \A b, h : Consumed(r, b, h) => request[r].kind \in {"nothing", "metas"}
      BY <2>3 DEF Consumed
    <3>6. CASE main[r] \in {"copy", "broadcast", "ack"}
      BY <2>2, <3>1, <3>3, <3>5, <3>6 DEF OverlapInv
    <3>7. CASE main[r] \notin {"copy", "broadcast", "ack"}
      BY <2>1, <2>2, <3>1, <3>2, <3>4, <3>5, <3>7 DEF OverlapInv, MainPlaces
    <3> QED
      BY <3>6, <3>7
  <2> QED
    BY <2>4, <2>5
<1>3. TypeOK
  <2>1. joined \in [Ranks -> 0..Len(sent)]
    BY <1>1, <1>2 DEF Typed
  <2>2. assigned \in 0..ParamNum
    BY <1>1 DEF PlanInv
  <2> QED
    BY <1>1, <1>2, <2>1, <2>2 DEF Typed, TypeOK
<1>4. BucketsHoldAll
  <2>1. assigned = ParamNum =>
        \A p \in Params :
            \E b \in Buckets : Holds(b, p) /\ \A c \in Buckets : Holds(c, p) => c = b
    BY <1>1 DEF PlanInv, Params
  <2>2. \A b \in Buckets : /\ LaidOut(BucketOf(b), b.src)
                           /\ b.iter < Len(global_buckets[b.src]) => BucketOf(b).size # 0
    BY <1>1 DEF PlanInv
  <2> QED
    BY <2>1, <2>2 DEF BucketsHoldAll, LaidOut, BucketOf
<1>5. WeightsAgree
  <2> SUFFICES ASSUME NEW r \in RolloutRanks, main[r] \in {"finish", "leaving", "idle"}, sync[r] > 0,
                      NEW p \in Params
               PROVE  loaded[r][p] = sync[r]
    BY DEF WeightsAgree
  <2>1. r \in Ranks
    BY DEF Ranks
  <2>2. LoadInv(r) /\ PlaceInv(r) /\ sync[r] \in Nat
    BY <2>1, RankFacts
  <2>3. LoadedAll(r)
    BY <2>2 DEF LoadInv
  <2>4. assigned = ParamNum
    BY <2>1, <2>2 DEF IInv, Untouched
  <2>5. PICK b \in Buckets : Holds(b, p)
    <3>1. p \in 1..assigned
      BY <2>4 DEF Params
    <3> QED
      BY <1>1, <3>1 DEF PlanInv
  <2> QED
    BY <2>3, <2>5 DEF LoadedAll, Loaded
<1> QED
  BY <1>3, <1>4, <1>5

LEMMA InvariantHolds == ASSUME Numbers PROVE SafetySpec => []IInv
PROOF
<1>1. Init => IInv
  BY InitHolds
<1>2. IInv /\ [Next]_vars => IInv'
  BY NextKeeps
<1> QED
  BY <1>1, <1>2, PTL DEF SafetySpec

-----------------------------------------------------------------------------
(* The theorems *)

\* The buckets of register_checkpoint hold every parameter once, on the rank that
\* caches it, one tensor behind the other within the size of the buffers, and no
\* bucket is closed while it is empty: the assertion before a bucket is put away.
THEOREM BucketsHoldEverything == ASSUME Numbers PROVE Spec => []BucketsHoldAll
PROOF
<1>1. IInv => BucketsHoldAll
  BY InvariantSuffices
<1> QED
  BY <1>1, InvariantHolds, PTL DEF Spec, SafetySpec

\* A rollout rank that leaves a synchronization has the values of that
\* synchronization in every parameter, although the next bucket is broadcast
\* while its thread loads and the actor ranks go on to the next synchronization.
THEOREM RanksGetTheWeights == ASSUME Numbers PROVE Spec => []WeightsAgree
PROOF
<1>1. IInv => WeightsAgree
  BY InvariantSuffices
<1> QED
  BY <1>1, InvariantHolds, PTL DEF Spec, SafetySpec
=============================================================================
