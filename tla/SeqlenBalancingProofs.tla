------------------------ MODULE SeqlenBalancingProofs -------------------------
(* Proofs about karmarkar_karp, for any number of items, partitions and any   *)
(* workloads that are natural numbers.                                        *)
EXTENDS SeqlenBalancing, FiniteSetTheorems, TLAPS

\* What is assumed of the constants.
Numbers == MaxItems \in Nat /\ MaxParts \in Nat /\ Workloads \subseteq Nat

\* The specification without its fairness.
SafetySpec == Init /\ [][Next]_vars

-----------------------------------------------------------------------------
(* Types *)

\* Multiplication is monotone: chunk c of m chunks of size q ends by m * q.
LEMMA ChunkEnds ==
    ASSUME NEW c \in Nat, NEW m \in Nat, NEW q \in Nat, c < m
    PROVE  c * q \in Nat /\ c * q + q <= m * q
<1> DEFINE d == m - c - 1
<1>1. d \in Nat /\ m = c + 1 + d
    OBVIOUS
<1>2. d * q \in Nat /\ c * q \in Nat
    BY <1>1
<1>3. (c + 1 + d) * q = c * q + q + d * q
    BY <1>1
<1>. QED
    BY <1>1, <1>2, <1>3

\* The places of a chunk hold items.
LEMMA ChunkItems ==
    ASSUME NEW c \in Nat, NEW m \in Nat, c < m, n = m * k, k \in Nat \ {0}, NEW p \in Places
    PROVE  c * k + k + 1 - p \in Items
BY ChunkEnds DEF Places, Items

\* The merge of two states is a state.
LEMMA MergedType ==
    ASSUME TypeOK, NEW s \in [Places -> ItemSets], NEW t \in [Places -> ItemSets],
           NEW v \in Sortings(Pairwise(s, t))
    PROVE  v \in [Places -> ItemSets]
<1>1. Pairwise(s, t) \in [Places -> ItemSets]
    BY DEF Pairwise, ItemSets, Places, TypeOK
<1>. QED
    BY <1>1 DEF Sortings

\* A merged state is a permutation of the pairwise unions, and descends.
LEMMA MergedIs ==
    ASSUME NEW u, NEW v \in Sortings(u)
    PROVE  /\ Descending(v)
           /\ \E p \in [Places -> Places] :
                IsPermutation(p) /\ v = [i \in Places |-> u[p[i]]]
BY DEF Sortings

LEMMA TypeInvariant == ASSUME Numbers PROVE SafetySpec => []TypeOK
<1>1. Init => TypeOK
    <2> SUFFICES ASSUME Init PROVE TypeOK
        OBVIOUS
    <2>1. n \in Nat \ {0} /\ k \in 1..n /\ equal_size \in BOOLEAN /\ workloads \in [Items -> Nat]
        <3>1. n \in 1..MaxItems /\ k \in 1..MaxParts /\ k <= n /\ equal_size \in BOOLEAN
            BY DEF Init
        <3>2. n \in Nat \ {0} /\ k \in 1..n
            BY <3>1 DEF Numbers
        <3>3. workloads \in [Items -> Workloads]
            BY DEF Init
        <3>4. workloads \in [Items -> Nat]
            BY <3>3 DEF Numbers
        <3>. QED
            BY <3>1, <3>2, <3>4
    <2>2. \A i \in Items : Only(i) \in ItemSets
        BY <2>1 DEF Only, ItemSets
    <2>3. None \in ItemSets
        BY DEF None, ItemSets
    <2>4. states_pq \subseteq [Places -> ItemSets]
        <3>1. CASE equal_size
            <4>1. PICK m \in Items : n = m * k /\ states_pq = {Chunk(c) : c \in 0..(m - 1)}
                BY <3>1 DEF Init
            <4>2. \A c \in 0..(m - 1) : Chunk(c) \in [Places -> ItemSets]
                <5> TAKE c \in 0..(m - 1)
                <5>1. m \in Nat /\ c \in Nat /\ c < m /\ k \in Nat \ {0} /\ n = m * k
                    BY <2>1, <4>1 DEF Items
                <5>2. \A p \in Places : c * k + k + 1 - p \in Items
                    BY <5>1, ChunkItems
                <5>. QED
                    BY <5>2, <2>2 DEF Chunk
            <4>. QED
                BY <4>1, <4>2
        <3>2. CASE ~equal_size
            BY <2>2, <2>3, <3>2 DEF Init, Alone
        <3>. QED
            BY <3>1, <3>2
    <2>. QED
        BY <2>1, <2>4 DEF TypeOK, Init
<1>2. TypeOK /\ [Next]_vars => TypeOK'
    <2> SUFFICES ASSUME TypeOK, [Next]_vars PROVE TypeOK'
        OBVIOUS
    <2>1. CASE Merge
        <3>1. states_pq' \subseteq [Places -> ItemSets]
            BY <2>1, MergedType DEF Merge, First, TypeOK
        <3>. QED
            BY <2>1, <3>1 DEF Merge, TypeOK, Places, Items, ItemSets
    <2>2. CASE Return
        BY <2>2 DEF Return, TypeOK, Places, Items, ItemSets
    <2>3. CASE UNCHANGED vars
        BY <2>3 DEF vars, TypeOK, Places, Items, ItemSets
    <2>. QED
        BY <2>1, <2>2, <2>3 DEF Next, Returned
<1>. QED
    BY <1>1, <1>2, PTL DEF SafetySpec

\* karmarkar_karp is type-correct.
THEOREM TypeCorrect == ASSUME Numbers PROVE Spec => []TypeOK
    BY TypeInvariant, PTL DEF Spec, SafetySpec

-----------------------------------------------------------------------------
(* The spread of a state *)

\* What the sets of a merged state are made of.
LEMMA MergedSets ==
    ASSUME NEW s, NEW t, NEW v \in Sortings(Pairwise(s, t))
    PROVE  \E a \in [Places -> Places] :
               /\ IsPermutation(a)
               /\ \A i \in Places :
                    /\ v[i].sum = s[a[i]].sum + t[k + 1 - a[i]].sum
                    /\ v[i].items = s[a[i]].items \cup t[k + 1 - a[i]].items
<1>1. PICK a \in [Places -> Places] :
          IsPermutation(a) /\ v = [i \in Places |-> Pairwise(s, t)[a[i]]]
    BY MergedIs
<1>2. \A j \in Places : Pairwise(s, t)[j] = [sum |-> s[j].sum + t[k + 1 - j].sum,
                                             items |-> s[j].items \cup t[k + 1 - j].items]
    BY DEF Pairwise
<1>3. \A i \in Places : v[i] = [sum |-> s[a[i]].sum + t[k + 1 - a[i]].sum,
                                items |-> s[a[i]].items \cup t[k + 1 - a[i]].items]
    BY <1>1, <1>2
<1>4. \A i \in Places : /\ v[i].sum = s[a[i]].sum + t[k + 1 - a[i]].sum
                        /\ v[i].items = s[a[i]].items \cup t[k + 1 - a[i]].items
    <2> TAKE i \in Places
    <2>. DEFINE total == s[a[i]].sum + t[k + 1 - a[i]].sum
                union == s[a[i]].items \cup t[k + 1 - a[i]].items
    <2>1. v[i] = [sum |-> total, items |-> union]
        BY <1>3
    <2>. HIDE DEF total, union
    <2>2. v[i].sum = total /\ v[i].items = union
        BY <2>1
    <2>. QED
        BY <2>2 DEF total, union
<1>. WITNESS a \in [Places -> Places]
<1>. QED
    BY <1>1, <1>4

\* Every pair of workloads of ordered items differs by at most the bound.
LEMMA WorkloadsWithin ==
    ASSUME TypeOK, \A i, j \in Items : i <= j => workloads[i] <= workloads[j],
           NEW i \in Items, NEW j \in Items, j <= i
    PROVE  /\ workloads[i] - workloads[j] \in 0..(workloads[n] - workloads[1])
           /\ workloads[i] \in 0..workloads[n]
<1>1. 1 \in Items /\ n \in Items /\ 1 <= j /\ i <= n
    BY DEF TypeOK, Items
<1>2. workloads[1] \in Nat /\ workloads[j] \in Nat /\ workloads[i] \in Nat /\ workloads[n] \in Nat
    BY <1>1 DEF TypeOK
<1>3. workloads[1] <= workloads[j] /\ workloads[j] <= workloads[i] /\ workloads[i] <= workloads[n]
    BY <1>1
<1>. QED
    BY <1>2, <1>3

\* A merge keeps the spread: opposite places are added.
LEMMA MergedSpread ==
    ASSUME TypeOK, SpreadBounded, NEW s \in states_pq, NEW t \in states_pq,
           NEW v \in Sortings(Pairwise(s, t)), Bound \in Nat
    PROVE  \A i, j \in Places : i < j => v[i].sum - v[j].sum \in 0..Bound
<1>1. PICK a \in [Places -> Places] : \A i \in Places :
          v[i].sum = s[a[i]].sum + t[k + 1 - a[i]].sum
    BY MergedSets
<1>2. TAKE i, j \in Places
<1>3. HAVE i < j
<1>. DEFINE x == a[i]
            y == a[j]
            x1 == k + 1 - x
            y1 == k + 1 - y
<1>4. x \in Places /\ y \in Places /\ x1 \in Places /\ y1 \in Places
    <2>1. x \in Places /\ y \in Places
        OBVIOUS
    <2>2. k \in Nat
        BY DEF TypeOK
    <2>. HIDE DEF x, y
    <2>. QED
        BY <2>1, <2>2 DEF Places
<1>5. /\ s[x].sum \in Nat /\ s[y].sum \in Nat /\ t[x1].sum \in Nat /\ t[y1].sum \in Nat
    BY <1>4 DEF TypeOK, ItemSets
<1>6. v[i].sum >= v[j].sum
    <2>1. Descending(v)
        BY MergedIs
    <2>2. ~(v[i].sum < v[j].sum)
        BY <2>1, <1>3 DEF Descending, Less
    <2>. QED
        BY <2>2, <1>1, <1>5
<1>7. v[i].sum - v[j].sum <= Bound
    <2>1. CASE x = y
        BY <2>1, <1>1, <1>5
    <2>2. CASE x < y
        <3>1. s[x].sum - s[y].sum \in 0..Bound
            BY <2>2, <1>4 DEF SpreadBounded
        <3>2. y1 < x1
            BY <2>2, <1>4 DEF Places, TypeOK
        <3>3. t[y1].sum - t[x1].sum \in 0..Bound
            BY <3>2, <1>4 DEF SpreadBounded
        <3>4. v[i].sum = s[x].sum + t[x1].sum /\ v[j].sum = s[y].sum + t[y1].sum
            BY <1>1
        <3>. HIDE DEF x, y, x1, y1
        <3>. QED
            BY <3>1, <3>3, <3>4, <1>5
    <2>3. CASE y < x
        <3>1. s[y].sum - s[x].sum \in 0..Bound
            BY <2>3, <1>4 DEF SpreadBounded
        <3>2. x1 < y1
            BY <2>3, <1>4 DEF Places, TypeOK
        <3>3. t[x1].sum - t[y1].sum \in 0..Bound
            BY <3>2, <1>4 DEF SpreadBounded
        <3>4. v[i].sum = s[x].sum + t[x1].sum /\ v[j].sum = s[y].sum + t[y1].sum
            BY <1>1
        <3>. HIDE DEF x, y, x1, y1
        <3>. QED
            BY <3>1, <3>3, <3>4, <1>5
    <2>. QED
        BY <2>1, <2>2, <2>3, <1>4 DEF Places, TypeOK
<1>. QED
    BY <1>1, <1>4, <1>5, <1>6, <1>7

\* The bound is a number as long as the items are sorted.
Sorted == \A i, j \in Items : i <= j => workloads[i] <= workloads[j]

LEMMA BoundType == ASSUME TypeOK, Sorted PROVE Bound \in Nat
<1>1. 1 \in Items /\ n \in Items
    BY DEF TypeOK, Items
<1>. QED
    BY <1>1, WorkloadsWithin DEF Sorted, Bound, TypeOK, Items

LEMMA SpreadInvariant == ASSUME Numbers PROVE SafetySpec => []SpreadBounded
<1>. DEFINE IInv == TypeOK /\ Sorted /\ SpreadBounded
<1>1. Init /\ TypeOK => IInv
    <2> SUFFICES ASSUME Init, TypeOK PROVE Sorted /\ SpreadBounded
        OBVIOUS
    <2>1. Sorted
        BY DEF Init, Sorted
    <2>2. ASSUME NEW s \in states_pq, NEW i \in Places, NEW j \in Places, i < j
          PROVE  s[i].sum - s[j].sum \in 0..Bound
        <3>1. CASE equal_size
            <4>1. PICK m \in Items : n = m * k /\ states_pq = {Chunk(c) : c \in 0..(m - 1)}
                BY <3>1 DEF Init
            <4>2. PICK c \in 0..(m - 1) : s = Chunk(c)
                BY <4>1, <2>2
            <4>3. m \in Nat /\ c \in Nat /\ c < m /\ k \in Nat \ {0}
                BY <4>1 DEF TypeOK, Items
            <4>. DEFINE x == c * k + k + 1 - i
                        y == c * k + k + 1 - j
            <4>4. x \in Items /\ y \in Items
                BY <4>1, <4>3, <2>2, ChunkItems
            <4>5. y <= x
                BY <4>3, <2>2, c * k \in Nat DEF Places
            <4>6. s[i].sum = workloads[x] /\ s[j].sum = workloads[y]
                BY <4>2, <2>2 DEF Chunk, Only
            <4>. HIDE DEF x, y
            <4>. QED
                BY <4>4, <4>5, <4>6, <3>1, <2>1, WorkloadsWithin DEF Sorted, Bound
        <3>2. CASE ~equal_size
            <4>1. PICK x \in Items : s = Alone(x)
                BY <3>2, <2>2 DEF Init
            <4>2. s[j].sum = 0 /\ (s[i].sum = 0 \/ s[i].sum = workloads[x])
                BY <4>1, <2>2 DEF Alone, Only, None, Places, TypeOK
            <4>3. workloads[x] \in 0..workloads[n] /\ workloads[x] \in Nat
                BY <2>1, WorkloadsWithin DEF Sorted, Items, TypeOK
            <4>4. Bound = workloads[n] /\ Bound \in Nat
                BY <2>1, BoundType, <3>2 DEF Bound
            <4>. QED
                BY <4>2, <4>3, <4>4
        <3>. QED
            BY <3>1, <3>2
    <2>. QED
        BY <2>1, <2>2 DEF SpreadBounded
<1>2. IInv /\ TypeOK' /\ [Next]_vars => IInv'
    <2> SUFFICES ASSUME IInv, TypeOK', [Next]_vars PROVE Sorted' /\ SpreadBounded'
        OBVIOUS
    <2>1. CASE Merge
        <3>1. Sorted' /\ Bound' = Bound /\ Places' = Places
            BY <2>1 DEF Merge, Sorted, Bound, Places, Items
        <3>2. PICK s \in states_pq, t \in states_pq : \E merged \in Sortings(Pairwise(s, t)) :
                  states_pq' = (states_pq \ {s, t}) \cup {merged}
            BY <2>1 DEF Merge, First
        <3>4. PICK v \in Sortings(Pairwise(s, t)) : states_pq' = (states_pq \ {s, t}) \cup {v}
            BY <3>2
        <3>3. \A i, j \in Places : i < j => v[i].sum - v[j].sum \in 0..Bound
            BY BoundType, MergedSpread
        <3>. QED
            BY <3>1, <3>3, <3>4 DEF SpreadBounded
    <2>2. CASE Return
        BY <2>2 DEF Return, Sorted, SpreadBounded, Bound, Places, Items
    <2>3. CASE UNCHANGED vars
        BY <2>3 DEF vars, Sorted, SpreadBounded, Bound, Places, Items
    <2>. QED
        BY <2>1, <2>2, <2>3 DEF Next, Returned
<1>. QED
    BY <1>1, <1>2, TypeInvariant, PTL DEF SafetySpec

\* The sums of every state descend and differ by at most the largest difference
\* an initial state may have, whatever the workloads are.
THEOREM SpreadIsBounded == ASSUME Numbers PROVE Spec => []SpreadBounded
    BY SpreadInvariant, PTL DEF Spec, SafetySpec

-----------------------------------------------------------------------------
(* Where the items are *)

\* No item is in two sets of the heap.
Separate ==
    \A s, t \in states_pq : \A p, q \in Places : \A i \in Items :
        i \in s[p].items /\ i \in t[q].items => s = t /\ p = q

\* Every item is in some set of the heap.
Covered == \A i \in Items : \E s \in states_pq : \E p \in Places : i \in s[p].items

\* What has been returned are the sets of the last state.
LastReturned ==
    partitions # <<>> =>
        \E s \in states_pq : states_pq = {s} /\ partitions = [p \in Places |-> s[p].items]

ItemsInv == TypeOK /\ Separate /\ Covered /\ LastReturned

\* An item of a merged state was in exactly one of the two.
LEMMA MergedItems ==
    ASSUME TypeOK, NEW s \in states_pq, NEW t \in states_pq, NEW v \in Sortings(Pairwise(s, t))
    PROVE  \E a \in [Places -> Places] :
               /\ \A i \in Places : k + 1 - a[i] \in Places
               /\ \A i, j \in Places : a[i] = a[j] => i = j
               /\ \A j \in Places : \E i \in Places : a[i] = j
               /\ \A i \in Places : v[i].items = s[a[i]].items \cup t[k + 1 - a[i]].items
<1>1. PICK a \in [Places -> Places] :
          /\ IsPermutation(a)
          /\ \A i \in Places : v[i].items = s[a[i]].items \cup t[k + 1 - a[i]].items
    BY MergedSets
<1>2. \A i, j \in Places : a[i] = a[j] => i = j
    BY <1>1 DEF IsPermutation
<1>3. \A j \in Places : \E i \in Places : a[i] = j
    BY <1>1 DEF IsPermutation
<1>4. \A x \in Places : k + 1 - x \in Places
    BY DEF Places, TypeOK
<1>. WITNESS a \in [Places -> Places]
<1>. QED
    BY <1>1, <1>2, <1>3, <1>4

\* Merging keeps every item in exactly one set.
LEMMA MergeKeepsItems == ASSUME ItemsInv, Merge PROVE (Separate /\ Covered)'
<1>1. PICK s \in states_pq, t \in states_pq : s # t /\ \E merged \in Sortings(Pairwise(s, t)) :
          states_pq' = (states_pq \ {s, t}) \cup {merged}
    BY DEF Merge, First
<1>2. PICK v \in Sortings(Pairwise(s, t)) : states_pq' = (states_pq \ {s, t}) \cup {v}
    BY <1>1
<1>3. PICK a \in [Places -> Places] :
          /\ \A i \in Places : k + 1 - a[i] \in Places
          /\ \A i, j \in Places : a[i] = a[j] => i = j
          /\ \A j \in Places : \E i \in Places : a[i] = j
          /\ \A i \in Places : v[i].items = s[a[i]].items \cup t[k + 1 - a[i]].items
    BY MergedItems DEF ItemsInv
<1>4. Places' = Places /\ Items' = Items
    BY DEF Merge, Places, Items
<1>5. ASSUME NEW r \in states_pq \ {s, t}, NEW p \in Places, NEW q \in Places, NEW i \in Items,
             i \in v[p].items, i \in r[q].items
      PROVE  FALSE
    <2>1. i \in s[a[p]].items \/ i \in t[k + 1 - a[p]].items
        BY <1>3, <1>5
    <2>. QED
        BY <2>1, <1>3, <1>5 DEF ItemsInv, Separate
<1>6. ASSUME NEW p \in Places, NEW q \in Places, NEW i \in Items,
             i \in v[p].items, i \in v[q].items
      PROVE  p = q
    <2>. DEFINE p1 == k + 1 - a[p]
                q1 == k + 1 - a[q]
    <2>1. i \in s[a[p]].items \/ i \in t[p1].items
        BY <1>3, <1>6
    <2>2. i \in s[a[q]].items \/ i \in t[q1].items
        BY <1>3, <1>6
    <2>3. a[p] \in Places /\ a[q] \in Places /\ p1 \in Places /\ q1 \in Places
        BY <1>3
    <2>4. p1 = q1 => a[p] = a[q]
        <3>1. k \in Int /\ a[p] \in Int /\ a[q] \in Int
            BY <2>3 DEF TypeOK, ItemsInv, Places
        <3>. QED
            BY <3>1
    <2>. HIDE DEF p1, q1
    <2>5. a[p] = a[q]
        BY <1>1, <2>1, <2>2, <2>3, <2>4 DEF ItemsInv, Separate
    <2>. QED
        BY <2>5, <1>3
<1>7. Separate'
    BY <1>2, <1>4, <1>5, <1>6 DEF ItemsInv, Separate
<1>8. ASSUME NEW i \in Items
      PROVE  \E r \in states_pq' : \E p \in Places : i \in r[p].items
    <2>1. PICK r \in states_pq : \E q \in Places : i \in r[q].items
        BY DEF ItemsInv, Covered
    <2>2. PICK q \in Places : i \in r[q].items
        BY <2>1
    <2>3. CASE r \notin {s, t}
        BY <1>2, <2>2, <2>3
    <2>4. CASE r = s
        <3>1. PICK p \in Places : a[p] = q
            BY <1>3
        <3>2. i \in v[p].items
            BY <1>3, <3>1, <2>2, <2>4
        <3>. QED
            BY <3>2, <1>2
    <2>5. CASE r = t
        <3>1. k + 1 - q \in Places /\ k + 1 - (k + 1 - q) = q
            BY DEF ItemsInv, TypeOK, Places
        <3>2. PICK p \in Places : a[p] = k + 1 - q
            BY <1>3, <3>1
        <3>3. i \in v[p].items
            BY <1>3, <3>1, <3>2, <2>2, <2>5
        <3>. QED
            BY <3>3, <1>2
    <2>. QED
        BY <2>3, <2>4, <2>5
<1>9. Covered'
    BY <1>4, <1>8 DEF Covered
<1>. QED
    BY <1>7, <1>9

\* What is returned is whole: only one state is left.
LEMMA ReturnedOnce == ASSUME LastReturned, [Next]_vars PROVE LastReturned'
<1>1. CASE Merge
    <2>1. partitions = <<>>
        BY <1>1 DEF Merge, First, LastReturned
    <2>. QED
        BY <2>1, <1>1 DEF Merge, LastReturned
<1>2. CASE Return
    BY <1>2 DEF Return, LastReturned, Places
<1>3. CASE UNCHANGED vars
    BY <1>3 DEF vars, LastReturned, Places
<1>. QED
    BY <1>1, <1>2, <1>3 DEF Next, Returned

\* The items of two chunks, or of two places of a chunk, differ.
LEMMA ChunkOf ==
    ASSUME NEW c \in Nat, NEW d \in Nat, TypeOK, NEW p \in Places, NEW q \in Places,
           c * k + k + 1 - p = d * k + k + 1 - q
    PROVE  c = d /\ p = q
<1>1. k \in Nat \ {0} /\ p \in Nat /\ q \in Nat /\ p >= 1 /\ q >= 1 /\ p <= k /\ q <= k
    BY DEF TypeOK, Places
<1>2. c * k \in Nat /\ d * k \in Nat
    BY <1>1
<1>3. ~(c < d)
    <2>1. c < d => c * k + k <= d * k
        BY <1>1, ChunkEnds
    <2>. QED
        BY <2>1, <1>1, <1>2
<1>4. ~(d < c)
    <2>1. d < c => d * k + k <= c * k
        BY <1>1, ChunkEnds
    <2>. QED
        BY <2>1, <1>1, <1>2
<1>5. c = d
    BY <1>3, <1>4
<1>. QED
    BY <1>5, <1>1, <1>2

\* Every item is in a chunk.
LEMMA ChunkFor ==
    ASSUME TypeOK, NEW m \in Nat, n = m * k, NEW i \in Items
    PROVE  \E c \in 0..(m - 1) : \E p \in Places : i = c * k + k + 1 - p
<1>. DEFINE c == (i - 1) \div k
            r == (i - 1) - k * c
<1>1. i - 1 \in Nat /\ i <= n /\ k \in Nat \ {0}
    BY DEF Items, TypeOK
<1>2. c \in Int /\ r \in 0..(k - 1)
    BY <1>1
<1>. HIDE DEF c
<1>3. c * k \in Int /\ i - 1 = c * k + r
    BY <1>1, <1>2
<1>. HIDE DEF r
<1>4. c >= 0
    <2>1. SUFFICES ASSUME c < 0 PROVE FALSE
        BY <1>2
    <2>. DEFINE d == -1 - c
    <2>2. d \in Nat /\ c = -1 - d
        BY <1>2, <2>1
    <2>3. d * k \in Nat /\ c * k = -k - d * k
        BY <1>1, <2>2
    <2>. HIDE DEF d
    <2>. QED
        BY <1>1, <1>2, <1>3, <2>3
<1>5. c < m
    <2>1. SUFFICES ASSUME c >= m PROVE FALSE
        BY <1>2
    <2>. DEFINE d == c - m
    <2>2. d \in Nat /\ c = m + d
        BY <1>2, <2>1
    <2>3. d * k \in Nat /\ m * k \in Nat /\ c * k = m * k + d * k
        BY <1>1, <2>2
    <2>. HIDE DEF d
    <2>4. c * k >= n
        BY <2>3
    <2>. DEFINE z == c * k
    <2>5. z \in Int /\ i - 1 = z + r /\ z >= n
        BY <1>3, <2>4
    <2>. HIDE DEF z
    <2>. QED
        BY <1>1, <1>2, <2>5 DEF TypeOK, Items
<1>. DEFINE p == k - r
<1>6. p \in Places /\ i = c * k + k + 1 - p
    <2>. DEFINE z == c * k
    <2>1. z \in Int /\ i - 1 = z + r
        BY <1>3
    <2>. HIDE DEF z
    <2>2. p \in Places /\ i = z + k + 1 - p
        BY <1>1, <1>2, <2>1 DEF Places, Items
    <2>. QED
        BY <2>2 DEF z
<1>7. c \in 0..(m - 1)
    BY <1>2, <1>4, <1>5
<1>. QED
    BY <1>6, <1>7

\* At first every item is in one set.
LEMMA InitItems == ASSUME Init, TypeOK PROVE Separate /\ Covered
<1>1. CASE equal_size
    <2>1. PICK m \in Items : n = m * k /\ states_pq = {Chunk(c) : c \in 0..(m - 1)}
        BY <1>1 DEF Init
    <2>2. m \in Nat
        BY <2>1 DEF Items
    <2>3. \A c \in 0..(m - 1) : \A p \in Places : Chunk(c)[p].items = {c * k + k + 1 - p}
        BY DEF Chunk, Only
    <2>4. Separate
        <3> SUFFICES ASSUME NEW s \in states_pq, NEW t \in states_pq, NEW p \in Places,
                            NEW q \in Places, NEW i \in Items,
                            i \in s[p].items, i \in t[q].items
                     PROVE  s = t /\ p = q
            BY DEF Separate
        <3>1. PICK c \in 0..(m - 1) : s = Chunk(c)
            BY <2>1
        <3>2. PICK d \in 0..(m - 1) : t = Chunk(d)
            BY <2>1
        <3>3. c * k + k + 1 - p = d * k + k + 1 - q
            BY <2>3, <3>1, <3>2
        <3>4. c \in Nat /\ d \in Nat
            OBVIOUS
        <3>. QED
            BY <3>1, <3>2, <3>3, <3>4, ChunkOf
    <2>5. Covered
        <3> SUFFICES ASSUME NEW i \in Items
                     PROVE  \E s \in states_pq : \E p \in Places : i \in s[p].items
            BY DEF Covered
        <3>1. PICK c \in 0..(m - 1) : \E p \in Places : i = c * k + k + 1 - p
            BY <2>1, <2>2, ChunkFor
        <3>2. Chunk(c) \in states_pq
            BY <2>1
        <3>. QED
            BY <2>3, <3>1, <3>2
    <2>. QED
        BY <2>4, <2>5
<1>2. CASE ~equal_size
    <2>1. states_pq = {Alone(i) : i \in Items}
        BY <1>2 DEF Init
    <2>3. 1 \in Places
        BY DEF Places, TypeOK
    <2>2. \A x \in Items : /\ Alone(x)[1].items = {x}
                           /\ \A p \in Places : p # 1 => Alone(x)[p].items = {}
        BY <2>3 DEF Alone, Only, None
    <2>4. Separate
        <3> SUFFICES ASSUME NEW s \in states_pq, NEW t \in states_pq, NEW p \in Places,
                            NEW q \in Places, NEW i \in Items,
                            i \in s[p].items, i \in t[q].items
                     PROVE  s = t /\ p = q
            BY DEF Separate
        <3>1. PICK x \in Items : s = Alone(x)
            BY <2>1
        <3>2. PICK y \in Items : t = Alone(y)
            BY <2>1
        <3>3. p = 1 /\ x = i
            BY <2>2, <3>1
        <3>4. q = 1 /\ y = i
            BY <2>2, <3>2
        <3>. QED
            BY <3>1, <3>2, <3>3, <3>4
    <2>5. Covered
        <3> SUFFICES ASSUME NEW i \in Items
                     PROVE  \E s \in states_pq : \E p \in Places : i \in s[p].items
            BY DEF Covered
        <3>1. Alone(i) \in states_pq
            BY <2>1
        <3>2. i \in Alone(i)[1].items
            BY <2>2, <2>3
        <3>. QED
            BY <3>1, <3>2, <2>3
    <2>. QED
        BY <2>4, <2>5
<1>. QED
    BY <1>1, <1>2

LEMMA ItemsInvariant == ASSUME Numbers PROVE SafetySpec => []ItemsInv
<1>1. Init /\ TypeOK => ItemsInv
    BY InitItems DEF ItemsInv, LastReturned, Init
<1>2. ItemsInv /\ TypeOK' /\ [Next]_vars => ItemsInv'
    <2> SUFFICES ASSUME ItemsInv, TypeOK', [Next]_vars PROVE (Separate /\ Covered)'
        BY ReturnedOnce DEF ItemsInv
    <2>1. CASE Merge
        BY <2>1, MergeKeepsItems
    <2>2. CASE Return
        BY <2>2 DEF Return, ItemsInv, Separate, Covered, Places, Items
    <2>3. CASE UNCHANGED vars
        BY <2>3 DEF vars, ItemsInv, Separate, Covered, Places, Items
    <2>. QED
        BY <2>1, <2>2, <2>3 DEF Next, Returned
<1>. QED
    BY <1>1, <1>2, TypeInvariant, PTL DEF SafetySpec

LEMMA ExactInvariant == ASSUME Numbers PROVE SafetySpec => []EachItemOnce
<1>1. ItemsInv => EachItemOnce
    <2> SUFFICES ASSUME ItemsInv, partitions # <<>>, NEW i \in Items
                 PROVE  \E p \in Places : \A q \in Places : i \in partitions[q] <=> q = p
        BY DEF EachItemOnce
    <2>1. PICK s \in states_pq : states_pq = {s} /\ partitions = [p \in Places |-> s[p].items]
        BY DEF ItemsInv, LastReturned
    <2>2. PICK p \in Places : i \in s[p].items
        BY <2>1 DEF ItemsInv, Covered
    <2>3. \A q \in Places : i \in s[q].items => q = p
        BY <2>2 DEF ItemsInv, Separate
    <2>. QED
        BY <2>1, <2>2, <2>3
<1>. QED
    BY <1>1, ItemsInvariant, PTL

\* What karmarkar_karp returns puts every item into exactly one partition, so
\* that a batch reordered by it has every row once.
THEOREM PartitionsAreExact == ASSUME Numbers PROVE Spec => []EachItemOnce
    BY ExactInvariant, PTL DEF Spec, SafetySpec

-----------------------------------------------------------------------------
(* The sizes of the sets *)

\* The sets of every state are sorted.
AllDescend == \A s \in states_pq : Descending(s)

\* A set without items has no workload.
EmptyIsNone == \A s \in states_pq : \A p \in Places : s[p].items = {} => s[p].sum = 0

\* While a state has an empty set, none of its sets has two items.
FewIfEmpty ==
    \A s \in states_pq : (\E e \in Places : s[e].items = {}) =>
        \A p \in Places : \A i, j \in s[p].items : i = j

\* With equal_size the sets of a state are equally large.
SameSizes ==
    equal_size => \A s \in states_pq : \A p, q \in Places :
                      Cardinality(s[p].items) = Cardinality(s[q].items)

SizesInv == AllDescend /\ EmptyIsNone /\ FewIfEmpty /\ SameSizes

\* Sets of items are finite.
LEMMA FiniteItems ==
    ASSUME TypeOK, NEW S \in SUBSET Items
    PROVE  IsFiniteSet(S) /\ Cardinality(S) \in Nat /\ (Cardinality(S) = 0 <=> S = {})
<1>1. IsFiniteSet(Items)
    BY FS_Interval DEF Items, TypeOK
<1>2. IsFiniteSet(S)
    BY <1>1, FS_Subset
<1>. QED
    BY <1>2, FS_CardinalityType, FS_EmptySet

\* The empty sets of a sorted state are its last ones.
LEMMA EmptySuffix ==
    ASSUME TypeOK, SizesInv, NEW s \in states_pq, NEW p \in Places, NEW q \in Places,
           p <= q, s[p].items = {}
    PROVE  s[q].items = {}
<1>1. CASE p = q
    BY <1>1
<1>2. CASE p < q
    <2>1. /\ s[p].sum = 0 /\ s[q].sum \in Nat
          /\ s[p].items \in SUBSET Items /\ s[q].items \in SUBSET Items
        BY DEF SizesInv, EmptyIsNone, TypeOK, ItemSets
    <2>2. Cardinality(s[p].items) = 0 /\ Cardinality(s[q].items) \in Nat
        BY <2>1, FiniteItems
    <2>3. ~Less(s[p], s[q])
        BY <1>2 DEF SizesInv, AllDescend, Descending
    <2>4. Cardinality(s[q].items) = 0
        BY <2>1, <2>2, <2>3 DEF Less
    <2>. QED
        BY <2>1, <2>4, FiniteItems
<1>. QED
    BY <1>1, <1>2 DEF Places, TypeOK

\* At first the sets have at most one item.
LEMMA InitSizes == ASSUME Init, TypeOK PROVE SizesInv
<1>1. 1 \in Places /\ k \in Nat
    BY DEF Places, TypeOK
<1>2. CASE equal_size
    <2>1. PICK m \in Items : n = m * k /\ states_pq = {Chunk(c) : c \in 0..(m - 1)}
        BY <1>2 DEF Init
    <2>2. ASSUME NEW c \in 0..(m - 1), NEW p \in Places
          PROVE  /\ c * k + k + 1 - p \in Items
                 /\ Chunk(c)[p].items = {c * k + k + 1 - p}
                 /\ Chunk(c)[p].sum = workloads[c * k + k + 1 - p]
                 /\ Cardinality(Chunk(c)[p].items) = 1
        <3>1. m \in Nat /\ c \in Nat /\ c < m /\ k \in Nat \ {0}
            BY <2>1 DEF TypeOK, Items
        <3>2. c * k + k + 1 - p \in Items
            BY <2>1, <3>1, ChunkItems
        <3>3. /\ Chunk(c)[p].items = {c * k + k + 1 - p}
              /\ Chunk(c)[p].sum = workloads[c * k + k + 1 - p]
            BY DEF Chunk, Only
        <3>. QED
            BY <3>2, <3>3, FS_Singleton
    <2>3. \A c \in 0..(m - 1) : Descending(Chunk(c))
        <3> SUFFICES ASSUME NEW c \in 0..(m - 1), NEW i \in Places, NEW j \in Places, i < j
                     PROVE  ~Less(Chunk(c)[i], Chunk(c)[j])
            BY DEF Descending
        <3>. DEFINE x == c * k + k + 1 - i
                    y == c * k + k + 1 - j
        <3>1. x \in Items /\ y \in Items /\ Chunk(c)[i].sum = workloads[x]
              /\ Chunk(c)[j].sum = workloads[y]
              /\ Cardinality(Chunk(c)[i].items) = 1 /\ Cardinality(Chunk(c)[j].items) = 1
            BY <2>2
        <3>2. y <= x
            BY <1>1, c * k \in Nat DEF Places
        <3>3. workloads[y] <= workloads[x] /\ workloads[x] \in Nat /\ workloads[y] \in Nat
            BY <3>1, <3>2 DEF Init, TypeOK
        <3>. QED
            BY <3>1, <3>3 DEF Less
    <2>4. AllDescend
        BY <2>1, <2>3 DEF AllDescend
    <2>5. EmptyIsNone /\ FewIfEmpty /\ SameSizes
        <3>1. ASSUME NEW s \in states_pq, NEW p \in Places
              PROVE  Cardinality(s[p].items) = 1 /\ \E i \in Items : s[p].items = {i}
            <4>1. PICK c \in 0..(m - 1) : s = Chunk(c)
                BY <2>1
            <4>. QED
                BY <4>1, <2>2
        <3>. QED
            BY <3>1 DEF EmptyIsNone, FewIfEmpty, SameSizes
    <2>. QED
        BY <2>4, <2>5 DEF SizesInv
<1>3. CASE ~equal_size
    <2>1. states_pq = {Alone(i) : i \in Items}
        BY <1>3 DEF Init
    <2>2. ASSUME NEW x \in Items
          PROVE  /\ Alone(x)[1].items = {x} /\ Alone(x)[1].sum \in Nat
                 /\ Cardinality(Alone(x)[1].items) = 1
                 /\ \A p \in Places : p # 1 => /\ Alone(x)[p].items = {} /\ Alone(x)[p].sum = 0
                                               /\ Cardinality(Alone(x)[p].items) = 0
        <3>1. /\ Alone(x)[1].items = {x} /\ Alone(x)[1].sum = workloads[x]
              /\ \A p \in Places : p # 1 => Alone(x)[p].items = {} /\ Alone(x)[p].sum = 0
            BY <1>1 DEF Alone, Only, None
        <3>. QED
            BY <3>1, FS_Singleton, FS_EmptySet DEF TypeOK
    <2>3. \A x \in Items : Descending(Alone(x))
        <3> SUFFICES ASSUME NEW x \in Items, NEW i \in Places, NEW j \in Places, i < j
                     PROVE  ~Less(Alone(x)[i], Alone(x)[j])
            BY DEF Descending
        <3>1. j # 1
            BY <1>1 DEF Places
        <3>2. Alone(x)[j].sum = 0 /\ Cardinality(Alone(x)[j].items) = 0
            BY <2>2, <3>1
        <3>3. Alone(x)[i].sum \in Nat /\ Cardinality(Alone(x)[i].items) \in Nat
            BY <2>2
        <3>. QED
            BY <3>2, <3>3 DEF Less
    <2>4. AllDescend
        BY <2>1, <2>3 DEF AllDescend
    <2>5. EmptyIsNone /\ SameSizes
        BY <2>1, <2>2, <1>3 DEF EmptyIsNone, SameSizes
    <2>6. FewIfEmpty
        BY <2>1, <2>2 DEF FewIfEmpty
    <2>. QED
        BY <2>4, <2>5, <2>6 DEF SizesInv
<1>. QED
    BY <1>2, <1>3

\* A merge keeps the sizes: empty sets meet the places that are not.
LEMMA MergeKeepsSizes == ASSUME ItemsInv, SizesInv, Merge PROVE SizesInv'
<1>1. PICK s \in states_pq, t \in states_pq : s # t /\ \E merged \in Sortings(Pairwise(s, t)) :
          states_pq' = (states_pq \ {s, t}) \cup {merged}
    BY DEF Merge, First
<1>2. PICK v \in Sortings(Pairwise(s, t)) : states_pq' = (states_pq \ {s, t}) \cup {v}
    BY <1>1
<1>3. PICK a \in [Places -> Places] : \A i \in Places :
          /\ v[i].sum = s[a[i]].sum + t[k + 1 - a[i]].sum
          /\ v[i].items = s[a[i]].items \cup t[k + 1 - a[i]].items
    BY MergedSets
<1>4. Places' = Places /\ equal_size' = equal_size /\ k' = k
    BY DEF Merge, Places
<1>5. \A x \in Places : k + 1 - x \in Places
    BY DEF Places, TypeOK, ItemsInv
<1>6. AllDescend'
    <2>1. Descending(v)
        BY MergedIs
    <2>. QED
        BY <1>2, <1>4, <2>1 DEF SizesInv, AllDescend, Descending
<1>7. EmptyIsNone'
    <2>1. ASSUME NEW p \in Places, v[p].items = {}
          PROVE  v[p].sum = 0
        <3>1. s[a[p]].items = {} /\ t[k + 1 - a[p]].items = {}
            BY <1>3, <2>1
        <3>2. s[a[p]].sum = 0 /\ t[k + 1 - a[p]].sum = 0
            BY <1>5, <3>1 DEF SizesInv, EmptyIsNone
        <3>. QED
            BY <1>3, <3>2
    <2>. QED
        BY <1>2, <1>4, <2>1 DEF SizesInv, EmptyIsNone
<1>8. FewIfEmpty'
    <2>1. ASSUME NEW e \in Places, v[e].items = {}, NEW p \in Places,
                 NEW i \in v[p].items, NEW j \in v[p].items
          PROVE  i = j
        <3>. DEFINE x == a[e]
                    y == a[p]
                    x1 == k + 1 - x
                    y1 == k + 1 - y
        <3>1. x \in Places /\ y \in Places /\ x1 \in Places /\ y1 \in Places
            BY <1>5
        <3>2. s[x].items = {} /\ t[x1].items = {}
            BY <1>3, <2>1
        <3>3. v[p].items = s[y].items \cup t[y1].items
            BY <1>3
        <3>4. x \in Int /\ y \in Int /\ k \in Int
            BY <3>1 DEF Places, TypeOK, ItemsInv
        <3>5. x <= y \/ x1 <= y1
            BY <3>4
        <3>. HIDE DEF x, y, x1, y1
        <3>6. s[y].items = {} \/ t[y1].items = {}
            BY <3>1, <3>2, <3>5, EmptySuffix DEF ItemsInv
        <3>7. /\ \A g, h \in s[y].items : g = h
              /\ \A g, h \in t[y1].items : g = h
            BY <3>1, <3>2 DEF SizesInv, FewIfEmpty
        <3>. QED
            BY <2>1, <3>3, <3>6, <3>7
    <2>. QED
        BY <1>2, <1>4, <2>1 DEF SizesInv, FewIfEmpty
<1>9. SameSizes'
    <2> SUFFICES ASSUME equal_size, NEW p \in Places, NEW q \in Places
                 PROVE  Cardinality(v[p].items) = Cardinality(v[q].items)
        BY <1>2, <1>4 DEF SizesInv, SameSizes
    <2>1. ASSUME NEW h \in Places
          PROVE  Cardinality(v[h].items) = Cardinality(s[1].items) + Cardinality(t[1].items)
        <3>. DEFINE S == s[a[h]].items
                    T == t[k + 1 - a[h]].items
        <3>1. a[h] \in Places /\ k + 1 - a[h] \in Places /\ 1 \in Places
            BY <1>5 DEF Places, TypeOK, ItemsInv
        <3>2. S \in SUBSET Items /\ T \in SUBSET Items
            BY <3>1 DEF TypeOK, ItemsInv, ItemSets
        <3>3. S \cap T = {}
            BY <1>1, <3>1, <3>2 DEF ItemsInv, Separate
        <3>4. Cardinality(S) = Cardinality(s[1].items) /\ Cardinality(T) = Cardinality(t[1].items)
            BY <3>1 DEF SizesInv, SameSizes
        <3>5. v[h].items = S \cup T
            BY <1>3
        <3>. HIDE DEF S, T
        <3>6. IsFiniteSet(S) /\ IsFiniteSet(T) /\ Cardinality(S) \in Nat /\ Cardinality(T) \in Nat
            BY <3>2, FiniteItems DEF ItemsInv
        <3>7. Cardinality(S \cup T) = Cardinality(S) + Cardinality(T) - Cardinality(S \cap T)
            BY <3>6, FS_Union
        <3>8. Cardinality(S \cap T) = 0
            BY <3>3, FS_EmptySet
        <3>9. Cardinality(S \cup T) = Cardinality(S) + Cardinality(T)
            BY <3>6, <3>7, <3>8
        <3>. QED
            BY <3>4, <3>5, <3>9
    <2>. QED
        BY <2>1
<1>. QED
    BY <1>6, <1>7, <1>8, <1>9 DEF SizesInv

LEMMA SizesInvariant == ASSUME Numbers PROVE SafetySpec => []SizesInv
<1>1. Init /\ TypeOK => SizesInv
    BY InitSizes
<1>2. ItemsInv /\ SizesInv /\ [Next]_vars => SizesInv'
    <2> SUFFICES ASSUME ItemsInv, SizesInv, [Next]_vars PROVE SizesInv'
        OBVIOUS
    <2>1. CASE Merge
        BY <2>1, MergeKeepsSizes
    <2>2. CASE Return
        BY <2>2 DEF Return, SizesInv, AllDescend, EmptyIsNone, FewIfEmpty, SameSizes, Places,
            Descending
    <2>3. CASE UNCHANGED vars
        BY <2>3 DEF vars, SizesInv, AllDescend, EmptyIsNone, FewIfEmpty, SameSizes, Places,
            Descending
    <2>. QED
        BY <2>1, <2>2, <2>3 DEF Next, Returned
<1>. QED
    BY <1>1, <1>2, TypeInvariant, ItemsInvariant, PTL DEF SafetySpec

LEMMA NonEmptyInvariant == ASSUME Numbers PROVE SafetySpec => []NoPartitionEmpty
<1>1. TypeOK /\ ItemsInv /\ SizesInv => NoPartitionEmpty
    <2> SUFFICES ASSUME TypeOK, ItemsInv, SizesInv, partitions # <<>>,
                        NEW e \in Places, partitions[e] = {}
                 PROVE  FALSE
        BY DEF NoPartitionEmpty
    <2>1. PICK s \in states_pq : states_pq = {s} /\ partitions = [p \in Places |-> s[p].items]
        BY DEF ItemsInv, LastReturned
    <2>2. s[e].items = {}
        BY <2>1
    <2>3. \A p \in Places : \A i, j \in s[p].items : i = j
        BY <2>2 DEF SizesInv, FewIfEmpty
    <2>4. \A i \in Items : \E p \in Places \ {e} : i \in s[p].items
        BY <2>1, <2>2 DEF ItemsInv, Covered
    <2>. DEFINE f == [i \in Items |-> CHOOSE p \in Places \ {e} : i \in s[p].items]
    <2>5. \A i \in Items : f[i] \in Places \ {e} /\ i \in s[f[i]].items
        BY <2>4
    <2>6. f \in [Items -> Places \ {e}]
        BY <2>5
    <2>7. IsFiniteSet(Items) /\ Cardinality(Items) = n
        BY FS_Interval DEF Items, TypeOK
    <2>8. IsFiniteSet(Places) /\ Cardinality(Places) = k
        BY FS_Interval DEF Places, TypeOK
    <2>9. IsFiniteSet(Places \ {e}) /\ Cardinality(Places \ {e}) = k - 1
        BY <2>8, FS_RemoveElement
    <2>10. Cardinality(Places \ {e}) < Cardinality(Items)
        BY <2>7, <2>9 DEF TypeOK
    <2>. HIDE DEF f
    <2>11. \E x, y \in Items : x # y /\ f[x] = f[y]
        BY <2>6, <2>7, <2>9, <2>10, FS_PigeonHole
    <2>. QED
        BY <2>3, <2>5, <2>11
<1>. QED
    BY <1>1, TypeInvariant, ItemsInvariant, SizesInvariant, PTL

\* karmarkar_karp leaves no partition empty although rows may have no workload:
\* no rank and no micro-batch is without rows.
THEOREM PartitionsHaveItems == ASSUME Numbers PROVE Spec => []NoPartitionEmpty
    BY NonEmptyInvariant, PTL DEF Spec, SafetySpec

LEMMA EqualInvariant == ASSUME Numbers PROVE SafetySpec => []EqualSizes
<1>1. ItemsInv /\ SizesInv => EqualSizes
    BY DEF ItemsInv, LastReturned, SizesInv, SameSizes, EqualSizes
<1>. QED
    BY <1>1, ItemsInvariant, SizesInvariant, PTL

\* With equal_size the partitions are equally large, as the dispatch of a batch
\* to the ranks requires.
THEOREM PartitionsAreEqual == ASSUME Numbers PROVE Spec => []EqualSizes
    BY EqualInvariant, PTL DEF Spec, SafetySpec
=============================================================================
