--------------------------- MODULE SeqlenBalancing ---------------------------
(* karmarkar_karp of verl/utils/seqlen_balancing.py: the largest differencing *)
(* method that spreads the rows of a batch over data-parallel ranks           *)
(* (equal_size) or over micro-batches (not equal_size).                       *)
(*                                                                            *)
(* An item is named by its place in sorted_seqlen_list, so workloads ascends. *)
(* A state of the heap is a function from places to sets of items with their  *)
(* sum.  The comparisons of the code end in comparisons of item lists; here   *)
(* ties are left open, and the heap may pop, and sorted may place first, any  *)
(* of the tied.                                                               *)
EXTENDS Integers, FiniteSets

CONSTANTS
    MaxItems,    \* bound on the number of items
    MaxParts,    \* bound on the number of partitions
    Workloads    \* the workloads an item may have

VARIABLES
    n,           \* len(seqlen_list)
    k,           \* k_partitions
    equal_size,
    workloads,   \* sorted_seqlen_list
    states_pq,   \* the heap
    partitions   \* what karmarkar_karp returns; <<>> before

vars == <<n, k, equal_size, workloads, states_pq, partitions>>

Items == 1..n
Places == 1..k

None == [sum |-> 0, items |-> {}]
Only(i) == [sum |-> workloads[i], items |-> {i}]

LessBySum(a, b) == a.sum < b.sum

\* Set.__lt__, up to ties.
Less(a, b) ==
    \/ a.sum < b.sum
    \/ a.sum = b.sum /\ Cardinality(a.items) < Cardinality(b.items)

Spread(s) == s[1].sum - s[k].sum

\* State.__lt__, up to ties: which state the heap prefers.
Before(s, t) ==
    \/ Spread(s) > Spread(t)
    \/ Spread(s) = Spread(t) /\ Less(t[1], s[1])

\* sorted(sets, reverse=True)
Descending(s) == \A i, j \in Places : i < j => ~Less(s[i], s[j])

IsPermutation(p) == \A j \in Places : \E i \in Places : \A h \in Places : p[h] = j <=> h = i

Sortings(s) ==
    {t \in {[i \in Places |-> s[p[i]]] : p \in {q \in [Places -> Places] : IsPermutation(q)}} :
        Descending(t)}

Pairwise(s, t) ==
    [i \in Places |-> [sum |-> s[i].sum + t[k + 1 - i].sum,
                       items |-> s[i].items \cup t[k + 1 - i].items]]

\* With equal_size, k neighbours of the sorted list make a state.
Chunk(c) == [p \in Places |-> Only(c * k + k + 1 - p)]
Alone(i) == [p \in Places |-> IF p = 1 THEN Only(i) ELSE None]

Init ==
    /\ n \in 1..MaxItems /\ k \in 1..MaxParts /\ k <= n
    /\ equal_size \in BOOLEAN
    /\ workloads \in [Items -> Workloads]
    /\ \A i, j \in Items : i <= j => workloads[i] <= workloads[j]
    /\ IF equal_size
         THEN \E m \in Items : n = m * k /\ states_pq = {Chunk(c) : c \in 0..(m - 1)}
         ELSE states_pq = {Alone(i) : i \in Items}
    /\ partitions = <<>>

First(S) == {s \in S : \A t \in S : ~Before(t, s)}

Merge ==
    /\ \E s \in First(states_pq) : \E t \in First(states_pq \ {s}) :
        \E merged \in Sortings(Pairwise(s, t)) :
            states_pq' = (states_pq \ {s, t}) \cup {merged}
    /\ UNCHANGED <<n, k, equal_size, workloads, partitions>>

Return ==
    /\ partitions = <<>>
    /\ \E s \in states_pq :
        /\ states_pq = {s}
        /\ partitions' = [p \in Places |-> s[p].items]
    /\ UNCHANGED <<n, k, equal_size, workloads, states_pq>>

Returned == partitions # <<>> /\ UNCHANGED vars

Next == Merge \/ Return \/ Returned

Spec == Init /\ [][Next]_vars /\ WF_vars(Next)

-----------------------------------------------------------------------------
(* Properties *)

\* The largest difference an initial state may have.
Bound == IF equal_size THEN workloads[n] - workloads[1] ELSE workloads[n]

ItemSets == [sum : Nat, items : SUBSET Items]

\* The heap holds states of k sets of items.
TypeOK ==
    /\ n \in Nat \ {0} /\ k \in 1..n /\ equal_size \in BOOLEAN
    /\ workloads \in [Items -> Nat]
    /\ states_pq \subseteq [Places -> ItemSets]
    /\ partitions = <<>> \/ partitions \in [Places -> SUBSET Items]

\* What is returned puts every item into exactly one partition, as
\* _check_and_sort_partitions asserts (seen_idx) and reordering a batch by the
\* partitions relies on.
EachItemOnce ==
    partitions # <<>> =>
        \A i \in Items : \E p \in Places :
            \A q \in Places : i \in partitions[q] <=> q = p

\* No partition is empty, although rows may have no tokens and so no workload:
\* a rank or a micro-batch without rows would fail the assertion, or hang the
\* others.
NoPartitionEmpty ==
    partitions # <<>> => \A p \in Places : partitions[p] # {}

\* With equal_size the partitions are equally large, as the dispatch to the
\* ranks requires.
EqualSizes ==
    (partitions # <<>> /\ equal_size) =>
        \A p, q \in Places : Cardinality(partitions[p]) = Cardinality(partitions[q])

\* The sums descend and the first and the last differ by at most one item's
\* workload: the promise of the method, whatever the lengths are.
SpreadBounded ==
    \A s \in states_pq : \A i, j \in Places : i < j => s[i].sum - s[j].sum \in 0..Bound

\* The method returns.
Terminates == <>(partitions # <<>>)
=============================================================================
