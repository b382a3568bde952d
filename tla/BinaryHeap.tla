----------------------------- MODULE BinaryHeap -----------------------------
(***************************************************************************)
(* container/heap as matching_engine.go uses it: a binary heap kept in a   *)
(* sequence whose first element has the least rank.  Which of several      *)
(* elements of equal rank comes first depends on how they moved, so the    *)
(* array is modelled position by position.                                 *)
(***************************************************************************)
EXTENDS Integers, Sequences

Swap(s, i, j) == [s EXCEPT ![i] = s[j], ![j] = s[i]]

\* A round of up: the element at r.at changes places with a parent of a higher
\* rank.
Rise(rank, r) ==
    LET parent == r.at \div 2
    IN  IF r.at > 1 /\ rank[r.heap[r.at]] < rank[r.heap[parent]]
        THEN [heap |-> Swap(r.heap, parent, r.at), at |-> parent]
        ELSE r

\* heap.Push, the new array: x is appended and rises.
HeapPush(rank, s, x) ==
    LET last == Len(s) + 1
        round[n \in 0..last] ==
            IF n = 0 THEN [heap |-> Append(s, x), at |-> last] ELSE Rise(rank, round[n - 1])
    IN  round[last].heap

\* The child of position i that down compares with: the one of a lower rank, the
\* left of two equal ones.
Child(rank, s, i) ==
    IF 2 * i < Len(s) /\ rank[s[2 * i + 1]] < rank[s[2 * i]] THEN 2 * i + 1 ELSE 2 * i

\* A round of down: the element at r.at changes places with a child of a lower
\* rank.
Sink(rank, r) ==
    LET child == Child(rank, r.heap, r.at)
    IN  IF 2 * r.at <= Len(r.heap) /\ rank[r.heap[child]] < rank[r.heap[r.at]]
        THEN [heap |-> Swap(r.heap, r.at, child), at |-> child]
        ELSE r

\* heap.Pop, the new array: the first and the last element change places, and
\* the one that is now first sinks among all but the last.
HeapPop(rank, s) ==
    LET last == Len(s) - 1
        round[n \in 0..last] ==
            IF n = 0 THEN [heap |-> SubSeq(Swap(s, 1, Len(s)), 1, last), at |-> 1]
                     ELSE Sink(rank, round[n - 1])
    IN  round[last].heap
=============================================================================
