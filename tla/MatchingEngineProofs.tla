------------------------ MODULE MatchingEngineProofs ------------------------
(***************************************************************************)
(* For all prices, orders and sequences of calls: the book loses no order, *)
(* no order trades more than it asked for, trades keep price-time priority *)
(* and matching does not stop too early.  First what container/heap does   *)
(* with an array of any length, then the invariant of the book.            *)
(***************************************************************************)
EXTENDS MatchingEngine, RunningTotalProofs, FiniteSetTheorems

-----------------------------------------------------------------------------
(* Heaps                                                                   *)

\* No element has a lower rank than the one above it in the heap.
Ordered(rank, s) == \A i \in 2..Len(s) : rank[s[i \div 2]] <= rank[s[i]]

\* The place above place i of a heap.
LEMMA Half ==
    ASSUME NEW i \in Nat, i >= 2
    PROVE  /\ i \div 2 \in 1..(i - 1)
           /\ 2 * (i \div 2) = i \/ 2 * (i \div 2) + 1 = i
OBVIOUS

\* No element of an ordered heap has a lower rank than its first one.
LEMMA FirstIsLeast ==
    ASSUME NEW S, NEW rank \in [S -> Int], NEW s \in Seq(S), Ordered(rank, s)
    PROVE  \A i \in 1..Len(s) : rank[s[1]] <= rank[s[i]]
<1> DEFINE Bad == {i \in 1..Len(s) : ~(rank[s[1]] <= rank[s[i]])}
<1>0. \A i \in 1..Len(s) : s[i] \in S /\ rank[s[i]] \in Int
  OBVIOUS
<1>1. CASE Bad # {}
  <2>1. Bad \subseteq Nat
    OBVIOUS
  <2>2. PICK m \in Bad : \A k \in Bad : m <= k
    <3> HIDE DEF Bad
    <3> QED BY <1>1, <2>1, LeastElement
  <2>3. m \in 1..Len(s) /\ ~(rank[s[1]] <= rank[s[m]])
    BY <2>2
  <2>4. m # 1
    BY <1>0, <2>3
  <2>5. /\ m \in Nat /\ m >= 2 /\ m \in 2..Len(s)
    BY <2>3, <2>4
  <2>6. m \div 2 \in 1..(m - 1)
    BY <2>5, Half
  <2>7. m \div 2 \in 1..Len(s) /\ m \div 2 < m
    BY <2>5, <2>6
  <2>8. m \div 2 \notin Bad
    BY <2>2, <2>7
  <2>9. rank[s[1]] <= rank[s[m \div 2]]
    BY <2>7, <2>8
  <2>10. rank[s[m \div 2]] <= rank[s[m]]
    BY <2>5 DEF Ordered
  <2>11. rank[s[1]] \in Int /\ rank[s[m]] \in Int /\ rank[s[m \div 2]] \in Int
    BY <1>0, <2>3, <2>7
  <2> QED BY <2>3, <2>9, <2>10, <2>11
<1> QED BY <1>1

\* What exchanging two elements keeps.
LEMMA SwapKeeps ==
    ASSUME NEW S, NEW s \in Seq(S), NEW i \in 1..Len(s), NEW j \in 1..Len(s)
    PROVE  /\ Swap(s, i, j) \in Seq(S) /\ Len(Swap(s, i, j)) = Len(s)
           /\ Swap(s, i, j)[i] = s[j] /\ Swap(s, i, j)[j] = s[i]
           /\ \A k \in 1..Len(s) : k \notin {i, j} => Swap(s, i, j)[k] = s[k]
           /\ Range(Swap(s, i, j)) = Range(s)
           /\ IsInjective(s) => IsInjective(Swap(s, i, j))
<1> DEFINE t == Swap(s, i, j)
<1>1. /\ t \in Seq(S) /\ Len(t) = Len(s) /\ DOMAIN t = 1..Len(s) /\ DOMAIN s = 1..Len(s)
      /\ t[i] = s[j] /\ t[j] = s[i]
      /\ \A k \in 1..Len(s) : k \notin {i, j} => t[k] = s[k]
  BY DEF Swap
<1> HIDE DEF t
<1>2. Range(t) = Range(s)
  BY <1>1 DEF Range
<1>3. ASSUME IsInjective(s) PROVE IsInjective(t)
  BY <1>1, <1>3 DEF IsInjective
<1> QED BY <1>1, <1>2, <1>3 DEF t

\* What holds of 0, and of a number's successor, holds up to n.
LEMMA UpTo ==
    ASSUME NEW n \in Nat, NEW A, 0 \in A,
           \A i \in 0..n : i \in A /\ i < n => i + 1 \in A
    PROVE  \A i \in 0..n : i \in A
<1> DEFINE Bad == {i \in 0..n : i \notin A}
<1>1. CASE Bad # {}
  <2>1. Bad \subseteq Nat
    OBVIOUS
  <2>2. PICK m \in Bad : \A k \in Bad : m <= k
    <3> HIDE DEF Bad
    <3> QED BY <1>1, <2>1, LeastElement
  <2>3. m \in 0..n /\ m \notin A
    BY <2>2
  <2>4. m # 0
    BY <2>3
  <2>5. m - 1 \in 0..n /\ m - 1 < n /\ (m - 1) + 1 = m /\ m - 1 < m
    BY <2>3, <2>4
  <2>6. m - 1 \in A
    BY <2>2, <2>5
  <2> QED BY <2>3, <2>5, <2>6
<1> QED BY <1>1

\* u is what f makes of x, again and again.
IsIteration(u, f, x, n) ==
    u = [i \in 0..n |-> IF i = 0 THEN x ELSE f[u[i - 1]]]

\* A function can be applied n times.
LEMMA IterationExists ==
    ASSUME NEW n \in Nat, NEW f, NEW x
    PROVE  \E u : IsIteration(u, f, x, n)
<1> DEFINE A == {i \in Nat : \E u : IsIteration(u, f, x, i)}
<1>1. 0 \in A
  <2> DEFINE u == [i \in 0..0 |-> x]
  <2>1. IsIteration(u, f, x, 0)
    BY DEF IsIteration
  <2> HIDE DEF u
  <2> QED BY <2>1
<1>2. ASSUME NEW i \in 0..n, i \in A, i < n
      PROVE  i + 1 \in A
  <2>1. PICK u : IsIteration(u, f, x, i)
    BY <1>2
  <2> DEFINE v == [k \in 0..(i + 1) |-> IF k = i + 1 THEN f[u[i]] ELSE u[k]]
  <2>2. ASSUME NEW k \in 0..(i + 1)
        PROVE  v[k] = IF k = 0 THEN x ELSE f[v[k - 1]]
    BY <2>1 DEF IsIteration
  <2>3. IsIteration(v, f, x, i + 1)
    BY <2>2 DEF IsIteration
  <2> HIDE DEF v
  <2> QED BY <2>3
<1> HIDE DEF A
<1>3. n \in A
  BY <1>1, <1>2, UpTo
<1> QED BY <1>3 DEF A

\* An iteration stays where f stays.
LEMMA IterationStays ==
    ASSUME NEW n \in Nat, NEW T, NEW f \in [T -> T], NEW x \in T, NEW u, IsIteration(u, f, x, n)
    PROVE  \A i \in 0..n : u[i] \in T
<1> DEFINE A == {i \in 0..n : u[i] \in T}
<1>1. 0 \in A
  BY DEF IsIteration
<1>2. ASSUME NEW i \in 0..n, i \in A, i < n
      PROVE  i + 1 \in A
  <2>1. u[i + 1] = f[u[i]]
    BY <1>2 DEF IsIteration
  <2> QED BY <1>2, <2>1
<1>3. \A i \in 0..n : i \in A
  <2> HIDE DEF A
  <2> QED BY <1>1, <1>2, UpTo
<1> QED BY <1>3

\* An iteration ends where each step comes closer.
LEMMA IterationEnds ==
    ASSUME NEW n \in Nat, NEW T, NEW f \in [T -> T], NEW x \in T, NEW u,
           IsIteration(u, f, x, n),
           NEW Done, NEW far \in [T -> Nat], far[x] <= n,
           \A r \in T : far[r] = 0 => r \in Done,
           \A r \in T : r \in Done => f[r] \in Done,
           \A r \in T : r \notin Done => far[f[r]] < far[r]
    PROVE  u[n] \in Done
<1>0. \A i \in 0..n : u[i] \in T
  BY IterationStays
<1> DEFINE A == {i \in 0..n : u[i] \in Done \/ far[u[i]] + i <= n}
<1>1. 0 \in A
  BY DEF IsIteration
<1>2. ASSUME NEW i \in 0..n, i \in A, i < n
      PROVE  i + 1 \in A
  <2>1. u[i + 1] = f[u[i]] /\ u[i] \in T /\ u[i + 1] \in T
    BY <1>0, <1>2 DEF IsIteration
  <2>2. far[u[i]] \in Nat /\ far[u[i + 1]] \in Nat
    BY <2>1
  <2>3. CASE u[i] \in Done
    BY <1>2, <2>1, <2>3
  <2>4. CASE u[i] \notin Done
    <3>1. far[u[i + 1]] < far[u[i]] /\ far[u[i]] + i <= n
      BY <1>2, <2>1, <2>4
    <3>2. far[u[i + 1]] + (i + 1) <= n
      BY <2>2, <3>1
    <3> QED BY <1>2, <3>2
  <2> QED BY <2>3, <2>4
<1>3. n \in A
  <2>1. n \in 0..n
    OBVIOUS
  <2> HIDE DEF A
  <2> QED BY <1>1, <1>2, <2>1, UpTo
<1>4. u[n] \in T /\ far[u[n]] \in Nat
  BY <1>0
<1>5. far[u[n]] + n <= n => far[u[n]] = 0
  BY <1>4
<1> QED BY <1>3, <1>4, <1>5

-----------------------------------------------------------------------------
(* heap.Push.                                                              *)

\* The array while an element rises: in order but for the element at r.at and its
\* parent, and what is below it is in order with what is above it.
Rising(rank, r) ==
    /\ \A i \in 2..Len(r.heap) :
          i # r.at => rank[r.heap[i \div 2]] <= rank[r.heap[i]]
    /\ \A i \in 2..Len(r.heap) :
          r.at > 1 /\ i \div 2 = r.at => rank[r.heap[r.at \div 2]] <= rank[r.heap[i]]

\* The arrays of length l with the elements E, and a place in them.
Arrays(S, E, l) ==
    {r \in [heap : Seq(S), at : 1..l] :
        Len(r.heap) = l /\ Range(r.heap) = E /\ IsInjective(r.heap)}

\* What makes an array and a place an element of Arrays.
LEMMA InArrays ==
    ASSUME NEW S, NEW E, NEW l \in Nat, NEW h \in Seq(S), NEW at \in 1..l,
           Len(h) = l, Range(h) = E, IsInjective(h)
    PROVE  [heap |-> h, at |-> at] \in Arrays(S, E, l)
<1> DEFINE r == [heap |-> h, at |-> at]
<1>1. r.heap = h /\ r \in [heap : Seq(S), at : 1..l]
  OBVIOUS
<1> HIDE DEF r
<1> QED BY <1>1 DEF Arrays, r

\* A round of up keeps the elements, and the order but for the one that rises.
LEMMA RiseKeeps ==
    ASSUME NEW S, NEW rank \in [S -> Int], NEW E, NEW l \in Nat,
           NEW r \in Arrays(S, E, l), Rising(rank, r)
    PROVE  /\ Rise(rank, r) \in Arrays(S, E, l) /\ Rising(rank, Rise(rank, r))
           /\ Ordered(rank, r.heap) => Rise(rank, r) = r
           /\ ~Ordered(rank, r.heap) => Rise(rank, r).at < r.at /\ r.at > 1
<1> DEFINE h == r.heap
           k == r.at
           p == k \div 2
<1>1. /\ h \in Seq(S) /\ Len(h) = l /\ Range(h) = E /\ IsInjective(h) /\ k \in 1..l
      /\ \A i \in 1..l : h[i] \in S /\ rank[h[i]] \in Int
      /\ r \in [heap : Seq(S), at : 1..l]
  BY DEF Arrays
<1>2. /\ \A i \in 2..l : i # k => rank[h[i \div 2]] <= rank[h[i]]
      /\ \A i \in 2..l : k > 1 /\ i \div 2 = k => rank[h[p]] <= rank[h[i]]
  BY <1>1 DEF Rising
<1>3. \A i \in 2..l : i \div 2 \in 1..(i - 1) /\ i \div 2 \in 1..l
  BY <1>1, Half
<1>4. Ordered(rank, h) <=> \A i \in 2..l : rank[h[i \div 2]] <= rank[h[i]]
  BY <1>1 DEF Ordered
<1>5. Rise(rank, r) = IF k > 1 /\ rank[h[k]] < rank[h[p]]
                      THEN [heap |-> Swap(h, p, k), at |-> p] ELSE r
  BY DEF Rise
<1> HIDE DEF h, k, p
<1>6. CASE k > 1 /\ rank[h[k]] < rank[h[p]]
  <2> DEFINE t == Swap(h, p, k)
             q == [heap |-> t, at |-> p]
  <2>1. k \in 2..l /\ p \in 1..(k - 1) /\ p \in 1..l /\ p < k
    BY <1>1, <1>3, <1>6 DEF p
  <2>2. /\ t \in Seq(S) /\ Len(t) = l /\ Range(t) = E /\ IsInjective(t)
        /\ t[p] = h[k] /\ t[k] = h[p]
        /\ \A i \in 1..l : i \notin {p, k} => t[i] = h[i]
    <3>1. p \in 1..Len(h) /\ k \in 1..Len(h)
      BY <1>1, <2>1
    <3>2. DOMAIN h = 1..l
      BY <1>1
    <3>3. h \in Seq(S)
      BY <1>1
    <3>4. /\ t \in Seq(S) /\ Len(t) = Len(h)
          /\ t[p] = h[k] /\ t[k] = h[p]
          /\ \A i \in 1..Len(h) : i \notin {p, k} => t[i] = h[i]
          /\ Range(t) = Range(h)
          /\ IsInjective(h) => IsInjective(t)
      BY <3>1, <3>3, SwapKeeps
    <3> HIDE DEF t
    <3> QED BY <1>1, <3>4
  <2> HIDE DEF t
  <2>3. q.heap = t /\ q.at = p /\ q \in Arrays(S, E, l)
    BY <2>1, <2>2, InArrays
  <2>4. ASSUME NEW i \in 2..l, i # p
        PROVE  rank[t[i \div 2]] <= rank[t[i]]
    <3>1. /\ i \div 2 \in 1..(i - 1) /\ i \div 2 \in 1..l /\ i \in 1..l
          /\ rank[h[i]] \in Int /\ rank[h[p]] \in Int /\ rank[h[k]] \in Int
      BY <1>1, <1>3, <2>1
    <3>2. CASE i = k
      BY <1>6, <2>2, <3>1, <3>2 DEF p
    <3>3. CASE i # k /\ i \div 2 = p
      <4>1. rank[h[p]] <= rank[h[i]]
        BY <1>2, <3>3
      <4> QED BY <1>6, <2>2, <2>4, <3>1, <3>3, <4>1
    <3>4. CASE i # k /\ i \div 2 = k
      <4>1. rank[h[p]] <= rank[h[i]]
        BY <1>2, <1>6, <3>4
      <4> QED BY <2>2, <2>4, <3>1, <3>4, <4>1
    <3>5. CASE i # k /\ i \div 2 # p /\ i \div 2 # k
      <4>1. rank[h[i \div 2]] <= rank[h[i]]
        BY <1>2, <3>5
      <4> QED BY <2>2, <2>4, <3>1, <3>5, <4>1
    <3> QED BY <3>2, <3>3, <3>4, <3>5
  <2>5. ASSUME NEW i \in 2..l, p > 1, i \div 2 = p
        PROVE  rank[t[p \div 2]] <= rank[t[i]]
    <3>1. /\ p \in 2..l /\ p \div 2 \in 1..(p - 1) /\ p \div 2 \in 1..l /\ i \in 1..l /\ i # p
      BY <1>3, <2>1, <2>5
    <3>2. /\ rank[h[p \div 2]] \in Int /\ rank[h[p]] \in Int /\ rank[h[i]] \in Int
          /\ t[p \div 2] = h[p \div 2]
      BY <1>1, <2>1, <2>2, <3>1
    <3>3. rank[h[p \div 2]] <= rank[h[p]]
      BY <1>2, <2>1, <3>1
    <3>4. CASE i = k
      BY <2>2, <3>2, <3>3, <3>4
    <3>5. CASE i # k
      <4>1. rank[h[p]] <= rank[h[i]]
        BY <1>2, <2>5, <3>5
      <4> QED BY <2>2, <3>1, <3>2, <3>3, <3>5, <4>1
    <3> QED BY <3>4, <3>5
  <2>6. Rising(rank, q)
    BY <2>2, <2>3, <2>4, <2>5 DEF Rising
  <2>7. ~Ordered(rank, h)
    <3>1. rank[h[k]] \in Int /\ rank[h[p]] \in Int
      BY <1>1, <2>1
    <3> QED BY <1>4, <1>6, <2>1, <3>1 DEF p
  <2>8. Rise(rank, r) = q
    BY <1>5, <1>6 DEF t
  <2> HIDE DEF q
  <2> QED BY <1>6, <2>1, <2>3, <2>6, <2>7, <2>8 DEF h, k
<1>7. CASE ~(k > 1 /\ rank[h[k]] < rank[h[p]])
  <2>1. ASSUME NEW i \in 2..l PROVE rank[h[i \div 2]] <= rank[h[i]]
    <3>1. CASE i = k
      <4>1. k > 1 /\ p \in 1..l
        BY <1>3, <3>1 DEF p
      <4>2. rank[h[k]] \in Int /\ rank[h[p]] \in Int
        BY <1>1, <4>1
      <4> QED BY <1>7, <3>1, <4>1, <4>2 DEF p
    <3> QED BY <1>2, <3>1
  <2>2. Rise(rank, r) = r
    BY <1>5, <1>7
  <2>3. Ordered(rank, r.heap)
    BY <1>4, <2>1 DEF h
  <2> QED BY <2>2, <2>3
<1> QED BY <1>6, <1>7

\* heap.Push adds an element, and the heap is in order again.
THEOREM HeapPushKeeps ==
    ASSUME NEW S, NEW rank \in [S -> Int], NEW s \in Seq(S), NEW x \in S,
           Ordered(rank, s), IsInjective(s), x \notin Range(s)
    PROVE  /\ HeapPush(rank, s, x) \in Seq(S)
           /\ Range(HeapPush(rank, s, x)) = Range(s) \cup {x}
           /\ IsInjective(HeapPush(rank, s, x)) /\ Ordered(rank, HeapPush(rank, s, x))
<1> DEFINE l == Len(s) + 1
           first == [heap |-> Append(s, x), at |-> l]
           E == Range(s) \cup {x}
           T == {r \in Arrays(S, E, l) : Rising(rank, r)}
           f == [r \in T |-> Rise(rank, r)]
           Done == {r \in T : Ordered(rank, r.heap)}
           far == [r \in T |-> r.at - 1]
           round == CHOOSE u : u = [i \in 0..l |-> IF i = 0 THEN first ELSE Rise(rank, u[i - 1])]
<1>1. HeapPush(rank, s, x) = round[l].heap
  BY DEF HeapPush
<1>2. l \in Nat /\ l > 0
  OBVIOUS
<1>3. first \in T
  <2> DEFINE t == Append(s, x)
  <2>1. /\ t \in Seq(S) /\ Len(t) = l /\ DOMAIN t = 1..l /\ DOMAIN s = 1..Len(s) /\ t[l] = x
        /\ \A i \in 1..Len(s) : t[i] = s[i]
    OBVIOUS
  <2>a. first.heap = t /\ first.at = l /\ l \in 1..l
    OBVIOUS
  <2> HIDE DEF t
  <2>2. Range(t) = E
    <3>1. ASSUME NEW i \in 1..l PROVE i \in 1..Len(s) \/ i = l
      OBVIOUS
    <3>2. ASSUME NEW i \in 1..Len(s) PROVE i \in 1..l
      OBVIOUS
    <3>3. Range(t) \subseteq E
      BY <2>1, <3>1 DEF Range
    <3>4. E \subseteq Range(t)
      <4>1. x \in Range(t)
        BY <1>2, <2>1, <2>a DEF Range
      <4>2. Range(s) \subseteq Range(t)
        BY <2>1, <3>2 DEF Range
      <4> QED BY <4>1, <4>2
    <3> QED BY <3>3, <3>4
  <2>3. IsInjective(t)
    <3>1. ASSUME NEW i \in 1..l, NEW j \in 1..l, t[i] = t[j]
          PROVE  i = j
      <4>1. ASSUME NEW m \in 1..l PROVE m \in 1..Len(s) \/ m = l
        OBVIOUS
      <4>2. \A m \in 1..Len(s) : t[m] # x
        BY <2>1 DEF Range
      <4> QED BY <2>1, <3>1, <4>1, <4>2 DEF IsInjective
    <3> QED BY <2>1, <3>1 DEF IsInjective
  <2>4. first \in Arrays(S, E, l)
    BY <1>2, <2>1, <2>a, <2>2, <2>3, InArrays DEF t
  <2>5. ASSUME NEW i \in 2..l
        PROVE  /\ i # l => rank[t[i \div 2]] <= rank[t[i]]
               /\ i \div 2 # l
    <3>1. i \div 2 \in 1..(i - 1)
      BY Half
    <3>2. i # l => i \in 2..Len(s) /\ i \div 2 \in 1..Len(s)
      BY <3>1
    <3>3. i # l => rank[s[i \div 2]] <= rank[s[i]]
      BY <3>2 DEF Ordered
    <3>4. i # l => i \in 1..Len(s)
      BY <3>2
    <3>5. i # l => t[i] = s[i] /\ t[i \div 2] = s[i \div 2]
      BY <2>1, <3>2, <3>4
    <3>6. i \div 2 # l
      BY <3>1
    <3> QED BY <3>3, <3>5, <3>6
  <2>6. Rising(rank, first)
    BY <2>1, <2>a, <2>5 DEF Rising
  <2> QED BY <2>4, <2>6
<1>4. /\ f \in [T -> T] /\ far \in [T -> Nat] /\ far[first] <= l
      /\ \A r \in T : far[r] = 0 => r \in Done
      /\ \A r \in T : r \in Done => f[r] \in Done
      /\ \A r \in T : r \notin Done => far[f[r]] < far[r]
  <2>1. \A r \in T : /\ Rise(rank, r) \in T /\ r.at \in 1..l
                     /\ r \in Done => Rise(rank, r) = r
                     /\ r \notin Done => Rise(rank, r).at < r.at /\ r.at > 1
    <3>1. ASSUME NEW r \in T
          PROVE  /\ Rise(rank, r) \in T /\ r.at \in 1..l
                 /\ r \in Done => Rise(rank, r) = r
                 /\ r \notin Done => Rise(rank, r).at < r.at /\ r.at > 1
      <4>1. r \in Arrays(S, E, l) /\ Rising(rank, r) /\ l \in Nat
        BY <1>2
      <4> HIDE DEF E, l
      <4>2. /\ Rise(rank, r) \in Arrays(S, E, l) /\ Rising(rank, Rise(rank, r))
            /\ Ordered(rank, r.heap) => Rise(rank, r) = r
            /\ ~Ordered(rank, r.heap) => Rise(rank, r).at < r.at /\ r.at > 1
        BY <4>1, RiseKeeps
      <4>3. r.at \in 1..l
        BY <4>1 DEF Arrays
      <4> QED BY <4>1, <4>2, <4>3
    <3> QED BY <3>1
  <2>2. \A r \in T : /\ f[r] = Rise(rank, r) /\ far[r] = r.at - 1 /\ f[r] \in T
                     /\ f[r].at \in 1..l /\ far[f[r]] = f[r].at - 1
    BY <2>1
  <2>3. f \in [T -> T] /\ far \in [T -> Nat]
    <3>1. \A r \in T : r.at - 1 \in Nat
      BY <2>1
    <3> HIDE DEF T
    <3> QED BY <2>1, <3>1
  <2>4. first.at = l
    OBVIOUS
  <2> HIDE DEF T, Done, f, far, first
  <2>5. far[first] <= l
    BY <1>2, <1>3, <2>2, <2>4
  <2>6. \A r \in T : far[r] = 0 => r \in Done
    BY <2>1, <2>2
  <2>7. \A r \in T : r \in Done => f[r] \in Done
    BY <2>1, <2>2
  <2>8. \A r \in T : r \notin Done => far[f[r]] < far[r]
    BY <2>1, <2>2
  <2> QED BY <2>3, <2>5, <2>6, <2>7, <2>8
<1>5. \A r \in T : f[r] = Rise(rank, r)
  OBVIOUS
<1>d. \A r \in Done : /\ r.heap \in Seq(S) /\ Range(r.heap) = E
                      /\ IsInjective(r.heap) /\ Ordered(rank, r.heap)
  BY DEF Arrays
<1> HIDE DEF T, Done, f, far, first, l
<1>6. PICK u : IsIteration(u, f, first, l)
  BY <1>2, IterationExists
<1>7. \A i \in 0..l : u[i] \in T
  BY <1>2, <1>3, <1>4, <1>6, IterationStays
<1>8. u = [i \in 0..l |-> IF i = 0 THEN first ELSE Rise(rank, u[i - 1])]
  <2>1. ASSUME NEW i \in 0..l, i # 0 PROVE f[u[i - 1]] = Rise(rank, u[i - 1])
    BY <1>2, <1>5, <1>7, <2>1
  <2> QED BY <1>6, <2>1 DEF IsIteration
<1>9. round = [i \in 0..l |-> IF i = 0 THEN first ELSE Rise(rank, round[i - 1])]
  BY <1>8
<1> HIDE DEF round
<1>10. IsIteration(round, f, first, l)
  <2> DEFINE A == {i \in 0..l : round[i] \in T}
  <2>1. 0 \in A
    BY <1>2, <1>3, <1>9
  <2>2. ASSUME NEW i \in 0..l, i \in A, i < l PROVE i + 1 \in A
    <3>1. round[i + 1] = Rise(rank, round[i])
      BY <1>2, <1>9, <2>2
    <3>2. Rise(rank, round[i]) \in T
      BY <1>4, <1>5, <2>2
    <3> QED BY <1>2, <2>2, <3>1, <3>2
  <2>3. \A i \in 0..l : i \in A
    <3> HIDE DEF A
    <3> QED BY <1>2, <2>1, <2>2, UpTo
  <2>4. ASSUME NEW i \in 0..l, i # 0 PROVE f[round[i - 1]] = Rise(rank, round[i - 1])
    BY <1>2, <1>5, <2>3, <2>4
  <2> QED BY <1>9, <2>4 DEF IsIteration
<1>11. round[l] \in Done
  BY <1>2, <1>3, <1>4, <1>10, IterationEnds
<1> QED BY <1>1, <1>d, <1>11

-----------------------------------------------------------------------------
(* heap.Pop.                                                               *)

\* The array while an element sinks: in order but for the element at r.at and its
\* children, and these are in order with what is above it.
Sinking(rank, r) ==
    /\ \A i \in 2..Len(r.heap) :
          i \div 2 # r.at => rank[r.heap[i \div 2]] <= rank[r.heap[i]]
    /\ \A i \in 2..Len(r.heap) :
          r.at > 1 /\ i \div 2 = r.at => rank[r.heap[r.at \div 2]] <= rank[r.heap[i]]

\* The places below place k.
LEMMA Children ==
    ASSUME NEW i \in Nat, i >= 2, NEW k \in Nat
    PROVE  i \div 2 = k <=> i \in {2 * k, 2 * k + 1}
OBVIOUS

\* Of the places below place k, Child gives the one of the least rank.
LEMMA ChildIsLeast ==
    ASSUME NEW S, NEW rank \in [S -> Int], NEW h \in Seq(S),
           NEW k \in 1..Len(h), 2 * k <= Len(h)
    PROVE  /\ Child(rank, h, k) \in 2..Len(h) /\ Child(rank, h, k) > k
           /\ Child(rank, h, k) \div 2 = k
           /\ \A i \in 2..Len(h) :
                 i \div 2 = k => rank[h[Child(rank, h, k)]] <= rank[h[i]]
<1> DEFINE c == Child(rank, h, k)
           l == Len(h)
<1>1. l \in Nat /\ \A i \in 1..l : h[i] \in S /\ rank[h[i]] \in Int
  OBVIOUS
<1>2. c = IF 2 * k < l /\ rank[h[2 * k + 1]] < rank[h[2 * k]] THEN 2 * k + 1 ELSE 2 * k
  BY DEF Child
<1> HIDE DEF c, l
<1>3. k \in 1..l /\ 2 * k <= l
  BY DEF l
<1>4. 2 * k \in 2..l /\ 2 * k > k /\ (2 * k) \div 2 = k
  BY <1>1, <1>3
<1>5. 2 * k < l => 2 * k + 1 \in 2..l /\ 2 * k + 1 > k /\ (2 * k + 1) \div 2 = k
  BY <1>1, <1>3
<1>6. c \in 2..l /\ c > k /\ c \div 2 = k
  BY <1>2, <1>4, <1>5
<1>7. ASSUME NEW i \in 2..l, i \div 2 = k
      PROVE  rank[h[c]] <= rank[h[i]]
  <2>1. i = 2 * k \/ (i = 2 * k + 1 /\ 2 * k < l)
    BY <1>1, <1>3, <1>7, Children
  <2>2. /\ rank[h[2 * k]] \in Int
        /\ 2 * k < l => rank[h[2 * k + 1]] \in Int
    <3>1. 2 * k \in 1..l /\ (2 * k < l => 2 * k + 1 \in 1..l)
      BY <1>1, <1>4, <1>5
    <3> DEFINE a == 2 * k
    <3>2. a \in 1..l /\ (a < l => a + 1 \in 1..l)
      BY <3>1
    <3> HIDE DEF a
    <3>3. rank[h[a]] \in Int /\ (a < l => rank[h[a + 1]] \in Int)
      BY <1>1, <3>2
    <3> QED BY <3>3 DEF a
  <2>3. CASE i = 2 * k
    <3> DEFINE a == 2 * k
               b == 2 * k + 1
    <3>1. /\ i = a /\ rank[h[a]] \in Int /\ (a < l => rank[h[b]] \in Int)
          /\ c = IF a < l /\ rank[h[b]] < rank[h[a]] THEN b ELSE a
      BY <1>2, <2>2, <2>3
    <3> HIDE DEF a, b
    <3> QED BY <3>1
  <2>4. CASE i = 2 * k + 1 /\ 2 * k < l
    <3> DEFINE a == 2 * k
               b == 2 * k + 1
    <3>1. /\ i = b /\ a < l /\ rank[h[a]] \in Int /\ rank[h[b]] \in Int
          /\ c = IF a < l /\ rank[h[b]] < rank[h[a]] THEN b ELSE a
      BY <1>2, <2>2, <2>4
    <3> HIDE DEF a, b
    <3> QED BY <3>1
  <2> QED BY <2>1, <2>3, <2>4
<1> QED BY <1>6, <1>7 DEF c, l

\* A round of down keeps the elements, and the order but for the one that sinks.
LEMMA SinkKeeps ==
    ASSUME NEW S, NEW rank \in [S -> Int], NEW E, NEW l \in Nat,
           NEW r \in Arrays(S, E, l), Sinking(rank, r)
    PROVE  /\ Sink(rank, r) \in Arrays(S, E, l) /\ Sinking(rank, Sink(rank, r))
           /\ Ordered(rank, r.heap) => Sink(rank, r) = r
           /\ ~Ordered(rank, r.heap) => Sink(rank, r).at > r.at
<1> DEFINE h == r.heap
           k == r.at
           c == Child(rank, h, k)
<1>1. /\ h \in Seq(S) /\ Len(h) = l /\ Range(h) = E /\ IsInjective(h) /\ k \in 1..l
      /\ \A i \in 1..l : h[i] \in S /\ rank[h[i]] \in Int
      /\ r \in [heap : Seq(S), at : 1..l]
  BY DEF Arrays
<1>2. /\ \A i \in 2..l : i \div 2 # k => rank[h[i \div 2]] <= rank[h[i]]
      /\ \A i \in 2..l : k > 1 /\ i \div 2 = k => rank[h[k \div 2]] <= rank[h[i]]
  BY <1>1 DEF Sinking
<1>3. \A i \in 2..l : i \div 2 \in 1..(i - 1) /\ i \div 2 \in 1..l /\ i \in 1..l
  BY <1>1, Half
<1>4. Ordered(rank, h) <=> \A i \in 2..l : rank[h[i \div 2]] <= rank[h[i]]
  BY <1>1 DEF Ordered
<1>5. Sink(rank, r) = IF 2 * k <= l /\ rank[h[c]] < rank[h[k]]
                      THEN [heap |-> Swap(h, k, c), at |-> c] ELSE r
  BY <1>1 DEF Sink
<1> HIDE DEF h, k, c
<1>c. 2 * k <= l => /\ c \in 2..l /\ c \in 1..l /\ c > k /\ c \div 2 = k
                    /\ \A i \in 2..l : i \div 2 = k => rank[h[c]] <= rank[h[i]]
  <2>1. k \in 1..Len(h) /\ h \in Seq(S) /\ Len(h) = l
    BY <1>1
  <2>2. 2 * k <= Len(h) =>
            /\ c \in 2..Len(h) /\ c > k /\ c \div 2 = k
            /\ \A i \in 2..Len(h) : i \div 2 = k => rank[h[c]] <= rank[h[i]]
    BY <2>1, ChildIsLeast DEF c
  <2>3. \A i \in 2..l : i \in 1..l
    OBVIOUS
  <2> QED BY <2>1, <2>2, <2>3
<1>6. CASE 2 * k <= l /\ rank[h[c]] < rank[h[k]]
  <2> DEFINE t == Swap(h, k, c)
             q == [heap |-> t, at |-> c]
  <2>1. /\ c \in 2..l /\ c \in 1..l /\ c > k /\ c \div 2 = k /\ k \in 1..l /\ k # c
        /\ \A i \in 2..l : i \div 2 = k => rank[h[c]] <= rank[h[i]]
    BY <1>1, <1>c, <1>6
  <2>2. /\ t \in Seq(S) /\ Len(t) = l /\ Range(t) = E /\ IsInjective(t)
        /\ t[k] = h[c] /\ t[c] = h[k]
        /\ \A i \in 1..l : i \notin {k, c} => t[i] = h[i]
    <3>1. k \in 1..Len(h) /\ c \in 1..Len(h) /\ h \in Seq(S)
      BY <1>1, <2>1
    <3>4. /\ t \in Seq(S) /\ Len(t) = Len(h)
          /\ t[k] = h[c] /\ t[c] = h[k]
          /\ \A i \in 1..Len(h) : i \notin {k, c} => t[i] = h[i]
          /\ Range(t) = Range(h)
          /\ IsInjective(h) => IsInjective(t)
      BY <3>1, SwapKeeps
    <3> HIDE DEF t
    <3> QED BY <1>1, <3>4
  <2> HIDE DEF t
  <2>3. q.heap = t /\ q.at = c /\ q \in Arrays(S, E, l)
    BY <2>1, <2>2, InArrays
  <2>4. ASSUME NEW i \in 2..l, i \div 2 # c
        PROVE  rank[t[i \div 2]] <= rank[t[i]]
    <3>0. /\ i \div 2 \in 1..(i - 1) /\ i \div 2 \in 1..l /\ i \in 1..l
      BY <1>3
    <3>1. /\ i \div 2 \in 1..(i - 1) /\ i \div 2 \in 1..l /\ i \in 1..l /\ i \div 2 < i
          /\ rank[h[i]] \in Int /\ rank[h[k]] \in Int /\ rank[h[c]] \in Int
      <4>1. i \div 2 < i
        BY <3>0
      <4>2. rank[h[i]] \in Int /\ rank[h[k]] \in Int /\ rank[h[c]] \in Int
        BY <1>1, <2>1, <3>0
      <4> QED BY <3>0, <4>1, <4>2
    <3>2. CASE i = c
      <4>1. i \div 2 = k /\ rank[h[c]] < rank[h[k]]
        BY <1>6, <2>1, <3>2
      <4>2. t[i \div 2] = h[c] /\ t[i] = h[k]
        BY <2>2, <3>2, <4>1
      <4> QED BY <3>1, <4>1, <4>2
    <3>3. CASE i # c /\ i \div 2 = k
      <4>1. rank[h[c]] <= rank[h[i]] /\ i # k
        BY <2>1, <3>1, <3>3
      <4> QED BY <2>2, <3>1, <3>3, <4>1
    <3>4. CASE i = k
      <4>1. k > 1 /\ i \div 2 # k
        BY <3>1, <3>4
      <4>2. rank[h[k \div 2]] <= rank[h[c]]
        BY <1>2, <2>1, <4>1
      <4> QED BY <2>2, <2>4, <3>1, <3>4, <4>1, <4>2
    <3>5. CASE i # c /\ i # k /\ i \div 2 # k
      <4>1. rank[h[i \div 2]] <= rank[h[i]]
        BY <1>2, <3>5
      <4> QED BY <2>2, <2>4, <3>1, <3>5, <4>1
    <3> QED BY <3>2, <3>3, <3>4, <3>5
  <2>5. ASSUME NEW i \in 2..l, i \div 2 = c
        PROVE  rank[t[c \div 2]] <= rank[t[i]]
    <3>1. /\ i \in 1..l /\ i # c /\ i # k /\ i \div 2 # k
      BY <1>3, <2>1, <2>5
    <3>2. rank[h[c]] <= rank[h[i]]
      BY <1>2, <2>5, <3>1
    <3> QED BY <2>1, <2>2, <3>1, <3>2
  <2>6. Sinking(rank, q)
    <3> HIDE DEF q
    <3> QED BY <2>2, <2>3, <2>4, <2>5 DEF Sinking
  <2>7. ~Ordered(rank, h)
    <3>1. rank[h[k]] \in Int /\ rank[h[c]] \in Int
      BY <1>1, <2>1
    <3> QED BY <1>4, <1>6, <2>1, <3>1
  <2>8. Sink(rank, r) = q
    BY <1>5, <1>6 DEF t
  <2> HIDE DEF q
  <2> QED BY <2>1, <2>3, <2>6, <2>7, <2>8 DEF h, k
<1>7. CASE ~(2 * k <= l /\ rank[h[c]] < rank[h[k]])
  <2>1. ASSUME NEW i \in 2..l, i \div 2 = k PROVE rank[h[k]] <= rank[h[i]]
    <3>1. i \in Nat /\ i >= 2 /\ k \in Nat
      BY <1>1
    <3>2. i \in {2 * k, 2 * k + 1}
      BY <2>1, <3>1, Children
    <3>3. 2 * k <= l
      BY <1>1, <3>2
    <3>4. rank[h[c]] <= rank[h[i]] /\ c \in 1..l /\ i \in 1..l
      BY <1>c, <1>3, <2>1, <3>3
    <3>5. rank[h[c]] \in Int /\ rank[h[k]] \in Int /\ rank[h[i]] \in Int
      BY <1>1, <3>4
    <3> QED BY <1>7, <3>3, <3>4, <3>5
  <2>2. Sink(rank, r) = r
    BY <1>5, <1>7
  <2>3. Ordered(rank, r.heap)
    BY <1>2, <1>4, <2>1 DEF h
  <2> QED BY <2>2, <2>3
<1> QED BY <1>6, <1>7

\* The array that sinking starts from.
LEMMA PopStart ==
    ASSUME NEW S, NEW rank \in [S -> Int], NEW s \in Seq(S), Len(s) > 1,
           Ordered(rank, s), IsInjective(s)
    PROVE  \A t : t = SubSeq(Swap(s, 1, Len(s)), 1, Len(s) - 1) =>
              /\ t \in Seq(S) /\ Len(t) = Len(s) - 1
              /\ Range(t) = Range(s) \ {s[1]} /\ IsInjective(t)
              /\ Sinking(rank, [heap |-> t, at |-> 1])
<1> SUFFICES ASSUME NEW t, t = SubSeq(Swap(s, 1, Len(s)), 1, Len(s) - 1)
             PROVE  /\ t \in Seq(S) /\ Len(t) = Len(s) - 1
                    /\ Range(t) = Range(s) \ {s[1]} /\ IsInjective(t)
                    /\ Sinking(rank, [heap |-> t, at |-> 1])
  OBVIOUS
<1> DEFINE l == Len(s) - 1
           m == Len(s)
           w == Swap(s, 1, m)
<1>1. m \in Nat /\ m > 1 /\ l \in Nat /\ l > 0 /\ l = m - 1 /\ Len(s) = m /\ DOMAIN s = 1..m
  OBVIOUS
<1>2. 1 \in 1..Len(s) /\ m \in 1..Len(s)
  BY <1>1
<1>3. /\ w \in Seq(S) /\ Len(w) = Len(s) /\ w[1] = s[m] /\ w[m] = s[1]
      /\ \A i \in 1..Len(s) : i \notin {1, m} => w[i] = s[i]
  <2> HIDE DEF m
  <2>1. s \in Seq(S)
    OBVIOUS
  <2> QED BY <1>2, <2>1, SwapKeeps
<1>4. t = SubSeq(w, 1, l)
  OBVIOUS
<1> HIDE DEF l, m, w
<1>5. /\ t \in Seq(S) /\ Len(t) = l /\ DOMAIN t = 1..l
      /\ \A i \in 1..l : t[i] = w[i]
  BY <1>1, <1>3, <1>4
<1>6. t[1] = s[m] /\ \A i \in 2..l : t[i] = s[i]
  <2>1. 1 \in 1..l /\ \A i \in 2..l : i \in 1..l /\ i \in 1..m /\ i \notin {1, m}
    BY <1>1
  <2> QED BY <1>1, <1>3, <1>5, <2>1
<1>7. \A i \in 1..m : i = 1 \/ i = m \/ i \in 2..l
  BY <1>1
<1>8. \A i \in 1..l : i = 1 \/ i \in 2..l
  BY <1>1
<1>9. 1 \in 1..l /\ 1 \in 1..m /\ m \in 1..m /\ 1 # m /\ m \notin 2..l
      /\ \A i \in 2..l : i \in 1..l /\ i \in 1..m /\ i # 1
  BY <1>1
<1>10. Range(t) = Range(s) \ {s[1]}
  <2>1. ASSUME NEW i \in 1..l PROVE t[i] \in Range(s) \ {s[1]}
    <3>1. CASE i = 1
      BY <1>1, <1>6, <1>9, <3>1 DEF Range, IsInjective
    <3>2. CASE i \in 2..l
      BY <1>1, <1>6, <1>9, <3>2 DEF Range, IsInjective
    <3> QED BY <1>8, <3>1, <3>2
  <2>2. ASSUME NEW i \in 1..m, s[i] # s[1] PROVE s[i] \in Range(t)
    <3>1. CASE i = m
      BY <1>5, <1>6, <1>9, <3>1 DEF Range
    <3>2. CASE i \in 2..l
      BY <1>5, <1>6, <1>9, <3>2 DEF Range
    <3> QED BY <1>7, <2>2, <3>1, <3>2
  <2>3. Range(t) \subseteq Range(s) \ {s[1]}
    <3>1. ASSUME NEW e \in Range(t) PROVE e \in Range(s) \ {s[1]}
      <4>1. PICK i \in 1..l : e = t[i]
        BY <1>5 DEF Range
      <4> QED BY <2>1, <4>1
    <3> QED BY <3>1
  <2>4. Range(s) \ {s[1]} \subseteq Range(t)
    <3>1. ASSUME NEW e \in Range(s) \ {s[1]} PROVE e \in Range(t)
      <4>1. PICK i \in 1..m : e = s[i]
        BY <1>1 DEF Range
      <4> QED BY <2>2, <3>1, <4>1
    <3> QED BY <3>1
  <2> QED BY <2>3, <2>4
<1>11. IsInjective(t)
  <2>1. ASSUME NEW i \in 1..l, NEW j \in 1..l, t[i] = t[j] PROVE i = j
    <3>1. \A k \in 1..l : \E n \in 1..m : t[k] = s[n] /\ IF k = 1 THEN n = m ELSE n = k
      <4>1. ASSUME NEW k \in 1..l
            PROVE  \E n \in 1..m : t[k] = s[n] /\ IF k = 1 THEN n = m ELSE n = k
        <5>1. CASE k = 1
          BY <1>6, <1>9, <5>1
        <5>2. CASE k \in 2..l
          BY <1>6, <1>9, <5>2
        <5> QED BY <1>8, <5>1, <5>2
      <4> QED BY <4>1
    <3>2. PICK n \in 1..m : t[i] = s[n] /\ IF i = 1 THEN n = m ELSE n = i
      BY <3>1
    <3>3. PICK o \in 1..m : t[j] = s[o] /\ IF j = 1 THEN o = m ELSE o = j
      BY <3>1
    <3>4. n = o
      BY <1>1, <2>1, <3>2, <3>3 DEF IsInjective
    <3>5. i # m /\ j # m
      BY <1>1
    <3> QED BY <3>2, <3>3, <3>4, <3>5
  <2> QED BY <1>5, <2>1 DEF IsInjective
<1>12. Sinking(rank, [heap |-> t, at |-> 1])
  <2> DEFINE r == [heap |-> t, at |-> 1]
  <2>1. r.heap = t /\ r.at = 1
    OBVIOUS
  <2>2. ASSUME NEW i \in 2..l, i \div 2 # 1 PROVE rank[t[i \div 2]] <= rank[t[i]]
    <3>1. i \div 2 \in 1..(i - 1) /\ i \in 2..m /\ i \div 2 \in 2..l
      BY <1>1, <2>2, Half
    <3>2. rank[s[i \div 2]] <= rank[s[i]]
      BY <1>1, <3>1 DEF Ordered
    <3> QED BY <1>6, <3>1, <3>2
  <2> HIDE DEF r
  <2>3. Sinking(rank, r)
    BY <1>5, <2>1, <2>2, ~(1 > 1) DEF Sinking
  <2> QED BY <2>3 DEF r
<1> QED BY <1>5, <1>10, <1>11, <1>12 DEF l

\* heap.Pop takes the first element, and the heap is in order again.
THEOREM HeapPopKeeps ==
    ASSUME NEW S, NEW rank \in [S -> Int], NEW s \in Seq(S), s # <<>>,
           Ordered(rank, s), IsInjective(s)
    PROVE  /\ HeapPop(rank, s) \in Seq(S)
           /\ Range(HeapPop(rank, s)) = Range(s) \ {s[1]}
           /\ IsInjective(HeapPop(rank, s)) /\ Ordered(rank, HeapPop(rank, s))
<1> DEFINE l == Len(s) - 1
           t == SubSeq(Swap(s, 1, Len(s)), 1, l)
           first == [heap |-> t, at |-> 1]
           E == Range(s) \ {s[1]}
           T == {r \in Arrays(S, E, l) : Sinking(rank, r)}
           f == [r \in T |-> Sink(rank, r)]
           Done == {r \in T : Ordered(rank, r.heap)}
           far == [r \in T |-> l - r.at]
           round == CHOOSE u : u = [i \in 0..l |-> IF i = 0 THEN first ELSE Sink(rank, u[i - 1])]
<1>1. HeapPop(rank, s) = round[l].heap
  BY DEF HeapPop
<1>2. l \in Nat /\ Len(s) \in Nat /\ Len(s) = l + 1
  OBVIOUS
<1>a. CASE l = 0
  <2>1. DOMAIN s = {1} /\ Len(s) = 1
    <3> HIDE DEF l
    <3>1. Len(s) = 1
      BY <1>2, <1>a
    <3> QED BY <3>1
  <2>2. t = <<>>
    <3>1. Swap(s, 1, Len(s)) \in Seq(S)
      <4>1. 1 \in 1..Len(s) /\ Len(s) \in 1..Len(s)
        BY <2>1
      <4> QED BY <4>1, SwapKeeps
    <3> HIDE DEF l
    <3> QED BY <1>a, <3>1
  <2> HIDE DEF l, t
  <2>3. first.heap = <<>>
    BY <2>2
  <2> HIDE DEF first
  <2>4. \E u : u = [i \in 0..l |-> IF i = 0 THEN first ELSE Sink(rank, u[i - 1])]
    <3> DEFINE u == [i \in 0..l |-> first]
    <3>1. u = [i \in 0..l |-> IF i = 0 THEN first ELSE Sink(rank, u[i - 1])]
      BY <1>a
    <3> HIDE DEF u
    <3> QED BY <3>1
  <2>5. round = [i \in 0..l |-> IF i = 0 THEN first ELSE Sink(rank, round[i - 1])]
    BY <2>4
  <2> HIDE DEF round
  <2>6. HeapPop(rank, s) = <<>>
    BY <1>1, <1>a, <2>3, <2>5
  <2>7. Range(<<>>) = {} /\ IsInjective(<<>>) /\ Ordered(rank, <<>>) /\ <<>> \in Seq(S)
    BY DEF Range, IsInjective, Ordered
  <2>8. E = {}
    BY <2>1 DEF Range
  <2> QED BY <2>6, <2>7, <2>8
<1>b. CASE l # 0
  <2>0. Len(s) > 1 /\ l > 0 /\ 1 \in 1..l
    BY <1>2, <1>b
  <2>3. first \in T
    <3>0. t = SubSeq(Swap(s, 1, Len(s)), 1, Len(s) - 1) /\ Len(s) > 1
      BY <2>0
    <3> HIDE DEF t, T
    <3>a. /\ t \in Seq(S) /\ Len(t) = Len(s) - 1 /\ Range(t) = Range(s) \ {s[1]}
          /\ IsInjective(t) /\ Sinking(rank, [heap |-> t, at |-> 1])
      <4>1. s \in Seq(S) /\ rank \in [S -> Int] /\ Len(s) > 1
        BY <3>0
      <4>2. \A u : u = SubSeq(Swap(s, 1, Len(s)), 1, Len(s) - 1) =>
                /\ u \in Seq(S) /\ Len(u) = Len(s) - 1
                /\ Range(u) = Range(s) \ {s[1]} /\ IsInjective(u)
                /\ Sinking(rank, [heap |-> u, at |-> 1])
        BY <4>1, PopStart, Zenon
      <4> QED BY <3>0, <4>2, Zenon
    <3>1. /\ t \in Seq(S) /\ Len(t) = l /\ Range(t) = E /\ IsInjective(t)
          /\ Sinking(rank, first)
      BY <3>a
    <3> USE DEF T
    <3> HIDE DEF l, E
    <3>2. first \in Arrays(S, E, l)
      BY <1>2, <2>0, <3>1, InArrays
    <3> QED BY <3>1, <3>2
  <2>4. /\ f \in [T -> T] /\ far \in [T -> Nat] /\ far[first] <= l
        /\ \A r \in T : far[r] = 0 => r \in Done
        /\ \A r \in T : r \in Done => f[r] \in Done
        /\ \A r \in T : r \notin Done => far[f[r]] < far[r]
    <3>1. ASSUME NEW r \in T
          PROVE  /\ Sink(rank, r) \in T /\ r.at \in 1..l
                 /\ r \in Done => Sink(rank, r) = r
                 /\ r \notin Done => Sink(rank, r).at > r.at
      <4>1. r \in Arrays(S, E, l) /\ Sinking(rank, r) /\ l \in Nat
        BY <1>2
      <4> HIDE DEF E, l
      <4>2. /\ Sink(rank, r) \in Arrays(S, E, l) /\ Sinking(rank, Sink(rank, r))
            /\ Ordered(rank, r.heap) => Sink(rank, r) = r
            /\ ~Ordered(rank, r.heap) => Sink(rank, r).at > r.at
        BY <4>1, SinkKeeps
      <4>3. r.at \in 1..l
        BY <4>1 DEF Arrays
      <4> QED BY <4>1, <4>2, <4>3
    <3>2. \A r \in T : /\ f[r] = Sink(rank, r) /\ far[r] = l - r.at /\ f[r] \in T
                       /\ f[r].at \in 1..l /\ far[f[r]] = l - f[r].at
      BY <3>1
    <3>3. f \in [T -> T] /\ far \in [T -> Nat]
      <4> HIDE DEF l
      <4>1. \A r \in T : l - r.at \in Nat
        BY <1>2, <3>1
      <4> HIDE DEF T
      <4> QED BY <3>1, <4>1
    <3>4. first.at = 1
      OBVIOUS
    <3> HIDE DEF T, Done, f, far, first, l
    <3>5. far[first] <= l
      BY <1>2, <2>3, <3>2, <3>4
    <3>6. \A r \in T : far[r] = 0 => r \in Done
      BY <1>2, <3>1, <3>2
    <3>7. \A r \in T : r \in Done => f[r] \in Done
      BY <3>1, <3>2
    <3>8. \A r \in T : r \notin Done => far[f[r]] < far[r]
      BY <1>2, <3>1, <3>2
    <3> QED BY <3>3, <3>5, <3>6, <3>7, <3>8
  <2>5. \A r \in T : f[r] = Sink(rank, r)
    OBVIOUS
  <2>d. \A r \in Done : /\ r.heap \in Seq(S) /\ Range(r.heap) = E
                        /\ IsInjective(r.heap) /\ Ordered(rank, r.heap)
    BY DEF Arrays
  <2> HIDE DEF T, Done, f, far, first, l
  <2>6. PICK u : IsIteration(u, f, first, l)
    BY <1>2, IterationExists
  <2>7. \A i \in 0..l : u[i] \in T
    BY <1>2, <2>3, <2>4, <2>6, IterationStays
  <2>8. u = [i \in 0..l |-> IF i = 0 THEN first ELSE Sink(rank, u[i - 1])]
    <3>1. ASSUME NEW i \in 0..l, i # 0 PROVE f[u[i - 1]] = Sink(rank, u[i - 1])
      BY <1>2, <2>5, <2>7, <3>1
    <3> QED BY <2>6, <3>1 DEF IsIteration
  <2>9. round = [i \in 0..l |-> IF i = 0 THEN first ELSE Sink(rank, round[i - 1])]
    BY <2>8
  <2> HIDE DEF round
  <2>10. IsIteration(round, f, first, l)
    <3> DEFINE A == {i \in 0..l : round[i] \in T}
    <3>1. 0 \in A
      BY <1>2, <2>3, <2>9
    <3>2. ASSUME NEW i \in 0..l, i \in A, i < l PROVE i + 1 \in A
      <4>1. round[i + 1] = Sink(rank, round[i])
        BY <1>2, <2>9, <3>2
      <4>2. Sink(rank, round[i]) \in T
        BY <2>4, <2>5, <3>2
      <4> QED BY <1>2, <3>2, <4>1, <4>2
    <3>3. \A i \in 0..l : i \in A
      <4> HIDE DEF A
      <4> QED BY <1>2, <3>1, <3>2, UpTo
    <3>4. ASSUME NEW i \in 0..l, i # 0 PROVE f[round[i - 1]] = Sink(rank, round[i - 1])
      BY <1>2, <2>5, <3>3, <3>4
    <3> QED BY <2>9, <3>4 DEF IsIteration
  <2>11. round[l] \in Done
    <3>1. \A r \in T : far[r] = 0 => r \in Done
      BY <2>4
    <3>2. \A r \in T : r \in Done => f[r] \in Done
      BY <2>4
    <3>3. \A r \in T : r \notin Done => far[f[r]] < far[r]
      BY <2>4
    <3>4. f \in [T -> T] /\ far \in [T -> Nat] /\ far[first] <= l
      BY <2>4
    <3> QED BY <1>2, <2>3, <2>10, <3>1, <3>2, <3>3, <3>4, IterationEnds
  <2> QED BY <1>1, <2>d, <2>11
<1> QED BY <1>a, <1>b

-----------------------------------------------------------------------------
(* The inductive invariant                                                 *)

\* The sides of the book.
Sides == {"BUY", "SELL"}

\* The heap a side is kept by: what comes first has the least rank.
LevelRank(side) == [k \in DOMAIN levels |-> Rank(side, levels[k].price)]

Ascending(s) == \A i, j \in DOMAIN s : i < j => s[i] < s[j]

\* The orders that wait in a level.
Waiting(k) == Range(levels[k].queue)

\* A call is about the youngest order, and until it returns that order is open.
CallOK ==
    /\ pc = "idle" => taker = 0
    /\ pc # "idle" => taker # 0 /\ taker = Len(orders) /\ orders[taker].status = "OPEN"

\* While a level is worked on it stays the best of the other side, at a price
\* the limit accepts.
FillOK ==
    pc = "fill" =>
        /\ Opposite(taker) # <<>> /\ level = Opposite(taker)[1]
        /\ IsMarket(taker) \/ Acceptable(taker, levels[level].price)

\* When the matching is over nothing is left to match.
FinishOK == pc = "finish" => ~ HasMatch

\* The heaps hold each level once, in order, and none of the other side's.
HeapsOK ==
    /\ \A side \in Sides : IsInjective(Heap(side)) /\ Ordered(LevelRank(side), Heap(side))
    /\ InHeap("BUY") \cap InHeap("SELL") = {}

\* The map leads from a price to a level of that price that a heap holds.
MapOK ==
    \A p \in Prices : levelAt[p] # 0 =>
        /\ levels[levelAt[p]].price = p
        /\ levelAt[p] \in InHeap("BUY") \cup InHeap("SELL")

\* In a level wait limit orders of its price and its heap's side, which have
\* something left to trade, the oldest first; none waits in two levels, and the
\* incoming order in none.
QueuesOK ==
    /\ \A k \in DOMAIN levels :
          /\ Ascending(levels[k].queue)
          /\ \A o \in Waiting(k) :
                /\ ~ IsMarket(o) /\ Shape(o).price = levels[k].price
                /\ Remaining(o) > 0 /\ o # taker
                /\ \A side \in Sides : k \in InHeap(side) => Shape(o).side = side
    /\ \A k, l \in DOMAIN levels : k # l => Waiting(k) \cap Waiting(l) = {}

\* What the book lists is open and waits in a level that its side's heap holds.
RestingOK ==
    \A o \in resting :
        /\ o # taker /\ orders[o].status \in {"OPEN", "PARTIALLY_FILLED"}
        /\ \E k \in InHeap(Shape(o).side) : o \in Waiting(k)

\* Before the first cancellation the map knows every level the heaps hold, and
\* none of them is empty but the one that is being emptied.
Clean ==
    \A k \in InHeap("BUY") \cup InHeap("SELL") :
        /\ levelAt[levels[k].price] = k
        /\ levels[k].queue # <<>> \/ (pc = "fill" /\ k = level)

\* The first order that is cancelled is out of the book for good.
CleanOK ==
    \/ NoneCancelled /\ Clean
    \/ \E o \in Ids : /\ orders[o].status = "CANCELLED"
                      /\ \A k \in DOMAIN levels : o \notin Waiting(k)

\* The inductive invariant.
BookInv ==
    /\ TypeOK /\ CallOK /\ FillOK /\ FinishOK /\ HeapsOK /\ MapOK
    /\ QueuesOK /\ RestingOK /\ NeverOverfilled /\ CleanOK

-----------------------------------------------------------------------------
(* Queues                                                                  *)

\* The orders that wait are older than o.
Older(q, o) == \A e \in Range(q) : e < o

\* An order that is younger than those that wait keeps the queue in order.
LEMMA EnqueueKeeps ==
    ASSUME NEW S, S \subseteq Nat, NEW q \in Seq(S), NEW o \in S, Ascending(q),
           Older(q, o)
    PROVE  /\ Enqueue(q, o) \in Seq(S)
           /\ \A e : e \in Range(Enqueue(q, o)) <=> e \in Range(q) \/ e = o
           /\ Ascending(Enqueue(q, o))
<1> DEFINE d == Enqueue(q, o)
           l == Len(q)
<1>0. \A e \in Range(q) : e < o
  BY DEF Older
<1>1. /\ l \in Nat /\ d \in Seq(S) /\ Len(d) = l + 1 /\ DOMAIN d = 1..(l + 1)
      /\ DOMAIN q = 1..l /\ d[l + 1] = o /\ \A i \in 1..l : d[i] = q[i]
  BY DEF Enqueue
<1> HIDE DEF d, l
<1>2. /\ l + 1 \in 1..(l + 1) /\ l + 1 \notin 1..l
      /\ \A i \in 1..(l + 1) : i \in 1..l \/ i = l + 1
      /\ \A i \in 1..l : i \in 1..(l + 1)
  BY <1>1
<1>3. Range(d) = Range(q) \cup {o}
  <2>1. Range(d) \subseteq Range(q) \cup {o}
    BY <1>1, <1>2 DEF Range
  <2>2. o \in Range(d)
    BY <1>1, <1>2 DEF Range
  <2>3. Range(q) \subseteq Range(d)
    BY <1>1, <1>2 DEF Range
  <2> QED BY <2>1, <2>2, <2>3
<1>4. ASSUME NEW i \in 1..(l + 1), NEW j \in 1..(l + 1), i < j
      PROVE  d[i] < d[j]
  <2>1. i \in 1..l
    BY <1>1, <1>4
  <2>2. CASE j \in 1..l
    <3>1. q[i] < q[j]
      BY <1>1, <1>4, <2>1, <2>2 DEF Ascending
    <3> QED BY <1>1, <2>1, <2>2, <3>1
  <2>3. CASE j = l + 1
    <3>1. q[i] \in Range(q)
      BY <1>1, <2>1 DEF Range
    <3> QED BY <1>0, <1>1, <2>1, <2>3, <3>1
  <2> QED BY <1>2, <2>2, <2>3
<1>5. Ascending(d)
  BY <1>1, <1>4 DEF Ascending
<1> QED BY <1>1, <1>3, <1>5 DEF d

\* The queue without its i-th entry.
LEMMA WithoutOne ==
    ASSUME NEW S, S \subseteq Nat, NEW q \in Seq(S), NEW i \in 1..Len(q), Ascending(q),
           NEW d, d = SubSeq(q, 1, i - 1) \o SubSeq(q, i + 1, Len(q))
    PROVE  /\ d \in Seq(S) /\ Range(d) = Range(q) \ {q[i]} /\ Ascending(d)
<1> DEFINE l == Len(q)
           a == SubSeq(q, 1, i - 1)
           b == SubSeq(q, i + 1, l)
<1>1. l \in Nat /\ DOMAIN q = 1..l /\ i \in 1..l /\ Len(q) = l
  OBVIOUS
<1> HIDE DEF l
<1>2. /\ a \in Seq(S) /\ Len(a) = i - 1 /\ \A j \in 1..(i - 1) : a[j] = q[j]
  BY <1>1
<1>3. /\ b \in Seq(S) /\ Len(b) = l - i /\ \A j \in 1..(l - i) : b[j] = q[i + j]
  BY <1>1
<1>4. d = a \o b
  BY DEF l
<1> HIDE DEF a, b
<1>j. /\ \A j \in 1..Len(a) : d[j] = a[j]
      /\ \A j \in 1..Len(b) : d[j + Len(a)] = b[j]
  <2>1. a \in Seq(S) /\ b \in Seq(S)
    BY <1>2, <1>3
  <2>2. /\ \A j \in 1..Len(a) : (a \o b)[j] = a[j]
        /\ \A j \in 1..Len(b) : (a \o b)[j + Len(a)] = b[j]
    BY <2>1
  <2> QED BY <1>4, <2>2, Zenon
<1>5. /\ d \in Seq(S) /\ Len(d) = l - 1 /\ DOMAIN d = 1..(l - 1)
      /\ \A j \in 1..(l - 1) : d[j] = IF j < i THEN q[j] ELSE q[j + 1]
  <2>1. d \in Seq(S) /\ Len(d) = l - 1 /\ DOMAIN d = 1..(l - 1)
    BY <1>1, <1>2, <1>3, <1>4
  <2>2. ASSUME NEW j \in 1..(l - 1) PROVE d[j] = IF j < i THEN q[j] ELSE q[j + 1]
    <3>1. CASE j < i
      <4>1. j \in 1..(i - 1) /\ j \in 1..Len(a)
        BY <1>1, <1>2, <3>1
      <4>2. d[j] = a[j]
        BY <1>j, <4>1
      <4> QED BY <1>2, <3>1, <4>1, <4>2
    <3>2. CASE ~(j < i)
      <4> DEFINE k == j - Len(a)
      <4>1. k \in 1..(l - i) /\ k \in 1..Len(b) /\ i + k = j + 1 /\ j = k + Len(a)
        BY <1>1, <1>2, <1>3, <3>2
      <4> HIDE DEF k
      <4>2. d[j] = b[k]
        BY <1>j, <4>1
      <4> QED BY <1>3, <3>2, <4>1, <4>2
    <3> QED BY <3>1, <3>2
  <2> QED BY <2>1, <2>2
<1> DEFINE old(j) == IF j < i THEN j ELSE j + 1
<1>6. /\ \A j \in 1..(l - 1) : old(j) \in 1..l /\ old(j) # i /\ d[j] = q[old(j)]
      /\ \A j, k \in 1..(l - 1) : j < k => old(j) < old(k)
      /\ \A k \in 1..l : k # i => \E j \in 1..(l - 1) : old(j) = k
  <2>1. \A j \in 1..(l - 1) : old(j) \in 1..l /\ old(j) # i
    BY <1>1
  <2>2. \A j \in 1..(l - 1) : d[j] = q[old(j)]
    BY <1>5
  <2>3. \A j, k \in 1..(l - 1) : j < k => old(j) < old(k)
    BY <1>1
  <2>4. ASSUME NEW k \in 1..l, k # i PROVE \E j \in 1..(l - 1) : old(j) = k
    <3>1. CASE k < i
      <4>1. k \in 1..(l - 1) /\ old(k) = k
        BY <1>1, <3>1
      <4> QED BY <4>1
    <3>2. CASE ~(k < i)
      <4>1. k - 1 \in 1..(l - 1) /\ old(k - 1) = k
        BY <1>1, <2>4, <3>2
      <4> QED BY <4>1
    <3> QED BY <3>1, <3>2
  <2> HIDE DEF old
  <2> QED BY <2>1, <2>2, <2>3, <2>4
<1> HIDE DEF old
<1>7. ASSUME NEW j \in 1..l, NEW k \in 1..l, j < k PROVE q[j] < q[k]
  BY <1>1, <1>7 DEF Ascending
<1>8. \A j \in 1..l : q[j] \in Nat
  <2>1. \A j \in 1..l : q[j] \in S
    BY <1>1
  <2> QED BY <2>1
<1>9. \A j \in 1..l : j # i => q[j] # q[i]
  <2>1. ASSUME NEW j \in 1..l, j # i PROVE q[j] # q[i]
    <3>1. j < i \/ i < j
      BY <1>1, <2>1
    <3>2. q[j] < q[i] \/ q[i] < q[j]
      BY <1>1, <1>7, <3>1
    <3> QED BY <1>1, <1>8, <3>2
  <2> QED BY <2>1
<1>10. Range(d) = Range(q) \ {q[i]}
  <2>1. ASSUME NEW e \in Range(d) PROVE e \in Range(q) \ {q[i]}
    <3>1. PICK j \in 1..(l - 1) : e = d[j]
      BY <1>5 DEF Range
    <3>2. e = q[old(j)] /\ old(j) \in 1..l /\ old(j) # i
      BY <1>6, <3>1
    <3> QED BY <1>1, <1>9, <3>2 DEF Range
  <2>2. ASSUME NEW e \in Range(q) \ {q[i]} PROVE e \in Range(d)
    <3>1. PICK k \in 1..l : e = q[k]
      BY <1>1 DEF Range
    <3>2. PICK j \in 1..(l - 1) : old(j) = k
      BY <1>6, <2>2, <3>1
    <3> QED BY <1>5, <1>6, <3>1, <3>2 DEF Range
  <2> QED BY <2>1, <2>2
<1>11. Ascending(d)
  <2>1. ASSUME NEW j \in 1..(l - 1), NEW k \in 1..(l - 1), j < k PROVE d[j] < d[k]
    BY <1>6, <1>7, <2>1
  <2> QED BY <1>5, <2>1 DEF Ascending
<1> QED BY <1>5, <1>10, <1>11

\* An order that leaves a queue is not there any more, and the others stay.
LEMMA DequeueKeeps ==
    ASSUME NEW S, S \subseteq Nat, NEW q \in Seq(S), NEW o, Ascending(q)
    PROVE  /\ Dequeue(q, o) \in Seq(S)
           /\ Range(Dequeue(q, o)) = Range(q) \ {o}
           /\ Ascending(Dequeue(q, o))
<1>0. DOMAIN q = 1..Len(q)
  OBVIOUS
<1>1. CASE \A i \in DOMAIN q : q[i] # o
  BY <1>1 DEF Dequeue, Range
<1>2. CASE \E i \in DOMAIN q : q[i] = o
  <2> DEFINE First(i) == q[i] = o /\ \A j \in 1..(i - 1) : q[j] # o
  <2>1. \E i \in DOMAIN q : First(i)
    <3> DEFINE T == {i \in DOMAIN q : q[i] = o}
    <3>1. T \subseteq Nat /\ T # {}
      BY <1>2, <1>0
    <3>2. PICK m \in T : \A k \in T : m <= k
      <4> HIDE DEF T
      <4> QED BY <3>1, LeastElement
    <3>3. ASSUME NEW j \in 1..(m - 1) PROVE q[j] # o
      <4>1. j \in DOMAIN q /\ ~(m <= j)
        BY <1>0, <3>2
      <4> QED BY <3>2, <4>1
    <3> QED BY <3>2, <3>3
  <2> DEFINE i == CHOOSE i \in DOMAIN q : First(i)
  <2>2. i \in DOMAIN q /\ First(i)
    <3> HIDE DEF First
    <3> QED BY <2>1
  <2>3. Dequeue(q, o) = SubSeq(q, 1, i - 1) \o SubSeq(q, i + 1, Len(q))
    BY <1>2 DEF Dequeue
  <2>4. q[i] = o /\ i \in 1..Len(q)
    BY <1>0, <2>2
  <2> HIDE DEF i, First
  <2> QED BY <2>3, <2>4, WithoutOne
<1> QED BY <1>1, <1>2

-----------------------------------------------------------------------------
(* Types                                                                   *)

\* A row of orders, of levels and of trades.
OrderRow == [shape : Shapes, filled : Nat, status : Status]
LevelRow(I) == [price : Prices, queue : Seq(I), quantity : Int]
TradeRow(I) == [taker : I, maker : I, price : Prices, quantity : Nat \ {0}]

\* What validateOrder guarantees of an order.
LEMMA ShapeTypes ==
    ASSUME NEW s \in Shapes
    PROVE  /\ s.side \in Sides /\ s.type \in {"LIMIT", "MARKET"}
           /\ s.price \in Nat /\ s.quantity \in Nat \ {0}
           /\ s.type # "MARKET" => s.price \in Prices
<1>1. s \in [side : {"BUY", "SELL"}, type : {"LIMIT", "MARKET"},
             tif : {"GTC", "IOC", "FOK"}, price : Prices \cup {0}, quantity : Nat \ {0}]
  BY EngineAssumption
<1>2. s.type = "MARKET" <=> s.price = 0
  BY EngineAssumption
<1>3. s.price \in Nat
  <2>1. s.price \in Prices \cup {0}
    BY <1>1
  <2>2. Prices \subseteq Nat
    BY EngineAssumption
  <2>3. \A p \in Prices \cup {0} : p \in Nat
    BY <2>2
  <2> QED BY <2>1, <2>3
<1> QED BY <1>1, <1>2, <1>3 DEF Sides

\* The types of the rows of orders.
LEMMA OrderFacts ==
    ASSUME TypeOK
    PROVE  /\ orders \in Seq(OrderRow) /\ Len(orders) \in Nat /\ Ids = 1..Len(orders)
           /\ Ids \subseteq Nat
           /\ \A o \in Ids :
                 /\ orders[o] \in OrderRow /\ orders[o].filled \in Nat
                 /\ orders[o].status \in Status /\ Shape(o) \in Shapes
                 /\ Shape(o).side \in Sides /\ Shape(o).price \in Nat
                 /\ Shape(o).quantity \in Nat \ {0} /\ Remaining(o) \in Int
                 /\ ~ IsMarket(o) => Shape(o).price \in Prices
<1>1. /\ orders \in Seq(OrderRow) /\ Len(orders) \in Nat /\ Ids = 1..Len(orders)
  BY DEF TypeOK, OrderRow, Ids
<1>2. ASSUME NEW o \in Ids
      PROVE  /\ orders[o] \in OrderRow /\ orders[o].filled \in Nat
             /\ orders[o].status \in Status /\ Shape(o) \in Shapes
             /\ Shape(o).side \in Sides /\ Shape(o).price \in Nat
             /\ Shape(o).quantity \in Nat \ {0} /\ Remaining(o) \in Int
             /\ ~ IsMarket(o) => Shape(o).price \in Prices
  <2>1. orders[o] \in OrderRow
    BY <1>1
  <2>2. orders[o].filled \in Nat /\ orders[o].status \in Status /\ Shape(o) \in Shapes
    BY <2>1 DEF OrderRow, Shape
  <2>3. /\ Shape(o).side \in Sides /\ Shape(o).price \in Nat
        /\ Shape(o).quantity \in Nat \ {0}
        /\ ~ IsMarket(o) => Shape(o).price \in Prices
    BY <2>2, ShapeTypes DEF IsMarket
  <2>4. Remaining(o) \in Int
    BY <2>2, <2>3 DEF Remaining
  <2> QED BY <2>1, <2>2, <2>3, <2>4
<1> QED BY <1>1, <1>2

\* The types of levels and heaps.
LEMMA BookFacts ==
    ASSUME TypeOK
    PROVE  /\ levels \in Seq(LevelRow(Ids)) /\ Len(levels) \in Nat
           /\ DOMAIN levels = 1..Len(levels)
           /\ \A k \in DOMAIN levels :
                 /\ levels[k] \in LevelRow(Ids) /\ levels[k].price \in Prices
                 /\ levels[k].price \in Nat /\ levels[k].quantity \in Int
                 /\ levels[k].queue \in Seq(Ids) /\ Waiting(k) \subseteq Ids
           /\ \A side \in Sides :
                 /\ Heap(side) \in Seq(DOMAIN levels) /\ InHeap(side) \subseteq DOMAIN levels
                 /\ LevelRank(side) \in [DOMAIN levels -> Int]
<1>1. /\ levels \in Seq(LevelRow(Ids)) /\ Len(levels) \in Nat
      /\ DOMAIN levels = 1..Len(levels)
  BY DEF TypeOK, LevelRow
<1>2. ASSUME NEW k \in DOMAIN levels
      PROVE  /\ levels[k] \in LevelRow(Ids) /\ levels[k].price \in Prices
             /\ levels[k].price \in Nat /\ levels[k].quantity \in Int
             /\ levels[k].queue \in Seq(Ids) /\ Waiting(k) \subseteq Ids
  <2>1. levels[k] \in LevelRow(Ids)
    BY <1>1
  <2>2. levels[k].price \in Prices /\ levels[k].quantity \in Int /\ levels[k].queue \in Seq(Ids)
    BY <2>1 DEF LevelRow
  <2>3. levels[k].price \in Nat
    BY <2>2, EngineAssumption
  <2>4. Waiting(k) \subseteq Ids
    BY <2>2 DEF Waiting, Range
  <2> QED BY <2>1, <2>2, <2>3, <2>4
<1>3. ASSUME NEW side \in Sides
      PROVE  /\ Heap(side) \in Seq(DOMAIN levels) /\ InHeap(side) \subseteq DOMAIN levels
             /\ LevelRank(side) \in [DOMAIN levels -> Int]
  <2>1. Heap(side) \in Seq(DOMAIN levels)
    BY DEF TypeOK, Heap
  <2>2. InHeap(side) \subseteq DOMAIN levels
    BY <2>1 DEF InHeap, Range
  <2>3. \A k \in DOMAIN levels : Rank(side, levels[k].price) \in Int
    BY <1>2 DEF Rank
  <2> QED BY <2>1, <2>2, <2>3 DEF LevelRank
<1> QED BY <1>1, <1>2, <1>3

\* Sequences of rows about some orders are about more orders, too.
LEMMA Widened ==
    ASSUME NEW I, NEW J, I \subseteq J
    PROVE  /\ \A s \in Seq(LevelRow(I)) : s \in Seq(LevelRow(J))
           /\ \A s \in Seq(TradeRow(I)) : s \in Seq(TradeRow(J))
<1>1. Seq(I) \subseteq Seq(J)
  OBVIOUS
<1>2. LevelRow(I) \subseteq LevelRow(J)
  BY <1>1 DEF LevelRow
<1>3. TradeRow(I) \subseteq TradeRow(J)
  BY DEF TradeRow
<1> QED BY <1>2, <1>3

\* What of the book a step leaves alone.
LEMMA HeapsStay ==
    ASSUME UNCHANGED <<bids, asks>>
    PROVE  \A side : Heap(side)' = Heap(side) /\ InHeap(side)' = InHeap(side)
BY DEF Heap, InHeap

\* What follows for a step that leaves the levels alone.
LEMMA LevelsStay ==
    ASSUME UNCHANGED levels
    PROVE  /\ \A k : Waiting(k)' = Waiting(k)
           /\ \A side : LevelRank(side)' = LevelRank(side)
BY DEF Waiting, LevelRank

\* What is matched against is a heap of the book.
LEMMA OppositeHeap ==
    \A o : Opposite(o) = Heap(OppositeSide(o)) /\ OppositeSide(o) \in Sides
BY DEF Opposite, Heap, OppositeSide, Sides

-----------------------------------------------------------------------------
(* The invariant holds at first.                                           *)

\* The empty book is sound.
LEMMA BookInit == Init => BookInv
<1> SUFFICES ASSUME Init PROVE BookInv
  OBVIOUS
<1>1. /\ orders = <<>> /\ resting = {} /\ levels = <<>> /\ bids = <<>> /\ asks = <<>>
      /\ levelAt = [p \in Prices |-> 0] /\ trades = <<>> /\ pc = "idle"
      /\ taker = 0 /\ level = 0
  BY DEF Init
<1>2. Ids = {} /\ DOMAIN levels = {} /\ Len(levels) = 0
  BY <1>1 DEF Ids
<1>3. \A side \in Sides : Heap(side) = <<>> /\ InHeap(side) = {}
  BY <1>1 DEF Heap, InHeap, Range
<1>4. TypeOK
  <2>1. levelAt \in [Prices -> 0..Len(levels)]
    BY <1>1, <1>2
  <2> QED BY <1>1, <1>2, <2>1 DEF TypeOK
<1>5. CallOK /\ FillOK /\ FinishOK
  BY <1>1 DEF CallOK, FillOK, FinishOK
<1>6. HeapsOK
  <2>1. IsInjective(<<>>) /\ \A rank : Ordered(rank, <<>>)
    BY DEF IsInjective, Ordered
  <2>2. \A side \in Sides : IsInjective(Heap(side)) /\ Ordered(LevelRank(side), Heap(side))
    BY <1>3, <2>1
  <2>3. InHeap("BUY") \cap InHeap("SELL") = {}
    BY <1>3 DEF Sides
  <2> QED BY <2>2, <2>3 DEF HeapsOK
<1>7. MapOK /\ QueuesOK /\ RestingOK /\ NeverOverfilled
  BY <1>1, <1>2 DEF MapOK, QueuesOK, RestingOK, NeverOverfilled
<1>8. CleanOK
  BY <1>2, <1>3 DEF CleanOK, NoneCancelled, Clean, Sides
<1> QED BY <1>4, <1>5, <1>6, <1>7, <1>8 DEF BookInv

-----------------------------------------------------------------------------
(* A call begins.                                                          *)

\* A new order keeps the book sound.
LEMMA PlaceKeeps ==
    ASSUME BookInv, NEW s \in Shapes, Place(s)
    PROVE  BookInv'
<1> DEFINE row == [shape |-> s, filled |-> 0, status |-> "OPEN"]
<1>a. /\ TypeOK /\ CallOK /\ FillOK /\ FinishOK /\ HeapsOK /\ MapOK
      /\ QueuesOK /\ RestingOK /\ NeverOverfilled /\ CleanOK
  BY DEF BookInv
<1>1. /\ pc = "idle" /\ pc' = "match" /\ taker' = Len(orders')
      /\ orders' = Append(orders, row)
      /\ UNCHANGED <<resting, levels, levelAt, bids, asks, trades, level>>
  BY DEF Place, book
<1>l. PICK l \in Nat : l = Len(orders)
  BY <1>a, OrderFacts
<1>2. /\ orders \in Seq(OrderRow) /\ l \in Nat /\ Ids = 1..l
  BY <1>a, <1>l, OrderFacts
<1>3. row \in OrderRow
  BY DEF OrderRow, Status
<1>r. row.shape = s /\ row.filled = 0 /\ row.status = "OPEN"
  OBVIOUS
<1> HIDE DEF row
<1>4. /\ orders' \in Seq(OrderRow) /\ Len(orders') = l + 1 /\ DOMAIN orders' = 1..(l + 1)
      /\ orders'[l + 1] = row /\ \A o \in 1..l : orders'[o] = orders[o]
  BY <1>1, <1>2, <1>3, <1>l
<1>5. Ids' = 1..(l + 1) /\ Ids' = Ids \cup {l + 1} /\ l + 1 \notin Ids /\ Ids \subseteq Ids'
      /\ taker' = l + 1 /\ taker' \in Ids'
  BY <1>1, <1>2, <1>4 DEF Ids
<1>6. \A o \in Ids : /\ orders'[o] = orders[o] /\ Shape(o)' = Shape(o)
                     /\ Remaining(o)' = Remaining(o) /\ IsMarket(o)' = IsMarket(o)
  BY <1>2, <1>4 DEF Shape, Remaining, IsMarket
<1>7. /\ \A side : Heap(side)' = Heap(side) /\ InHeap(side)' = InHeap(side)
      /\ \A k : Waiting(k)' = Waiting(k)
      /\ \A side : LevelRank(side)' = LevelRank(side)
  BY <1>1, HeapsStay, LevelsStay
<1>8. \A k \in DOMAIN levels : Waiting(k) \subseteq Ids
  BY <1>a, BookFacts
<1>9. TypeOK'
  <2>1. levels \in Seq(LevelRow(Ids')) /\ trades \in Seq(TradeRow(Ids'))
    BY <1>a, <1>5, Widened DEF TypeOK, LevelRow, TradeRow
  <2>2. /\ resting \subseteq Ids /\ levelAt \in [Prices -> 0..Len(levels)]
        /\ bids \in Seq(DOMAIN levels) /\ asks \in Seq(DOMAIN levels) /\ level \in 0..Len(levels)
    BY <1>a DEF TypeOK
  <2> QED BY <1>1, <1>4, <1>5, <2>1, <2>2 DEF TypeOK, LevelRow, TradeRow, OrderRow
<1>10. CallOK' /\ FillOK' /\ FinishOK'
  <2>1. l + 1 # 0
    BY <1>2
  <2> QED BY <1>1, <1>4, <1>5, <1>r, <2>1 DEF CallOK, FillOK, FinishOK
<1>11. HeapsOK' /\ MapOK'
  BY <1>a, <1>1, <1>7 DEF HeapsOK, MapOK
<1>12. QueuesOK'
  <2>1. ASSUME NEW k \in DOMAIN levels, NEW o \in Waiting(k)
        PROVE  /\ o \in Ids /\ ~ IsMarket(o) /\ Shape(o).price = levels[k].price
               /\ Remaining(o) > 0
               /\ \A side \in Sides : k \in InHeap(side) => Shape(o).side = side
    BY <1>a, <1>8 DEF QueuesOK
  <2>2. /\ \A k \in DOMAIN levels : Ascending(levels[k].queue)
        /\ \A k, m \in DOMAIN levels : k # m => Waiting(k) \cap Waiting(m) = {}
    BY <1>a DEF QueuesOK
  <2>3. \A o \in Ids : o # taker'
    BY <1>5
  <2> QED BY <1>1, <1>6, <1>7, <2>1, <2>2, <2>3 DEF QueuesOK
<1>13. RestingOK'
  <2>1. resting \subseteq Ids
    BY <1>a DEF TypeOK
  <2>2. ASSUME NEW o \in resting
        PROVE  /\ o # taker' /\ orders'[o].status \in {"OPEN", "PARTIALLY_FILLED"}
               /\ (\E k \in InHeap(Shape(o).side) : o \in Waiting(k))'
    BY <1>a, <1>5, <1>6, <1>7, <2>1 DEF RestingOK
  <2> QED BY <1>1, <2>2 DEF RestingOK
<1>14. NeverOverfilled'
  <2>1. \A o : TradedIn(o)' = TradedIn(o)
    BY <1>1 DEF TradedIn
  <2>2. Total(TradedIn(l + 1), Len(trades)) = 0
    <3>1. trades \in Seq(TradeRow(Ids)) /\ Len(trades) \in Nat /\ DOMAIN trades = 1..Len(trades)
      BY <1>a DEF TypeOK, TradeRow
    <3>2. \A i \in 1..Len(trades) : trades[i].taker \in Ids /\ trades[i].maker \in Ids
      <4>1. \A i \in 1..Len(trades) : trades[i] \in TradeRow(Ids)
        BY <3>1
      <4> QED BY <4>1 DEF TradeRow
    <3>3. TradedIn(l + 1) = [i \in 1..Len(trades) |-> 0]
      BY <1>5, <3>1, <3>2 DEF TradedIn
    <3> QED BY <3>1, <3>3, TotalZero
  <2>3. ASSUME NEW o \in Ids
        PROVE  /\ orders'[o].filled = Total(TradedIn(o), Len(trades))
               /\ orders'[o].filled <= Shape(o)'.quantity
               /\ orders'[o].status = "FILLED" => Remaining(o)' = 0
    BY <1>a, <1>6 DEF NeverOverfilled
  <2>4. /\ orders'[l + 1].filled = Total(TradedIn(l + 1), Len(trades))
        /\ orders'[l + 1].filled <= Shape(l + 1)'.quantity
        /\ orders'[l + 1].status # "FILLED"
    <3>1. s.quantity \in Nat
      BY ShapeTypes
    <3>2. Shape(l + 1)' = s
      BY <1>4, <1>r DEF Shape
    <3> QED BY <1>4, <1>r, <2>2, <3>1, <3>2
  <2>5. ASSUME NEW o \in Ids'
        PROVE  /\ orders'[o].filled = Total(TradedIn(o), Len(trades))
               /\ orders'[o].filled <= Shape(o)'.quantity
               /\ orders'[o].status = "FILLED" => Remaining(o)' = 0
    BY <1>5, <2>3, <2>4
  <2>6. Len(trades)' = Len(trades)
    BY <1>1
  <2> QED BY <2>1, <2>5, <2>6 DEF NeverOverfilled
<1>15. CleanOK'
  <2>1. CASE NoneCancelled /\ Clean
    <3>1. NoneCancelled'
      BY <1>4, <1>5, <1>6, <1>r, <2>1 DEF NoneCancelled
    <3>2. Clean'
      BY <1>1, <1>7, <2>1 DEF Clean
    <3> QED BY <3>1, <3>2 DEF CleanOK
  <2>2. ASSUME NEW o \in Ids, orders[o].status = "CANCELLED",
               \A k \in DOMAIN levels : o \notin Waiting(k)
        PROVE  CleanOK'
    BY <1>1, <1>5, <1>6, <1>7, <2>2 DEF CleanOK
  <2> QED BY <1>a, <2>1, <2>2 DEF CleanOK
<1> QED BY <1>9, <1>10, <1>11, <1>12, <1>13, <1>14, <1>15 DEF BookInv

\* A step that moves between the loops of a call keeps all of the book.
LEMMA MovesKeep ==
    ASSUME BookInv, UNCHANGED <<orders, book, trades, taker>>, pc # "idle",
           pc' \in {"match", "fill", "finish"}, level' \in 0..Len(levels),
           pc = "fill" => levels[level].queue # <<>>, FillOK', FinishOK'
    PROVE  BookInv'
<1>a. /\ TypeOK /\ CallOK /\ HeapsOK /\ MapOK
      /\ QueuesOK /\ RestingOK /\ NeverOverfilled /\ CleanOK
  BY DEF BookInv
<1>1. UNCHANGED <<orders, resting, levels, levelAt, bids, asks, trades, taker>>
  BY DEF book
<1>2. /\ \A side : Heap(side)' = Heap(side) /\ InHeap(side)' = InHeap(side)
      /\ \A k : Waiting(k)' = Waiting(k)
      /\ \A side : LevelRank(side)' = LevelRank(side)
  BY <1>1, HeapsStay, LevelsStay
<1>3. /\ Ids' = Ids
      /\ \A o : /\ Shape(o)' = Shape(o) /\ TradedIn(o)' = TradedIn(o)
                /\ Remaining(o)' = Remaining(o) /\ IsMarket(o)' = IsMarket(o)
  BY <1>1 DEF Ids, Shape, Remaining, IsMarket, TradedIn
<1>4. TypeOK'
  BY <1>a, <1>1, <1>3 DEF TypeOK
<1>5. CallOK' /\ HeapsOK' /\ MapOK'
  BY <1>a, <1>1, <1>2 DEF CallOK, HeapsOK, MapOK
<1>6. QueuesOK' /\ RestingOK' /\ NeverOverfilled'
  BY <1>a, <1>1, <1>2, <1>3 DEF QueuesOK, RestingOK, NeverOverfilled
<1>7. CleanOK'
  <2>1. Clean => Clean'
    BY <1>1, <1>2 DEF Clean
  <2>2. NoneCancelled' = NoneCancelled
    BY <1>1, <1>3 DEF NoneCancelled
  <2> QED BY <1>a, <1>1, <1>2, <1>3, <2>1, <2>2 DEF CleanOK
<1> QED BY <1>4, <1>5, <1>6, <1>7 DEF BookInv

\* The order of the call, and the heap it is matched against.
LEMMA TakerFacts ==
    ASSUME BookInv, pc # "idle"
    PROVE  /\ taker \in Ids /\ taker = Len(orders) /\ orders[taker].status = "OPEN"
           /\ Opposite(taker) = Heap(OppositeSide(taker)) /\ OppositeSide(taker) \in Sides
           /\ Opposite(taker) \in Seq(DOMAIN levels)
           /\ Opposite(taker) # <<>> => /\ Opposite(taker)[1] \in InHeap(OppositeSide(taker))
                                        /\ Opposite(taker)[1] \in DOMAIN levels
<1>1. TypeOK /\ CallOK
  BY DEF BookInv
<1>2. taker # 0 /\ taker = Len(orders) /\ orders[taker].status = "OPEN" /\ taker \in Ids
  BY <1>1 DEF CallOK, TypeOK
<1>3. /\ Opposite(taker) = Heap(OppositeSide(taker)) /\ OppositeSide(taker) \in Sides
  BY OppositeHeap
<1>4. /\ Opposite(taker) \in Seq(DOMAIN levels)
      /\ InHeap(OppositeSide(taker)) \subseteq DOMAIN levels
  BY <1>1, <1>3, BookFacts
<1>5. Opposite(taker) # <<>> => Opposite(taker)[1] \in InHeap(OppositeSide(taker))
  <2>1. Opposite(taker) # <<>> => 1 \in DOMAIN Opposite(taker)
    BY <1>4
  <2> QED BY <1>3, <2>1 DEF InHeap, Range
<1> QED BY <1>2, <1>3, <1>4, <1>5

\* The loop over levels goes on with the best one.
LEMMA EnterLevelKeeps == BookInv /\ EnterLevel => BookInv'
<1> SUFFICES ASSUME BookInv, EnterLevel PROVE BookInv'
  OBVIOUS
<1>1. /\ pc = "match" /\ pc' = "fill" /\ HasMatch /\ level' = Opposite(taker)[1]
      /\ UNCHANGED <<orders, book, trades, taker>>
  BY DEF EnterLevel
<1>2. /\ Opposite(taker) # <<>> /\ Opposite(taker)[1] \in DOMAIN levels
  BY <1>1, TakerFacts DEF HasMatch
<1>3. IsMarket(taker) \/ Acceptable(taker, levels[Opposite(taker)[1]].price)
  BY <1>1 DEF HasMatch
<1>4. level' \in 0..Len(levels)
  <2>1. TypeOK
    BY DEF BookInv
  <2>2. DOMAIN levels = 1..Len(levels) /\ Len(levels) \in Nat
    BY <2>1, BookFacts
  <2> QED BY <1>1, <1>2, <2>2
<1>5. FinishOK'
  BY <1>1 DEF FinishOK
<1>6. FillOK'
  <2>1. Opposite(taker)' = Opposite(taker) /\ IsMarket(taker)' = IsMarket(taker)
        /\ Acceptable(taker, levels[level].price)' = Acceptable(taker, levels[level'].price)
    BY <1>1 DEF Opposite, IsMarket, Acceptable, Shape, book
  <2> QED BY <1>1, <1>2, <1>3, <2>1 DEF FillOK
<1> QED BY <1>1, <1>4, <1>5, <1>6, MovesKeep

\* The loop over levels ends.
LEMMA EndMatchingKeeps == BookInv /\ EndMatching => BookInv'
<1> SUFFICES ASSUME BookInv, EndMatching PROVE BookInv'
  OBVIOUS
<1>1. /\ pc = "match" /\ pc' = "finish" /\ ~ HasMatch
      /\ UNCHANGED <<orders, book, trades, taker, level>>
  BY DEF EndMatching
<1>2. level \in 0..Len(levels)
  BY DEF BookInv, TypeOK
<1>3. FillOK'
  BY <1>1 DEF FillOK
<1>4. FinishOK'
  <2>1. HasMatch' = HasMatch
    BY <1>1 DEF HasMatch, Opposite, IsMarket, Acceptable, Shape, Remaining, book
  <2> QED BY <1>1, <2>1 DEF FinishOK
<1> QED BY <1>1, <1>2, <1>3, <1>4, MovesKeep

-----------------------------------------------------------------------------
(* A trade.                                                                *)

\* The order at the head of the level that is worked on.
LEMMA MakerFacts ==
    ASSUME BookInv, pc = "fill", levels[level].queue # <<>>
    PROVE  LET m == levels[level].queue[1]
           IN  /\ level \in DOMAIN levels /\ level \in InHeap(OppositeSide(taker))
               /\ m \in Waiting(level) /\ m \in Ids /\ m # taker /\ ~ IsMarket(m)
               /\ Shape(m).price = levels[level].price /\ Remaining(m) > 0
               /\ Shape(m).side = OppositeSide(taker)
               /\ \A o \in Waiting(level) : m <= o
<1> DEFINE q == levels[level].queue
           m == q[1]
<1>1. TypeOK /\ FillOK /\ QueuesOK
  BY DEF BookInv
<1>2. /\ level \in DOMAIN levels /\ level \in InHeap(OppositeSide(taker))
      /\ OppositeSide(taker) \in Sides
  BY <1>1, TakerFacts DEF FillOK
<1>3. q \in Seq(Ids) /\ Waiting(level) \subseteq Ids /\ Ascending(q)
  BY <1>1, <1>2, BookFacts DEF QueuesOK
<1>4. 1 \in DOMAIN q /\ DOMAIN q \subseteq Nat /\ \A i \in DOMAIN q : i = 1 \/ 1 < i
  <2> HIDE DEF q
  <2>1. q # <<>>
    BY DEF q
  <2> QED BY <1>3, <2>1
<1>5. m \in Waiting(level)
  BY <1>4 DEF Waiting, Range
<1>6. /\ m # taker /\ ~ IsMarket(m) /\ Remaining(m) > 0
      /\ Shape(m).price = levels[level].price /\ Shape(m).side = OppositeSide(taker)
  <2> HIDE DEF m
  <2> QED BY <1>1, <1>2, <1>5 DEF QueuesOK
<1>7. ASSUME NEW o \in Waiting(level) PROVE m <= o
  <2>1. PICK i \in DOMAIN q : o = q[i]
    BY DEF Waiting, Range
  <2>2. m \in Nat
    BY <1>1, <1>3, <1>5, OrderFacts
  <2>3. 1 < i => q[1] < q[i]
    BY <1>3, <1>4 DEF Ascending
  <2>4. o \in Nat
    BY <1>1, <1>3, OrderFacts
  <2> QED BY <1>4, <2>1, <2>2, <2>3, <2>4
<1> QED BY <1>2, <1>3, <1>5, <1>6, <1>7

\* The rows of orders when t and m trade n and m has status f.
AfterFill(rows, t, m, n, f) ==
    [rows EXCEPT ![t].filled = @ + n, ![m].filled = @ + n, ![m].status = f]

RowsFilled(rows, new, t, m, n, f) ==
    /\ new \in Seq(OrderRow) /\ Len(new) = Len(rows) /\ DOMAIN new = DOMAIN rows
    /\ \A o \in DOMAIN rows :
          /\ new[o].shape = rows[o].shape
          /\ new[o].filled = rows[o].filled + (IF o = t \/ o = m THEN n ELSE 0)
          /\ new[o].status = IF o = m THEN f ELSE rows[o].status

\* The rows of orders after a trade.
LEMMA RowsAfterFill ==
    ASSUME NEW rows \in Seq(OrderRow), NEW t \in DOMAIN rows, NEW m \in DOMAIN rows, t # m,
           NEW n \in Nat, NEW f \in Status
    PROVE  RowsFilled(rows, AfterFill(rows, t, m, n, f), t, m, n, f)
<1> DEFINE new == AfterFill(rows, t, m, n, f)
<1>1. /\ DOMAIN rows = 1..Len(rows) /\ Len(rows) \in Nat
      /\ \A o \in DOMAIN rows : rows[o] \in OrderRow
  OBVIOUS
<1>2. DOMAIN new = DOMAIN rows /\ new = [o \in DOMAIN new |-> new[o]]
  BY DEF AfterFill
<1>3. new[t] = [rows[t] EXCEPT !.filled = @ + n]
  BY DEF AfterFill
<1>4. new[m] = [rows[m] EXCEPT !.filled = @ + n, !.status = f]
  BY DEF AfterFill
<1>5. \A o \in DOMAIN rows : o # t /\ o # m => new[o] = rows[o]
  BY DEF AfterFill
<1> HIDE DEF new
<1>6. ASSUME NEW o \in DOMAIN rows
      PROVE  /\ new[o] \in OrderRow
             /\ new[o].shape = rows[o].shape
             /\ new[o].filled = rows[o].filled + (IF o = t \/ o = m THEN n ELSE 0)
             /\ new[o].status = IF o = m THEN f ELSE rows[o].status
  <2>0. rows[o] \in OrderRow /\ rows[o].filled \in Nat
    <3>1. rows[o] \in OrderRow
      BY <1>1
    <3> QED BY <3>1 DEF OrderRow
  <2>x. PICK x \in Nat : x = rows[o].filled + n
    BY <2>0
  <2>1. CASE o = t
    <3>1. new[o] = [rows[o] EXCEPT !.filled = x]
      BY <1>3, <2>1, <2>x
    <3>2. /\ new[o] \in OrderRow /\ new[o].shape = rows[o].shape
          /\ new[o].filled = x /\ new[o].status = rows[o].status
      BY <2>0, <2>x, <3>1 DEF OrderRow
    <3> QED BY <2>1, <2>x, <3>2
  <2>2. CASE o = m
    <3> DEFINE y == [rows[o] EXCEPT !.filled = x]
    <3>1. y \in OrderRow /\ y.shape = rows[o].shape /\ y.filled = x
      BY <2>0, <2>x DEF OrderRow
    <3>2. new[o] = [y EXCEPT !.status = f]
      BY <1>4, <2>2, <2>x
    <3> HIDE DEF y
    <3>3. /\ new[o] \in OrderRow /\ new[o].shape = y.shape
          /\ new[o].filled = y.filled /\ new[o].status = f
      BY <3>1, <3>2 DEF OrderRow
    <3> QED BY <2>2, <2>x, <3>1, <3>3
  <2>3. CASE o # t /\ o # m
    BY <1>5, <2>0, <2>3
  <2> QED BY <2>1, <2>2, <2>3
<1>7. new \in Seq(OrderRow) /\ Len(new) = Len(rows)
  <2>1. \A o \in 1..Len(rows) : new[o] \in OrderRow
    BY <1>1, <1>6
  <2>2. new \in [1..Len(rows) -> OrderRow]
    BY <1>1, <1>2, <2>1
  <2> QED BY <1>1, <2>2
<1>8. RowsFilled(rows, new, t, m, n, f)
  BY <1>2, <1>6, <1>7 DEF RowsFilled
<1> QED BY <1>8 DEF new

\* The row of a level is changed, and keeps its price.
LEMMA RowsAfterLevel ==
    ASSUME NEW I, NEW rows \in Seq(LevelRow(I)), NEW k \in DOMAIN rows,
           NEW row \in LevelRow(I), row.price = rows[k].price,
           NEW new, new = [rows EXCEPT ![k] = row]
    PROVE  /\ new \in Seq(LevelRow(I)) /\ Len(new) = Len(rows) /\ DOMAIN new = DOMAIN rows
           /\ \A j \in DOMAIN rows : /\ new[j].price = rows[j].price
                                    /\ new[j].queue = IF j = k THEN row.queue ELSE rows[j].queue
<1>1. new \in Seq(LevelRow(I)) /\ Len(new) = Len(rows) /\ DOMAIN new = DOMAIN rows
  OBVIOUS
<1>2. \A j \in DOMAIN rows : new[j] = IF j = k THEN row ELSE rows[j]
  OBVIOUS
<1> QED BY <1>1, <1>2

\* A level with another queue and another quantity.
AfterBoth(rows, k, q, n) == [rows EXCEPT ![k].queue = q, ![k].quantity = n]

\* The rows of levels after an order joined or left one.
LEMMA RowsAfterBoth ==
    ASSUME NEW I, NEW rows \in Seq(LevelRow(I)), NEW k \in DOMAIN rows,
           NEW q \in Seq(I), NEW n \in Int, NEW new, new = AfterBoth(rows, k, q, n)
    PROVE  /\ new \in Seq(LevelRow(I)) /\ Len(new) = Len(rows) /\ DOMAIN new = DOMAIN rows
           /\ \A j \in DOMAIN rows :
                 new[j].price = rows[j].price /\ new[j].queue = IF j = k THEN q ELSE rows[j].queue
<1> DEFINE y == [rows[k] EXCEPT !.queue = q]
           z == [y EXCEPT !.quantity = n]
<1>1. new = [rows EXCEPT ![k] = z]
  BY DEF AfterBoth
<1>2. rows[k] \in LevelRow(I) /\ rows[k].price \in Prices /\ rows[k].quantity \in Int
  <2>1. rows[k] \in LevelRow(I)
    OBVIOUS
  <2> QED BY <2>1 DEF LevelRow
<1>3. y \in LevelRow(I) /\ y.price = rows[k].price /\ y.queue = q
  BY <1>2 DEF LevelRow
<1> HIDE DEF y
<1>4. z \in LevelRow(I) /\ z.price = rows[k].price /\ z.queue = q
  BY <1>3 DEF LevelRow
<1> HIDE DEF z
<1> QED BY <1>1, <1>4, RowsAfterLevel

\* What a trade of n between t and the first order m of level k changes.
OrdersFilled(t, m, n) ==
    /\ orders' \in Seq(OrderRow) /\ Len(orders') = Len(orders) /\ Ids' = Ids
    /\ \A o \in Ids :
          /\ Shape(o)' = Shape(o) /\ IsMarket(o)' = IsMarket(o)
          /\ orders'[o].filled = orders[o].filled + (IF o = t \/ o = m THEN n ELSE 0)
          /\ Remaining(o)' = Remaining(o) - (IF o = t \/ o = m THEN n ELSE 0)
          /\ orders'[o].status = IF o # m THEN orders[o].status
                                 ELSE IF Remaining(m) = n THEN "FILLED"
                                 ELSE "PARTIALLY_FILLED"

LevelsFilled(m, k, n) ==
    /\ levels' \in Seq(LevelRow(Ids)) /\ DOMAIN levels' = DOMAIN levels
    /\ Len(levels') = Len(levels)
    /\ \A j \in DOMAIN levels :
          /\ levels'[j].price = levels[j].price /\ Ascending(levels'[j].queue)
          /\ j # k => levels'[j].queue = levels[j].queue
          /\ Waiting(j)' = IF j = k /\ Remaining(m) = n THEN Waiting(j) \ {m} ELSE Waiting(j)
    /\ resting' = IF Remaining(m) = n THEN resting \ {m} ELSE resting

TradeMade(t, m, k, n) ==
    /\ t = taker /\ k = level /\ m = levels[k].queue[1] /\ t # m
    /\ m \in Waiting(k) /\ k \in InHeap(OppositeSide(t))
    /\ n <= Remaining(t) /\ n <= Remaining(m)
    /\ pc = "fill" /\ UNCHANGED <<levelAt, bids, asks, pc, taker, level>>
    /\ trades' = Append(trades, [taker |-> t, maker |-> m,
                                 price |-> levels[k].price, quantity |-> n])

\* What Fill does, in these terms.
LEMMA FillEffect ==
    ASSUME BookInv, Fill
    PROVE  \E t \in Ids, m \in Ids, k \in DOMAIN levels, n \in Nat \ {0} :
              TradeMade(t, m, k, n) /\ OrdersFilled(t, m, n) /\ LevelsFilled(m, k, n)
<1>a. TypeOK /\ QueuesOK /\ CallOK
  BY DEF BookInv
<1>1. PICK t, m, k, n : t = taker /\ k = level /\ m = levels[k].queue[1] /\ n = FillQuantity(m)
  OBVIOUS
<1> DEFINE f == IF Remaining(m) = n THEN "FILLED" ELSE "PARTIALLY_FILLED"
<1>2. /\ pc = "fill" /\ levels[k].queue # <<>> /\ Remaining(t) > 0
      /\ UNCHANGED <<levelAt, bids, asks, pc, taker, level>>
  BY <1>1 DEF Fill
<1>3. /\ k \in DOMAIN levels /\ k \in InHeap(OppositeSide(t)) /\ m \in Waiting(k)
      /\ m \in Ids /\ m # t /\ Remaining(m) > 0 /\ t \in Ids
  BY <1>1, <1>2, MakerFacts, TakerFacts
<1>4. /\ Remaining(t) \in Int /\ Remaining(m) \in Int
      /\ orders[m].filled \in Nat /\ Shape(m).quantity \in Nat
  BY <1>a, <1>3, OrderFacts
<1>5. n \in Nat \ {0} /\ n <= Remaining(t) /\ n <= Remaining(m)
  BY <1>1, <1>2, <1>3, <1>4 DEF FillQuantity, Min2
<1>6. orders[m].filled + n = Shape(m).quantity <=> Remaining(m) = n
  BY <1>4, <1>5 DEF Remaining
<1>7. /\ trades' = Append(trades, [taker |-> t, maker |-> m,
                                   price |-> levels[k].price, quantity |-> n])
      /\ orders' = [orders EXCEPT ![t].filled = @ + n, ![m].filled = @ + n, ![m].status = f]
      /\ Remaining(m) = n =>
            /\ levels' = [levels EXCEPT ![k].queue = Dequeue(@, m)]
            /\ resting' = resting \ {m}
      /\ Remaining(m) # n =>
            /\ levels' = [levels EXCEPT ![k].quantity = @ - n]
            /\ resting' = resting
  BY <1>1, <1>6 DEF Fill
<1>8. /\ orders' \in Seq(OrderRow) /\ Len(orders') = Len(orders) /\ Ids' = Ids
      /\ \A o \in Ids :
            /\ orders'[o].shape = orders[o].shape
            /\ orders'[o].filled = orders[o].filled + (IF o = t \/ o = m THEN n ELSE 0)
            /\ orders'[o].status = IF o = m THEN f ELSE orders[o].status
  <2>1. orders \in Seq(OrderRow) /\ t \in DOMAIN orders /\ m \in DOMAIN orders /\ n \in Nat
    BY <1>a, <1>3, <1>5, OrderFacts DEF Ids
  <2>2. f \in Status
    BY DEF Status
  <2>a. orders' = AfterFill(orders, t, m, n, f)
    BY <1>7 DEF AfterFill
  <2> HIDE DEF f
  <2>3. /\ orders' \in Seq(OrderRow) /\ Len(orders') = Len(orders)
        /\ DOMAIN orders' = DOMAIN orders
        /\ \A o \in DOMAIN orders :
              /\ orders'[o].shape = orders[o].shape
              /\ orders'[o].filled = orders[o].filled + (IF o = t \/ o = m THEN n ELSE 0)
              /\ orders'[o].status = IF o = m THEN f ELSE orders[o].status
    <3>1. t # m
      BY <1>3
    <3>2. RowsFilled(orders, AfterFill(orders, t, m, n, f), t, m, n, f)
      BY <2>1, <2>2, <3>1, RowsAfterFill
    <3> QED BY <2>a, <3>2 DEF RowsFilled
  <2> QED BY <2>3 DEF Ids
<1>9. ASSUME NEW o \in Ids
      PROVE  /\ Shape(o)' = Shape(o) /\ IsMarket(o)' = IsMarket(o)
             /\ Remaining(o)' = Remaining(o) - (IF o = t \/ o = m THEN n ELSE 0)
  <2>1. Shape(o)' = Shape(o) /\ IsMarket(o)' = IsMarket(o)
    BY <1>8 DEF Shape, IsMarket
  <2>2. Shape(o).quantity \in Nat /\ orders[o].filled \in Nat
    BY <1>a, OrderFacts
  <2>3. Remaining(o)' = Shape(o).quantity - orders'[o].filled
    BY <2>1 DEF Remaining
  <2>4. orders'[o].filled = orders[o].filled + (IF o = t \/ o = m THEN n ELSE 0)
    BY <1>8
  <2>5. Remaining(o) = Shape(o).quantity - orders[o].filled
    BY DEF Remaining
  <2> QED BY <1>5, <2>1, <2>2, <2>3, <2>4, <2>5
<1>10. /\ levels' \in Seq(LevelRow(Ids)) /\ DOMAIN levels' = DOMAIN levels
       /\ Len(levels') = Len(levels)
       /\ \A j \in DOMAIN levels :
             /\ levels'[j].price = levels[j].price /\ Ascending(levels'[j].queue)
             /\ j # k => levels'[j].queue = levels[j].queue
             /\ Waiting(j)' = IF j = k /\ Remaining(m) = n THEN Waiting(j) \ {m} ELSE Waiting(j)
  <2> DEFINE q == IF Remaining(m) = n THEN Dequeue(levels[k].queue, m) ELSE levels[k].queue
             x == IF Remaining(m) = n THEN levels[k].quantity ELSE levels[k].quantity - n
  <2>1. /\ levels \in Seq(LevelRow(Ids)) /\ levels[k] \in LevelRow(Ids)
        /\ levels[k].queue \in Seq(Ids) /\ levels[k].quantity \in Int /\ Ids \subseteq Nat
    BY <1>a, <1>3, BookFacts, OrderFacts
  <2>2. \A j \in DOMAIN levels : Ascending(levels[j].queue)
    BY <1>a DEF QueuesOK
  <2>3. /\ Dequeue(levels[k].queue, m) \in Seq(Ids) /\ Ascending(Dequeue(levels[k].queue, m))
        /\ Range(Dequeue(levels[k].queue, m)) = Range(levels[k].queue) \ {m}
    BY <1>3, <2>1, <2>2, DequeueKeeps
  <2>4. /\ q \in Seq(Ids) /\ x \in Int /\ Ascending(q)
        /\ Range(q) = IF Remaining(m) = n THEN Range(levels[k].queue) \ {m}
                      ELSE Range(levels[k].queue)
    <3>1. CASE Remaining(m) = n
      BY <2>1, <2>3, <3>1
    <3>2. CASE Remaining(m) # n
      <4>1. q = levels[k].queue /\ x = levels[k].quantity - n
        BY <3>2
      <4> HIDE DEF q, x
      <4>2. x \in Int
        BY <1>5, <2>1, <4>1
      <4> QED BY <1>3, <2>1, <2>2, <3>2, <4>1, <4>2
    <3> QED BY <3>1, <3>2
  <2>5. PICK row \in LevelRow(Ids) : /\ levels' = [levels EXCEPT ![k] = row]
                                     /\ row.price = levels[k].price /\ row.queue = q
    <3>1. CASE Remaining(m) = n
      <4> DEFINE r == [levels[k] EXCEPT !.queue = q]
      <4>1. levels' = [levels EXCEPT ![k] = r]
        BY <1>7, <3>1
      <4>2. r \in LevelRow(Ids) /\ r.price = levels[k].price /\ r.queue = q
        <5> HIDE DEF q, x
        <5> QED BY <2>1, <2>4 DEF LevelRow
      <4> HIDE DEF r
      <4> QED BY <4>1, <4>2
    <3>2. CASE Remaining(m) # n
      <4> DEFINE r == [levels[k] EXCEPT !.quantity = x]
      <4>1. levels' = [levels EXCEPT ![k] = r]
        BY <1>7, <3>2
      <4>2. q = levels[k].queue
        BY <3>2
      <4>3. r \in LevelRow(Ids) /\ r.price = levels[k].price /\ r.queue = levels[k].queue
        <5> HIDE DEF q, x
        <5> QED BY <2>1, <2>4 DEF LevelRow
      <4> HIDE DEF r, q
      <4> QED BY <4>1, <4>2, <4>3
    <3> QED BY <3>1, <3>2
  <2> HIDE DEF q, x
  <2>6. /\ levels' \in Seq(LevelRow(Ids)) /\ DOMAIN levels' = DOMAIN levels
        /\ Len(levels') = Len(levels)
        /\ \A j \in DOMAIN levels :
              /\ levels'[j].price = levels[j].price
              /\ levels'[j].queue = IF j = k THEN q ELSE levels[j].queue
    BY <1>3, <2>1, <2>5, RowsAfterLevel
  <2>7. ASSUME NEW j \in DOMAIN levels
        PROVE  /\ Ascending(levels'[j].queue)
               /\ Waiting(j)' = IF j = k /\ Remaining(m) = n THEN Waiting(j) \ {m} ELSE Waiting(j)
    <3>1. Waiting(j)' = Range(levels'[j].queue) /\ Waiting(j) = Range(levels[j].queue)
      BY DEF Waiting
    <3> QED BY <2>2, <2>4, <2>6, <3>1
  <2> QED BY <2>6, <2>7
<1>11. TradeMade(t, m, k, n)
  BY <1>1, <1>2, <1>3, <1>5, <1>7 DEF TradeMade
<1>12. OrdersFilled(t, m, n)
  BY <1>8, <1>9 DEF OrdersFilled
<1>13. LevelsFilled(m, k, n)
  BY <1>7, <1>10 DEF LevelsFilled
<1> QED BY <1>3, <1>5, <1>11, <1>12, <1>13

\* A trade keeps the book sound.
LEMMA FillKeeps == BookInv /\ Fill => BookInv'
<1> SUFFICES ASSUME BookInv, Fill PROVE BookInv'
  OBVIOUS
<1>a. /\ TypeOK /\ CallOK /\ FillOK /\ HeapsOK /\ MapOK
      /\ QueuesOK /\ RestingOK /\ NeverOverfilled /\ CleanOK
  BY DEF BookInv
<1>1. PICK t \in Ids, m \in Ids, k \in DOMAIN levels, n \in Nat \ {0} :
          TradeMade(t, m, k, n) /\ OrdersFilled(t, m, n) /\ LevelsFilled(m, k, n)
  BY FillEffect
<1>2. /\ t = taker /\ k = level /\ t # m /\ m \in Waiting(k) /\ k \in InHeap(OppositeSide(t))
      /\ n <= Remaining(t) /\ n <= Remaining(m)
      /\ pc = "fill" /\ pc' = "fill" /\ taker' = t /\ level' = k
      /\ UNCHANGED <<levelAt, bids, asks, pc, taker, level>>
      /\ trades' = Append(trades, [taker |-> t, maker |-> m,
                                   price |-> levels[k].price, quantity |-> n])
  BY <1>1 DEF TradeMade
<1>3. /\ orders' \in Seq(OrderRow) /\ Len(orders') = Len(orders) /\ Ids' = Ids
      /\ \A o \in Ids :
            /\ Shape(o)' = Shape(o) /\ IsMarket(o)' = IsMarket(o)
            /\ orders'[o].filled = orders[o].filled + (IF o = t \/ o = m THEN n ELSE 0)
            /\ Remaining(o)' = Remaining(o) - (IF o = t \/ o = m THEN n ELSE 0)
            /\ orders'[o].status = IF o # m THEN orders[o].status
                                   ELSE IF Remaining(m) = n THEN "FILLED"
                                   ELSE "PARTIALLY_FILLED"
  BY <1>1 DEF OrdersFilled
<1>4. /\ levels' \in Seq(LevelRow(Ids)) /\ DOMAIN levels' = DOMAIN levels
      /\ Len(levels') = Len(levels)
      /\ \A j \in DOMAIN levels :
            /\ levels'[j].price = levels[j].price /\ Ascending(levels'[j].queue)
            /\ j # k => levels'[j].queue = levels[j].queue
            /\ Waiting(j)' = IF j = k /\ Remaining(m) = n THEN Waiting(j) \ {m} ELSE Waiting(j)
      /\ resting' = IF Remaining(m) = n THEN resting \ {m} ELSE resting
  BY <1>1 DEF LevelsFilled
<1>5. \A side : Heap(side)' = Heap(side) /\ InHeap(side)' = InHeap(side)
  BY <1>2, HeapsStay
<1>6. \A o \in Ids : /\ Remaining(o) \in Int /\ orders[o].filled \in Nat
                     /\ Shape(o).side \in Sides
  BY <1>a, OrderFacts
<1>7. \A j \in DOMAIN levels : /\ Waiting(j) \subseteq Ids /\ Waiting(j)' \subseteq Waiting(j)
                               /\ levels[j].price \in Prices
  BY <1>a, <1>4, BookFacts
<1>8. TypeOK'
  <2>1. trades' \in Seq(TradeRow(Ids))
    <3> DEFINE x == [taker |-> t, maker |-> m, price |-> levels[k].price, quantity |-> n]
    <3>1. x \in TradeRow(Ids)
      BY <1>7 DEF TradeRow
    <3> HIDE DEF x
    <3>2. trades \in Seq(TradeRow(Ids)) /\ trades' = Append(trades, x)
      BY <1>a, <1>2 DEF TypeOK, TradeRow, x
    <3> QED BY <3>1, <3>2
  <2>2. /\ resting' \subseteq Ids /\ levelAt \in [Prices -> 0..Len(levels)]
        /\ bids \in Seq(DOMAIN levels) /\ asks \in Seq(DOMAIN levels) /\ level \in 0..Len(levels)
    BY <1>a, <1>4 DEF TypeOK
  <2> QED BY <1>2, <1>3, <1>4, <2>1, <2>2 DEF TypeOK, LevelRow, TradeRow, OrderRow
<1>9. CallOK'
  BY <1>a, <1>2, <1>3 DEF CallOK
<1>10. FillOK'
  <2>1. /\ Opposite(t) # <<>> /\ k = Opposite(t)[1]
        /\ IsMarket(t) \/ Acceptable(t, levels[k].price)
    BY <1>a, <1>2 DEF FillOK
  <2>2. Opposite(t)' = Opposite(t)
    BY <1>2, <1>3 DEF Opposite
  <2>3. Acceptable(t, levels[k].price) => Acceptable(t, levels[k].price)'
    BY <1>3, <1>4 DEF Acceptable
  <2> QED BY <1>2, <1>3, <2>1, <2>2, <2>3 DEF FillOK
<1>11. FinishOK'
  BY <1>2 DEF FinishOK
<1>12. HeapsOK' /\ MapOK'
  <2>1. \A side : LevelRank(side)' = LevelRank(side)
    BY <1>4 DEF LevelRank
  <2>2. HeapsOK'
    BY <1>a, <1>5, <2>1 DEF HeapsOK
  <2>3. MapOK'
    <3>1. ASSUME NEW p \in Prices, levelAt[p] # 0
          PROVE  /\ levels'[levelAt[p]].price = p
                 /\ levelAt[p] \in InHeap("BUY") \cup InHeap("SELL")
      <4>1. /\ levels[levelAt[p]].price = p
            /\ levelAt[p] \in InHeap("BUY") \cup InHeap("SELL")
        BY <1>a, <3>1 DEF MapOK
      <4>2. levelAt[p] \in DOMAIN levels
        BY <1>a, <4>1, BookFacts DEF Sides
      <4> QED BY <1>4, <4>1, <4>2
    <3> QED BY <1>2, <1>5, <3>1 DEF MapOK
  <2> QED BY <2>2, <2>3
<1>13. QueuesOK'
  <2>1. ASSUME NEW j \in DOMAIN levels, NEW o \in Waiting(j)'
        PROVE  /\ ~ IsMarket(o)' /\ Shape(o)'.price = levels'[j].price
               /\ Remaining(o)' > 0 /\ o # taker'
               /\ \A side \in Sides : j \in InHeap(side)' => Shape(o)'.side = side
    <3>1. o \in Waiting(j) /\ o \in Ids
      BY <1>7
    <3>2. /\ ~ IsMarket(o) /\ Shape(o).price = levels[j].price
          /\ Remaining(o) > 0 /\ o # t
          /\ \A side \in Sides : j \in InHeap(side) => Shape(o).side = side
      BY <1>a, <1>2, <3>1 DEF QueuesOK
    <3>3. Remaining(o)' > 0
      <4>1. CASE o # m
        BY <1>3, <1>6, <3>1, <3>2, <4>1
      <4>2. CASE o = m
        <5>1. j = k
          BY <1>a, <1>2, <3>1, <4>2 DEF QueuesOK
        <5>2. Remaining(m) # n
          BY <1>4, <4>2, <5>1
        <5>3. Remaining(m) - n > 0
          BY <1>2, <1>6, <5>2
        <5> QED BY <1>3, <3>1, <4>2, <5>3
      <4> QED BY <4>1, <4>2
    <3> QED BY <1>2, <1>3, <1>4, <1>5, <3>1, <3>2, <3>3
  <2>2. ASSUME NEW i \in DOMAIN levels, NEW j \in DOMAIN levels, i # j
        PROVE  Waiting(i)' \cap Waiting(j)' = {}
    BY <1>a, <1>7, <2>2 DEF QueuesOK
  <2> QED BY <1>4, <2>1, <2>2 DEF QueuesOK
<1>14. RestingOK'
  <2>1. ASSUME NEW o \in resting'
        PROVE  /\ o # taker' /\ orders'[o].status \in {"OPEN", "PARTIALLY_FILLED"}
               /\ \E j \in InHeap(Shape(o).side) : o \in Waiting(j)'
    <3>1. o \in resting /\ (o = m => Remaining(m) # n)
      BY <1>4
    <3>2. o \in Ids
      BY <1>a, <3>1 DEF TypeOK
    <3>3. PICK j \in InHeap(Shape(o).side) : o \in Waiting(j)
      BY <1>a, <3>1 DEF RestingOK
    <3>4. j \in DOMAIN levels
      BY <1>a, <1>6, <3>2, <3>3, BookFacts
    <3>5. o \in Waiting(j)'
      BY <1>4, <3>1, <3>3, <3>4
    <3>6. o # taker /\ orders[o].status \in {"OPEN", "PARTIALLY_FILLED"}
      BY <1>a, <3>1 DEF RestingOK
    <3>7. orders'[o].status \in {"OPEN", "PARTIALLY_FILLED"}
      BY <1>3, <3>1, <3>2, <3>6
    <3> QED BY <1>2, <3>3, <3>5, <3>6, <3>7
  <2>2. ASSUME NEW o \in resting' PROVE (\E j \in InHeap(Shape(o).side) : o \in Waiting(j))'
    <3>1. o \in Ids
      BY <1>a, <1>4 DEF TypeOK
    <3> QED BY <1>3, <1>5, <2>1, <3>1
  <2> QED BY <2>1, <2>2 DEF RestingOK
<1>15. NeverOverfilled'
  <2>1. PICK l \in Nat : l = Len(trades)
    BY <1>a DEF TypeOK
  <2>2. /\ Len(trades') = l + 1 /\ DOMAIN trades' = 1..(l + 1) /\ DOMAIN trades = 1..l
        /\ \A i \in 1..l : trades'[i] = trades[i]
        /\ trades'[l + 1].taker = t /\ trades'[l + 1].maker = m /\ trades'[l + 1].quantity = n
    <3> DEFINE x == [taker |-> t, maker |-> m, price |-> levels[k].price, quantity |-> n]
    <3>1. x.taker = t /\ x.maker = m /\ x.quantity = n
      OBVIOUS
    <3> HIDE DEF x
    <3>2. trades' = Append(trades, x) /\ trades \in Seq(TradeRow(Ids))
      BY <1>a, <1>2 DEF TypeOK, TradeRow, x
    <3> QED BY <2>1, <3>1, <3>2
  <2>3. ASSUME NEW o \in Ids
        PROVE  /\ orders'[o].filled = Total(TradedIn(o)', l + 1)
               /\ orders'[o].filled <= Shape(o)'.quantity
               /\ orders'[o].status = "FILLED" => Remaining(o)' = 0
    <3> DEFINE d == TradedIn(o)
               e == TradedIn(o)'
               x == IF o = t \/ o = m THEN n ELSE 0
    <3>1. \A i \in 1..l : d[i] = e[i]
      BY <2>1, <2>2 DEF TradedIn
    <3>2. e[l + 1] = x
      BY <2>1, <2>2 DEF TradedIn
    <3>3. Total(d, l) = Total(e, l)
      <4> HIDE DEF d, e
      <4> QED BY <3>1, TotalExtensional
    <3>4. Total(e, l + 1) = Total(e, l) + e[l + 1]
      <4> HIDE DEF e
      <4> QED BY TotalExtend
    <3>5. /\ orders[o].filled = Total(d, l) /\ orders[o].filled <= Shape(o).quantity
          /\ orders[o].status = "FILLED" => Remaining(o) = 0
      BY <1>a, <2>1 DEF NeverOverfilled
    <3>6. /\ orders'[o].filled = orders[o].filled + x /\ Shape(o)' = Shape(o)
          /\ Remaining(o)' = Remaining(o) - x
      BY <1>3
    <3>7. /\ Shape(o).quantity \in Nat /\ orders[o].filled \in Nat /\ x \in Nat
          /\ Remaining(o) = Shape(o).quantity - orders[o].filled
      BY <1>a, OrderFacts DEF Remaining
    <3>8. x <= Remaining(o)
      BY <1>2, <3>5, <3>7
    <3>9. orders'[o].filled <= Shape(o)'.quantity
      <4> HIDE DEF x
      <4> QED BY <3>6, <3>7, <3>8
    <3>10. orders'[o].filled = Total(e, l + 1)
      <4> HIDE DEF x, d, e
      <4> QED BY <3>2, <3>3, <3>4, <3>5, <3>6
    <3>11. ASSUME orders'[o].status = "FILLED" PROVE Remaining(o)' = 0
      <4>1. CASE o = m
        <5>1. Remaining(m) = n /\ x = n
          BY <1>3, <3>11, <4>1
        <5>2. Remaining(o)' = n - n
          BY <3>6, <4>1, <5>1
        <5> QED BY <5>2
      <4>2. CASE o = t
        <5>1. orders[t].status = "OPEN"
          BY <1>a, <1>2 DEF CallOK
        <5> QED BY <1>2, <1>3, <3>11, <4>2, <5>1
      <4>3. CASE o # m /\ o # t
        <5>1. Remaining(o) = 0 /\ x = 0
          BY <1>3, <3>5, <3>11, <4>3
        <5>2. Remaining(o)' = 0 - 0
          BY <3>6, <5>1
        <5> QED BY <5>2
      <4> QED BY <4>1, <4>2, <4>3
    <3> QED BY <3>9, <3>10, <3>11
  <2> QED BY <1>3, <2>2, <2>3 DEF NeverOverfilled
<1>16. CleanOK'
  <2>1. CASE NoneCancelled /\ Clean
    <3>1. NoneCancelled'
      BY <1>3, <2>1 DEF NoneCancelled
    <3>2. ASSUME NEW j \in InHeap("BUY") \cup InHeap("SELL")
          PROVE  /\ levelAt[levels'[j].price] = j
                 /\ levels'[j].queue # <<>> \/ j = k
      <4>1. j \in DOMAIN levels
        BY <1>a, BookFacts DEF Sides
      <4>2. /\ levelAt[levels[j].price] = j
            /\ levels[j].queue # <<>> \/ j = k
        BY <1>2, <2>1 DEF Clean
      <4> QED BY <1>4, <4>1, <4>2
    <3>3. Clean'
      BY <1>2, <1>5, <3>2 DEF Clean
    <3> QED BY <3>1, <3>3 DEF CleanOK
  <2>2. ASSUME NEW o \in Ids, orders[o].status = "CANCELLED",
               \A j \in DOMAIN levels : o \notin Waiting(j)
        PROVE  CleanOK'
    <3>1. o # m
      BY <1>2, <2>2
    <3>2. orders'[o].status = "CANCELLED"
      BY <1>3, <2>2, <3>1
    <3>3. \A j \in DOMAIN levels' : o \notin Waiting(j)'
      BY <1>4, <1>7, <2>2
    <3> QED BY <1>3, <3>2, <3>3 DEF CleanOK
  <2> QED BY <1>a, <2>1, <2>2 DEF CleanOK
<1> QED BY <1>8, <1>9, <1>10, <1>11, <1>12, <1>13, <1>14, <1>15, <1>16 DEF BookInv

-----------------------------------------------------------------------------
(* The end of a level.                                                     *)

\* The emptied level leaves its heap, and nothing else does.
LEMMA PopEffect ==
    ASSUME BookInv, LeaveLevel, levels[level].queue = <<>>
    PROVE  /\ bids' \in Seq(DOMAIN levels) /\ asks' \in Seq(DOMAIN levels)
           /\ \A side \in Sides :
                 /\ IsInjective(Heap(side)') /\ Ordered(LevelRank(side), Heap(side)')
                 /\ InHeap(side)' = IF side = OppositeSide(taker) THEN InHeap(side) \ {level}
                                    ELSE InHeap(side)
<1>a. TypeOK /\ FillOK /\ HeapsOK
  BY DEF BookInv
<1>1. PICK s, h : s = OppositeSide(taker) /\ h = Heap(s)
  OBVIOUS
<1>2. /\ pc = "fill"
      /\ IF s = "BUY" THEN bids' = PopLevel(bids) /\ UNCHANGED asks
                      ELSE asks' = PopLevel(asks) /\ UNCHANGED bids
  BY <1>1 DEF LeaveLevel
<1>3. /\ s \in Sides /\ h \in Seq(DOMAIN levels) /\ LevelRank(s) \in [DOMAIN levels -> Int]
      /\ IsInjective(h) /\ Ordered(LevelRank(s), h)
  BY <1>a, <1>1, BookFacts, OppositeHeap DEF HeapsOK
<1>4. h # <<>> /\ level = h[1]
  BY <1>a, <1>1, <1>2, OppositeHeap DEF FillOK
<1> DEFINE g == HeapPop(LevelRank(s), h)
<1>5. g \in Seq(DOMAIN levels) /\ Range(g) = Range(h) \ {level} /\ IsInjective(g)
      /\ Ordered(LevelRank(s), g)
  BY <1>3, <1>4, HeapPopKeeps
<1>6. PopLevel(h) = g
  BY <1>1 DEF PopLevel, LevelRank
<1> HIDE DEF g
<1>7. Heap(s)' = g
  BY <1>1, <1>2, <1>3, <1>6 DEF Heap, Sides
<1>8. \A r \in Sides : r # s => Heap(r)' = Heap(r)
  BY <1>2, <1>3 DEF Heap, Sides
<1>9. bids' \in Seq(DOMAIN levels) /\ asks' \in Seq(DOMAIN levels)
  <2>1. bids \in Seq(DOMAIN levels) /\ asks \in Seq(DOMAIN levels)
    BY <1>a DEF TypeOK
  <2>2. CASE s = "BUY"
    BY <1>1, <1>2, <1>5, <1>6, <2>1, <2>2 DEF Heap
  <2>3. CASE s = "SELL"
    BY <1>1, <1>2, <1>5, <1>6, <2>1, <2>3 DEF Heap
  <2> QED BY <1>3, <2>2, <2>3 DEF Sides
<1>10. ASSUME NEW r \in Sides
       PROVE  /\ IsInjective(Heap(r)') /\ Ordered(LevelRank(r), Heap(r)')
              /\ Range(Heap(r)') = IF r = s THEN Range(Heap(r)) \ {level} ELSE Range(Heap(r))
  <2>1. CASE r = s
    BY <1>1, <1>5, <1>7, <2>1
  <2>2. CASE r # s
    BY <1>a, <1>8, <2>2 DEF HeapsOK
  <2> QED BY <2>1, <2>2
<1>11. \A r \in Sides : InHeap(r)' = Range(Heap(r)') /\ InHeap(r) = Range(Heap(r))
  BY DEF InHeap
<1> QED BY <1>1, <1>9, <1>10, <1>11

\* The end of a level keeps the book sound.
LEMMA LeaveLevelKeeps == BookInv /\ LeaveLevel => BookInv'
<1> SUFFICES ASSUME BookInv, LeaveLevel PROVE BookInv'
  OBVIOUS
<1>a. /\ TypeOK /\ CallOK /\ FillOK /\ HeapsOK /\ MapOK
      /\ QueuesOK /\ RestingOK /\ NeverOverfilled /\ CleanOK
  BY DEF BookInv
<1>1. /\ pc = "fill" /\ pc' = "match" /\ level' = 0
      /\ UNCHANGED <<orders, resting, levels, trades, taker>>
      /\ levels[level].queue # <<>> => UNCHANGED <<levelAt, bids, asks>>
      /\ levels[level].queue = <<>> =>
            levelAt' = [levelAt EXCEPT ![levels[level].price] = 0]
  BY DEF LeaveLevel
<1>2. FillOK' /\ FinishOK'
  BY <1>1 DEF FillOK, FinishOK
<1>3. CASE levels[level].queue # <<>>
  <2>1. 0 \in 0..Len(levels)
    <3>1. Len(levels) \in Nat
      BY <1>a, BookFacts
    <3> QED BY <3>1
  <2>2. UNCHANGED <<orders, book, trades, taker>> /\ pc # "idle"
    BY <1>1, <1>3 DEF book
  <2> QED BY <1>1, <1>2, <1>3, <2>1, <2>2, MovesKeep
<1>4. CASE levels[level].queue = <<>>
  <2>1. PICK k, s : k = level /\ s = OppositeSide(taker)
    OBVIOUS
  <2>2. /\ bids' \in Seq(DOMAIN levels) /\ asks' \in Seq(DOMAIN levels)
        /\ \A r \in Sides :
              /\ IsInjective(Heap(r)') /\ Ordered(LevelRank(r), Heap(r)')
              /\ InHeap(r)' = IF r = s THEN InHeap(r) \ {k} ELSE InHeap(r)
    BY <1>4, <2>1, PopEffect
  <2>3. /\ k \in DOMAIN levels /\ k \in InHeap(s) /\ s \in Sides /\ Waiting(k) = {}
    <3>1. k \in DOMAIN levels /\ k \in InHeap(s) /\ s \in Sides
      BY <1>a, <1>1, <2>1, TakerFacts DEF FillOK
    <3>2. Waiting(k) = {}
      BY <1>4, <2>1 DEF Waiting, Range
    <3> QED BY <3>1, <3>2
  <2>4. \A r \in Sides : /\ InHeap(r)' \subseteq InHeap(r)
                         /\ InHeap(r) \subseteq InHeap(r)' \cup {k}
    BY <2>2
  <2>5. /\ k \notin InHeap("BUY")' /\ k \notin InHeap("SELL")'
        /\ "BUY" \in Sides /\ "SELL" \in Sides
    BY <1>a, <2>2, <2>3 DEF HeapsOK, Sides
  <2>6. /\ \A j : Waiting(j)' = Waiting(j)
        /\ \A r : LevelRank(r)' = LevelRank(r)
    BY <1>1, LevelsStay
  <2>7. /\ Ids' = Ids
        /\ \A o : /\ Shape(o)' = Shape(o) /\ TradedIn(o)' = TradedIn(o)
                  /\ Remaining(o)' = Remaining(o) /\ IsMarket(o)' = IsMarket(o)
    BY <1>1 DEF Ids, Shape, Remaining, IsMarket, TradedIn
  <2>8. /\ levelAt' = [levelAt EXCEPT ![levels[k].price] = 0] /\ levels[k].price \in Prices
        /\ levelAt \in [Prices -> 0..Len(levels)] /\ Len(levels) \in Nat
    BY <1>a, <1>1, <1>4, <2>1, <2>3, BookFacts DEF TypeOK
  <2>9. /\ levelAt' \in [Prices -> 0..Len(levels)] /\ levelAt'[levels[k].price] = 0
        /\ \A p \in Prices : p # levels[k].price => levelAt'[p] = levelAt[p]
    BY <2>8
  <2>10. TypeOK'
    <3>1. 0 \in 0..Len(levels)
      BY <2>8
    <3> QED BY <1>a, <1>1, <2>2, <2>7, <2>9, <3>1 DEF TypeOK
  <2>11. CallOK'
    BY <1>a, <1>1 DEF CallOK
  <2>12. HeapsOK'
    <3>1. InHeap("BUY")' \cap InHeap("SELL")' = {}
      BY <1>a, <2>4, <2>5 DEF HeapsOK
    <3> QED BY <2>2, <2>6, <3>1 DEF HeapsOK
  <2>13. MapOK'
    <3>1. ASSUME NEW p \in Prices, levelAt'[p] # 0
          PROVE  /\ levels[levelAt'[p]].price = p
                 /\ levelAt'[p] \in InHeap("BUY")' \cup InHeap("SELL")'
      <4>1. p # levels[k].price /\ levelAt'[p] = levelAt[p]
        BY <2>9, <3>1
      <4>2. /\ levels[levelAt[p]].price = p
            /\ levelAt[p] \in InHeap("BUY") \cup InHeap("SELL")
        BY <1>a, <3>1, <4>1 DEF MapOK
      <4>3. levelAt[p] # k
        BY <4>1, <4>2
      <4> QED BY <2>4, <2>5, <4>1, <4>2, <4>3
    <3> QED BY <1>1, <3>1 DEF MapOK
  <2>14. QueuesOK'
    BY <1>a, <1>1, <2>4, <2>6, <2>7 DEF QueuesOK
  <2>15. RestingOK'
    <3>0. \A o \in resting : /\ o # taker /\ orders[o].status \in {"OPEN", "PARTIALLY_FILLED"}
                              /\ \E j \in InHeap(Shape(o).side) : o \in Waiting(j)
      BY <1>a DEF RestingOK
    <3>1. ASSUME NEW o \in resting, NEW r, r = Shape(o).side
          PROVE  \E j \in InHeap(r)' : o \in Waiting(j)
      <4>1. PICK j \in InHeap(r) : o \in Waiting(j)
        BY <3>0, <3>1
      <4>2. r \in Sides /\ j # k
        BY <1>a, <2>3, <3>1, <4>1, OrderFacts DEF TypeOK
      <4>3. j \in InHeap(r)'
        BY <2>4, <4>1, <4>2
      <4> QED BY <4>1, <4>3
    <3>2. ASSUME NEW o \in resting PROVE (\E j \in InHeap(Shape(o).side) : o \in Waiting(j))'
      <4>1. \E j \in InHeap(Shape(o).side)' : o \in Waiting(j)'
        BY <2>6, <2>7, <3>1
      <4> QED BY <4>1
    <3> QED BY <1>1, <3>0, <3>2 DEF RestingOK
  <2>16. NeverOverfilled'
    BY <1>a, <1>1, <2>7 DEF NeverOverfilled
  <2>17. CleanOK'
    <3>1. CASE NoneCancelled /\ Clean
      <4>1. NoneCancelled'
        BY <1>1, <2>7, <3>1 DEF NoneCancelled
      <4>2. ASSUME NEW j \in InHeap("BUY")' \cup InHeap("SELL")'
            PROVE  levelAt'[levels[j].price] = j /\ levels[j].queue # <<>>
        <5>1. j # k /\ j \in InHeap("BUY") \cup InHeap("SELL")
          BY <2>4, <2>5
        <5>2. levelAt[levels[j].price] = j /\ levels[j].queue # <<>>
          BY <2>1, <3>1, <5>1 DEF Clean
        <5>3. levelAt[levels[k].price] = k
          BY <2>3, <3>1 DEF Clean, Sides
        <5>4. levels[j].price \in Prices
          BY <1>a, <2>5, <5>1, BookFacts
        <5> QED BY <2>9, <5>1, <5>2, <5>3, <5>4
      <4>3. Clean'
        BY <1>1, <4>2 DEF Clean
      <4> QED BY <4>1, <4>3 DEF CleanOK
    <3>2. ASSUME NEW o \in Ids, orders[o].status = "CANCELLED",
                 \A j \in DOMAIN levels : o \notin Waiting(j)
          PROVE  CleanOK'
      BY <1>1, <2>6, <2>7, <3>2 DEF CleanOK
    <3> QED BY <1>a, <3>1, <3>2 DEF CleanOK
  <2> QED BY <1>2, <2>10, <2>11, <2>12, <2>13, <2>14, <2>15, <2>16, <2>17 DEF BookInv
<1> QED BY <1>3, <1>4

-----------------------------------------------------------------------------
(* A cancellation.                                                         *)

\* An order is given another status.
LEMMA StatusEffect ==
    ASSUME TypeOK, NEW o \in Ids, NEW f \in Status,
           orders' = [orders EXCEPT ![o].status = f]
    PROVE  /\ orders' \in Seq(OrderRow) /\ Len(orders') = Len(orders) /\ Ids' = Ids
           /\ \A m \in Ids :
                 /\ Shape(m)' = Shape(m) /\ IsMarket(m)' = IsMarket(m)
                 /\ Remaining(m)' = Remaining(m) /\ orders'[m].filled = orders[m].filled
                 /\ orders'[m].status = IF m = o THEN f ELSE orders[m].status
<1> DEFINE row == [orders[o] EXCEPT !.status = f]
<1>1. /\ orders \in Seq(OrderRow) /\ Len(orders) \in Nat /\ Ids = 1..Len(orders)
      /\ orders[o] \in OrderRow /\ DOMAIN orders = Ids
  BY OrderFacts DEF Ids
<1>2. /\ row \in OrderRow /\ row.shape = orders[o].shape /\ row.filled = orders[o].filled
      /\ row.status = f
  BY <1>1 DEF OrderRow
<1>3. orders' = [orders EXCEPT ![o] = row]
  OBVIOUS
<1> HIDE DEF row
<1>4. orders' \in Seq(OrderRow) /\ Len(orders') = Len(orders) /\ DOMAIN orders' = DOMAIN orders
  BY <1>1, <1>2, <1>3
<1>5. \A m \in Ids : orders'[m] = IF m = o THEN row ELSE orders[m]
  BY <1>1, <1>3
<1>6. ASSUME NEW m \in Ids
      PROVE  /\ orders'[m].shape = orders[m].shape /\ orders'[m].filled = orders[m].filled
             /\ orders'[m].status = IF m = o THEN f ELSE orders[m].status
  BY <1>2, <1>5
<1>7. ASSUME NEW m \in Ids
      PROVE  /\ Shape(m)' = Shape(m) /\ IsMarket(m)' = IsMarket(m)
             /\ Remaining(m)' = Remaining(m)
  BY <1>6 DEF Shape, IsMarket, Remaining
<1> QED BY <1>4, <1>6, <1>7 DEF Ids

\* What the removal of order o from level k, the map's level of its price p,
\* changes in levels and map.
LevelLeft(o, p, k) ==
    /\ p = Shape(o).price /\ p \in Prices /\ k = levelAt[p]
    /\ levels' \in Seq(LevelRow(Ids)) /\ DOMAIN levels' = DOMAIN levels
    /\ Len(levels') = Len(levels)
    /\ \A j \in DOMAIN levels :
          /\ levels'[j].price = levels[j].price /\ Ascending(levels'[j].queue)
          /\ Waiting(j)' = IF j = k THEN Waiting(j) \ {o} ELSE Waiting(j)
    /\ levelAt' \in [Prices -> 0..Len(levels)] /\ levelAt'[p] \in {0, k}
    /\ \A r \in Prices : r # p => levelAt'[r] = levelAt[r]

\* What RemoveOrder does, in these terms.
LEMMA RemoveEffect ==
    ASSUME BookInv, NEW o \in resting, RemoveOrder(o)
    PROVE  \E p, k : LevelLeft(o, p, k)
<1>a. TypeOK /\ QueuesOK /\ RestingOK
  BY DEF BookInv
<1>1. PICK p, k : p = Shape(o).price /\ k = levelAt[p]
  OBVIOUS
<1>2. o \in Ids /\ p \in Prices
  <2>1. o \in Ids /\ Shape(o).side \in Sides
    BY <1>a, OrderFacts DEF TypeOK
  <2>2. PICK j \in DOMAIN levels : o \in Waiting(j)
    BY <1>a, <2>1, BookFacts DEF RestingOK
  <2>3. ~ IsMarket(o)
    BY <1>a, <2>2 DEF QueuesOK
  <2> QED BY <1>a, <1>1, <2>1, <2>3, OrderFacts
<1>3. /\ levels \in Seq(LevelRow(Ids)) /\ Len(levels) \in Nat /\ DOMAIN levels = 1..Len(levels)
      /\ levelAt \in [Prices -> 0..Len(levels)] /\ k \in 0..Len(levels)
  BY <1>a, <1>1, <1>2, BookFacts DEF TypeOK
<1>4. \A j \in DOMAIN levels : Ascending(levels[j].queue)
  BY <1>a DEF QueuesOK
<1>5. CASE k = 0
  <2>1. UNCHANGED <<levels, levelAt>>
    BY <1>1, <1>5 DEF RemoveOrder
  <2>2. \A j \in DOMAIN levels : j # k
    BY <1>3, <1>5
  <2>3. \A j \in DOMAIN levels : Waiting(j)' = Waiting(j)
    BY <2>1, LevelsStay
  <2>4. LevelLeft(o, p, k)
    BY <1>1, <1>2, <1>3, <1>4, <2>1, <2>2, <2>3 DEF LevelLeft
  <2> QED BY <2>4
<1>6. CASE k # 0
  <2> DEFINE q == Dequeue(levels[k].queue, o)
             part == IF q = levels[k].queue THEN 0 ELSE Remaining(o)
             n == levels[k].quantity - part
  <2>1. k \in DOMAIN levels
    BY <1>3, <1>6
  <2>2. /\ levels[k] \in LevelRow(Ids) /\ levels[k].queue \in Seq(Ids)
        /\ levels[k].quantity \in Int /\ Ids \subseteq Nat
    BY <1>a, <2>1, BookFacts, OrderFacts
  <2>3. q \in Seq(Ids) /\ Ascending(q) /\ Range(q) = Waiting(k) \ {o}
    BY <1>4, <2>1, <2>2, DequeueKeeps DEF Waiting
  <2>4. n \in Int
    <3>1. part \in Int
      BY <1>a, <1>2, OrderFacts
    <3> HIDE DEF part
    <3> QED BY <2>2, <3>1
  <2>5. /\ levels' = [levels EXCEPT ![k].queue = q, ![k].quantity = @ - part]
        /\ levelAt' = [levelAt EXCEPT ![p] = IF q = <<>> THEN 0 ELSE k]
    BY <1>1, <1>6 DEF RemoveOrder
  <2>6. levels' = AfterBoth(levels, k, q, n)
    BY <2>5 DEF AfterBoth
  <2> HIDE DEF q, part, n
  <2>7. /\ levels' \in Seq(LevelRow(Ids)) /\ DOMAIN levels' = DOMAIN levels
        /\ Len(levels') = Len(levels)
        /\ \A j \in DOMAIN levels :
              /\ levels'[j].price = levels[j].price
              /\ levels'[j].queue = IF j = k THEN q ELSE levels[j].queue
    <3>1. levels \in Seq(LevelRow(Ids)) /\ k \in DOMAIN levels /\ q \in Seq(Ids) /\ n \in Int
      BY <1>3, <2>1, <2>3, <2>4
    <3> QED BY <2>6, <3>1, RowsAfterBoth
  <2>8. ASSUME NEW j \in DOMAIN levels
        PROVE  /\ Ascending(levels'[j].queue)
               /\ Waiting(j)' = IF j = k THEN Waiting(j) \ {o} ELSE Waiting(j)
    <3>1. Waiting(j)' = Range(levels'[j].queue) /\ Waiting(j) = Range(levels[j].queue)
      BY DEF Waiting
    <3> QED BY <1>4, <2>3, <2>7, <3>1
  <2>9. /\ levelAt' \in [Prices -> 0..Len(levels)] /\ levelAt'[p] \in {0, k}
        /\ \A r \in Prices : r # p => levelAt'[r] = levelAt[r]
    <3>1. PICK e \in {0, k} : levelAt' = [levelAt EXCEPT ![p] = e]
      BY <2>5
    <3>2. e \in 0..Len(levels)
      BY <1>3
    <3> QED BY <1>2, <1>3, <3>1, <3>2
  <2>10. LevelLeft(o, p, k)
    BY <1>1, <1>2, <2>7, <2>8, <2>9 DEF LevelLeft
  <2> QED BY <2>10
<1> QED BY <1>5, <1>6

\* A cancellation keeps the book sound: it is the order's own place that it loses.
LEMMA CancelKeeps ==
    ASSUME BookInv, NEW o \in Ids, Cancel(o)
    PROVE  BookInv'
<1>a. /\ TypeOK /\ CallOK /\ HeapsOK /\ MapOK
      /\ QueuesOK /\ RestingOK /\ NeverOverfilled /\ CleanOK
  BY DEF BookInv
<1>1. /\ pc = "idle" /\ o \in resting /\ RemoveOrder(o) /\ resting' = resting \ {o}
      /\ orders' = [orders EXCEPT ![o].status = "CANCELLED"]
      /\ UNCHANGED <<bids, asks, trades, pc, taker, level>>
  BY DEF Cancel, RemoveOrder
<1>2. PICK p, k : LevelLeft(o, p, k)
  BY <1>1, RemoveEffect
<1>3. /\ p = Shape(o).price /\ p \in Prices /\ k = levelAt[p]
      /\ levels' \in Seq(LevelRow(Ids)) /\ DOMAIN levels' = DOMAIN levels
      /\ Len(levels') = Len(levels)
      /\ \A j \in DOMAIN levels :
            /\ levels'[j].price = levels[j].price /\ Ascending(levels'[j].queue)
            /\ Waiting(j)' = IF j = k THEN Waiting(j) \ {o} ELSE Waiting(j)
      /\ levelAt' \in [Prices -> 0..Len(levels)] /\ levelAt'[p] \in {0, k}
      /\ \A r \in Prices : r # p => levelAt'[r] = levelAt[r]
  BY <1>2 DEF LevelLeft
<1>4. /\ orders' \in Seq(OrderRow) /\ Len(orders') = Len(orders) /\ Ids' = Ids
      /\ \A m \in Ids :
            /\ Shape(m)' = Shape(m) /\ IsMarket(m)' = IsMarket(m)
            /\ Remaining(m)' = Remaining(m) /\ orders'[m].filled = orders[m].filled
            /\ orders'[m].status = IF m = o THEN "CANCELLED" ELSE orders[m].status
  BY <1>a, <1>1, StatusEffect DEF Status
<1>5. \A side : Heap(side)' = Heap(side) /\ InHeap(side)' = InHeap(side)
  BY <1>1, HeapsStay
<1>6. \A j \in DOMAIN levels : /\ Waiting(j) \subseteq Ids /\ Waiting(j)' \subseteq Waiting(j)
                               /\ levels[j].price \in Prices
  BY <1>a, <1>3, BookFacts
<1>7. TypeOK'
  <2>1. /\ resting' \subseteq Ids /\ bids \in Seq(DOMAIN levels) /\ asks \in Seq(DOMAIN levels)
        /\ trades \in Seq(TradeRow(Ids)) /\ taker \in Ids \cup {0} /\ level \in 0..Len(levels)
    BY <1>a, <1>1 DEF TypeOK, TradeRow
  <2> QED BY <1>1, <1>3, <1>4, <2>1 DEF TypeOK, LevelRow, TradeRow, OrderRow
<1>8. CallOK' /\ FillOK' /\ FinishOK'
  BY <1>a, <1>1 DEF CallOK, FillOK, FinishOK
<1>9. HeapsOK'
  <2>1. \A side : LevelRank(side)' = LevelRank(side)
    BY <1>3 DEF LevelRank
  <2> QED BY <1>a, <1>5, <2>1 DEF HeapsOK
<1>10. MapOK'
  <2>1. ASSUME NEW r \in Prices, levelAt'[r] # 0
        PROVE  /\ levels'[levelAt'[r]].price = r
               /\ levelAt'[r] \in InHeap("BUY") \cup InHeap("SELL")
    <3>1. levelAt'[r] = levelAt[r]
      BY <1>3, <2>1
    <3>2. /\ levels[levelAt[r]].price = r
          /\ levelAt[r] \in InHeap("BUY") \cup InHeap("SELL")
      BY <1>a, <2>1, <3>1 DEF MapOK
    <3>3. levelAt[r] \in DOMAIN levels
      BY <1>a, <3>2, BookFacts DEF Sides
    <3> QED BY <1>3, <3>1, <3>2, <3>3
  <2> QED BY <1>5, <2>1 DEF MapOK
<1>11. QueuesOK'
  <2>1. ASSUME NEW j \in DOMAIN levels, NEW m \in Waiting(j)'
        PROVE  /\ ~ IsMarket(m)' /\ Shape(m)'.price = levels'[j].price
               /\ Remaining(m)' > 0 /\ m # taker'
               /\ \A side \in Sides : j \in InHeap(side)' => Shape(m)'.side = side
    <3>1. m \in Waiting(j) /\ m \in Ids
      BY <1>6
    <3>2. /\ ~ IsMarket(m) /\ Shape(m).price = levels[j].price
          /\ Remaining(m) > 0 /\ m # taker
          /\ \A side \in Sides : j \in InHeap(side) => Shape(m).side = side
      BY <1>a, <3>1 DEF QueuesOK
    <3> QED BY <1>1, <1>3, <1>4, <1>5, <3>1, <3>2
  <2>2. ASSUME NEW i \in DOMAIN levels, NEW j \in DOMAIN levels, i # j
        PROVE  Waiting(i)' \cap Waiting(j)' = {}
    BY <1>a, <1>6, <2>2 DEF QueuesOK
  <2> QED BY <1>3, <2>1, <2>2 DEF QueuesOK
<1>12. RestingOK'
  <2>1. ASSUME NEW m \in resting'
        PROVE  /\ m \in Ids /\ m # taker' /\ orders'[m].status \in {"OPEN", "PARTIALLY_FILLED"}
               /\ \E j \in InHeap(Shape(m).side) : m \in Waiting(j)'
    <3>1. m \in resting /\ m # o /\ m \in Ids
      BY <1>a, <1>1 DEF TypeOK
    <3>2. PICK j \in InHeap(Shape(m).side) : m \in Waiting(j)
      BY <1>a, <3>1 DEF RestingOK
    <3>3. j \in DOMAIN levels
      BY <1>a, <3>1, <3>2, BookFacts, OrderFacts
    <3>4. m \in Waiting(j)'
      BY <1>3, <3>1, <3>2, <3>3
    <3>5. m # taker /\ orders[m].status \in {"OPEN", "PARTIALLY_FILLED"}
      BY <1>a, <3>1 DEF RestingOK
    <3> QED BY <1>1, <1>4, <3>1, <3>2, <3>4, <3>5
  <2>2. ASSUME NEW m \in resting' PROVE (\E j \in InHeap(Shape(m).side) : m \in Waiting(j))'
    BY <1>4, <1>5, <2>1
  <2> QED BY <2>1, <2>2 DEF RestingOK
<1>13. NeverOverfilled'
  <2>1. \A m : TradedIn(m)' = TradedIn(m)
    BY <1>1 DEF TradedIn
  <2>2. ASSUME NEW m \in Ids
        PROVE  /\ orders'[m].filled = Total(TradedIn(m), Len(trades))
               /\ orders'[m].filled <= Shape(m)'.quantity
               /\ orders'[m].status = "FILLED" => Remaining(m)' = 0
    BY <1>a, <1>4 DEF NeverOverfilled
  <2>3. Len(trades)' = Len(trades)
    BY <1>1
  <2> QED BY <1>4, <2>1, <2>2, <2>3 DEF NeverOverfilled
<1>14. CleanOK'
  <2>1. CASE NoneCancelled /\ Clean
    <3>1. PICK i \in InHeap(Shape(o).side) : o \in Waiting(i)
      BY <1>a, <1>1 DEF RestingOK
    <3>2. Shape(o).side \in Sides /\ i \in DOMAIN levels
      BY <1>a, <3>1, BookFacts, OrderFacts
    <3>3. levels[i].price = p
      BY <1>a, <1>3, <3>1, <3>2 DEF QueuesOK
    <3>4. i = k
      BY <1>3, <2>1, <3>1, <3>2, <3>3 DEF Clean, Sides
    <3>5. \A j \in DOMAIN levels : o \notin Waiting(j)'
      BY <1>a, <1>3, <3>1, <3>2, <3>4 DEF QueuesOK
    <3>6. orders'[o].status = "CANCELLED"
      BY <1>4
    <3> QED BY <1>3, <1>4, <3>5, <3>6 DEF CleanOK
  <2>2. ASSUME NEW m \in Ids, orders[m].status = "CANCELLED",
               \A j \in DOMAIN levels : m \notin Waiting(j)
        PROVE  CleanOK'
    <3>1. orders'[m].status = "CANCELLED"
      BY <1>4, <2>2
    <3>2. \A j \in DOMAIN levels' : m \notin Waiting(j)'
      BY <1>3, <1>6, <2>2
    <3> QED BY <1>4, <3>1, <3>2 DEF CleanOK
  <2> QED BY <1>a, <2>1, <2>2 DEF CleanOK
<1> QED BY <1>7, <1>8, <1>9, <1>10, <1>11, <1>12, <1>13, <1>14 DEF BookInv

-----------------------------------------------------------------------------
(* A call returns.                                                         *)

\* The level a call works on first is the best of its side.
LEMMA BestIsFirst ==
    ASSUME BookInv, pc # "idle", NEW k \in InHeap(OppositeSide(taker))
    PROVE  /\ Opposite(taker) # <<>> /\ Opposite(taker)[1] \in DOMAIN levels
           /\ k \in DOMAIN levels
           /\ IF Shape(taker).side = "BUY"
              THEN levels[Opposite(taker)[1]].price <= levels[k].price
              ELSE levels[Opposite(taker)[1]].price >= levels[k].price
<1>1. PICK s, h : s = OppositeSide(taker) /\ h = Heap(s)
  OBVIOUS
<1>2. TypeOK /\ HeapsOK
  BY DEF BookInv
<1>3. h = Opposite(taker) /\ s \in Sides
  BY <1>1, OppositeHeap
<1>4. /\ h \in Seq(DOMAIN levels) /\ LevelRank(s) \in [DOMAIN levels -> Int]
      /\ Ordered(LevelRank(s), h)
  BY <1>1, <1>2, <1>3, BookFacts DEF HeapsOK
<1>5. PICK i \in 1..Len(h) : k = h[i]
  BY <1>1, <1>4 DEF InHeap, Range
<1>6. h # <<>> /\ h[1] \in DOMAIN levels /\ k \in DOMAIN levels
  BY <1>4, <1>5
<1>7. LevelRank(s)[h[1]] <= LevelRank(s)[k]
  BY <1>4, <1>5, FirstIsLeast
<1>8. /\ LevelRank(s)[h[1]] = Rank(s, levels[h[1]].price)
      /\ LevelRank(s)[k] = Rank(s, levels[k].price)
  BY <1>6 DEF LevelRank
<1>9. levels[h[1]].price \in Nat /\ levels[k].price \in Nat
  BY <1>2, <1>6, BookFacts
<1>10. CASE Shape(taker).side = "BUY"
  <2>1. s = "SELL"
    BY <1>1, <1>10 DEF OppositeSide
  <2> QED BY <1>3, <1>6, <1>7, <1>8, <1>10, <2>1 DEF Rank
<1>11. CASE Shape(taker).side # "BUY"
  <2>1. s = "BUY"
    BY <1>1, <1>11 DEF OppositeSide
  <2>2. -levels[h[1]].price <= -levels[k].price
    BY <1>7, <1>8, <2>1 DEF Rank
  <2>3. levels[h[1]].price >= levels[k].price
    BY <1>9, <2>2
  <2> QED BY <1>3, <1>6, <1>11, <2>3
<1> QED BY <1>10, <1>11

\* The level that the map has for the price of an order that is left over is in
\* the heap of the order's side: otherwise the order would have been matched.
LEMMA OwnLevel ==
    ASSUME BookInv, pc = "finish", Rests(taker), NEW p, p = Shape(taker).price,
           p \in Prices, levelAt[p] # 0
    PROVE  levelAt[p] \in InHeap(Shape(taker).side)
<1>1. TypeOK /\ MapOK /\ FinishOK
  BY DEF BookInv
<1>2. PICK k : k = levelAt[p]
  OBVIOUS
<1>3. levels[k].price = p /\ k \in InHeap("BUY") \cup InHeap("SELL")
  BY <1>1, <1>2 DEF MapOK
<1>4. taker \in Ids /\ Shape(taker).side \in Sides
  BY <1>1, TakerFacts, OrderFacts
<1>5. CASE k \in InHeap(OppositeSide(taker))
  <2>1. /\ Opposite(taker) # <<>>
        /\ IF Shape(taker).side = "BUY" THEN levels[Opposite(taker)[1]].price <= p
           ELSE levels[Opposite(taker)[1]].price >= p
    BY <1>3, <1>5, BestIsFirst
  <2>2. p \in Nat /\ levels[Opposite(taker)[1]].price \in Nat
    BY <1>1, <1>4, <1>5, BestIsFirst, BookFacts, OrderFacts
  <2>3. Acceptable(taker, levels[Opposite(taker)[1]].price)
    BY <2>1, <2>2 DEF Acceptable
  <2>4. Remaining(taker) > 0 /\ ~ IsMarket(taker)
    BY DEF Rests
  <2>5. HasMatch
    BY <2>1, <2>3, <2>4 DEF HasMatch
  <2> QED BY <1>1, <2>5 DEF FinishOK
<1>6. CASE k \notin InHeap(OppositeSide(taker))
  BY <1>2, <1>3, <1>4, <1>6 DEF OppositeSide, Sides
<1> QED BY <1>5, <1>6

\* What the book gains when order t comes to rest in level j.
Booked(t, p, s, j) ==
    /\ p = Shape(t).price /\ p \in Prices /\ s = Shape(t).side /\ s \in Sides
    /\ levels' \in Seq(LevelRow(Ids)) /\ DOMAIN levels' = DOMAIN levels \cup {j}
    /\ Len(levels) <= Len(levels')
    /\ levels'[j].price = p /\ levels'[j].queue # <<>>
    /\ Waiting(j)' = (IF j \in DOMAIN levels THEN Waiting(j) ELSE {}) \cup {t}
    /\ \A i \in DOMAIN levels : levels'[i].price = levels[i].price
    /\ \A i \in DOMAIN levels : i # j => levels'[i].queue = levels[i].queue
    /\ \A i \in DOMAIN levels' : Ascending(levels'[i].queue)
    /\ \A r \in Sides :
          /\ Heap(r)' \in Seq(DOMAIN levels')
          /\ IsInjective(Heap(r)') /\ Ordered(LevelRank(r)', Heap(r)')
          /\ InHeap(r)' = IF r = s THEN InHeap(r) \cup {j} ELSE InHeap(r)
          /\ r # s => j \notin InHeap(r)
    /\ j \in DOMAIN levels => j \in InHeap(s)
    /\ levelAt' \in [Prices -> 0..Len(levels')] /\ levelAt'[p] = j /\ levelAt[p] \in {0, j}
    /\ \A q \in Prices : q # p => levelAt'[q] = levelAt[q]

\* The order joins the level that the map has for its price.
LEMMA JoinEffect ==
    ASSUME BookInv, pc = "finish", NEW t, t = taker, Rests(t), AddOrder(t),
           levelAt[Shape(t).price] # 0
    PROVE  \E p, s, j : Booked(t, p, s, j)
<1>a. TypeOK /\ CallOK /\ HeapsOK /\ MapOK /\ QueuesOK
  BY DEF BookInv
<1>1. PICK p, s, k : p = Shape(t).price /\ s = Shape(t).side /\ k = levelAt[p]
  OBVIOUS
<1>2. /\ t \in Ids /\ t = Len(orders) /\ s \in Sides /\ p \in Prices /\ Remaining(t) \in Int
      /\ Ids = 1..Len(orders) /\ Len(orders) \in Nat /\ Ids \subseteq Nat
  <2>1. t \in Ids /\ t = Len(orders) /\ ~ IsMarket(t)
    BY TakerFacts DEF Rests
  <2> QED BY <1>a, <1>1, <2>1, OrderFacts
<1>3. k # 0 /\ k \in InHeap(s) /\ levels[k].price = p
  <2>1. k \in InHeap(s)
    BY <1>1, <1>2, OwnLevel
  <2> QED BY <1>a, <1>1, <1>2, <2>1 DEF MapOK
<1>4. /\ k \in DOMAIN levels /\ levels \in Seq(LevelRow(Ids)) /\ Len(levels) \in Nat
      /\ levels[k].queue \in Seq(Ids) /\ levels[k].quantity \in Int /\ Waiting(k) \subseteq Ids
  BY <1>a, <1>2, <1>3, BookFacts
<1> DEFINE q == Enqueue(levels[k].queue, t)
           n == levels[k].quantity + Remaining(t)
<1>5. levels' = AfterBoth(levels, k, q, n) /\ UNCHANGED <<levelAt, bids, asks>>
  BY <1>1, <1>3 DEF AddOrder, AfterBoth
<1>6. /\ q \in Seq(Ids) /\ q # <<>> /\ Range(q) = Waiting(k) \cup {t} /\ Ascending(q)
  <2>1. \A e \in Range(levels[k].queue) : e < t
    <3>1. \A e \in Waiting(k) : e \in Ids /\ e # t
      BY <1>a, <1>4 DEF QueuesOK
    <3> QED BY <1>2, <3>1 DEF Waiting
  <2>2. Ascending(levels[k].queue)
    BY <1>a, <1>4 DEF QueuesOK
  <2>3. PICK w : w = levels[k].queue
    OBVIOUS
  <2>4. /\ Enqueue(w, t) \in Seq(Ids)
        /\ Range(Enqueue(w, t)) = Range(w) \cup {t} /\ Ascending(Enqueue(w, t))
    <3>1. w \in Seq(Ids) /\ Ascending(w) /\ t \in Ids /\ Ids \subseteq Nat
      BY <1>2, <1>4, <2>2, <2>3
    <3>2. Older(w, t)
      BY <2>1, <2>3 DEF Older
    <3> QED BY <3>1, <3>2, EnqueueKeeps
  <2>5. Enqueue(w, t) # <<>>
    <3>1. t \in Range(Enqueue(w, t))
      BY <2>4
    <3> QED BY <3>1 DEF Range
  <2> QED BY <2>3, <2>4, <2>5 DEF Waiting
<1>7. n \in Int
  BY <1>2, <1>4
<1> HIDE DEF q, n
<1>8. /\ levels' \in Seq(LevelRow(Ids)) /\ Len(levels') = Len(levels)
      /\ DOMAIN levels' = DOMAIN levels
      /\ \A j \in DOMAIN levels :
            /\ levels'[j].price = levels[j].price
            /\ levels'[j].queue = IF j = k THEN q ELSE levels[j].queue
  BY <1>4, <1>5, <1>6, <1>7, RowsAfterBoth
<1>9. Waiting(k)' = Waiting(k) \cup {t}
  <2>1. Waiting(k)' = Range(levels'[k].queue)
    BY DEF Waiting
  <2> QED BY <1>4, <1>6, <1>8, <2>1
<1>10. \A i \in DOMAIN levels' : Ascending(levels'[i].queue)
  BY <1>a, <1>6, <1>8 DEF QueuesOK
<1>11. ASSUME NEW r \in Sides
       PROVE  /\ Heap(r)' \in Seq(DOMAIN levels')
              /\ IsInjective(Heap(r)') /\ Ordered(LevelRank(r)', Heap(r)')
              /\ InHeap(r)' = IF r = s THEN InHeap(r) \cup {k} ELSE InHeap(r)
              /\ r # s => k \notin InHeap(r)
  <2>1. Heap(r)' = Heap(r) /\ InHeap(r)' = InHeap(r)
    BY <1>5, HeapsStay
  <2>2. LevelRank(r)' = LevelRank(r)
    BY <1>8 DEF LevelRank
  <2>3. Heap(r) \in Seq(DOMAIN levels)
    BY <1>a, BookFacts
  <2>4. r # s => k \notin InHeap(r)
    BY <1>a, <1>2, <1>3 DEF HeapsOK, Sides
  <2> QED BY <1>a, <1>3, <1>8, <2>1, <2>2, <2>3, <2>4 DEF HeapsOK
<1>12. /\ levelAt' \in [Prices -> 0..Len(levels')] /\ levelAt'[p] = k /\ levelAt[p] \in {0, k}
       /\ \A r \in Prices : r # p => levelAt'[r] = levelAt[r]
  <2>1. levelAt \in [Prices -> 0..Len(levels)]
    BY <1>a DEF TypeOK
  <2> QED BY <1>1, <1>5, <1>8, <2>1
<1>13. Booked(t, p, s, k)
  <2>1. Len(levels) <= Len(levels') /\ DOMAIN levels' = DOMAIN levels \cup {k}
    BY <1>4, <1>8
  <2>2. levels'[k].price = p /\ levels'[k].queue # <<>>
    BY <1>3, <1>4, <1>6, <1>8
  <2> QED BY <1>1, <1>2, <1>3, <1>4, <1>8, <1>9, <1>10, <1>11, <1>12, <2>1, <2>2 DEF Booked
<1> QED BY <1>13

\* The order gets a level of its own.
LEMMA NewLevelEffect ==
    ASSUME BookInv, pc = "finish", NEW t, t = taker, Rests(t), AddOrder(t),
           levelAt[Shape(t).price] = 0
    PROVE  \E p, s, j : Booked(t, p, s, j)
<1>a. TypeOK /\ HeapsOK /\ QueuesOK
  BY DEF BookInv
<1>1. PICK p, s, h : p = Shape(t).price /\ s = Shape(t).side /\ h = Heap(s)
  OBVIOUS
<1>2. t \in Ids /\ s \in Sides /\ p \in Prices /\ Remaining(t) \in Int
  <2>1. t \in Ids /\ ~ IsMarket(t)
    BY TakerFacts DEF Rests
  <2> QED BY <1>a, <1>1, <2>1, OrderFacts
<1>3. /\ levels \in Seq(LevelRow(Ids)) /\ Len(levels) \in Nat
      /\ DOMAIN levels = 1..Len(levels)
  BY <1>a, BookFacts
<1>4. PICK j \in Nat : j = Len(levels) + 1
  BY <1>3
<1> DEFINE row == [price |-> p, queue |-> <<t>>, quantity |-> Remaining(t)]
<1>5. row \in LevelRow(Ids) /\ row.price = p /\ row.queue = <<t>>
  BY <1>2 DEF LevelRow
<1>6. /\ levels' = Append(levels, row)
      /\ levelAt' = [levelAt EXCEPT ![p] = Len(levels')]
      /\ IF s = "BUY" THEN bids' = HeapPush(LevelRank(s)', bids, Len(levels')) /\ UNCHANGED asks
                      ELSE asks' = HeapPush(LevelRank(s)', asks, Len(levels')) /\ UNCHANGED bids
  BY <1>1 DEF AddOrder, LevelRank
<1> HIDE DEF row
<1>7. /\ levels' \in Seq(LevelRow(Ids)) /\ Len(levels') = j /\ DOMAIN levels' = 1..j
      /\ levels'[j] = row /\ \A i \in DOMAIN levels : levels'[i] = levels[i]
  BY <1>3, <1>4, <1>5, <1>6
<1>8. /\ DOMAIN levels' = DOMAIN levels \cup {j} /\ j \notin DOMAIN levels
      /\ j \in DOMAIN levels' /\ Len(levels) <= Len(levels')
  BY <1>3, <1>4, <1>7
<1>9. Waiting(j)' = {t}
  <2>1. Waiting(j)' = Range(<<t>>)
    BY <1>5, <1>7 DEF Waiting
  <2>2. Range(<<t>>) = {t}
    BY DEF Range
  <2> QED BY <2>1, <2>2
<1>10. \A i \in DOMAIN levels' : Ascending(levels'[i].queue)
  <2>1. Ascending(<<t>>)
    BY DEF Ascending
  <2> QED BY <1>a, <1>5, <1>7, <1>8, <2>1 DEF QueuesOK
<1>11. ASSUME NEW r \in Sides
       PROVE  /\ Heap(r) \in Seq(DOMAIN levels') /\ LevelRank(r)' \in [DOMAIN levels' -> Int]
              /\ Ordered(LevelRank(r)', Heap(r)) /\ IsInjective(Heap(r))
              /\ j \notin Range(Heap(r)) /\ InHeap(r) = Range(Heap(r))
  <2>1. /\ Heap(r) \in Seq(DOMAIN levels) /\ InHeap(r) \subseteq DOMAIN levels
        /\ Ordered(LevelRank(r), Heap(r)) /\ IsInjective(Heap(r))
    BY <1>a, BookFacts DEF HeapsOK
  <2>2. \A i \in DOMAIN levels : LevelRank(r)'[i] = LevelRank(r)[i]
    BY <1>7, <1>8 DEF LevelRank
  <2>3. Ordered(LevelRank(r)', Heap(r))
    <3>0. PICK g \in Seq(DOMAIN levels) : g = Heap(r)
      BY <2>1
    <3>1. PICK x, y : x = LevelRank(r) /\ y = LevelRank(r)'
      OBVIOUS
    <3>2. \A i \in 2..Len(g) : g[i] \in DOMAIN levels /\ g[i \div 2] \in DOMAIN levels
      <4>1. ASSUME NEW i \in 2..Len(g) PROVE i \div 2 \in 1..Len(g) /\ i \in 1..Len(g)
        <5>1. i \div 2 \in 1..(i - 1)
          BY Half
        <5> QED BY <5>1
      <4> QED BY <4>1
    <3>3. Ordered(x, g) => Ordered(y, g)
      BY <2>2, <3>1, <3>2 DEF Ordered
    <3> QED BY <2>1, <3>0, <3>1, <3>3
  <2>4. LevelRank(r)' \in [DOMAIN levels' -> Int]
    <3>1. ASSUME NEW i \in DOMAIN levels' PROVE Rank(r, levels'[i].price) \in Int
      <4>1. levels'[i].price \in Prices
        <5>1. levels'[i] \in LevelRow(Ids)
          BY <1>7
        <5> QED BY <5>1 DEF LevelRow
      <4>2. levels'[i].price \in Nat
        BY <4>1, EngineAssumption
      <4> QED BY <4>2 DEF Rank
    <3> QED BY <3>1 DEF LevelRank
  <2>5. Heap(r) \in Seq(DOMAIN levels')
    BY <1>8, <2>1
  <2>6. j \notin Range(Heap(r)) /\ InHeap(r) = Range(Heap(r))
    BY <1>8, <2>1 DEF InHeap
  <2> QED BY <2>1, <2>3, <2>4, <2>5, <2>6
<1> DEFINE g == HeapPush(LevelRank(s)', h, j)
<1>12. /\ g \in Seq(DOMAIN levels') /\ Range(g) = Range(h) \cup {j}
       /\ IsInjective(g) /\ Ordered(LevelRank(s)', g)
  <2>1. PICK x : x = LevelRank(s)'
    OBVIOUS
  <2>2. PICK S : S = DOMAIN levels'
    OBVIOUS
  <2>3. /\ x \in [S -> Int] /\ h \in Seq(S) /\ j \in S /\ Ordered(x, h) /\ IsInjective(h)
        /\ j \notin Range(h)
    BY <1>1, <1>2, <1>8, <1>11, <2>1, <2>2
  <2>4. /\ HeapPush(x, h, j) \in Seq(S) /\ Range(HeapPush(x, h, j)) = Range(h) \cup {j}
        /\ IsInjective(HeapPush(x, h, j)) /\ Ordered(x, HeapPush(x, h, j))
    BY <2>3, HeapPushKeeps
  <2> QED BY <2>1, <2>2, <2>4
<1>13. Heap(s)' = g /\ \A r \in Sides : r # s => Heap(r)' = Heap(r)
  BY <1>1, <1>2, <1>6, <1>7 DEF Heap, Sides
<1> HIDE DEF g
<1>14. ASSUME NEW r \in Sides
       PROVE  /\ Heap(r)' \in Seq(DOMAIN levels')
              /\ IsInjective(Heap(r)') /\ Ordered(LevelRank(r)', Heap(r)')
              /\ InHeap(r)' = IF r = s THEN InHeap(r) \cup {j} ELSE InHeap(r)
              /\ r # s => j \notin InHeap(r)
  <2>1. InHeap(r)' = Range(Heap(r)')
    BY DEF InHeap
  <2>2. CASE r = s
    BY <1>1, <1>11, <1>12, <1>13, <2>1, <2>2
  <2>3. CASE r # s
    BY <1>11, <1>13, <2>1, <2>3
  <2> QED BY <2>2, <2>3
<1>15. /\ levelAt' \in [Prices -> 0..Len(levels')] /\ levelAt'[p] = j /\ levelAt[p] \in {0, j}
       /\ \A r \in Prices : r # p => levelAt'[r] = levelAt[r]
  <2>1. levelAt \in [Prices -> 0..Len(levels)] /\ levelAt[p] = 0
    BY <1>a, <1>1 DEF TypeOK
  <2>2. levelAt' = [levelAt EXCEPT ![p] = j] /\ j \in 0..j /\ 0..Len(levels) \subseteq 0..j
    BY <1>3, <1>4, <1>6, <1>7
  <2> QED BY <1>2, <1>7, <2>1, <2>2
<1>16. Booked(t, p, s, j)
  <2>1. levels'[j].price = p /\ levels'[j].queue # <<>>
    <3>1. levels'[j].price = p /\ levels'[j].queue = <<t>>
      BY <1>5, <1>7
    <3>2. <<t>> # <<>>
      OBVIOUS
    <3> QED BY <3>1, <3>2
  <2> QED BY <1>1, <1>2, <1>7, <1>8, <1>9, <1>10, <1>14, <1>15, <2>1 DEF Booked
<1> QED BY <1>16

\* The order of a call that returns has its last status from it.
Answered(t) ==
    /\ orders' \in Seq(OrderRow) /\ Len(orders') = Len(orders) /\ Ids' = Ids
    /\ \A m \in Ids :
          /\ Shape(m)' = Shape(m) /\ IsMarket(m)' = IsMarket(m)
          /\ Remaining(m)' = Remaining(m)
          /\ orders'[m].status = IF m = t THEN FinalStatus(t) ELSE orders[m].status
    /\ t \in Ids /\ orders[t].status = "OPEN" /\ FinalStatus(t) # "CANCELLED"
    /\ Rests(t) => FinalStatus(t) \in {"OPEN", "PARTIALLY_FILLED"}

\* What Finish does to the orders.
LEMMA FinishOrders ==
    ASSUME BookInv, Finish, NEW t, t = taker
    PROVE  Answered(t) /\ NeverOverfilled'
<1>0. /\ pc = "finish" /\ UNCHANGED trades
      /\ orders' = [orders EXCEPT ![t].status = FinalStatus(t)]
  BY DEF Finish
<1>a. TypeOK /\ NeverOverfilled
  BY DEF BookInv
<1>1. t \in Ids /\ orders[t].status = "OPEN"
  BY <1>0, TakerFacts
<1>2. /\ FinalStatus(t) \in Status /\ FinalStatus(t) # "CANCELLED"
      /\ FinalStatus(t) = "FILLED" => Remaining(t) = 0
      /\ Remaining(t) # 0 => FinalStatus(t) \in {"OPEN", "PARTIALLY_FILLED"}
  BY DEF FinalStatus, Status
<1>3. /\ orders' \in Seq(OrderRow) /\ Len(orders') = Len(orders) /\ Ids' = Ids
      /\ \A m \in Ids :
            /\ Shape(m)' = Shape(m) /\ IsMarket(m)' = IsMarket(m)
            /\ Remaining(m)' = Remaining(m) /\ orders'[m].filled = orders[m].filled
            /\ orders'[m].status = IF m = t THEN FinalStatus(t) ELSE orders[m].status
  BY <1>0, <1>a, <1>1, <1>2, StatusEffect
<1>4. Rests(t) => FinalStatus(t) \in {"OPEN", "PARTIALLY_FILLED"}
  <2>1. Remaining(t) \in Int
    BY <1>a, <1>1, OrderFacts
  <2>2. Rests(t) => Remaining(t) # 0
    BY <2>1 DEF Rests
  <2> QED BY <1>2, <2>2
<1>5. NeverOverfilled'
  <2>1. \A m : TradedIn(m)' = TradedIn(m)
    BY <1>0 DEF TradedIn
  <2>2. ASSUME NEW m \in Ids
        PROVE  /\ orders'[m].filled = Total(TradedIn(m), Len(trades))
               /\ orders'[m].filled <= Shape(m)'.quantity
               /\ orders'[m].status = "FILLED" => Remaining(m)' = 0
    BY <1>a, <1>2, <1>3 DEF NeverOverfilled
  <2>3. Len(trades)' = Len(trades)
    BY <1>0
  <2> QED BY <1>3, <2>1, <2>2, <2>3 DEF NeverOverfilled
<1>6. Answered(t)
  BY <1>1, <1>2, <1>3, <1>4 DEF Answered
<1> QED BY <1>5, <1>6

\* A call that leaves nothing in the book keeps it sound.
LEMMA FinishDropsKeeps == BookInv /\ Finish /\ ~ Rests(taker) => BookInv'
<1> SUFFICES ASSUME BookInv, Finish, ~ Rests(taker) PROVE BookInv'
  OBVIOUS
<1>a. /\ TypeOK /\ CallOK /\ HeapsOK /\ MapOK /\ QueuesOK /\ RestingOK /\ CleanOK
  BY DEF BookInv
<1>t. PICK t : t = taker
  OBVIOUS
<1>1. /\ pc = "finish" /\ pc' = "idle" /\ taker' = 0
      /\ orders' = [orders EXCEPT ![t].status = FinalStatus(t)]
      /\ UNCHANGED <<resting, levels, levelAt, bids, asks, trades, level>>
  BY <1>t DEF Finish, book
<1>2. /\ orders' \in Seq(OrderRow) /\ Len(orders') = Len(orders) /\ Ids' = Ids
      /\ \A m \in Ids :
            /\ Shape(m)' = Shape(m) /\ IsMarket(m)' = IsMarket(m)
            /\ Remaining(m)' = Remaining(m)
            /\ orders'[m].status = IF m = t THEN FinalStatus(t) ELSE orders[m].status
      /\ t \in Ids /\ orders[t].status = "OPEN" /\ FinalStatus(t) # "CANCELLED"
      /\ NeverOverfilled'
  BY <1>t, <1>1, FinishOrders DEF Answered
<1>3. /\ \A side : Heap(side)' = Heap(side) /\ InHeap(side)' = InHeap(side)
      /\ \A k : Waiting(k)' = Waiting(k)
      /\ \A side : LevelRank(side)' = LevelRank(side)
  BY <1>1, HeapsStay, LevelsStay
<1>4. /\ \A k \in DOMAIN levels : Waiting(k) \subseteq Ids
      /\ \A m \in Ids : m # 0
  <2>1. Ids = 1..Len(orders) /\ Len(orders) \in Nat
    BY <1>a, OrderFacts
  <2> QED BY <1>a, <2>1, BookFacts
<1>5. TypeOK'
  BY <1>a, <1>1, <1>2 DEF TypeOK, OrderRow
<1>6. CallOK' /\ FillOK' /\ FinishOK' /\ HeapsOK' /\ MapOK'
  BY <1>a, <1>1, <1>3 DEF CallOK, FillOK, FinishOK, HeapsOK, MapOK
<1>7. QueuesOK'
  <2>1. ASSUME NEW k \in DOMAIN levels, NEW m \in Waiting(k)
        PROVE  /\ m \in Ids /\ m # taker' /\ ~ IsMarket(m) /\ Shape(m).price = levels[k].price
               /\ Remaining(m) > 0
               /\ \A side \in Sides : k \in InHeap(side) => Shape(m).side = side
    BY <1>a, <1>1, <1>4 DEF QueuesOK
  <2>2. /\ \A k \in DOMAIN levels : Ascending(levels[k].queue)
        /\ \A k, l \in DOMAIN levels : k # l => Waiting(k) \cap Waiting(l) = {}
    BY <1>a DEF QueuesOK
  <2> QED BY <1>1, <1>2, <1>3, <2>1, <2>2 DEF QueuesOK
<1>8. RestingOK'
  <2>1. ASSUME NEW m \in resting
        PROVE  /\ m \in Ids /\ m # taker' /\ orders'[m].status \in {"OPEN", "PARTIALLY_FILLED"}
               /\ \E k \in InHeap(Shape(m).side) : m \in Waiting(k)
    <3>1. m \in Ids
      BY <1>a DEF TypeOK
    <3> QED BY <1>a, <1>t, <1>1, <1>2, <1>4, <3>1 DEF RestingOK
  <2>2. ASSUME NEW m \in resting PROVE (\E k \in InHeap(Shape(m).side) : m \in Waiting(k))'
    BY <1>2, <1>3, <2>1
  <2> QED BY <1>1, <2>1, <2>2 DEF RestingOK
<1>9. CleanOK'
  <2>1. CASE NoneCancelled /\ Clean
    <3>1. NoneCancelled'
      BY <1>2, <2>1 DEF NoneCancelled
    <3>2. Clean'
      BY <1>1, <1>3, <2>1 DEF Clean
    <3> QED BY <3>1, <3>2 DEF CleanOK
  <2>2. ASSUME NEW m \in Ids, orders[m].status = "CANCELLED",
               \A k \in DOMAIN levels : m \notin Waiting(k)
        PROVE  CleanOK'
    BY <1>1, <1>2, <1>3, <2>2 DEF CleanOK
  <2> QED BY <1>a, <2>1, <2>2 DEF CleanOK
<1> QED BY <1>2, <1>5, <1>6, <1>7, <1>8, <1>9 DEF BookInv

\* A call whose order comes to rest keeps the book sound.
LEMMA FinishRestsKeeps == BookInv /\ Finish /\ Rests(taker) => BookInv'
<1> SUFFICES ASSUME BookInv, Finish, Rests(taker) PROVE BookInv'
  OBVIOUS
<1>a. /\ TypeOK /\ CallOK /\ HeapsOK /\ MapOK /\ QueuesOK /\ RestingOK /\ CleanOK
  BY DEF BookInv
<1>t. PICK t : t = taker
  OBVIOUS
<1>1. /\ pc = "finish" /\ pc' = "idle" /\ taker' = 0 /\ Rests(t) /\ AddOrder(t)
      /\ orders' = [orders EXCEPT ![t].status = FinalStatus(t)]
      /\ resting' = resting \cup {t} /\ UNCHANGED <<trades, level>>
  BY <1>t DEF Finish, AddOrder
<1>2. /\ orders' \in Seq(OrderRow) /\ Len(orders') = Len(orders) /\ Ids' = Ids
      /\ \A m \in Ids :
            /\ Shape(m)' = Shape(m) /\ IsMarket(m)' = IsMarket(m)
            /\ Remaining(m)' = Remaining(m)
            /\ orders'[m].status = IF m = t THEN FinalStatus(t) ELSE orders[m].status
      /\ t \in Ids /\ orders[t].status = "OPEN"
      /\ FinalStatus(t) \in {"OPEN", "PARTIALLY_FILLED"}
      /\ NeverOverfilled'
  BY <1>t, <1>1, FinishOrders DEF Answered
<1>3. PICK p, s, j : Booked(t, p, s, j)
  <2>1. CASE levelAt[Shape(t).price] # 0
    BY <1>t, <1>1, <2>1, JoinEffect
  <2>2. CASE levelAt[Shape(t).price] = 0
    BY <1>t, <1>1, <2>2, NewLevelEffect
  <2> QED BY <2>1, <2>2
<1>4. /\ p = Shape(t).price /\ p \in Prices /\ s = Shape(t).side /\ s \in Sides
      /\ levels' \in Seq(LevelRow(Ids)) /\ DOMAIN levels' = DOMAIN levels \cup {j}
      /\ Len(levels) <= Len(levels')
      /\ levels'[j].price = p /\ levels'[j].queue # <<>>
      /\ Waiting(j)' = (IF j \in DOMAIN levels THEN Waiting(j) ELSE {}) \cup {t}
      /\ \A i \in DOMAIN levels : levels'[i].price = levels[i].price
      /\ \A i \in DOMAIN levels : i # j => levels'[i].queue = levels[i].queue
      /\ \A i \in DOMAIN levels' : Ascending(levels'[i].queue)
      /\ \A r \in Sides :
            /\ Heap(r)' \in Seq(DOMAIN levels')
            /\ IsInjective(Heap(r)') /\ Ordered(LevelRank(r)', Heap(r)')
            /\ InHeap(r)' = IF r = s THEN InHeap(r) \cup {j} ELSE InHeap(r)
            /\ r # s => j \notin InHeap(r)
      /\ j \in DOMAIN levels => j \in InHeap(s)
      /\ levelAt' \in [Prices -> 0..Len(levels')] /\ levelAt'[p] = j /\ levelAt[p] \in {0, j}
      /\ \A q \in Prices : q # p => levelAt'[q] = levelAt[q]
  BY <1>3 DEF Booked
<1>5. /\ \A k \in DOMAIN levels : Waiting(k) \subseteq Ids /\ levels[k].price \in Prices
      /\ \A r \in Sides : InHeap(r) \subseteq DOMAIN levels
      /\ \A m \in Ids : m # 0
  <2>1. Ids = 1..Len(orders) /\ Len(orders) \in Nat
    BY <1>a, OrderFacts
  <2> QED BY <1>a, <2>1, BookFacts
<1>6. \A i \in DOMAIN levels' :
          Waiting(i)' = (IF i \in DOMAIN levels THEN Waiting(i) ELSE {})
                            \cup (IF i = j THEN {t} ELSE {})
  <2>1. ASSUME NEW i \in DOMAIN levels', i # j
        PROVE  i \in DOMAIN levels /\ Waiting(i)' = Waiting(i)
    <3>1. i \in DOMAIN levels
      BY <1>4, <2>1
    <3>2. Waiting(i)' = Range(levels'[i].queue) /\ Waiting(i) = Range(levels[i].queue)
      BY DEF Waiting
    <3> QED BY <1>4, <2>1, <3>1, <3>2
  <2> QED BY <1>4, <2>1
<1>7. TypeOK'
  <2>1. bids' \in Seq(DOMAIN levels') /\ asks' \in Seq(DOMAIN levels')
    <3>1. Heap("BUY")' = bids' /\ Heap("SELL")' = asks'
      BY DEF Heap
    <3>2. "BUY" \in Sides /\ "SELL" \in Sides
      BY DEF Sides
    <3> QED BY <1>4, <3>1, <3>2
  <2>2. level' \in 0..Len(levels')
    <3>1. Len(levels) \in Nat /\ Len(levels') \in Nat /\ level' \in 0..Len(levels)
      BY <1>a, <1>1, <1>4 DEF TypeOK
    <3> QED BY <1>4, <3>1
  <2>3. resting' \subseteq Ids /\ trades' \in Seq(TradeRow(Ids))
    BY <1>a, <1>1, <1>2 DEF TypeOK, TradeRow
  <2> QED BY <1>1, <1>2, <1>4, <2>1, <2>2, <2>3 DEF TypeOK, OrderRow, LevelRow, TradeRow
<1>8. CallOK' /\ FillOK' /\ FinishOK'
  BY <1>1 DEF CallOK, FillOK, FinishOK
<1>9. HeapsOK'
  <2>1. InHeap("BUY")' \cap InHeap("SELL")' = {}
    BY <1>a, <1>4 DEF HeapsOK, Sides
  <2> QED BY <1>4, <2>1 DEF HeapsOK
<1>10. \A r \in Sides : InHeap(r) \subseteq InHeap(r)' /\ InHeap(r)' \subseteq InHeap(r) \cup {j}
  BY <1>4
<1>11. MapOK'
  <2>1. ASSUME NEW q \in Prices, levelAt'[q] # 0
        PROVE  /\ levels'[levelAt'[q]].price = q
               /\ levelAt'[q] \in InHeap("BUY")' \cup InHeap("SELL")'
    <3>1. CASE q = p
      BY <1>4, <3>1 DEF Sides
    <3>2. CASE q # p
      <4>1. levelAt'[q] = levelAt[q]
        BY <1>4, <3>2
      <4>2. levels[levelAt[q]].price = q /\ levelAt[q] \in InHeap("BUY") \cup InHeap("SELL")
        BY <1>a, <2>1, <4>1 DEF MapOK
      <4>3. levelAt[q] \in DOMAIN levels
        BY <1>5, <4>2 DEF Sides
      <4> QED BY <1>4, <1>10, <4>1, <4>2, <4>3 DEF Sides
    <3> QED BY <3>1, <3>2
  <2> QED BY <2>1 DEF MapOK
<1>12. \A k \in DOMAIN levels : t \notin Waiting(k)
  BY <1>a, <1>t DEF QueuesOK
<1>13. QueuesOK'
  <2>1. ASSUME NEW k \in DOMAIN levels', NEW m \in Waiting(k)'
        PROVE  /\ ~ IsMarket(m)' /\ Shape(m)'.price = levels'[k].price
               /\ Remaining(m)' > 0 /\ m # taker'
               /\ \A r \in Sides : k \in InHeap(r)' => Shape(m)'.side = r
    <3>1. CASE m = t
      <4>1. k = j
        BY <1>6, <1>12, <3>1
      <4>2. ~ IsMarket(t) /\ Remaining(t) > 0
        BY <1>1 DEF Rests
      <4> QED BY <1>1, <1>2, <1>4, <1>5, <3>1, <4>1, <4>2
    <3>2. CASE m # t
      <4>1. k \in DOMAIN levels /\ m \in Waiting(k) /\ m \in Ids
        BY <1>5, <1>6, <3>2
      <4>2. /\ ~ IsMarket(m) /\ Shape(m).price = levels[k].price /\ Remaining(m) > 0
            /\ \A r \in Sides : k \in InHeap(r) => Shape(m).side = r
        BY <1>a, <4>1 DEF QueuesOK
      <4>3. \A r \in Sides : k \in InHeap(r)' => k \in InHeap(r)
        BY <1>4, <4>1
      <4> QED BY <1>1, <1>2, <1>4, <1>5, <4>1, <4>2, <4>3
    <3> QED BY <3>1, <3>2
  <2>2. ASSUME NEW k \in DOMAIN levels', NEW l \in DOMAIN levels', k # l
        PROVE  Waiting(k)' \cap Waiting(l)' = {}
    <3>1. k \in DOMAIN levels /\ l \in DOMAIN levels => Waiting(k) \cap Waiting(l) = {}
      BY <1>a, <2>2 DEF QueuesOK
    <3> QED BY <1>6, <1>12, <2>2, <3>1
  <2> QED BY <1>4, <2>1, <2>2 DEF QueuesOK
<1>14. RestingOK'
  <2>1. ASSUME NEW m \in resting', NEW r, r = Shape(m).side
        PROVE  /\ m \in Ids /\ m # taker' /\ orders'[m].status \in {"OPEN", "PARTIALLY_FILLED"}
               /\ \E k \in InHeap(r)' : m \in Waiting(k)'
    <3>1. m \in Ids
      BY <1>a, <1>1, <1>2 DEF TypeOK
    <3>2. CASE m = t
      <4>1. j \in InHeap(r)' /\ m \in Waiting(j)'
        BY <1>4, <2>1, <3>2
      <4> QED BY <1>1, <1>2, <1>5, <3>1, <3>2, <4>1
    <3>3. CASE m # t
      <4>1. m \in resting /\ r \in Sides
        BY <1>a, <1>1, <2>1, <3>1, <3>3, OrderFacts
      <4>2. PICK k \in InHeap(r) : m \in Waiting(k)
        BY <1>a, <2>1, <4>1 DEF RestingOK
      <4>3. k \in InHeap(r)' /\ k \in DOMAIN levels /\ k \in DOMAIN levels'
        BY <1>4, <1>5, <1>10, <4>1, <4>2
      <4>4. m \in Waiting(k)'
        BY <1>6, <4>2, <4>3
      <4>5. orders'[m].status \in {"OPEN", "PARTIALLY_FILLED"}
        BY <1>a, <1>2, <3>1, <3>3, <4>1 DEF RestingOK
      <4> QED BY <1>1, <1>5, <3>1, <4>3, <4>4, <4>5
    <3> QED BY <3>2, <3>3
  <2>2. ASSUME NEW m \in resting' PROVE (\E k \in InHeap(Shape(m).side) : m \in Waiting(k))'
    <3>1. \E k \in InHeap(Shape(m).side)' : m \in Waiting(k)'
      BY <1>2, <2>1
    <3> QED BY <3>1
  <2> QED BY <2>1, <2>2 DEF RestingOK
<1>15. CleanOK'
  <2>1. CASE NoneCancelled /\ Clean
    <3>1. NoneCancelled'
      BY <1>2, <2>1 DEF NoneCancelled
    <3>2. ASSUME NEW k \in InHeap("BUY")' \cup InHeap("SELL")'
          PROVE  levelAt'[levels'[k].price] = k /\ levels'[k].queue # <<>>
      <4>1. CASE k = j
        BY <1>4, <4>1
      <4>2. CASE k # j
        <5>1. k \in InHeap("BUY") \cup InHeap("SELL") /\ k \in DOMAIN levels
          BY <1>5, <1>10, <4>2 DEF Sides
        <5>2. levelAt[levels[k].price] = k /\ levels[k].queue # <<>>
          BY <1>1, <2>1, <5>1 DEF Clean
        <5>3. levels[k].price \in Prices /\ k # 0
          <6>1. DOMAIN levels = 1..Len(levels) /\ Len(levels) \in Nat
            BY <1>a, BookFacts
          <6> QED BY <1>5, <5>1, <6>1
        <5>4. levels[k].price # p
          BY <1>4, <4>2, <5>2, <5>3
        <5> QED BY <1>4, <4>2, <5>1, <5>2, <5>3, <5>4
      <4> QED BY <4>1, <4>2
    <3>3. Clean'
      BY <3>2 DEF Clean
    <3> QED BY <3>1, <3>3 DEF CleanOK
  <2>2. ASSUME NEW m \in Ids, orders[m].status = "CANCELLED",
               \A k \in DOMAIN levels : m \notin Waiting(k)
        PROVE  CleanOK'
    <3>1. m # t
      BY <1>2, <2>2
    <3>2. orders'[m].status = "CANCELLED"
      BY <1>2, <2>2, <3>1
    <3>3. \A k \in DOMAIN levels' : m \notin Waiting(k)'
      BY <1>6, <2>2, <3>1
    <3> QED BY <1>2, <3>2, <3>3 DEF CleanOK
  <2> QED BY <1>a, <2>1, <2>2 DEF CleanOK
<1> QED BY <1>2, <1>7, <1>8, <1>9, <1>11, <1>13, <1>14, <1>15 DEF BookInv

\* The end of a call keeps the book sound.
LEMMA FinishKeeps == BookInv /\ Finish => BookInv'
BY FinishDropsKeeps, FinishRestsKeeps

-----------------------------------------------------------------------------
(* The theorems                                                            *)

\* Every step keeps the book sound.
LEMMA BookNext == BookInv /\ [Next]_vars => BookInv'
<1> SUFFICES ASSUME BookInv, [Next]_vars PROVE BookInv'
  OBVIOUS
<1>1. ASSUME NEW s \in Shapes, Place(s) PROVE BookInv'
  BY <1>1, PlaceKeeps
<1>2. CASE EnterLevel
  BY <1>2, EnterLevelKeeps
<1>3. CASE Fill
  BY <1>3, FillKeeps
<1>4. CASE LeaveLevel
  BY <1>4, LeaveLevelKeeps
<1>5. CASE EndMatching
  BY <1>5, EndMatchingKeeps
<1>6. CASE Finish
  BY <1>6, FinishKeeps
<1>7. ASSUME NEW o \in Ids, Cancel(o) PROVE BookInv'
  BY <1>7, CancelKeeps
<1>8. CASE UNCHANGED vars
  <2>1. UNCHANGED <<orders, resting, levels, levelAt, bids, asks, trades, pc, taker, level>>
    BY <1>8 DEF vars, book
  <2>2. /\ \A side : Heap(side)' = Heap(side) /\ InHeap(side)' = InHeap(side)
        /\ \A k : Waiting(k)' = Waiting(k)
        /\ \A side : LevelRank(side)' = LevelRank(side)
    BY <2>1, HeapsStay, LevelsStay
  <2>3. /\ Ids' = Ids
        /\ \A o : /\ Shape(o)' = Shape(o) /\ TradedIn(o)' = TradedIn(o)
                  /\ Remaining(o)' = Remaining(o) /\ IsMarket(o)' = IsMarket(o)
    BY <2>1 DEF Ids, Shape, Remaining, IsMarket, TradedIn
  <2>4. /\ TypeOK /\ CallOK /\ FillOK /\ FinishOK /\ HeapsOK /\ MapOK
        /\ QueuesOK /\ RestingOK /\ NeverOverfilled /\ CleanOK
    BY DEF BookInv
  <2>5. /\ TypeOK' /\ CallOK' /\ HeapsOK' /\ MapOK'
        /\ QueuesOK' /\ RestingOK' /\ NeverOverfilled'
    <3>1. TypeOK'
      BY <2>1, <2>3, <2>4 DEF TypeOK
    <3>2. CallOK' /\ HeapsOK' /\ MapOK'
      BY <2>1, <2>2, <2>4 DEF CallOK, HeapsOK, MapOK
    <3>3. QueuesOK' /\ RestingOK' /\ NeverOverfilled'
      BY <2>1, <2>2, <2>3, <2>4 DEF QueuesOK, RestingOK, NeverOverfilled
    <3> QED BY <3>1, <3>2, <3>3
  <2>6. FillOK' /\ FinishOK'
    BY <2>1, <2>4 DEF FillOK, FinishOK, HasMatch, Opposite, IsMarket, Acceptable, Shape,
                      Remaining
  <2>7. CleanOK'
    <3>1. (NoneCancelled /\ Clean) => (NoneCancelled /\ Clean)'
      BY <2>1, <2>2, <2>3 DEF NoneCancelled, Clean
    <3> QED BY <2>1, <2>2, <2>3, <2>4, <3>1 DEF CleanOK
  <2> QED BY <2>5, <2>6, <2>7 DEF BookInv
<1> QED BY <1>1, <1>2, <1>3, <1>4, <1>5, <1>6, <1>7, <1>8 DEF Next, Match

\* The book stays sound, call by call and trade by trade.
THEOREM BookStaysSound == Spec => []BookInv
BY BookInit, BookNext, PTL DEF Spec

\* Every variable keeps its type: a heap holds levels that exist, the map leads
\* to them, and a call works on an order that was placed.
THEOREM EngineTypes == Spec => []TypeOK
<1>1. BookInv => TypeOK
  BY DEF BookInv
<1> QED BY <1>1, BookStaysSound, PTL

\* No order trades more than it asked for, and what it counts as filled is the
\* sum of the trades it took part in.
THEOREM NothingIsOverfilled == Spec => []NeverOverfilled
<1>1. BookInv => NeverOverfilled
  BY DEF BookInv
<1> QED BY <1>1, BookStaysSound, PTL

\* An order that the book lists waits at exactly one place.
LEMMA OnePlace ==
    ASSUME BookInv, NEW o \in resting
    PROVE  /\ Cardinality(Places(o)) = 1
           /\ \A w \in Places(o) : levels[w[1]].price = Shape(o).price
           /\ orders[o].status \in {"OPEN", "PARTIALLY_FILLED"}
           /\ Remaining(o) > 0
<1>a. TypeOK /\ HeapsOK /\ QueuesOK /\ RestingOK
  BY DEF BookInv
<1>1. PICK r : r = Shape(o).side
  OBVIOUS
<1>2. o \in Ids /\ r \in Sides
  BY <1>a, <1>1, OrderFacts DEF TypeOK
<1>3. PICK k \in InHeap(r) : o \in Waiting(k)
  BY <1>a, <1>1 DEF RestingOK
<1>4. k \in DOMAIN levels /\ InHeap(r) \subseteq DOMAIN levels
  BY <1>a, <1>2, <1>3, BookFacts
<1>5. \A j \in InHeap(r) : o \in Waiting(j) => j = k
  BY <1>a, <1>3, <1>4 DEF QueuesOK
<1>6. levels[k].queue \in Seq(Ids) /\ Ascending(levels[k].queue) /\ Ids \subseteq Nat
  BY <1>a, <1>4, BookFacts, OrderFacts DEF QueuesOK
<1>7. PICK i \in DOMAIN levels[k].queue : levels[k].queue[i] = o
  BY <1>3 DEF Waiting, Range
<1>8. ASSUME NEW j \in DOMAIN levels[k].queue, levels[k].queue[j] = o PROVE j = i
  <2>1. PICK q \in Seq(Ids) : q = levels[k].queue
    BY <1>6
  <2>2. i \in DOMAIN q /\ j \in DOMAIN q /\ q[i] = o /\ q[j] = o /\ Ascending(q)
    BY <1>6, <1>7, <1>8, <2>1
  <2>3. i \in Nat /\ j \in Nat /\ o \in Nat
    BY <1>2, <1>6, <2>1, <2>2
  <2>4. ~(i < j) /\ ~(j < i)
    BY <2>2, <2>3 DEF Ascending
  <2> QED BY <2>3, <2>4
<1>9. ASSUME NEW w PROVE w \in Places(o) <=> w = <<k, i>>
  <2>1. w \in Places(o) <=> \E j \in InHeap(r) : \E n \in DOMAIN levels[j].queue :
                                w = <<j, n>> /\ levels[j].queue[n] = o
    BY <1>1 DEF Places
  <2>2. \A j : \A n \in DOMAIN levels[j].queue : levels[j].queue[n] = o => o \in Waiting(j)
    BY DEF Waiting, Range
  <2> QED BY <1>3, <1>5, <1>7, <1>8, <2>1, <2>2
<1>10. Places(o) = {<<k, i>>}
  BY <1>9
<1>11. Cardinality(Places(o)) = 1
  BY <1>10, FS_Singleton
<1>12. /\ levels[k].price = Shape(o).price /\ Remaining(o) > 0
  BY <1>a, <1>3, <1>4 DEF QueuesOK
<1>13. \A w \in Places(o) : levels[w[1]].price = Shape(o).price
  BY <1>10, <1>12
<1> QED BY <1>a, <1>11, <1>12, <1>13 DEF RestingOK

\* No order is lost in the book, however orders were placed, traded and
\* cancelled: what the book lists waits at one place, with a rest to trade.
THEOREM RestingStaysBooked == Spec => []RestingIsBooked
<1>1. BookInv => RestingIsBooked
  BY OnePlace DEF RestingIsBooked
<1> QED BY <1>1, BookStaysSound, PTL

\* Only Fill trades.
LEMMA TradesAreFills ==
    ASSUME BookInv, [Next]_vars, Len(trades') > Len(trades)
    PROVE  Fill
<1>1. Len(trades) \in Nat
  BY DEF BookInv, TypeOK
<1>2. trades' # trades
  BY <1>1
<1> QED BY <1>2 DEF Next, Match, Place, EnterLevel, EndMatching, LeaveLevel, Finish, Cancel,
                    vars, book

\* A trade keeps price-time priority.
LEMMA FillIsFair ==
    ASSUME BookInv, Fill
    PROVE  LET t == trades'[Len(trades')]
               rivals == {m \in resting : Shape(m).side = OppositeSide(t.taker)}
           IN  /\ Shape(t.maker).side = OppositeSide(t.taker)
               /\ t.price = Shape(t.maker).price
               /\ IsMarket(t.taker) \/ Acceptable(t.taker, t.price)
               /\ \A m \in rivals : ~ Better(t.taker, m, t.maker)
               /\ NoneCancelled =>
                     \A m \in rivals :
                         Shape(m).price = Shape(t.maker).price => t.maker <= m
<1>a. TypeOK /\ FillOK /\ HeapsOK /\ QueuesOK /\ RestingOK /\ CleanOK
  BY DEF BookInv
<1>1. PICK t \in Ids, m \in Ids, k \in DOMAIN levels, n \in Nat \ {0} : TradeMade(t, m, k, n)
  BY FillEffect
<1>2. /\ t = taker /\ k = level /\ m = levels[k].queue[1] /\ pc = "fill"
      /\ trades' = Append(trades, [taker |-> t, maker |-> m,
                                   price |-> levels[k].price, quantity |-> n])
      /\ levels[k].queue # <<>>
  BY <1>1 DEF TradeMade, Fill
<1>3. PICK x : x = trades'[Len(trades')]
  OBVIOUS
<1>4. x.taker = t /\ x.maker = m /\ x.price = levels[k].price
  <2> DEFINE y == [taker |-> t, maker |-> m, price |-> levels[k].price, quantity |-> n]
  <2>1. y.taker = t /\ y.maker = m /\ y.price = levels[k].price
    OBVIOUS
  <2> HIDE DEF y
  <2>2. trades \in Seq(TradeRow(Ids)) /\ trades' = Append(trades, y)
    BY <1>a, <1>2 DEF TypeOK, TradeRow, y
  <2>3. x = y
    BY <1>3, <2>2
  <2> QED BY <2>1, <2>3
<1>5. /\ Shape(m).side = OppositeSide(t) /\ Shape(m).price = levels[k].price
      /\ \A o \in Waiting(k) : m <= o
  BY <1>2, MakerFacts
<1>6. k = Opposite(t)[1] /\ (IsMarket(t) \/ Acceptable(t, levels[k].price))
  BY <1>a, <1>2 DEF FillOK
<1>7. ASSUME NEW o \in resting, Shape(o).side = OppositeSide(t)
      PROVE  /\ ~ Better(t, o, m)
             /\ NoneCancelled /\ Shape(o).price = Shape(m).price => m <= o
  <2>1. PICK s \in Sides : s = OppositeSide(t)
    BY OppositeHeap
  <2>2. PICK j \in InHeap(s) : o \in Waiting(j)
    BY <1>a, <1>7, <2>1 DEF RestingOK
  <2>3. j \in DOMAIN levels
    BY <1>a, <2>1, <2>2, BookFacts
  <2>4. Shape(o).price = levels[j].price
    BY <1>a, <2>2, <2>3 DEF QueuesOK
  <2>5. IF Shape(t).side = "BUY" THEN levels[k].price <= levels[j].price
        ELSE levels[k].price >= levels[j].price
    BY <1>2, <1>6, <2>1, <2>2, BestIsFirst
  <2>6. levels[k].price \in Nat /\ levels[j].price \in Nat
    BY <1>a, <2>3, BookFacts
  <2>7. ~ Better(t, o, m)
    BY <1>5, <2>4, <2>5, <2>6 DEF Better
  <2>8. ASSUME NoneCancelled, Shape(o).price = Shape(m).price PROVE m <= o
    <3>1. Clean
      BY <1>a, <2>8 DEF CleanOK, NoneCancelled
    <3>2. k \in InHeap(s)
      BY <1>1, <2>1 DEF TradeMade
    <3>3. levelAt[levels[j].price] = j /\ levelAt[levels[k].price] = k
      BY <2>2, <3>1, <3>2 DEF Clean, Sides
    <3>4. j = k
      BY <1>5, <2>4, <2>8, <3>3
    <3> QED BY <1>5, <2>2, <3>4
  <2> QED BY <2>7, <2>8
<1> QED BY <1>3, <1>4, <1>5, <1>6, <1>7

\* Whatever was placed and cancelled before, a trade is with an order whose
\* price is the best of its side, and as long as nothing was cancelled with the
\* oldest at that price.
THEOREM PriceThenTime == Spec => PriceTimePriority
<1>1. BookInv /\ [Next]_vars =>
        [Len(trades') > Len(trades) =>
          LET t == trades'[Len(trades')]
              rivals == {m \in resting : Shape(m).side = OppositeSide(t.taker)}
          IN  /\ Shape(t.maker).side = OppositeSide(t.taker)
              /\ t.price = Shape(t.maker).price
              /\ IsMarket(t.taker) \/ Acceptable(t.taker, t.price)
              /\ \A m \in rivals : ~ Better(t.taker, m, t.maker)
              /\ NoneCancelled =>
                    \A m \in rivals :
                        Shape(m).price = Shape(t.maker).price => t.maker <= m]_vars
  BY TradesAreFills, FillIsFair
<1> QED BY <1>1, BookStaysSound, PTL DEF Spec, PriceTimePriority

\* Of an order a rest is left only when nothing could be matched with it.
LEMMA FinishLeavesNothing ==
    ASSUME BookInv, pc = "finish", Remaining(taker) > 0
    PROVE  \/ Counterparts(taker) = {}
           \/ IsMarket(taker) /\ ~ NoneCancelled
<1>a. TypeOK /\ FinishOK /\ QueuesOK /\ RestingOK /\ CleanOK
  BY DEF BookInv
<1>1. SUFFICES ASSUME NEW o \in Counterparts(taker), ~ IsMarket(taker) \/ NoneCancelled
               PROVE  FALSE
  OBVIOUS
<1>2. PICK s \in Sides : s = OppositeSide(taker)
  BY OppositeHeap
<1>3. /\ o \in resting /\ Shape(o).side = s
      /\ IsMarket(taker) \/ Acceptable(taker, Shape(o).price)
  BY <1>2 DEF Counterparts
<1>4. PICK j \in InHeap(s) : o \in Waiting(j)
  BY <1>a, <1>3 DEF RestingOK
<1>5. PICK b : b = Opposite(taker)[1]
  OBVIOUS
<1>6. /\ Opposite(taker) # <<>> /\ b \in DOMAIN levels /\ j \in DOMAIN levels /\ b \in InHeap(s)
      /\ IF Shape(taker).side = "BUY" THEN levels[b].price <= levels[j].price
         ELSE levels[b].price >= levels[j].price
  BY <1>2, <1>4, <1>5, BestIsFirst, TakerFacts
<1>7. Shape(o).price = levels[j].price
  BY <1>a, <1>4, <1>6 DEF QueuesOK
<1>8. taker \in Ids /\ Shape(taker).price \in Nat /\ levels[b].price \in Nat
      /\ levels[j].price \in Nat
  BY <1>a, <1>6, TakerFacts, OrderFacts, BookFacts
<1>9. CASE IsMarket(taker)
  <2>1. Clean
    BY <1>a, <1>1, <1>9 DEF CleanOK, NoneCancelled
  <2>2. levels[b].queue # <<>>
    BY <1>2, <1>6, <2>1 DEF Clean, Sides
  <2>3. HasMatch
    BY <1>5, <1>6, <1>9, <2>2 DEF HasMatch
  <2> QED BY <1>a, <2>3 DEF FinishOK
<1>10. CASE ~ IsMarket(taker)
  <2>1. Acceptable(taker, levels[b].price)
    BY <1>3, <1>6, <1>7, <1>8, <1>10 DEF Acceptable
  <2>2. HasMatch
    BY <1>5, <1>6, <1>10, <2>1 DEF HasMatch
  <2> QED BY <1>a, <2>2 DEF FinishOK
<1> QED BY <1>9, <1>10

\* The matching does not stop too early: of an order a rest is left only when no
\* order in the book can take it, or it is a market order and something was
\* cancelled before.
THEOREM MatchingIsExhaustive == Spec => NothingLeftToMatch
<1>1. BookInv /\ [Next]_vars =>
        [pc = "finish" /\ Remaining(taker) > 0 =>
          \/ Counterparts(taker) = {}
          \/ IsMarket(taker) /\ ~ NoneCancelled]_vars
  BY FinishLeavesNothing
<1> QED BY <1>1, BookStaysSound, PTL DEF Spec, NothingLeftToMatch
=============================================================================
