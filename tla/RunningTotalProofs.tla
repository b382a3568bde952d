------------------------- MODULE RunningTotalProofs -------------------------
(***************************************************************************)
(* What Total returns: its value on an empty range, how one more summand   *)
(* or one changed summand moves it, and its bounds for summands that are   *)
(* not negative.  Induction is by a least counterexample.                  *)
(***************************************************************************)
EXTENDS RunningTotal, WellFoundedInduction, TLAPS

\* Every non-empty set of naturals has a least element.
LEMMA LeastElement ==
    ASSUME NEW T, T \subseteq Nat, T # {}
    PROVE  \E m \in T : \A k \in T : m <= k
<1>1. \E m \in T : \A k \in T : ~ (<<k, m>> \in OpToRel(<, Nat))
  BY NatLessThanWellFounded, WFMin
<1>2. ASSUME NEW a \in Nat, NEW b \in Nat, a < b
      PROVE  <<a, b>> \in OpToRel(<, Nat)
  BY <1>2 DEF OpToRel
<1>3. PICK m \in T : \A k \in T : ~ (<<k, m>> \in OpToRel(<, Nat))
  BY <1>1
<1>4. \A k \in T : ~ (k < m)
  BY <1>2, <1>3
<1> QED BY <1>4

\* Two running totals of the same function agree.
LEMMA RunningTotalUnique ==
    ASSUME NEW n \in Nat, NEW d, NEW s, NEW t,
           IsRunningTotal(s, d, n), IsRunningTotal(t, d, n)
    PROVE  s = t
<1> DEFINE Bad == {i \in 0..n : s[i] # t[i]}
<1>1. CASE Bad = {}
  <2>1. \A i \in 0..n : s[i] = t[i]
    BY <1>1
  <2> QED BY <2>1 DEF IsRunningTotal
<1>2. CASE Bad # {}
  <2>0. Bad \subseteq Nat
    OBVIOUS
  <2>1. PICK m \in Bad : \A k \in Bad : m <= k
    <3> HIDE DEF Bad
    <3> QED BY <1>2, <2>0, LeastElement
  <2>2. m \in 0..n /\ s[m] # t[m]
    BY <2>1
  <2>3. m # 0
    BY <2>2 DEF IsRunningTotal
  <2>4. m - 1 \in 0..n /\ m - 1 \notin Bad
    BY <2>1, <2>2, <2>3
  <2>5. s[m - 1] = t[m - 1]
    BY <2>4
  <2>6. s[m] = s[m - 1] + d[m] /\ t[m] = t[m - 1] + d[m]
    BY <2>2, <2>3 DEF IsRunningTotal
  <2> QED BY <2>2, <2>5, <2>6
<1> QED BY <1>1, <1>2

\* Every function has a running total over 1..n.
LEMMA RunningTotalExists ==
    ASSUME NEW n \in Nat, NEW d
    PROVE  \E t : IsRunningTotal(t, d, n)
<1> DEFINE Missing == {i \in Nat : ~ \E t : IsRunningTotal(t, d, i)}
<1>1. CASE Missing # {}
  <2>1. PICK m \in Missing : \A k \in Missing : m <= k
    <3>1. Missing \subseteq Nat
      OBVIOUS
    <3> HIDE DEF Missing
    <3> QED BY <1>1, <3>1, LeastElement
  <2>2. m \in Nat /\ ~ \E t : IsRunningTotal(t, d, m)
    BY <2>1
  <2>3. m # 0
    <3> SUFFICES ASSUME m = 0 PROVE FALSE
      OBVIOUS
    <3> DEFINE t0 == [i \in 0..0 |-> 0]
    <3>1. IsRunningTotal(t0, d, 0)
      BY DEF IsRunningTotal
    <3> QED BY <2>2, <3>1
  <2>4. m - 1 \in Nat /\ m - 1 \notin Missing
    BY <2>1, <2>2, <2>3
  <2>5. PICK t : IsRunningTotal(t, d, m - 1)
    BY <2>4
  <2> DEFINE tm == [i \in 0..m |-> IF i = m THEN t[m - 1] + d[m] ELSE t[i]]
  <2>6. IsRunningTotal(tm, d, m)
    <3>1. ASSUME NEW i \in 0..m
          PROVE  tm[i] = IF i = 0 THEN 0 ELSE tm[i - 1] + d[i]
      BY <2>2, <2>3, <2>5 DEF IsRunningTotal
    <3> QED BY <3>1 DEF IsRunningTotal
  <2> QED BY <2>2, <2>6
<1> QED BY <1>1

\* Total is the last value of the running total.
LEMMA TotalIsLast ==
    ASSUME NEW n \in Nat, NEW d, NEW t, IsRunningTotal(t, d, n)
    PROVE  Total(d, n) = t[n]
<1> DEFINE c == CHOOSE s : s = [i \in 0..n |-> IF i = 0 THEN 0 ELSE s[i - 1] + d[i]]
<1>1. IsRunningTotal(c, d, n)
  BY DEF IsRunningTotal
<1>2. Total(d, n) = c[n]
  BY DEF Total
<1> HIDE DEF c
<1> QED BY <1>1, <1>2, RunningTotalUnique

\* The total over no summands is 0.
LEMMA TotalEmpty ==
    ASSUME NEW d
    PROVE  Total(d, 0) = 0
<1>1. PICK t : IsRunningTotal(t, d, 0)
  BY RunningTotalExists
<1>2. t[0] = 0
  BY <1>1 DEF IsRunningTotal
<1> QED BY <1>1, <1>2, TotalIsLast

\* Functions that agree on 1..n have the same total.
LEMMA TotalExtensional ==
    ASSUME NEW n \in Nat, NEW d, NEW e, \A i \in 1..n : d[i] = e[i]
    PROVE  Total(d, n) = Total(e, n)
<1>1. PICK t : IsRunningTotal(t, d, n)
  BY RunningTotalExists
<1>2. IsRunningTotal(t, e, n)
  BY <1>1 DEF IsRunningTotal
<1> QED BY <1>1, <1>2, TotalIsLast

\* Zeros add up to 0.
LEMMA TotalZero ==
    ASSUME NEW n \in Nat
    PROVE  Total([i \in 1..n |-> 0], n) = 0
<1> DEFINE zero == [i \in 1..n |-> 0]
           t == [i \in 0..n |-> 0]
<1>1. IsRunningTotal(t, zero, n)
  BY DEF IsRunningTotal
<1>2. t[n] = 0
  OBVIOUS
<1> HIDE DEF zero, t
<1> QED BY <1>1, <1>2, TotalIsLast DEF zero

\* One more summand adds itself.
LEMMA TotalExtend ==
    ASSUME NEW n \in Nat, NEW d
    PROVE  Total(d, n + 1) = Total(d, n) + d[n + 1]
<1>1. PICK t : IsRunningTotal(t, d, n + 1)
  BY RunningTotalExists
<1> DEFINE u == [i \in 0..n |-> t[i]]
<1>2. IsRunningTotal(u, d, n)
  <2>1. ASSUME NEW i \in 0..n
        PROVE  u[i] = IF i = 0 THEN 0 ELSE u[i - 1] + d[i]
    BY <1>1 DEF IsRunningTotal
  <2> QED BY <2>1 DEF IsRunningTotal
<1>3. Total(d, n + 1) = t[n + 1] /\ Total(d, n) = t[n]
  BY <1>1, <1>2, TotalIsLast
<1> QED BY <1>1, <1>3 DEF IsRunningTotal

\* A running total of integers is an integer everywhere.
LEMMA RunningTotalType ==
    ASSUME NEW n \in Nat, NEW d \in [1..n -> Int], NEW t,
           IsRunningTotal(t, d, n)
    PROVE  t \in [0..n -> Int]
<1> DEFINE Bad == {i \in 0..n : t[i] \notin Int}
<1>1. CASE Bad # {}
  <2>1. PICK m \in Bad : \A k \in Bad : m <= k
    <3>1. Bad \subseteq Nat
      OBVIOUS
    <3> HIDE DEF Bad
    <3> QED BY <1>1, <3>1, LeastElement
  <2>2. m \in 0..n /\ t[m] \notin Int
    BY <2>1
  <2>3. m # 0
    BY <2>2 DEF IsRunningTotal
  <2>4. m - 1 \in 0..n /\ m - 1 \notin Bad
    BY <2>1, <2>2, <2>3
  <2>5. t[m - 1] \in Int /\ d[m] \in Int
    BY <2>2, <2>3, <2>4
  <2>6. t[m] = t[m - 1] + d[m]
    BY <2>2, <2>3 DEF IsRunningTotal
  <2> QED BY <2>2, <2>5, <2>6
<1>2. CASE Bad = {}
  BY <1>2 DEF IsRunningTotal
<1> QED BY <1>1, <1>2

LEMMA TotalType ==
    ASSUME NEW n \in Nat, NEW d \in [1..n -> Int]
    PROVE  Total(d, n) \in Int
<1>1. PICK t : IsRunningTotal(t, d, n)
  BY RunningTotalExists
<1> QED BY <1>1, RunningTotalType, TotalIsLast

\* Replacing summand k by v moves the total by v - d[k].
LEMMA TotalUpdate ==
    ASSUME NEW n \in Nat, NEW d \in [1..n -> Int], NEW k \in 1..n, NEW v \in Int
    PROVE  Total([d EXCEPT ![k] = v], n) = Total(d, n) - d[k] + v
<1> DEFINE e == [d EXCEPT ![k] = v]
<1>1. PICK t : IsRunningTotal(t, d, n)
  BY RunningTotalExists
<1>2. t \in [0..n -> Int]
  BY <1>1, RunningTotalType
<1> DEFINE u == [i \in 0..n |-> IF k <= i THEN t[i] - d[k] + v ELSE t[i]]
<1>3. IsRunningTotal(u, e, n)
  <2>1. ASSUME NEW i \in 0..n
        PROVE  u[i] = IF i = 0 THEN 0 ELSE u[i - 1] + e[i]
    <3>1. CASE i = 0
      BY <1>1, <3>1 DEF IsRunningTotal
    <3>2. CASE i # 0
      <4>1. t[i] = t[i - 1] + d[i] /\ t[i - 1] \in Int /\ d[i] \in Int /\ d[k] \in Int
        BY <1>1, <1>2, <3>2 DEF IsRunningTotal
      <4>2. CASE i = k
        BY <3>2, <4>1, <4>2
      <4>3. CASE i < k
        BY <3>2, <4>1, <4>3
      <4>4. CASE i > k
        BY <3>2, <4>1, <4>4, SMTT(30)
      <4> QED BY <4>2, <4>3, <4>4
    <3> QED BY <3>1, <3>2
  <2> QED BY <2>1 DEF IsRunningTotal
<1>4. Total(e, n) = u[n] /\ Total(d, n) = t[n]
  <2> HIDE DEF u, e
  <2> QED BY <1>1, <1>3, TotalIsLast
<1> QED BY <1>2, <1>4

\* Summands that are not negative add up to at least each of them.
LEMMA TotalBounds ==
    ASSUME NEW n \in Nat, NEW d \in [1..n -> Int], \A i \in 1..n : d[i] >= 0
    PROVE  /\ Total(d, n) >= 0
           /\ \A k \in 1..n : Total(d, n) >= d[k]
<1>1. PICK t : IsRunningTotal(t, d, n)
  BY RunningTotalExists
<1>2. t \in [0..n -> Int]
  BY <1>1, RunningTotalType
<1> DEFINE Low(i) == t[i] < 0 \/ \E k \in 1..i : t[i] < d[k]
           Bad == {i \in 0..n : Low(i)}
<1>3. CASE Bad # {}
  <2>1. PICK m \in Bad : \A k \in Bad : m <= k
    <3>1. Bad \subseteq Nat
      OBVIOUS
    <3> HIDE DEF Bad
    <3> QED BY <1>3, <3>1, LeastElement
  <2>2. m \in 0..n /\ Low(m)
    BY <2>1
  <2>3. m # 0
    BY <1>1, <2>2 DEF IsRunningTotal
  <2>4. m - 1 \in 0..n /\ ~ Low(m - 1)
    BY <2>1, <2>2, <2>3
  <2>5. t[m] = t[m - 1] + d[m] /\ d[m] >= 0 /\ t[m - 1] \in Int /\ d[m] \in Int
    BY <1>1, <1>2, <2>2, <2>3 DEF IsRunningTotal
  <2>6. \A k \in 1..m : d[k] \in Int /\ (k # m => k \in 1..(m - 1))
    BY <2>2
  <2>7. t[m - 1] >= 0 /\ t[m] >= 0 /\ t[m] >= t[m - 1] /\ t[m] >= d[m]
    BY <2>4, <2>5
  <2>8. ASSUME NEW k \in 1..m, k # m
        PROVE  t[m] >= d[k]
    <3>1. ~ (t[m - 1] < d[k])
      BY <2>4, <2>6, <2>8
    <3> QED BY <2>5, <2>6, <2>7, <3>1
  <2> QED BY <2>2, <2>5, <2>6, <2>7, <2>8
<1>4. CASE Bad = {}
  <2>1. ~ Low(n)
    BY <1>4
  <2> QED BY <1>1, <1>2, <2>1, TotalIsLast
<1> QED BY <1>3, <1>4
=============================================================================
