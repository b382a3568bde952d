----------------------- MODULE FundsReservationProofs -----------------------
(***************************************************************************)
(* The promise is kept for every number of requests and every amount.      *)
(***************************************************************************)
EXTENDS FundsReservation, RunningTotalProofs

IInv == TypeOK /\ SoundFunds

\* Changing the phase or claim of one request changes one summand of Held.
LEMMA HeldUpdate ==
    ASSUME TypeOK, TypeOK', NEW r \in Requests, NEW v \in Int,
           Held' = [Held EXCEPT ![r] = v], MaxRequests \in Nat
    PROVE  /\ Total(Held, MaxRequests) \in Int
           /\ Held[r] \in Int
           /\ Total(Held, MaxRequests)' = Total(Held, MaxRequests) - Held[r] + v
<1>1. Held \in [1..MaxRequests -> Int]
  BY DEF Held, Requests, TypeOK
<1>2. Total([Held EXCEPT ![r] = v], MaxRequests) = Total(Held, MaxRequests) - Held[r] + v
  <2> HIDE DEF Held
  <2> QED BY <1>1, TotalUpdate DEF Requests
<1>3. Total(Held, MaxRequests)' = Total(Held', MaxRequests)
  OBVIOUS
<1>4. Total(Held, MaxRequests) \in Int /\ Held[r] \in Int
  <2> HIDE DEF Held
  <2> QED BY <1>1, TotalType DEF Requests
<1> QED BY <1>2, <1>3, <1>4

LEMMA InitIInv ==
    ASSUME ReservationAssumption, Init
    PROVE  IInv
<1>1. TypeOK
  BY DEF ReservationAssumption, Init, TypeOK
<1>2. Held \in [1..MaxRequests -> Int] /\ \A r \in 1..MaxRequests : Held[r] = 0
  BY DEF Init, Held, Requests
<1>3. Total(Held, MaxRequests) = 0
  <2> DEFINE zero == [r \in 1..MaxRequests |-> 0]
  <2> DEFINE t == [i \in 0..MaxRequests |-> 0]
  <2>1. IsRunningTotal(t, zero, MaxRequests)
    BY DEF IsRunningTotal, ReservationAssumption
  <2>2. Total(zero, MaxRequests) = 0
    <3>1. t[MaxRequests] = 0
      BY DEF ReservationAssumption
    <3> HIDE DEF zero, t
    <3> QED BY <2>1, <3>1, TotalIsLast DEF ReservationAssumption
  <2>3. Held = zero
    BY DEF Init, Held, Requests
  <2> QED BY <2>2, <2>3
<1> QED
  BY <1>1, <1>3 DEF ReservationAssumption, Init, IInv, SoundFunds, LockedIsHeld, Solvent, Conserved

\* Every step keeps the wallet sound.
LEMMA NextIInv ==
    ASSUME ReservationAssumption, IInv, [Next]_vars
    PROVE  IInv'
<1> USE DEF ReservationAssumption, IInv, SoundFunds, LockedIsHeld, Solvent, Conserved
<1>1. ASSUME NEW r \in Requests, NEW n \in Claims, Reserve(r, n)
      PROVE  IInv'
  <2>1. TypeOK'
    BY <1>1 DEF TypeOK, Reserve
  <2>2. Held' = [Held EXCEPT ![r] = n] /\ Held[r] = 0
    BY <1>1 DEF TypeOK, Reserve, Held
  <2>3. Total(Held, MaxRequests)' = Total(Held, MaxRequests) + n
    <3>1. n \in Int
      OBVIOUS
    <3>2. MaxRequests \in Nat /\ TypeOK
      OBVIOUS
    <3>3. /\ Total(Held, MaxRequests) \in Int
          /\ Held[r] \in Int
          /\ Total(Held, MaxRequests)' = Total(Held, MaxRequests) - Held[r] + n
      BY <2>1, <2>2, <3>1, <3>2, HeldUpdate
    <3> QED BY <2>2, <3>1, <3>3
  <2> QED BY <1>1, <2>1, <2>3 DEF TypeOK, Reserve
<1>2. ASSUME NEW r \in Requests, NEW p \in {"released", "settled"},
             phase[r] = "held", phase' = [phase EXCEPT ![r] = p], claim' = claim,
             locked' = locked - claim[r], funded' = funded,
             free' \in Int, free' >= 0, spent' \in Int,
             free' + locked' + spent' = free + locked + spent
      PROVE  IInv'
  <2>0. TypeOK /\ MaxRequests \in Nat /\ 0 \in Int /\ claim[r] \in Int
    BY DEF TypeOK
  <2>1. TypeOK'
    BY <1>2 DEF TypeOK
  <2>2. Held' = [Held EXCEPT ![r] = 0] /\ Held[r] = claim[r]
    BY <1>2 DEF TypeOK, Held
  <2>3. Total(Held, MaxRequests)' = Total(Held, MaxRequests) - claim[r]
    <3>1. /\ Total(Held, MaxRequests) \in Int
          /\ Total(Held, MaxRequests)' = Total(Held, MaxRequests) - Held[r] + 0
      BY <2>0, <2>1, <2>2, HeldUpdate
    <3> QED BY <2>0, <2>2, <3>1
  <2>4. Total(Held, MaxRequests) >= claim[r]
    <3>1. Held \in [1..MaxRequests -> Int] /\ \A i \in 1..MaxRequests : Held[i] >= 0
      BY DEF TypeOK, Held, Requests
    <3> HIDE DEF Held
    <3> QED BY <2>2, <3>1, TotalBounds DEF Requests
  <2> QED BY <1>2, <2>0, <2>1, <2>3, <2>4 DEF TypeOK
<1>3. ASSUME NEW r \in Requests, Release(r)
      PROVE  IInv'
  <2>1. claim[r] \in Nat /\ free \in Int /\ locked \in Int /\ spent \in Int
    BY <1>3 DEF TypeOK
  <2>2. /\ free' \in Int /\ free' >= 0
        /\ free' + locked' + spent' = free + locked + spent
    BY <1>3, <2>1 DEF Release
  <2>3. /\ phase[r] = "held" /\ phase' = [phase EXCEPT ![r] = "released"]
        /\ claim' = claim /\ locked' = locked - claim[r]
        /\ funded' = funded /\ spent' \in Int
    BY <1>3, <2>1 DEF Release
  <2> QED BY <1>2, <2>2, <2>3
<1>4. ASSUME NEW r \in Requests, Settle(r)
      PROVE  IInv'
  <2>1. claim[r] \in Nat /\ free \in Int /\ locked \in Int /\ spent \in Int
    BY <1>4 DEF TypeOK
  <2>2. /\ free' \in Int /\ free' >= 0
        /\ free' + locked' + spent' = free + locked + spent
    BY <1>4, <2>1 DEF Settle
  <2>3. /\ phase[r] = "held" /\ phase' = [phase EXCEPT ![r] = "settled"]
        /\ claim' = claim /\ locked' = locked - claim[r]
        /\ funded' = funded /\ spent' \in Int
    BY <1>4, <2>1 DEF Settle
  <2> QED BY <1>2, <2>2, <2>3
<1>5. ASSUME NEW n \in Credits, Credit(n)
      PROVE  IInv'
  <2>1. TypeOK' /\ Held' = Held
    BY <1>5 DEF TypeOK, Credit, Held
  <2> QED BY <1>5, <2>1 DEF TypeOK, Credit
<1>6. CASE UNCHANGED vars
  <2>1. TypeOK' /\ Held' = Held
    BY <1>6 DEF vars, TypeOK, Held
  <2> QED BY <1>6, <2>1 DEF vars
<1> QED BY <1>1, <1>3, <1>4, <1>5, <1>6 DEF Next

\* The locked balance is always what the open requests hold, no balance goes
\* negative and no money appears or disappears.
THEOREM ReservationIsSound ==
    ASSUME ReservationAssumption
    PROVE  Spec => []SoundFunds
<1>1. Init => IInv
  BY InitIInv
<1>2. IInv /\ [Next]_vars => IInv'
  BY NextIInv
<1>3. IInv => SoundFunds
  BY DEF IInv
<1> QED BY <1>1, <1>2, <1>3, PTL DEF Spec
=============================================================================
