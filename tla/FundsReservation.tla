-------------------------- MODULE FundsReservation --------------------------
(***************************************************************************)
(* What a wallet with withdrawals promises, with every operation in one    *)
(* step.  A request reserves funds once (free to locked) and then either   *)
(* gives them back once (locked to free) or spends them once (locked to    *)
(* gone); credits add to the free part.  The withdrawal services are meant *)
(* to implement this whatever their handlers interleave.                   *)
(***************************************************************************)
EXTENDS RunningTotal

CONSTANTS MaxRequests,   \* requests are numbered 1..MaxRequests
          Claims,        \* what a request may reserve
          Credits,       \* what a credit may add
          InitialFunds

\* What the proofs need of the constants.
ReservationAssumption ==
    /\ MaxRequests \in Nat
    /\ Claims \subseteq Nat \ {0}
    /\ Credits \subseteq Nat \ {0}
    /\ InitialFunds \in Nat

VARIABLES free,     \* spendable balance
          locked,   \* balance set aside for requests
          spent,    \* what left the wallet
          funded,   \* what ever entered the wallet
          claim,    \* claim[r]: what request r reserved
          phase     \* phase[r]: how far request r got

vars == <<free, locked, spent, funded, claim, phase>>

Requests == 1..MaxRequests

Held == [r \in Requests |-> IF phase[r] = "held" THEN claim[r] ELSE 0]

TypeOK ==
    /\ free \in Int
    /\ locked \in Int
    /\ spent \in Int
    /\ funded \in Int
    /\ claim \in [Requests -> Nat]
    /\ phase \in [Requests -> {"unused", "held", "released", "settled"}]

Init ==
    /\ free = InitialFunds
    /\ locked = 0
    /\ spent = 0
    /\ funded = InitialFunds
    /\ claim = [r \in Requests |-> 0]
    /\ phase = [r \in Requests |-> "unused"]

Reserve(r, n) ==
    /\ phase[r] = "unused"
    /\ n <= free
    /\ free' = free - n
    /\ locked' = locked + n
    /\ claim' = [claim EXCEPT ![r] = n]
    /\ phase' = [phase EXCEPT ![r] = "held"]
    /\ UNCHANGED <<spent, funded>>

Release(r) ==
    /\ phase[r] = "held"
    /\ free' = free + claim[r]
    /\ locked' = locked - claim[r]
    /\ phase' = [phase EXCEPT ![r] = "released"]
    /\ UNCHANGED <<spent, funded, claim>>

Settle(r) ==
    /\ phase[r] = "held"
    /\ locked' = locked - claim[r]
    /\ spent' = spent + claim[r]
    /\ phase' = [phase EXCEPT ![r] = "settled"]
    /\ UNCHANGED <<free, funded, claim>>

Credit(n) ==
    /\ free' = free + n
    /\ funded' = funded + n
    /\ UNCHANGED <<locked, spent, claim, phase>>

Next ==
    \/ \E r \in Requests : (\E n \in Claims : Reserve(r, n)) \/ Release(r) \/ Settle(r)
    \/ \E n \in Credits : Credit(n)

Spec == Init /\ [][Next]_vars

-----------------------------------------------------------------------------
\* The locked balance is exactly what the open requests hold, nothing in the
\* wallet is negative, and money is neither created nor lost.
LockedIsHeld == locked = Total(Held, MaxRequests)
Solvent == free >= 0 /\ locked >= 0
Conserved == free + locked + spent = funded

SoundFunds == LockedIsHeld /\ Solvent /\ Conserved
=============================================================================
