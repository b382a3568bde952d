---------------------------- MODULE RunningTotal ----------------------------
(***************************************************************************)
(* The sum of an integer function over 1..n, as the last value of its      *)
(* running total.  It stands for the sums a database would compute with    *)
(* SELECT SUM(...): the money a set of requests holds, the movements of a  *)
(* ledger.  It is a recursive function and not a RECURSIVE operator, so    *)
(* that modules with proofs can use it.                                    *)
(***************************************************************************)
EXTENDS Integers

\* t is the running total of d over 1..n.
IsRunningTotal(t, d, n) ==
    t = [i \in 0..n |-> IF i = 0 THEN 0 ELSE t[i - 1] + d[i]]

Total(d, n) ==
    LET t[i \in 0..n] == IF i = 0 THEN 0 ELSE t[i - 1] + d[i]
    IN  t[n]
=============================================================================
