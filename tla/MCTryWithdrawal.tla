--------------------------- MODULE MCTryWithdrawal ---------------------------
(***************************************************************************)
(* TryWithdrawal for TLC, with the service's own limits and fee.           *)
(***************************************************************************)
EXTENDS TryWithdrawal

\* One amount below the minimum, two valid ones, one above the maximum.  With
\* 310 TRY two requests of 100 fit; after one of 205 there is enough for another
\* of 100 but not for its fee, and the other way round.
MCAmounts == {99, 100, 205, 50001}
=============================================================================
