------------------------- MODULE MCCryptoWithdrawal -------------------------
(***************************************************************************)
(* CryptoWithdrawal for TLC.                                               *)
(***************************************************************************)
EXTENDS CryptoWithdrawal

\* One amount an admin has to approve and one that is processed on its own.
\* Fees included, the balance covers two of the small one or one of the large one;
\* after one of the small one it covers the large one without its fee.
MCAmounts == {10, 20}
=============================================================================
