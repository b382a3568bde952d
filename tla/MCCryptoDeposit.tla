--------------------------- MODULE MCCryptoDeposit ---------------------------
(***************************************************************************)
(* CryptoDeposit for TLC: transactions that pay different amounts, so that *)
(* a credit of the wrong one shows.                                        *)
(***************************************************************************)
EXTENDS CryptoDeposit, TLC

CONSTANTS h1, h2, first, second   \* and how often the event of each comes

MCHashes == {h1, h2}
MCAmountOf == (h1 :> 3) @@ (h2 :> 5)
MCMaxDeliveries == (h1 :> first) @@ (h2 :> second)
=============================================================================
