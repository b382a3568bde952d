-------------------------- MODULE MCMatchingEngine --------------------------
(***************************************************************************)
(* MatchingEngine for TLC: two prices and two quantities.  Resting orders  *)
(* of either size at either price on both sides, so that levels are        *)
(* emptied, split and made again, and orders of every kind that take them. *)
(***************************************************************************)
EXTENDS MatchingEngine

MCPrices == {1, 2}

Order(side, type, tif, price, quantity) ==
    [side |-> side, type |-> type, tif |-> tif, price |-> price, quantity |-> quantity]

MCShapes ==
    {Order("BUY", "LIMIT", "GTC", 1, 2), Order("BUY", "LIMIT", "GTC", 2, 1),
     Order("BUY", "LIMIT", "IOC", 2, 2), Order("BUY", "MARKET", "GTC", 0, 1),
     Order("SELL", "LIMIT", "GTC", 1, 1), Order("SELL", "LIMIT", "GTC", 2, 2),
     Order("SELL", "LIMIT", "FOK", 1, 2), Order("SELL", "MARKET", "FOK", 0, 2)}
=============================================================================
