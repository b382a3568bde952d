--------------------------- MODULE MatchingEngine ---------------------------
(***************************************************************************)
(* matching_engine.go: the order book of one symbol and the orders that    *)
(* are placed and cancelled in it, one call at a time.  (The architecture  *)
(* document runs "single goroutine per symbol"; two calls at once are a    *)
(* data race, as matching does not take the book's mutex.)                 *)
(*                                                                         *)
(* The matching loops are steps, one per trade and one per price level,    *)
(* because OnTrade and OnOrderUpdate are called in between.  Order ids are *)
(* numbers in the order of placement; a price level is a number too, its   *)
(* index in levels, which stands for its pointer.  Trades leave out the    *)
(* fees, which are constants times price and quantity.                     *)
(***************************************************************************)
EXTENDS Sequences, FiniteSets, Functions, RunningTotal, BinaryHeap

CONSTANTS Prices,     \* limit prices
          Shapes,     \* the orders that may be placed: side, type, tif, price, quantity
          MaxOrders   \* bound on orders ever placed

ASSUME EngineAssumption ==
    /\ Prices \subseteq Nat \ {0}
    /\ MaxOrders \in Nat
    \* what validateOrder lets pass; a market order has no price
    /\ Shapes \subseteq [side : {"BUY", "SELL"}, type : {"LIMIT", "MARKET"},
                         tif : {"GTC", "IOC", "FOK"}, price : Prices \cup {0},
                         quantity : Nat \ {0}]
    /\ \A o \in Shapes : (o.type = "MARKET") <=> (o.price = 0)

VARIABLES
    orders,      \* every order placed, by id: its shape, filled and status
    resting,     \* ids in the map ob.Orders
    levels,      \* every price level made: price, queue of ids, quantity
    levelAt,     \* the map ob.PriceLevels, 0 where it has no entry
    bids, asks,  \* the heap arrays of levels
    trades,      \* what OnTrade was called with, oldest first
    pc,          \* where PlaceOrder is
    taker, level \* its order and the level it works on

book == <<resting, levels, levelAt, bids, asks>>
vars == <<orders, book, trades, pc, taker, level>>

Ids == DOMAIN orders
Status == {"OPEN", "PARTIALLY_FILLED", "FILLED", "CANCELLED"}

TypeOK ==
    /\ orders \in Seq([shape : Shapes, filled : Nat, status : Status])
    /\ resting \subseteq Ids
    /\ levels \in Seq([price : Prices, queue : Seq(Ids), quantity : Int])
    /\ levelAt \in [Prices -> 0..Len(levels)]
    /\ bids \in Seq(DOMAIN levels) /\ asks \in Seq(DOMAIN levels)
    /\ trades \in Seq([taker : Ids, maker : Ids, price : Prices,
                       quantity : Nat \ {0}])
    /\ pc \in {"idle", "match", "fill", "finish"}
    /\ taker \in Ids \cup {0}
    /\ level \in 0..Len(levels)

Init ==
    /\ orders = <<>>
    /\ resting = {}
    /\ levels = <<>>
    /\ levelAt = [p \in Prices |-> 0]
    /\ bids = <<>> /\ asks = <<>>
    /\ trades = <<>>
    /\ pc = "idle"
    /\ taker = 0 /\ level = 0

-----------------------------------------------------------------------------
(* Orders, levels and queues                                               *)

Shape(o) == orders[o].shape

IsMarket(o) == Shape(o).type = "MARKET"

Remaining(o) == Shape(o).quantity - orders[o].filled

Min2(a, b) == IF a <= b THEN a ELSE b

\* Fault: bids are kept lowest price first, too.
LowestFirst(side, p) == p

\* PriceQueue.Less: the lowest ask and the highest bid come first.
Rank(side, p) == IF side = "SELL" THEN p ELSE -p

\* The side of the book an order is matched against.
OppositeSide(o) == IF Shape(o).side = "BUY" THEN "SELL" ELSE "BUY"
Opposite(o) == IF Shape(o).side = "BUY" THEN asks ELSE bids

\* matchLimitOrder's canMatch.
Acceptable(o, price) ==
    IF Shape(o).side = "BUY" THEN Shape(o).price >= price
                              ELSE Shape(o).price <= price

\* Fault: an order is put in front of its price's queue.
JumpQueue(queue, o) == <<o>> \o queue

\* The queue of a price level: first in, first out.
Enqueue(queue, o) == Append(queue, o)

\* The queue without the first entry of o, if it has one.
Dequeue(queue, o) ==
    IF \A i \in DOMAIN queue : queue[i] # o THEN queue
    ELSE LET i == CHOOSE i \in DOMAIN queue :
                     queue[i] = o /\ \A j \in 1..(i - 1) : queue[j] # o
         IN  SubSeq(queue, 1, i - 1) \o SubSeq(queue, i + 1, Len(queue))

-----------------------------------------------------------------------------
(* The order book                                                          *)

\* AddOrder: into the level the map has for the price, or into a new one that
\* is pushed on the heap of the order's side.
AddOrder(o) ==
    LET side == Shape(o).side
        p == Shape(o).price
        k == levelAt[p]
        rank == [i \in DOMAIN levels' |-> Rank(side, levels'[i].price)]
    IN  /\ resting' = resting \cup {o}
        /\ IF k # 0
           THEN /\ levels' = [levels EXCEPT ![k].queue = Enqueue(@, o),
                                            ![k].quantity = @ + Remaining(o)]
                /\ UNCHANGED <<levelAt, bids, asks>>
           ELSE /\ levels' = Append(levels,
                      [price |-> p, queue |-> <<o>>, quantity |-> Remaining(o)])
                /\ levelAt' = [levelAt EXCEPT ![p] = Len(levels')]
                /\ IF side = "BUY"
                   THEN bids' = HeapPush(rank, bids, Len(levels')) /\ UNCHANGED asks
                   ELSE asks' = HeapPush(rank, asks, Len(levels')) /\ UNCHANGED bids

\* RemoveOrder: out of the level the map has for the price, which need not be
\* the one that holds the order.  An emptied level leaves the map and stays in
\* the heap ("Heap cleanup happens during matching").
RemoveOrder(o) ==
    LET p == Shape(o).price
        k == levelAt[p]
    IN  /\ resting' = resting \ {o}
        /\ IF k = 0 THEN UNCHANGED <<levels, levelAt>>
           ELSE LET left == Dequeue(levels[k].queue, o)
                    part == IF left = levels[k].queue THEN 0 ELSE Remaining(o)
                IN  /\ levels' = [levels EXCEPT ![k].queue = left, ![k].quantity = @ - part]
                    /\ levelAt' = [levelAt EXCEPT ![p] = IF left = <<>> THEN 0 ELSE k]
        /\ UNCHANGED <<bids, asks>>

-----------------------------------------------------------------------------
(* PlaceOrder                                                              *)

\* A valid order is taken; STOP orders and invalid ones are refused and leave
\* no trace.
Place(o) ==
    /\ pc = "idle"
    /\ Len(orders) < MaxOrders
    /\ orders' = Append(orders, [shape |-> o, filled |-> 0, status |-> "OPEN"])
    /\ taker' = Len(orders')
    /\ pc' = "match"
    /\ UNCHANGED <<book, trades, level>>

\* The loop over price levels goes on with the best one: for a limit order if
\* its price will do, for a market order unless the level is empty.
HasMatch ==
    LET queue == Opposite(taker)
    IN  /\ Remaining(taker) > 0
        /\ queue # <<>>
        /\ IF IsMarket(taker) THEN levels[queue[1]].queue # <<>>
                              ELSE Acceptable(taker, levels[queue[1]].price)

EnterLevel ==
    /\ pc = "match"
    /\ HasMatch
    /\ level' = Opposite(taker)[1]
    /\ pc' = "fill"
    /\ UNCHANGED <<orders, book, trades, taker>>

EndMatching ==
    /\ pc = "match"
    /\ ~ HasMatch
    /\ pc' = "finish"
    /\ UNCHANGED <<orders, book, trades, taker, level>>

\* Fault: the incoming order takes all it wants from the first order.
TakeAll(maker) == Remaining(taker)

\* What an incoming order gets from a resting one.
FillQuantity(maker) == Min2(Remaining(taker), Remaining(maker))

\* One round of the loop over a level's orders: a trade at the level's price
\* with the first of them.  A filled order leaves level and book; the level's
\* quantity is then reduced by what remains of it, which is nothing.
Fill ==
    LET maker == levels[level].queue[1]
        n == FillQuantity(maker)
        filled == orders[maker].filled + n = Shape(maker).quantity
    IN  /\ pc = "fill"
        /\ levels[level].queue # <<>>
        /\ Remaining(taker) > 0
        /\ trades' = Append(trades,
              [taker |-> taker, maker |-> maker, price |-> levels[level].price, quantity |-> n])
        /\ orders' = [orders EXCEPT
              ![taker].filled = @ + n,
              ![maker].filled = @ + n,
              ![maker].status = IF filled THEN "FILLED" ELSE "PARTIALLY_FILLED"]
        /\ IF filled
           THEN /\ levels' = [levels EXCEPT ![level].queue = Dequeue(@, maker)]
                /\ resting' = resting \ {maker}
           ELSE /\ levels' = [levels EXCEPT ![level].quantity = @ - n]
                /\ UNCHANGED resting
        /\ UNCHANGED <<levelAt, bids, asks, pc, taker, level>>

\* Fault: an emptied level is taken out of the map only.
KeepInHeap(heap) == heap

\* heap.Pop of the side that is matched against.
PopLevel(heap) ==
    HeapPop([i \in DOMAIN levels |-> Rank(OppositeSide(taker), levels[i].price)], heap)

\* The loop over a level's orders ends.  An empty level is popped, and the map
\* forgets its price, whatever level it had there.
LeaveLevel ==
    /\ pc = "fill"
    /\ levels[level].queue = <<>> \/ Remaining(taker) = 0
    /\ IF levels[level].queue # <<>> THEN UNCHANGED <<levelAt, bids, asks>>
       ELSE /\ levelAt' = [levelAt EXCEPT ![levels[level].price] = 0]
            /\ IF OppositeSide(taker) = "BUY"
               THEN bids' = PopLevel(bids) /\ UNCHANGED asks
               ELSE asks' = PopLevel(asks) /\ UNCHANGED bids
    /\ level' = 0
    /\ pc' = "match"
    /\ UNCHANGED <<orders, resting, levels, trades, taker>>

\* Fill or kill, and PlaceOrder returns an error: for a market order after any
\* trades it had, for a limit order only if it had none.
IsKilled(o) ==
    /\ Remaining(o) > 0
    /\ Shape(o).tif = "FOK"
    /\ IsMarket(o) \/ orders[o].filled = 0

\* What is left of a limit order rests in the book, unless it is immediate or
\* cancel; a fill or kill order that was filled in part rests, too.
Rests(o) ==
    /\ Remaining(o) > 0
    /\ ~ IsMarket(o) /\ Shape(o).tif # "IOC"
    /\ ~ IsKilled(o)

\* Fault: an order that was filled completely is given the wallet's status.
CompletedStatus(o) ==
    IF Remaining(o) = 0 THEN "COMPLETED"
    ELSE IF orders[o].filled > 0 /\ ~ IsKilled(o) THEN "PARTIALLY_FILLED"
    ELSE "OPEN"

\* An error leaves the status at OPEN, and so does an order without a trade.
FinalStatus(o) ==
    IF Remaining(o) = 0 THEN "FILLED"
    ELSE IF orders[o].filled > 0 /\ ~ IsKilled(o) THEN "PARTIALLY_FILLED"
    ELSE "OPEN"

Finish ==
    /\ pc = "finish"
    /\ orders' = [orders EXCEPT ![taker].status = FinalStatus(taker)]
    /\ IF Rests(taker) THEN AddOrder(taker) ELSE UNCHANGED book
    /\ taker' = 0
    /\ pc' = "idle"
    /\ UNCHANGED <<trades, level>>

-----------------------------------------------------------------------------
(* CancelOrder                                                             *)

\* Fault: the order is marked and stays in the book.
MarkCancelled(o) ==
    /\ pc = "idle"
    /\ o \in resting
    /\ orders' = [orders EXCEPT ![o].status = "CANCELLED"]
    /\ UNCHANGED <<book, trades, pc, taker, level>>

\* An order that is in the book and open.
Cancel(o) ==
    /\ pc = "idle"
    /\ o \in resting
    /\ orders[o].status \in {"OPEN", "PARTIALLY_FILLED"}
    /\ RemoveOrder(o)
    /\ orders' = [orders EXCEPT ![o].status = "CANCELLED"]
    /\ UNCHANGED <<trades, pc, taker, level>>

-----------------------------------------------------------------------------

Match == EnterLevel \/ Fill \/ LeaveLevel \/ EndMatching \/ Finish

Next ==
    \/ \E o \in Shapes : Place(o)
    \/ Match
    \/ \E o \in Ids : Cancel(o)

Spec == Init /\ [][Next]_vars

\* A call that runs is not stopped half-way.
FairSpec == Spec /\ WF_vars(Match)

-----------------------------------------------------------------------------
(* Properties                                                              *)

Heap(side) == IF side = "BUY" THEN bids ELSE asks

\* The levels that a side's heap holds.
InHeap(side) == Range(Heap(side))

\* Where order o waits: a level of its side's heap, and a place in its queue.
Places(o) ==
    {w \in UNION {{k} \X DOMAIN levels[k].queue : k \in InHeap(Shape(o).side)} :
        levels[w[1]].queue[w[2]] = o}

\* Every order that the book lists waits at exactly one place, at its own price
\* and on its own side, and there is something left of it to trade: stale
\* levels in the heap and levels that the map has forgotten lose no order.
RestingIsBooked ==
    \A o \in resting :
        /\ Cardinality(Places(o)) = 1
        /\ \A w \in Places(o) : levels[w[1]].price = Shape(o).price
        /\ orders[o].status \in {"OPEN", "PARTIALLY_FILLED"}
        /\ Remaining(o) > 0

TradedIn(o) ==
    [i \in DOMAIN trades |->
        IF trades[i].taker = o \/ trades[i].maker = o THEN trades[i].quantity ELSE 0]

\* No order ever trades more than it asked for, and what it counts as filled is
\* what the trades it took part in, as taker or later as maker, add up to.
NeverOverfilled ==
    \A o \in Ids :
        /\ orders[o].filled = Total(TradedIn(o), Len(trades))
        /\ orders[o].filled <= Shape(o).quantity
        /\ orders[o].status = "FILLED" => Remaining(o) = 0

NoneCancelled == \A o \in Ids : orders[o].status # "CANCELLED"

\* The orders on the other side that order o could trade with.
Counterparts(o) ==
    {m \in resting : /\ Shape(m).side = OppositeSide(o)
                     /\ IsMarket(o) \/ Acceptable(o, Shape(m).price)}

\* For order o, m's price is better than n's.
Better(o, m, n) ==
    IF Shape(o).side = "BUY" THEN Shape(m).price < Shape(n).price
                             ELSE Shape(m).price > Shape(n).price

\* Price-time priority: a trade is with an order that no resting order of its
\* side beats by its price or, as long as nothing was cancelled, at the same
\* price by its age; it is at that order's price, which the limit accepts.
\* ("Price-Time Priority", "Highest bid first", "First-In-First-Out (FIFO)".)
PriceTimePriority ==
    [][Len(trades') > Len(trades) =>
          LET t == trades'[Len(trades')]
              rivals == {m \in resting : Shape(m).side = OppositeSide(t.taker)}
          IN  /\ Shape(t.maker).side = OppositeSide(t.taker)
              /\ t.price = Shape(t.maker).price
              /\ IsMarket(t.taker) \/ Acceptable(t.taker, t.price)
              /\ \A m \in rivals : ~ Better(t.taker, m, t.maker)
              /\ NoneCancelled =>
                    \A m \in rivals :
                        Shape(m).price = Shape(t.maker).price => t.maker <= m]_vars

\* An order is left with an unfilled rest only when no resting order can take
\* it.  (For a market order, as long as nothing was cancelled: a cancelled level
\* on top of the heap ends its matching.)
NothingLeftToMatch ==
    [][pc = "finish" /\ Remaining(taker) > 0 =>
          \/ Counterparts(taker) = {}
          \/ IsMarket(taker) /\ ~ NoneCancelled]_vars

\* Every order placed is answered: the matching loops end.
EveryOrderIsAnswered == pc = "match" ~> pc = "idle"

\* A cancelled order does not trade any more.  (matching_engine_test.go: "Order
\* should be removed from order book".)
CancelledNeverTrades ==
    [][\A o \in Ids :
          orders[o].status = "CANCELLED" => orders'[o].filled = orders[o].filled]_vars
=============================================================================
