----------------------------- MODULE BalanceCache -----------------------------
(***************************************************************************)
(* The balance cache of wallet.service.ts for one user and one currency:   *)
(* two keys in Redis, "all" for user:balances:<user> (getUserBalances) and *)
(* "one" for balance:<user>:<currency> (getUserBalance), each filled by    *)
(* the reads that miss it and deleted by some of the services that change  *)
(* the wallet.                                                             *)
(*                                                                         *)
(* The wallet is the number of its commits.  A credit deletes both keys, a *)
(* crypto withdrawal the key "all" only, a TRY withdrawal neither.         *)
(***************************************************************************)
EXTENDS Naturals, FiniteSets

CONSTANTS Calls,    \* requests that can be in progress at once
          Life,     \* CACHE_TTL and BALANCE_CACHE_TTL
          MaxDelay, \* longest time from the query to the SETEX of one read
          MaxTime,  \* bound on the clock
          Scenarios \* how many requests in all (a bound), how many at a time

VARIABLES
    scenario, started, now,
    wallet,   \* commits so far: the balance's version
    replaced, \* history: when version v stopped being the balance
    cache,    \* the two keys
    pc, mem,  \* the calls and what they remember
    due,      \* history: the version whose writer has invalidated the key
    served    \* history: the last answer

vars == <<scenario, started, now, wallet, replaced, cache, pc, mem, due, served>>

Keys == {"all", "one"}
Writers == {"credit", "crypto", "try"}
PC == {"idle", "find", "store", "deleteAll", "listKeys", "deleteOne"}
Nothing == [key |-> "all", version |-> 0, at |-> 0, writer |-> "try"]
NoEntry == [version |-> 0, until |-> 0]

TypeOK ==
    /\ now \in 1..MaxTime /\ started \in 0..scenario.calls
    /\ wallet \in 0..scenario.calls
    /\ DOMAIN replaced = 0..(wallet - 1)
    /\ cache \in [Keys -> [version : 0..wallet, until : 0..(MaxTime + Life)]]
    /\ pc \in [Calls -> PC]
    /\ \A c \in Calls : mem[c].version \in 0..wallet
    /\ due \in [Keys -> 0..wallet]

Init ==
    /\ scenario \in Scenarios
    /\ started = 0 /\ now = 1
    /\ wallet = 0 /\ replaced = [v \in {} |-> 0]
    /\ cache = [k \in Keys |-> NoEntry]
    /\ pc = [c \in Calls |-> "idle"]
    /\ mem = [c \in Calls |-> Nothing]
    /\ due = [k \in Keys |-> 0]
    /\ served = [version |-> 0, due |-> 0, age |-> 0]

Goto(c, l) == pc' = [pc EXCEPT ![c] = l]
Return(c) == Goto(c, "idle") /\ mem' = [mem EXCEPT ![c] = Nothing]

MayBegin(c) ==
    /\ pc[c] = "idle"
    /\ Cardinality({d \in Calls : pc[d] # "idle"}) < scenario.width
    /\ started < scenario.calls
    /\ started' = started + 1

\* The answer is version v, which stopped being the balance some time ago.
Serve(k, v) ==
    served' = [version |-> v, due |-> due[k],
               age |-> IF v = wallet THEN 0 ELSE now - replaced[v]]

Cached(k) == now < cache[k].until

-----------------------------------------------------------------------------
(* getUserBalances (k = "all") and getUserBalance (k = "one")              *)

Hit(c, k) ==
    /\ MayBegin(c) /\ Cached(k)
    /\ Serve(k, cache[k].version)
    /\ UNCHANGED <<scenario, now, wallet, replaced, cache, pc, mem, due>>

Miss(c, k) ==
    /\ MayBegin(c) /\ ~Cached(k)
    /\ Goto(c, "find")
    /\ mem' = [mem EXCEPT ![c].key = k]
    /\ UNCHANGED <<scenario, now, wallet, replaced, cache, due, served>>

Find(c) ==
    /\ pc[c] = "find"
    /\ mem' = [mem EXCEPT ![c].version = wallet, ![c].at = now]
    /\ Goto(c, "store")
    /\ UNCHANGED <<scenario, started, now, wallet, replaced, cache, due, served>>

\* Fault: the entry is stored without a time to live.
StoreForever(c) ==
    /\ pc[c] = "store"
    /\ cache' = [cache EXCEPT ![mem[c].key] =
                   [version |-> mem[c].version, until |-> MaxTime + Life]]
    /\ Serve(mem[c].key, mem[c].version)
    /\ Return(c)
    /\ UNCHANGED <<scenario, started, now, wallet, replaced, due>>

\* What was read is stored, whatever was deleted meanwhile.
Store(c) ==
    /\ pc[c] = "store"
    /\ cache' = [cache EXCEPT ![mem[c].key] =
                   [version |-> mem[c].version, until |-> now + Life]]
    /\ Serve(mem[c].key, mem[c].version)
    /\ Return(c)
    /\ UNCHANGED <<scenario, started, now, wallet, replaced, due>>

-----------------------------------------------------------------------------
(* The services that change the wallet                                     *)

Commit(c, w) ==
    /\ MayBegin(c)
    /\ wallet' = wallet + 1
    /\ replaced' = [v \in 0..wallet |-> IF v = wallet THEN now ELSE replaced[v]]
    /\ IF w = "try"
       THEN UNCHANGED <<pc, mem>>
       ELSE /\ Goto(c, "deleteAll")
            /\ mem' = [mem EXCEPT ![c].version = wallet', ![c].writer = w]
    /\ UNCHANGED <<scenario, now, cache, due, served>>

Done(c, keys) ==
    /\ due' = [k \in Keys |-> IF k \in keys /\ due[k] < mem[c].version
                              THEN mem[c].version ELSE due[k]]
    /\ Return(c)

DeleteAll(c) ==
    /\ pc[c] = "deleteAll"
    /\ cache' = [cache EXCEPT !["all"] = NoEntry]
    /\ IF mem[c].writer = "credit"
       THEN Goto(c, "listKeys") /\ UNCHANGED <<mem, due>>
       ELSE Done(c, {"all"})
    /\ UNCHANGED <<scenario, started, now, wallet, replaced, served>>

\* invalidateAllBalances: KEYS, and DEL of the keys it has named.
ListKeys(c) ==
    /\ pc[c] = "listKeys"
    /\ IF Cached("one")
       THEN Goto(c, "deleteOne") /\ UNCHANGED <<mem, due>>
       ELSE Done(c, Keys)
    /\ UNCHANGED <<scenario, started, now, wallet, replaced, cache, served>>

DeleteOne(c) ==
    /\ pc[c] = "deleteOne"
    /\ cache' = [cache EXCEPT !["one"] = NoEntry]
    /\ Done(c, Keys)
    /\ UNCHANGED <<scenario, started, now, wallet, replaced, served>>

-----------------------------------------------------------------------------
\* Redis or the database throws, or the server stops.
Break(c) ==
    /\ pc[c] # "idle"
    /\ Return(c)
    /\ UNCHANGED <<scenario, started, now, wallet, replaced, cache, due, served>>

Tick ==
    /\ now < MaxTime
    /\ \A c \in Calls : pc[c] = "store" => now < mem[c].at + MaxDelay
    /\ now' = now + 1
    /\ UNCHANGED <<scenario, started, wallet, replaced, cache, pc, mem, due, served>>

Next ==
    \/ Tick
    \/ \E c \in Calls :
         \/ \E k \in Keys : Hit(c, k) \/ Miss(c, k)
         \/ Find(c) \/ Store(c)
         \/ \E w \in Writers : Commit(c, w)
         \/ DeleteAll(c) \/ ListKeys(c) \/ DeleteOne(c)
         \/ Break(c)

Spec == Init /\ [][Next]_vars

-----------------------------------------------------------------------------
\* A balance that is shown was the balance less than CACHE_TTL and one read's
\* delay ago, whichever writers forget to invalidate, or break off, or are
\* overtaken by a read that stores what it found before them.  One request at a
\* time, it is at least as new as the last change whose writer has invalidated
\* the key that is read.
ServedIsRecent ==
    /\ served.age < Life + MaxDelay
    /\ scenario.width = 1 => served.version >= served.due
=============================================================================
