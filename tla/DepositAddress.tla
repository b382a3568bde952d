----------------------------- MODULE DepositAddress -----------------------------
(***************************************************************************)
(* The deposit addresses of crypto-deposit.service.ts and                  *)
(* hd-wallet.service.ts: an index is chosen by the largest one in use, the *)
(* address is derived from chain and index, and payments that arrive at it *)
(* are recorded for the user of the row.  Calls interleave at every await. *)
(*                                                                         *)
(* ETH and USDT derive from the same path.  Whether a user's KYC is        *)
(* approved is the auth service's answer: a call that passes may be any    *)
(* user's.  (It is looked for in a field submissionId, which the tests of  *)
(* the wallet service answer and the auth service does not.)               *)
(***************************************************************************)
EXTENDS Integers, FiniteSets, FiniteSetsExt

CONSTANTS Calls,   \* requests that can be in progress at once
          Users,
          MaxCalls \* bound on the requests of a behaviour

VARIABLES
    started,
    rows,     \* blockchain_addresses
    hooks,    \* addresses BlockCypher watches
    pc, mem,  \* the calls and what they remember
    answers,  \* the addresses users were shown
    recorded  \* payments recorded, with the user they were recorded for

vars == <<started, rows, hooks, pc, mem, answers, recorded>>

Currencies == {"BTC", "ETH", "USDT"}
Chain(currency) == IF currency = "BTC" THEN "btc" ELSE "eth"
PC == {"idle", "findMax", "insert", "registerWebhook"}
Row == [user : Users, currency : Currencies, index : Nat]

\* generateBtcAddress, generateEthAddress and generateUsdtAddress
AddressOf(r) == <<Chain(r.currency), r.index>>

TypeOK ==
    /\ started \in 0..MaxCalls
    /\ rows \subseteq Row
    /\ \A r, s \in rows : AddressOf(r) = AddressOf(s) => r = s
    /\ pc \in [Calls -> PC]
    /\ \A c \in Calls : mem[c] \in Row

Nobody == [user |-> CHOOSE u \in Users : TRUE, currency |-> "BTC", index |-> 0]

Init ==
    /\ started = 0
    /\ rows = {} /\ hooks = {} /\ answers = {} /\ recorded = {}
    /\ pc = [c \in Calls |-> "idle"]
    /\ mem = [c \in Calls |-> Nobody]

Goto(c, l) == pc' = [pc EXCEPT ![c] = l]
Return(c) == Goto(c, "idle") /\ mem' = [mem EXCEPT ![c] = Nobody]
Show(r) == answers' = answers \cup {[user |-> r.user, address |-> AddressOf(r)]}

\* A user who has an address gets it again.
GenerateDepositAddress(c, u, currency) ==
    /\ pc[c] = "idle" /\ started < MaxCalls
    /\ started' = started + 1
    /\ LET own == {r \in rows : r.user = u /\ r.currency = currency}
       IN IF own # {}
          THEN (\E r \in own : Show(r)) /\ UNCHANGED <<pc, mem>>
          ELSE /\ Goto(c, "findMax")
               /\ mem' = [mem EXCEPT ![c] =
                            [user |-> u, currency |-> currency, index |-> 0]]
               /\ UNCHANGED answers
    /\ UNCHANGED <<rows, hooks, recorded>>

\* getMaxAddressIndex: no row and a maximum of 0 both give -1.
MaxAddressIndex(currency) ==
    LET used == {r.index : r \in {s \in rows : s.currency = currency}}
    IN IF used = {} \/ Max(used) = 0 THEN -1 ELSE Max(used)

FindMax(c) ==
    /\ pc[c] = "findMax"
    /\ mem' = [mem EXCEPT ![c].index = MaxAddressIndex(mem[c].currency) + 1]
    /\ Goto(c, "insert")
    /\ UNCHANGED <<started, rows, hooks, answers, recorded>>

\* Fault: an address is unique within its currency only.
TakenInCurrency(c) ==
    \E r \in rows : AddressOf(r) = AddressOf(mem[c]) /\ r.currency = mem[c].currency

Taken(c) == \E r \in rows : AddressOf(r) = AddressOf(mem[c])

\* Fault: the user is shown the address before its row is inserted.
ShowBeforeInsert(c) ==
    /\ pc[c] = "insert"
    /\ Show(mem[c])
    /\ IF Taken(c) THEN Return(c) /\ UNCHANGED rows
       ELSE rows' = rows \cup {mem[c]} /\ Goto(c, "registerWebhook") /\ UNCHANGED mem
    /\ UNCHANGED <<started, hooks, recorded>>

\* The unique constraint refuses an address that is taken: the call fails.
Insert(c) ==
    /\ pc[c] = "insert"
    /\ IF Taken(c) THEN Return(c) /\ UNCHANGED rows
       ELSE rows' = rows \cup {mem[c]} /\ Goto(c, "registerWebhook") /\ UNCHANGED mem
    /\ UNCHANGED <<started, hooks, answers, recorded>>

\* registerAddressWebhook: BlockCypher watches the address from now on, or it
\* answers an error, which the caller only logs.
Watched(a) == {hooks, hooks \cup {a}}

\* The address is shown whether or not the webhook could be registered.
RegisterWebhook(c) ==
    /\ pc[c] = "registerWebhook"
    /\ hooks' \in Watched(AddressOf(mem[c]))
    /\ Show(mem[c])
    /\ Return(c)
    /\ UNCHANGED <<started, rows, recorded>>

\* The controller takes every chain but btc for ETH; a payment is recorded for
\* the row with this address and currency, or ignored.
Webhook(a) ==
    /\ a \in hooks
    /\ LET currency == IF a[1] = "btc" THEN "BTC" ELSE "ETH"
           found == {r \in rows : AddressOf(r) = a /\ r.currency = currency}
       IN recorded' = recorded \cup {[user |-> r.user, address |-> a] : r \in found}
    /\ UNCHANGED <<started, rows, hooks, pc, mem, answers>>

Break(c) ==
    /\ pc[c] # "idle"
    /\ Return(c)
    /\ UNCHANGED <<started, rows, hooks, answers, recorded>>

Next ==
    \/ \E c \in Calls :
         \/ \E u \in Users, currency \in Currencies :
              GenerateDepositAddress(c, u, currency)
         \/ FindMax(c) \/ Insert(c) \/ RegisterWebhook(c) \/ Break(c)
    \/ \E a \in hooks : Webhook(a)

Spec == Init /\ [][Next]_vars

-----------------------------------------------------------------------------
\* An address is shown to one user only, and what is paid to it is recorded for
\* that user or for nobody: also when two users ask at once, read the same
\* largest index and derive the same address.
AddressHasOneOwner ==
    \A a, b \in answers \cup recorded : a.address = b.address => a.user = b.user
=============================================================================
