------------------------------ MODULE HotWallet ------------------------------
(***************************************************************************)
(* The way of a withdrawal from the platform's hot wallets to a network:   *)
(* the address and amount checks of the request, then what signTransaction *)
(* and broadcastTransaction of withdrawal-processing.service.ts make of    *)
(* transaction-signing.service.ts and blockchain-broadcasting.service.ts.  *)
(* CryptoWithdrawal has the wallet rows; this module has the transactions. *)
(*                                                                         *)
(* Withdrawals are processed concurrently and share the wallets' keys.     *)
(* Every account transaction is signed with nonce 0, and every Bitcoin     *)
(* transaction with no inputs: both are TODOs of the source.               *)
(***************************************************************************)
EXTENDS Sequences, FiniteSets, RunningTotal

CONSTANTS Withdrawals,
          Amounts,    \* amounts asked for, in the finest unit (8 decimals)
          Minimum, Maximum,
          Coarse,     \* finest units per unit of the USDT contract (6 decimals)
          MaxRetries, \* WITHDRAWAL_MAX_RETRIES
          Scenarios   \* which keys and providers are configured

VARIABLES
    scenario,
    stage, asked, \* the withdrawals, and what was requested
    signed,       \* the transaction each one has signed
    tries,        \* attempts to broadcast it that have failed
    hash,         \* crypto_withdrawal_requests.transaction_hash
    pool, mined   \* the network: transactions it holds, and has in blocks

vars == <<scenario, stage, asked, signed, tries, hash, pool, mined>>

Currencies == {"BTC", "ETH", "USDT"}
Networks == {"none", "testnet", "ERC20", "TRC20"}
Addresses == {"bc1", "tb1", "0x", "T"}
Stage == {"new", "sign", "broadcast", "BROADCASTED", "FAILED"}
NoRequest == [currency |-> "ETH", network |-> "none", to |-> "0x", amount |-> 0]

\* A transaction is known by its content: signatures are deterministic.
NoHash == [key |-> "none", nonce |-> 0, to |-> "none", units |-> 0]
Simulated == [NoHash EXCEPT !.key = "zeroes"]
Transaction == [key : Currencies, nonce : {0}, to : Addresses, units : Nat]

TypeOK ==
    /\ stage \in [Withdrawals -> Stage]
    /\ \A w \in Withdrawals :
         /\ asked[w].currency \in Currencies /\ asked[w].network \in Networks
         /\ signed[w] \in Transaction \cup {NoHash}
         /\ hash[w] \in Transaction \cup {NoHash, Simulated}
    /\ tries \in [Withdrawals -> 0..MaxRetries]
    /\ pool \subseteq Transaction /\ mined \subseteq Transaction

Init ==
    /\ scenario \in Scenarios
    /\ stage = [w \in Withdrawals |-> "new"]
    /\ asked = [w \in Withdrawals |-> NoRequest]
    /\ signed = [w \in Withdrawals |-> NoHash]
    /\ tries = [w \in Withdrawals |-> 0]
    /\ hash = [w \in Withdrawals |-> NoHash]
    /\ pool = {} /\ mined = {}

Goto(w, l) == stage' = [stage EXCEPT ![w] = l]

-----------------------------------------------------------------------------
(* address-validation.service.ts and fee-calculation.service.ts            *)

ValidBitcoin(to, network) == to = IF network = "testnet" THEN "tb1" ELSE "bc1"
ValidEthereum(to) == to = "0x"
ValidTron(to) == to = "T"
ValidUsdt(to, network) ==
    \/ network \in {"none", "ERC20"} /\ ValidEthereum(to)
    \/ network = "TRC20" /\ ValidTron(to)

ValidAddress(r) ==
    CASE r.currency = "BTC" -> ValidBitcoin(r.to, r.network)
      [] r.currency = "ETH" -> ValidEthereum(r.to)
      [] r.currency = "USDT" -> ValidUsdt(r.to, r.network)

ValidAmount(amount) == Minimum <= amount /\ amount <= Maximum

\* The network that was asked for is not a column of the request.
Create(w, r) ==
    /\ stage[w] = "new" /\ ValidAddress(r) /\ ValidAmount(r.amount)
    /\ asked' = [asked EXCEPT ![w] = r]
    /\ Goto(w, "sign")
    /\ UNCHANGED <<scenario, signed, tries, hash, pool, mined>>

-----------------------------------------------------------------------------
(* transaction-signing.service.ts                                          *)

\* parseFloat, times the units, floor: the product may be just below the
\* integer, as 64.1 * 1000000 is, and a unit is lost.
Floored(units) == {units, units - 1}

TxSize(inputs, outputs) == 10 + 68 * inputs + 31 * outputs
Dust == 546

\* The outputs of a Bitcoin transaction that spends utxos, a list of values.
Outputs(units, utxos, feeRate) ==
    LET total == Total(utxos, Len(utxos))
        fee == TxSize(Len(utxos), 2) * feeRate
        change == total - units - fee
    IN [enough |-> change >= 0, total |-> total, fee |-> fee, pays |-> units,
        change |-> IF change > Dust THEN change ELSE 0]

SignBitcoin(units, utxos) ==
    IF "BTC" \in scenario.keys /\ Outputs(units, utxos, 10).enough
    THEN {[key |-> "BTC", nonce |-> 0, to |-> "bc1", units |-> units]} ELSE {}

SignEthereum(to, amount) ==
    IF "ETH" \in scenario.keys
    THEN {[key |-> "ETH", nonce |-> 0, to |-> to, units |-> amount]} ELSE {}

\* Always ERC20: a Tron address cannot be encoded.
SignUsdt(to, amount) ==
    IF "USDT" \in scenario.keys /\ to = "0x"
    THEN {[key |-> scenario.usdtKey, nonce |-> 0, to |-> to, units |-> u * Coarse] :
            u \in Floored(amount \div Coarse)}
    ELSE {}

SignTransaction(r) ==
    CASE r.currency = "BTC" ->
           UNION {SignBitcoin(u, <<>>) : u \in Floored(r.amount)}
      [] r.currency = "ETH" -> SignEthereum(r.to, r.amount)
      [] r.currency = "USDT" -> SignUsdt(r.to, r.amount)

\* A transaction is signed, or the service throws and the withdrawal FAILED.
Sign(w) ==
    /\ stage[w] = "sign"
    /\ IF SignTransaction(asked[w]) = {}
       THEN Goto(w, "FAILED") /\ UNCHANGED signed
       ELSE /\ \E tx \in SignTransaction(asked[w]) : signed' = [signed EXCEPT ![w] = tx]
            /\ Goto(w, "broadcast")
    /\ UNCHANGED <<scenario, asked, tries, hash, pool, mined>>

-----------------------------------------------------------------------------
(* blockchain-broadcasting.service.ts                                      *)

\* No provider is configured: success, with a hash of zeroes.
Simulate(w) ==
    /\ stage[w] = "broadcast" /\ ~scenario.provider
    /\ hash' = [hash EXCEPT ![w] = Simulated]
    /\ Goto(w, "BROADCASTED")
    /\ UNCHANGED <<scenario, asked, signed, tries, pool, mined>>

\* A node takes one transaction per key and nonce, and none it has seen.
Acceptable(tx) == \A t \in pool \cup mined : t.key # tx.key \/ t.nonce # tx.nonce

BroadcastEthereum(w) ==
    /\ stage[w] = "broadcast" /\ scenario.provider /\ Acceptable(signed[w])
    /\ pool' = pool \cup {signed[w]}
    /\ hash' = [hash EXCEPT ![w] = signed[w]]
    /\ Goto(w, "BROADCASTED")
    /\ UNCHANGED <<scenario, asked, signed, tries, mined>>

\* Fault: a node that knows the transaction is taken for one that accepts it.
RetryUnlessKnown(w) ==
    IF signed[w] \in pool \cup mined
    THEN /\ hash' = [hash EXCEPT ![w] = signed[w]]
         /\ Goto(w, "BROADCASTED") /\ UNCHANGED tries
    ELSE /\ tries' = [tries EXCEPT ![w] = @ + 1]
         /\ Goto(w, IF tries[w] + 1 < MaxRetries THEN "broadcast" ELSE "FAILED")
         /\ UNCHANGED hash

Retry(w) ==
    /\ tries' = [tries EXCEPT ![w] = @ + 1]
    /\ Goto(w, IF tries[w] + 1 < MaxRetries THEN "broadcast" ELSE "FAILED")
    /\ UNCHANGED hash

\* The node refuses, or is not reached; or it takes the transaction and its
\* answer is lost.
AttemptFails(w) ==
    /\ stage[w] = "broadcast" /\ scenario.provider
    /\ pool' \in {pool} \cup (IF Acceptable(signed[w]) THEN {pool \cup {signed[w]}} ELSE {})
    /\ Retry(w)
    /\ UNCHANGED <<scenario, asked, signed, mined>>

Mine(tx) ==
    /\ pool' = pool \ {tx} /\ mined' = mined \cup {tx}
    /\ UNCHANGED <<scenario, stage, asked, signed, tries, hash>>

-----------------------------------------------------------------------------
Requests == [currency : Currencies, network : Networks, to : Addresses, amount : Amounts]

Next ==
    \/ \E w \in Withdrawals :
         \/ \E r \in Requests : Create(w, r)
         \/ Sign(w) \/ Simulate(w) \/ BroadcastEthereum(w) \/ AttemptFails(w)
    \/ \E tx \in pool : Mine(tx)

Spec == Init /\ [][Next]_vars

-----------------------------------------------------------------------------
\* What a Bitcoin transaction spends goes to the recipient, the change and the
\* fee, but for dust that is not worth an output.
BitcoinAddsUp ==
    \A units \in {1, 5000}, utxos \in [1..2 -> {0, 700, 2080, 4040, 7000}] :
      LET o == Outputs(units, utxos, 10)
      IN o.enough => o.total - (o.pays + o.change + o.fee) \in 0..Dust

\* What a BROADCASTED withdrawal's hash names is on the network, pays its address
\* what was asked for less at most two units of its asset, and is no other
\* withdrawal's: although attempts fail, answers are lost, two withdrawals may be
\* signed alike, and all of a key's share one nonce; unless nothing is configured
\* to send it.  Bitcoin, and USDT on Tron, are never sent; a Bitcoin transaction
\* that had inputs would spend them in full.
SentIsOwed ==
    /\ \A w \in Withdrawals :
         stage[w] = "BROADCASTED" /\ hash[w] # Simulated =>
           /\ hash[w] \in pool \cup mined
           /\ hash[w].to = asked[w].to /\ asked[w].to = "0x"
           /\ hash[w].units <= asked[w].amount
           /\ asked[w].amount - hash[w].units < 2 * Coarse
           /\ asked[w].currency = "ETH" => hash[w].units = asked[w].amount
           /\ \A v \in Withdrawals \ {w} : hash[v] # hash[w]
    /\ (\A w \in Withdrawals : stage[w] = "new") => BitcoinAddsUp
=============================================================================
