---------------------------- MODULE CryptoDeposit ----------------------------
(***************************************************************************)
(* crypto-deposit.service.ts and creditUserWallet of wallet.service.ts:    *)
(* the webhooks about transactions to one deposit address, the rows of     *)
(* blockchain_transactions and the credits to the user's wallet row.       *)
(*                                                                         *)
(* A call is one webhook request being served; calls interleave at every   *)
(* await.  A saved entity overwrites its row with what the call has in     *)
(* memory, whatever was written in between.                                *)
(***************************************************************************)
EXTENDS Sequences, FiniteSets, RunningTotal

CONSTANTS Calls,         \* webhook requests that can be in progress at once
          NoCall,        \* "nobody holds this lock"
          Hashes,        \* transactions on the chain that pay the address
          AmountOf,      \* what each of them pays
          Required,      \* required confirmations
          MaxDeliveries  \* MaxDeliveries[h]: bound on deliveries of h's event

ASSUME DepositAssumption ==
    /\ NoCall \notin Calls
    /\ AmountOf \in [Hashes -> Nat \ {0}]
    /\ Required \in Nat \ {0}
    /\ MaxDeliveries \in [Hashes -> Nat]

VARIABLES
    confirmations,      \* confirmations[h] on the chain
    deliveries,         \* deliveries[h]: how often the event came
    records,            \* blockchain_transactions, oldest first
    transactionCount, totalReceived,  \* the blockchain_addresses row
    wallet,             \* the user_wallets rows of the user and currency
    walletLock,
    ledger,             \* ledger_entries of this wallet, oldest first
    pc, hash, target, fetched, copy, seenAddress, seenWallet  \* the calls

chain == <<confirmations, deliveries>>
address == <<transactionCount, totalReceived>>
funds == <<wallet, walletLock, ledger>>
memory == <<hash, target, fetched, copy, seenAddress, seenWallet>>
vars == <<chain, records, address, funds, pc, memory>>

Status == {"PENDING", "CONFIRMED", "CREDITED", "FAILED"}
PC == {"idle", "fetchNew", "insert", "count", "readAddress", "saveAddress",
       "load", "fetch", "saveRecord",
       "loadForCredit", "lockWallet", "credit", "saveCredited", "report", "saveFailed"}
NotRead == [count |-> 0, received |-> 0]

TypeOK ==
    /\ confirmations \in [Hashes -> 0..Required]
    /\ deliveries \in [Hashes -> Nat]
    /\ \A h \in Hashes : deliveries[h] <= MaxDeliveries[h]
    /\ records \in Seq([hash : Hashes, status : Status])
    /\ transactionCount \in Nat /\ totalReceived \in Nat
    /\ wallet \in Seq(Nat)
    /\ walletLock \in Calls \cup {NoCall}
    /\ ledger \in Seq([record : DOMAIN records, amount : Nat])
    /\ pc \in [Calls -> PC]
    /\ hash \in [Calls -> Hashes \cup {NoCall}]
    /\ target \in [Calls -> 0..Len(records)]
    /\ fetched \in [Calls -> 0..Required]
    /\ copy \in [Calls -> Status]
    /\ seenAddress \in [Calls -> [count : Nat, received : Nat]]
    /\ seenWallet \in [Calls -> Seq(Nat)]

Init ==
    /\ confirmations = [h \in Hashes |-> 0]
    /\ deliveries = [h \in Hashes |-> 0]
    /\ records = <<>>
    /\ transactionCount = 0 /\ totalReceived = 0
    /\ wallet = <<>>
    /\ walletLock = NoCall
    /\ ledger = <<>>
    /\ pc = [c \in Calls |-> "idle"]
    /\ hash = [c \in Calls |-> NoCall]
    /\ target = [c \in Calls |-> 0]
    /\ fetched = [c \in Calls |-> 0]
    /\ copy = [c \in Calls |-> "PENDING"]
    /\ seenAddress = [c \in Calls |-> NotRead]
    /\ seenWallet = [c \in Calls |-> <<>>]

-----------------------------------------------------------------------------
(* Helpers                                                                 *)

Goto(c, l) == pc' = [pc EXCEPT ![c] = l]

\* The call has answered: nothing of it stays in memory.
Return(c) ==
    /\ Goto(c, "idle")
    /\ hash' = [hash EXCEPT ![c] = NoCall]
    /\ target' = [target EXCEPT ![c] = 0]
    /\ fetched' = [fetched EXCEPT ![c] = 0]
    /\ copy' = [copy EXCEPT ![c] = "PENDING"]
    /\ seenAddress' = [seenAddress EXCEPT ![c] = NotRead]
    /\ seenWallet' = [seenWallet EXCEPT ![c] = <<>>]

Unlock(c) == walletLock' = IF walletLock = c THEN NoCall ELSE walletLock

\* A saved entity overwrites its row, whatever the row says by now.
Save(c, s) == records' = [records EXCEPT ![target[c]].status = s]

Amount(c) == AmountOf[records[target[c]].hash]

-----------------------------------------------------------------------------
(* The chain and BlockCypher                                               *)

Confirm(h) ==
    /\ confirmations[h] < Required
    /\ confirmations' = [confirmations EXCEPT ![h] = @ + 1]
    /\ UNCHANGED <<deliveries, records, address, funds, pc, memory>>

\* The event unconfirmed-tx is delivered, perhaps late and perhaps again;
\* handleWebhook calls processIncomingTransaction, which looks for a record of
\* the transaction.
Webhook(c, h) ==
    /\ pc[c] = "idle"
    /\ deliveries[h] < MaxDeliveries[h]
    /\ deliveries' = [deliveries EXCEPT ![h] = @ + 1]
    /\ hash' = [hash EXCEPT ![c] = h]
    /\ LET found == {i \in DOMAIN records : records[i].hash = h}
       IN  IF found = {} THEN Goto(c, "fetchNew") /\ UNCHANGED target
           ELSE /\ \E i \in found : target' = [target EXCEPT ![c] = i]
                /\ Goto(c, "load")
    /\ UNCHANGED <<confirmations, records, address, funds, fetched, copy, seenAddress, seenWallet>>

-----------------------------------------------------------------------------
(* processIncomingTransaction of a transaction that has no record          *)

\* What BlockCypher tells of a transaction: the confirmations it has by now.  An
\* answer that does not come, or is an error, is Fail.
Reported(h) == confirmations[h]

\* The address is one of ours.
FetchNew(c) ==
    /\ pc[c] = "fetchNew"
    /\ fetched' = [fetched EXCEPT ![c] = Reported(hash[c])]
    /\ Goto(c, "insert")
    /\ UNCHANGED <<chain, records, address, funds, hash, target, copy, seenAddress, seenWallet>>

\* tx_hash has an index and no unique constraint.
Insert(c) ==
    /\ pc[c] = "insert"
    /\ records' = Append(records, [hash |-> hash[c], status |-> "PENDING"])
    /\ target' = [target EXCEPT ![c] = Len(records')]
    /\ Goto(c, "count")
    /\ UNCHANGED <<chain, address, funds, hash, fetched, copy, seenAddress, seenWallet>>

\* updateAddressStatistics: an atomic increment, a SELECT, a save.
Count(c) ==
    /\ pc[c] = "count"
    /\ transactionCount' = transactionCount + 1
    /\ Goto(c, "readAddress")
    /\ UNCHANGED <<chain, records, totalReceived, funds, memory>>

ReadAddress(c) ==
    /\ pc[c] = "readAddress"
    /\ seenAddress' = [seenAddress EXCEPT ![c] =
                          [count |-> transactionCount, received |-> totalReceived]]
    /\ Goto(c, "saveAddress")
    /\ UNCHANGED <<chain, records, address, funds, hash, target, fetched, copy, seenWallet>>

\* Fault: what the chain said is not looked at.
EnoughAlways(n) == TRUE

Enough(n) == n >= Required

SaveAddress(c) ==
    /\ pc[c] = "saveAddress"
    /\ transactionCount' = seenAddress[c].count
    /\ totalReceived' = seenAddress[c].received + Amount(c)
    /\ IF Enough(fetched[c]) THEN Goto(c, "loadForCredit") /\ UNCHANGED memory
       ELSE Return(c)
    /\ UNCHANGED <<chain, records, funds>>

-----------------------------------------------------------------------------
(* updateTransactionConfirmations                                          *)

Load(c) ==
    /\ pc[c] = "load"
    /\ records[target[c]].status # "CREDITED"
    /\ copy' = [copy EXCEPT ![c] = records[target[c]].status]
    /\ Goto(c, "fetch")
    /\ UNCHANGED <<chain, records, address, funds, hash, target, fetched, seenAddress, seenWallet>>

AlreadyCredited(c) ==
    /\ pc[c] \in {"load", "loadForCredit"}
    /\ records[target[c]].status = "CREDITED"
    /\ Return(c)
    /\ UNCHANGED <<chain, records, address, funds>>

Fetch(c) ==
    /\ pc[c] = "fetch"
    /\ copy' = [copy EXCEPT ![c] = IF Enough(Reported(hash[c])) THEN "CONFIRMED" ELSE @]
    /\ Goto(c, "saveRecord")
    /\ UNCHANGED <<chain, records, address, funds, hash, target, fetched, seenAddress, seenWallet>>

SaveRecord(c) ==
    /\ pc[c] = "saveRecord"
    /\ Save(c, copy[c])
    /\ IF copy[c] = "CONFIRMED" THEN Goto(c, "loadForCredit") /\ UNCHANGED memory
       ELSE Return(c)
    /\ UNCHANGED <<chain, address, funds>>

-----------------------------------------------------------------------------
(* creditUserWallet, of this service and of the wallet service             *)

LoadForCredit(c) ==
    /\ pc[c] = "loadForCredit"
    /\ records[target[c]].status # "CREDITED"
    /\ Goto(c, "lockWallet")
    /\ UNCHANGED <<chain, records, address, funds, memory>>

\* SELECT ... FOR UPDATE: there may be no row to lock.
LockWallet(c) ==
    /\ pc[c] = "lockWallet"
    /\ walletLock = NoCall
    /\ walletLock' = IF wallet = <<>> THEN NoCall ELSE c
    /\ seenWallet' = [seenWallet EXCEPT ![c] = wallet]
    /\ Goto(c, "credit")
    /\ UNCHANGED <<chain, records, address, wallet, ledger, hash, target, fetched, copy, seenAddress>>

\* Fault: the second of two first deposits overwrites the other's wallet.
CreditOverwrites(c) ==
    /\ pc[c] = "credit"
    /\ wallet' = IF seenWallet[c] = <<>> THEN <<Amount(c)>>
                 ELSE <<seenWallet[c][1] + Amount(c)>>
    /\ ledger' = Append(ledger, [record |-> target[c], amount |-> Amount(c)])
    /\ Unlock(c)
    /\ Goto(c, "saveCredited")
    /\ UNCHANGED <<chain, records, address, memory>>

\* The wallet, the ledger entry and the commit.
Credit(c) ==
    /\ pc[c] = "credit"
    /\ \/ seenWallet[c] # <<>> /\ wallet' = <<seenWallet[c][1] + Amount(c)>>
       \/ seenWallet[c] = <<>> /\ wallet = <<>> /\ wallet' = <<Amount(c)>>
    /\ ledger' = Append(ledger, [record |-> target[c], amount |-> Amount(c)])
    /\ Unlock(c)
    /\ Goto(c, "saveCredited")
    /\ UNCHANGED <<chain, records, address, memory>>

\* Fault: the second of two first deposits takes the other's wallet for its own.
CreditedByOther(c) ==
    /\ pc[c] = "credit"
    /\ seenWallet[c] = <<>> /\ wallet # <<>>
    /\ Goto(c, "saveCredited")
    /\ UNCHANGED <<chain, records, address, funds, memory>>

\* Another call has inserted the wallet row meanwhile: the insert breaks the
\* unique index (user_id, currency) and the transaction rolls back.
WalletExists(c) ==
    /\ pc[c] = "credit"
    /\ seenWallet[c] = <<>> /\ wallet # <<>>
    /\ Goto(c, "saveFailed")
    /\ UNCHANGED <<chain, records, address, funds, memory>>

\* The transaction fails; or, after its commit, Redis, the save or the report
\* of the new balance throws.
CreditThrows(c) ==
    /\ pc[c] \in {"lockWallet", "credit", "saveCredited", "report"}
    /\ Unlock(c)
    /\ Goto(c, "saveFailed")
    /\ UNCHANGED <<chain, records, address, wallet, ledger, memory>>

SaveCredited(c) ==
    /\ pc[c] = "saveCredited"
    /\ Save(c, "CREDITED")
    /\ Goto(c, "report")
    /\ UNCHANGED <<chain, address, funds, memory>>

\* The new balance is read and the user notified.
Report(c) ==
    /\ pc[c] = "report"
    /\ Return(c)
    /\ UNCHANGED <<chain, records, address, funds>>

SaveFailed(c) ==
    /\ pc[c] = "saveFailed"
    /\ Save(c, "FAILED")
    /\ Return(c)
    /\ UNCHANGED <<chain, address, funds>>

-----------------------------------------------------------------------------

\* BlockCypher or the database fails where that is only logged, or the process
\* dies.
Fail(c) ==
    /\ pc[c] # "idle"
    /\ Unlock(c)
    /\ Return(c)
    /\ UNCHANGED <<chain, records, address, wallet, ledger>>

Proceed(c) ==
    \/ FetchNew(c) \/ Insert(c) \/ Count(c) \/ ReadAddress(c) \/ SaveAddress(c)
    \/ Load(c) \/ AlreadyCredited(c) \/ Fetch(c) \/ SaveRecord(c)
    \/ LoadForCredit(c) \/ LockWallet(c) \/ Credit(c) \/ WalletExists(c)
    \/ SaveCredited(c) \/ Report(c) \/ SaveFailed(c)

Next ==
    \/ \E h \in Hashes : Confirm(h) \/ \E c \in Calls : Webhook(c, h)
    \/ \E c \in Calls : Proceed(c) \/ CreditThrows(c) \/ Fail(c)

Spec == Init /\ [][Next]_vars

\* The system where nothing ever fails: blocks are found, BlockCypher delivers
\* its events, the event loop resumes every call whose await is settled and
\* PostgreSQL grants row locks first come first served.
FairNoFailure ==
    /\ Init
    /\ [][\/ \E h \in Hashes : Confirm(h) \/ \E c \in Calls : Webhook(c, h)
          \/ \E c \in Calls : Proceed(c)]_vars
    /\ \A h \in Hashes : WF_vars(Confirm(h)) /\ WF_vars(\E c \in Calls : Webhook(c, h))
    /\ \A c \in Calls : SF_vars(Proceed(c))

-----------------------------------------------------------------------------
(* Properties                                                              *)

CreditsOf(h) == {i \in DOMAIN ledger : records[ledger[i].record].hash = h}

\* Nothing is credited before the chain has confirmed it often enough, however
\* webhooks repeat, overtake each other or fail half-way.
NoEarlyCredit ==
    \A h \in Hashes : CreditsOf(h) # {} => confirmations[h] = Required

\* The balance is the sum of the ledger: no credit is lost between two calls
\* that credit at once, not even when both find no wallet row.
LedgerExplainsBalance ==
    Len(wallet) <= 1 /\
    (IF wallet = <<>> THEN 0 ELSE wallet[1])
        = Total([i \in DOMAIN ledger |-> ledger[i].amount], Len(ledger))

\* A deposit that is shown as credited has a ledger entry.
CreditedIsPaid ==
    \A i \in DOMAIN records :
        records[i].status = "CREDITED" => \E j \in DOMAIN ledger : ledger[j].record = i

\* A transaction is credited once.  (SPRINT3_COMPLETION_SUMMARY.md: "Prevents
\* double-credit race conditions".)
CreditedOnce == \A h \in Hashes : Cardinality(CreditsOf(h)) <= 1

\* A transaction that the chain has confirmed is credited in the end.
\* (blockchain-transaction.entity.ts: "Monitors confirmations and credits user
\* wallets when confirmed".)
ConfirmedIsCredited ==
    \A h \in Hashes : confirmations[h] = Required ~> CreditsOf(h) # {}
=============================================================================
