-------------------------- MODULE CryptoWithdrawal --------------------------
(***************************************************************************)
(* withdrawal-request.service.ts, withdrawal-processing.service.ts and     *)
(* blockchain-broadcasting.service.ts of the wallet service: withdrawals   *)
(* of one cryptocurrency by one user, from the request to the chain.       *)
(*                                                                         *)
(* A call is one HTTP request, or one run of the processing service for    *)
(* one withdrawal.  Only createWithdrawalRequest reads the wallet FOR      *)
(* UPDATE; every other transaction reads it plainly and writes back what   *)
(* it computed.  An UPDATE waits for the row's lock and holds it to the    *)
(* commit, where all of a transaction becomes visible.                     *)
(*                                                                         *)
(* Two history variables say when the plain reads have gone wrong: read[c] *)
(* is the status that call c takes its row to have, and overtaken is TRUE  *)
(* from the first write on that is based on a row another call has written *)
(* since.  No guard looks at them.                                         *)
(***************************************************************************)
EXTENDS Sequences, FiniteSets, RunningTotal

CONSTANTS Calls,            \* calls that can be in progress at once
          NoCall,           \* "nobody holds this lock"
          MaxRequests,      \* bound on rows of crypto_withdrawal_requests
          Amounts,          \* amounts asked for, in the smallest unit
          Fee,              \* network fee + platform fee
          AdminThreshold,   \* from this amount on an admin has to approve
          MaxRetries,       \* WITHDRAWAL_MAX_RETRIES
          InitialAvailable

ASSUME CryptoAssumption ==
    /\ NoCall \notin Calls
    /\ MaxRequests \in Nat
    /\ Amounts \subseteq Nat \ {0}
    /\ Fee \in Nat
    /\ AdminThreshold \in Nat
    /\ MaxRetries \in Nat \ {0}
    /\ InitialAvailable \in Nat

Requests == 1..MaxRequests

VARIABLES
    available, locked,      \* the wallet row
    status, amount, rows,   \* crypto_withdrawal_requests, by id
    ledger,                 \* ledger_entries of this wallet, oldest first
    onChain,                \* requests whose transaction reached the network
    connected,              \* a node or its API token is configured
    walletLock, requestLock,
    pc, asked, target, seen, tries, \* the calls
    read, overtaken         \* history: see above

walletRow == <<available, locked>>
table == <<status, amount, rows>>
network == <<onChain, connected>>
history == <<read, overtaken>>
locks == <<walletLock, requestLock>>
call == <<pc, asked, target, seen, tries>>
vars == <<walletRow, table, ledger, network, locks, call, history>>

Status == {"NONE", "PENDING", "APPROVED", "SIGNING", "BROADCASTING",
           "BROADCASTED", "COMPLETED", "FAILED", "CANCELLED"}
PC == {"idle", "lockWallet", "reserve",
       "readForCancel", "saveWallet", "cancel",
       "approve", "markSigning", "sign", "markBroadcasting", "broadcast",
       "markBroadcasted", "recordFailure", "readForRelease", "release",
       "recordCompletion", "readForSettlement", "settle"}
Entry == [type : {"LOCK", "UNLOCK", "FAILED", "COMPLETE"}, request : Requests,
          amount : Int]
Balances == [available : Int, locked : Int]
NotRead == [available |-> 0, locked |-> 0]

TypeOK ==
    /\ available \in Int /\ locked \in Int
    /\ status \in [Requests -> Status]
    /\ amount \in [Requests -> Nat]
    /\ rows \in 0..MaxRequests
    /\ ledger \in Seq(Entry)
    /\ onChain \subseteq Requests
    /\ walletLock \in Calls \cup {NoCall}
    /\ requestLock \in [Requests -> Calls \cup {NoCall}]
    /\ pc \in [Calls -> PC]
    /\ asked \in [Calls -> Nat]
    /\ target \in [Calls -> 0..MaxRequests]
    /\ seen \in [Calls -> Balances]
    /\ tries \in [Calls -> 0..MaxRetries]
    /\ connected \in BOOLEAN
    /\ read \in [Calls -> Status]
    /\ overtaken \in BOOLEAN

Init ==
    /\ available = InitialAvailable
    /\ locked = 0
    /\ status = [r \in Requests |-> "NONE"]
    /\ amount = [r \in Requests |-> 0]
    /\ rows = 0
    /\ ledger = <<>>
    /\ onChain = {}
    /\ walletLock = NoCall
    /\ requestLock = [r \in Requests |-> NoCall]
    /\ pc = [c \in Calls |-> "idle"]
    /\ asked = [c \in Calls |-> 0]
    /\ target = [c \in Calls |-> 0]
    /\ seen = [c \in Calls |-> NotRead]
    /\ tries = [c \in Calls |-> 0]
    /\ connected \in BOOLEAN
    /\ read = [c \in Calls |-> "NONE"]
    /\ overtaken = FALSE

-----------------------------------------------------------------------------
(* Helpers                                                                 *)

Claim(r) == amount[r] + Fee     \* the column total_amount

Goto(c, l) == pc' = [pc EXCEPT ![c] = l]

\* The call has answered: nothing of it stays in memory.
Return(c) ==
    /\ Goto(c, "idle")
    /\ asked' = [asked EXCEPT ![c] = 0]
    /\ target' = [target EXCEPT ![c] = 0]
    /\ seen' = [seen EXCEPT ![c] = NotRead]
    /\ tries' = [tries EXCEPT ![c] = 0]
    /\ read' = [read EXCEPT ![c] = "NONE"]

\* Fault: the rollback forgets the request rows.
UnlockWalletOnly(c) ==
    /\ walletLock' = IF walletLock = c THEN NoCall ELSE walletLock
    /\ UNCHANGED requestLock

\* COMMIT or ROLLBACK: the transaction's row locks are free again.
Unlock(c) ==
    /\ walletLock' = IF walletLock = c THEN NoCall ELSE walletLock
    /\ requestLock' = [r \in Requests |->
                          IF requestLock[r] = c THEN NoCall ELSE requestLock[r]]

\* The call works on request r from here on; it has read its row.
Take(c, r, l) ==
    /\ pc[c] = "idle"
    /\ r <= rows
    /\ target' = [target EXCEPT ![c] = r]
    /\ read' = [read EXCEPT ![c] = status[r]]
    /\ Goto(c, l)
    /\ UNCHANGED <<walletRow, table, ledger, network, locks, asked, seen, tries,
                   overtaken>>

\* A plain SELECT of the wallet row.
ReadWallet(c, from, to) ==
    /\ pc[c] = from
    /\ seen' = [seen EXCEPT ![c] = [available |-> available, locked |-> locked]]
    /\ Goto(c, to)
    /\ UNCHANGED <<walletRow, table, ledger, network, locks, asked, target, tries,
                   history>>

\* The row that call c is about to write is no longer as the call takes it to be.
StatusStale(c) == status[target[c]] # read[c]
WalletStale(c) == seen[c] # [available |-> available, locked |-> locked]

\* repository.save of the request outside a transaction: it overwrites the
\* status whatever the row holds by now.
SaveStatus(c, from, new, to) ==
    /\ pc[c] = from
    /\ requestLock[target[c]] = NoCall
    /\ status' = [status EXCEPT ![target[c]] = new]
    /\ read' = [read EXCEPT ![c] = new]
    /\ overtaken' = (overtaken \/ StatusStale(c))
    /\ Goto(c, to)
    /\ UNCHANGED <<walletRow, amount, rows, ledger, network, locks, asked, target,
                   seen, tries>>

\* UPDATE of the request inside a transaction: takes the row's lock.
LockRequest(c, from, to) ==
    /\ pc[c] = from
    /\ requestLock[target[c]] = NoCall
    /\ requestLock' = [requestLock EXCEPT ![target[c]] = c]
    /\ Goto(c, to)
    /\ UNCHANGED <<walletRow, table, ledger, network, walletLock, asked, target, seen,
                   tries, history>>

\* Fault: the wallet is written and the status is not.
EndKeepingStatus(c, new, type, toAvailable, sum) ==
    LET r == target[c]
    IN  /\ available' = seen[c].available + toAvailable
        /\ locked' = seen[c].locked - Claim(r)
        /\ ledger' = Append(ledger, [type |-> type, request |-> r, amount |-> sum])
        /\ overtaken' = (overtaken \/ StatusStale(c) \/ WalletStale(c))
        /\ Unlock(c)
        /\ Return(c)
        /\ UNCHANGED <<table, network>>

\* The commit of a transaction that ends request r with this status, wallet
\* movement and ledger entry, computed from what it read of the wallet.
EndRequest(c, new, type, toAvailable, sum) ==
    LET r == target[c]
    IN  /\ available' = seen[c].available + toAvailable
        /\ locked' = seen[c].locked - Claim(r)
        /\ status' = [status EXCEPT ![r] = new]
        /\ ledger' = Append(ledger, [type |-> type, request |-> r, amount |-> sum])
        /\ overtaken' = (overtaken \/ StatusStale(c) \/ WalletStale(c))
        /\ Unlock(c)
        /\ Return(c)
        /\ UNCHANGED <<amount, rows, network>>

-----------------------------------------------------------------------------
(* createWithdrawalRequest                                                 *)

CreatesInFlight == {c \in Calls : pc[c] \in {"lockWallet", "reserve"}}

\* The address is valid, the 2FA code is right and the fees are known; a call
\* that fails one of them answers 4xx and leaves no trace.
BeginCreate(c, a) ==
    /\ pc[c] = "idle"
    /\ rows + Cardinality(CreatesInFlight) < MaxRequests
    /\ asked' = [asked EXCEPT ![c] = a]
    /\ Goto(c, "lockWallet")
    /\ UNCHANGED <<walletRow, table, ledger, network, locks, target, seen, tries,
                   history>>

\* Fault: the wallet is read without FOR UPDATE.
ReadForReserve(c) == ReadWallet(c, "lockWallet", "reserve")

\* findOrCreateWallet: SELECT ... FOR UPDATE.
LockWallet(c) ==
    /\ pc[c] = "lockWallet"
    /\ walletLock = NoCall
    /\ walletLock' = c
    /\ seen' = [seen EXCEPT ![c] = [available |-> available, locked |-> locked]]
    /\ Goto(c, "reserve")
    /\ UNCHANGED <<walletRow, table, ledger, network, requestLock, asked, target,
                   tries, history>>

\* Fault: the fees are not part of the check.
AffordableWithoutFee(c) == seen[c].available >= asked[c]

Affordable(c) == seen[c].available >= asked[c] + Fee

InsufficientBalance(c) ==
    /\ pc[c] = "reserve"
    /\ ~ Affordable(c)
    /\ Unlock(c)
    /\ Return(c)
    /\ UNCHANGED <<walletRow, table, ledger, network, overtaken>>

\* Fault: the request and its ledger entry are written, the wallet is not.
ReserveNothing(c) ==
    LET r == rows + 1
    IN  /\ pc[c] = "reserve"
        /\ Affordable(c)
        /\ rows' = r
        /\ status' = [status EXCEPT ![r] = "PENDING"]
        /\ amount' = [amount EXCEPT ![r] = asked[c]]
        /\ ledger' = Append(ledger,
              [type |-> "LOCK", request |-> r, amount |-> -(asked[c] + Fee)])
        /\ Unlock(c)
        /\ Return(c)
        /\ UNCHANGED <<walletRow, network, overtaken>>

\* The request, the movement from available to locked and the ledger entry,
\* and the commit.
Reserve(c) ==
    LET total == asked[c] + Fee
        r == rows + 1
    IN  /\ pc[c] = "reserve"
        /\ Affordable(c)
        /\ rows < MaxRequests   \* BeginCreate left room
        /\ available' = seen[c].available - total
        /\ locked' = seen[c].locked + total
        /\ rows' = r
        /\ status' = [status EXCEPT ![r] = "PENDING"]
        /\ amount' = [amount EXCEPT ![r] = asked[c]]
        /\ ledger' = Append(ledger, [type |-> "LOCK", request |-> r, amount |-> -total])
        /\ Unlock(c)
        /\ Return(c)
        /\ UNCHANGED <<network, overtaken>>

-----------------------------------------------------------------------------
(* cancelWithdrawal                                                        *)

\* Fault: any withdrawal that has not completed can be cancelled.
CancelAnyOpen(c, r) ==
    /\ status[r] \notin {"NONE", "COMPLETED", "CANCELLED"}
    /\ Take(c, r, "readForCancel")

\* The request is read before the transaction, without a lock.
BeginCancel(c, r) ==
    /\ status[r] = "PENDING"
    /\ Take(c, r, "readForCancel")

ReadForCancel(c) == ReadWallet(c, "readForCancel", "saveWallet")

\* UPDATE of the wallet: waits for its lock and keeps it.
SaveWallet(c) ==
    /\ pc[c] = "saveWallet"
    /\ walletLock = NoCall
    /\ walletLock' = c
    /\ Goto(c, "cancel")
    /\ UNCHANGED <<walletRow, table, ledger, network, requestLock, asked, target,
                   seen, tries, history>>

\* UPDATE of the request and the commit.
Cancel(c) ==
    /\ pc[c] = "cancel"
    /\ requestLock[target[c]] = NoCall
    /\ EndRequest(c, "CANCELLED", "UNLOCK", Claim(target[c]), Claim(target[c]))

-----------------------------------------------------------------------------
(* processWithdrawal, processAdminApprovedWithdrawal                       *)

NeedsAdmin(r) == amount[r] >= AdminThreshold

\* processWithdrawal goes on only with requests that need no admin, and
\* processAdminApprovedWithdrawal only with those that do.
BeginProcess(c, r) ==
    /\ status[r] = "PENDING"
    /\ ~ NeedsAdmin(r)
    /\ Take(c, r, "approve")

BeginAdminApproved(c, r) ==
    /\ status[r] = "PENDING"
    /\ NeedsAdmin(r)
    /\ Take(c, r, "approve")

Approve(c) == SaveStatus(c, "approve", "APPROVED", "markSigning")
MarkSigning(c) == SaveStatus(c, "markSigning", "SIGNING", "sign")

Sign(c) ==
    /\ pc[c] = "sign"
    /\ Goto(c, "markBroadcasting")
    /\ UNCHANGED <<walletRow, table, ledger, network, locks, asked, target, seen,
                   tries, history>>

MarkBroadcasting(c) == SaveStatus(c, "markBroadcasting", "BROADCASTING", "broadcast")

\* With no node configured nothing is sent, and the answer is success with a
\* hash of zeros.
BroadcastSimulated(c) ==
    /\ pc[c] = "broadcast"
    /\ ~ connected
    /\ Goto(c, "markBroadcasted")
    /\ UNCHANGED <<walletRow, table, ledger, network, locks, asked, target, seen,
                   tries, history>>

\* One attempt of the broadcast whose answer is "accepted".
BroadcastAccepted(c) ==
    /\ pc[c] = "broadcast"
    /\ connected
    /\ target[c] \notin onChain
    /\ onChain' = onChain \cup {target[c]}
    /\ Goto(c, "markBroadcasted")
    /\ UNCHANGED <<walletRow, table, ledger, connected, locks, asked, target, seen,
                   tries, history>>

\* Fault: running out of retries is taken for success.
RetryOrGoOn(c) ==
    /\ tries' = [tries EXCEPT ![c] = @ + 1]
    /\ Goto(c, IF tries'[c] < MaxRetries THEN "broadcast" ELSE "markBroadcasted")

\* Fault: one attempt too many.
RetryOnceMore(c) ==
    /\ tries' = [tries EXCEPT ![c] = @ + 1]
    /\ Goto(c, IF tries'[c] <= MaxRetries THEN "broadcast" ELSE "recordFailure")

\* The next attempt after a delay, or failure after the last one.
RetryOrFail(c) ==
    /\ tries' = [tries EXCEPT ![c] = @ + 1]
    /\ Goto(c, IF tries'[c] < MaxRetries THEN "broadcast" ELSE "recordFailure")

\* The network took the transaction and the answer is lost or late: for the
\* service this is one more failed attempt.
BroadcastAnswerLost(c) ==
    /\ pc[c] = "broadcast"
    /\ connected
    /\ target[c] \notin onChain
    /\ onChain' = onChain \cup {target[c]}
    /\ RetryOrFail(c)
    /\ UNCHANGED <<walletRow, table, ledger, connected, locks, asked, target, seen,
                   history>>

\* The node does not answer, or refuses: also a transaction it already has.  Where
\* no node is configured this is the network that is not implemented (TRC20).
BroadcastRefused(c) ==
    /\ pc[c] = "broadcast"
    /\ RetryOrFail(c)
    /\ UNCHANGED <<walletRow, table, ledger, network, locks, asked, target, seen,
                   history>>

MarkBroadcasted(c) ==
    /\ pc[c] = "markBroadcasted"
    /\ requestLock[target[c]] = NoCall
    /\ status' = [status EXCEPT ![target[c]] = "BROADCASTED"]
    /\ overtaken' = (overtaken \/ StatusStale(c))
    /\ Return(c)
    /\ UNCHANGED <<walletRow, amount, rows, ledger, network, locks>>

\* Signing or a save throws; the catch handles it as a failed broadcast, also
\* when the broadcast has succeeded.
ProcessingThrows(c) ==
    /\ pc[c] \in {"approve", "markSigning", "sign", "markBroadcasting", "markBroadcasted"}
    /\ Goto(c, "recordFailure")
    /\ UNCHANGED <<walletRow, table, ledger, network, locks, asked, target, seen,
                   tries, history>>

\* handleBroadcastFailure: the request, then the wallet, and the commit.
RecordFailure(c) == LockRequest(c, "recordFailure", "readForRelease")
ReadForRelease(c) == ReadWallet(c, "readForRelease", "release")
Release(c) ==
    /\ pc[c] = "release"
    /\ walletLock = NoCall
    /\ EndRequest(c, "FAILED", "FAILED", Claim(target[c]), Claim(target[c]))

-----------------------------------------------------------------------------
(* finalizeWithdrawal                                                      *)

\* The request is read before the transaction, without a lock.
BeginFinalize(c, r) ==
    /\ status[r] = "BROADCASTED"
    /\ Take(c, r, "recordCompletion")

RecordCompletion(c) == LockRequest(c, "recordCompletion", "readForSettlement")
ReadForSettlement(c) == ReadWallet(c, "readForSettlement", "settle")
Settle(c) ==
    /\ pc[c] = "settle"
    /\ walletLock = NoCall
    /\ EndRequest(c, "COMPLETED", "COMPLETE", 0, -Claim(target[c]))

-----------------------------------------------------------------------------

\* The call ends here: a database error in a transaction, which rolls back, or
\* the process died.
Fail(c) ==
    /\ pc[c] # "idle"
    /\ Unlock(c)
    /\ Return(c)
    /\ UNCHANGED <<walletRow, table, ledger, network, overtaken>>

\* A cancellation locks the wallet first and the request second, the other two
\* the request first.
WaitForEachOther(c, d) ==
    /\ pc[c] = "cancel"
    /\ requestLock[target[c]] = d
    /\ pc[d] \in {"release", "settle"}
    /\ walletLock = c

\* PostgreSQL aborts one of two transactions that wait for each other.
DeadlockVictim(c) ==
    /\ \E d \in Calls : WaitForEachOther(c, d) \/ WaitForEachOther(d, c)
    /\ Unlock(c)
    /\ Return(c)
    /\ UNCHANGED <<walletRow, table, ledger, network, overtaken>>

Begin(c) ==
    \/ \E a \in Amounts : BeginCreate(c, a)
    \/ \E r \in Requests : \/ BeginCancel(c, r)
                           \/ BeginProcess(c, r) \/ BeginAdminApproved(c, r)
                           \/ BeginFinalize(c, r)

Proceed(c) ==
    \/ LockWallet(c) \/ InsufficientBalance(c) \/ Reserve(c)
    \/ ReadForCancel(c) \/ SaveWallet(c) \/ Cancel(c)
    \/ Approve(c) \/ MarkSigning(c) \/ Sign(c) \/ MarkBroadcasting(c)
    \/ BroadcastSimulated(c) \/ BroadcastAccepted(c) \/ BroadcastAnswerLost(c)
    \/ BroadcastRefused(c)
    \/ MarkBroadcasted(c)
    \/ RecordFailure(c) \/ ReadForRelease(c) \/ Release(c)
    \/ RecordCompletion(c) \/ ReadForSettlement(c) \/ Settle(c)
    \/ DeadlockVictim(c)

Next == \E c \in Calls : Begin(c) \/ Proceed(c) \/ ProcessingThrows(c) \/ Fail(c)

Spec == Init /\ [][Next]_vars

-----------------------------------------------------------------------------
(* Properties                                                              *)

Entries(types, r) ==
    {i \in DOMAIN ledger : ledger[i].type \in types /\ ledger[i].request = r}

IsHeld(r) ==
    Entries({"LOCK"}, r) # {} /\ Entries({"UNLOCK", "FAILED", "COMPLETE"}, r) = {}

\* What request r still holds according to the ledger.
Held == [r \in Requests |-> IF IsHeld(r) THEN Claim(r) ELSE 0]

Paid == [r \in Requests |-> IF Entries({"COMPLETE"}, r) # {} THEN Claim(r) ELSE 0]

\* The locked balance is exactly what the requests that were neither released
\* nor paid hold, with any number of calls at once, up to the first write that
\* rests on a plain read another call has overtaken.
LockedIsHeld ==
    ~ overtaken => locked = Total(Held, MaxRequests)

\* Up to such a write no balance is negative, and only completed withdrawals
\* take money out.
FundsConserved ==
    ~ overtaken =>
        /\ available >= 0
        /\ locked >= 0
        /\ available + locked + Total(Paid, MaxRequests) = InitialAvailable

\* calculateBalanceFromLedger: the sum of all entries.
LedgerBalance ==
    InitialAvailable + Total([i \in DOMAIN ledger |-> ledger[i].amount], Len(ledger))

\* The sum of all entries is not the available balance, as its comment has it: it
\* is less by every completed withdrawal, and by no more.  The lock has entered
\* the total already when the completion enters it again.
LedgerCountsPaidTwice ==
    ~ overtaken => LedgerBalance = available - Total(Paid, MaxRequests)

\* A withdrawal holds its funds exactly as long as its status says it is under
\* way: a crash in the middle of processing leaves it under way.  It takes a
\* write over another call's to break it.
OpenIsHeld ==
    ~ overtaken =>
        \A r \in Requests :
            IsHeld(r) <=> status[r] \in {"PENDING", "APPROVED", "SIGNING",
                                        "BROADCASTING", "BROADCASTED"}

\* Whatever calls interleave, and whatever they overtake, money is taken out for
\* good, and a withdrawal is shown as sent or completed, only if its transaction
\* reached the network; where no node is configured, nothing does.
PaidIsSent ==
    connected =>
        \A r \in Requests :
            \/ Entries({"COMPLETE"}, r) # {}
            \/ status[r] \in {"BROADCASTED", "COMPLETED"}
            => r \in onChain

\* No call hangs: as long as calls are under way, one of them can go on.  A lock is
\* held only by a call that will end, and where two transactions wait for each
\* other, one is aborted.
SomeCallGoesOn ==
    (\E c \in Calls : pc[c] # "idle") => \E c \in Calls : ENABLED Proceed(c)

\* The refinement mapping.
Claimed == [r \in Requests |-> IF r <= rows THEN Claim(r) ELSE 0]
Phase == [r \in Requests |->
             CASE Entries({"LOCK"}, r) = {} -> "unused"
               [] Entries({"COMPLETE"}, r) # {} -> "settled"
               [] Entries({"UNLOCK", "FAILED"}, r) # {} -> "released"
               [] OTHER -> "held"]

Reservation ==
    INSTANCE FundsReservation WITH
        Claims <- {a + Fee : a \in Amounts},
        Credits <- {},
        InitialFunds <- InitialAvailable,
        free <- available,
        spent <- Total(Paid, MaxRequests),
        funded <- InitialAvailable,
        claim <- Claimed,
        phase <- Phase

\* Any number of calls, whatever fails in the middle of them, implement the
\* atomic reservation of funds step by step, up to the first write that rests on
\* an overtaken read: nothing but such a write departs from it.
ImplementsReservation ==
    /\ Reservation!Init
    /\ [][overtaken' \/ Reservation!Next]_(Reservation!vars)

\* A withdrawal whose funds were given back on cancellation was not sent.
\* (Story_2.5_Crypto_Withdrawal_Test_Plan.md: "Cancel option not available
\* (only before broadcast)".)
CancelledIsNotSent ==
    \A r \in onChain : Entries({"UNLOCK"}, r) = {}
=============================================================================
