---------------------------- MODULE TryWithdrawal ----------------------------
(***************************************************************************)
(* withdrawal.service.ts of the wallet service: TRY withdrawal requests of *)
(* one user, against the user's TRY row of user_wallets.                   *)
(*                                                                         *)
(* A call is one HTTP request (or one admin call) being served; calls      *)
(* interleave at every await.  A database transaction is the steps from    *)
(* the first SELECT ... FOR UPDATE to the commit: it works on what it read *)
(* and all its writes become visible in the commit step, in which its row  *)
(* locks are released (READ COMMITTED).  Amounts are in TRY.               *)
(***************************************************************************)
EXTENDS Sequences, FiniteSets, RunningTotal

CONSTANTS Calls,            \* calls that can be in progress at once
          NoCall,           \* "nobody holds this lock"
          MaxRequests,      \* bound on rows of withdrawal_requests
          Amounts,          \* amounts asked for
          MinWithdrawal, MaxWithdrawal, Fee, DailyLimit,
          InitialAvailable, \* what the wallet was funded with
          MaxDay            \* bound on the calendar

\* What the proofs and the model need of the constants.
ASSUME TryAssumption ==
    /\ NoCall \notin Calls
    /\ MaxRequests \in Nat
    /\ Amounts \subseteq Nat
    /\ MinWithdrawal \in Nat \ {0} \* so that every request holds something
    /\ MaxWithdrawal \in Nat
    /\ Fee \in Nat
    /\ DailyLimit \in Nat
    /\ InitialAvailable \in Nat
    /\ MaxDay \in Nat

Requests == 1..MaxRequests

VARIABLES
    available, locked,   \* the wallet row
    status, amount, createdOn, \* withdrawal_requests, by id
    rows,                \* how many rows the table has
    ledger,              \* ledger_entries of this wallet, oldest first
    walletLock,          \* holder of the wallet row's lock
    requestLock,         \* holder of each request row's lock
    day,
    pc, asked, target, began, seen  \* the calls

walletRow == <<available, locked>>
table == <<status, amount, createdOn, rows>>
locks == <<walletLock, requestLock>>
call == <<pc, asked, target, began, seen>>
vars == <<walletRow, table, ledger, locks, day, call>>

Status == {"NONE", "PENDING", "APPROVED", "CANCELLED"}
PC == {"idle", "verify2FA", "verifyFiatAccount", "lockWallet", "reserve",
       "lockRequest", "lockWalletForRefund", "refund", "saveApproval"}
Entry == [type : {"WITHDRAWAL", "REFUND"}, request : Requests,
          amount : Int, before : Int, after : Int]
Balances == [available : Int, locked : Int]
NotRead == [available |-> 0, locked |-> 0]

TypeOK ==
    /\ available \in Int /\ locked \in Int
    /\ status \in [Requests -> Status]
    /\ amount \in [Requests -> Nat]
    /\ createdOn \in [Requests -> 0..MaxDay]
    /\ rows \in 0..MaxRequests
    /\ ledger \in Seq(Entry)
    /\ walletLock \in Calls \cup {NoCall}
    /\ requestLock \in [Requests -> Calls \cup {NoCall}]
    /\ day \in 0..MaxDay
    /\ pc \in [Calls -> PC]
    /\ asked \in [Calls -> Nat]
    /\ target \in [Calls -> 0..MaxRequests]
    /\ began \in [Calls -> 0..MaxDay]
    /\ seen \in [Calls -> Balances]

Init ==
    /\ available = InitialAvailable
    /\ locked = 0
    /\ status = [r \in Requests |-> "NONE"]
    /\ amount = [r \in Requests |-> 0]
    /\ createdOn = [r \in Requests |-> 0]
    /\ rows = 0
    /\ ledger = <<>>
    /\ walletLock = NoCall
    /\ requestLock = [r \in Requests |-> NoCall]
    /\ day = 0
    /\ pc = [c \in Calls |-> "idle"]
    /\ asked = [c \in Calls |-> 0]
    /\ target = [c \in Calls |-> 0]
    /\ began = [c \in Calls |-> 0]
    /\ seen = [c \in Calls |-> NotRead]

-----------------------------------------------------------------------------
(* Helpers                                                                 *)

Goto(c, l) == pc' = [pc EXCEPT ![c] = l]

\* The call has answered: nothing of it stays in memory.
Return(c) ==
    /\ Goto(c, "idle")
    /\ asked' = [asked EXCEPT ![c] = 0]
    /\ target' = [target EXCEPT ![c] = 0]
    /\ began' = [began EXCEPT ![c] = 0]
    /\ seen' = [seen EXCEPT ![c] = NotRead]

\* Fault: the rollback forgets the request rows.
UnlockWalletOnly(c) ==
    /\ walletLock' = IF walletLock = c THEN NoCall ELSE walletLock
    /\ UNCHANGED requestLock

\* COMMIT or ROLLBACK: the transaction's row locks are free again.
Unlock(c) ==
    /\ walletLock' = IF walletLock = c THEN NoCall ELSE walletLock
    /\ requestLock' = [r \in Requests |->
                          IF requestLock[r] = c THEN NoCall ELSE requestLock[r]]

\* Fault: the fee is not part of the check.
AffordableWithoutFee(c) == seen[c].available >= asked[c]

\* Step 7: the balance read under the lock covers the total.
Affordable(c) == seen[c].available >= asked[c] + Fee

\* checkDailyLimit's count: committed requests of today that are not cancelled.
CountedToday ==
    {r \in Requests : status[r] \notin {"NONE", "CANCELLED"} /\ createdOn[r] = day}

CreatesInFlight ==
    {c \in Calls : pc[c] \in {"verify2FA", "verifyFiatAccount", "lockWallet", "reserve"}}

-----------------------------------------------------------------------------
(* createWithdrawalRequest                                                 *)

\* validateAmount and the count of checkDailyLimit.  A call that fails either
\* answers 400 and leaves no trace, so only calls that pass are shown.
\* MaxRequests bounds the rows that calls in progress may still insert.
BeginCreate(c, a) ==
    /\ pc[c] = "idle"
    /\ rows + Cardinality(CreatesInFlight) < MaxRequests
    /\ a \in MinWithdrawal..MaxWithdrawal
    /\ Cardinality(CountedToday) < DailyLimit
    /\ asked' = [asked EXCEPT ![c] = a]
    /\ Goto(c, "verify2FA")
    /\ UNCHANGED <<walletRow, table, ledger, locks, day, target, began, seen>>

\* The auth service answered that the code is valid (any other answer, and the
\* 5 s timeout, are Fail).
Verify2FA(c) ==
    /\ pc[c] = "verify2FA"
    /\ Goto(c, "verifyFiatAccount")
    /\ UNCHANGED <<walletRow, table, ledger, locks, day, asked, target, began, seen>>

\* The bank account is the user's and verified; the transaction begins, and
\* with it the timestamp that created_at will default to.
VerifyFiatAccount(c) ==
    /\ pc[c] = "verifyFiatAccount"
    /\ began' = [began EXCEPT ![c] = day]
    /\ Goto(c, "lockWallet")
    /\ UNCHANGED <<walletRow, table, ledger, locks, day, asked, target, seen>>

\* Fault: a plain SELECT, as the crypto cancellation does.
SelectWallet(c, from, to) ==
    /\ pc[c] = from
    /\ seen' = [seen EXCEPT ![c] = [available |-> available, locked |-> locked]]
    /\ Goto(c, to)
    /\ UNCHANGED <<walletRow, table, ledger, locks, day, asked, target, began>>

\* SELECT ... FOR UPDATE of the wallet row: waits for the holder, then reads.
SelectWalletForUpdate(c, from, to) ==
    /\ pc[c] = from
    /\ walletLock = NoCall
    /\ walletLock' = c
    /\ seen' = [seen EXCEPT ![c] = [available |-> available, locked |-> locked]]
    /\ Goto(c, to)
    /\ UNCHANGED <<walletRow, table, ledger, requestLock, day, asked, target, began>>

LockWallet(c) == SelectWalletForUpdate(c, "lockWallet", "reserve")

\* Step 7 fails: rollback.
InsufficientBalance(c) ==
    /\ pc[c] = "reserve"
    /\ ~ Affordable(c)
    /\ Unlock(c)
    /\ Return(c)
    /\ UNCHANGED <<walletRow, table, ledger, day>>

\* Steps 7 to 10 and the commit: move the total from available to locked,
\* insert the request and its ledger entry.
Reserve(c) ==
    LET total == asked[c] + Fee
        r == rows + 1
        newLocked == seen[c].locked + total
    IN  /\ pc[c] = "reserve"
        /\ Affordable(c)
        /\ rows < MaxRequests   \* BeginCreate left room
        /\ available' = seen[c].available - total
        /\ locked' = newLocked
        /\ rows' = r
        /\ status' = [status EXCEPT ![r] = "PENDING"]
        /\ amount' = [amount EXCEPT ![r] = asked[c]]
        /\ createdOn' = [createdOn EXCEPT ![r] = began[c]]
        /\ ledger' = Append(ledger,
              [type |-> "WITHDRAWAL", request |-> r, amount |-> -total,
               before |-> seen[c].available + newLocked - total,
               after |-> available' + locked'])
        /\ Unlock(c)
        /\ Return(c)
        /\ UNCHANGED day

-----------------------------------------------------------------------------
(* cancelWithdrawalRequest                                                 *)

BeginCancel(c, r) ==
    /\ pc[c] = "idle"
    /\ r <= rows
    /\ target' = [target EXCEPT ![c] = r]
    /\ Goto(c, "lockRequest")
    /\ UNCHANGED <<walletRow, table, ledger, locks, day, asked, began, seen>>

\* Fault: the request row is read without a lock.
ReadRequest(c) ==
    /\ pc[c] = "lockRequest"
    /\ requestLock[target[c]] = NoCall
    /\ status[target[c]] = "PENDING"
    /\ Goto(c, "lockWalletForRefund")
    /\ UNCHANGED <<walletRow, table, ledger, locks, day, asked, target, began, seen>>

\* Fault: the status is not looked at.
LockRequestAnyStatus(c) ==
    /\ pc[c] = "lockRequest"
    /\ requestLock[target[c]] = NoCall
    /\ requestLock' = [requestLock EXCEPT ![target[c]] = c]
    /\ Goto(c, "lockWalletForRefund")
    /\ UNCHANGED <<walletRow, table, ledger, walletLock, day, asked, target, began, seen>>

\* SELECT ... FOR UPDATE of the request row, and the status check.
LockRequest(c) ==
    /\ pc[c] = "lockRequest"
    /\ requestLock[target[c]] = NoCall
    /\ status[target[c]] = "PENDING"
    /\ requestLock' = [requestLock EXCEPT ![target[c]] = c]
    /\ Goto(c, "lockWalletForRefund")
    /\ UNCHANGED <<walletRow, table, ledger, walletLock, day, asked, target, began, seen>>

\* 409: only PENDING requests can be cancelled.
CancelConflict(c) ==
    /\ pc[c] = "lockRequest"
    /\ requestLock[target[c]] = NoCall
    /\ status[target[c]] # "PENDING"
    /\ Return(c)
    /\ UNCHANGED <<walletRow, table, ledger, locks, day>>

LockWalletForRefund(c) == SelectWalletForUpdate(c, "lockWalletForRefund", "refund")

\* Steps 4 to 6 and the commit.
Refund(c) ==
    LET r == target[c]
        total == amount[r] + Fee
    IN  /\ pc[c] = "refund"
        /\ available' = seen[c].available + total
        /\ locked' = seen[c].locked - total
        /\ status' = [status EXCEPT ![r] = "CANCELLED"]
        /\ ledger' = Append(ledger,
              [type |-> "REFUND", request |-> r, amount |-> total,
               before |-> available' + locked',
               after |-> available' + locked' + total])
        /\ Unlock(c)
        /\ Return(c)
        /\ UNCHANGED <<amount, createdOn, rows, day>>

-----------------------------------------------------------------------------
(* approveWithdrawal                                                       *)

\* A plain findOne: no lock, no transaction around it and the save.
BeginApprove(c, r) ==
    /\ pc[c] = "idle"
    /\ r <= rows
    /\ status[r] = "PENDING"
    /\ target' = [target EXCEPT ![c] = r]
    /\ Goto(c, "saveApproval")
    /\ UNCHANGED <<walletRow, table, ledger, locks, day, asked, began, seen>>

\* Fault: a status the column's readers do not know.
SaveAsProcessing(c) ==
    /\ pc[c] = "saveApproval"
    /\ requestLock[target[c]] = NoCall
    /\ status' = [status EXCEPT ![target[c]] = "PROCESSING"]
    /\ Return(c)
    /\ UNCHANGED <<walletRow, amount, createdOn, rows, ledger, locks, day>>

\* save: an UPDATE by primary key, which waits for a lock on the row.
SaveApproval(c) ==
    /\ pc[c] = "saveApproval"
    /\ requestLock[target[c]] = NoCall
    /\ status' = [status EXCEPT ![target[c]] = "APPROVED"]
    /\ Return(c)
    /\ UNCHANGED <<walletRow, amount, createdOn, rows, ledger, locks, day>>

-----------------------------------------------------------------------------

\* A call ends without its effect: 2FA refused or timed out, no such bank
\* account, a database error, or the process died.  An open transaction rolls
\* back.
Fail(c) ==
    /\ pc[c] # "idle"
    /\ Unlock(c)
    /\ Return(c)
    /\ UNCHANGED <<walletRow, table, ledger, day>>

NewDay ==
    /\ day < MaxDay
    /\ day' = day + 1
    /\ UNCHANGED <<walletRow, table, ledger, locks, call>>

Begin(c) ==
    \/ \E a \in Amounts : BeginCreate(c, a)
    \/ \E r \in Requests : BeginCancel(c, r) \/ BeginApprove(c, r)

Proceed(c) ==
    \/ Verify2FA(c) \/ VerifyFiatAccount(c)
    \/ LockWallet(c) \/ InsufficientBalance(c) \/ Reserve(c)
    \/ LockRequest(c) \/ CancelConflict(c) \/ LockWalletForRefund(c) \/ Refund(c)
    \/ SaveApproval(c)

Next ==
    \/ NewDay
    \/ \E c \in Calls : Begin(c) \/ Proceed(c) \/ Fail(c)

Spec == Init /\ [][Next]_vars

\* The event loop resumes every call whose await is settled, 2FA answers within
\* its timeout, and PostgreSQL grants a row lock first come first served, so a
\* call that waits for a lock released again and again does get it.
FairSpec == Spec /\ \A c \in Calls : SF_vars(Proceed(c))

-----------------------------------------------------------------------------
(* Properties                                                              *)

Entries(type, r) ==
    {i \in DOMAIN ledger : ledger[i].type = type /\ ledger[i].request = r}

\* What request r still holds according to the ledger.
Held == [r \in Requests |->
            IF Entries("WITHDRAWAL", r) # {} /\ Entries("REFUND", r) = {}
            THEN amount[r] + Fee ELSE 0]

\* The locked balance is exactly what the requests that were not refunded
\* hold, however creations, cancellations and approvals interleave: the row
\* locks lose no update and no failure leaves half a movement.
LockedIsHeld == locked = Total(Held, MaxRequests)

\* No interleaving overdraws the wallet or releases more than was locked, and
\* moving money between the two columns creates or loses none.
FundsConserved ==
    available >= 0 /\ locked >= 0 /\ available + locked = InitialAvailable

\* ledger.service.ts calculateBalanceFromLedger: the amounts of the ledger add
\* up to what the available balance moved by, for audit.
LedgerExplainsAvailable ==
    available = InitialAvailable
                + Total([i \in DOMAIN ledger |-> ledger[i].amount], Len(ledger))

\* A request is entered once, refunded at most once and only after that, and
\* its status and the ledger agree: a pending request is not refunded, a
\* cancelled one is.
LedgerMatchesStatus ==
    \A r \in Requests :
        /\ Cardinality(Entries("REFUND", r)) <= Cardinality(Entries("WITHDRAWAL", r))
        /\ Cardinality(Entries("WITHDRAWAL", r)) = IF r <= rows THEN 1 ELSE 0
        /\ status[r] = "PENDING" => Entries("REFUND", r) = {}
        /\ status[r] = "CANCELLED" => Entries("REFUND", r) # {}

\* Funds come back only in the step that turns a pending request into a
\* cancelled one.
RefundIsCancellation ==
    [][\A r \in Requests :
          Held[r] > 0 /\ Held'[r] = 0 =>
              status[r] = "PENDING" /\ status'[r] = "CANCELLED"]_vars

\* No two calls wait for each other's row locks, and none waits for ever: every
\* call is answered.
EveryCallReturns ==
    \A c \in Calls : pc[c] # "idle" ~> pc[c] = "idle"

\* The refinement mapping: what request r reserved, and how far it got.
Claimed == [r \in Requests |-> IF r <= rows THEN amount[r] + Fee ELSE 0]
Phase == [r \in Requests |->
             IF Entries("WITHDRAWAL", r) = {} THEN "unused"
             ELSE IF Entries("REFUND", r) = {} THEN "held" ELSE "released"]

\* The handlers together implement the atomic reservation of funds.  Nothing in
\* this service spends locked funds and nothing credits a TRY wallet.
Reservation ==
    INSTANCE FundsReservation WITH
        Claims <- {a + Fee : a \in Amounts \cap (MinWithdrawal..MaxWithdrawal)},
        Credits <- {},
        InitialFunds <- InitialAvailable,
        free <- available,
        spent <- 0,
        funded <- InitialAvailable,
        claim <- Claimed,
        phase <- Phase

ImplementsReservation == Reservation!Spec

\* An approved withdrawal is going to be paid out of locked funds: it must
\* still hold them.  (withdrawal.controller.ts: "Balance is locked until
\* withdrawal is processed or cancelled".)
ApprovedIsHeld ==
    \A r \in Requests : status[r] = "APPROVED" => Held[r] > 0

\* No day has more than DailyLimit withdrawals that are not cancelled
\* ("Maximum 5 withdrawals per day").
DailyLimitHolds ==
    \A d \in 0..MaxDay :
        Cardinality({r \in Requests : /\ status[r] \notin {"NONE", "CANCELLED"}
                                      /\ createdOn[r] = d}) <= DailyLimit
=============================================================================
