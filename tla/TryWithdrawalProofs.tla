------------------------ MODULE TryWithdrawalProofs ------------------------
(***************************************************************************)
(* For every number of calls, requests and amounts: the row locks keep     *)
(* what a transaction read up to date until it commits, so the handlers    *)
(* implement the atomic reservation of funds, and the locked balance is    *)
(* what the requests that were not refunded hold.                          *)
(***************************************************************************)
EXTENDS TryWithdrawal, RunningTotalProofs, FiniteSetTheorems

\* The holder of the wallet row's lock is the one call between its SELECT FOR
\* UPDATE and its commit, and what it read is still what the row holds.  The
\* same for request rows, whose status cannot move under the lock.
WalletLockOK(c) ==
    /\ walletLock = c <=> pc[c] \in {"reserve", "refund"}
    /\ walletLock = c => seen[c].available = available /\ seen[c].locked = locked

RequestLockOK(c) ==
    /\ \A r \in Requests :
          requestLock[r] = c <=> /\ pc[c] \in {"lockWalletForRefund", "refund"}
                                 /\ target[c] = r
    /\ pc[c] \in {"lockRequest", "lockWalletForRefund", "refund", "saveApproval"}
          => target[c] \in 1..rows
    /\ pc[c] \in {"lockWalletForRefund", "refund"} => status[target[c]] = "PENDING"

\* A call that creates a request asks for an amount that passed validateAmount.
AskedOK(c) ==
    pc[c] \in {"verify2FA", "verifyFiatAccount", "lockWallet", "reserve"}
        => asked[c] \in Amounts \cap (MinWithdrawal..MaxWithdrawal)

CallsInv == \A c \in Calls : WalletLockOK(c) /\ RequestLockOK(c) /\ AskedOK(c)

\* How the rows and the ledger go together.
RowOK(r) ==
    /\ status[r] = "NONE" <=> r > rows
    /\ Entries("WITHDRAWAL", r) # {} <=> r <= rows
    /\ Entries("REFUND", r) # {} => r <= rows
    /\ status[r] = "PENDING" => Entries("REFUND", r) = {}

TableInv == \A r \in Requests : RowOK(r)

IInv == TypeOK /\ CallsInv /\ TableInv

-----------------------------------------------------------------------------

THEOREM InitIInv == Init => IInv
<1> SUFFICES ASSUME Init PROVE IInv
  OBVIOUS
<1> USE TryAssumption DEF Init
<1>1. TypeOK
  BY DEF TypeOK, Status, PC, Balances, NotRead
<1>2. CallsInv
  BY DEF CallsInv, WalletLockOK, RequestLockOK, AskedOK
<1>3. TableInv
  <2>1. \A t, r : Entries(t, r) = {}
    BY DEF Entries
  <2> QED BY <2>1 DEF TableInv, RowOK, Requests
<1> QED BY <1>1, <1>2, <1>3 DEF IInv

\* Appending an entry adds its index to the entries of its request and kind.
LEMMA EntriesAppend ==
    ASSUME NEW e \in Entry, ledger \in Seq(Entry), ledger' = Append(ledger, e),
           NEW t, NEW r
    PROVE  Entries(t, r)' = Entries(t, r) \cup
              (IF e.type = t /\ e.request = r THEN {Len(ledger) + 1} ELSE {})
<1>1. /\ DOMAIN ledger = 1..Len(ledger)
      /\ DOMAIN ledger' = 1..(Len(ledger) + 1)
      /\ Len(ledger) \in Nat
      /\ \A i \in 1..Len(ledger) : ledger'[i] = ledger[i]
      /\ ledger'[Len(ledger) + 1] = e
  OBVIOUS
<1> QED BY <1>1 DEF Entries

LEMMA EntriesSame ==
    ASSUME UNCHANGED ledger, NEW t, NEW r
    PROVE  Entries(t, r)' = Entries(t, r)
BY DEF Entries

\* What the end of a call does to the calls.
LEMMA ReturnEffect ==
    ASSUME TypeOK, NEW c \in Calls, Return(c)
    PROVE  /\ pc' \in [Calls -> PC] /\ asked' \in [Calls -> Nat]
           /\ target' \in [Calls -> 0..MaxRequests] /\ began' \in [Calls -> 0..MaxDay]
           /\ seen' \in [Calls -> Balances]
           /\ pc'[c] = "idle"
           /\ \A d \in Calls \ {c} : /\ pc'[d] = pc[d] /\ asked'[d] = asked[d]
                                     /\ target'[d] = target[d] /\ seen'[d] = seen[d]
BY TryAssumption, SMTT(30) DEF Return, Goto, TypeOK, PC, Balances, NotRead

\* What the end of a transaction does to the locks.
LEMMA UnlockEffect ==
    ASSUME TypeOK, NEW c \in Calls, Unlock(c)
    PROVE  /\ walletLock' \in Calls \cup {NoCall}
           /\ requestLock' \in [Requests -> Calls \cup {NoCall}]
           /\ walletLock' # c
           /\ \A r \in Requests : requestLock'[r] # c
           /\ \A d \in Calls \ {c} :
                 /\ walletLock' = d <=> walletLock = d
                 /\ \A r \in Requests : requestLock'[r] = d <=> requestLock[r] = d
BY TryAssumption DEF Unlock, TypeOK

\* A step of another call leaves alone what the invariant says of call d.
LEMMA OtherCall ==
    ASSUME TypeOK, NEW d \in Calls, WalletLockOK(d), RequestLockOK(d), AskedOK(d),
           pc'[d] = pc[d], asked'[d] = asked[d], target'[d] = target[d],
           seen'[d] = seen[d],
           walletLock' = d <=> walletLock = d,
           walletLock = d => available' = available /\ locked' = locked,
           \A r \in Requests : requestLock'[r] = d <=> requestLock[r] = d,
           \A r \in Requests : requestLock[r] = d => status'[r] = status[r],
           rows' \in 0..MaxRequests, rows <= rows'
    PROVE  WalletLockOK(d)' /\ RequestLockOK(d)' /\ AskedOK(d)'
<1>1. WalletLockOK(d)'
  BY DEF WalletLockOK
<1>2. AskedOK(d)'
  BY DEF AskedOK
<1>3. RequestLockOK(d)'
  <2>1. \A r \in Requests :
          requestLock'[r] = d <=> /\ pc'[d] \in {"lockWalletForRefund", "refund"}
                                  /\ target'[d] = r
    BY DEF RequestLockOK
  <2>2. pc'[d] \in {"lockRequest", "lockWalletForRefund", "refund", "saveApproval"}
          => target'[d] \in 1..rows'
    BY DEF RequestLockOK, TypeOK
  <2>3. pc'[d] \in {"lockWalletForRefund", "refund"} => status'[target'[d]] = "PENDING"
    <3> SUFFICES ASSUME pc[d] \in {"lockWalletForRefund", "refund"}
                 PROVE  status'[target[d]] = "PENDING"
      OBVIOUS
    <3>1. target[d] \in 1..rows /\ status[target[d]] = "PENDING"
      BY DEF RequestLockOK
    <3>2. target[d] \in Requests
      BY <3>1, TryAssumption DEF TypeOK, Requests
    <3>3. requestLock[target[d]] = d
      BY <3>2 DEF RequestLockOK
    <3> QED BY <3>1, <3>2, <3>3
  <2> QED BY <2>1, <2>2, <2>3 DEF RequestLockOK
<1> QED BY <1>1, <1>2, <1>3

\* Steps that touch neither the rows nor the ledger.
LEMMA TableSame ==
    ASSUME TableInv, UNCHANGED <<status, rows, ledger>>
    PROVE  TableInv'
BY EntriesSame DEF TableInv, RowOK

\* What the commit of a reservation adds to the ledger.
LEMMA ReserveLedger ==
    ASSUME TypeOK, TypeOK', NEW c \in Calls, Reserve(c),
           NEW q \in Requests, q = rows + 1
    PROVE  /\ Len(ledger') = Len(ledger) + 1 /\ Len(ledger) \in Nat
           /\ \A i \in 1..Len(ledger) : ledger'[i] = ledger[i]
           /\ ledger'[Len(ledger) + 1].amount = -(asked[c] + Fee)
           /\ \A r : Entries("REFUND", r)' = Entries("REFUND", r)
           /\ \A r : Entries("WITHDRAWAL", r)' =
                  Entries("WITHDRAWAL", r) \cup (IF q = r THEN {Len(ledger) + 1} ELSE {})
<1> DEFINE total == asked[c] + Fee
           e == [type |-> "WITHDRAWAL", request |-> q, amount |-> -total,
                 before |-> seen[c].available + (seen[c].locked + total) - total,
                 after |-> available' + locked']
<1>1. ledger' \in Seq(Entry) /\ ledger \in Seq(Entry) /\ ledger' = Append(ledger, e)
  BY DEF TypeOK, Reserve
<1>2. e.request = q /\ e.type = "WITHDRAWAL" /\ e.amount = -(asked[c] + Fee)
  OBVIOUS
<1> HIDE DEF e
<1>3. /\ Len(ledger') = Len(ledger) + 1 /\ Len(ledger) \in Nat
      /\ \A i \in 1..Len(ledger) : ledger'[i] = ledger[i]
      /\ ledger'[Len(ledger) + 1] = e
  BY <1>1
<1>4. e \in Entry
  BY <1>1, <1>3
<1>5. \A r : Entries("REFUND", r)' = Entries("REFUND", r) \cup
              (IF e.type = "REFUND" /\ e.request = r THEN {Len(ledger) + 1} ELSE {})
  BY <1>1, <1>4, EntriesAppend
<1>6. \A r : Entries("WITHDRAWAL", r)' = Entries("WITHDRAWAL", r) \cup
              (IF e.type = "WITHDRAWAL" /\ e.request = r THEN {Len(ledger) + 1} ELSE {})
  BY <1>1, <1>4, EntriesAppend
<1> QED BY <1>2, <1>3, <1>5, <1>6

\* What the commit of a cancellation adds to the ledger.
LEMMA RefundLedger ==
    ASSUME TypeOK, TypeOK', NEW c \in Calls, Refund(c),
           NEW q \in Requests, q = target[c]
    PROVE  /\ Len(ledger') = Len(ledger) + 1 /\ Len(ledger) \in Nat
           /\ \A i \in 1..Len(ledger) : ledger'[i] = ledger[i]
           /\ ledger'[Len(ledger) + 1].amount = amount[q] + Fee
           /\ \A r : Entries("WITHDRAWAL", r)' = Entries("WITHDRAWAL", r)
           /\ \A r : Entries("REFUND", r)' =
                  Entries("REFUND", r) \cup (IF q = r THEN {Len(ledger) + 1} ELSE {})
<1> DEFINE total == amount[q] + Fee
           e == [type |-> "REFUND", request |-> q, amount |-> total,
                 before |-> available' + locked',
                 after |-> available' + locked' + total]
<1>1. ledger' \in Seq(Entry) /\ ledger \in Seq(Entry) /\ ledger' = Append(ledger, e)
  BY DEF TypeOK, Refund
<1>2. e.request = q /\ e.type = "REFUND" /\ e.amount = amount[q] + Fee
  OBVIOUS
<1> HIDE DEF e
<1>3. /\ Len(ledger') = Len(ledger) + 1 /\ Len(ledger) \in Nat
      /\ \A i \in 1..Len(ledger) : ledger'[i] = ledger[i]
      /\ ledger'[Len(ledger) + 1] = e
  BY <1>1
<1>4. e \in Entry
  BY <1>1, <1>3
<1>5. \A r : Entries("REFUND", r)' = Entries("REFUND", r) \cup
              (IF e.type = "REFUND" /\ e.request = r THEN {Len(ledger) + 1} ELSE {})
  BY <1>1, <1>4, EntriesAppend
<1>6. \A r : Entries("WITHDRAWAL", r)' = Entries("WITHDRAWAL", r) \cup
              (IF e.type = "WITHDRAWAL" /\ e.request = r THEN {Len(ledger) + 1} ELSE {})
  BY <1>1, <1>4, EntriesAppend
<1> QED BY <1>2, <1>3, <1>5, <1>6

\* Every step keeps the inductive invariant.
LEMMA NextIInv == IInv /\ [Next]_vars => IInv'
<1> SUFFICES ASSUME IInv, [Next]_vars PROVE IInv'
  OBVIOUS
<1> USE TryAssumption
<1> USE DEF IInv, CallsInv, Requests, walletRow, table, locks, call
<1>1. ASSUME NEW c \in Calls, NEW a \in Amounts, BeginCreate(c, a)
      PROVE  IInv'
  <2>1. TypeOK'
    BY <1>1 DEF TypeOK, Status, Goto, PC, Balances, BeginCreate
  <2>2. ASSUME NEW d \in Calls, d # c
        PROVE  WalletLockOK(d)' /\ RequestLockOK(d)' /\ AskedOK(d)'
    <3>1. /\ pc'[d] = pc[d] /\ asked'[d] = asked[d]
          /\ target'[d] = target[d] /\ seen'[d] = seen[d]
      BY <1>1, <2>2 DEF TypeOK, Goto, BeginCreate
    <3>2. /\ walletLock' = d <=> walletLock = d
          /\ \A q \in Requests : requestLock'[q] = d <=> requestLock[q] = d
      BY <1>1, <2>2 DEF TypeOK, BeginCreate
    <3>3. /\ walletLock = d => available' = available /\ locked' = locked
          /\ \A q \in Requests : requestLock[q] = d => status'[q] = status[q]
          /\ rows' \in 0..MaxRequests /\ rows <= rows'
      BY <1>1, <2>2 DEF TypeOK, WalletLockOK, RequestLockOK, BeginCreate
    <3> QED BY <3>1, <3>2, <3>3, OtherCall
  <2>3. WalletLockOK(c)'
    BY <1>1 DEF TypeOK, WalletLockOK, Goto, BeginCreate
  <2>4. RequestLockOK(c)'
    <3>1. /\ pc[c] \notin {"lockWalletForRefund", "refund"} /\ pc'[c] = "verify2FA"
          /\ target'[c] = target[c] /\ UNCHANGED <<requestLock, rows>>
      BY <1>1 DEF TypeOK, Goto, BeginCreate
    <3> QED BY <3>1 DEF RequestLockOK
  <2>5. AskedOK(c)'
    BY <1>1 DEF TypeOK, AskedOK, Goto, BeginCreate
  <2>6. TableInv'
    BY <1>1, TableSame DEF BeginCreate
  <2> QED BY <2>1, <2>2, <2>3, <2>4, <2>5, <2>6
<1>2. ASSUME NEW c \in Calls, Verify2FA(c)
      PROVE  IInv'
  <2>1. TypeOK'
    BY <1>2 DEF TypeOK, Status, Goto, PC, Balances, Verify2FA
  <2>2. ASSUME NEW d \in Calls, d # c
        PROVE  WalletLockOK(d)' /\ RequestLockOK(d)' /\ AskedOK(d)'
    <3>1. /\ pc'[d] = pc[d] /\ asked'[d] = asked[d]
          /\ target'[d] = target[d] /\ seen'[d] = seen[d]
      BY <1>2, <2>2 DEF TypeOK, Goto, Verify2FA
    <3>2. /\ walletLock' = d <=> walletLock = d
          /\ \A q \in Requests : requestLock'[q] = d <=> requestLock[q] = d
      BY <1>2, <2>2 DEF TypeOK, Verify2FA
    <3>3. /\ walletLock = d => available' = available /\ locked' = locked
          /\ \A q \in Requests : requestLock[q] = d => status'[q] = status[q]
          /\ rows' \in 0..MaxRequests /\ rows <= rows'
      BY <1>2, <2>2 DEF TypeOK, WalletLockOK, RequestLockOK, Verify2FA
    <3> QED BY <3>1, <3>2, <3>3, OtherCall
  <2>3. WalletLockOK(c)'
    BY <1>2 DEF TypeOK, WalletLockOK, Goto, Verify2FA
  <2>4. RequestLockOK(c)'
    <3>1. /\ pc[c] \notin {"lockWalletForRefund", "refund"} /\ pc'[c] = "verifyFiatAccount"
          /\ target'[c] = target[c] /\ UNCHANGED <<requestLock, rows>>
      BY <1>2 DEF TypeOK, Goto, Verify2FA
    <3> QED BY <3>1 DEF RequestLockOK
  <2>5. AskedOK(c)'
    BY <1>2 DEF TypeOK, AskedOK, Goto, Verify2FA
  <2>6. TableInv'
    BY <1>2, TableSame DEF Verify2FA
  <2> QED BY <2>1, <2>2, <2>3, <2>4, <2>5, <2>6
<1>3. ASSUME NEW c \in Calls, VerifyFiatAccount(c)
      PROVE  IInv'
  <2>1. TypeOK'
    BY <1>3 DEF TypeOK, Status, Goto, PC, Balances, VerifyFiatAccount
  <2>2. ASSUME NEW d \in Calls, d # c
        PROVE  WalletLockOK(d)' /\ RequestLockOK(d)' /\ AskedOK(d)'
    <3>1. /\ pc'[d] = pc[d] /\ asked'[d] = asked[d]
          /\ target'[d] = target[d] /\ seen'[d] = seen[d]
      BY <1>3, <2>2 DEF TypeOK, Goto, VerifyFiatAccount
    <3>2. /\ walletLock' = d <=> walletLock = d
          /\ \A q \in Requests : requestLock'[q] = d <=> requestLock[q] = d
      BY <1>3, <2>2 DEF TypeOK, VerifyFiatAccount
    <3>3. /\ walletLock = d => available' = available /\ locked' = locked
          /\ \A q \in Requests : requestLock[q] = d => status'[q] = status[q]
          /\ rows' \in 0..MaxRequests /\ rows <= rows'
      BY <1>3, <2>2 DEF TypeOK, WalletLockOK, RequestLockOK, VerifyFiatAccount
    <3> QED BY <3>1, <3>2, <3>3, OtherCall
  <2>3. WalletLockOK(c)'
    BY <1>3 DEF TypeOK, WalletLockOK, Goto, VerifyFiatAccount
  <2>4. RequestLockOK(c)'
    <3>1. /\ pc[c] \notin {"lockWalletForRefund", "refund"} /\ pc'[c] = "lockWallet"
          /\ target'[c] = target[c] /\ UNCHANGED <<requestLock, rows>>
      BY <1>3 DEF TypeOK, Goto, VerifyFiatAccount
    <3> QED BY <3>1 DEF RequestLockOK
  <2>5. AskedOK(c)'
    BY <1>3 DEF TypeOK, AskedOK, Goto, VerifyFiatAccount
  <2>6. TableInv'
    BY <1>3, TableSame DEF VerifyFiatAccount
  <2> QED BY <2>1, <2>2, <2>3, <2>4, <2>5, <2>6
<1>4. ASSUME NEW c \in Calls, LockWallet(c)
      PROVE  IInv'
  <2>1. TypeOK'
    BY <1>4 DEF TypeOK, Status, Goto, PC, Balances, LockWallet, SelectWalletForUpdate
  <2>2. ASSUME NEW d \in Calls, d # c
        PROVE  WalletLockOK(d)' /\ RequestLockOK(d)' /\ AskedOK(d)'
    <3>1. /\ pc'[d] = pc[d] /\ asked'[d] = asked[d]
          /\ target'[d] = target[d] /\ seen'[d] = seen[d]
      BY <1>4, <2>2 DEF TypeOK, Goto, LockWallet, SelectWalletForUpdate
    <3>2. /\ walletLock' = d <=> walletLock = d
          /\ \A q \in Requests : requestLock'[q] = d <=> requestLock[q] = d
      BY <1>4, <2>2 DEF TypeOK, LockWallet, SelectWalletForUpdate
    <3>3. /\ walletLock = d => available' = available /\ locked' = locked
          /\ \A q \in Requests : requestLock[q] = d => status'[q] = status[q]
          /\ rows' \in 0..MaxRequests /\ rows <= rows'
      BY <1>4, <2>2 DEF TypeOK, WalletLockOK, RequestLockOK, LockWallet, SelectWalletForUpdate
    <3> QED BY <3>1, <3>2, <3>3, OtherCall
  <2>3. WalletLockOK(c)'
    BY <1>4 DEF TypeOK, WalletLockOK, Goto, LockWallet, SelectWalletForUpdate
  <2>4. RequestLockOK(c)'
    <3>1. /\ pc[c] \notin {"lockWalletForRefund", "refund"} /\ pc'[c] = "reserve"
          /\ target'[c] = target[c] /\ UNCHANGED <<requestLock, rows>>
      BY <1>4 DEF TypeOK, Goto, LockWallet, SelectWalletForUpdate
    <3> QED BY <3>1 DEF RequestLockOK
  <2>5. AskedOK(c)'
    BY <1>4 DEF TypeOK, AskedOK, Goto, LockWallet, SelectWalletForUpdate
  <2>6. TableInv'
    BY <1>4, TableSame DEF LockWallet, SelectWalletForUpdate
  <2> QED BY <2>1, <2>2, <2>3, <2>4, <2>5, <2>6
<1>5. ASSUME NEW c \in Calls, InsufficientBalance(c)
      PROVE  IInv'
  <2>0. TypeOK /\ Return(c) /\ Unlock(c)
    BY <1>5 DEF InsufficientBalance
  <2>1. TypeOK'
    BY <1>5, <2>0, ReturnEffect, UnlockEffect DEF TypeOK, Status, InsufficientBalance
  <2>2. ASSUME NEW d \in Calls, d # c
        PROVE  WalletLockOK(d)' /\ RequestLockOK(d)' /\ AskedOK(d)'
    <3>1. /\ pc'[d] = pc[d] /\ asked'[d] = asked[d]
          /\ target'[d] = target[d] /\ seen'[d] = seen[d]
      BY <1>5, <2>0, ReturnEffect, UnlockEffect, <2>2 DEF TypeOK, InsufficientBalance
    <3>2. /\ walletLock' = d <=> walletLock = d
          /\ \A q \in Requests : requestLock'[q] = d <=> requestLock[q] = d
      BY <1>5, <2>0, ReturnEffect, UnlockEffect, <2>2 DEF TypeOK, InsufficientBalance
    <3>3. /\ walletLock = d => available' = available /\ locked' = locked
          /\ \A q \in Requests : requestLock[q] = d => status'[q] = status[q]
          /\ rows' \in 0..MaxRequests /\ rows <= rows'
      BY <1>5, <2>0, ReturnEffect, UnlockEffect, <2>2 DEF TypeOK, WalletLockOK, RequestLockOK, InsufficientBalance
    <3> QED BY <3>1, <3>2, <3>3, OtherCall
  <2>3. WalletLockOK(c)'
    BY <1>5, <2>0, ReturnEffect, UnlockEffect DEF TypeOK, WalletLockOK, InsufficientBalance
  <2>4. RequestLockOK(c)'
    BY <1>5, <2>0, ReturnEffect, UnlockEffect DEF TypeOK, RequestLockOK, InsufficientBalance
  <2>5. AskedOK(c)'
    BY <1>5, <2>0, ReturnEffect, UnlockEffect DEF TypeOK, AskedOK, InsufficientBalance
  <2>6. TableInv'
    BY <1>5, TableSame DEF InsufficientBalance
  <2> QED BY <2>1, <2>2, <2>3, <2>4, <2>5, <2>6
<1>6. ASSUME NEW c \in Calls, Reserve(c)
      PROVE  IInv'
  <2>0. TypeOK /\ Return(c) /\ Unlock(c)
    BY <1>6 DEF Reserve
  <2>1. TypeOK'
    <3>1. /\ asked[c] \in Nat /\ began[c] \in 0..MaxDay /\ rows \in 0..MaxRequests
          /\ rows + 1 \in Requests
          /\ seen[c].available \in Int /\ seen[c].locked \in Int
      BY <1>6 DEF TypeOK, Balances, Reserve
    <3>2. available' \in Int /\ locked' \in Int
      <4>1. /\ available' = seen[c].available - (asked[c] + Fee)
            /\ locked' = seen[c].locked + (asked[c] + Fee)
        BY <1>6 DEF Reserve
      <4> QED BY <3>1, <4>1
    <3>3. ledger' \in Seq(Entry)
      <4> DEFINE e == [type |-> "WITHDRAWAL", request |-> rows + 1, amount |-> -(asked[c] + Fee),
                       before |-> seen[c].available + (seen[c].locked + (asked[c] + Fee))
                                     - (asked[c] + Fee),
                       after |-> available' + locked']
      <4>1. e \in Entry /\ ledger \in Seq(Entry)
        <5>1. e.amount \in Int /\ e.before \in Int /\ e.after \in Int
          BY <3>1, <3>2
        <5>2. ledger \in Seq(Entry)
          BY DEF TypeOK
        <5> QED BY <3>1, <5>1, <5>2 DEF Entry
      <4>2. ledger' = Append(ledger, e)
        BY <1>6 DEF Reserve
      <4> HIDE DEF e
      <4> QED BY <4>1, <4>2
    <3>4. /\ status' \in [Requests -> Status] /\ amount' \in [Requests -> Nat]
          /\ createdOn' \in [Requests -> 0..MaxDay] /\ rows' \in 0..MaxRequests
      <4>1. /\ status' = [status EXCEPT ![rows + 1] = "PENDING"]
            /\ amount' = [amount EXCEPT ![rows + 1] = asked[c]]
            /\ createdOn' = [createdOn EXCEPT ![rows + 1] = began[c]]
            /\ rows' = rows + 1
        BY <1>6 DEF Reserve
      <4> QED BY <3>1, <4>1, SMTT(30) DEF TypeOK, Status
    <3> QED BY <1>6, <2>0, ReturnEffect, UnlockEffect, <3>2, <3>3, <3>4 DEF TypeOK, Reserve
  <2>2. ASSUME NEW d \in Calls, d # c
        PROVE  WalletLockOK(d)' /\ RequestLockOK(d)' /\ AskedOK(d)'
    <3>1. /\ pc'[d] = pc[d] /\ asked'[d] = asked[d]
          /\ target'[d] = target[d] /\ seen'[d] = seen[d]
      BY <1>6, <2>0, ReturnEffect, UnlockEffect, <2>2 DEF TypeOK, Reserve
    <3>2. /\ walletLock' = d <=> walletLock = d
          /\ \A q \in Requests : requestLock'[q] = d <=> requestLock[q] = d
      BY <1>6, <2>0, ReturnEffect, UnlockEffect, <2>2 DEF TypeOK, Reserve
    <3>3. /\ walletLock = d => available' = available /\ locked' = locked
          /\ \A q \in Requests : requestLock[q] = d => status'[q] = status[q]
          /\ rows' \in 0..MaxRequests /\ rows <= rows'
      BY <1>6, <2>0, ReturnEffect, UnlockEffect, <2>2 DEF TypeOK, WalletLockOK, RequestLockOK, Reserve
    <3> QED BY <3>1, <3>2, <3>3, OtherCall
  <2>3. WalletLockOK(c)'
    BY <1>6, <2>0, ReturnEffect, UnlockEffect DEF TypeOK, WalletLockOK, Reserve
  <2>4. RequestLockOK(c)'
    BY <1>6, <2>0, ReturnEffect, UnlockEffect DEF TypeOK, RequestLockOK, Reserve
  <2>5. AskedOK(c)'
    BY <1>6, <2>0, ReturnEffect, UnlockEffect DEF TypeOK, AskedOK, Reserve
  <2>6. TableInv'
    <3>0. PICK q \in Requests : q = rows + 1
      BY <1>6 DEF TypeOK, Reserve
    <3>1. /\ rows \in 0..MaxRequests /\ rows' = q
          /\ status' = [status EXCEPT ![q] = "PENDING"]
      BY <1>6, <3>0 DEF TypeOK, Reserve
    <3>2. \A r \in Requests :
            /\ Entries("REFUND", r)' = Entries("REFUND", r)
            /\ Entries("WITHDRAWAL", r)' =
                  Entries("WITHDRAWAL", r) \cup (IF q = r THEN {Len(ledger) + 1} ELSE {})
      BY <1>6, <2>1, <3>0, ReserveLedger
    <3>3. \A r \in Requests : r # q => status'[r] = status[r]
      BY <3>1 DEF TypeOK
    <3>4. status'[q] = "PENDING"
      BY <3>1 DEF TypeOK
    <3>5. q \in Int /\ rows \in Int
      BY <3>1
    <3>6. RowOK(q)'
      <4>1. RowOK(q) /\ Entries("REFUND", q) = {}
        BY <3>0, <3>5 DEF TableInv, RowOK
      <4>2. Entries("WITHDRAWAL", q)' # {} /\ Entries("REFUND", q)' = {}
        BY <3>2, <4>1
      <4> QED BY <3>0, <3>1, <3>4, <3>5, <4>2 DEF RowOK
    <3>7. ASSUME NEW r \in Requests, r # q
          PROVE  RowOK(r)'
      <4>1. RowOK(r) /\ r \in Int
        BY DEF TableInv
      <4> QED BY <3>0, <3>1, <3>2, <3>3, <3>5, <3>7, <4>1 DEF RowOK
    <3> QED BY <3>6, <3>7 DEF TableInv
  <2> QED BY <2>1, <2>2, <2>3, <2>4, <2>5, <2>6
<1>7. ASSUME NEW c \in Calls, NEW r \in Requests, BeginCancel(c, r)
      PROVE  IInv'
  <2>1. TypeOK'
    <3>1. r \in 0..MaxRequests
      OBVIOUS
    <3> QED BY <1>7, <3>1 DEF TypeOK, Status, Goto, PC, Balances, BeginCancel
  <2>2. ASSUME NEW d \in Calls, d # c
        PROVE  WalletLockOK(d)' /\ RequestLockOK(d)' /\ AskedOK(d)'
    <3>1. /\ pc'[d] = pc[d] /\ asked'[d] = asked[d]
          /\ target'[d] = target[d] /\ seen'[d] = seen[d]
      BY <1>7, <2>2 DEF TypeOK, Goto, BeginCancel
    <3>2. /\ walletLock' = d <=> walletLock = d
          /\ \A q \in Requests : requestLock'[q] = d <=> requestLock[q] = d
      BY <1>7, <2>2 DEF TypeOK, BeginCancel
    <3>3. /\ walletLock = d => available' = available /\ locked' = locked
          /\ \A q \in Requests : requestLock[q] = d => status'[q] = status[q]
          /\ rows' \in 0..MaxRequests /\ rows <= rows'
      BY <1>7, <2>2 DEF TypeOK, WalletLockOK, RequestLockOK, BeginCancel
    <3> QED BY <3>1, <3>2, <3>3, OtherCall
  <2>3. WalletLockOK(c)'
    BY <1>7 DEF TypeOK, WalletLockOK, Goto, BeginCancel
  <2>4. RequestLockOK(c)'
    <3>0. r \in 0..MaxRequests /\ r \in 1..rows
      BY <1>7 DEF TypeOK, BeginCancel
    <3>1. /\ pc[c] \notin {"lockWalletForRefund", "refund"} /\ pc'[c] = "lockRequest"
          /\ target'[c] = r /\ UNCHANGED <<requestLock, rows>>
      BY <1>7, <3>0 DEF TypeOK, Goto, BeginCancel
    <3> QED BY <3>1, <3>0 DEF RequestLockOK
  <2>5. AskedOK(c)'
    BY <1>7 DEF TypeOK, AskedOK, Goto, BeginCancel
  <2>6. TableInv'
    BY <1>7, TableSame DEF BeginCancel
  <2> QED BY <2>1, <2>2, <2>3, <2>4, <2>5, <2>6
<1>8. ASSUME NEW c \in Calls, LockRequest(c)
      PROVE  IInv'
  <2>1. TypeOK'
    BY <1>8 DEF TypeOK, Status, Goto, PC, Balances, LockRequest
  <2>2. ASSUME NEW d \in Calls, d # c
        PROVE  WalletLockOK(d)' /\ RequestLockOK(d)' /\ AskedOK(d)'
    <3>1. /\ pc'[d] = pc[d] /\ asked'[d] = asked[d]
          /\ target'[d] = target[d] /\ seen'[d] = seen[d]
      BY <1>8, <2>2 DEF TypeOK, Goto, LockRequest
    <3>2. /\ walletLock' = d <=> walletLock = d
          /\ \A q \in Requests : requestLock'[q] = d <=> requestLock[q] = d
      BY <1>8, <2>2 DEF TypeOK, LockRequest
    <3>3. /\ walletLock = d => available' = available /\ locked' = locked
          /\ \A q \in Requests : requestLock[q] = d => status'[q] = status[q]
          /\ rows' \in 0..MaxRequests /\ rows <= rows'
      BY <1>8, <2>2 DEF TypeOK, WalletLockOK, RequestLockOK, LockRequest
    <3> QED BY <3>1, <3>2, <3>3, OtherCall
  <2>3. WalletLockOK(c)'
    BY <1>8 DEF TypeOK, WalletLockOK, Goto, LockRequest
  <2>4. RequestLockOK(c)'
    BY <1>8, SMTT(30) DEF TypeOK, RequestLockOK, Goto, LockRequest
  <2>5. AskedOK(c)'
    BY <1>8 DEF TypeOK, AskedOK, Goto, LockRequest
  <2>6. TableInv'
    BY <1>8, TableSame DEF LockRequest
  <2> QED BY <2>1, <2>2, <2>3, <2>4, <2>5, <2>6
<1>9. ASSUME NEW c \in Calls, CancelConflict(c)
      PROVE  IInv'
  <2>0. TypeOK /\ Return(c)
    BY <1>9 DEF CancelConflict
  <2>1. TypeOK'
    BY <1>9, <2>0, ReturnEffect DEF TypeOK, Status, CancelConflict
  <2>2. ASSUME NEW d \in Calls, d # c
        PROVE  WalletLockOK(d)' /\ RequestLockOK(d)' /\ AskedOK(d)'
    <3>1. /\ pc'[d] = pc[d] /\ asked'[d] = asked[d]
          /\ target'[d] = target[d] /\ seen'[d] = seen[d]
      BY <1>9, <2>0, ReturnEffect, <2>2 DEF TypeOK, CancelConflict
    <3>2. /\ walletLock' = d <=> walletLock = d
          /\ \A q \in Requests : requestLock'[q] = d <=> requestLock[q] = d
      BY <1>9, <2>0, ReturnEffect, <2>2 DEF TypeOK, CancelConflict
    <3>3. /\ walletLock = d => available' = available /\ locked' = locked
          /\ \A q \in Requests : requestLock[q] = d => status'[q] = status[q]
          /\ rows' \in 0..MaxRequests /\ rows <= rows'
      BY <1>9, <2>0, ReturnEffect, <2>2 DEF TypeOK, WalletLockOK, RequestLockOK, CancelConflict
    <3> QED BY <3>1, <3>2, <3>3, OtherCall
  <2>3. WalletLockOK(c)'
    BY <1>9, <2>0, ReturnEffect DEF TypeOK, WalletLockOK, CancelConflict
  <2>4. RequestLockOK(c)'
    <3>1. /\ \A r \in Requests : requestLock'[r] # c
          /\ pc'[c] = "idle"
      BY <1>9, <2>0, ReturnEffect DEF TypeOK, RequestLockOK, CancelConflict
    <3> QED BY <3>1 DEF RequestLockOK
  <2>5. AskedOK(c)'
    BY <1>9, <2>0, ReturnEffect DEF TypeOK, AskedOK, CancelConflict
  <2>6. TableInv'
    BY <1>9, TableSame DEF CancelConflict
  <2> QED BY <2>1, <2>2, <2>3, <2>4, <2>5, <2>6
<1>10. ASSUME NEW c \in Calls, LockWalletForRefund(c)
      PROVE  IInv'
  <2>1. TypeOK'
    BY <1>10 DEF TypeOK, Status, Goto, PC, Balances, LockWalletForRefund, SelectWalletForUpdate
  <2>2. ASSUME NEW d \in Calls, d # c
        PROVE  WalletLockOK(d)' /\ RequestLockOK(d)' /\ AskedOK(d)'
    <3>1. /\ pc'[d] = pc[d] /\ asked'[d] = asked[d]
          /\ target'[d] = target[d] /\ seen'[d] = seen[d]
      BY <1>10, <2>2 DEF TypeOK, Goto, LockWalletForRefund, SelectWalletForUpdate
    <3>2. /\ walletLock' = d <=> walletLock = d
          /\ \A q \in Requests : requestLock'[q] = d <=> requestLock[q] = d
      BY <1>10, <2>2 DEF TypeOK, LockWalletForRefund, SelectWalletForUpdate
    <3>3. /\ walletLock = d => available' = available /\ locked' = locked
          /\ \A q \in Requests : requestLock[q] = d => status'[q] = status[q]
          /\ rows' \in 0..MaxRequests /\ rows <= rows'
      BY <1>10, <2>2 DEF TypeOK, WalletLockOK, RequestLockOK, LockWalletForRefund, SelectWalletForUpdate
    <3> QED BY <3>1, <3>2, <3>3, OtherCall
  <2>3. WalletLockOK(c)'
    BY <1>10 DEF TypeOK, WalletLockOK, Goto, LockWalletForRefund, SelectWalletForUpdate
  <2>4. RequestLockOK(c)'
    <3>1. /\ pc[c] = "lockWalletForRefund" /\ pc'[c] = "refund"
          /\ UNCHANGED <<requestLock, rows, target, status>>
      BY <1>10 DEF TypeOK, Goto, LockWalletForRefund, SelectWalletForUpdate
    <3> QED BY <3>1 DEF RequestLockOK
  <2>5. AskedOK(c)'
    BY <1>10 DEF TypeOK, AskedOK, Goto, LockWalletForRefund, SelectWalletForUpdate
  <2>6. TableInv'
    BY <1>10, TableSame DEF LockWalletForRefund, SelectWalletForUpdate
  <2> QED BY <2>1, <2>2, <2>3, <2>4, <2>5, <2>6
<1>11. ASSUME NEW c \in Calls, Refund(c)
      PROVE  IInv'
  <2>0. TypeOK /\ Return(c) /\ Unlock(c)
    BY <1>11 DEF Refund
  <2>1. TypeOK'
    <3>1. /\ target[c] \in Requests /\ amount[target[c]] \in Nat
          /\ seen[c].available \in Int /\ seen[c].locked \in Int
      BY <1>11 DEF TypeOK, Balances, Refund, RequestLockOK
    <3>2. available' \in Int /\ locked' \in Int
      <4>1. /\ available' = seen[c].available + (amount[target[c]] + Fee)
            /\ locked' = seen[c].locked - (amount[target[c]] + Fee)
        BY <1>11 DEF Refund
      <4> QED BY <3>1, <4>1
    <3>3. ledger' \in Seq(Entry)
      <4> DEFINE e == [type |-> "REFUND", request |-> target[c], amount |-> amount[target[c]] + Fee,
                       before |-> available' + locked',
                       after |-> available' + locked' + (amount[target[c]] + Fee)]
      <4>1. e \in Entry /\ ledger \in Seq(Entry)
        <5>1. e.amount \in Int /\ e.before \in Int /\ e.after \in Int
          BY <3>1, <3>2
        <5>2. ledger \in Seq(Entry)
          BY DEF TypeOK
        <5> QED BY <3>1, <5>1, <5>2 DEF Entry
      <4>2. ledger' = Append(ledger, e)
        BY <1>11 DEF Refund
      <4> HIDE DEF e
      <4> QED BY <4>1, <4>2
    <3>4. status' \in [Requests -> Status]
      BY <1>11, <3>1 DEF Refund, TypeOK, Status
    <3> QED BY <1>11, <2>0, ReturnEffect, UnlockEffect, <3>2, <3>3, <3>4 DEF TypeOK, Refund
  <2>2. ASSUME NEW d \in Calls, d # c
        PROVE  WalletLockOK(d)' /\ RequestLockOK(d)' /\ AskedOK(d)'
    <3>1. /\ pc'[d] = pc[d] /\ asked'[d] = asked[d]
          /\ target'[d] = target[d] /\ seen'[d] = seen[d]
      BY <1>11, <2>0, ReturnEffect, UnlockEffect, <2>2 DEF TypeOK, Refund
    <3>2. /\ walletLock' = d <=> walletLock = d
          /\ \A q \in Requests : requestLock'[q] = d <=> requestLock[q] = d
      BY <1>11, <2>0, ReturnEffect, UnlockEffect, <2>2 DEF TypeOK, Refund
    <3>3. /\ walletLock = d => available' = available /\ locked' = locked
          /\ \A q \in Requests : requestLock[q] = d => status'[q] = status[q]
          /\ rows' \in 0..MaxRequests /\ rows <= rows'
      BY <1>11, <2>0, ReturnEffect, UnlockEffect, <2>2 DEF TypeOK, WalletLockOK, RequestLockOK, Refund
    <3> QED BY <3>1, <3>2, <3>3, OtherCall
  <2>3. WalletLockOK(c)'
    BY <1>11, <2>0, ReturnEffect, UnlockEffect DEF TypeOK, WalletLockOK, Refund
  <2>4. RequestLockOK(c)'
    BY <1>11, <2>0, ReturnEffect, UnlockEffect DEF TypeOK, RequestLockOK, Refund
  <2>5. AskedOK(c)'
    BY <1>11, <2>0, ReturnEffect, UnlockEffect DEF TypeOK, AskedOK, Refund
  <2>6. TableInv'
    <3>0. PICK q \in Requests : q = target[c] /\ q <= rows
      BY <1>11 DEF TypeOK, Refund, RequestLockOK
    <3>1. /\ rows \in 0..MaxRequests /\ rows' = rows
          /\ status' = [status EXCEPT ![q] = "CANCELLED"]
      BY <1>11, <3>0 DEF TypeOK, Refund
    <3>2. \A r \in Requests :
            /\ Entries("WITHDRAWAL", r)' = Entries("WITHDRAWAL", r)
            /\ Entries("REFUND", r)' =
                  Entries("REFUND", r) \cup (IF q = r THEN {Len(ledger) + 1} ELSE {})
      BY <1>11, <2>1, <3>0, RefundLedger
    <3>3. \A r \in Requests : r # q => status'[r] = status[r]
      BY <3>1 DEF TypeOK
    <3>4. status'[q] = "CANCELLED"
      BY <3>1 DEF TypeOK
    <3>5. q \in Int /\ rows \in Int
      BY <3>1
    <3>6. RowOK(q)'
      BY <3>0, <3>1, <3>2, <3>4, <3>5 DEF TableInv, RowOK
    <3>7. ASSUME NEW r \in Requests, r # q
          PROVE  RowOK(r)'
      <4>1. RowOK(r) /\ r \in Int
        BY DEF TableInv
      <4> QED BY <3>0, <3>1, <3>2, <3>3, <3>5, <3>7, <4>1 DEF RowOK
    <3> QED BY <3>6, <3>7 DEF TableInv
  <2> QED BY <2>1, <2>2, <2>3, <2>4, <2>5, <2>6
<1>12. ASSUME NEW c \in Calls, NEW r \in Requests, BeginApprove(c, r)
      PROVE  IInv'
  <2>1. TypeOK'
    <3>1. r \in 0..MaxRequests
      OBVIOUS
    <3> QED BY <1>12, <3>1 DEF TypeOK, Status, Goto, PC, Balances, BeginApprove
  <2>2. ASSUME NEW d \in Calls, d # c
        PROVE  WalletLockOK(d)' /\ RequestLockOK(d)' /\ AskedOK(d)'
    <3>1. /\ pc'[d] = pc[d] /\ asked'[d] = asked[d]
          /\ target'[d] = target[d] /\ seen'[d] = seen[d]
      BY <1>12, <2>2 DEF TypeOK, Goto, BeginApprove
    <3>2. /\ walletLock' = d <=> walletLock = d
          /\ \A q \in Requests : requestLock'[q] = d <=> requestLock[q] = d
      BY <1>12, <2>2 DEF TypeOK, BeginApprove
    <3>3. /\ walletLock = d => available' = available /\ locked' = locked
          /\ \A q \in Requests : requestLock[q] = d => status'[q] = status[q]
          /\ rows' \in 0..MaxRequests /\ rows <= rows'
      BY <1>12, <2>2 DEF TypeOK, WalletLockOK, RequestLockOK, BeginApprove
    <3> QED BY <3>1, <3>2, <3>3, OtherCall
  <2>3. WalletLockOK(c)'
    BY <1>12 DEF TypeOK, WalletLockOK, Goto, BeginApprove
  <2>4. RequestLockOK(c)'
    <3>0. r \in 0..MaxRequests /\ r \in 1..rows
      BY <1>12 DEF TypeOK, BeginApprove
    <3>1. /\ pc[c] \notin {"lockWalletForRefund", "refund"} /\ pc'[c] = "saveApproval"
          /\ target'[c] = r /\ UNCHANGED <<requestLock, rows>>
      BY <1>12, <3>0 DEF TypeOK, Goto, BeginApprove
    <3> QED BY <3>1, <3>0 DEF RequestLockOK
  <2>5. AskedOK(c)'
    BY <1>12 DEF TypeOK, AskedOK, Goto, BeginApprove
  <2>6. TableInv'
    BY <1>12, TableSame DEF BeginApprove
  <2> QED BY <2>1, <2>2, <2>3, <2>4, <2>5, <2>6
<1>13. ASSUME NEW c \in Calls, SaveApproval(c)
      PROVE  IInv'
  <2>0. TypeOK /\ Return(c)
    BY <1>13 DEF SaveApproval
  <2>1. TypeOK'
    BY <1>13, <2>0, ReturnEffect DEF TypeOK, Status, SaveApproval
  <2>2. ASSUME NEW d \in Calls, d # c
        PROVE  WalletLockOK(d)' /\ RequestLockOK(d)' /\ AskedOK(d)'
    <3>1. /\ pc'[d] = pc[d] /\ asked'[d] = asked[d]
          /\ target'[d] = target[d] /\ seen'[d] = seen[d]
      BY <1>13, <2>0, ReturnEffect, <2>2 DEF TypeOK, SaveApproval
    <3>2. /\ walletLock' = d <=> walletLock = d
          /\ \A q \in Requests : requestLock'[q] = d <=> requestLock[q] = d
      BY <1>13, <2>0, ReturnEffect, <2>2 DEF TypeOK, SaveApproval
    <3>3. /\ walletLock = d => available' = available /\ locked' = locked
          /\ \A q \in Requests : requestLock[q] = d => status'[q] = status[q]
          /\ rows' \in 0..MaxRequests /\ rows <= rows'
      BY <1>13, <2>0, ReturnEffect, <2>2 DEF TypeOK, WalletLockOK, RequestLockOK, SaveApproval
    <3> QED BY <3>1, <3>2, <3>3, OtherCall
  <2>3. WalletLockOK(c)'
    BY <1>13, <2>0, ReturnEffect DEF TypeOK, WalletLockOK, SaveApproval
  <2>4. RequestLockOK(c)'
    <3>1. /\ pc[c] = "saveApproval" /\ pc'[c] = "idle" /\ UNCHANGED requestLock
      BY <1>13, <2>0, ReturnEffect DEF TypeOK, SaveApproval
    <3> QED BY <3>1 DEF RequestLockOK
  <2>5. AskedOK(c)'
    BY <1>13, <2>0, ReturnEffect DEF TypeOK, AskedOK, SaveApproval
  <2>6. TableInv'
    <3>1. /\ target[c] \in 1..rows /\ rows \in 0..MaxRequests /\ UNCHANGED <<rows, ledger>>
          /\ status' = [status EXCEPT ![target[c]] = "APPROVED"]
      BY <1>13 DEF SaveApproval, RequestLockOK, TypeOK
    <3>2. ASSUME NEW r \in Requests
          PROVE  RowOK(r)'
      <4>1. RowOK(r) /\ status' \in [Requests -> Status]
        BY <2>1 DEF TableInv, TypeOK
      <4>2. CASE r = target[c]
        BY <3>1, <4>1, <4>2, EntriesSame DEF RowOK, TypeOK
      <4>3. CASE r # target[c]
        BY <3>1, <4>1, <4>3, EntriesSame DEF RowOK, TypeOK
      <4> QED BY <4>2, <4>3
    <3> QED BY <3>2 DEF TableInv
  <2> QED BY <2>1, <2>2, <2>3, <2>4, <2>5, <2>6
<1>14. ASSUME NEW c \in Calls, Fail(c)
      PROVE  IInv'
  <2>0. TypeOK /\ Return(c) /\ Unlock(c)
    BY <1>14 DEF Fail
  <2>1. TypeOK'
    BY <1>14, <2>0, ReturnEffect, UnlockEffect DEF TypeOK, Status, Fail
  <2>2. ASSUME NEW d \in Calls, d # c
        PROVE  WalletLockOK(d)' /\ RequestLockOK(d)' /\ AskedOK(d)'
    <3>1. /\ pc'[d] = pc[d] /\ asked'[d] = asked[d]
          /\ target'[d] = target[d] /\ seen'[d] = seen[d]
      BY <1>14, <2>0, ReturnEffect, UnlockEffect, <2>2, SMTT(30) DEF TypeOK, Fail
    <3>2. /\ walletLock' = d <=> walletLock = d
          /\ \A q \in Requests : requestLock'[q] = d <=> requestLock[q] = d
      BY <1>14, <2>0, ReturnEffect, UnlockEffect, <2>2 DEF TypeOK, Fail
    <3>3. /\ walletLock = d => available' = available /\ locked' = locked
          /\ \A q \in Requests : requestLock[q] = d => status'[q] = status[q]
          /\ rows' \in 0..MaxRequests /\ rows <= rows'
      BY <1>14, <2>0, ReturnEffect, UnlockEffect, <2>2 DEF TypeOK, WalletLockOK, RequestLockOK, Fail
    <3> QED BY <3>1, <3>2, <3>3, OtherCall
  <2>3. WalletLockOK(c)'
    BY <1>14, <2>0, ReturnEffect, UnlockEffect DEF TypeOK, WalletLockOK, Fail
  <2>4. RequestLockOK(c)'
    <3>1. /\ \A r \in Requests : requestLock'[r] # c
          /\ pc'[c] = "idle"
      BY <2>0, ReturnEffect, UnlockEffect
    <3> QED BY <3>1 DEF RequestLockOK
  <2>5. AskedOK(c)'
    BY <1>14, <2>0, ReturnEffect, UnlockEffect DEF TypeOK, AskedOK, Fail
  <2>6. TableInv'
    BY <1>14, TableSame DEF Fail
  <2> QED BY <2>1, <2>2, <2>3, <2>4, <2>5, <2>6
<1>15. CASE NewDay
  <2>1. TableInv'
    BY <1>15, TableSame DEF NewDay
  <2>2. TypeOK'
    BY <1>15 DEF NewDay, TypeOK
  <2>3. CallsInv'
    BY <1>15 DEF NewDay, WalletLockOK, RequestLockOK, AskedOK
  <2> QED BY <2>1, <2>2, <2>3
<1>16. CASE UNCHANGED vars
  <2>1. TableInv'
    BY <1>16, TableSame DEF vars
  <2>2. TypeOK'
    BY <1>16 DEF vars, TypeOK
  <2>3. CallsInv'
    BY <1>16 DEF vars, WalletLockOK, RequestLockOK, AskedOK
  <2> QED BY <2>1, <2>2, <2>3
<1> QED
  BY <1>1, <1>2, <1>3, <1>4, <1>5, <1>6, <1>7, <1>8, <1>9, <1>10, <1>11, <1>12, <1>13, <1>14, <1>15, <1>16 DEF Next, Begin, Proceed

-----------------------------------------------------------------------------
\* Spec and its invariants.

\* Every variable of the service keeps the type the model declares for it.
THEOREM TypeCorrect == Spec => []TypeOK
<1>1. IInv => TypeOK
  BY DEF IInv
<1> QED BY <1>1, InitIInv, NextIInv, PTL DEF Spec

\* A call that commits moves exactly the money of its own request, computed
\* from what the wallet holds at the commit.
LEMMA ReserveFunds ==
    ASSUME IInv, NEW c \in Calls, Reserve(c)
    PROVE  /\ asked[c] \in Amounts \cap (MinWithdrawal..MaxWithdrawal)
           /\ asked[c] + Fee \in Nat
           /\ rows + 1 \in Requests
           /\ asked[c] + Fee <= available
           /\ available' = available - (asked[c] + Fee)
           /\ locked' = locked + (asked[c] + Fee)
           /\ rows' = rows + 1
           /\ amount' = [amount EXCEPT ![rows + 1] = asked[c]]
<1>1. seen[c].available = available /\ seen[c].locked = locked
  BY DEF Reserve, IInv, CallsInv, WalletLockOK
<1>2. asked[c] \in Amounts \cap (MinWithdrawal..MaxWithdrawal)
  BY DEF Reserve, IInv, CallsInv, AskedOK
<1>3. asked[c] + Fee \in Nat
  BY TryAssumption DEF IInv, TypeOK
<1>4. rows + 1 \in Requests
  BY TryAssumption DEF Reserve, IInv, TypeOK, Requests
<1>5. asked[c] + Fee <= available
  BY <1>1 DEF Reserve, Affordable
<1> QED BY <1>1, <1>2, <1>3, <1>4, <1>5 DEF Reserve

LEMMA RefundFunds ==
    ASSUME IInv, NEW c \in Calls, Refund(c)
    PROVE  /\ target[c] \in Requests /\ target[c] <= rows
           /\ amount[target[c]] + Fee \in Nat
           /\ status[target[c]] = "PENDING"
           /\ status'[target[c]] = "CANCELLED"
           /\ available' = available + (amount[target[c]] + Fee)
           /\ locked' = locked - (amount[target[c]] + Fee)
           /\ UNCHANGED <<amount, rows>>
<1>1. seen[c].available = available /\ seen[c].locked = locked
  BY DEF Refund, IInv, CallsInv, WalletLockOK
<1>2. target[c] \in 1..rows /\ status[target[c]] = "PENDING"
  BY DEF Refund, IInv, CallsInv, RequestLockOK
<1>3. target[c] \in Requests /\ target[c] <= rows
  BY <1>2, TryAssumption DEF IInv, TypeOK, Requests
<1>4. amount[target[c]] + Fee \in Nat
  BY <1>3, TryAssumption DEF IInv, TypeOK
<1>5. status'[target[c]] = "CANCELLED"
  BY <1>3 DEF Refund, IInv, TypeOK
<1> QED BY <1>1, <1>2, <1>3, <1>4, <1>5 DEF Refund

\* Every other step leaves the wallet, the rows and the ledger alone.
LEMMA OtherSteps ==
    ASSUME [Next]_vars, ~ \E c \in Calls : Reserve(c) \/ Refund(c)
    PROVE  UNCHANGED <<available, locked, amount, rows, ledger>>
BY DEF Next, Begin, Proceed, NewDay, Fail, BeginCreate, Verify2FA, VerifyFiatAccount,
       LockWallet, LockWalletForRefund, SelectWalletForUpdate, InsufficientBalance,
       BeginCancel, LockRequest, CancelConflict, BeginApprove, SaveApproval,
       vars, walletRow, table, locks, call

-----------------------------------------------------------------------------
\* The handlers implement the atomic reservation.

LEMMA InitRefines == Init => Reservation!Init
<1> SUFFICES ASSUME Init PROVE Reservation!Init
  OBVIOUS
<1>1. \A t, r : Entries(t, r) = {}
  BY DEF Entries, Init
<1>2. Claimed = [r \in Requests |-> 0] /\ Phase = [r \in Requests |-> "unused"]
  BY <1>1, TryAssumption DEF Claimed, Phase, Init, Requests
<1> QED BY <1>2 DEF Init, Reservation!Init, Reservation!Requests, Requests

\* Every step of the handlers is one atomic operation on the funds, or none.
LEMMA NextRefines == IInv /\ IInv' /\ [Next]_vars => [Reservation!Next]_(Reservation!vars)
<1> SUFFICES ASSUME IInv, IInv', [Next]_vars PROVE [Reservation!Next]_(Reservation!vars)
  OBVIOUS
<1> USE TryAssumption
<1>0. TypeOK /\ TypeOK'
  BY DEF IInv
<1>1. ASSUME UNCHANGED <<available, locked, amount, rows, ledger>>
      PROVE  UNCHANGED Reservation!vars
  <2>1. \A t, r : Entries(t, r)' = Entries(t, r)
    BY <1>1, EntriesSame
  <2> QED BY <1>1, <2>1 DEF Reservation!vars, Claimed, Phase
<1>2. ASSUME NEW c \in Calls, Reserve(c)
      PROVE  Reservation!Next
  <2>1. PICK q \in Requests : q = rows + 1
    BY <1>2, ReserveFunds
  <2>2. PICK n \in Nat : n = asked[c] + Fee
    BY <1>2, ReserveFunds
  <2>3. n \in {a + Fee : a \in Amounts \cap (MinWithdrawal..MaxWithdrawal)}
    BY <1>2, <2>2, ReserveFunds
  <2>4. n <= available /\ available' = available - n /\ locked' = locked + n
    BY <1>2, <2>2, ReserveFunds
  <2>5. Claimed' = [Claimed EXCEPT ![q] = n]
    <3>1. rows' = q /\ amount' = [amount EXCEPT ![q] = asked[c]]
      BY <1>2, <2>1, ReserveFunds
    <3>2. rows \in Nat
      BY <1>0 DEF TypeOK
    <3>3. ASSUME NEW r \in Requests
          PROVE  Claimed'[r] = IF r = q THEN n ELSE Claimed[r]
      <4>1. Claimed'[r] = IF r <= q THEN amount'[r] + Fee ELSE 0
        BY <3>1 DEF Claimed
      <4>2. amount'[r] = IF r = q THEN asked[c] ELSE amount[r]
        BY <1>0, <3>1 DEF TypeOK
      <4>3. r \in Int /\ q \in Int
        BY <2>1, <3>2 DEF Requests
      <4>4. CASE r = q
        BY <2>2, <4>1, <4>2, <4>3, <4>4
      <4>5. CASE r # q
        BY <2>1, <3>2, <4>1, <4>2, <4>3, <4>5 DEF Claimed
      <4> QED BY <4>4, <4>5
    <3>4. /\ Claimed = [r \in Requests |-> Claimed[r]]
          /\ Claimed' = [r \in Requests |-> Claimed'[r]]
      BY DEF Claimed
    <3> HIDE DEF Claimed
    <3> QED BY <3>3, <3>4
  <2>6. Phase[q] = "unused" /\ Phase' = [Phase EXCEPT ![q] = "held"]
    <3>1. \A r \in Requests :
            /\ Entries("REFUND", r)' = Entries("REFUND", r)
            /\ Entries("WITHDRAWAL", r)' =
                  Entries("WITHDRAWAL", r) \cup (IF q = r THEN {Len(ledger) + 1} ELSE {})
      BY <1>0, <1>2, <2>1, ReserveLedger
    <3>2. Entries("WITHDRAWAL", q) = {} /\ Entries("REFUND", q) = {}
      <4>1. RowOK(q) /\ rows \in Nat
        BY <1>0 DEF IInv, TableInv, TypeOK
      <4> QED BY <2>1, <4>1 DEF RowOK
    <3> QED BY <3>1, <3>2 DEF Phase
  <2>7. Reservation!Reserve(q, n)
    BY <2>4, <2>5, <2>6 DEF Reservation!Reserve
  <2> QED BY <2>3, <2>7 DEF Reservation!Next, Reservation!Requests, Requests
<1>3. ASSUME NEW c \in Calls, Refund(c)
      PROVE  Reservation!Next
  <2>1. PICK q \in Requests : q = target[c] /\ q <= rows /\ status[q] = "PENDING"
    BY <1>3, RefundFunds
  <2>2. PICK n \in Nat : n = amount[q] + Fee
    BY <1>3, <2>1, RefundFunds
  <2>3. available' = available + n /\ locked' = locked - n /\ UNCHANGED <<amount, rows>>
    BY <1>3, <2>1, <2>2, RefundFunds
  <2>4. Claimed[q] = n /\ Claimed' = Claimed
    BY <2>1, <2>2, <2>3 DEF Claimed
  <2>5. Phase[q] = "held" /\ Phase' = [Phase EXCEPT ![q] = "released"]
    <3>1. \A r \in Requests :
            /\ Entries("WITHDRAWAL", r)' = Entries("WITHDRAWAL", r)
            /\ Entries("REFUND", r)' =
                  Entries("REFUND", r) \cup (IF q = r THEN {Len(ledger) + 1} ELSE {})
      BY <1>0, <1>3, <2>1, RefundLedger
    <3>2. Entries("WITHDRAWAL", q) # {} /\ Entries("REFUND", q) = {}
      <4>1. RowOK(q)
        BY DEF IInv, TableInv
      <4> QED BY <2>1, <4>1 DEF RowOK
    <3> QED BY <3>1, <3>2 DEF Phase
  <2>6. Reservation!Release(q)
    BY <2>3, <2>4, <2>5 DEF Reservation!Release
  <2> QED BY <2>6 DEF Reservation!Next, Reservation!Requests, Requests
<1> QED BY <1>1, <1>2, <1>3, OtherSteps

\* However its handlers interleave and fail, the service implements the atomic
\* reservation of funds.
THEOREM ServiceImplementsReservation == Spec => ImplementsReservation
<1> QED BY InitIInv, NextIInv, InitRefines, NextRefines, PTL
        DEF Spec, ImplementsReservation, Reservation!Spec

-----------------------------------------------------------------------------
\* What the reservation promises holds of the service.

Sound ==
    INSTANCE FundsReservationProofs WITH
        Claims <- {a + Fee : a \in Amounts \cap (MinWithdrawal..MaxWithdrawal)},
        Credits <- {},
        InitialFunds <- InitialAvailable,
        free <- available,
        spent <- 0,
        funded <- InitialAvailable,
        claim <- Claimed,
        phase <- Phase

\* Under the mapping, what the reservation calls held is what the ledger says.
LEMMA SoundMeans == IInv /\ Sound!SoundFunds => LockedIsHeld /\ FundsConserved
<1> SUFFICES ASSUME IInv, Sound!SoundFunds PROVE LockedIsHeld /\ FundsConserved
  OBVIOUS
<1>1. Sound!Held = Held
  <2>1. ASSUME NEW r \in Requests
        PROVE  (IF Phase[r] = "held" THEN Claimed[r] ELSE 0)
               = (IF Entries("WITHDRAWAL", r) # {} /\ Entries("REFUND", r) = {}
                  THEN amount[r] + Fee ELSE 0)
    <3>1. Entries("WITHDRAWAL", r) # {} => r <= rows
      BY DEF IInv, TableInv, RowOK
    <3> QED BY <3>1 DEF Phase, Claimed
  <2> QED BY <2>1 DEF Sound!Held, Sound!Requests, Held, Requests
<1>2. LockedIsHeld
  <2>1. Sound!Total(Held, MaxRequests) = Total(Held, MaxRequests)
    BY DEF Sound!Total, Total
  <2> QED BY <1>1, <2>1 DEF Sound!SoundFunds, Sound!LockedIsHeld, LockedIsHeld
<1>3. FundsConserved
  BY TryAssumption DEF Sound!SoundFunds, Sound!Solvent, Sound!Conserved, FundsConserved,
                       IInv, TypeOK
<1> QED BY <1>2, <1>3

\* The locked balance is always exactly what the requests that were not
\* refunded hold, and money is neither overdrawn, created nor lost.
THEOREM FundsAreSafe == Spec => [](LockedIsHeld /\ FundsConserved)
<1>1. Sound!ReservationAssumption
  BY TryAssumption DEF Sound!ReservationAssumption
<1>2. Sound!Spec => []Sound!SoundFunds
  BY <1>1, Sound!ReservationIsSound
<1>3. Spec => Sound!Spec
  BY ServiceImplementsReservation DEF ImplementsReservation, Reservation!Spec, Sound!Spec,
     Reservation!Init, Sound!Init, Reservation!Next, Sound!Next, Reservation!vars, Sound!vars,
     Reservation!Reserve, Sound!Reserve, Reservation!Release, Sound!Release,
     Reservation!Settle, Sound!Settle, Reservation!Credit, Sound!Credit,
     Reservation!Requests, Sound!Requests
<1> QED BY <1>2, <1>3, InitIInv, NextIInv, SoundMeans, PTL DEF Spec

\* The second half, on its own: no balance is negative, and no money appears or
\* vanishes.
THEOREM FundsAreConserved == Spec => []FundsConserved
<1>1. LockedIsHeld /\ FundsConserved => FundsConserved
  OBVIOUS
<1> QED BY <1>1, FundsAreSafe, PTL

-----------------------------------------------------------------------------
\* The ledger.

\* An entry whose amount is what the available balance moved by keeps the
\* ledger and the balance together.
LEMMA LedgerGrows ==
    ASSUME LedgerExplainsAvailable, TypeOK, TypeOK', NEW m \in Int,
           Len(ledger') = Len(ledger) + 1, Len(ledger) \in Nat,
           \A i \in 1..Len(ledger) : ledger'[i] = ledger[i],
           ledger'[Len(ledger) + 1].amount = m,
           available' = available + m
    PROVE  LedgerExplainsAvailable'
<1>1. PICK n \in Nat : n = Len(ledger) /\ Len(ledger') = n + 1
  OBVIOUS
<1>2. PICK d : d = [i \in DOMAIN ledger |-> ledger[i].amount]
  OBVIOUS
<1>3. PICK e : e = [i \in DOMAIN ledger' |-> ledger'[i].amount]
  OBVIOUS
<1>4. DOMAIN ledger = 1..n /\ DOMAIN ledger' = 1..(n + 1)
  BY <1>1 DEF TypeOK
<1>5. \A i \in 1..n : e[i] = d[i]
  BY <1>1, <1>2, <1>3, <1>4
<1>6. e[n + 1] = m
  BY <1>1, <1>3, <1>4
<1>7. Total(e, n + 1) = Total(d, n) + m
  <2>1. Total(e, n) = Total(d, n)
    BY <1>5, TotalExtensional
  <2>2. Total(e, n + 1) = Total(e, n) + e[n + 1]
    BY TotalExtend
  <2> QED BY <1>6, <2>1, <2>2
<1>8. Total(d, n) \in Int
  <2>1. \A i \in 1..n : ledger[i] \in Entry
    BY <1>4 DEF TypeOK
  <2>2. d \in [1..n -> Int]
    BY <1>2, <1>4, <2>1 DEF Entry
  <2> QED BY <2>2, TotalType
<1>9. available = InitialAvailable + Total(d, n)
  BY <1>1, <1>2 DEF LedgerExplainsAvailable
<1>10. LedgerExplainsAvailable' <=> available' = InitialAvailable + Total(e, n + 1)
  BY <1>1, <1>3 DEF LedgerExplainsAvailable
<1>11. available' = InitialAvailable + Total(e, n + 1)
  BY <1>7, <1>8, <1>9, TryAssumption, SMTT(30) DEF TypeOK
<1> QED BY <1>10, <1>11

LEMMA NextLedger ==
    ASSUME IInv, IInv', LedgerExplainsAvailable, [Next]_vars
    PROVE  LedgerExplainsAvailable'
<1>0. TypeOK /\ TypeOK'
  BY DEF IInv
<1>1. ASSUME NEW c \in Calls, Reserve(c)
      PROVE  LedgerExplainsAvailable'
  <2>1. PICK q \in Requests : q = rows + 1
    BY <1>1, ReserveFunds
  <2>2. PICK n \in Nat : n = asked[c] + Fee
    BY <1>1, ReserveFunds
  <2>3. available' = available - n
    BY <1>1, <2>2, ReserveFunds
  <2>4. PICK m \in Int : m = -n
    OBVIOUS
  <2>5. available' = available + m
    BY <1>0, <2>3, <2>4 DEF TypeOK
  <2>6. /\ Len(ledger') = Len(ledger) + 1 /\ Len(ledger) \in Nat
        /\ \A i \in 1..Len(ledger) : ledger'[i] = ledger[i]
        /\ ledger'[Len(ledger) + 1].amount = m
    BY <1>0, <1>1, <2>1, <2>2, <2>4, ReserveLedger
  <2> QED BY <1>0, <2>5, <2>6, LedgerGrows
<1>2. ASSUME NEW c \in Calls, Refund(c)
      PROVE  LedgerExplainsAvailable'
  <2>1. PICK q \in Requests : q = target[c]
    BY <1>2, RefundFunds
  <2>2. PICK m \in Int : m = amount[q] + Fee
    BY <1>2, <2>1, RefundFunds
  <2>3. available' = available + m
    BY <1>2, <2>1, <2>2, RefundFunds
  <2>4. /\ Len(ledger') = Len(ledger) + 1 /\ Len(ledger) \in Nat
        /\ \A i \in 1..Len(ledger) : ledger'[i] = ledger[i]
        /\ ledger'[Len(ledger) + 1].amount = m
    BY <1>0, <1>2, <2>1, <2>2, RefundLedger
  <2> QED BY <1>0, <2>3, <2>4, LedgerGrows
<1>3. ASSUME UNCHANGED <<available, locked, amount, rows, ledger>>
      PROVE  LedgerExplainsAvailable'
  BY <1>3 DEF LedgerExplainsAvailable
<1> QED BY <1>1, <1>2, <1>3, OtherSteps

\* What calculateBalanceFromLedger adds up is what the available balance moved
\* by, whatever was created, cancelled or failed.
THEOREM LedgerIsBalance == Spec => []LedgerExplainsAvailable
<1>1. Init => LedgerExplainsAvailable
  <2> SUFFICES ASSUME Init PROVE LedgerExplainsAvailable
    OBVIOUS
  <2>1. PICK d : d = [i \in DOMAIN ledger |-> ledger[i].amount]
    OBVIOUS
  <2>2. Len(ledger) = 0 /\ available = InitialAvailable
    BY DEF Init
  <2>3. Total(d, 0) = 0
    BY TotalEmpty
  <2>4. LedgerExplainsAvailable <=> available = InitialAvailable + Total(d, 0)
    BY <2>1, <2>2 DEF LedgerExplainsAvailable
  <2> QED BY <2>2, <2>3, <2>4, TryAssumption
<1> QED BY <1>1, InitIInv, NextIInv, NextLedger, PTL DEF Spec

\* Funds come back only in the step that turns a pending request into a
\* cancelled one.
THEOREM RefundOnlyByCancellation == Spec => RefundIsCancellation
<1>1. ASSUME IInv, IInv', [Next]_vars, NEW r \in Requests, Held[r] > 0, Held'[r] = 0
      PROVE  status[r] = "PENDING" /\ status'[r] = "CANCELLED"
  <2>0. TypeOK /\ TypeOK'
    BY <1>1 DEF IInv
  <2>1. /\ Entries("WITHDRAWAL", r) # {} /\ Entries("REFUND", r) = {}
        /\ amount[r] + Fee > 0
    BY <1>1 DEF Held
  <2>2. ASSUME NEW c \in Calls, Reserve(c)
        PROVE  FALSE
    <3>1. PICK q \in Requests : q = rows + 1 /\ amount' = [amount EXCEPT ![q] = asked[c]]
      BY <1>1, <2>2, ReserveFunds
    <3>2. r <= rows /\ rows \in Int
      BY <1>1, <2>0, <2>1 DEF IInv, TableInv, RowOK, TypeOK
    <3>3. amount'[r] = amount[r]
      BY <2>0, <3>1, <3>2 DEF TypeOK, Requests
    <3>4. Entries("WITHDRAWAL", r)' # {} /\ Entries("REFUND", r)' = {}
      BY <2>0, <2>1, <2>2, <3>1, ReserveLedger
    <3>5. Held'[r] = amount[r] + Fee
      BY <3>3, <3>4 DEF Held
    <3> QED BY <1>1, <2>1, <3>5
  <2>3. ASSUME NEW c \in Calls, Refund(c)
        PROVE  status[r] = "PENDING" /\ status'[r] = "CANCELLED"
    <3>1. PICK q \in Requests : q = target[c]
      BY <1>1, <2>3, RefundFunds
    <3>2. CASE r = q
      BY <1>1, <2>3, <3>1, <3>2, RefundFunds
    <3>3. CASE r # q
      <4>1. amount' = amount
        BY <1>1, <2>3, RefundFunds
      <4>2. Entries("WITHDRAWAL", r)' # {} /\ Entries("REFUND", r)' = {}
        BY <2>0, <2>1, <2>3, <3>1, <3>3, RefundLedger
      <4>3. Held'[r] = amount[r] + Fee
        BY <4>1, <4>2 DEF Held
      <4> QED BY <1>1, <2>1, <4>3
    <3> QED BY <3>2, <3>3
  <2>4. ASSUME UNCHANGED <<available, locked, amount, rows, ledger>>
        PROVE  FALSE
    <3>1. Held'[r] = Held[r]
      BY <2>4, EntriesSame DEF Held
    <3> QED BY <1>1, <3>1
  <2> QED BY <1>1, <2>2, <2>3, <2>4, OtherSteps
<1>2. IInv /\ IInv' /\ [Next]_vars =>
        [\A r \in Requests :
            Held[r] > 0 /\ Held'[r] = 0 =>
                status[r] = "PENDING" /\ status'[r] = "CANCELLED"]_vars
  BY <1>1
<1> QED BY <1>2, InitIInv, NextIInv, PTL DEF Spec, RefundIsCancellation

-----------------------------------------------------------------------------
\* The ledger and the status of a request.

\* A request is entered and refunded at most once, and a cancelled one is
\* refunded.
OnceOK(r) ==
    /\ \A t \in {"WITHDRAWAL", "REFUND"} : \A i, j \in Entries(t, r) : i = j
    /\ status[r] = "CANCELLED" => Entries("REFUND", r) # {}

OnceInv == \A r \in Requests : OnceOK(r)

\* No other step cancels a request: an approval that is saved late overwrites a
\* cancellation, and never the other way round.
LEMMA OthersDoNotCancel ==
    ASSUME TypeOK, [Next]_vars, ~ \E c \in Calls : Reserve(c) \/ Refund(c),
           NEW r \in Requests, status'[r] = "CANCELLED"
    PROVE  status[r] = "CANCELLED"
<1>1. ASSUME NEW c \in Calls, SaveApproval(c)
      PROVE  status[r] = "CANCELLED"
  BY <1>1 DEF SaveApproval, TypeOK
<1>2. ASSUME ~ \E c \in Calls : SaveApproval(c)
      PROVE  status' = status
  BY <1>2 DEF Next, Begin, Proceed, NewDay, Fail, BeginCreate, Verify2FA, VerifyFiatAccount,
       LockWallet, LockWalletForRefund, SelectWalletForUpdate, InsufficientBalance,
       BeginCancel, LockRequest, CancelConflict, BeginApprove,
       vars, walletRow, table, locks, call
<1> QED BY <1>1, <1>2

LEMMA NextOnce ==
    ASSUME IInv, IInv', OnceInv, [Next]_vars
    PROVE  OnceInv'
<1>0. TypeOK /\ TypeOK'
  BY DEF IInv
<1>1. ASSUME NEW c \in Calls, Reserve(c)
      PROVE  OnceInv'
  <2>1. PICK q \in Requests : q = rows + 1 /\ status' = [status EXCEPT ![q] = "PENDING"]
    BY <1>1, ReserveFunds DEF Reserve
  <2>2. /\ \A r : Entries("REFUND", r)' = Entries("REFUND", r)
        /\ \A r : Entries("WITHDRAWAL", r)' =
               Entries("WITHDRAWAL", r) \cup (IF q = r THEN {Len(ledger) + 1} ELSE {})
    BY <1>0, <1>1, <2>1, ReserveLedger
  <2>3. Entries("WITHDRAWAL", q) = {}
    <3>1. RowOK(q) /\ rows \in Nat
      BY <1>0 DEF IInv, TableInv, TypeOK
    <3> QED BY <2>1, <3>1 DEF RowOK
  <2>4. ASSUME NEW r \in Requests PROVE OnceOK(r)'
    <3>1. OnceOK(r) /\ status'[r] = IF r = q THEN "PENDING" ELSE status[r]
      BY <1>0, <2>1 DEF OnceInv, TypeOK
    <3>2. CASE r = q
      BY <2>2, <2>3, <3>1, <3>2 DEF OnceOK
    <3>3. CASE r # q
      BY <2>2, <3>1, <3>3 DEF OnceOK
    <3> QED BY <3>2, <3>3
  <2> QED BY <2>4 DEF OnceInv
<1>2. ASSUME NEW c \in Calls, Refund(c)
      PROVE  OnceInv'
  <2>1. PICK q \in Requests : /\ q = target[c] /\ status[q] = "PENDING"
                              /\ status' = [status EXCEPT ![q] = "CANCELLED"]
    BY <1>2, RefundFunds DEF Refund
  <2>2. /\ \A r : Entries("WITHDRAWAL", r)' = Entries("WITHDRAWAL", r)
        /\ \A r : Entries("REFUND", r)' =
               Entries("REFUND", r) \cup (IF q = r THEN {Len(ledger) + 1} ELSE {})
    BY <1>0, <1>2, <2>1, RefundLedger
  <2>3. Entries("REFUND", q) = {}
    BY <2>1 DEF IInv, TableInv, RowOK
  <2>4. ASSUME NEW r \in Requests PROVE OnceOK(r)'
    <3>1. OnceOK(r) /\ status'[r] = IF r = q THEN "CANCELLED" ELSE status[r]
      BY <1>0, <2>1 DEF OnceInv, TypeOK
    <3>2. CASE r = q
      BY <2>2, <2>3, <3>1, <3>2 DEF OnceOK
    <3>3. CASE r # q
      BY <2>2, <3>1, <3>3 DEF OnceOK
    <3> QED BY <3>2, <3>3
  <2> QED BY <2>4 DEF OnceInv
<1>3. ASSUME ~ \E c \in Calls : Reserve(c) \/ Refund(c)
      PROVE  OnceInv'
  <2>1. \A t, r : Entries(t, r)' = Entries(t, r)
    BY <1>3, OtherSteps, EntriesSame
  <2>2. \A r \in Requests : status'[r] = "CANCELLED" => status[r] = "CANCELLED"
    BY <1>0, <1>3, OthersDoNotCancel
  <2> QED BY <2>1, <2>2 DEF OnceInv, OnceOK
<1> QED BY <1>1, <1>2, <1>3

\* A set with at most one element has cardinality 0 or 1.
LEMMA AtMostOne ==
    ASSUME NEW S, \A i, j \in S : i = j
    PROVE  Cardinality(S) = IF S = {} THEN 0 ELSE 1
<1>1. CASE S = {}
  BY <1>1, FS_EmptySet
<1>2. CASE S # {}
  <2>1. PICK x : S = {x}
    BY <1>2
  <2> QED BY <1>2, <2>1, FS_Singleton
<1> QED BY <1>1, <1>2

\* A request is entered once, refunded at most once and only after that, and its
\* status and the ledger agree.
THEOREM StatusIsInLedger == Spec => []LedgerMatchesStatus
<1>1. Init => OnceInv
  <2> SUFFICES ASSUME Init PROVE OnceInv
    OBVIOUS
  <2>1. \A t, r : Entries(t, r) = {}
    BY DEF Entries, Init
  <2> QED BY <2>1 DEF OnceInv, OnceOK, Init
<1>2. IInv /\ IInv' /\ OnceInv /\ [Next]_vars => OnceInv'
  BY NextOnce
<1>3. IInv /\ OnceInv => LedgerMatchesStatus
  <2> SUFFICES ASSUME IInv, OnceInv, NEW r \in Requests
               PROVE  /\ Cardinality(Entries("REFUND", r)) <= Cardinality(Entries("WITHDRAWAL", r))
                      /\ Cardinality(Entries("WITHDRAWAL", r)) = IF r <= rows THEN 1 ELSE 0
                      /\ status[r] = "PENDING" => Entries("REFUND", r) = {}
                      /\ status[r] = "CANCELLED" => Entries("REFUND", r) # {}
    BY DEF LedgerMatchesStatus
  <2>1. OnceOK(r) /\ RowOK(r)
    BY DEF IInv, TableInv, OnceInv
  <2>2. /\ Cardinality(Entries("REFUND", r)) = IF Entries("REFUND", r) = {} THEN 0 ELSE 1
        /\ Cardinality(Entries("WITHDRAWAL", r)) =
              IF Entries("WITHDRAWAL", r) = {} THEN 0 ELSE 1
    BY <2>1, AtMostOne DEF OnceOK
  <2>3. Cardinality(Entries("WITHDRAWAL", r)) = IF r <= rows THEN 1 ELSE 0
    BY <2>1, <2>2 DEF RowOK
  <2>4. Cardinality(Entries("REFUND", r)) <= Cardinality(Entries("WITHDRAWAL", r))
    BY <2>1, <2>2 DEF RowOK
  <2> QED BY <2>1, <2>3, <2>4 DEF OnceOK, RowOK
<1> QED BY <1>1, <1>2, <1>3, InitIInv, NextIInv, PTL DEF Spec
=============================================================================
