----------------------- MODULE CryptoWithdrawalProofs -----------------------
(***************************************************************************)
(* For every number of calls, requests and amounts: money is taken out for *)
(* good, and a withdrawal shown as sent, only if its transaction reached   *)
(* the network.  Whatever fails in the middle of them, the handlers        *)
(* implement the atomic reservation of funds, step by step, up to the      *)
(* first write that rests on a plain read another call has overtaken.      *)
(***************************************************************************)
EXTENDS CryptoWithdrawal, RunningTotalProofs

\* A call that works on a request has one, has attempts left while it has not
\* broadcast, and is past the broadcast, or completes the withdrawal, only when
\* the network has the transaction.
Processing == {"approve", "markSigning", "sign", "markBroadcasting", "broadcast"}
CallOK(c) ==
    /\ pc[c] \notin {"idle", "lockWallet", "reserve"} => target[c] \in 1..rows
    /\ pc[c] \in {"idle"} \cup Processing => tries[c] < MaxRetries
    /\ pc[c] \in {"markBroadcasted", "recordCompletion", "readForSettlement", "settle"}
          => (connected => target[c] \in onChain)

CallsInv == \A c \in Calls : CallOK(c)

IInv == TypeOK /\ CallsInv /\ PaidIsSent

-----------------------------------------------------------------------------

LEMMA InitIInv == Init => IInv
<1> SUFFICES ASSUME Init PROVE IInv
  OBVIOUS
<1> USE CryptoAssumption DEF Init
<1>1. TypeOK
  <2>1. connected \in BOOLEAN /\ overtaken \in BOOLEAN
    OBVIOUS
  <2>2. read \in [Calls -> Status] /\ status \in [Requests -> Status]
    BY DEF Status
  <2> QED BY <2>1, <2>2 DEF TypeOK, PC, Balances, NotRead
<1>2. CallsInv
  BY DEF CallsInv, CallOK
<1>3. PaidIsSent
  <2>1. \A T, r : Entries(T, r) = {}
    BY DEF Entries
  <2> QED BY <2>1 DEF PaidIsSent
<1> QED BY <1>1, <1>2, <1>3 DEF IInv

\* Appending an entry adds its index to the entries of its request and kind.
LEMMA EntriesAppend ==
    ASSUME NEW e \in Entry, ledger \in Seq(Entry), ledger' = Append(ledger, e),
           NEW T, NEW r
    PROVE  Entries(T, r)' = Entries(T, r) \cup
              (IF e.type \in T /\ e.request = r THEN {Len(ledger) + 1} ELSE {})
<1>1. /\ DOMAIN ledger = 1..Len(ledger)
      /\ DOMAIN ledger' = 1..(Len(ledger) + 1)
      /\ Len(ledger) \in Nat
      /\ \A i \in 1..Len(ledger) : ledger'[i] = ledger[i]
      /\ ledger'[Len(ledger) + 1] = e
  OBVIOUS
<1> QED BY <1>1 DEF Entries

LEMMA EntriesSame ==
    ASSUME UNCHANGED ledger, NEW T, NEW r
    PROVE  Entries(T, r)' = Entries(T, r)
BY DEF Entries

\* What the end of a call does to the calls.
LEMMA ReturnEffect ==
    ASSUME TypeOK, NEW c \in Calls, Return(c)
    PROVE  /\ pc' \in [Calls -> PC] /\ asked' \in [Calls -> Nat]
           /\ target' \in [Calls -> 0..MaxRequests] /\ tries' \in [Calls -> 0..MaxRetries]
           /\ seen' \in [Calls -> Balances] /\ read' \in [Calls -> Status]
           /\ pc'[c] = "idle" /\ tries'[c] = 0
           /\ \A d \in Calls \ {c} : /\ pc'[d] = pc[d] /\ asked'[d] = asked[d]
                                     /\ target'[d] = target[d] /\ seen'[d] = seen[d]
                                     /\ tries'[d] = tries[d] /\ read'[d] = read[d]
BY CryptoAssumption, SMTT(30) DEF Return, Goto, TypeOK, PC, Balances, NotRead, Status

LEMMA UnlockEffect ==
    ASSUME TypeOK, NEW c \in Calls, Unlock(c)
    PROVE  /\ walletLock' \in Calls \cup {NoCall}
           /\ requestLock' \in [Requests -> Calls \cup {NoCall}]
BY CryptoAssumption DEF Unlock, TypeOK

\* A step of one call keeps the invariant if it keeps it for itself.
LEMMA StepKeeps ==
    ASSUME IInv, TypeOK', NEW c \in Calls, CallOK(c)', PaidIsSent',
           \A d \in Calls \ {c} :
              pc'[d] = pc[d] /\ target'[d] = target[d] /\ tries'[d] = tries[d],
           rows <= rows', onChain \subseteq onChain', UNCHANGED connected
    PROVE  IInv'
<1>1. ASSUME NEW d \in Calls PROVE CallOK(d)'
  <2>1. CASE d = c
    BY <2>1
  <2>2. CASE d # c
    <3>1. CallOK(d) /\ pc'[d] = pc[d] /\ target'[d] = target[d] /\ tries'[d] = tries[d]
      BY <2>2 DEF IInv, CallsInv
    <3>2. rows \in Nat /\ rows' \in Nat
      BY CryptoAssumption DEF IInv, TypeOK
    <3> QED BY <3>1, <3>2 DEF CallOK
  <2> QED BY <2>1, <2>2
<1> QED BY <1>1 DEF IInv, CallsInv

\* Neither a row nor the ledger changes: nothing more is shown as sent.
LEMMA SentSame ==
    ASSUME PaidIsSent, UNCHANGED <<status, ledger>>, onChain \subseteq onChain',
           UNCHANGED connected
    PROVE  PaidIsSent'
BY EntriesSame DEF PaidIsSent

\* A call that ends has nothing to keep.
LEMMA ReturnKeeps ==
    ASSUME IInv, TypeOK', NEW c \in Calls, Return(c), PaidIsSent',
           rows <= rows', onChain \subseteq onChain', UNCHANGED connected
    PROVE  IInv'
<1>1. TypeOK
  BY DEF IInv
<1>2. CallOK(c)'
  BY <1>1, ReturnEffect, CryptoAssumption DEF CallOK, Processing
<1> QED BY <1>1, <1>2, ReturnEffect, StepKeeps

\* A saved status other than BROADCASTED and COMPLETED claims nothing.
LEMMA SaveKeepsSent ==
    ASSUME TypeOK, PaidIsSent, NEW r \in Requests, NEW s \in Status,
           status' = [status EXCEPT ![r] = s], UNCHANGED <<ledger, network>>,
           connected /\ s \in {"BROADCASTED", "COMPLETED"} => r \in onChain
    PROVE  PaidIsSent'
BY EntriesSame DEF PaidIsSent, TypeOK, network

\* The end of a request, which is a completion only if it was sent.
LEMMA EndKeeps ==
    ASSUME IInv, NEW c \in Calls, pc[c] \notin {"idle", "lockWallet", "reserve"},
           NEW new \in {"CANCELLED", "FAILED", "COMPLETED"},
           NEW type \in {"UNLOCK", "FAILED", "COMPLETE"},
           NEW toAvailable \in Int, NEW sum \in Int,
           EndRequest(c, new, type, toAvailable, sum),
           connected /\ (new = "COMPLETED" \/ type = "COMPLETE") => target[c] \in onChain
    PROVE  IInv'
<1> USE CryptoAssumption
<1>0. TypeOK /\ PaidIsSent
  BY DEF IInv
<1> DEFINE q == target[c]
           e == [type |-> type, request |-> q, amount |-> sum]
<1>1. q \in Requests /\ rows \in 0..MaxRequests
  BY DEF IInv, CallsInv, CallOK, TypeOK, Requests
<1>2. /\ available' = seen[c].available + toAvailable /\ locked' = seen[c].locked - Claim(q)
      /\ status' = [status EXCEPT ![q] = new] /\ ledger' = Append(ledger, e)
      /\ Unlock(c) /\ Return(c) /\ UNCHANGED <<amount, rows, onChain, connected>>
      /\ overtaken' \in BOOLEAN
  BY DEF EndRequest, network
<1>3. e \in Entry
  BY <1>1 DEF Entry
<1>4. TypeOK'
  <2>1. seen[c].available \in Int /\ seen[c].locked \in Int /\ Claim(q) \in Int
    <3>1. seen[c] \in Balances /\ amount[q] \in Nat
      BY <1>0, <1>1 DEF TypeOK
    <3> HIDE DEF q
    <3> QED BY <3>1 DEF Balances, Claim
  <2>2. available' \in Int /\ locked' \in Int
    <3> HIDE DEF q
    <3> QED BY <1>2, <2>1
  <2>3. ledger' \in Seq(Entry)
    <3> HIDE DEF e
    <3> QED BY <1>0, <1>2, <1>3 DEF TypeOK
  <2>4. status' \in [Requests -> Status]
    BY <1>0, <1>2 DEF TypeOK, Status
  <2> HIDE DEF q, e
  <2> QED BY <1>0, <1>2, <2>2, <2>3, <2>4, ReturnEffect, UnlockEffect DEF TypeOK
<1>5. PaidIsSent'
  <2> SUFFICES ASSUME connected, NEW r \in Requests,
                      Entries({"COMPLETE"}, r)' # {} \/ status'[r] \in {"BROADCASTED", "COMPLETED"}
               PROVE  r \in onChain
    BY <1>2 DEF PaidIsSent
  <2>1. e.type = type /\ e.request = q /\ ledger \in Seq(Entry)
    BY <1>0 DEF TypeOK
  <2>2. Entries({"COMPLETE"}, r)' = Entries({"COMPLETE"}, r) \cup
              (IF type = "COMPLETE" /\ q = r THEN {Len(ledger) + 1} ELSE {})
    <3> HIDE DEF e
    <3>1. ledger' = Append(ledger, e)
      BY <1>2
    <3>2. Entries({"COMPLETE"}, r)' = Entries({"COMPLETE"}, r) \cup
              (IF e.type \in {"COMPLETE"} /\ e.request = r THEN {Len(ledger) + 1} ELSE {})
      BY <1>3, <2>1, <3>1, EntriesAppend
    <3> QED BY <2>1, <3>2
  <2>3. status'[r] = IF r = q THEN new ELSE status[r]
    BY <1>0, <1>2 DEF TypeOK
  <2> HIDE DEF e
  <2> QED BY <1>0, <2>2, <2>3 DEF PaidIsSent
<1> QED
  <2> HIDE DEF q, e
  <2> QED BY <1>1, <1>2, <1>4, <1>5, ReturnKeeps


\* A step of call c that changes only the calls, and perhaps the locks.
LEMMA MoveKeeps ==
    ASSUME IInv, TypeOK', NEW c \in Calls, CallOK(c)',
           UNCHANGED <<status, ledger>>, UNCHANGED <<rows, network>>,
           \A d \in Calls \ {c} :
              pc'[d] = pc[d] /\ target'[d] = target[d] /\ tries'[d] = tries[d]
    PROVE  IInv'
<1>1. PaidIsSent'
  BY SentSame DEF IInv, network
<1>2. rows <= rows'
  BY CryptoAssumption DEF IInv, TypeOK
<1> QED BY <1>1, <1>2, StepKeeps DEF network

\* Taking a request into work.
LEMMA TakeKeeps ==
    ASSUME IInv, NEW c \in Calls, NEW r \in Requests, NEW l \in PC \ {"idle"},
           Take(c, r, l),
           l \in {"markBroadcasted", "recordCompletion", "readForSettlement", "settle"}
               => (connected => r \in onChain)
    PROVE  IInv'
<1> USE CryptoAssumption DEF walletRow, table, locks, network, history
<1>1. TypeOK /\ CallOK(c)
  BY DEF IInv, CallsInv
<1>2. TypeOK'
  <2>1. target' \in [Calls -> 0..MaxRequests]
    BY <1>1 DEF TypeOK, Take, Requests
  <2>2. pc' \in [Calls -> PC]
    BY <1>1 DEF TypeOK, Take, Goto
  <2> QED BY <1>1, <2>1, <2>2 DEF TypeOK, Take
<1>3. \A d \in Calls \ {c} :
         pc'[d] = pc[d] /\ target'[d] = target[d] /\ tries'[d] = tries[d]
  BY <1>1 DEF TypeOK, Take, Goto
<1>4. CallOK(c)'
  <2>1. /\ pc'[c] = l /\ target'[c] = r /\ tries'[c] = tries[c] /\ pc[c] = "idle"
        /\ r <= rows /\ UNCHANGED <<rows, network>>
    BY <1>1 DEF TypeOK, Take, Goto
  <2>2. r \in 1..rows
    BY <1>1, <2>1 DEF TypeOK, Requests
  <2> QED BY <1>1, <2>1, <2>2 DEF CallOK
<1>5. UNCHANGED <<status, ledger>> /\ UNCHANGED <<rows, network>>
  BY DEF Take
<1> QED BY <1>2, <1>3, <1>4, <1>5, MoveKeeps

\* A plain read of the wallet row.
LEMMA ReadKeeps ==
    ASSUME IInv, NEW c \in Calls,
           NEW from \in PC \ {"idle", "lockWallet", "reserve"}, NEW to \in PC \ {"idle"},
           ReadWallet(c, from, to), to \notin Processing,
           to \in {"markBroadcasted", "recordCompletion", "readForSettlement", "settle"}
               => from \in {"markBroadcasted", "recordCompletion", "readForSettlement"}
    PROVE  IInv'
<1> USE CryptoAssumption DEF walletRow, table, locks, network, history
<1>1. TypeOK /\ CallOK(c)
  BY DEF IInv, CallsInv
<1>2. TypeOK'
  <2>1. [available |-> available, locked |-> locked] \in Balances
    BY <1>1 DEF TypeOK, Balances
  <2> HIDE DEF walletRow
  <2> QED BY <1>1, <2>1 DEF TypeOK, ReadWallet, Goto, walletRow
<1>3. \A d \in Calls \ {c} :
         pc'[d] = pc[d] /\ target'[d] = target[d] /\ tries'[d] = tries[d]
  BY <1>1 DEF TypeOK, ReadWallet, Goto
<1>4. CallOK(c)'
  <2>1. /\ pc'[c] = to /\ target'[c] = target[c] /\ pc[c] = from
        /\ UNCHANGED <<rows, network>>
    BY <1>1 DEF TypeOK, ReadWallet, Goto
  <2> QED BY <1>1, <2>1 DEF CallOK
<1>5. UNCHANGED <<status, ledger>> /\ UNCHANGED <<rows, network>>
  BY DEF ReadWallet
<1> QED BY <1>2, <1>3, <1>4, <1>5, MoveKeeps

\* The lock of the request that a transaction updates.
LEMMA LockKeeps ==
    ASSUME IInv, NEW c \in Calls,
           NEW from \in PC \ {"idle", "lockWallet", "reserve"}, NEW to \in PC \ {"idle"},
           LockRequest(c, from, to), to \notin Processing,
           to \in {"markBroadcasted", "recordCompletion", "readForSettlement", "settle"}
               => from \in {"markBroadcasted", "recordCompletion", "readForSettlement"}
    PROVE  IInv'
<1> USE CryptoAssumption DEF walletRow, table, locks, network, history
<1>1. TypeOK /\ CallOK(c)
  BY DEF IInv, CallsInv
<1>2. TypeOK'
  BY <1>1 DEF TypeOK, LockRequest, Goto
<1>3. \A d \in Calls \ {c} :
         pc'[d] = pc[d] /\ target'[d] = target[d] /\ tries'[d] = tries[d]
  BY <1>1 DEF TypeOK, LockRequest, Goto
<1>4. CallOK(c)'
  <2>1. /\ pc'[c] = to /\ target'[c] = target[c] /\ pc[c] = from
        /\ UNCHANGED <<rows, network>>
    BY <1>1 DEF TypeOK, LockRequest, Goto
  <2> QED BY <1>1, <2>1 DEF CallOK
<1>5. UNCHANGED <<status, ledger>> /\ UNCHANGED <<rows, network>>
  BY DEF LockRequest
<1> QED BY <1>2, <1>3, <1>4, <1>5, MoveKeeps

\* A saved status on the way to the broadcast.
LEMMA SaveKeeps ==
    ASSUME IInv, NEW c \in Calls, NEW from \in Processing, NEW to \in Processing,
           NEW new \in {"APPROVED", "SIGNING", "BROADCASTING"},
           SaveStatus(c, from, new, to)
    PROVE  IInv'
<1> USE CryptoAssumption DEF walletRow, table, locks, network, history
<1>1. TypeOK /\ CallOK(c) /\ PaidIsSent
  BY DEF IInv, CallsInv
<1>2. TypeOK'
  BY <1>1 DEF TypeOK, SaveStatus, Goto, Status, PC, Processing
<1>3. \A d \in Calls \ {c} :
         pc'[d] = pc[d] /\ target'[d] = target[d] /\ tries'[d] = tries[d]
  BY <1>1 DEF TypeOK, SaveStatus, Goto
<1>4. /\ pc'[c] = to /\ target'[c] = target[c] /\ tries'[c] = tries[c] /\ pc[c] = from
      /\ UNCHANGED <<rows, network>>
  BY <1>1 DEF TypeOK, SaveStatus, Goto
<1>5. CallOK(c)'
  BY <1>1, <1>4 DEF CallOK, Processing
<1>6. PaidIsSent'
  <2>1. target[c] \in Requests
    BY <1>1, <1>4 DEF CallOK, TypeOK, Requests, Processing
  <2>2. new \in Status /\ new \notin {"BROADCASTED", "COMPLETED"}
    BY DEF Status
  <2>3. status' = [status EXCEPT ![target[c]] = new] /\ UNCHANGED <<ledger, network>>
    BY DEF SaveStatus
  <2> QED BY <1>1, <2>1, <2>2, <2>3, SaveKeepsSent
<1>7. rows <= rows' /\ onChain \subseteq onChain' /\ UNCHANGED connected
  BY <1>1, <1>4 DEF TypeOK
<1> QED BY <1>2, <1>3, <1>5, <1>6, <1>7, StepKeeps

\* A call that ends without a commit: an error, a rollback, a crash.
LEMMA RollBackKeeps ==
    ASSUME IInv, NEW c \in Calls, Unlock(c), Return(c),
           UNCHANGED <<walletRow, table, ledger, network, overtaken>>
    PROVE  IInv'
<1> USE CryptoAssumption DEF walletRow, table, network
<1>1. TypeOK /\ PaidIsSent
  BY DEF IInv
<1>2. TypeOK'
  BY <1>1, ReturnEffect, UnlockEffect DEF TypeOK
<1>3. PaidIsSent'
  BY <1>1, SentSame
<1>4. rows <= rows'
  BY <1>1 DEF TypeOK
<1> QED BY <1>2, <1>3, <1>4, ReturnKeeps

\* createWithdrawalRequest commits.
LEMMA ReserveKeeps ==
    ASSUME IInv, NEW c \in Calls, Reserve(c)
    PROVE  IInv'
<1> USE CryptoAssumption
<1>1. TypeOK /\ PaidIsSent
  BY DEF IInv
<1> DEFINE q == rows + 1
           e == [type |-> "LOCK", request |-> q, amount |-> -(asked[c] + Fee)]
<1>2. q \in Requests /\ rows' = q /\ q \in 0..MaxRequests /\ rows <= rows'
  BY <1>1 DEF Reserve, TypeOK, Requests
<1>3. e \in Entry /\ ledger' = Append(ledger, e) /\ ledger \in Seq(Entry)
  <2>1. -(asked[c] + Fee) \in Int
    BY <1>1 DEF TypeOK
  <2>2. e \in Entry
    BY <1>2, <2>1 DEF Entry
  <2> QED BY <1>1, <2>2 DEF Reserve, TypeOK
<1>4. /\ status' = [status EXCEPT ![q] = "PENDING"] /\ amount' = [amount EXCEPT ![q] = asked[c]]
      /\ Unlock(c) /\ Return(c) /\ UNCHANGED <<onChain, connected, overtaken>>
  BY DEF Reserve, network
<1>5. TypeOK'
  <2>1. available' \in Int /\ locked' \in Int
    <3>1. seen[c] \in Balances /\ asked[c] \in Nat
      BY <1>1 DEF TypeOK
    <3>2. seen[c].available \in Int /\ seen[c].locked \in Int
      BY <3>1 DEF Balances
    <3>3. /\ available' = seen[c].available - (asked[c] + Fee)
          /\ locked' = seen[c].locked + (asked[c] + Fee)
      BY DEF Reserve
    <3> QED BY <3>1, <3>2, <3>3
  <2>2. ledger' \in Seq(Entry)
    <3> HIDE DEF e
    <3> QED BY <1>3
  <2>3. status' \in [Requests -> Status] /\ amount' \in [Requests -> Nat]
    <3> HIDE DEF q
    <3> QED BY <1>1, <1>2, <1>4 DEF TypeOK, Status
  <2> HIDE DEF q, e
  <2> QED BY <1>1, <1>2, <1>4, <2>1, <2>2, <2>3, ReturnEffect, UnlockEffect DEF TypeOK
<1>6. PaidIsSent'
  <2>1. \A r : Entries({"COMPLETE"}, r)' = Entries({"COMPLETE"}, r)
    <3>1. e.type = "LOCK"
      OBVIOUS
    <3> HIDE DEF e
    <3>2. \A r : Entries({"COMPLETE"}, r)' = Entries({"COMPLETE"}, r) \cup
              (IF e.type \in {"COMPLETE"} /\ e.request = r THEN {Len(ledger) + 1} ELSE {})
      BY <1>3, EntriesAppend
    <3> QED BY <3>1, <3>2
  <2>2. \A r \in Requests : status'[r] \in {"BROADCASTED", "COMPLETED"} => status'[r] = status[r]
    <3> HIDE DEF q
    <3> QED BY <1>1, <1>2, <1>4 DEF TypeOK
  <2> QED BY <1>1, <1>4, <2>1, <2>2 DEF PaidIsSent
<1> HIDE DEF q, e
<1> QED BY <1>2, <1>4, <1>5, <1>6, ReturnKeeps

\* The three commits that end a request.
LEMMA EndSteps ==
    ASSUME IInv, NEW c \in Calls, Cancel(c) \/ Release(c) \/ Settle(c)
    PROVE  IInv'
<1> USE CryptoAssumption
<1>0. TypeOK /\ CallOK(c)
  BY DEF IInv, CallsInv
<1>1. pc[c] \in {"cancel", "release", "settle"} /\ target[c] \in Requests
  <2>1. pc[c] \in {"cancel", "release", "settle"}
    BY DEF Cancel, Release, Settle
  <2> QED BY <1>0, <2>1 DEF CallOK, TypeOK, Requests
<1>2. Claim(target[c]) \in Int /\ -Claim(target[c]) \in Int
  <2>1. amount[target[c]] \in Nat
    BY <1>0, <1>1 DEF TypeOK
  <2> QED BY <2>1 DEF Claim
<1>3. CASE Cancel(c)
  BY <1>1, <1>2, <1>3, EndKeeps DEF Cancel
<1>4. CASE Release(c)
  BY <1>1, <1>2, <1>4, EndKeeps DEF Release
<1>5. CASE Settle(c)
  <2>1. (connected => target[c] \in onChain) /\ pc[c] = "settle"
    BY <1>0, <1>5 DEF Settle, CallOK
  <2> QED BY <1>1, <1>2, <1>5, <2>1, EndKeeps DEF Settle
<1> QED BY <1>3, <1>4, <1>5

\* An attempt to broadcast: only an accepted one goes on as sent, or any where no
\* node is configured.
LEMMA BroadcastKeeps ==
    ASSUME IInv, NEW c \in Calls,
           \/ BroadcastSimulated(c) \/ BroadcastAccepted(c)
           \/ BroadcastAnswerLost(c) \/ BroadcastRefused(c)
    PROVE  IInv'
<1> USE CryptoAssumption
<1>0. TypeOK /\ CallOK(c) /\ PaidIsSent
  BY DEF IInv, CallsInv
<1>1. /\ pc[c] = "broadcast" /\ onChain \subseteq onChain'
      /\ UNCHANGED <<walletRow, table, ledger, locks, asked, target, seen>>
      /\ UNCHANGED <<connected, read, overtaken>>
  BY DEF network, history, BroadcastSimulated, BroadcastAccepted, BroadcastAnswerLost,
         BroadcastRefused
<1>2. target[c] \in 1..rows /\ target[c] \in Requests /\ tries[c] < MaxRetries
  BY <1>0, <1>1 DEF CallOK, TypeOK, Requests, Processing
<1>3. onChain' \subseteq Requests
  BY <1>0, <1>2 DEF TypeOK, network, BroadcastSimulated, BroadcastAccepted,
                    BroadcastAnswerLost, BroadcastRefused
<1>4. /\ pc' \in [Calls -> PC] /\ tries' \in [Calls -> 0..MaxRetries]
      /\ \/ pc'[c] = "markBroadcasted" /\ (connected => target[c] \in onChain')
         \/ pc'[c] = "broadcast" /\ tries'[c] < MaxRetries
         \/ pc'[c] = "recordFailure"
      /\ \A d \in Calls \ {c} : pc'[d] = pc[d] /\ tries'[d] = tries[d]
  <2>1. CASE BroadcastSimulated(c) \/ BroadcastAccepted(c)
    BY <1>0, <2>1 DEF BroadcastSimulated, BroadcastAccepted, history, TypeOK, Goto, PC
  <2>2. CASE RetryOrFail(c)
    <3>1. tries[c] + 1 \in 0..MaxRetries
      BY <1>0, <1>2 DEF TypeOK
    <3>2. tries' \in [Calls -> 0..MaxRetries] /\ tries'[c] = tries[c] + 1
      BY <1>0, <2>2, <3>1 DEF RetryOrFail, TypeOK
    <3>3. pc' = [pc EXCEPT ![c] = IF tries'[c] < MaxRetries THEN "broadcast" ELSE "recordFailure"]
      BY <2>2 DEF RetryOrFail, Goto
    <3>4. \A d \in Calls \ {c} : pc'[d] = pc[d] /\ tries'[d] = tries[d]
      BY <1>0, <2>2, <3>3 DEF RetryOrFail, TypeOK
    <3>5. pc' \in [Calls -> PC]
      BY <1>0, <3>3 DEF TypeOK, PC
    <3>6. \/ pc'[c] = "broadcast" /\ tries'[c] < MaxRetries
          \/ pc'[c] = "recordFailure"
      BY <1>0, <3>3 DEF TypeOK
    <3> QED BY <3>2, <3>4, <3>5, <3>6
  <2> QED BY <2>1, <2>2 DEF BroadcastAnswerLost, BroadcastRefused
<1>5. TypeOK'
  BY <1>0, <1>1, <1>3, <1>4 DEF TypeOK, walletRow, table, locks, network, history
<1>6. CallOK(c)'
  BY <1>1, <1>2, <1>4 DEF CallOK, Processing, table
<1>7. PaidIsSent'
  BY <1>0, <1>1, SentSame DEF table
<1>8. rows <= rows' /\ \A d \in Calls \ {c} : target'[d] = target[d]
  BY <1>0, <1>1 DEF TypeOK, table
<1> QED BY <1>1, <1>4, <1>5, <1>6, <1>7, <1>8, StepKeeps

-----------------------------------------------------------------------------
\* Every step keeps the inductive invariant.
LEMMA NextIInv == IInv /\ [Next]_vars => IInv'
<1> SUFFICES ASSUME IInv, [Next]_vars PROVE IInv'
  OBVIOUS
<1> USE CryptoAssumption
<1>0. TypeOK /\ PaidIsSent /\ \A c \in Calls : CallOK(c)
  BY DEF IInv, CallsInv
<1>1. ASSUME NEW c \in Calls, NEW a \in Amounts, BeginCreate(c, a)
      PROVE  IInv'
  <2>1. TypeOK'
    BY <1>0, <1>1 DEF TypeOK, BeginCreate, Goto, PC, walletRow, table, locks, network,
                    history
  <2>2. /\ pc'[c] = "lockWallet" /\ UNCHANGED <<status, ledger>> /\ UNCHANGED <<rows, network>>
        /\ \A d \in Calls \ {c} :
              pc'[d] = pc[d] /\ target'[d] = target[d] /\ tries'[d] = tries[d]
    BY <1>0, <1>1 DEF TypeOK, BeginCreate, Goto, table
  <2>3. CallOK(c)'
    BY <2>2 DEF CallOK, Processing
  <2> QED BY <2>1, <2>2, <2>3, MoveKeeps
<1>2. ASSUME NEW c \in Calls, LockWallet(c)
      PROVE  IInv'
  <2>1. TypeOK'
    <3>1. [available |-> available, locked |-> locked] \in Balances
      BY <1>0 DEF TypeOK, Balances
    <3>2. seen' \in [Calls -> Balances] /\ pc' \in [Calls -> PC]
      BY <1>0, <1>2, <3>1 DEF TypeOK, LockWallet, Goto, PC
    <3> QED BY <1>0, <1>2, <3>2 DEF TypeOK, LockWallet, walletRow, table, network, history
  <2>2. /\ pc'[c] = "reserve" /\ UNCHANGED <<status, ledger>> /\ UNCHANGED <<rows, network>>
        /\ \A d \in Calls \ {c} :
              pc'[d] = pc[d] /\ target'[d] = target[d] /\ tries'[d] = tries[d]
    BY <1>0, <1>2 DEF TypeOK, LockWallet, Goto, table
  <2>3. CallOK(c)'
    BY <2>2 DEF CallOK, Processing
  <2> QED BY <2>1, <2>2, <2>3, MoveKeeps
<1>3. ASSUME NEW c \in Calls, Reserve(c)
      PROVE  IInv'
  BY <1>3, ReserveKeeps
<1>4. ASSUME NEW c \in Calls, NEW r \in Requests, BeginCancel(c, r)
      PROVE  IInv'
  BY <1>4, TakeKeeps DEF BeginCancel, PC
<1>5. ASSUME NEW c \in Calls, NEW r \in Requests,
             BeginProcess(c, r) \/ BeginAdminApproved(c, r)
      PROVE  IInv'
  BY <1>5, TakeKeeps DEF BeginProcess, BeginAdminApproved, PC
<1>6. ASSUME NEW c \in Calls, NEW r \in Requests, BeginFinalize(c, r)
      PROVE  IInv'
  <2>1. connected => r \in onChain
    BY <1>0, <1>6 DEF BeginFinalize, PaidIsSent
  <2> QED BY <1>6, <2>1, TakeKeeps DEF BeginFinalize, PC
<1>7. ASSUME NEW c \in Calls, ReadForCancel(c) \/ ReadForRelease(c) \/ ReadForSettlement(c)
      PROVE  IInv'
  BY <1>7, ReadKeeps DEF ReadForCancel, ReadForRelease, ReadForSettlement, PC, Processing
<1>8. ASSUME NEW c \in Calls, SaveWallet(c)
      PROVE  IInv'
  <2>1. TypeOK'
    BY <1>0, <1>8 DEF TypeOK, SaveWallet, Goto, PC, walletRow, table, network, history
  <2>2. /\ pc[c] = "saveWallet" /\ pc'[c] = "cancel" /\ target'[c] = target[c]
        /\ UNCHANGED <<status, ledger>> /\ UNCHANGED <<rows, network>>
        /\ \A d \in Calls \ {c} :
              pc'[d] = pc[d] /\ target'[d] = target[d] /\ tries'[d] = tries[d]
    BY <1>0, <1>8 DEF TypeOK, SaveWallet, Goto, table
  <2>3. CallOK(c)'
    BY <1>0, <2>2 DEF CallOK, Processing
  <2> QED BY <2>1, <2>2, <2>3, MoveKeeps
<1>9. ASSUME NEW c \in Calls, Cancel(c) \/ Release(c) \/ Settle(c)
      PROVE  IInv'
  BY <1>9, EndSteps
<1>10. ASSUME NEW c \in Calls, Approve(c) \/ MarkSigning(c) \/ MarkBroadcasting(c)
       PROVE  IInv'
  BY <1>10, SaveKeeps DEF Approve, MarkSigning, MarkBroadcasting, Processing
<1>11. ASSUME NEW c \in Calls, Sign(c) \/ ProcessingThrows(c)
       PROVE  IInv'
  <2>1. TypeOK'
    BY <1>0, <1>11 DEF TypeOK, Sign, ProcessingThrows, Goto, PC, walletRow, table,
                    locks, network, history
  <2>2. /\ pc[c] \notin {"idle", "lockWallet", "reserve"}
        /\ \/ pc'[c] = "recordFailure"
           \/ pc[c] = "sign" /\ pc'[c] = "markBroadcasting"
        /\ target'[c] = target[c] /\ tries'[c] = tries[c]
        /\ UNCHANGED <<status, ledger>> /\ UNCHANGED <<rows, network>>
        /\ \A d \in Calls \ {c} :
              pc'[d] = pc[d] /\ target'[d] = target[d] /\ tries'[d] = tries[d]
    BY <1>0, <1>11 DEF TypeOK, Sign, ProcessingThrows, Goto, table
  <2>3. CallOK(c)'
    BY <1>0, <2>2 DEF CallOK, Processing
  <2> QED BY <2>1, <2>2, <2>3, MoveKeeps
<1>12. ASSUME NEW c \in Calls,
              \/ BroadcastSimulated(c) \/ BroadcastAccepted(c)
              \/ BroadcastAnswerLost(c) \/ BroadcastRefused(c)
       PROVE  IInv'
  BY <1>12, BroadcastKeeps
<1>13. ASSUME NEW c \in Calls, MarkBroadcasted(c)
       PROVE  IInv'
  <2>1. (connected => target[c] \in onChain) /\ target[c] \in Requests
    <3>1. CallOK(c) /\ pc[c] = "markBroadcasted"
      BY <1>0, <1>13 DEF MarkBroadcasted
    <3>2. (connected => target[c] \in onChain) /\ target[c] \in 1..rows
      BY <3>1 DEF CallOK
    <3> QED BY <1>0, <3>2 DEF TypeOK, Requests
  <2>2. TypeOK'
    <3>1. overtaken' \in BOOLEAN
      BY <1>13 DEF MarkBroadcasted
    <3>2. status' \in [Requests -> Status]
      BY <1>0, <1>13 DEF TypeOK, MarkBroadcasted, Status
    <3> QED BY <1>0, <1>13, <3>1, <3>2, ReturnEffect
            DEF TypeOK, MarkBroadcasted, walletRow, locks, network
  <2>3. PaidIsSent'
    <3>1. /\ status' = [status EXCEPT ![target[c]] = "BROADCASTED"]
          /\ UNCHANGED <<ledger, network>>
      BY <1>13 DEF MarkBroadcasted
    <3> QED BY <1>0, <2>1, <3>1, SaveKeepsSent DEF Status
  <2>4. rows <= rows' /\ onChain \subseteq onChain' /\ UNCHANGED connected /\ Return(c)
    BY <1>0, <1>13 DEF TypeOK, MarkBroadcasted, network
  <2> QED BY <2>2, <2>3, <2>4, ReturnKeeps
<1>14. ASSUME NEW c \in Calls, RecordFailure(c) \/ RecordCompletion(c)
       PROVE  IInv'
  BY <1>14, LockKeeps DEF RecordFailure, RecordCompletion, PC, Processing
<1>15. ASSUME NEW c \in Calls, InsufficientBalance(c) \/ Fail(c) \/ DeadlockVictim(c)
       PROVE  IInv'
  BY <1>15, RollBackKeeps DEF InsufficientBalance, Fail, DeadlockVictim
<1>16. CASE UNCHANGED vars
  <2>1. TypeOK'
    BY <1>0, <1>16 DEF TypeOK, vars, walletRow, table, locks, call, network, history
  <2>2. PaidIsSent'
    BY <1>0, <1>16, SentSame DEF vars, table, network
  <2>3. CallsInv'
    BY <1>0, <1>16 DEF CallsInv, CallOK, vars, table, call, network
  <2> QED BY <2>1, <2>2, <2>3 DEF IInv
<1> QED BY <1>1, <1>2, <1>3, <1>4, <1>5, <1>6, <1>7, <1>8, <1>9, <1>10, <1>11, <1>12,
           <1>13, <1>14, <1>15, <1>16 DEF Next, Begin, Proceed

\* For any number of concurrent calls, and however they fail, the variables keep
\* their types.
THEOREM TypeCorrect == Spec => []TypeOK
<1>1. IInv => TypeOK
  BY DEF IInv
<1> QED BY <1>1, InitIInv, NextIInv, PTL DEF Spec

\* Whatever calls interleave, fail and retry, no withdrawal is shown as sent or
\* completed, and none is paid from the wallet, unless the network has its
\* transaction.
THEOREM PaidWasSent == Spec => []PaidIsSent
<1>1. IInv => PaidIsSent
  BY DEF IInv
<1> QED BY <1>1, InitIInv, NextIInv, PTL DEF Spec

-----------------------------------------------------------------------------
(* Concurrent calls, up to a write that rests on an overtaken read.  Every *)
(* commit then finds the wallet and the request as the call has read them, *)
(* and does to the funds what the handler promises.                        *)

Open == {"PENDING", "APPROVED", "SIGNING", "BROADCASTING", "BROADCASTED"}
Ends == {"UNLOCK", "FAILED", "COMPLETE"}

\* A creation holds the lock of the wallet it has read, a cancellation that of
\* the wallet it is writing, and a call takes its request to be under way.
ReadsOK(c) ==
    /\ pc[c] \in {"reserve", "cancel"} => walletLock = c
    /\ pc[c] = "reserve" => seen[c].available = available /\ seen[c].locked = locked
    /\ pc[c] \in {"lockWallet", "reserve"} => asked[c] \in Amounts
    /\ pc[c] \notin {"idle", "lockWallet", "reserve"} => read[c] \in Open

ReadsInv == \A c \in Calls : ReadsOK(c)

\* A row has its lock entry, and is under way until it has an entry of its end.
RowOK(r) ==
    /\ Entries({"LOCK"}, r) # {} <=> r <= rows
    /\ Entries(Ends, r) # {} => r <= rows
    /\ status[r] \in Open <=> r <= rows /\ Entries(Ends, r) = {}

RowsInv == \A r \in Requests : RowOK(r)

FreshInv == ReadsInv /\ (~ overtaken => RowsInv)

LEMMA InitFresh == Init => FreshInv
<1> SUFFICES ASSUME Init PROVE FreshInv
  OBVIOUS
<1>1. \A T, r : Entries(T, r) = {}
  BY DEF Entries, Init
<1>2. ReadsInv
  BY DEF ReadsInv, ReadsOK, Init
<1>3. RowsInv
  BY <1>1, CryptoAssumption DEF RowsInv, RowOK, Open, Init, Requests
<1> QED BY <1>2, <1>3 DEF FreshInv

\* Steps that touch neither the rows nor the ledger.
LEMMA RowsSame ==
    ASSUME RowsInv, UNCHANGED <<status, rows, ledger>>
    PROVE  RowsInv'
BY EntriesSame DEF RowsInv, RowOK

\* The commit of a reservation moves the sum asked for and the fee, computed
\* from what the wallet holds.
LEMMA ReserveFunds ==
    ASSUME IInv, ReadsInv, NEW c \in Calls, Reserve(c), NEW q, q = rows + 1,
           NEW n, n = asked[c] + Fee
    PROVE  /\ q \in Requests /\ asked[c] \in Amounts /\ n \in Nat /\ n <= available
           /\ available' = available - n /\ locked' = locked + n
           /\ rows' = q /\ amount' = [amount EXCEPT ![q] = asked[c]]
           /\ status' = [status EXCEPT ![q] = "PENDING"]
<1>1. ReadsOK(c) /\ TypeOK /\ pc[c] = "reserve"
  BY DEF IInv, ReadsInv, Reserve
<1>2. seen[c].available = available /\ seen[c].locked = locked /\ asked[c] \in Amounts
  BY <1>1 DEF ReadsOK
<1>3. q \in Requests /\ n \in Nat
  <2>1. asked[c] \in Nat /\ rows \in Nat /\ rows < MaxRequests
    BY <1>1, CryptoAssumption DEF TypeOK, Reserve
  <2> QED BY <2>1, CryptoAssumption DEF Requests
<1>4. n <= available
  BY <1>2 DEF Reserve, Affordable
<1> QED BY <1>2, <1>3, <1>4 DEF Reserve

LEMMA ReserveLedger ==
    ASSUME IInv, NEW c \in Calls, Reserve(c), NEW q, q = rows + 1,
           NEW n, n = asked[c] + Fee
    PROVE  /\ Len(ledger') = Len(ledger) + 1 /\ Len(ledger) \in Nat
           /\ \A i \in 1..Len(ledger) : ledger'[i] = ledger[i]
           /\ ledger'[Len(ledger) + 1].amount = -n
           /\ ledger'[Len(ledger) + 1].type = "LOCK"
           /\ \A T, r : Entries(T, r)' = Entries(T, r) \cup
                  (IF "LOCK" \in T /\ q = r THEN {Len(ledger) + 1} ELSE {})
<1> DEFINE e == [type |-> "LOCK", request |-> q, amount |-> -n]
<1>1. ledger \in Seq(Entry) /\ ledger' = Append(ledger, e)
  BY DEF IInv, TypeOK, Reserve
<1>2. e \in Entry
  <2>1. asked[c] \in Nat /\ rows \in Nat /\ rows < MaxRequests
    BY CryptoAssumption DEF IInv, TypeOK, Reserve
  <2>2. q \in Requests /\ n \in Int
    BY <2>1, CryptoAssumption DEF Requests
  <2> QED BY <2>2 DEF Entry
<1>3. e.type = "LOCK" /\ e.request = q /\ e.amount = -n
  OBVIOUS
<1> HIDE DEF e
<1>4. /\ Len(ledger') = Len(ledger) + 1 /\ Len(ledger) \in Nat
      /\ \A i \in 1..Len(ledger) : ledger'[i] = ledger[i]
      /\ ledger'[Len(ledger) + 1] = e
  BY <1>1
<1>5. \A T, r : Entries(T, r)' = Entries(T, r) \cup
          (IF e.type \in T /\ e.request = r THEN {Len(ledger) + 1} ELSE {})
  BY <1>1, <1>2, EntriesAppend
<1> QED BY <1>3, <1>4, <1>5

\* The commit that ends a request moves what the request holds, unless a
\* row it has read was written since.
LEMMA EndFunds ==
    ASSUME IInv, ReadsInv, ~ overtaken', NEW c \in Calls,
           pc[c] \in {"cancel", "release", "settle"},
           NEW new, NEW type, NEW toAvailable, NEW sum,
           EndRequest(c, new, type, toAvailable, sum), NEW q, q = target[c]
    PROVE  /\ q \in Requests /\ q <= rows /\ status[q] \in Open
           /\ Claim(q) \in Nat
           /\ available' = available + toAvailable /\ locked' = locked - Claim(q)
           /\ status' = [status EXCEPT ![q] = new]
           /\ UNCHANGED <<amount, rows>>
<1>1. ReadsOK(c) /\ TypeOK /\ CallOK(c)
  BY DEF IInv, ReadsInv, CallsInv
<1>2. seen[c].available = available /\ seen[c].locked = locked /\ status[q] \in Open
  <2>1. status[q] = read[c] /\ seen[c] = [available |-> available, locked |-> locked]
    BY DEF EndRequest, StatusStale, WalletStale
  <2>2. read[c] \in Open
    BY <1>1 DEF ReadsOK
  <2> QED BY <2>1, <2>2
<1>3. q \in Requests /\ q <= rows
  BY <1>1, CryptoAssumption DEF TypeOK, CallOK, Requests
<1>4. Claim(q) \in Nat
  BY <1>1, <1>3, CryptoAssumption DEF TypeOK, Claim
<1> QED BY <1>2, <1>3, <1>4 DEF EndRequest

LEMMA EndLedger ==
    ASSUME IInv, NEW c \in Calls, NEW new, NEW type \in Ends,
           NEW toAvailable, NEW sum \in Int,
           EndRequest(c, new, type, toAvailable, sum), NEW q \in Requests, q = target[c]
    PROVE  /\ Len(ledger') = Len(ledger) + 1 /\ Len(ledger) \in Nat
           /\ \A i \in 1..Len(ledger) : ledger'[i] = ledger[i]
           /\ ledger'[Len(ledger) + 1].amount = sum
           /\ ledger'[Len(ledger) + 1].type = type
           /\ \A T, r : Entries(T, r)' = Entries(T, r) \cup
                  (IF type \in T /\ q = r THEN {Len(ledger) + 1} ELSE {})
<1> DEFINE e == [type |-> type, request |-> q, amount |-> sum]
<1>1. ledger \in Seq(Entry) /\ ledger' = Append(ledger, e)
  BY DEF IInv, TypeOK, EndRequest
<1>2. e \in Entry
  BY DEF Entry, Ends
<1>3. e.type = type /\ e.request = q /\ e.amount = sum
  OBVIOUS
<1> HIDE DEF e
<1>4. /\ Len(ledger') = Len(ledger) + 1 /\ Len(ledger) \in Nat
      /\ \A i \in 1..Len(ledger) : ledger'[i] = ledger[i]
      /\ ledger'[Len(ledger) + 1] = e
  BY <1>1
<1>5. \A T, r : Entries(T, r)' = Entries(T, r) \cup
          (IF e.type \in T /\ e.request = r THEN {Len(ledger) + 1} ELSE {})
  BY <1>1, <1>2, EntriesAppend
<1> QED BY <1>3, <1>4, <1>5

\* The rows after the commit of a reservation.
LEMMA ReserveRows ==
    ASSUME IInv, ReadsInv, RowsInv, NEW c \in Calls, Reserve(c)
    PROVE  RowsInv'
<1>0. PICK q, n : q = rows + 1 /\ n = asked[c] + Fee
  OBVIOUS
<1>1. /\ q \in Requests /\ rows' = q
      /\ status' = [status EXCEPT ![q] = "PENDING"]
  BY <1>0, ReserveFunds
<1>2. \A T, r : Entries(T, r)' = Entries(T, r) \cup
          (IF "LOCK" \in T /\ q = r THEN {Len(ledger) + 1} ELSE {})
  BY <1>0, ReserveLedger
<1>3. rows \in Nat /\ status \in [Requests -> Status]
  BY CryptoAssumption DEF IInv, TypeOK
<1>4. ASSUME NEW r \in Requests PROVE RowOK(r)'
  <2>1. RowOK(r) /\ RowOK(q)
    BY <1>1 DEF RowsInv
  <2>2. r \in Int /\ q = rows + 1
    BY <1>0 DEF Requests
  <2>3. Entries(Ends, r)' = Entries(Ends, r)
    BY <1>2 DEF Ends
  <2>4. CASE r = q
    <3>1. Entries({"LOCK"}, r)' # {} /\ status'[r] = "PENDING"
      BY <1>1, <1>2, <1>3, <2>4
    <3>2. Entries(Ends, r) = {}
      BY <1>3, <2>1, <2>2, <2>4 DEF RowOK
    <3> QED BY <1>1, <1>3, <2>2, <2>3, <2>4, <3>1, <3>2 DEF RowOK, Open
  <2>5. CASE r # q
    <3>1. Entries({"LOCK"}, r)' = Entries({"LOCK"}, r) /\ status'[r] = status[r]
      BY <1>1, <1>2, <1>3, <2>5
    <3>2. r <= rows' <=> r <= rows
      BY <1>1, <1>3, <2>2, <2>5
    <3> QED BY <2>1, <2>3, <3>1, <3>2 DEF RowOK
  <2> QED BY <2>4, <2>5
<1> QED BY <1>4 DEF RowsInv, Requests

\* The rows after the commit that ends a request.
LEMMA EndRows ==
    ASSUME IInv, ReadsInv, RowsInv, ~ overtaken', NEW c \in Calls,
           pc[c] \in {"cancel", "release", "settle"},
           NEW new, new \notin Open, NEW type \in Ends, NEW toAvailable, NEW sum \in Int,
           EndRequest(c, new, type, toAvailable, sum)
    PROVE  RowsInv'
<1>0. PICK q : q = target[c]
  OBVIOUS
<1>1. /\ q \in Requests /\ q <= rows /\ UNCHANGED rows
      /\ status' = [status EXCEPT ![q] = new]
  BY <1>0, EndFunds
<1>2. \A T, r : Entries(T, r)' = Entries(T, r) \cup
          (IF type \in T /\ q = r THEN {Len(ledger) + 1} ELSE {})
  BY <1>0, <1>1, EndLedger
<1>3. status \in [Requests -> Status]
  BY DEF IInv, TypeOK
<1>4. ASSUME NEW r \in Requests PROVE RowOK(r)'
  <2>1. RowOK(r)
    BY DEF RowsInv
  <2>2. Entries({"LOCK"}, r)' = Entries({"LOCK"}, r)
    BY <1>2 DEF Ends
  <2>3. CASE r = q
    <3>1. Entries(Ends, r)' # {} /\ status'[r] = new
      BY <1>1, <1>2, <1>3, <2>3
    <3> QED BY <1>1, <2>1, <2>2, <2>3, <3>1 DEF RowOK
  <2>4. CASE r # q
    <3>1. Entries(Ends, r)' = Entries(Ends, r) /\ status'[r] = status[r]
      BY <1>1, <1>2, <1>3, <2>4
    <3> QED BY <1>1, <2>1, <2>2, <3>1 DEF RowOK
  <2> QED BY <2>3, <2>4
<1> QED BY <1>4 DEF RowsInv, Requests

\* What each of the three commits does, as an EndRequest.
LEMMA EndForms ==
    ASSUME NEW c \in Calls
    PROVE  /\ Cancel(c) => /\ pc[c] = "cancel"
                           /\ EndRequest(c, "CANCELLED", "UNLOCK", Claim(target[c]), Claim(target[c]))
           /\ Release(c) => /\ pc[c] = "release"
                            /\ EndRequest(c, "FAILED", "FAILED", Claim(target[c]), Claim(target[c]))
           /\ Settle(c) => /\ pc[c] = "settle"
                           /\ EndRequest(c, "COMPLETED", "COMPLETE", 0, -Claim(target[c]))
BY DEF Cancel, Release, Settle

LEMMA EndStepsRows ==
    ASSUME IInv, ReadsInv, RowsInv, ~ overtaken', NEW c \in Calls,
           Cancel(c) \/ Release(c) \/ Settle(c)
    PROVE  RowsInv'
<1>1. pc[c] \in {"cancel", "release", "settle"}
  BY EndForms
<1>2. PICK q : q = target[c]
  OBVIOUS
<1>3. Claim(q) \in Int /\ -Claim(q) \in Int /\ 0 \in Int
  <2>1. CallOK(c) /\ TypeOK
    BY DEF IInv, CallsInv
  <2>2. q \in Requests
    BY <1>1, <1>2, <2>1, CryptoAssumption DEF CallOK, TypeOK, Requests
  <2>3. amount[q] \in Nat
    BY <2>1, <2>2 DEF TypeOK
  <2> QED BY <2>3, CryptoAssumption DEF Claim
<1>4. \A s \in {"CANCELLED", "FAILED", "COMPLETED"} : s \notin Open
  BY DEF Open
<1>5. "UNLOCK" \in Ends /\ "FAILED" \in Ends /\ "COMPLETE" \in Ends
  BY DEF Ends
<1>6. CASE Cancel(c)
  BY <1>1, <1>2, <1>3, <1>4, <1>5, <1>6, EndForms, EndRows
<1>7. CASE Release(c)
  BY <1>1, <1>2, <1>3, <1>4, <1>5, <1>7, EndForms, EndRows
<1>8. CASE Settle(c)
  BY <1>1, <1>2, <1>3, <1>4, <1>5, <1>8, EndForms, EndRows
<1> QED BY <1>6, <1>7, <1>8

\* Every step but the commits leaves the wallet, the amounts, the rows and the
\* ledger alone.
LEMMA OtherSteps ==
    ASSUME [Next]_vars,
           ~ \E c \in Calls : Reserve(c) \/ Cancel(c) \/ Release(c) \/ Settle(c)
    PROVE  UNCHANGED <<available, locked, amount, rows, ledger>>
<1> USE DEF walletRow, table, locks, call
<1>1. ASSUME NEW c \in Calls, Begin(c)
      PROVE  UNCHANGED <<available, locked, amount, rows, ledger>>
  BY <1>1 DEF Begin, BeginCreate, BeginCancel, BeginProcess, BeginAdminApproved,
              BeginFinalize, Take
<1>2. ASSUME NEW c \in Calls, Proceed(c)
      PROVE  UNCHANGED <<available, locked, amount, rows, ledger>>
  BY <1>2 DEF Proceed, LockWallet, InsufficientBalance, ReadForCancel, ReadWallet,
              SaveWallet, Approve, MarkSigning, Sign, MarkBroadcasting, SaveStatus,
              BroadcastSimulated, BroadcastAccepted, BroadcastAnswerLost, BroadcastRefused, MarkBroadcasted,
              RecordFailure, ReadForRelease, RecordCompletion, ReadForSettlement,
              LockRequest, DeadlockVictim
<1>3. ASSUME NEW c \in Calls, ProcessingThrows(c) \/ Fail(c)
      PROVE  UNCHANGED <<available, locked, amount, rows, ledger>>
  BY <1>3 DEF ProcessingThrows, Fail
<1>4. CASE UNCHANGED vars
  BY <1>4 DEF vars
<1> QED BY <1>1, <1>2, <1>3, <1>4 DEF Next

\* A status that is saved while the request is under way keeps it under way.
LEMMA SaveRows ==
    ASSUME TypeOK, RowsInv, NEW q \in Requests, status[q] \in Open,
           NEW s \in Open, status' = [status EXCEPT ![q] = s], UNCHANGED <<rows, ledger>>
    PROVE  RowsInv'
<1>1. \A r \in Requests : status'[r] \in Open <=> status[r] \in Open
  BY DEF TypeOK
<1> QED BY <1>1, EntriesSame DEF RowsInv, RowOK


\* What a step of call c leaves to the others: what they remember, and the wallet
\* whenever one of them has locked it.
Aside(c) ==
    \A d \in Calls \ {c} :
        pc'[d] = pc[d] /\ asked'[d] = asked[d] /\ seen'[d] = seen[d] /\ read'[d] = read[d]

LEMMA StepReads ==
    ASSUME TypeOK, ReadsInv, NEW c \in Calls, ReadsOK(c)', Aside(c),
           \/ walletLock \in {NoCall, c}
           \/ UNCHANGED <<available, locked, walletLock>>
    PROVE  ReadsInv'
<1>1. ASSUME NEW d \in Calls, d # c
      PROVE  ReadsOK(d)'
  <2>1. /\ ReadsOK(d) /\ pc'[d] = pc[d] /\ asked'[d] = asked[d] /\ seen'[d] = seen[d]
        /\ read'[d] = read[d]
    BY <1>1 DEF ReadsInv, Aside
  <2>2. CASE walletLock \in {NoCall, c}
    <3>1. walletLock # d
      BY <1>1, <2>2, CryptoAssumption
    <3>2. pc[d] \notin {"reserve", "cancel"}
      BY <2>1, <3>1 DEF ReadsOK
    <3> QED BY <2>1, <3>2 DEF ReadsOK
  <2>3. CASE UNCHANGED <<available, locked, walletLock>>
    BY <2>1, <2>3 DEF ReadsOK
  <2> QED BY <2>2, <2>3
<1> QED BY <1>1 DEF ReadsInv

\* A call that has ended has read nothing.
LEMMA ReturnReads ==
    ASSUME TypeOK, ReadsInv, NEW c \in Calls, Return(c), Unlock(c),
           walletLock \in {NoCall, c} \/ UNCHANGED <<available, locked>>
    PROVE  ReadsInv'
<1>1. ReadsOK(c)' /\ Aside(c)
  BY ReturnEffect DEF ReadsOK, Aside
<1>2. \/ walletLock \in {NoCall, c}
      \/ UNCHANGED <<available, locked, walletLock>>
  BY DEF Unlock
<1> QED BY <1>1, <1>2, StepReads

LEMMA NextReads ==
    ASSUME IInv, ReadsInv, [Next]_vars
    PROVE  ReadsInv'
<1> USE CryptoAssumption
<1>0. TypeOK /\ \A c \in Calls : CallOK(c) /\ ReadsOK(c)
  BY DEF IInv, CallsInv, ReadsInv
<1>1. ASSUME NEW c \in Calls, NEW a \in Amounts, BeginCreate(c, a)
      PROVE  ReadsInv'
  <2>1. /\ pc'[c] = "lockWallet" /\ asked'[c] = a /\ Aside(c)
        /\ UNCHANGED <<available, locked, walletLock>>
    BY <1>0, <1>1 DEF BeginCreate, TypeOK, Goto, Aside, walletRow, locks, history
  <2>2. ReadsOK(c)'
    BY <2>1 DEF ReadsOK
  <2> QED BY <1>0, <2>1, <2>2, StepReads
<1>2. ASSUME NEW c \in Calls, Begin(c), ~ \E a \in Amounts : BeginCreate(c, a)
      PROVE  ReadsInv'
  <2>1. PICK q \in Requests, l \in {"readForCancel", "approve", "recordCompletion"} :
          Take(c, q, l) /\ status[q] \in Open
    BY <1>2 DEF Begin, BeginCancel, BeginProcess, BeginAdminApproved, BeginFinalize, Open
  <2>2. /\ pc'[c] = l /\ read'[c] = status[q] /\ Aside(c)
        /\ UNCHANGED <<available, locked, walletLock>>
    BY <1>0, <2>1 DEF Take, TypeOK, Goto, Aside, walletRow, locks
  <2>3. ReadsOK(c)'
    BY <2>1, <2>2 DEF ReadsOK
  <2> QED BY <1>0, <2>2, <2>3, StepReads
<1>3. ASSUME NEW c \in Calls, LockWallet(c)
      PROVE  ReadsInv'
  <2>1. /\ pc[c] = "lockWallet" /\ pc'[c] = "reserve" /\ asked'[c] = asked[c]
        /\ seen'[c] = [available |-> available, locked |-> locked]
        /\ UNCHANGED <<available, locked>> /\ walletLock = NoCall /\ walletLock' = c
        /\ Aside(c)
    BY <1>0, <1>3 DEF LockWallet, TypeOK, Goto, Aside, walletRow, history
  <2>2. ReadsOK(c)'
    BY <1>0, <2>1 DEF ReadsOK
  <2> QED BY <1>0, <2>1, <2>2, StepReads
<1>4. ASSUME NEW c \in Calls, Reserve(c)
      PROVE  ReadsInv'
  <2>1. Return(c) /\ Unlock(c) /\ walletLock = c
    BY <1>0, <1>4 DEF Reserve, ReadsOK
  <2> QED BY <1>0, <2>1, ReturnReads
<1>5. ASSUME NEW c \in Calls, ReadForCancel(c) \/ ReadForRelease(c) \/ ReadForSettlement(c)
      PROVE  ReadsInv'
  <2>1. PICK from, to : /\ ReadWallet(c, from, to)
                        /\ from \in {"readForCancel", "readForRelease", "readForSettlement"}
                        /\ to \in {"saveWallet", "release", "settle"}
    BY <1>5 DEF ReadForCancel, ReadForRelease, ReadForSettlement
  <2>2. /\ pc[c] = from /\ pc'[c] = to /\ read'[c] = read[c] /\ Aside(c)
        /\ UNCHANGED <<available, locked, walletLock>>
    BY <1>0, <2>1 DEF ReadWallet, TypeOK, Goto, Aside, walletRow, locks, history
  <2>3. ReadsOK(c)'
    BY <1>0, <2>1, <2>2 DEF ReadsOK
  <2> QED BY <1>0, <2>2, <2>3, StepReads
<1>6. ASSUME NEW c \in Calls, SaveWallet(c)
      PROVE  ReadsInv'
  <2>1. /\ pc[c] = "saveWallet" /\ pc'[c] = "cancel" /\ read'[c] = read[c]
        /\ walletLock = NoCall /\ walletLock' = c /\ Aside(c)
    BY <1>0, <1>6 DEF SaveWallet, TypeOK, Goto, Aside, history
  <2>2. ReadsOK(c)'
    BY <1>0, <2>1 DEF ReadsOK
  <2> QED BY <1>0, <2>1, <2>2, StepReads
<1>7. ASSUME NEW c \in Calls, Cancel(c) \/ Release(c) \/ Settle(c)
      PROVE  ReadsInv'
  <2>1. Return(c) /\ Unlock(c)
    BY <1>7 DEF Cancel, Release, Settle, EndRequest
  <2>2. walletLock \in {NoCall, c}
    BY <1>0, <1>7 DEF Cancel, Release, Settle, ReadsOK
  <2> QED BY <1>0, <2>1, <2>2, ReturnReads
<1>8. ASSUME NEW c \in Calls, Approve(c) \/ MarkSigning(c) \/ MarkBroadcasting(c)
      PROVE  ReadsInv'
  <2>1. PICK from, new, to :
          /\ SaveStatus(c, from, new, to) /\ new \in Open
          /\ from \in {"approve", "markSigning", "markBroadcasting"}
          /\ to \in {"markSigning", "sign", "broadcast"}
    BY <1>8 DEF Approve, MarkSigning, MarkBroadcasting, Open
  <2>2. /\ pc'[c] = to /\ read'[c] = new /\ Aside(c)
        /\ UNCHANGED <<available, locked, walletLock>>
    BY <1>0, <2>1 DEF SaveStatus, TypeOK, Goto, Aside, walletRow, locks
  <2>3. ReadsOK(c)'
    BY <2>1, <2>2 DEF ReadsOK
  <2> QED BY <1>0, <2>2, <2>3, StepReads
<1>9. ASSUME NEW c \in Calls,
             \/ Sign(c) \/ BroadcastSimulated(c) \/ BroadcastAccepted(c)
             \/ BroadcastAnswerLost(c) \/ BroadcastRefused(c) \/ ProcessingThrows(c)
             \/ RecordFailure(c) \/ RecordCompletion(c)
      PROVE  ReadsInv'
  <2>1. PICK l : /\ Goto(c, l)
                 /\ l \in {"markBroadcasting", "markBroadcasted", "broadcast", "recordFailure",
                           "readForRelease", "readForSettlement"}
    <3>1. ASSUME RetryOrFail(c)
          PROVE  Goto(c, "broadcast") \/ Goto(c, "recordFailure")
      BY <3>1 DEF RetryOrFail, Goto
    <3> QED BY <1>9, <3>1 DEF Sign, BroadcastSimulated, BroadcastAccepted,
                    BroadcastAnswerLost,
              BroadcastRefused, ProcessingThrows, RecordFailure, RecordCompletion, LockRequest
  <2>2. /\ pc[c] \notin {"idle", "lockWallet", "reserve"}
        /\ UNCHANGED <<available, locked, walletLock, asked, seen, read>>
    BY <1>9 DEF Sign, BroadcastSimulated, BroadcastAccepted, BroadcastAnswerLost,
                BroadcastRefused, ProcessingThrows, RecordFailure, RecordCompletion,
                LockRequest, walletRow, locks, history
  <2>3. pc'[c] = l /\ Aside(c)
    BY <1>0, <2>1, <2>2 DEF Goto, TypeOK, Aside
  <2>4. ReadsOK(c)'
    BY <1>0, <2>1, <2>2, <2>3 DEF ReadsOK
  <2> QED BY <1>0, <2>2, <2>3, <2>4, StepReads
<1>10. ASSUME NEW c \in Calls, MarkBroadcasted(c)
       PROVE  ReadsInv'
  <2>1. Return(c) /\ UNCHANGED <<available, locked, walletLock>>
    BY <1>10 DEF MarkBroadcasted, walletRow, locks
  <2>2. ReadsOK(c)' /\ Aside(c)
    BY <1>0, <2>1, ReturnEffect DEF ReadsOK, Aside
  <2> QED BY <1>0, <2>1, <2>2, StepReads
<1>11. ASSUME NEW c \in Calls, InsufficientBalance(c) \/ Fail(c) \/ DeadlockVictim(c)
       PROVE  ReadsInv'
  <2>1. Return(c) /\ Unlock(c) /\ UNCHANGED <<available, locked>>
    BY <1>11 DEF InsufficientBalance, Fail, DeadlockVictim, walletRow
  <2> QED BY <1>0, <2>1, ReturnReads
<1>12. CASE UNCHANGED vars
  BY <1>0, <1>12 DEF ReadsInv, ReadsOK, vars, walletRow, locks, call, history
<1>13. ASSUME NEW c \in Calls, Begin(c) \/ Proceed(c) \/ ProcessingThrows(c) \/ Fail(c)
       PROVE  ReadsInv'
  <2>1. ASSUME Begin(c) PROVE ReadsInv'
    BY <1>1, <1>2, <2>1
  <2>2. ASSUME Proceed(c) PROVE ReadsInv'
    BY <1>3, <1>4, <1>5, <1>6, <1>7, <1>8, <1>9, <1>10, <1>11, <2>2 DEF Proceed
  <2> QED BY <1>9, <1>11, <1>13, <2>1, <2>2
<1> QED BY <1>12, <1>13 DEF Next

-----------------------------------------------------------------------------
\* Once a write has overtaken a read, that is so for good.
LEMMA OvertakenStays ==
    ASSUME [Next]_vars, ~ overtaken'
    PROVE  ~ overtaken
<1>1. ASSUME NEW c \in Calls, Begin(c)
      PROVE  ~ overtaken
  BY <1>1 DEF Begin, BeginCreate, BeginCancel, BeginProcess, BeginAdminApproved,
              BeginFinalize, Take, history
<1>2. ASSUME NEW c \in Calls, Proceed(c)
      PROVE  ~ overtaken
  BY <1>2 DEF Proceed, LockWallet, InsufficientBalance, Reserve, ReadForCancel, ReadWallet,
              SaveWallet, Cancel, EndRequest, Approve, MarkSigning, Sign, MarkBroadcasting,
              SaveStatus, BroadcastSimulated, BroadcastAccepted, BroadcastAnswerLost,
              BroadcastRefused, MarkBroadcasted, RecordFailure, ReadForRelease, Release,
              RecordCompletion, ReadForSettlement, Settle, LockRequest, DeadlockVictim,
              history
<1>3. ASSUME NEW c \in Calls, ProcessingThrows(c) \/ Fail(c)
      PROVE  ~ overtaken
  BY <1>3 DEF ProcessingThrows, Fail, history
<1>4. CASE UNCHANGED vars
  BY <1>4 DEF vars, history
<1> QED BY <1>1, <1>2, <1>3, <1>4 DEF Next

\* The saves of a status keep a request under way under way.
LEMMA SavesKeepRows ==
    ASSUME IInv, ReadsInv, RowsInv, ~ overtaken', NEW c \in Calls,
           Approve(c) \/ MarkSigning(c) \/ MarkBroadcasting(c) \/ MarkBroadcasted(c)
    PROVE  RowsInv'
<1>0. TypeOK /\ CallOK(c) /\ ReadsOK(c)
  BY DEF IInv, CallsInv, ReadsInv
<1>1. PICK q : q = target[c]
  OBVIOUS
<1>2. /\ pc[c] \in {"approve", "markSigning", "markBroadcasting", "markBroadcasted"}
      /\ \E s \in Open : status' = [status EXCEPT ![q] = s]
      /\ status[q] = read[c]
      /\ UNCHANGED <<rows, ledger>>
  BY <1>1 DEF Approve, MarkSigning, MarkBroadcasting, SaveStatus, MarkBroadcasted,
              StatusStale, Open
<1>3. q \in Requests /\ status[q] \in Open
  <2>1. target[c] \in 1..rows /\ read[c] \in Open
    BY <1>0, <1>2 DEF CallOK, ReadsOK
  <2> QED BY <1>0, <1>1, <1>2, <2>1, CryptoAssumption DEF TypeOK, Requests
<1> QED BY <1>0, <1>2, <1>3, SaveRows

\* Only the commits and the saves of a status write the rows or the ledger.
LEMMA RowsLeft ==
    ASSUME [Next]_vars,
           ~ \E c \in Calls : \/ Reserve(c) \/ Cancel(c) \/ Release(c) \/ Settle(c)
                             \/ Approve(c) \/ MarkSigning(c) \/ MarkBroadcasting(c)
                             \/ MarkBroadcasted(c)
    PROVE  UNCHANGED <<status, rows, ledger>>
<1> USE DEF table
<1>1. ASSUME NEW c \in Calls, Begin(c)
      PROVE  UNCHANGED <<status, rows, ledger>>
  BY <1>1 DEF Begin, BeginCreate, BeginCancel, BeginProcess, BeginAdminApproved,
              BeginFinalize, Take
<1>2. ASSUME NEW c \in Calls, Proceed(c)
      PROVE  UNCHANGED <<status, rows, ledger>>
  BY <1>2 DEF Proceed, LockWallet, InsufficientBalance, ReadForCancel, ReadWallet,
              SaveWallet, Sign, BroadcastSimulated, BroadcastAccepted, BroadcastAnswerLost,
              BroadcastRefused, RecordFailure, ReadForRelease, RecordCompletion,
              ReadForSettlement, LockRequest, DeadlockVictim
<1>3. ASSUME NEW c \in Calls, ProcessingThrows(c) \/ Fail(c)
      PROVE  UNCHANGED <<status, rows, ledger>>
  BY <1>3 DEF ProcessingThrows, Fail
<1>4. CASE UNCHANGED vars
  BY <1>4 DEF vars
<1> QED BY <1>1, <1>2, <1>3, <1>4 DEF Next

LEMMA NextFresh ==
    ASSUME IInv, FreshInv, [Next]_vars
    PROVE  FreshInv'
<1>1. ReadsInv'
  BY NextReads DEF FreshInv
<1>2. ASSUME ~ overtaken'
      PROVE  RowsInv'
  <2>0. ReadsInv /\ RowsInv
    BY <1>2, OvertakenStays DEF FreshInv
  <2>1. ASSUME NEW c \in Calls, Reserve(c)
        PROVE  RowsInv'
    BY <2>0, <2>1, ReserveRows
  <2>2. ASSUME NEW c \in Calls, Cancel(c) \/ Release(c) \/ Settle(c)
        PROVE  RowsInv'
    BY <1>2, <2>0, <2>2, EndStepsRows
  <2>3. ASSUME NEW c \in Calls,
               Approve(c) \/ MarkSigning(c) \/ MarkBroadcasting(c) \/ MarkBroadcasted(c)
        PROVE  RowsInv'
    BY <1>2, <2>0, <2>3, SavesKeepRows
  <2>4. CASE UNCHANGED <<status, rows, ledger>>
    BY <2>0, <2>4, RowsSame
  <2> QED BY <2>1, <2>2, <2>3, <2>4, RowsLeft
<1> QED BY <1>1, <1>2 DEF FreshInv

-----------------------------------------------------------------------------
(* Each step is one of the atomic reservation, or none.                    *)

\* The two ways a request can end.
LEMMA EndsSplit ==
    ASSUME NEW r
    PROVE  Entries(Ends, r) = Entries({"COMPLETE"}, r) \cup Entries({"UNLOCK", "FAILED"}, r)
BY DEF Entries, Ends

LEMMA PaidType ==
    ASSUME TypeOK
    PROVE  Paid \in [1..MaxRequests -> Int]
<1>1. \A r \in Requests : Claim(r) \in Int
  BY CryptoAssumption DEF TypeOK, Claim
<1> QED BY <1>1 DEF Paid, Requests

LEMMA InitRefines == Init => Reservation!Init
<1> SUFFICES ASSUME Init PROVE Reservation!Init
  OBVIOUS
<1>1. \A T, r : Entries(T, r) = {}
  BY DEF Entries, Init
<1>2. Claimed = [r \in Requests |-> 0] /\ Phase = [r \in Requests |-> "unused"]
  BY <1>1, CryptoAssumption DEF Claimed, Phase, Init, Requests
<1>3. Total(Paid, MaxRequests) = 0
  <2>1. Paid = [r \in 1..MaxRequests |-> 0]
    BY <1>1 DEF Paid, Requests
  <2> QED BY <2>1, TotalZero, CryptoAssumption
<1> QED BY <1>2, <1>3 DEF Init, Reservation!Init, Reservation!Requests, Requests

\* Steps that move no money and end no request.
LEMMA StutterRefines ==
    ASSUME UNCHANGED <<available, locked, amount, rows, ledger>>
    PROVE  UNCHANGED Reservation!vars
<1>1. \A T, r : Entries(T, r)' = Entries(T, r)
  BY EntriesSame
<1>2. Claimed' = Claimed /\ Phase' = Phase /\ Paid' = Paid
  BY <1>1 DEF Claimed, Phase, Paid, Claim
<1> QED BY <1>2 DEF Reservation!vars

\* A new request is not a paid one.
LEMMA ReservePaid ==
    ASSUME IInv, ReadsInv, RowsInv, NEW c \in Calls, Reserve(c)
    PROVE  Paid' = Paid
<1>1. PICK q, n : q = rows + 1 /\ n = asked[c] + Fee
  OBVIOUS
<1>2. q \in Requests /\ amount' = [amount EXCEPT ![q] = asked[c]]
  BY <1>1, ReserveFunds
<1>3. \A T, r : Entries(T, r)' = Entries(T, r) \cup
          (IF "LOCK" \in T /\ q = r THEN {Len(ledger) + 1} ELSE {})
  BY <1>1, ReserveLedger
<1>4. Entries({"COMPLETE"}, q) = {}
  <2>1. RowOK(q) /\ ~ (q <= rows)
    BY <1>1, <1>2 DEF RowsInv, IInv, TypeOK
  <2> QED BY <2>1, EndsSplit DEF RowOK
<1>5. ASSUME NEW r \in Requests
      PROVE  Paid'[r] = Paid[r]
  <2>1. Entries({"COMPLETE"}, r)' = Entries({"COMPLETE"}, r)
    BY <1>3
  <2>2. r # q => amount'[r] = amount[r]
    BY <1>2 DEF IInv, TypeOK
  <2> QED BY <1>4, <2>1, <2>2 DEF Paid, Claim
<1>6. /\ Paid = [r \in Requests |-> Paid[r]]
      /\ Paid' = [r \in Requests |-> Paid'[r]]
  BY DEF Paid
<1> HIDE DEF Paid
<1> QED BY <1>5, <1>6

LEMMA ReserveRefines ==
    ASSUME IInv, IInv', ReadsInv, RowsInv, NEW c \in Calls, Reserve(c)
    PROVE  Reservation!Next
<1>0. TypeOK /\ TypeOK'
  BY DEF IInv
<1>1. PICK q, n : q = rows + 1 /\ n = asked[c] + Fee
  OBVIOUS
<1>2. /\ q \in Requests /\ asked[c] \in Amounts /\ n \in Nat /\ n <= available
      /\ available' = available - n /\ locked' = locked + n
      /\ rows' = q /\ amount' = [amount EXCEPT ![q] = asked[c]]
  BY <1>1, ReserveFunds
<1>3. \A T, r : Entries(T, r)' = Entries(T, r) \cup
          (IF "LOCK" \in T /\ q = r THEN {Len(ledger) + 1} ELSE {})
  BY <1>1, ReserveLedger
<1>4. rows \in Nat /\ \A r \in Requests : r \in Int
  BY <1>0 DEF TypeOK, Requests
<1>5. /\ Entries({"LOCK"}, q) = {} /\ Entries(Ends, q) = {}
      /\ Entries({"COMPLETE"}, q) = {} /\ Entries({"UNLOCK", "FAILED"}, q) = {}
  <2>1. RowOK(q) /\ ~ (q <= rows)
    BY <1>1, <1>2, <1>4 DEF RowsInv
  <2>2. Entries({"LOCK"}, q) = {} /\ Entries(Ends, q) = {}
    BY <2>1 DEF RowOK
  <2> QED BY <2>2, EndsSplit
<1>6. \A r \in Requests : amount'[r] = IF r = q THEN asked[c] ELSE amount[r]
  BY <1>0, <1>2 DEF TypeOK
<1>7. Claimed' = [Claimed EXCEPT ![q] = n]
  <2>1. ASSUME NEW r \in Requests
        PROVE  Claimed'[r] = IF r = q THEN n ELSE Claimed[r]
    <3>1. Claimed'[r] = IF r <= q THEN amount'[r] + Fee ELSE 0
      BY <1>2 DEF Claimed, Claim
    <3>2. CASE r = q
      BY <1>1, <1>4, <1>6, <3>1, <3>2
    <3>3. CASE r # q
      BY <1>1, <1>4, <1>6, <3>1, <3>3 DEF Claimed, Claim
    <3> QED BY <3>2, <3>3
  <2>2. /\ Claimed = [r \in Requests |-> Claimed[r]]
        /\ Claimed' = [r \in Requests |-> Claimed'[r]]
    BY DEF Claimed
  <2> HIDE DEF Claimed
  <2> QED BY <2>1, <2>2
<1>8. Phase[q] = "unused" /\ Phase' = [Phase EXCEPT ![q] = "held"]
  <2>1. \A r : /\ Entries({"COMPLETE"}, r)' = Entries({"COMPLETE"}, r)
               /\ Entries({"UNLOCK", "FAILED"}, r)' = Entries({"UNLOCK", "FAILED"}, r)
               /\ Entries({"LOCK"}, r)' =
                     Entries({"LOCK"}, r) \cup (IF q = r THEN {Len(ledger) + 1} ELSE {})
    BY <1>3
  <2>2. Phase[q] = "unused"
    BY <1>2, <1>5 DEF Phase
  <2>3. ASSUME NEW r \in Requests
        PROVE  Phase'[r] = IF r = q THEN "held" ELSE Phase[r]
    <3>1. CASE r = q
      BY <1>5, <2>1, <3>1 DEF Phase
    <3>2. CASE r # q
      BY <2>1, <3>2 DEF Phase
    <3> QED BY <3>1, <3>2
  <2>4. /\ Phase = [r \in Requests |-> Phase[r]]
        /\ Phase' = [r \in Requests |-> Phase'[r]]
    BY DEF Phase
  <2> HIDE DEF Phase
  <2> QED BY <1>2, <2>2, <2>3, <2>4
<1>9. Paid' = Paid
  BY ReservePaid
<1>10. Reservation!Reserve(q, n)
  BY <1>2, <1>7, <1>8, <1>9 DEF Reservation!Reserve
<1>11. n \in {a + Fee : a \in Amounts}
  BY <1>1, <1>2
<1> QED BY <1>2, <1>10, <1>11 DEF Reservation!Next, Reservation!Requests, Requests

\* What the commit that ends a request does to the rest of the mapping.
LEMMA EndPhase ==
    ASSUME IInv, IInv', ReadsInv, RowsInv, ~ overtaken',
           NEW c \in Calls, pc[c] \in {"cancel", "release", "settle"},
           NEW new, NEW type \in Ends, NEW toAvailable, NEW sum \in Int,
           EndRequest(c, new, type, toAvailable, sum), NEW q, q = target[c]
    PROVE  /\ q \in Requests /\ Claimed[q] = Claim(q) /\ Claimed' = Claimed
           /\ Phase[q] = "held" /\ Paid[q] = 0
           /\ Phase' = [Phase EXCEPT ![q] =
                           IF type = "COMPLETE" THEN "settled" ELSE "released"]
           /\ Paid' = [Paid EXCEPT ![q] = IF type = "COMPLETE" THEN Claim(q) ELSE 0]
<1>1. /\ q \in Requests /\ q <= rows /\ status[q] \in Open
      /\ UNCHANGED <<amount, rows>>
  BY EndFunds
<1>2. \A T, r : Entries(T, r)' = Entries(T, r) \cup
          (IF type \in T /\ q = r THEN {Len(ledger) + 1} ELSE {})
  BY <1>1, EndLedger
<1>3. Entries({"LOCK"}, q) # {} /\ Entries({"COMPLETE"}, q) = {}
      /\ Entries({"UNLOCK", "FAILED"}, q) = {}
  <2>1. RowOK(q)
    BY <1>1 DEF RowsInv
  <2>2. Entries({"LOCK"}, q) # {} /\ Entries(Ends, q) = {}
    BY <1>1, <2>1 DEF RowOK
  <2> QED BY <2>2, EndsSplit
<1>4. Claimed[q] = Claim(q) /\ Claimed' = Claimed
  BY <1>1 DEF Claimed, Claim
<1>5. \A r : Entries({"LOCK"}, r)' = Entries({"LOCK"}, r)
  BY <1>2 DEF Ends
<1>6. \A r \in Requests : r # q => \A T : Entries(T, r)' = Entries(T, r)
  BY <1>2
<1>7. IF type = "COMPLETE"
      THEN Entries({"COMPLETE"}, q)' # {} /\ Entries({"UNLOCK", "FAILED"}, q)' = {}
      ELSE Entries({"COMPLETE"}, q)' = {} /\ Entries({"UNLOCK", "FAILED"}, q)' # {}
  BY <1>2, <1>3 DEF Ends
<1>8. Phase[q] = "held" /\ Phase' = [Phase EXCEPT ![q] =
                                        IF type = "COMPLETE" THEN "settled" ELSE "released"]
  <2>1. Phase[q] = "held"
    BY <1>1, <1>3 DEF Phase
  <2>2. ASSUME NEW r \in Requests
        PROVE  Phase'[r] = IF r = q
                           THEN IF type = "COMPLETE" THEN "settled" ELSE "released"
                           ELSE Phase[r]
    <3>1. Phase'[r] = CASE Entries({"LOCK"}, r)' = {} -> "unused"
                        [] Entries({"COMPLETE"}, r)' # {} -> "settled"
                        [] Entries({"UNLOCK", "FAILED"}, r)' # {} -> "released"
                        [] OTHER -> "held"
      BY DEF Phase
    <3>2. CASE r = q
      <4>1. Entries({"LOCK"}, r)' # {}
        BY <1>3, <1>5, <3>2
      <4>2. CASE type = "COMPLETE"
        <5>1. Entries({"COMPLETE"}, r)' # {} /\ Entries({"UNLOCK", "FAILED"}, r)' = {}
          BY <1>7, <3>2, <4>2
        <5>2. Phase'[r] = "settled"
          BY <3>1, <4>1, <5>1
        <5> QED BY <3>2, <4>2, <5>2
      <4>3. CASE type # "COMPLETE"
        <5>1. Entries({"COMPLETE"}, r)' = {} /\ Entries({"UNLOCK", "FAILED"}, r)' # {}
          BY <1>7, <3>2, <4>3
        <5>2. Phase'[r] = "released"
          BY <3>1, <4>1, <5>1
        <5> QED BY <3>2, <4>3, <5>2
      <4> QED BY <4>2, <4>3
    <3>3. CASE r # q
      BY <1>6, <3>1, <3>3 DEF Phase
    <3> QED BY <3>2, <3>3
  <2>3. /\ Phase = [r \in Requests |-> Phase[r]]
        /\ Phase' = [r \in Requests |-> Phase'[r]]
    BY DEF Phase
  <2> HIDE DEF Phase
  <2> QED BY <1>1, <2>1, <2>2, <2>3
<1>9. Paid[q] = 0 /\ Paid' = [Paid EXCEPT ![q] = IF type = "COMPLETE" THEN Claim(q) ELSE 0]
  <2>1. Paid[q] = 0
    BY <1>1, <1>3 DEF Paid
  <2>2. ASSUME NEW r \in Requests
        PROVE  Paid'[r] = IF r = q
                          THEN IF type = "COMPLETE" THEN Claim(q) ELSE 0
                          ELSE Paid[r]
    <3>1. Paid'[r] = IF Entries({"COMPLETE"}, r)' # {} THEN Claim(r) ELSE 0
      BY <1>1 DEF Paid, Claim
    <3>2. CASE r = q
      BY <1>7, <3>1, <3>2
    <3>3. CASE r # q
      BY <1>6, <3>1, <3>3 DEF Paid
    <3> QED BY <3>2, <3>3
  <2>3. /\ Paid = [r \in Requests |-> Paid[r]]
        /\ Paid' = [r \in Requests |-> Paid'[r]]
    BY DEF Paid
  <2> HIDE DEF Paid
  <2> QED BY <1>1, <2>1, <2>2, <2>3
<1> QED BY <1>1, <1>4, <1>8, <1>9

\* What is paid out grows by the claim of a request that completes.
LEMMA EndPaid ==
    ASSUME TypeOK, NEW q \in Requests, Paid[q] = 0, NEW v \in Int,
           Paid' = [Paid EXCEPT ![q] = v]
    PROVE  /\ Total(Paid, MaxRequests) \in Int
           /\ Total(Paid', MaxRequests) = Total(Paid, MaxRequests) + v
<1>1. Paid \in [1..MaxRequests -> Int] /\ q \in 1..MaxRequests /\ MaxRequests \in Nat
  BY PaidType, CryptoAssumption DEF Requests
<1> HIDE DEF Paid
<1>2. Total([Paid EXCEPT ![q] = v], MaxRequests) = Total(Paid, MaxRequests) - Paid[q] + v
  BY <1>1, TotalUpdate
<1>3. Total(Paid, MaxRequests) \in Int
  BY <1>1, TotalType
<1> QED BY <1>2, <1>3

\* Each of the three commits that end a request is one atomic operation.
LEMMA EndRefines ==
    ASSUME IInv, IInv', ReadsInv, RowsInv, ~ overtaken',
           NEW c \in Calls, Cancel(c) \/ Release(c) \/ Settle(c)
    PROVE  Reservation!Next
<1>0. TypeOK /\ pc[c] \in {"cancel", "release", "settle"}
  BY EndForms DEF IInv
<1>1. PICK q : q = target[c]
  OBVIOUS
<1>2. q \in Requests /\ Claim(q) \in Int /\ -Claim(q) \in Int
  <2>1. CallOK(c)
    BY DEF IInv, CallsInv
  <2>2. q \in Requests
    BY <1>0, <1>1, <2>1, CryptoAssumption DEF CallOK, TypeOK, Requests
  <2>3. amount[q] \in Nat
    BY <1>0, <2>2 DEF TypeOK
  <2> QED BY <2>2, <2>3, CryptoAssumption DEF Claim
<1>3. "UNLOCK" \in Ends /\ "FAILED" \in Ends /\ "COMPLETE" \in Ends
  BY DEF Ends
<1>4. ASSUME available' = available + Claim(q) /\ locked' = locked - Claim(q),
             Claimed[q] = Claim(q), Claimed' = Claimed, Phase[q] = "held",
             Phase' = [Phase EXCEPT ![q] = "released"], Paid[q] = 0,
             Paid' = [Paid EXCEPT ![q] = 0]
      PROVE  Reservation!Next
  <2>1. Paid' = Paid
    <3>1. Paid \in [1..MaxRequests -> Int]
      BY <1>0, PaidType
    <3> HIDE DEF Paid
    <3> QED BY <1>2, <1>4, <3>1
  <2>2. Reservation!Release(q)
    BY <1>4, <2>1 DEF Reservation!Release
  <2> QED BY <1>2, <2>2 DEF Reservation!Next, Reservation!Requests, Requests
<1>5. ASSUME NEW new, NEW type \in Ends, NEW toAvailable, NEW sum \in Int,
             EndRequest(c, new, type, toAvailable, sum)
      PROVE  /\ Claimed[q] = Claim(q) /\ Claimed' = Claimed
             /\ Phase[q] = "held" /\ Paid[q] = 0
             /\ Phase' = [Phase EXCEPT ![q] =
                             IF type = "COMPLETE" THEN "settled" ELSE "released"]
             /\ Paid' = [Paid EXCEPT ![q] = IF type = "COMPLETE" THEN Claim(q) ELSE 0]
  <2>1. pc[c] \in {"cancel", "release", "settle"}
    BY <1>0
  <2>2. EndRequest(c, new, type, toAvailable, sum) /\ type \in Ends /\ sum \in Int
    BY <1>5
  <2>3. /\ IInv /\ IInv' /\ ReadsInv /\ RowsInv /\ ~ overtaken'
        /\ q = target[c]
    BY <1>1
  <2>4. /\ q \in Requests /\ Claimed[q] = Claim(q) /\ Claimed' = Claimed
        /\ Phase[q] = "held" /\ Paid[q] = 0
        /\ Phase' = [Phase EXCEPT ![q] =
                        IF type = "COMPLETE" THEN "settled" ELSE "released"]
        /\ Paid' = [Paid EXCEPT ![q] = IF type = "COMPLETE" THEN Claim(q) ELSE 0]
    BY <2>1, <2>2, <2>3, EndPhase
  <2> QED BY <2>4
<1>6. CASE Cancel(c)
  <2>1. EndRequest(c, "CANCELLED", "UNLOCK", Claim(q), Claim(q))
    BY <1>1, <1>6, EndForms
  <2>2. available' = available + Claim(q) /\ locked' = locked - Claim(q)
    BY <1>0, <1>1, <2>1, EndFunds
  <2>3. /\ Claimed[q] = Claim(q) /\ Claimed' = Claimed /\ Paid[q] = 0
        /\ Phase[q] = "held" /\ Phase' = [Phase EXCEPT ![q] = "released"]
        /\ Paid' = [Paid EXCEPT ![q] = 0]
    <3>1. "UNLOCK" # "COMPLETE"
      OBVIOUS
    <3> QED BY <1>2, <1>3, <1>5, <2>1, <3>1
  <2> QED BY <1>4, <2>2, <2>3
<1>7. CASE Release(c)
  <2>1. EndRequest(c, "FAILED", "FAILED", Claim(q), Claim(q))
    BY <1>1, <1>7, EndForms
  <2>2. available' = available + Claim(q) /\ locked' = locked - Claim(q)
    BY <1>0, <1>1, <2>1, EndFunds
  <2>3. /\ Claimed[q] = Claim(q) /\ Claimed' = Claimed /\ Paid[q] = 0
        /\ Phase[q] = "held" /\ Phase' = [Phase EXCEPT ![q] = "released"]
        /\ Paid' = [Paid EXCEPT ![q] = 0]
    <3>1. "FAILED" # "COMPLETE"
      OBVIOUS
    <3> QED BY <1>2, <1>3, <1>5, <2>1, <3>1
  <2> QED BY <1>4, <2>2, <2>3
<1>8. CASE Settle(c)
  <2>1. EndRequest(c, "COMPLETED", "COMPLETE", 0, -Claim(q))
    BY <1>1, <1>8, EndForms
  <2>2. available' = available /\ locked' = locked - Claim(q)
    <3>1. available' = available + 0 /\ locked' = locked - Claim(q)
      BY <1>0, <1>1, <2>1, EndFunds
    <3> QED BY <1>0, <3>1 DEF TypeOK
  <2>3. /\ Claimed[q] = Claim(q) /\ Claimed' = Claimed /\ Paid[q] = 0
        /\ Phase[q] = "held" /\ Phase' = [Phase EXCEPT ![q] = "settled"]
        /\ Paid' = [Paid EXCEPT ![q] = Claim(q)]
    BY <1>2, <1>3, <1>5, <2>1
  <2>4. Total(Paid', MaxRequests) = Total(Paid, MaxRequests) + Claim(q)
    <3>1. PICK v \in Int : v = Claim(q)
      BY <1>2
    <3>2. Paid' = [Paid EXCEPT ![q] = v] /\ Paid[q] = 0
      BY <2>3, <3>1
    <3>3. Total(Paid', MaxRequests) = Total(Paid, MaxRequests) + v
      BY <1>0, <1>2, <3>2, EndPaid
    <3> QED BY <3>1, <3>3
  <2>5. Reservation!Settle(q)
    BY <2>2, <2>3, <2>4 DEF Reservation!Settle
  <2> QED BY <1>2, <2>5 DEF Reservation!Next, Reservation!Requests, Requests
<1> QED BY <1>6, <1>7, <1>8

LEMMA NextRefines ==
    ASSUME IInv, IInv', FreshInv, [Next]_vars, ~ overtaken'
    PROVE  [Reservation!Next]_(Reservation!vars)
<1>0. ReadsInv /\ RowsInv
  BY OvertakenStays DEF FreshInv
<1>1. ASSUME NEW c \in Calls, Reserve(c)
      PROVE  Reservation!Next
  BY <1>0, <1>1, ReserveRefines
<1>2. ASSUME NEW c \in Calls, Cancel(c) \/ Release(c) \/ Settle(c)
      PROVE  Reservation!Next
  BY <1>0, <1>2, EndRefines
<1>3. ASSUME ~ \E c \in Calls : Reserve(c) \/ Cancel(c) \/ Release(c) \/ Settle(c)
      PROVE  UNCHANGED Reservation!vars
  BY <1>3, OtherSteps, StutterRefines
<1> QED BY <1>1, <1>2, <1>3

\* Any number of concurrent calls, whatever fails in the middle of them, implement
\* the atomic reservation of funds step by step: only a write that rests on an
\* overtaken read can depart from it.
THEOREM ImplementsUntilOvertaken == Spec => ImplementsReservation
<1>1. IInv /\ FreshInv /\ [Next]_vars => FreshInv'
  BY NextFresh
<1>2. IInv /\ IInv' /\ FreshInv /\ [Next]_vars
      => [overtaken' \/ Reservation!Next]_(Reservation!vars)
  BY NextRefines
<1> QED BY <1>1, <1>2, InitIInv, NextIInv, InitFresh, InitRefines, PTL
        DEF Spec, ImplementsReservation

\* With any number of concurrent calls a withdrawal holds its funds exactly as long
\* as its status says it is under way, until a write overtakes a read.
THEOREM OpenHoldsFunds == Spec => []OpenIsHeld
<1>1. IInv /\ FreshInv /\ [Next]_vars => FreshInv'
  BY NextFresh
<1>2. FreshInv => OpenIsHeld
  <2> SUFFICES ASSUME FreshInv, ~ overtaken, NEW r \in Requests
               PROVE  IsHeld(r) <=> status[r] \in Open
    BY DEF OpenIsHeld, Open
  <2>1. RowOK(r)
    BY DEF FreshInv, RowsInv
  <2> QED BY <2>1 DEF RowOK, IsHeld, Ends
<1> QED BY <1>1, <1>2, InitIInv, NextIInv, InitFresh, PTL DEF Spec

-----------------------------------------------------------------------------
\* What the reservation promises holds of the service, until then.

Sound ==
    INSTANCE FundsReservationProofs WITH
        Claims <- {a + Fee : a \in Amounts},
        Credits <- {},
        InitialFunds <- InitialAvailable,
        free <- available,
        spent <- Total(Paid, MaxRequests),
        funded <- InitialAvailable,
        claim <- Claimed,
        phase <- Phase

\* The reservation is sound in every state that no overtaking write preceded.
SoundInv == ~ overtaken => Sound!IInv

LEMMA SoundAssumption == Sound!ReservationAssumption
BY CryptoAssumption DEF Sound!ReservationAssumption

LEMMA InitSound ==
    ASSUME Init
    PROVE  SoundInv
<1>1. Reservation!Init
  BY InitRefines
<1>2. Sound!Init
  BY <1>1 DEF Reservation!Init, Sound!Init, Reservation!Requests, Sound!Requests
<1> QED BY <1>2, SoundAssumption, Sound!InitIInv DEF SoundInv

LEMMA NextSound ==
    ASSUME IInv, IInv', FreshInv, SoundInv, [Next]_vars
    PROVE  SoundInv'
<1> SUFFICES ASSUME ~ overtaken'
             PROVE  Sound!IInv'
  BY DEF SoundInv
<1>1. Sound!IInv
  BY OvertakenStays DEF SoundInv
<1>2. [Reservation!Next]_(Reservation!vars)
  BY NextRefines
<1>3. [Sound!Next]_(Sound!vars)
  BY <1>2
     DEF Reservation!Next, Sound!Next, Reservation!vars, Sound!vars,
     Reservation!Reserve, Sound!Reserve, Reservation!Release, Sound!Release,
     Reservation!Settle, Sound!Settle, Reservation!Credit, Sound!Credit,
     Reservation!Requests, Sound!Requests
<1> QED BY <1>1, <1>3, SoundAssumption, Sound!NextIInv

\* Under the mapping, what the reservation calls held is what the ledger says.
LEMMA SoundMeans ==
    ASSUME IInv, RowsInv, Sound!SoundFunds
    PROVE  /\ locked = Total(Held, MaxRequests)
           /\ available >= 0 /\ locked >= 0
           /\ available + locked + Total(Paid, MaxRequests) = InitialAvailable
<1>1. Sound!Held = Held
  <2>1. ASSUME NEW r \in Requests
        PROVE  (IF Phase[r] = "held" THEN Claimed[r] ELSE 0)
               = (IF IsHeld(r) THEN Claim(r) ELSE 0)
    <3>1. /\ Entries({"LOCK"}, r) # {} => r <= rows
          /\ Entries(Ends, r) = {} <=> /\ Entries({"COMPLETE"}, r) = {}
                                       /\ Entries({"UNLOCK", "FAILED"}, r) = {}
      BY EndsSplit DEF RowsInv, RowOK
    <3>2. Phase[r] = "held" <=> IsHeld(r)
      BY <3>1 DEF Phase, IsHeld, Ends
    <3>3. IsHeld(r) => Claimed[r] = Claim(r)
      BY <3>1 DEF IsHeld, Claimed
    <3> QED BY <3>2, <3>3
  <2> QED BY <2>1 DEF Sound!Held, Sound!Requests, Held, Requests
<1>2. locked = Total(Held, MaxRequests)
  <2>1. Sound!Total(Held, MaxRequests) = Total(Held, MaxRequests)
    BY DEF Sound!Total, Total
  <2> QED BY <1>1, <2>1 DEF Sound!SoundFunds, Sound!LockedIsHeld
<1>3. /\ available >= 0 /\ locked >= 0
      /\ available + locked + Total(Paid, MaxRequests) = InitialAvailable
  BY CryptoAssumption DEF Sound!SoundFunds, Sound!Solvent, Sound!Conserved
<1> QED BY <1>2, <1>3

LEMMA FundsStaySafe == Spec => [](LockedIsHeld /\ FundsConserved)
<1>1. IInv /\ FreshInv /\ [Next]_vars => FreshInv'
  BY NextFresh
<1>2. IInv /\ IInv' /\ FreshInv /\ SoundInv /\ [Next]_vars => SoundInv'
  BY NextSound
<1>3. IInv /\ FreshInv /\ SoundInv => LockedIsHeld /\ FundsConserved
  <2> SUFFICES ASSUME IInv, FreshInv, SoundInv, ~ overtaken
               PROVE  LockedIsHeld /\ FundsConserved
    BY DEF LockedIsHeld, FundsConserved
  <2>1. RowsInv /\ Sound!SoundFunds
    BY DEF FreshInv, SoundInv, Sound!IInv
  <2> QED BY <2>1, SoundMeans DEF LockedIsHeld, FundsConserved
<1> QED BY <1>1, <1>2, <1>3, InitIInv, NextIInv, InitFresh, InitSound, PTL DEF Spec

\* With any number of concurrent calls the locked balance is exactly what the
\* withdrawals under way hold, until a write overtakes a read.
THEOREM FundsAreSafe == Spec => []LockedIsHeld
<1>1. LockedIsHeld /\ FundsConserved => LockedIsHeld
  OBVIOUS
<1> QED BY <1>1, FundsStaySafe, PTL

\* Until then, no balance is negative, and only completed withdrawals take money
\* out.
THEOREM FundsAreConserved == Spec => []FundsConserved
<1>1. LockedIsHeld /\ FundsConserved => FundsConserved
  OBVIOUS
<1> QED BY <1>1, FundsStaySafe, PTL

-----------------------------------------------------------------------------
\* The ledger.

LedgerExact == LedgerBalance = available - Total(Paid, MaxRequests)

\* An entry of what the available balance moves by, less what is paid out with
\* it, keeps the difference between the two.
LEMMA LedgerGrows ==
    ASSUME LedgerExact, TypeOK, TypeOK', NEW m \in Int, NEW p \in Int,
           Len(ledger') = Len(ledger) + 1, Len(ledger) \in Nat,
           \A i \in 1..Len(ledger) : ledger'[i] = ledger[i],
           ledger'[Len(ledger) + 1].amount = m,
           Total(Paid, MaxRequests) \in Int,
           Total(Paid', MaxRequests) = Total(Paid, MaxRequests) + p,
           available' = available + m + p
    PROVE  LedgerExact'
<1>1. PICK n \in Nat : n = Len(ledger) /\ Len(ledger') = n + 1
  OBVIOUS
<1>2. PICK d : d = [i \in DOMAIN ledger |-> ledger[i].amount]
  OBVIOUS
<1>3. PICK e : e = [i \in DOMAIN ledger' |-> ledger'[i].amount]
  OBVIOUS
<1>4. DOMAIN ledger = 1..n /\ DOMAIN ledger' = 1..(n + 1)
  BY <1>1 DEF TypeOK
<1>5. \A i \in 1..n : e[i] = d[i]
  BY <1>1, <1>2, <1>3, <1>4
<1>6. e[n + 1] = m
  BY <1>1, <1>3, <1>4
<1>7. Total(e, n + 1) = Total(d, n) + m
  <2>1. Total(e, n) = Total(d, n)
    BY <1>5, TotalExtensional
  <2>2. Total(e, n + 1) = Total(e, n) + e[n + 1]
    BY TotalExtend
  <2> QED BY <1>6, <2>1, <2>2
<1>8. Total(d, n) \in Int
  <2>1. \A i \in 1..n : ledger[i] \in Entry
    BY <1>4 DEF TypeOK
  <2>2. d \in [1..n -> Int]
    BY <1>2, <1>4, <2>1 DEF Entry
  <2> QED BY <2>2, TotalType
<1>9. LedgerBalance = InitialAvailable + Total(d, n)
  BY <1>1, <1>2 DEF LedgerBalance
<1>10. LedgerBalance' = InitialAvailable + Total(e, n + 1)
  BY <1>1, <1>3 DEF LedgerBalance
<1> HIDE DEF LedgerBalance, Paid
<1>11. PICK t \in Int : t = Total(Paid, MaxRequests) /\ Total(Paid', MaxRequests) = t + p
  OBVIOUS
<1>12. InitialAvailable + Total(d, n) = available - t
  BY <1>9, <1>11 DEF LedgerExact
<1>13. InitialAvailable + Total(e, n + 1) = available' - (t + p)
  <2>1. /\ available \in Int /\ available' \in Int /\ InitialAvailable \in Int
        /\ available' = available + m + p
    BY CryptoAssumption DEF TypeOK
  <2> QED BY <1>7, <1>8, <1>12, <2>1
<1> QED BY <1>10, <1>11, <1>13 DEF LedgerExact

\* What the commit that ends a request writes, as the ledger sees it.
EndWrites(type, toAvailable, sum, q) ==
    /\ available' = available + toAvailable
    /\ Len(ledger') = Len(ledger) + 1 /\ Len(ledger) \in Nat
    /\ \A i \in 1..Len(ledger) : ledger'[i] = ledger[i]
    /\ ledger'[Len(ledger) + 1].amount = sum
    /\ q \in Requests /\ Paid[q] = 0
    /\ Paid' = [Paid EXCEPT ![q] = IF type = "COMPLETE" THEN Claim(q) ELSE 0]

LEMMA EndMoves ==
    ASSUME IInv, IInv', ReadsInv, RowsInv, ~ overtaken',
           NEW c \in Calls, pc[c] \in {"cancel", "release", "settle"},
           NEW new, NEW type \in Ends, NEW toAvailable, NEW sum \in Int,
           EndRequest(c, new, type, toAvailable, sum), NEW q, q = target[c]
    PROVE  EndWrites(type, toAvailable, sum, q)
<1>0. /\ EndRequest(c, new, type, toAvailable, sum) /\ q = target[c]
      /\ pc[c] \in {"cancel", "release", "settle"}
      /\ IInv /\ IInv' /\ ReadsInv /\ RowsInv /\ ~ overtaken'
  OBVIOUS
<1>1. /\ q \in Requests /\ Claimed[q] = Claim(q) /\ Claimed' = Claimed
      /\ Phase[q] = "held" /\ Paid[q] = 0
      /\ Phase' = [Phase EXCEPT ![q] =
                      IF type = "COMPLETE" THEN "settled" ELSE "released"]
      /\ Paid' = [Paid EXCEPT ![q] = IF type = "COMPLETE" THEN Claim(q) ELSE 0]
  BY <1>0, EndPhase
<1>2. available' = available + toAvailable
  BY <1>0, EndFunds
<1>3. /\ Len(ledger') = Len(ledger) + 1 /\ Len(ledger) \in Nat
      /\ \A i \in 1..Len(ledger) : ledger'[i] = ledger[i]
      /\ ledger'[Len(ledger) + 1].amount = sum
      /\ ledger'[Len(ledger) + 1].type = type
      /\ \A T, r : Entries(T, r)' = Entries(T, r) \cup
             (IF type \in T /\ q = r THEN {Len(ledger) + 1} ELSE {})
  BY <1>0, <1>1, EndLedger
<1> QED BY <1>1, <1>2, <1>3 DEF EndWrites

LEMMA NextLedger ==
    ASSUME IInv, IInv', FreshInv, LedgerCountsPaidTwice, [Next]_vars
    PROVE  LedgerCountsPaidTwice'
<1> SUFFICES ASSUME ~ overtaken'
             PROVE  LedgerExact'
  BY DEF LedgerCountsPaidTwice, LedgerExact
<1>0. TypeOK /\ TypeOK' /\ ReadsInv /\ RowsInv /\ LedgerExact
  BY OvertakenStays DEF IInv, FreshInv, LedgerCountsPaidTwice, LedgerExact
<1>1. ASSUME NEW c \in Calls, Reserve(c)
      PROVE  LedgerExact'
  <2>1. PICK q, n : q = rows + 1 /\ n = asked[c] + Fee
    OBVIOUS
  <2>2. n \in Nat /\ available' = available - n
    BY <1>0, <1>1, <2>1, ReserveFunds
  <2>3. PICK m, p \in Int : m = -n /\ p = 0
    BY <2>2
  <2>4. available' = available + m + p
    BY <1>0, <2>2, <2>3 DEF TypeOK
  <2>5. /\ Len(ledger') = Len(ledger) + 1 /\ Len(ledger) \in Nat
        /\ \A i \in 1..Len(ledger) : ledger'[i] = ledger[i]
        /\ ledger'[Len(ledger) + 1].amount = m
    BY <1>1, <2>1, <2>3, ReserveLedger
  <2>6. /\ Total(Paid, MaxRequests) \in Int
        /\ Total(Paid', MaxRequests) = Total(Paid, MaxRequests) + p
    <3>1. Paid \in [1..MaxRequests -> Int] /\ MaxRequests \in Nat
      BY <1>0, PaidType, CryptoAssumption
    <3>2. Paid' = Paid
      BY <1>0, <1>1, ReservePaid
    <3> HIDE DEF Paid
    <3> QED BY <2>3, <3>1, <3>2, TotalType
  <2>7. m \in Int
    BY <2>2, <2>3
  <2> QED BY <1>0, <2>3, <2>4, <2>5, <2>6, <2>7, LedgerGrows
<1>2. ASSUME NEW c \in Calls, Cancel(c) \/ Release(c) \/ Settle(c)
      PROVE  LedgerExact'
  <2>1. /\ pc[c] \in {"cancel", "release", "settle"}
        /\ "UNLOCK" \in Ends /\ "FAILED" \in Ends /\ "COMPLETE" \in Ends
    BY <1>2, EndForms DEF Ends
  <2>2. PICK q : q = target[c]
    OBVIOUS
  <2>3. PICK v \in Int : v = Claim(q)
    <3>1. CallOK(c)
      BY DEF IInv, CallsInv
    <3>2. q \in Requests
      BY <1>0, <2>1, <2>2, <3>1, CryptoAssumption DEF CallOK, TypeOK, Requests
    <3>3. amount[q] \in Nat
      BY <1>0, <3>2 DEF TypeOK
    <3> QED BY <3>3, CryptoAssumption DEF Claim
  <2>4. ASSUME NEW new, NEW type \in Ends, NEW toAvailable, NEW sum \in Int,
               EndRequest(c, new, type, toAvailable, sum)
        PROVE  EndWrites(type, toAvailable, sum, q)
    <3>1. /\ EndRequest(c, new, type, toAvailable, sum) /\ q = target[c]
          /\ pc[c] \in {"cancel", "release", "settle"}
          /\ IInv /\ IInv' /\ ReadsInv /\ RowsInv /\ ~ overtaken'
      BY <1>0, <2>1, <2>2, <2>4
    <3> QED BY <3>1, EndMoves
  <2>5. v \in Int /\ -v \in Int /\ 0 \in Int /\ available \in Int /\ v = Claim(q)
    BY <1>0, <2>3 DEF TypeOK
  <2>6. ASSUME NEW new, NEW type \in Ends \ {"COMPLETE"}, EndRequest(c, new, type, v, v)
        PROVE  LedgerExact'
    <3>1. /\ available' = available + v
          /\ Len(ledger') = Len(ledger) + 1 /\ Len(ledger) \in Nat
          /\ \A i \in 1..Len(ledger) : ledger'[i] = ledger[i]
          /\ ledger'[Len(ledger) + 1].amount = v
          /\ q \in Requests /\ Paid[q] = 0 /\ Paid' = [Paid EXCEPT ![q] = 0]
      BY <2>4, <2>5, <2>6 DEF EndWrites
    <3>2. PICK p \in Int : p = 0
      OBVIOUS
    <3>3. /\ Total(Paid, MaxRequests) \in Int
          /\ Total(Paid', MaxRequests) = Total(Paid, MaxRequests) + p
      BY <1>0, <3>1, <3>2, EndPaid
    <3>4. available' = available + v + p
      BY <2>5, <3>1, <3>2
    <3> QED BY <1>0, <2>5, <3>1, <3>3, <3>4, LedgerGrows
  <2>7. CASE EndRequest(c, "COMPLETED", "COMPLETE", 0, -v)
    <3>1. /\ available' = available + 0
          /\ Len(ledger') = Len(ledger) + 1 /\ Len(ledger) \in Nat
          /\ \A i \in 1..Len(ledger) : ledger'[i] = ledger[i]
          /\ ledger'[Len(ledger) + 1].amount = -v
          /\ q \in Requests /\ Paid[q] = 0 /\ Paid' = [Paid EXCEPT ![q] = v]
      BY <2>1, <2>4, <2>5, <2>7 DEF EndWrites
    <3>2. PICK m \in Int : m = -v
      BY <2>5
    <3>3. /\ Total(Paid, MaxRequests) \in Int
          /\ Total(Paid', MaxRequests) = Total(Paid, MaxRequests) + v
      BY <1>0, <2>5, <3>1, EndPaid
    <3>4. available' = available + m + v
      BY <2>5, <3>1, <3>2
    <3>5. ledger'[Len(ledger) + 1].amount = m
      BY <3>1, <3>2
    <3> QED BY <1>0, <2>5, <3>1, <3>3, <3>4, <3>5, LedgerGrows
  <2>8. \/ EndRequest(c, "CANCELLED", "UNLOCK", v, v)
        \/ EndRequest(c, "FAILED", "FAILED", v, v)
        \/ EndRequest(c, "COMPLETED", "COMPLETE", 0, -v)
    BY <1>2, <2>2, <2>3, EndForms
  <2> QED BY <2>1, <2>6, <2>7, <2>8
<1>3. ASSUME UNCHANGED <<available, locked, amount, rows, ledger>>
      PROVE  LedgerExact'
  <2>1. Paid' = Paid
    BY <1>3, EntriesSame DEF Paid, Claim
  <2> QED BY <1>0, <1>3, <2>1 DEF LedgerExact, LedgerBalance
<1> QED BY <1>1, <1>2, <1>3, OtherSteps

\* The sum of all ledger entries, which calculateBalanceFromLedger takes for the
\* balance, is less than it by exactly what the completed withdrawals were paid.
THEOREM LedgerIsShort == Spec => []LedgerCountsPaidTwice
<1>1. Init => LedgerCountsPaidTwice
  <2> SUFFICES ASSUME Init PROVE LedgerExact
    BY DEF LedgerCountsPaidTwice, LedgerExact
  <2>1. PICK d : d = [i \in DOMAIN ledger |-> ledger[i].amount]
    OBVIOUS
  <2>2. Len(ledger) = 0 /\ available = InitialAvailable
    BY DEF Init
  <2>3. Total(d, 0) = 0
    BY TotalEmpty
  <2>4. LedgerBalance = InitialAvailable + Total(d, 0)
    BY <2>1, <2>2 DEF LedgerBalance
  <2>5. Total(Paid, MaxRequests) = 0
    <3>1. Paid = [r \in 1..MaxRequests |-> 0]
      BY DEF Paid, Requests, Entries, Init
    <3> QED BY <3>1, TotalZero, CryptoAssumption
  <2> QED BY <2>2, <2>3, <2>4, <2>5, CryptoAssumption DEF LedgerExact
<1>2. FreshInv /\ IInv /\ [Next]_vars => FreshInv'
  BY NextFresh
<1>3. IInv /\ IInv' /\ FreshInv /\ LedgerCountsPaidTwice /\ [Next]_vars
      => LedgerCountsPaidTwice'
  BY NextLedger
<1> QED BY <1>1, <1>2, <1>3, InitIInv, NextIInv, InitFresh, PTL DEF Spec
=============================================================================
