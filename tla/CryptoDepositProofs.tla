-------------------------- MODULE CryptoDepositProofs --------------------------
(***************************************************************************)
(* For every number of webhook calls, transactions, amounts and deliveries *)
(* and every required number of confirmations: nothing is credited early,  *)
(* no credit is lost, and what is shown as credited was paid.              *)
(***************************************************************************)
EXTENDS CryptoDeposit, RunningTotalProofs, SequenceTheorems

Paid(i) == \E j \in DOMAIN ledger : ledger[j].record = i

\* What a call has in memory is about its own transaction, and was true of it;
\* what it may still do is allowed; it holds the wallet's lock exactly while it
\* has a row to write back, and then the row is the one it has read.
Targeted == PC \ {"idle", "fetchNew", "insert"}
Recording == {"insert", "count", "readAddress", "saveAddress"}
Crediting == {"loadForCredit", "lockWallet", "credit", "saveCredited"}
CallOK(c) ==
    /\ pc[c] # "idle" => hash[c] \in Hashes
    /\ pc[c] \in Targeted =>
         target[c] \in DOMAIN records /\ records[target[c]].hash = hash[c]
    /\ pc[c] \in Recording => fetched[c] <= confirmations[hash[c]]
    /\ pc[c] \in {"fetch", "saveRecord"} =>
         /\ copy[c] # "CREDITED"
         /\ copy[c] = "CONFIRMED" => confirmations[hash[c]] = Required
    /\ pc[c] \in Crediting => confirmations[hash[c]] = Required
    /\ pc[c] = "saveCredited" => Paid(target[c])
    /\ walletLock = c <=> pc[c] = "credit" /\ seenWallet[c] # <<>>
    /\ walletLock = c => seenWallet[c] = wallet

CallsOK == \A c \in Calls : CallOK(c)

\* What the rows say is true of the chain and of the ledger.
RecordOK(i) ==
    /\ records[i].status = "CONFIRMED" => confirmations[records[i].hash] = Required
    /\ records[i].status = "CREDITED" => Paid(i)
    /\ Paid(i) => confirmations[records[i].hash] = Required
RecordsOK == \A i \in DOMAIN records : RecordOK(i)

IInv == TypeOK /\ CallsOK /\ RecordsOK /\ LedgerExplainsBalance

-----------------------------------------------------------------------------

LEMMA InitIInv == Init => IInv
<1> SUFFICES ASSUME Init PROVE IInv
  OBVIOUS
<1> USE DepositAssumption DEF Init
<1>1. TypeOK
  BY DEF TypeOK, Status, PC, NotRead
<1>2. CallsOK
  BY DEF CallsOK, CallOK, Targeted, Recording, Crediting
<1>3. RecordsOK
  BY DEF RecordsOK
<1>4. LedgerExplainsBalance
  BY TotalEmpty DEF LedgerExplainsBalance
<1> QED BY <1>1, <1>2, <1>3, <1>4 DEF IInv

Record == [hash : Hashes, status : Status]

\* The rows, one by one.
LEMMA RecordType ==
    ASSUME TypeOK
    PROVE  /\ Len(records) \in Nat /\ DOMAIN records = 1..Len(records)
           /\ \A i \in DOMAIN records : records[i] \in Record
           /\ \A i \in DOMAIN records : records[i].hash \in Hashes /\ records[i].status \in Status
<1>1. records \in Seq(Record)
  BY DEF TypeOK, Record
<1>2. /\ Len(records) \in Nat /\ DOMAIN records = 1..Len(records)
      /\ \A i \in DOMAIN records : records[i] \in Record
  BY <1>1
<1> QED BY <1>2 DEF Record

\* The type invariant in two parts: what the calls remember, and the rows.
CallsType ==
    /\ walletLock \in Calls \cup {NoCall}
    /\ pc \in [Calls -> PC]
    /\ hash \in [Calls -> Hashes \cup {NoCall}]
    /\ target \in [Calls -> 0..Len(records)]
    /\ fetched \in [Calls -> 0..Required]
    /\ copy \in [Calls -> Status]
    /\ seenAddress \in [Calls -> [count : Nat, received : Nat]]
    /\ seenWallet \in [Calls -> Seq(Nat)]
RowsType ==
    /\ confirmations \in [Hashes -> 0..Required]
    /\ deliveries \in [Hashes -> Nat]
    /\ \A h \in Hashes : deliveries[h] <= MaxDeliveries[h]
    /\ records \in Seq([hash : Hashes, status : Status])
    /\ transactionCount \in Nat /\ totalReceived \in Nat
    /\ wallet \in Seq(Nat)
    /\ ledger \in Seq([record : DOMAIN records, amount : Nat])

LEMMA TypeParts == TypeOK <=> CallsType /\ RowsType
BY DEF TypeOK, CallsType, RowsType

\* What the end of a call does to what calls have in memory.
LEMMA ReturnEffect ==
    ASSUME TypeOK, NEW c \in Calls, Return(c)
    PROVE  /\ pc' \in [Calls -> PC] /\ hash' \in [Calls -> Hashes \cup {NoCall}]
           /\ target' \in [Calls -> 0..Len(records)]
           /\ fetched' \in [Calls -> 0..Required] /\ copy' \in [Calls -> Status]
           /\ seenAddress' \in [Calls -> [count : Nat, received : Nat]]
           /\ seenWallet' \in [Calls -> Seq(Nat)]
           /\ pc'[c] = "idle"
           /\ \A d \in Calls \ {c} :
                /\ pc'[d] = pc[d] /\ hash'[d] = hash[d] /\ target'[d] = target[d]
                /\ fetched'[d] = fetched[d] /\ copy'[d] = copy[d]
                /\ seenWallet'[d] = seenWallet[d]
<1>1. Len(records) \in Nat /\ <<>> \in Seq(Nat)
  BY RecordType
<1>2. CallsType
  BY TypeParts
<1>3. /\ "idle" \in PC /\ "PENDING" \in Status /\ 0 \in 0..Required /\ 0 \in 0..Len(records)
      /\ NotRead \in [count : Nat, received : Nat]
  BY <1>1, DepositAssumption DEF PC, Status, NotRead
<1>4. /\ pc' \in [Calls -> PC] /\ hash' \in [Calls -> Hashes \cup {NoCall}]
      /\ target' \in [Calls -> 0..Len(records)]
      /\ fetched' \in [Calls -> 0..Required] /\ copy' \in [Calls -> Status]
      /\ seenAddress' \in [Calls -> [count : Nat, received : Nat]]
      /\ seenWallet' \in [Calls -> Seq(Nat)]
  BY <1>1, <1>2, <1>3 DEF Return, Goto, CallsType
<1> QED BY <1>2, <1>4 DEF Return, Goto, CallsType

\* A step of another call leaves alone what the invariant says of call d.
LEMMA OtherCall ==
    ASSUME TypeOK, TypeOK', NEW d \in Calls, CallOK(d),
           pc'[d] = pc[d], hash'[d] = hash[d], target'[d] = target[d],
           fetched'[d] = fetched[d], copy'[d] = copy[d],
           seenWallet'[d] = seenWallet[d],
           walletLock' = d <=> walletLock = d,
           walletLock = d => wallet' = wallet,
           Len(records) <= Len(records'),
           \A i \in DOMAIN records : records'[i].hash = records[i].hash,
           \A h \in Hashes : confirmations[h] <= confirmations'[h],
           \A i \in DOMAIN records : Paid(i) => Paid(i)'
    PROVE  CallOK(d)'
<1> USE DepositAssumption
<1>1. /\ Len(records) \in Nat /\ Len(records') \in Nat
      /\ DOMAIN records = 1..Len(records) /\ DOMAIN records' = 1..Len(records')
  <2>1. /\ records \in Seq([hash : Hashes, status : Status])
        /\ records' \in Seq([hash : Hashes, status : Status])
    BY DEF TypeOK
  <2> QED BY <2>1
<1>2. \A h \in Hashes : /\ confirmations[h] \in 0..Required
                        /\ confirmations'[h] \in 0..Required
                        /\ confirmations[h] = Required => confirmations'[h] = Required
  <2>1. /\ confirmations \in [Hashes -> 0..Required]
        /\ confirmations' \in [Hashes -> 0..Required]
    BY DEF TypeOK
  <2> QED BY <2>1
<1>3. fetched[d] \in 0..Required
  BY DEF TypeOK
<1>4. pc[d] \in PC
  BY DEF TypeOK
<1>5. pc'[d] # "idle" => hash'[d] \in Hashes
  BY DEF CallOK
<1>6. pc'[d] \in Targeted =>
         target'[d] \in DOMAIN records' /\ records'[target'[d]].hash = hash'[d]
  BY <1>1 DEF CallOK
<1>7. pc'[d] \in Recording => fetched'[d] <= confirmations'[hash'[d]]
  BY <1>2, <1>3 DEF CallOK, Recording
<1>8. pc'[d] \in {"fetch", "saveRecord"} =>
         /\ copy'[d] # "CREDITED"
         /\ copy'[d] = "CONFIRMED" => confirmations'[hash'[d]] = Required
  BY <1>2 DEF CallOK
<1>9. pc'[d] \in Crediting => confirmations'[hash'[d]] = Required
  BY <1>2 DEF CallOK, Crediting
<1>10. pc'[d] = "saveCredited" => Paid(target[d])'
  BY DEF CallOK, Targeted, PC
<1>11. /\ walletLock' = d <=> pc'[d] = "credit" /\ seenWallet'[d] # <<>>
       /\ walletLock' = d => seenWallet'[d] = wallet'
  BY DEF CallOK
<1> QED BY <1>5, <1>6, <1>7, <1>8, <1>9, <1>10, <1>11 DEF CallOK

\* A call that has answered: the invariant asks nothing of it.
LEMMA Answered ==
    ASSUME NEW c \in Calls, pc'[c] = "idle", walletLock' # c
    PROVE  CallOK(c)'
BY DEF CallOK, Targeted, Recording, Crediting

\* Steps that leave records, ledger and wallet alone.
LEMMA RowsSame ==
    ASSUME IInv, UNCHANGED <<records, wallet, ledger>>,
           TypeOK', \A h \in Hashes : confirmations[h] <= confirmations'[h]
    PROVE  RecordsOK' /\ LedgerExplainsBalance'
<1>1. \A h \in Hashes : confirmations[h] = Required => confirmations'[h] = Required
  BY DepositAssumption DEF IInv, TypeOK
<1>2. ASSUME NEW i \in DOMAIN records PROVE RecordOK(i)'
  <2>1. records[i].hash \in Hashes
    BY RecordType DEF IInv
  <2>2. Paid(i)' <=> Paid(i)
    BY DEF Paid
  <2>3. RecordOK(i) /\ records' = records
    BY DEF IInv, RecordsOK
  <2> QED BY <1>1, <2>1, <2>2, <2>3 DEF RecordOK
<1>3. RecordsOK'
  BY <1>2 DEF RecordsOK
<1> QED BY <1>3 DEF IInv, LedgerExplainsBalance

\* A save changes the status of one record; the others, and every hash, stay.
LEMMA SaveEffect ==
    ASSUME TypeOK, NEW c \in Calls, NEW s \in Status, target[c] \in DOMAIN records,
           Save(c, s)
    PROVE  /\ records' \in Seq([hash : Hashes, status : Status])
           /\ Len(records') = Len(records) /\ DOMAIN records' = DOMAIN records
           /\ \A i \in DOMAIN records :
                /\ records'[i].hash = records[i].hash
                /\ records'[i].status = IF i = target[c] THEN s ELSE records[i].status
<1> DEFINE t == target[c]
           r == [records[t] EXCEPT !.status = s]
<1>1. records \in Seq(Record) /\ t \in DOMAIN records
  BY DEF TypeOK, Record
<1>2. r \in Record /\ r.hash = records[t].hash /\ r.status = s
  BY <1>1, RecordType DEF Record
<1>3. records' = [records EXCEPT ![t] = r]
  BY <1>1 DEF Save
<1>4. /\ records' \in Seq(Record) /\ Len(records') = Len(records)
      /\ DOMAIN records' = DOMAIN records
      /\ \A i \in DOMAIN records : records'[i] = IF i = t THEN r ELSE records[i]
  <2> HIDE DEF t, r
  <2> QED BY <1>1, <1>2, <1>3
<1>5. records' \in Seq([hash : Hashes, status : Status])
  BY <1>4 DEF Record
<1> HIDE DEF r
<1> QED BY <1>2, <1>4, <1>5

\* A save that tells the truth keeps the invariant.
LEMMA SaveKeeps ==
    ASSUME IInv, TypeOK', NEW c \in Calls, NEW s \in Status,
           pc[c] \in Targeted, Save(c, s),
           s = "CONFIRMED" => confirmations[hash[c]] = Required,
           s = "CREDITED" => Paid(target[c]),
           UNCHANGED <<confirmations, wallet, ledger>>
    PROVE  /\ RecordsOK' /\ LedgerExplainsBalance'
           /\ Len(records) <= Len(records')
           /\ \A i \in DOMAIN records : records'[i].hash = records[i].hash
           /\ \A i \in DOMAIN records : Paid(i) => Paid(i)'
<1>1. target[c] \in DOMAIN records /\ records[target[c]].hash = hash[c] /\ TypeOK
  BY DEF IInv, CallsOK, CallOK
<1>2. /\ Len(records') = Len(records) /\ DOMAIN records' = DOMAIN records
      /\ \A i \in DOMAIN records :
           /\ records'[i].hash = records[i].hash
           /\ records'[i].status = IF i = target[c] THEN s ELSE records[i].status
  BY <1>1, SaveEffect
<1>3. \A i : Paid(i)' <=> Paid(i)
  BY DEF Paid
<1>4. ASSUME NEW i \in DOMAIN records PROVE RecordOK(i)'
  <2>1. RecordOK(i)
    BY DEF IInv, RecordsOK
  <2> QED BY <1>1, <1>2, <1>3, <2>1 DEF RecordOK
<1>5. RecordsOK'
  BY <1>2, <1>4 DEF RecordsOK
<1>6. Len(records) \in Nat
  <2>1. records \in Seq([hash : Hashes, status : Status])
    BY <1>1 DEF TypeOK
  <2> QED BY <2>1
<1> QED BY <1>2, <1>3, <1>5, <1>6 DEF IInv, LedgerExplainsBalance

\* A ledger entry more: its record is paid, and the sum is that much larger.
LEMMA AppendEffect ==
    ASSUME TypeOK, NEW r \in DOMAIN records, NEW a \in Nat,
           ledger' = Append(ledger, [record |-> r, amount |-> a])
    PROVE  /\ ledger' \in Seq([record : DOMAIN records, amount : Nat])
           /\ \A i : Paid(i)' <=> Paid(i) \/ i = r
           /\ Total([i \in DOMAIN ledger |-> ledger[i].amount], Len(ledger))' =
                Total([i \in DOMAIN ledger |-> ledger[i].amount], Len(ledger)) + a
<1> DEFINE D == DOMAIN records
           f == [i \in DOMAIN ledger |-> ledger[i].amount]
           g == [i \in DOMAIN ledger' |-> ledger'[i].amount]
           n == Len(ledger)
<1>1. ledger \in Seq([record : D, amount : Nat])
  BY DEF TypeOK
<1>2. /\ n \in Nat /\ DOMAIN ledger = 1..n
      /\ DOMAIN ledger' = 1..(n + 1) /\ Len(ledger') = n + 1
      /\ \A i \in 1..n : ledger'[i] = ledger[i]
      /\ ledger'[n + 1] = [record |-> r, amount |-> a]
      /\ ledger' \in Seq([record : D, amount : Nat])
  <2> HIDE DEF D
  <2>1. [record |-> r, amount |-> a] \in [record : D, amount : Nat]
    BY DEF D
  <2> QED BY <1>1, <2>1
<1>3. \A i : Paid(i)' <=> Paid(i) \/ i = r
  BY <1>2 DEF Paid
<1>4. Total(g, n + 1) = Total(g, n) + g[n + 1]
  BY <1>2, TotalExtend
<1>5. Total(g, n) = Total(f, n)
  <2>1. \A i \in 1..n : g[i] = f[i]
    BY <1>2
  <2> HIDE DEF f, g
  <2> QED BY <1>2, <2>1, TotalExtensional
<1>6. g[n + 1] = a
  BY <1>2
<1> QED BY <1>2, <1>3, <1>4, <1>5, <1>6

-----------------------------------------------------------------------------

\* What a step of call c leaves to the other calls, and what only grows.
OthersRest(c) ==
    \A d \in Calls \ {c} :
        /\ pc'[d] = pc[d] /\ hash'[d] = hash[d] /\ target'[d] = target[d]
        /\ fetched'[d] = fetched[d] /\ copy'[d] = copy[d]
        /\ seenWallet'[d] = seenWallet[d]
        /\ walletLock' = d <=> walletLock = d
        /\ walletLock = d => wallet' = wallet
Grows ==
    /\ Len(records) <= Len(records')
    /\ \A i \in DOMAIN records : records'[i].hash = records[i].hash
    /\ \A h \in Hashes : confirmations[h] <= confirmations'[h]
    /\ \A i \in DOMAIN records : Paid(i) => Paid(i)'

\* So a step has to answer for its own call and for the rows only.
LEMMA StepKeeps ==
    ASSUME IInv, CallsType', RowsType', NEW c \in Calls, OthersRest(c), Grows, CallOK(c)',
           RecordsOK', LedgerExplainsBalance'
    PROVE  IInv'
<1>0. TypeOK'
  BY DEF TypeOK, CallsType, RowsType
<1>1. ASSUME NEW d \in Calls, d # c PROVE CallOK(d)'
  <2>1. TypeOK /\ CallOK(d)
    BY DEF IInv, CallsOK
  <2>2. /\ pc'[d] = pc[d] /\ hash'[d] = hash[d] /\ target'[d] = target[d]
        /\ fetched'[d] = fetched[d] /\ copy'[d] = copy[d]
        /\ seenWallet'[d] = seenWallet[d]
        /\ walletLock' = d <=> walletLock = d
        /\ walletLock = d => wallet' = wallet
    BY <1>1 DEF OthersRest
  <2> QED BY <1>0, <2>1, <2>2, OtherCall DEF Grows
<1>2. CallsOK'
  BY <1>1 DEF CallsOK
<1> QED BY <1>0, <1>2 DEF IInv

\* A step that changes no row keeps what the rows say.
LEMMA QuietStep ==
    ASSUME IInv, CallsType', RowsType', NEW c \in Calls, OthersRest(c), CallOK(c)',
           UNCHANGED <<confirmations, records, wallet, ledger>>
    PROVE  IInv'
<1>1. \A h \in Hashes : confirmations[h] <= confirmations'[h]
  <2>1. \A h \in Hashes : confirmations[h] \in 0..Required
    BY DepositAssumption DEF IInv, TypeOK
  <2> QED BY <2>1, DepositAssumption
<1>2. Len(records) <= Len(records')
  BY RecordType DEF IInv
<1>3. \A i : Paid(i)' <=> Paid(i)
  BY DEF Paid
<1>4. Grows
  BY <1>1, <1>2, <1>3 DEF Grows
<1>5. RecordsOK' /\ LedgerExplainsBalance'
  <2>1. TypeOK'
    BY DEF TypeOK, CallsType, RowsType
  <2> QED BY <1>1, <2>1, RowsSame
<1> QED BY <1>4, <1>5, StepKeeps

\* A step that saves what is true, in a record of its own.
LEMMA SaveStep ==
    ASSUME IInv, NEW c \in Calls, NEW s \in Status, pc[c] \in Targeted, Save(c, s),
           s = "CONFIRMED" => confirmations[hash[c]] = Required,
           s = "CREDITED" => Paid(target[c]),
           UNCHANGED <<chain, address, funds>>, CallsType', OthersRest(c), CallOK(c)'
    PROVE  IInv'
<1>0. TypeOK /\ CallsType /\ RowsType /\ CallOK(c)
  BY TypeParts DEF IInv, CallsOK
<1>1. target[c] \in DOMAIN records
  BY <1>0 DEF CallOK
<1>2. /\ records' \in Seq([hash : Hashes, status : Status])
      /\ Len(records') = Len(records) /\ DOMAIN records' = DOMAIN records
  BY <1>0, <1>1, SaveEffect
<1>3. RowsType'
  BY <1>0, <1>2 DEF RowsType, chain, address, funds
<1>4. TypeOK'
  BY <1>3 DEF TypeOK, CallsType, RowsType
<1>5. UNCHANGED <<confirmations, wallet, ledger>>
  BY DEF chain, funds
<1>6. /\ RecordsOK' /\ LedgerExplainsBalance'
      /\ Len(records) <= Len(records')
      /\ \A i \in DOMAIN records : records'[i].hash = records[i].hash
      /\ \A i \in DOMAIN records : Paid(i) => Paid(i)'
  BY <1>4, <1>5, SaveKeeps
<1>7. Grows
  <2>1. \A h \in Hashes : confirmations[h] \in 0..Required
    BY <1>0, DepositAssumption DEF RowsType
  <2> QED BY <1>5, <1>6, <2>1, DepositAssumption DEF Grows
<1> QED BY <1>3, <1>6, <1>7, StepKeeps

LEMMA NextIInv == IInv /\ [Next]_vars => IInv'
<1> SUFFICES ASSUME IInv, [Next]_vars PROVE IInv'
  OBVIOUS
<1> USE DepositAssumption
<1>0. TypeOK /\ CallsType /\ RowsType /\ CallsOK
  BY TypeParts DEF IInv
<1>R. Len(records) \in Nat /\ DOMAIN records = 1..Len(records)
  BY <1>0, RecordType
<1>1. ASSUME NEW h \in Hashes, Confirm(h) PROVE IInv'
  <2>1. confirmations' \in [Hashes -> 0..Required]
        /\ \A g \in Hashes : confirmations[g] <= confirmations'[g]
    <3>1. confirmations \in [Hashes -> 0..Required]
      BY <1>0 DEF RowsType
    <3> QED BY <1>1, <3>1 DEF Confirm
  <2>2. TypeOK'
    <3>1. CallsType' /\ RowsType'
      BY <1>0, <1>1, <2>1 DEF Confirm, CallsType, RowsType, address, funds, memory
    <3> QED BY <3>1 DEF TypeOK, CallsType, RowsType
  <2>3. Len(records) <= Len(records') /\ \A i : Paid(i)' <=> Paid(i)
    BY <1>0, <1>1, RecordType DEF Confirm, Paid, funds
  <2>4. ASSUME NEW d \in Calls PROVE CallOK(d)'
    <3>1. CallOK(d)
      BY <1>0 DEF CallsOK
    <3> QED BY <1>0, <1>1, <2>1, <2>2, <2>3, <3>1, OtherCall DEF Confirm, memory, funds
  <2>5. RecordsOK' /\ LedgerExplainsBalance'
    BY <1>1, <2>1, <2>2, RowsSame DEF Confirm, funds
  <2> QED BY <2>2, <2>4, <2>5 DEF IInv, CallsOK
<1>2. ASSUME NEW c \in Calls, NEW h \in Hashes, Webhook(c, h) PROVE IInv'
  <2>1. /\ \/ target' = target /\ pc' = [pc EXCEPT ![c] = "fetchNew"]
           \/ \E i \in DOMAIN records :
                /\ records[i].hash = h /\ target' = [target EXCEPT ![c] = i]
                /\ pc' = [pc EXCEPT ![c] = "load"]
        /\ DOMAIN records = 1..Len(records) /\ Len(records) \in Nat
    BY <1>0, <1>2, RecordType DEF Webhook, Goto
  <2>2. /\ hash' = [hash EXCEPT ![c] = h] /\ deliveries' = [deliveries EXCEPT ![h] = @ + 1]
        /\ deliveries[h] < MaxDeliveries[h] /\ pc[c] = "idle"
        /\ UNCHANGED <<confirmations, records, address, funds, fetched, copy, seenAddress,
                       seenWallet>>
    BY <1>2 DEF Webhook
  <2>3. CallsType'
    <3>1. pc' \in [Calls -> PC]
      BY <1>0, <2>1 DEF CallsType, PC
    <3>2. target' \in [Calls -> 0..Len(records)]
      <4>1. \A i \in DOMAIN records : i \in 0..Len(records)
        BY <1>R
      <4> QED BY <1>0, <2>1, <4>1 DEF CallsType
    <3> QED BY <1>0, <2>2, <3>1, <3>2 DEF CallsType, funds
  <2>6. RowsType'
    BY <1>0, <2>2 DEF RowsType, address, funds
  <2>4. OthersRest(c)
    BY <1>0, <2>1, <2>2 DEF CallsType, OthersRest, funds
  <2>5. CallOK(c)'
    <3>1. walletLock # c
      BY <1>0, <2>2 DEF CallsOK, CallOK
    <3>2. /\ hash'[c] = h /\ UNCHANGED <<records, walletLock>>
          /\ \/ pc'[c] = "fetchNew"
             \/ /\ pc'[c] = "load" /\ target'[c] \in DOMAIN records
                /\ records[target'[c]].hash = h
      BY <1>0, <2>1, <2>2 DEF CallsType, funds
    <3> QED BY <3>1, <3>2 DEF CallOK, Targeted, Recording, Crediting
  <2> QED BY <2>2, <2>3, <2>4, <2>5, <2>6, QuietStep DEF funds
<1>3. ASSUME NEW c \in Calls, FetchNew(c) PROVE IInv'
  <2>1. CallsType' /\ RowsType'
    BY <1>0, <1>3 DEF FetchNew, Reported, Goto, CallsType, RowsType, PC, chain, address, funds,
                      CallsOK, CallOK
  <2>2. OthersRest(c)
    BY <1>0, <1>3 DEF FetchNew, Goto, CallsType, OthersRest, funds
  <2>3. CallOK(c)'
    <3>1. hash[c] \in Hashes /\ walletLock # c
      BY <1>0, <1>3 DEF FetchNew, CallsOK, CallOK
    <3>2. /\ pc'[c] = "insert" /\ hash'[c] = hash[c] /\ walletLock' = walletLock
          /\ fetched'[c] = confirmations[hash[c]] /\ confirmations' = confirmations
      BY <1>0, <1>3 DEF FetchNew, Reported, Goto, CallsType, funds, chain
    <3>3. confirmations[hash[c]] \in 0..Required
      BY <1>0, <3>1 DEF RowsType
    <3> QED BY <3>1, <3>2, <3>3 DEF CallOK, Targeted, Recording, Crediting
  <2> QED BY <1>3, <2>1, <2>2, <2>3, QuietStep DEF FetchNew, funds, chain
<1>4. ASSUME NEW c \in Calls, Count(c) PROVE IInv'
  <2>1. CallsType' /\ RowsType'
    <3>1. pc' \in [Calls -> PC] /\ transactionCount' \in Nat
      BY <1>0, <1>4 DEF Count, Goto, CallsType, RowsType, PC
    <3> QED BY <1>0, <1>4, <3>1 DEF Count, CallsType, RowsType, chain, funds, memory
  <2>2. OthersRest(c)
    BY <1>0, <1>4 DEF Count, Goto, CallsType, OthersRest, funds, memory
  <2>3. CallOK(c)'
    <3>1. CallOK(c) /\ pc[c] = "count"
      BY <1>0, <1>4 DEF Count, CallsOK
    <3>2. pc'[c] = "readAddress" /\ UNCHANGED <<confirmations, records, funds, memory>>
      BY <1>0, <1>4 DEF Count, Goto, CallsType, chain
    <3>3. /\ hash[c] \in Hashes /\ target[c] \in DOMAIN records
          /\ records[target[c]].hash = hash[c] /\ walletLock # c
          /\ fetched[c] <= confirmations[hash[c]]
      BY <3>1 DEF CallOK, Targeted, Recording, PC
    <3> QED BY <3>2, <3>3 DEF CallOK, Targeted, Recording, Crediting, funds, memory
  <2> QED BY <1>4, <2>1, <2>2, <2>3, QuietStep DEF Count, funds, chain
<1>5. ASSUME NEW c \in Calls, ReadAddress(c) PROVE IInv'
  <2>1. CallsType' /\ RowsType'
    BY <1>0, <1>5 DEF ReadAddress, Goto, CallsType, RowsType, PC, chain, address, funds, memory,
                      CallsOK, CallOK
  <2>2. OthersRest(c)
    BY <1>0, <1>5 DEF ReadAddress, Goto, CallsType, OthersRest, funds, memory
  <2>3. CallOK(c)'
    BY <1>0, <1>5 DEF ReadAddress, Goto, CallsType, RowsType, CallsOK, CallOK, Targeted,
                      Recording, Crediting, PC, Paid, funds, chain, memory
  <2> QED BY <1>5, <2>1, <2>2, <2>3, QuietStep DEF ReadAddress, funds, chain
<1>6. ASSUME NEW c \in Calls, Load(c) PROVE IInv'
  <2>0. /\ pc[c] = "load" /\ target[c] \in DOMAIN records
        /\ records[target[c]].hash = hash[c] /\ hash[c] \in Hashes
    BY <1>0, <1>6 DEF Load, CallsOK, CallOK, Targeted, PC
  <2>1. /\ records[target[c]].status \in Status \ {"CREDITED"}
        /\ records[target[c]].status = "CONFIRMED" => confirmations[hash[c]] = Required
    BY <1>0, <1>6, <2>0, RecordType DEF Load, IInv, RecordsOK, RecordOK
  <2>2. copy' = [copy EXCEPT ![c] = records[target[c]].status]
    BY <1>6 DEF Load
  <2>3. CallsType'
    BY <1>0, <1>6, <2>1, <2>2 DEF Load, Goto, CallsType, PC, funds
  <2>4. RowsType'
    BY <1>0, <1>6 DEF Load, RowsType, chain, address, funds
  <2>5. OthersRest(c)
    BY <1>0, <1>6 DEF Load, Goto, CallsType, OthersRest, funds
  <2>6. CallOK(c)'
    BY <1>0, <1>6, <2>0, <2>1, <2>2 DEF Load, Goto, CallsType, CallsOK, CallOK, Targeted,
                      Recording, Crediting, PC, funds, chain
  <2> QED BY <1>6, <2>3, <2>4, <2>5, <2>6, QuietStep DEF Load, funds, chain
<1>7. ASSUME NEW c \in Calls, AlreadyCredited(c) PROVE IInv'
  <2>1. CallsType' /\ RowsType'
    BY <1>0, <1>7, ReturnEffect DEF AlreadyCredited, CallsType, RowsType, chain, address, funds
  <2>2. OthersRest(c)
    BY <1>0, <1>7, ReturnEffect DEF AlreadyCredited, OthersRest, funds
  <2>3. CallOK(c)'
    BY <1>0, <1>7, ReturnEffect, Answered DEF AlreadyCredited, CallsOK, CallOK, funds
  <2> QED BY <1>7, <2>1, <2>2, <2>3, QuietStep DEF AlreadyCredited, funds, chain
<1>8. ASSUME NEW c \in Calls, Fetch(c) PROVE IInv'
  <2>1. CallsType' /\ RowsType'
    BY <1>0, <1>8 DEF Fetch, Reported, Enough, Goto, CallsType, RowsType, PC, chain, address,
                      funds, Status, CallsOK, CallOK
  <2>2. OthersRest(c)
    BY <1>0, <1>8 DEF Fetch, Enough, Goto, CallsType, OthersRest, funds, memory
  <2>3. CallOK(c)'
    <3>1. CallOK(c) /\ pc[c] = "fetch"
      BY <1>0, <1>8 DEF Fetch, CallsOK
    <3>2. pc'[c] = "saveRecord" /\ copy'[c] \in {copy[c], "CONFIRMED"}
          /\ (copy'[c] # copy[c] => confirmations[hash[c]] >= Required)
      BY <1>0, <1>8 DEF Fetch, Reported, Enough, Goto, CallsType
    <3>3. confirmations[hash[c]] <= Required /\ confirmations[hash[c]] \in Nat
      BY <1>0, <3>1 DEF RowsType, CallOK
    <3>4. UNCHANGED <<confirmations, records, funds, hash, target, fetched, seenWallet>>
      BY <1>8 DEF Fetch, chain
    <3> QED BY <3>1, <3>2, <3>3, <3>4
            DEF CallOK, Targeted, Recording, Crediting, PC, funds
  <2> QED BY <1>8, <2>1, <2>2, <2>3, QuietStep DEF Fetch, funds, chain
<1>9. ASSUME NEW c \in Calls, LoadForCredit(c) PROVE IInv'
  <2>1. CallsType' /\ RowsType'
    BY <1>0, <1>9 DEF LoadForCredit, Goto, CallsType, RowsType, PC, chain, address, funds, memory,
                      CallsOK, CallOK
  <2>2. OthersRest(c)
    BY <1>0, <1>9 DEF LoadForCredit, Goto, CallsType, OthersRest, funds, memory
  <2>3. CallOK(c)'
    BY <1>0, <1>9 DEF LoadForCredit, Goto, CallsType, RowsType, CallsOK, CallOK, Targeted,
                      Recording, Crediting, PC, Paid, funds, chain, memory
  <2> QED BY <1>9, <2>1, <2>2, <2>3, QuietStep DEF LoadForCredit, funds, chain
<1>10. ASSUME NEW c \in Calls, LockWallet(c) PROVE IInv'
  <2>1. CallsType' /\ RowsType'
    BY <1>0, <1>10 DEF LockWallet, Goto, CallsType, RowsType, PC, chain, address, funds, memory,
                      CallsOK, CallOK
  <2>2. OthersRest(c)
    BY <1>0, <1>10 DEF LockWallet, Goto, CallsType, OthersRest, funds, memory
  <2>3. CallOK(c)'
    BY <1>0, <1>10 DEF LockWallet, Goto, CallsType, RowsType, CallsOK, CallOK, Targeted,
                      Recording, Crediting, PC, Paid, funds, chain, memory
  <2> QED BY <1>10, <2>1, <2>2, <2>3, QuietStep DEF LockWallet, funds, chain
<1>11. ASSUME NEW c \in Calls, WalletExists(c) PROVE IInv'
  <2>1. CallsType' /\ RowsType'
    BY <1>0, <1>11 DEF WalletExists, Goto, CallsType, RowsType, PC, chain, address, funds, memory,
                      CallsOK, CallOK
  <2>2. OthersRest(c)
    BY <1>0, <1>11 DEF WalletExists, Goto, CallsType, OthersRest, funds, memory
  <2>3. CallOK(c)'
    BY <1>0, <1>11 DEF WalletExists, Goto, CallsType, RowsType, CallsOK, CallOK, Targeted,
                      Recording, Crediting, PC, Paid, funds, chain, memory
  <2> QED BY <1>11, <2>1, <2>2, <2>3, QuietStep DEF WalletExists, funds, chain
<1>12. ASSUME NEW c \in Calls, Report(c) PROVE IInv'
  <2>1. CallsType' /\ RowsType'
    BY <1>0, <1>12, ReturnEffect DEF Report, CallsType, RowsType, chain, address, funds
  <2>2. OthersRest(c)
    BY <1>0, <1>12, ReturnEffect DEF Report, OthersRest, funds
  <2>3. CallOK(c)'
    BY <1>0, <1>12, ReturnEffect, Answered DEF Report, CallsOK, CallOK, funds
  <2> QED BY <1>12, <2>1, <2>2, <2>3, QuietStep DEF Report, funds, chain
<1>13. ASSUME NEW c \in Calls, Fail(c) PROVE IInv'
  <2>1. CallsType' /\ RowsType'
    BY <1>0, <1>13, ReturnEffect DEF Fail, Unlock, CallsType, RowsType, chain, address
  <2>2. OthersRest(c)
    BY <1>0, <1>13, ReturnEffect DEF Fail, Unlock, OthersRest
  <2>3. CallOK(c)'
    BY <1>0, <1>13, ReturnEffect, Answered DEF Fail, Unlock
  <2> QED BY <1>13, <2>1, <2>2, <2>3, QuietStep DEF Fail, chain
<1>14. ASSUME NEW c \in Calls, CreditThrows(c) PROVE IInv'
  <2>1. CallsType' /\ RowsType'
    BY <1>0, <1>14 DEF CreditThrows, Unlock, Goto, CallsType, RowsType, PC, chain, address, memory
  <2>2. OthersRest(c)
    BY <1>0, <1>14 DEF CreditThrows, Unlock, Goto, CallsType, OthersRest, memory
  <2>3. CallOK(c)'
    BY <1>0, <1>14 DEF CreditThrows, Unlock, Goto, CallsType, CallsOK, CallOK, Targeted,
                      Recording, Crediting, PC, Paid, chain, memory
  <2> QED BY <1>14, <2>1, <2>2, <2>3, QuietStep DEF CreditThrows, chain
<1>15. ASSUME NEW c \in Calls, Insert(c) PROVE IInv'
  <2> DEFINE r == [hash |-> hash[c], status |-> "PENDING"]
             n == Len(records)
  <2>0. pc[c] = "insert" /\ hash[c] \in Hashes /\ r \in Record
    BY <1>0, <1>15 DEF Insert, CallsOK, CallOK, Record, Status
  <2>1. /\ records' \in Seq(Record) /\ Len(records') = n + 1
        /\ DOMAIN records' = 1..(n + 1)
        /\ \A i \in 1..n : records'[i] = records[i]
        /\ records'[n + 1] = r
    <3>1. records \in Seq(Record) /\ records' = Append(records, r)
      BY <1>0, <1>15 DEF RowsType, Record, Insert
    <3> HIDE DEF r
    <3> QED BY <2>0, <3>1
  <2>2. ledger \in Seq([record : 1..(n + 1), amount : Nat])
    <3>1. ledger \in Seq([record : 1..n, amount : Nat])
      BY <1>0, <1>R DEF RowsType
    <3>2. [record : 1..n, amount : Nat] \subseteq [record : 1..(n + 1), amount : Nat]
      BY <1>R
    <3> QED BY <3>1, <3>2, SeqMonotonic
  <2>3. target' = [target EXCEPT ![c] = n + 1] /\ pc' = [pc EXCEPT ![c] = "count"]
    BY <1>15, <2>1 DEF Insert, Goto
  <2>4. CallsType'
    <3>1. target' \in [Calls -> 0..(n + 1)]
      <4>1. \A i \in 0..n : i \in 0..(n + 1)
        BY <1>R
      <4> QED BY <1>0, <1>R, <2>3, <4>1 DEF CallsType
    <3>2. pc' \in [Calls -> PC]
      BY <1>0, <2>3 DEF CallsType, PC
    <3>3. UNCHANGED <<walletLock, hash, fetched, copy, seenAddress, seenWallet>>
      BY <1>15 DEF Insert, funds
    <3> QED BY <1>0, <2>1, <3>1, <3>2, <3>3 DEF CallsType
  <2>5. RowsType'
    BY <1>0, <1>15, <2>1, <2>2 DEF Insert, RowsType, Record, chain, address, funds
  <2>6. OthersRest(c)
    BY <1>0, <1>15, <2>3 DEF Insert, CallsType, OthersRest, funds
  <2>7. CallOK(c)'
    <3>1. fetched[c] <= confirmations[hash[c]] /\ walletLock # c
      BY <1>0, <2>0 DEF CallsOK, CallOK, Recording
    <3>2. /\ pc'[c] = "count" /\ hash'[c] = hash[c] /\ target'[c] = n + 1
          /\ fetched'[c] = fetched[c] /\ confirmations' = confirmations
          /\ walletLock' = walletLock
      BY <1>0, <1>15, <1>R, <2>3 DEF Insert, CallsType, funds, chain
    <3>3. n + 1 \in DOMAIN records' /\ records'[n + 1].hash = hash[c]
      BY <1>R, <2>1
    <3> QED BY <2>0, <3>1, <3>2, <3>3 DEF CallOK, Targeted, Recording, Crediting
  <2>8. \A i : Paid(i)' <=> Paid(i)
    BY <1>15 DEF Insert, funds, Paid
  <2>9. Grows
    <3>1. \A h \in Hashes : confirmations[h] \in 0..Required /\ confirmations' = confirmations
      BY <1>0, <1>15 DEF Insert, chain, RowsType
    <3> QED BY <1>R, <2>1, <2>8, <3>1 DEF Grows
  <2>10. RecordsOK'
    <3>1. ~ Paid(n + 1)
      <4>1. \A j \in DOMAIN ledger : ledger[j] \in [record : 1..n, amount : Nat]
        <5>1. ledger \in Seq([record : 1..n, amount : Nat])
          BY <1>0, <1>R DEF RowsType
        <5>2. DOMAIN ledger = 1..Len(ledger)
          BY <5>1, LenProperties
        <5> QED BY <5>1, <5>2, ElementOfSeq
      <4> QED BY <1>R, <4>1 DEF Paid
    <3>2. ASSUME NEW i \in 1..n PROVE RecordOK(i)'
      <4>1. RecordOK(i) /\ confirmations' = confirmations
        BY <1>15, <1>R DEF IInv, RecordsOK, Insert, chain
      <4> QED BY <2>1, <2>8, <4>1 DEF RecordOK
    <3>3. ASSUME NEW i \in DOMAIN records', i = n + 1 PROVE RecordOK(i)'
      <4>1. records'[i] = r /\ ~ Paid(i)' /\ r.status = "PENDING"
        BY <2>1, <2>8, <3>1, <3>3
      <4> QED BY <4>1 DEF RecordOK
    <3> QED BY <1>R, <2>1, <3>2, <3>3 DEF RecordsOK
  <2>11. LedgerExplainsBalance'
    BY <1>15 DEF Insert, funds, IInv, LedgerExplainsBalance
  <2> QED BY <2>4, <2>5, <2>6, <2>7, <2>9, <2>10, <2>11, StepKeeps
<1>16. ASSUME NEW c \in Calls, SaveAddress(c) PROVE IInv'
  <2>1. /\ Amount(c) \in Nat /\ CallOK(c) /\ pc[c] = "saveAddress"
        /\ seenAddress[c] \in [count : Nat, received : Nat]
    <3>1. pc[c] = "saveAddress" /\ CallOK(c)
      BY <1>0, <1>16 DEF SaveAddress, CallsOK
    <3>2. target[c] \in DOMAIN records
      BY <3>1 DEF CallOK, Targeted, PC
    <3>3. records[target[c]].hash \in Hashes
      BY <1>0, <3>2, RecordType
    <3> QED BY <1>0, <3>1, <3>3 DEF Amount, CallsType
  <2>2. RowsType'
    BY <1>0, <1>16, <2>1 DEF SaveAddress, RowsType, chain, funds
  <2>3. CASE Return(c)
    <3>1. CallsType'
      BY <1>0, <1>16, <2>3, ReturnEffect DEF SaveAddress, CallsType, funds
    <3>2. OthersRest(c)
      BY <1>0, <1>16, <2>3, ReturnEffect DEF SaveAddress, OthersRest, funds
    <3>3. CallOK(c)'
      BY <1>0, <1>16, <2>1, <2>3, ReturnEffect, Answered DEF SaveAddress, CallOK, funds
    <3> QED BY <1>16, <2>2, <3>1, <3>2, <3>3, QuietStep DEF SaveAddress, chain, funds
  <2>4. CASE Enough(fetched[c]) /\ Goto(c, "loadForCredit") /\ UNCHANGED memory
    <3>1. CallsType'
      BY <1>0, <1>16, <2>4 DEF SaveAddress, Goto, CallsType, PC, memory, funds
    <3>2. OthersRest(c)
      BY <1>0, <1>16, <2>4 DEF SaveAddress, Goto, CallsType, OthersRest, memory, funds
    <3>3. CallOK(c)'
      <4>1. pc'[c] = "loadForCredit"
        BY <1>0, <2>4 DEF Goto, CallsType
      <4>2. confirmations[hash[c]] = Required
        <5>1. fetched[c] <= confirmations[hash[c]] /\ hash[c] \in Hashes
          BY <2>1 DEF CallOK, Recording
        <5>2. fetched[c] \in 0..Required /\ confirmations[hash[c]] \in 0..Required
          BY <1>0, <5>1 DEF CallsType, RowsType
        <5> QED BY <2>4, <5>1, <5>2 DEF Enough
      <4>3. UNCHANGED <<confirmations, records, funds, memory>>
        BY <1>16, <2>4 DEF SaveAddress, chain
      <4> QED BY <2>1, <4>1, <4>2, <4>3
              DEF CallOK, Targeted, Recording, Crediting, PC, funds, memory
    <3> QED BY <1>16, <2>2, <3>1, <3>2, <3>3, QuietStep DEF SaveAddress, chain, funds
  <2> QED BY <1>16, <2>3, <2>4 DEF SaveAddress
<1>17. ASSUME NEW c \in Calls, SaveRecord(c) PROVE IInv'
  <2>1. /\ CallOK(c) /\ pc[c] = "saveRecord" /\ pc[c] \in Targeted
        /\ copy[c] \in Status /\ Save(c, copy[c])
        /\ UNCHANGED <<chain, address, funds>>
    BY <1>0, <1>17 DEF SaveRecord, CallsOK, CallsType, Targeted, PC
  <2>2. /\ copy[c] # "CREDITED" /\ target[c] \in DOMAIN records
        /\ copy[c] = "CONFIRMED" => confirmations[hash[c]] = Required
        /\ walletLock # c
    BY <2>1 DEF CallOK
  <2>3. /\ records' \in Seq([hash : Hashes, status : Status])
        /\ Len(records') = Len(records) /\ DOMAIN records' = DOMAIN records
        /\ records'[target[c]].hash = records[target[c]].hash
    BY <1>0, <2>1, <2>2, SaveEffect
  <2>5. \/ Return(c)
        \/ copy[c] = "CONFIRMED" /\ Goto(c, "loadForCredit") /\ UNCHANGED memory
    BY <1>17 DEF SaveRecord
  <2>6. CallsType' /\ OthersRest(c)
    <3>1. CASE Return(c)
      BY <1>0, <2>1, <2>3, <3>1, ReturnEffect DEF CallsType, OthersRest, funds
    <3>2. CASE copy[c] = "CONFIRMED" /\ Goto(c, "loadForCredit") /\ UNCHANGED memory
      BY <1>0, <2>1, <2>3, <3>2 DEF Goto, CallsType, OthersRest, PC, funds, memory
    <3> QED BY <2>5, <3>1, <3>2
  <2>7. CallOK(c)'
    <3>1. CASE Return(c)
      BY <1>0, <2>1, <2>2, <3>1, ReturnEffect, Answered DEF funds
    <3>2. CASE copy[c] = "CONFIRMED" /\ Goto(c, "loadForCredit") /\ UNCHANGED memory
      <4>1. pc'[c] = "loadForCredit"
        BY <1>0, <3>2 DEF Goto, CallsType
      <4> QED BY <2>1, <2>2, <2>3, <3>2, <4>1
              DEF CallOK, Targeted, Recording, Crediting, PC, chain, funds, memory
    <3> QED BY <2>5, <3>1, <3>2
  <2> QED BY <2>1, <2>2, <2>6, <2>7, SaveStep
<1>18. ASSUME NEW c \in Calls, SaveCredited(c) PROVE IInv'
  <2>1. /\ CallOK(c) /\ pc[c] = "saveCredited" /\ pc[c] \in Targeted
        /\ "CREDITED" \in Status /\ Save(c, "CREDITED")
        /\ Goto(c, "report") /\ UNCHANGED <<chain, address, funds, memory>>
    BY <1>0, <1>18 DEF SaveCredited, CallsOK, Targeted, PC, Status
  <2>2. target[c] \in DOMAIN records /\ Paid(target[c])
    BY <2>1 DEF CallOK
  <2>3. /\ Len(records') = Len(records) /\ DOMAIN records' = DOMAIN records
        /\ records'[target[c]].hash = records[target[c]].hash
    BY <1>0, <2>1, <2>2, SaveEffect
  <2>4. CallsType' /\ OthersRest(c)
    BY <1>0, <2>1, <2>3 DEF Goto, CallsType, OthersRest, PC, funds, memory
  <2>5. pc'[c] = "report"
    BY <1>0, <2>1 DEF Goto, CallsType
  <2>6. CallOK(c)'
    BY <2>1, <2>2, <2>3, <2>5
       DEF CallOK, Targeted, Recording, Crediting, PC, chain, funds, memory
  <2> QED BY <2>1, <2>2, <2>4, <2>6, SaveStep
<1>19. ASSUME NEW c \in Calls, SaveFailed(c) PROVE IInv'
  <2>1. /\ CallOK(c) /\ pc[c] = "saveFailed" /\ pc[c] \in Targeted
        /\ "FAILED" \in Status /\ Save(c, "FAILED")
        /\ Return(c) /\ UNCHANGED <<chain, address, funds>>
    BY <1>0, <1>19 DEF SaveFailed, CallsOK, Targeted, PC, Status
  <2>2. target[c] \in DOMAIN records /\ walletLock # c
    BY <2>1 DEF CallOK
  <2>3. Len(records') = Len(records)
    BY <1>0, <2>1, <2>2, SaveEffect
  <2>4. CallsType' /\ OthersRest(c)
    BY <1>0, <2>1, <2>3, ReturnEffect DEF CallsType, OthersRest, funds
  <2>5. CallOK(c)'
    BY <1>0, <2>1, <2>2, ReturnEffect, Answered DEF funds
  <2> QED BY <2>1, <2>4, <2>5, SaveStep
<1>20. ASSUME NEW c \in Calls, Credit(c) PROVE IInv'
  <2> DEFINE balance == IF wallet = <<>> THEN 0 ELSE wallet[1]
             a == Amount(c)
  <2>1. /\ pc[c] = "credit" /\ CallOK(c) /\ target[c] \in DOMAIN records
        /\ records[target[c]].hash = hash[c] /\ hash[c] \in Hashes
        /\ confirmations[hash[c]] = Required
    BY <1>0, <1>20 DEF Credit, CallsOK, CallOK, Targeted, Crediting, PC
  <2>2. a \in Nat
    BY <2>1 DEF Amount
  <2>3. /\ ledger' = Append(ledger, [record |-> target[c], amount |-> a])
        /\ pc' = [pc EXCEPT ![c] = "saveCredited"]
        /\ walletLock' = IF walletLock = c THEN NoCall ELSE walletLock
        /\ UNCHANGED <<chain, records, address, memory>>
    BY <1>20 DEF Credit, Unlock, Goto
  <2>4. wallet \in Seq(Nat) /\ wallet' = <<balance + a>> /\ balance \in Nat
    <3>1. wallet \in Seq(Nat)
      BY <1>0 DEF RowsType
    <3>2. balance \in Nat
      BY <3>1
    <3>3. CASE seenWallet[c] # <<>> /\ wallet' = <<seenWallet[c][1] + Amount(c)>>
      BY <2>1, <3>1, <3>2, <3>3 DEF CallOK
    <3>4. CASE seenWallet[c] = <<>> /\ wallet = <<>> /\ wallet' = <<Amount(c)>>
      BY <2>2, <3>1, <3>2, <3>4
    <3> QED BY <1>20, <3>1, <3>2, <3>3, <3>4 DEF Credit
  <2>5. /\ ledger' \in Seq([record : DOMAIN records, amount : Nat])
        /\ \A i : Paid(i)' <=> Paid(i) \/ i = target[c]
        /\ Total([i \in DOMAIN ledger |-> ledger[i].amount], Len(ledger))' =
             Total([i \in DOMAIN ledger |-> ledger[i].amount], Len(ledger)) + a
    BY <1>0, <2>1, <2>2, <2>3, AppendEffect
  <2>6. CallsType'
    BY <1>0, <2>3 DEF CallsType, PC, memory
  <2>7. RowsType'
    <3>1. wallet' \in Seq(Nat)
      BY <2>2, <2>4
    <3> QED BY <1>0, <2>3, <2>5, <3>1 DEF RowsType, chain, address
  <2>8. OthersRest(c)
    <3>1. ASSUME NEW d \in Calls \ {c} PROVE walletLock # d
      <4>1. CallOK(d)
        BY <1>0 DEF CallsOK
      <4>2. walletLock = d => wallet # <<>> /\ walletLock # c
        BY <4>1 DEF CallOK
      <4> QED BY <1>20, <2>1, <4>2 DEF Credit, CallOK
    <3> QED BY <1>0, <2>3, <3>1 DEF CallsType, OthersRest, memory
  <2>9. pc'[c] = "saveCredited"
    BY <1>0, <2>3 DEF CallsType
  <2>10. CallOK(c)'
    <3>1. Paid(target[c])'
      BY <2>3, <2>5 DEF memory
    <3>2. walletLock' # c
      BY <1>0, <2>3 DEF CallsType
    <3> HIDE DEF Paid
    <3> QED BY <2>1, <2>3, <2>9, <3>1, <3>2
            DEF CallOK, Targeted, Recording, Crediting, PC, chain, memory
  <2>11. Grows
    <3>1. \A h \in Hashes : confirmations[h] \in 0..Required /\ confirmations' = confirmations
      BY <1>0, <2>3 DEF RowsType, chain
    <3> QED BY <1>R, <2>3, <2>5, <3>1 DEF Grows
  <2>12. RecordsOK'
    <3>1. ASSUME NEW i \in DOMAIN records PROVE RecordOK(i)'
      <4>1. RecordOK(i) /\ UNCHANGED <<confirmations, records>>
        BY <2>3 DEF IInv, RecordsOK, chain
      <4> QED BY <2>1, <2>5, <4>1 DEF RecordOK
    <3> QED BY <2>3, <3>1 DEF RecordsOK
  <2>13. LedgerExplainsBalance'
    <3>1. balance = Total([i \in DOMAIN ledger |-> ledger[i].amount], Len(ledger))
      BY DEF IInv, LedgerExplainsBalance
    <3>2. Len(wallet') = 1 /\ wallet' # <<>> /\ wallet'[1] = balance + a
      BY <2>4
    <3> HIDE DEF balance, a
    <3> QED BY <2>5, <3>1, <3>2 DEF LedgerExplainsBalance
  <2> QED BY <2>6, <2>7, <2>8, <2>10, <2>11, <2>12, <2>13, StepKeeps
<1>21. CASE UNCHANGED vars
  <2>1. UNCHANGED <<confirmations, deliveries, records, transactionCount, totalReceived,
                    wallet, walletLock, ledger, pc, hash, target, fetched, copy,
                    seenAddress, seenWallet>>
    BY <1>21 DEF vars, chain, address, funds, memory
  <2>2. TypeOK'
    BY <1>0, <2>1 DEF TypeOK
  <2>3. CallsOK' /\ RecordsOK' /\ LedgerExplainsBalance'
    BY <1>0, <2>1 DEF IInv, CallsOK, CallOK, RecordsOK, RecordOK, Paid, LedgerExplainsBalance
  <2> QED BY <2>2, <2>3 DEF IInv
<1> QED BY <1>1, <1>2, <1>3, <1>4, <1>5, <1>6, <1>7, <1>8, <1>9, <1>10, <1>11, <1>12, <1>13,
           <1>14, <1>15, <1>16, <1>17, <1>18, <1>19, <1>20, <1>21 DEF Next, Proceed

\* The invariant holds of every reachable state.
THEOREM Invariance == Spec => []IInv
BY InitIInv, NextIInv, PTL DEF Spec

\* The rows, the calls and the chain keep their types.
THEOREM TypeCorrect == Spec => []TypeOK
<1>1. IInv => TypeOK
  BY DEF IInv
<1> QED BY <1>1, Invariance, PTL

\* processIncomingTransaction and updateTransactionConfirmations: nothing is
\* credited before the chain has confirmed it often enough.
THEOREM NothingIsCreditedEarly == Spec => []NoEarlyCredit
<1>1. IInv => NoEarlyCredit
  <2> SUFFICES ASSUME IInv, NEW h \in Hashes, NEW j \in DOMAIN ledger,
                      records[ledger[j].record].hash = h
               PROVE  confirmations[h] = Required
    BY DEF NoEarlyCredit, CreditsOf
  <2>1. ledger[j].record \in DOMAIN records
    <3> DEFINE E == [record : DOMAIN records, amount : Nat]
    <3>1. ledger \in Seq(E)
      BY DEF IInv, TypeOK
    <3>2. ledger[j] \in E
      <4> HIDE DEF E
      <4> QED BY <3>1, LenProperties, ElementOfSeq
    <3> QED BY <3>2
  <2>2. Paid(ledger[j].record)
    BY DEF Paid
  <2> HIDE DEF Paid
  <2> QED BY <2>1, <2>2 DEF IInv, RecordsOK, RecordOK
<1> QED BY <1>1, Invariance, PTL

\* creditUserWallet of the wallet service: the balance is the sum of the ledger,
\* also when two calls credit at once or find no wallet row.
THEOREM NoCreditIsLost == Spec => []LedgerExplainsBalance
<1>1. IInv => LedgerExplainsBalance
  BY DEF IInv
<1> QED BY <1>1, Invariance, PTL

\* creditUserWallet of the deposit service: a record is marked CREDITED only when
\* the ledger has an entry of it.
THEOREM CreditedWasPaid == Spec => []CreditedIsPaid
<1>1. IInv => CreditedIsPaid
  BY DEF IInv, RecordsOK, RecordOK, Paid, CreditedIsPaid
<1> QED BY <1>1, Invariance, PTL
================================================================================
