---------------------------- MODULE PlatformProofs -----------------------------
(***************************************************************************)
(* Every part of Platform keeps its invariant: the parts share no variable *)
(* but part, so a step of the platform is a step of one part and leaves    *)
(* the others as they are (PartSteps), and each part has an inductive      *)
(* invariant of its own: CryptoDepositProofs has that of the deposits.     *)
(***************************************************************************)
EXTENDS Platform, CryptoDepositProofs, FiniteSetTheorems, TLAPS

\* A step of the platform is a step of each part, or leaves that part alone.
LEMMA PartSteps ==
    ASSUME [PlatformNext]_platformVars
    PROVE  /\ [Next]_vars
           /\ [Cache!Next]_varsC
           /\ [Fiat!Next]_varsF
           /\ [Submissions!Next]_varsK
           /\ [Addresses!Next]_varsA
           /\ [Hot!Next]_varsH
           /\ [Browser!Next]_varsW
BY DEF PlatformNext, platformVars

\* Each part counts with Cardinality.
LEMMA Counts ==
    \A S : /\ Cache!Cardinality(S) = Cardinality(S)
           /\ Fiat!Cardinality(S) = Cardinality(S)
           /\ Submissions!Cardinality(S) = Cardinality(S)
BY DEF Cache!Cardinality, Fiat!Cardinality, Submissions!Cardinality, Cardinality

-----------------------------------------------------------------------------
(***************************************************************************)
(* Deposit addresses.                                                      *)
(***************************************************************************)

\* Two rows never have the same address.
RowsUnique == \A r, s \in rowsA : Addresses!AddressOf(r) = Addresses!AddressOf(s) => r = s

\* A call that registers a webhook has its row in the table.
InsertedIsRow ==
    /\ pcA \in [Calls -> Addresses!PC] /\ DOMAIN memA = Calls
    /\ \A c \in Calls : pcA[c] = "registerWebhook" => memA[c] \in rowsA

\* What was shown or recorded was read off a row.
Owns(r) == [user |-> r.user, address |-> Addresses!AddressOf(r)]
ComesFromRow == \A a \in answersA \cup recorded : \E r \in rowsA : a = Owns(r)

AddressesIInv == RowsUnique /\ InsertedIsRow /\ ComesFromRow

-----------------------------------------------------------------------------

LEMMA AddressesInit == Addresses!Init => AddressesIInv
BY DEF Addresses!Init, AddressesIInv, RowsUnique, InsertedIsRow, ComesFromRow, Addresses!PC

\* A step that keeps every row keeps what was shown before it.
LEMMA GrowingRows ==
    ASSUME AddressesIInv, rowsA \subseteq rowsA', RowsUnique', InsertedIsRow',
           \A a \in (answersA \cup recorded)' :
               a \in answersA \cup recorded \/ \E r \in rowsA' : a = Owns(r)
    PROVE  AddressesIInv'
<1>1. ASSUME NEW a \in (answersA \cup recorded)' PROVE \E r \in rowsA' : a = Owns(r)
  BY DEF AddressesIInv, ComesFromRow
<1> QED BY <1>1 DEF AddressesIInv, ComesFromRow, Owns, Addresses!AddressOf

\* Ending a call asks nothing of it.
LEMMA AddressesReturn ==
    ASSUME NEW c \in Calls, InsertedIsRow, Addresses!Return(c), rowsA' = rowsA
    PROVE  InsertedIsRow'
BY DEF InsertedIsRow, Addresses!Return, Addresses!Goto, Addresses!PC

LEMMA AddressesNext == AddressesIInv /\ [Addresses!Next]_varsA => AddressesIInv'
<1> SUFFICES ASSUME AddressesIInv, [Addresses!Next]_varsA PROVE AddressesIInv'
  OBVIOUS
<1>0. RowsUnique /\ InsertedIsRow /\ ComesFromRow
  BY DEF AddressesIInv
<1>1. ASSUME NEW c \in Calls, NEW u \in Users, NEW currency \in Addresses!Currencies,
             Addresses!GenerateDepositAddress(c, u, currency)
      PROVE  AddressesIInv'
  <2>1. rowsA' = rowsA /\ recorded' = recorded /\ RowsUnique'
    BY <1>0, <1>1 DEF Addresses!GenerateDepositAddress, RowsUnique, Addresses!AddressOf
  <2>2. \A a \in answersA' : a \in answersA \/ \E r \in rowsA : a = Owns(r)
    BY <1>1 DEF Addresses!GenerateDepositAddress, Addresses!Show, Owns
  <2>3. /\ \/ pcA' = pcA /\ memA' = memA
           \/ pcA' = [pcA EXCEPT ![c] = "findMax"]
              /\ \E m : memA' = [memA EXCEPT ![c] = m]
    BY <1>1 DEF Addresses!GenerateDepositAddress, Addresses!Goto
  <2>4. InsertedIsRow'
    BY <1>0, <2>1, <2>3 DEF InsertedIsRow, Addresses!PC
  <2> QED BY <2>1, <2>2, <2>4, GrowingRows
<1>2. ASSUME NEW c \in Calls, Addresses!FindMax(c) PROVE AddressesIInv'
  <2>1. rowsA' = rowsA /\ recorded' = recorded /\ answersA' = answersA /\ RowsUnique'
    BY <1>0, <1>2 DEF Addresses!FindMax, RowsUnique, Addresses!AddressOf
  <2>2. InsertedIsRow'
    BY <1>0, <1>2, <2>1 DEF Addresses!FindMax, Addresses!Goto, InsertedIsRow, Addresses!PC
  <2> QED BY <2>1, <2>2, GrowingRows
<1>3. ASSUME NEW c \in Calls, Addresses!Insert(c), Addresses!Taken(c) PROVE AddressesIInv'
  <2>1. rowsA' = rowsA /\ recorded' = recorded /\ answersA' = answersA /\ RowsUnique'
    BY <1>0, <1>3 DEF Addresses!Insert, RowsUnique, Addresses!AddressOf
  <2>2. InsertedIsRow'
    BY <1>0, <1>3, <2>1, AddressesReturn DEF Addresses!Insert
  <2> QED BY <2>1, <2>2, GrowingRows
<1>4. ASSUME NEW c \in Calls, Addresses!Insert(c), ~Addresses!Taken(c) PROVE AddressesIInv'
  <2>1. /\ rowsA' = rowsA \cup {memA[c]} /\ pcA' = [pcA EXCEPT ![c] = "registerWebhook"]
        /\ UNCHANGED <<memA, recorded, answersA>>
    BY <1>4 DEF Addresses!Insert, Addresses!Goto
  <2>2. \A r \in rowsA : Addresses!AddressOf(r) # Addresses!AddressOf(memA[c])
    BY <1>4 DEF Addresses!Taken
  <2>3. RowsUnique'
    BY <1>0, <2>1, <2>2 DEF RowsUnique, Addresses!AddressOf
  <2>4. InsertedIsRow'
    BY <1>0, <2>1 DEF InsertedIsRow, Addresses!PC
  <2> QED BY <2>1, <2>3, <2>4, GrowingRows
<1>5. ASSUME NEW c \in Calls, Addresses!RegisterWebhook(c) PROVE AddressesIInv'
  <2>1. /\ rowsA' = rowsA /\ recorded' = recorded /\ RowsUnique'
        /\ answersA' = answersA \cup {Owns(memA[c])} /\ memA[c] \in rowsA
    BY <1>0, <1>5 DEF Addresses!RegisterWebhook, Addresses!Show, Addresses!AddressOf, Owns,
                      InsertedIsRow, RowsUnique
  <2>2. InsertedIsRow'
    BY <1>0, <1>5, <2>1, AddressesReturn DEF Addresses!RegisterWebhook
  <2> QED BY <2>1, <2>2, GrowingRows
<1>6. ASSUME NEW a \in hooks, Addresses!Webhook(a) PROVE AddressesIInv'
  <2>1. UNCHANGED <<rowsA, answersA, pcA, memA>> /\ RowsUnique' /\ InsertedIsRow'
    BY <1>0, <1>6 DEF Addresses!Webhook, RowsUnique, InsertedIsRow, Addresses!AddressOf
  <2>2. \A b \in recorded' : b \in recorded \/ \E r \in rowsA : b = Owns(r)
    BY <1>6 DEF Addresses!Webhook, Owns
  <2> QED BY <2>1, <2>2, GrowingRows
<1>7. ASSUME NEW c \in Calls, Addresses!Break(c) PROVE AddressesIInv'
  <2>1. rowsA' = rowsA /\ recorded' = recorded /\ answersA' = answersA /\ RowsUnique'
    BY <1>0, <1>7 DEF Addresses!Break, RowsUnique, Addresses!AddressOf
  <2>2. InsertedIsRow'
    BY <1>0, <1>7, <2>1, AddressesReturn DEF Addresses!Break
  <2> QED BY <2>1, <2>2, GrowingRows
<1>8. CASE UNCHANGED varsA
  <2>1. RowsUnique' /\ InsertedIsRow'
    BY <1>0, <1>8 DEF varsA, RowsUnique, InsertedIsRow, Addresses!AddressOf
  <2> QED BY <1>8, <2>1, GrowingRows DEF varsA
<1> QED BY <1>1, <1>2, <1>3, <1>4, <1>5, <1>6, <1>7, <1>8 DEF Addresses!Next

\* generateDepositAddress and processIncomingTransaction: an address is shown to
\* one user only, and what is paid to it is recorded for that user or nobody.
THEOREM AddressesAreOwned == PlatformSpec => []AddressHasOneOwner
<1>1. PlatformInit => AddressesIInv
  BY AddressesInit DEF PlatformInit
<1>2. AddressesIInv /\ [PlatformNext]_platformVars => AddressesIInv'
  BY AddressesNext, PartSteps
<1>3. AddressesIInv => AddressHasOneOwner
  <2> SUFFICES ASSUME AddressesIInv, NEW a \in answersA \cup recorded,
                      NEW b \in answersA \cup recorded, a.address = b.address
               PROVE  a.user = b.user
    BY DEF AddressHasOneOwner, Addresses!AddressHasOneOwner
  <2>1. PICK r \in rowsA : a = Owns(r)
    BY DEF AddressesIInv, ComesFromRow
  <2>2. PICK s \in rowsA : b = Owns(s)
    BY DEF AddressesIInv, ComesFromRow
  <2>3. Addresses!AddressOf(r) = Addresses!AddressOf(s)
    BY <2>1, <2>2 DEF Owns
  <2>4. r = s
    BY <2>3 DEF AddressesIInv, RowsUnique
  <2> QED BY <2>1, <2>2, <2>4 DEF Owns
<1> QED BY <1>1, <1>2, <1>3, PTL DEF PlatformSpec

-----------------------------------------------------------------------------
(***************************************************************************)
(* TRY deposits and bank accounts.                                         *)
(***************************************************************************)

FiatMemType == [n : Nat, iban : Ibans \cup {"none"}, id : Nat, seen : SUBSET Fiat!Deposit]

FiatRowsType ==
    /\ startedF \in Nat
    /\ accounts \subseteq [id : Nat, iban : Ibans \cup {"none"}]
    /\ deposits \subseteq Fiat!Deposit /\ IsFiniteSet(deposits)
FiatCallsType ==
    /\ pcF \in [FiatCalls -> Fiat!PC] /\ memF \in [FiatCalls -> FiatMemType]

HasAccount(id) == \E a \in accounts : a.id = id

\* While no removal has overlapped: what is pending, or about to be inserted,
\* has its account.
PendingExists == \A d \in deposits : d.status = "PENDING" => HasAccount(d.account)
InsertedExists == \A c \in FiatCalls : pcF[c] = "insertDeposit" => HasAccount(memF[c].id)

\* A call that is about to remove an account has counted no pending deposit.
NonePending(c) ==
    \A d \in memF[c].seen : d.account = memF[c].id => d.status # "PENDING"
RemovedIsFree == \A c \in FiatCalls : pcF[c] = "removeAccount" => NonePending(c)

FiatIInv ==
    /\ FiatRowsType /\ FiatCallsType
    /\ RemovedIsFree
    /\ ~overlap => PendingExists /\ InsertedExists

-----------------------------------------------------------------------------

LEMMA FiatInit == Fiat!Init => FiatIInv
<1> SUFFICES ASSUME Fiat!Init PROVE FiatIInv
  OBVIOUS
<1>1. FiatRowsType
  BY FS_EmptySet DEF Fiat!Init, FiatRowsType
<1>2. Fiat!Nothing \in FiatMemType
  BY DEF Fiat!Nothing, FiatMemType
<1> QED BY <1>1, <1>2
        DEF Fiat!Init, Fiat!PC, FiatIInv, FiatCallsType, RemovedIsFree, PendingExists,
        InsertedExists

\* A step of one call leaves what the other calls rest on, when accounts stay.
LEMMA FiatStep ==
    ASSUME FiatIInv, FiatRowsType', NEW c \in FiatCalls, NEW l \in Fiat!PC, NEW m \in FiatMemType,
           pcF' = [pcF EXCEPT ![c] = l], memF' = [memF EXCEPT ![c] = m],
           accounts \subseteq accounts', overlap' = overlap,
           l = "removeAccount" => \A d \in m.seen : d.account = m.id => d.status # "PENDING",
           l = "insertDeposit" => \E a \in accounts : a.id = m.id,
           \A d \in deposits' : d.status = "PENDING" =>
               d \in deposits \/ (~overlap => HasAccount(d.account))
    PROVE  FiatIInv'
<1>1. FiatCallsType'
  BY DEF FiatIInv, FiatCallsType
<1>2. /\ pcF'[c] = l /\ memF'[c] = m
      /\ \A e \in FiatCalls \ {c} : pcF'[e] = pcF[e] /\ memF'[e] = memF[e]
  BY DEF FiatIInv, FiatCallsType
<1>3. RemovedIsFree'
  BY <1>2 DEF FiatIInv, RemovedIsFree, NonePending
<1>4. \A id : HasAccount(id) => HasAccount(id)'
  BY DEF HasAccount
<1>5. ~overlap' => PendingExists' /\ InsertedExists'
  <2> SUFFICES ASSUME ~overlap PROVE PendingExists' /\ InsertedExists'
    OBVIOUS
  <2>1. PendingExists /\ InsertedExists
    BY DEF FiatIInv
  <2>2. PendingExists'
    BY <1>4, <2>1 DEF PendingExists
  <2>3. InsertedExists'
    <3> SUFFICES ASSUME NEW e \in FiatCalls, pcF'[e] = "insertDeposit"
                 PROVE  HasAccount(memF[e].id)'
      BY DEF InsertedExists
    <3>1. CASE e = c
      BY <1>2, <1>4, <3>1 DEF HasAccount
    <3>2. CASE e # c
      BY <1>2, <1>4, <2>1, <3>2 DEF InsertedExists
    <3> QED BY <3>1, <3>2
  <2> QED BY <2>2, <2>3
<1> QED BY <1>1, <1>3, <1>5 DEF FiatIInv

\* What a call remembers when it has ended.
LEMMA FiatNothing == Fiat!Nothing \in FiatMemType
BY DEF Fiat!Nothing, FiatMemType

LEMMA FiatNext == FiatIInv /\ [Fiat!Next]_varsF => FiatIInv'
<1> SUFFICES ASSUME FiatIInv, [Fiat!Next]_varsF PROVE FiatIInv'
  OBVIOUS
<1>0. FiatRowsType /\ FiatCallsType /\ RemovedIsFree
  BY DEF FiatIInv
<1>1. ASSUME NEW c \in FiatCalls, NEW iban \in Ibans, Fiat!AddBankAccount(c, iban) PROVE FiatIInv'
  <2> DEFINE m == [[Fiat!Nothing EXCEPT !.iban = iban] EXCEPT !.n = startedF']
  <2>1. /\ pcF' = [pcF EXCEPT ![c] = "insertAccount"] /\ memF' = [memF EXCEPT ![c] = m]
        /\ UNCHANGED <<accounts, deposits, overlap>> /\ startedF' \in Nat
    BY <1>0, <1>1 DEF Fiat!AddBankAccount, Fiat!Begin, Fiat!Goto, FiatRowsType
  <2>2. m \in FiatMemType
    BY <2>1 DEF Fiat!Nothing, FiatMemType
  <2>3. FiatRowsType' /\ "insertAccount" \in Fiat!PC
    BY <1>0, <2>1 DEF FiatRowsType, Fiat!PC
  <2> HIDE DEF m
  <2> QED BY <2>1, <2>2, <2>3, FiatStep
<1>2. ASSUME NEW c \in FiatCalls, NEW a \in accounts,
             Fiat!RemoveBankAccount(c, a) \/ Fiat!CreateDepositRequest(c, a)
      PROVE  FiatIInv'
  <2> DEFINE m == [[Fiat!Nothing EXCEPT !.id = a.id] EXCEPT !.n = startedF']
  <2>1. PICK l \in {"countPending", "insertDeposit"} :
             /\ pcF' = [pcF EXCEPT ![c] = l] /\ memF' = [memF EXCEPT ![c] = m]
             /\ UNCHANGED <<accounts, deposits, overlap>> /\ startedF' \in Nat
    BY <1>0, <1>2 DEF Fiat!RemoveBankAccount, Fiat!CreateDepositRequest, Fiat!Begin,
                      Fiat!Goto, FiatRowsType
  <2>2. a.id \in Nat
    BY <1>0 DEF FiatRowsType
  <2>3. m \in FiatMemType /\ m.id = a.id
    BY <2>1, <2>2 DEF Fiat!Nothing, FiatMemType
  <2>4. FiatRowsType' /\ l \in Fiat!PC
    BY <1>0, <2>1 DEF FiatRowsType, Fiat!PC
  <2> HIDE DEF m
  <2> QED BY <2>1, <2>3, <2>4, FiatStep
<1>3. ASSUME NEW c \in FiatCalls, NEW d \in deposits, Fiat!ApproveDeposit(c, d) PROVE FiatIInv'
  <2> DEFINE m == [[Fiat!Nothing EXCEPT !.id = d.id] EXCEPT !.n = startedF']
  <2>1. /\ pcF' = [pcF EXCEPT ![c] = "saveApproval"] /\ memF' = [memF EXCEPT ![c] = m]
        /\ UNCHANGED <<accounts, deposits, overlap>> /\ startedF' \in Nat
    BY <1>0, <1>3 DEF Fiat!ApproveDeposit, Fiat!Begin, Fiat!Goto, FiatRowsType
  <2>2. d.id \in Nat
    BY <1>0 DEF FiatRowsType, Fiat!Deposit
  <2>3. m \in FiatMemType
    BY <2>1, <2>2 DEF Fiat!Nothing, FiatMemType
  <2>4. FiatRowsType' /\ "saveApproval" \in Fiat!PC
    BY <1>0, <2>1 DEF FiatRowsType, Fiat!PC
  <2> HIDE DEF m
  <2> QED BY <2>1, <2>3, <2>4, FiatStep
<1>4. ASSUME NEW c \in FiatCalls, Fiat!InsertAccount(c) PROVE FiatIInv'
  <2>1. /\ pcF' = [pcF EXCEPT ![c] = "idle"] /\ memF' = [memF EXCEPT ![c] = Fiat!Nothing]
        /\ accounts \subseteq accounts' /\ UNCHANGED <<deposits, overlap>>
    BY <1>4 DEF Fiat!InsertAccount, Fiat!Return, Fiat!Goto
  <2>2. FiatRowsType'
    <3>1. memF[c] \in FiatMemType /\ pcF[c] = "insertAccount"
      BY <1>0, <1>4 DEF FiatCallsType, Fiat!InsertAccount
    <3> QED BY <1>0, <1>4, <2>1, <3>1 DEF Fiat!InsertAccount, FiatRowsType, FiatMemType
  <2> QED BY <2>1, <2>2, FiatNothing, FiatStep DEF Fiat!PC
<1>5. ASSUME NEW c \in FiatCalls, Fiat!CountPending(c) PROVE FiatIInv'
  <2>1. CASE \E d \in deposits : d.account = memF[c].id /\ d.status = "PENDING"
    <3>1. /\ pcF' = [pcF EXCEPT ![c] = "idle"] /\ memF' = [memF EXCEPT ![c] = Fiat!Nothing]
          /\ UNCHANGED <<startedF, accounts, deposits, overlap>>
      BY <1>5, <2>1 DEF Fiat!CountPending, Fiat!Return, Fiat!Goto
    <3> QED BY <1>0, <3>1, FiatNothing, FiatStep DEF Fiat!PC, FiatRowsType
  <2>2. CASE ~\E d \in deposits : d.account = memF[c].id /\ d.status = "PENDING"
    <3> DEFINE m == [memF[c] EXCEPT !.seen = deposits]
    <3>1. /\ pcF' = [pcF EXCEPT ![c] = "removeAccount"] /\ memF' = [memF EXCEPT ![c] = m]
          /\ UNCHANGED <<startedF, accounts, deposits, overlap>>
      BY <1>5, <2>2 DEF Fiat!CountPending, Fiat!Goto
    <3>2. memF[c] \in FiatMemType /\ deposits \in SUBSET Fiat!Deposit
      BY <1>0 DEF FiatCallsType, FiatRowsType
    <3>3. m \in FiatMemType /\ m.seen = deposits /\ m.id = memF[c].id
      BY <3>2 DEF FiatMemType
    <3>4. \A d \in m.seen : d.account = m.id => d.status # "PENDING"
      BY <2>2, <3>3
    <3> HIDE DEF m
    <3> QED BY <1>0, <3>1, <3>3, <3>4, FiatStep DEF Fiat!PC, FiatRowsType
  <2> QED BY <2>1, <2>2
<1>6. ASSUME NEW c \in FiatCalls, Fiat!RemoveAccount(c) PROVE FiatIInv'
  <2> DEFINE id == memF[c].id
  <2>1. /\ pcF' = [pcF EXCEPT ![c] = "idle"] /\ memF' = [memF EXCEPT ![c] = Fiat!Nothing]
        /\ accounts' = {a \in accounts : a.id # id}
        /\ overlap' = (overlap \/ Fiat!Overlapped(c)) /\ UNCHANGED <<startedF, deposits>>
        /\ pcF[c] = "removeAccount"
    BY <1>6 DEF Fiat!RemoveAccount, Fiat!Return, Fiat!Goto
  <2>2. FiatRowsType' /\ FiatCallsType' /\ RemovedIsFree'
    BY <1>0, <2>1, FiatNothing
    DEF FiatRowsType, FiatCallsType, RemovedIsFree, NonePending, Fiat!PC
  <2>3. ASSUME ~overlap' PROVE PendingExists' /\ InsertedExists'
    <3>1. PendingExists /\ InsertedExists /\ ~Fiat!Overlapped(c)
      BY <2>1, <2>3 DEF FiatIInv
    <3>2. \A k : HasAccount(k) /\ k # id => HasAccount(k)'
      BY <2>1 DEF HasAccount
    <3>3. ASSUME NEW d \in deposits, d.status = "PENDING" PROVE d.account # id
      <4>1. d \in memF[c].seen => d.account # id
        BY <1>0, <2>1, <3>3 DEF RemovedIsFree, NonePending
      <4>2. d \notin memF[c].seen => d.account # id
        BY <3>1 DEF Fiat!Overlapped
      <4> QED BY <4>1, <4>2
    <3>4. \A e \in FiatCalls : pcF[e] = "insertDeposit" => memF[e].id # id
      BY <3>1 DEF Fiat!Overlapped
    <3>5. \A e \in FiatCalls : pcF'[e] = "insertDeposit" =>
                                 pcF[e] = "insertDeposit" /\ memF'[e] = memF[e]
      BY <1>0, <2>1 DEF FiatCallsType
    <3>6. PendingExists'
      BY <2>1, <3>1, <3>2, <3>3 DEF PendingExists
    <3>7. InsertedExists'
      BY <3>1, <3>2, <3>4, <3>5 DEF InsertedExists
    <3> QED BY <3>6, <3>7
  <2> QED BY <2>2, <2>3 DEF FiatIInv
<1>7. ASSUME NEW c \in FiatCalls, Fiat!InsertDeposit(c) PROVE FiatIInv'
  <2> DEFINE new == [id |-> Cardinality(deposits) + 1, account |-> memF[c].id,
                     status |-> "PENDING"]
  <2>1. /\ pcF' = [pcF EXCEPT ![c] = "idle"] /\ memF' = [memF EXCEPT ![c] = Fiat!Nothing]
        /\ deposits' = deposits \cup {new} /\ UNCHANGED <<startedF, accounts, overlap>>
        /\ pcF[c] = "insertDeposit"
    BY <1>7, Counts DEF Fiat!InsertDeposit, Fiat!Return, Fiat!Goto
  <2>2. new \in Fiat!Deposit
    <3>1. Cardinality(deposits) \in Nat
      BY <1>0, FS_CardinalityType DEF FiatRowsType
    <3>2. memF[c].id \in Nat
      BY <1>0 DEF FiatCallsType, FiatMemType
    <3> QED BY <3>1, <3>2 DEF Fiat!Deposit
  <2>3. FiatRowsType'
    <3>1. IsFiniteSet(deposits \cup {new})
      BY <1>0, FS_AddElement DEF FiatRowsType
    <3> HIDE DEF new
    <3> QED BY <1>0, <2>1, <2>2, <3>1 DEF FiatRowsType
  <2>4. new.account = memF[c].id /\ (~overlap => HasAccount(memF[c].id))
    BY <2>1 DEF FiatIInv, InsertedExists
  <2> HIDE DEF new
  <2> QED BY <2>1, <2>3, <2>4, FiatNothing, FiatStep DEF Fiat!PC
<1>8. ASSUME NEW c \in FiatCalls, Fiat!SaveApproval(c) PROVE FiatIInv'
  <2> DEFINE Saved(d) == IF d.id = memF[c].id THEN [d EXCEPT !.status = "APPROVED"] ELSE d
  <2>1. /\ pcF' = [pcF EXCEPT ![c] = "idle"] /\ memF' = [memF EXCEPT ![c] = Fiat!Nothing]
        /\ deposits' = {Saved(d) : d \in deposits} /\ UNCHANGED <<startedF, accounts, overlap>>
    BY <1>8 DEF Fiat!SaveApproval, Fiat!Return, Fiat!Goto
  <2>2. \A d \in deposits : /\ Saved(d) \in Fiat!Deposit
                            /\ Saved(d).status = "PENDING" => Saved(d) = d
    BY <1>0 DEF FiatRowsType, Fiat!Deposit
  <2>3. IsFiniteSet(deposits')
    <3>1. [d \in deposits |-> Saved(d)] \in Surjection(deposits, {Saved(d) : d \in deposits})
      BY DEF Surjection
    <3>2. IsFiniteSet(deposits)
      BY <1>0 DEF FiatRowsType
    <3> HIDE DEF Saved
    <3> QED BY <2>1, <3>1, <3>2, FS_Surjection
  <2> HIDE DEF Saved
  <2>4. FiatRowsType'
    BY <1>0, <2>1, <2>2, <2>3 DEF FiatRowsType
  <2>5. \A d \in deposits' : d.status = "PENDING" => d \in deposits
    BY <2>1, <2>2
  <2> QED BY <2>1, <2>4, <2>5, FiatNothing, FiatStep DEF Fiat!PC
<1>9. ASSUME NEW c \in FiatCalls, Fiat!Break(c) PROVE FiatIInv'
  <2>1. /\ pcF' = [pcF EXCEPT ![c] = "idle"] /\ memF' = [memF EXCEPT ![c] = Fiat!Nothing]
        /\ UNCHANGED <<startedF, accounts, deposits, overlap>>
    BY <1>9 DEF Fiat!Break, Fiat!Return, Fiat!Goto
  <2> QED BY <1>0, <2>1, FiatNothing, FiatStep DEF Fiat!PC, FiatRowsType
<1>10. CASE UNCHANGED varsF
  BY <1>10 DEF varsF, FiatIInv, FiatRowsType, FiatCallsType, RemovedIsFree, NonePending,
               PendingExists, InsertedExists, HasAccount
<1> QED BY <1>1, <1>2, <1>3, <1>4, <1>5, <1>6, <1>7, <1>8, <1>9, <1>10 DEF Fiat!Next

\* removeBankAccount counts the pending deposits and removes the account in two
\* steps: a pending deposit loses its account only to a removal that overlapped
\* the deposit's creation.
THEOREM PendingKeepsAccount == PlatformSpec => []PendingHasAccount
<1>1. PlatformInit => FiatIInv
  BY FiatInit DEF PlatformInit
<1>2. FiatIInv /\ [PlatformNext]_platformVars => FiatIInv'
  BY FiatNext, PartSteps
<1>3. FiatIInv => PendingHasAccount
  BY DEF FiatIInv, PendingHasAccount, Fiat!PendingHasAccount, Fiat!Orphans, PendingExists,
         HasAccount
<1> QED BY <1>1, <1>2, <1>3, PTL DEF PlatformSpec

-----------------------------------------------------------------------------
(***************************************************************************)
(* The balance cache.  An entry names a balance that was the balance Life  *)
(* + MaxDelay before the entry ends, or later; a read that is about to     *)
(* store names the one it found.                                           *)
(***************************************************************************)

CacheBusy == {c \in Calls : pcC[c] # "idle"}
CacheMem == [key : Cache!Keys, version : Nat, at : Nat, writer : Cache!Writers]
CacheEntry == [version : Nat, until : Nat]

CacheTypes ==
    /\ menuC \in CacheScenarios
    /\ nowC \in 1..MaxTime
    /\ startedC \in 0..menuC.calls /\ stored \in 0..startedC
    /\ replaced \in [0..(stored - 1) -> Nat]
    /\ cache \in [Cache!Keys -> CacheEntry]
    /\ pcC \in [Calls -> Cache!PC] /\ memC \in [Calls -> CacheMem]
    /\ due \in [Cache!Keys -> Nat]
    /\ served \in [version : Nat, due : Nat, age : Int]
    /\ IsFiniteSet(CacheBusy)

\* Nothing is newer than the wallet.
CacheVersions ==
    /\ \A k \in Cache!Keys : cache[k].version <= stored /\ due[k] <= stored
    /\ \A c \in Calls : memC[c].version <= stored

\* Version v was the balance at time t, or became it later.
StillAt(v, t) == v = stored \/ replaced[v] >= t

CacheRecent ==
    /\ \A k \in Cache!Keys :
         /\ cache[k].until <= nowC + Life
         /\ StillAt(cache[k].version, cache[k].until - (Life + MaxDelay))
    /\ \A c \in Calls : pcC[c] = "store" =>
         /\ memC[c].at <= nowC /\ nowC <= memC[c].at + MaxDelay
         /\ StillAt(memC[c].version, memC[c].at)
    /\ served.age < Life + MaxDelay

\* One request at a time: what is cached, or about to be, is as new as the last
\* change that was invalidated, and a credit that has deleted the first key finds
\* it deleted when it has done with the second.
CacheInTurn ==
    /\ \A c, d \in CacheBusy : c = d
    /\ \A k \in Cache!Keys : Cache!Cached(k) => cache[k].version >= due[k]
    /\ \A c \in Calls : pcC[c] = "store" => memC[c].version >= due[memC[c].key]
    /\ \A c \in Calls : pcC[c] \in {"listKeys", "deleteOne"} => ~Cache!Cached("all")
    /\ served.version >= served.due

CacheIInv ==
    CacheTypes /\ CacheVersions /\ CacheRecent /\ (menuC.width = 1 => CacheInTurn)

-----------------------------------------------------------------------------
\* A step of call c.
CacheStep(c, l, m) == pcC' = [pcC EXCEPT ![c] = l] /\ memC' = [memC EXCEPT ![c] = m]

LEMMA CacheStepEffect ==
    ASSUME CacheTypes, NEW c \in Calls, NEW l \in Cache!PC, NEW m \in CacheMem,
           CacheStep(c, l, m)
    PROVE  /\ pcC' \in [Calls -> Cache!PC] /\ memC' \in [Calls -> CacheMem]
           /\ IsFiniteSet(CacheBusy)'
           /\ pcC'[c] = l /\ memC'[c] = m
           /\ \A d \in Calls \ {c} : pcC'[d] = pcC[d] /\ memC'[d] = memC[d]
<1>1. /\ pcC \in [Calls -> Cache!PC] /\ memC \in [Calls -> CacheMem]
      /\ IsFiniteSet(CacheBusy)
  BY DEF CacheTypes
<1>2. /\ pcC' \in [Calls -> Cache!PC] /\ memC' \in [Calls -> CacheMem]
      /\ pcC'[c] = l /\ memC'[c] = m
      /\ \A d \in Calls \ {c} : pcC'[d] = pcC[d] /\ memC'[d] = memC[d]
  BY <1>1 DEF CacheStep
<1>3. CacheBusy' \subseteq CacheBusy \cup {c}
  BY <1>2 DEF CacheBusy
<1>4. IsFiniteSet(CacheBusy \cup {c})
  BY <1>1, FS_AddElement
<1> QED BY <1>2, <1>3, <1>4, FS_Subset

LEMMA CacheNothing == Cache!Nothing \in CacheMem
BY DEF Cache!Nothing, CacheMem, Cache!Keys, Cache!Writers

\* Where requests come one at a time, one that begins finds no other.
LEMMA CacheAlone ==
    ASSUME CacheTypes, menuC.width = 1, NEW c \in Calls, Cache!MayBegin(c)
    PROVE  \A d \in Calls : pcC[d] = "idle"
<1>1. IsFiniteSet(CacheBusy) /\ Cardinality(CacheBusy) < 1
  BY Counts DEF CacheTypes, Cache!MayBegin, CacheBusy
<1>2. Cardinality(CacheBusy) = 0
  BY <1>1, FS_CardinalityType
<1>3. CacheBusy = {}
  BY <1>1, <1>2, FS_EmptySet
<1> QED BY <1>3 DEF CacheBusy

LEMMA CacheInit == Cache!Init => CacheIInv
<1> SUFFICES ASSUME Cache!Init PROVE CacheIInv
  OBVIOUS
<1>0. /\ Life \in Nat \ {0} /\ MaxDelay \in Nat /\ MaxTime \in Nat \ {0}
      /\ menuC \in CacheScenarios /\ menuC.calls \in Nat
  BY CacheAssumption DEF Cache!Init
<1>1. CacheTypes
  <2>1. CacheBusy = {}
    BY DEF Cache!Init, CacheBusy
  <2>2. IsFiniteSet(CacheBusy)
    BY <2>1, FS_EmptySet
  <2>3. cache \in [Cache!Keys -> CacheEntry] /\ due \in [Cache!Keys -> Nat]
    BY DEF Cache!Init, Cache!NoEntry, CacheEntry
  <2>4. pcC \in [Calls -> Cache!PC] /\ memC \in [Calls -> CacheMem]
    BY CacheNothing DEF Cache!Init, Cache!PC
  <2>5. replaced \in [0..(stored - 1) -> Nat]
    BY DEF Cache!Init
  <2> QED BY <1>0, <2>2, <2>3, <2>4, <2>5 DEF Cache!Init, CacheTypes
<1>2. CacheVersions
  BY DEF Cache!Init, CacheVersions, Cache!NoEntry, Cache!Nothing
<1>3. CacheRecent
  BY <1>0 DEF Cache!Init, CacheRecent, StillAt, Cache!NoEntry
<1>4. CacheInTurn
  BY DEF Cache!Init, CacheInTurn, CacheBusy, Cache!Cached, Cache!NoEntry
<1> QED BY <1>1, <1>2, <1>3, <1>4 DEF CacheIInv

\* An answer that names a version as recent as the cache may be is recent.
LEMMA ServedEffect ==
    ASSUME CacheTypes, NEW k \in Cache!Keys, NEW v \in 0..stored, Cache!Serve(k, v),
           v = stored \/ nowC - replaced[v] < Life + MaxDelay
    PROVE  /\ served' \in [version : Nat, due : Nat, age : Int]
           /\ served'.version = v /\ served'.due = due[k]
           /\ served'.age < Life + MaxDelay
<1>1. /\ Life \in Nat \ {0} /\ MaxDelay \in Nat /\ nowC \in Nat /\ stored \in Nat
      /\ due[k] \in Nat
  BY CacheAssumption DEF CacheTypes
<1>2. v # stored => replaced[v] \in Nat
  BY <1>1 DEF CacheTypes
<1> QED BY <1>1, <1>2 DEF Cache!Serve

\* A step that deletes entries, or none, and counts as invalidated only keys that
\* are not cached.
LEMMA CacheInvalidates ==
    ASSUME CacheIInv, NEW c \in Calls, pcC[c] # "idle",
           NEW l \in {"idle", "listKeys", "deleteOne"}, NEW m \in {memC[c], Cache!Nothing},
           CacheStep(c, l, m),
           UNCHANGED <<menuC, startedC, nowC, stored, replaced, served>>,
           cache' \in [Cache!Keys -> CacheEntry],
           \A k \in Cache!Keys : cache'[k] \in {cache[k], Cache!NoEntry},
           due' \in [Cache!Keys -> Nat],
           \A k \in Cache!Keys : due'[k] <= stored,
           menuC.width = 1 =>
             \A k \in Cache!Keys : due'[k] = due[k] \/ ~Cache!Cached(k)',
           menuC.width = 1 /\ l # "idle" => ~Cache!Cached("all")'
    PROVE  CacheIInv'
<1>0. /\ CacheTypes /\ CacheVersions /\ CacheRecent
      /\ menuC.width = 1 => CacheInTurn
  BY DEF CacheIInv
<1>1. /\ Life \in Nat \ {0} /\ MaxDelay \in Nat /\ nowC \in Nat /\ nowC > 0 /\ stored \in Nat
      /\ \A k \in Cache!Keys : cache[k].version \in Nat /\ cache[k].until \in Nat
      /\ \A v \in 0..stored : v # stored => replaced[v] \in Nat
  BY <1>0, CacheAssumption DEF CacheTypes, CacheEntry
<1>2. /\ m \in CacheMem /\ m.version <= stored
  BY <1>0, <1>1, CacheNothing DEF CacheTypes, CacheVersions, Cache!Nothing
<1>3. /\ pcC' \in [Calls -> Cache!PC] /\ memC' \in [Calls -> CacheMem]
      /\ IsFiniteSet(CacheBusy)' /\ pcC'[c] = l /\ memC'[c] = m
      /\ \A d \in Calls \ {c} : pcC'[d] = pcC[d] /\ memC'[d] = memC[d]
  BY <1>0, <1>2, CacheStepEffect DEF Cache!PC
<1>4. Cache!NoEntry.version = 0 /\ Cache!NoEntry.until = 0
  BY DEF Cache!NoEntry
<1>5. CacheTypes'
  BY <1>0, <1>3 DEF CacheTypes
<1>6. CacheVersions'
  BY <1>0, <1>1, <1>2, <1>3, <1>4 DEF CacheVersions
<1>7. CacheRecent'
  <2>1. ASSUME NEW k \in Cache!Keys
        PROVE  /\ cache'[k].until <= nowC + Life
               /\ StillAt(cache[k].version, cache[k].until - (Life + MaxDelay))'
    <3>1. CASE cache'[k] = cache[k]
      BY <1>0, <3>1 DEF CacheRecent, StillAt
    <3>2. CASE cache'[k] = Cache!NoEntry
      <4>1. 0 = stored \/ replaced[0] >= 0 - (Life + MaxDelay)
        BY <1>1
      <4> QED BY <1>1, <1>4, <3>2, <4>1 DEF StillAt
    <3> QED BY <3>1, <3>2
  <2>2. ASSUME NEW d \in Calls, pcC'[d] = "store"
        PROVE  /\ memC'[d].at <= nowC /\ nowC <= memC'[d].at + MaxDelay
               /\ StillAt(memC[d].version, memC[d].at)'
    <3>1. pcC[d] = "store" /\ memC'[d] = memC[d]
      BY <1>3, <2>2
    <3> QED BY <1>0, <3>1 DEF CacheRecent, StillAt
  <2> QED BY <1>0, <2>1, <2>2 DEF CacheRecent
<1>8. menuC.width = 1 => CacheInTurn'
  <2> SUFFICES ASSUME menuC.width = 1 PROVE CacheInTurn'
    OBVIOUS
  <2>1. CacheInTurn /\ \A d \in Calls \ {c} : pcC[d] = "idle"
    BY <1>0 DEF CacheInTurn, CacheBusy
  <2>2. \A d, e \in CacheBusy' : d = e
    BY <1>3, <2>1 DEF CacheBusy
  <2>3. ASSUME NEW k \in Cache!Keys, Cache!Cached(k)' PROVE cache'[k].version >= due'[k]
    <3>1. cache'[k] = cache[k] /\ due'[k] = due[k]
      BY <1>1, <1>4, <2>3 DEF Cache!Cached
    <3> QED BY <2>1, <2>3, <3>1 DEF CacheInTurn, Cache!Cached
  <2> QED BY <1>3, <2>1, <2>2, <2>3 DEF CacheInTurn
<1> QED BY <1>5, <1>6, <1>7, <1>8 DEF CacheIInv

\* What a writer that is done does to the keys it names.
LEMMA CacheDone ==
    ASSUME CacheTypes, CacheVersions, NEW c \in Calls, NEW keys, Cache!Done(c, keys)
    PROVE  /\ due' \in [Cache!Keys -> Nat]
           /\ \A k \in Cache!Keys : due'[k] <= stored /\ (k \notin keys => due'[k] = due[k])
           /\ CacheStep(c, "idle", Cache!Nothing)
<1>1. /\ stored \in Nat /\ memC[c].version \in Nat /\ memC[c].version <= stored
      /\ \A k \in Cache!Keys : due[k] \in Nat /\ due[k] <= stored
  BY DEF CacheTypes, CacheVersions, CacheMem
<1> QED BY <1>1 DEF Cache!Done, Cache!Return, Cache!Goto, CacheStep

LEMMA CacheNext == CacheIInv /\ [Cache!Next]_varsC => CacheIInv'
<1> SUFFICES ASSUME CacheIInv, [Cache!Next]_varsC PROVE CacheIInv'
  OBVIOUS
<1>0. /\ CacheTypes /\ CacheVersions /\ CacheRecent
      /\ menuC.width = 1 => CacheInTurn
  BY DEF CacheIInv
<1>a. /\ Life \in Nat \ {0} /\ MaxDelay \in Nat /\ MaxTime \in Nat \ {0}
      /\ menuC.calls \in Nat /\ nowC \in Nat /\ nowC > 0 /\ startedC \in Nat /\ stored \in Nat
  BY <1>0, CacheAssumption DEF CacheTypes
<1>b. /\ \A k \in Cache!Keys :
           /\ cache[k].version \in 0..stored /\ cache[k].until \in Nat
           /\ due[k] \in 0..stored
      /\ \A c \in Calls :
           /\ memC[c].version \in 0..stored /\ memC[c].at \in Nat
           /\ memC[c].key \in Cache!Keys /\ memC[c] \in CacheMem
      /\ \A v \in 0..stored : v # stored => replaced[v] \in Nat
  BY <1>0, <1>a DEF CacheTypes, CacheVersions, CacheEntry, CacheMem
<1>1. ASSUME NEW c \in Calls, NEW k \in Cache!Keys, Cache!Hit(c, k) PROVE CacheIInv'
  <2>1. /\ UNCHANGED <<menuC, nowC, stored, replaced, cache, pcC, memC, due>>
        /\ startedC' = startedC + 1 /\ startedC < menuC.calls
        /\ Cache!Serve(k, cache[k].version) /\ nowC < cache[k].until
        /\ Cache!MayBegin(c)
    BY <1>1 DEF Cache!Hit, Cache!MayBegin, Cache!Cached
  <2>2. /\ served' \in [version : Nat, due : Nat, age : Int]
        /\ served'.version = cache[k].version /\ served'.due = due[k]
        /\ served'.age < Life + MaxDelay
    <3>1. cache[k].version # stored => nowC - replaced[cache[k].version] < Life + MaxDelay
      BY <1>0, <1>a, <1>b, <2>1 DEF CacheRecent, StillAt
    <3> QED BY <1>0, <1>b, <2>1, <3>1, ServedEffect
  <2>3. CacheTypes'
    <3>1. startedC' \in 0..menuC.calls /\ stored' \in 0..startedC'
      BY <1>0, <1>a, <2>1 DEF CacheTypes
    <3>2. CacheBusy' = CacheBusy
      BY <2>1 DEF CacheBusy
    <3> QED BY <1>0, <2>1, <2>2, <3>1, <3>2 DEF CacheTypes
  <2>4. CacheVersions' /\ CacheRecent'
    BY <1>0, <2>1, <2>2 DEF CacheVersions, CacheRecent, StillAt
  <2>5. menuC.width = 1 => CacheInTurn'
    <3>1. menuC.width = 1 => cache[k].version >= due[k]
      BY <1>0, <2>1 DEF CacheInTurn, Cache!Cached
    <3> QED BY <1>0, <2>1, <2>2, <3>1 DEF CacheInTurn, CacheBusy, Cache!Cached
  <2> QED BY <2>1, <2>3, <2>4, <2>5 DEF CacheIInv
<1>2. ASSUME NEW c \in Calls, NEW k \in Cache!Keys, Cache!Miss(c, k) PROVE CacheIInv'
  <2> DEFINE m == [memC[c] EXCEPT !.key = k]
  <2>1. /\ UNCHANGED <<menuC, nowC, stored, replaced, cache, due, served>>
        /\ startedC' = startedC + 1 /\ startedC < menuC.calls
        /\ Cache!MayBegin(c)
    BY <1>2 DEF Cache!Miss, Cache!MayBegin
  <2>2. CacheStep(c, "find", m)
    BY <1>2 DEF Cache!Miss, Cache!Goto, CacheStep
  <2>3. m \in CacheMem /\ m.version = memC[c].version
    BY <1>b DEF CacheMem
  <2> HIDE DEF m
  <2>4. /\ pcC' \in [Calls -> Cache!PC] /\ memC' \in [Calls -> CacheMem]
        /\ IsFiniteSet(CacheBusy)' /\ pcC'[c] = "find" /\ memC'[c] = m
        /\ \A d \in Calls \ {c} : pcC'[d] = pcC[d] /\ memC'[d] = memC[d]
    BY <1>0, <2>2, <2>3, CacheStepEffect DEF Cache!PC
  <2>5. CacheTypes'
    BY <1>0, <1>a, <2>1, <2>4 DEF CacheTypes
  <2>6. CacheVersions' /\ CacheRecent'
    BY <1>0, <2>1, <2>3, <2>4 DEF CacheVersions, CacheRecent, StillAt
  <2>7. menuC.width = 1 => CacheInTurn'
    BY <1>0, <2>1, <2>4, CacheAlone DEF CacheInTurn, CacheBusy, Cache!Cached
  <2> QED BY <2>1, <2>5, <2>6, <2>7 DEF CacheIInv
<1>3. ASSUME NEW c \in Calls, Cache!Find(c) PROVE CacheIInv'
  <2> DEFINE m == [memC[c] EXCEPT !.version = stored, !.at = nowC]
  <2>1. /\ UNCHANGED <<menuC, startedC, nowC, stored, replaced, cache, due, served>>
        /\ pcC[c] = "find"
    BY <1>3 DEF Cache!Find
  <2>2. CacheStep(c, "store", m)
    BY <1>3 DEF Cache!Find, Cache!Goto, CacheStep
  <2>3. m \in CacheMem /\ m.version = stored /\ m.at = nowC /\ m.key = memC[c].key
    BY <1>a, <1>b DEF CacheMem
  <2> HIDE DEF m
  <2>4. /\ pcC' \in [Calls -> Cache!PC] /\ memC' \in [Calls -> CacheMem]
        /\ IsFiniteSet(CacheBusy)' /\ pcC'[c] = "store" /\ memC'[c] = m
        /\ \A d \in Calls \ {c} : pcC'[d] = pcC[d] /\ memC'[d] = memC[d]
    BY <1>0, <2>2, <2>3, CacheStepEffect DEF Cache!PC
  <2>5. CacheTypes'
    BY <1>0, <2>1, <2>4 DEF CacheTypes
  <2>6. CacheVersions'
    BY <1>0, <1>a, <2>1, <2>3, <2>4 DEF CacheVersions
  <2>7. CacheRecent'
    <3>1. m.at <= nowC /\ nowC <= m.at + MaxDelay /\ StillAt(m.version, m.at)
      BY <1>a, <2>3 DEF StillAt
    <3> QED BY <1>0, <2>1, <2>4, <3>1 DEF CacheRecent, StillAt
  <2>8. menuC.width = 1 => CacheInTurn'
    <3>1. m.version >= due[m.key]
      BY <1>b, <2>3
    <3> QED BY <1>0, <2>1, <2>4, <3>1 DEF CacheInTurn, CacheBusy, Cache!Cached
  <2> QED BY <2>1, <2>5, <2>6, <2>7, <2>8 DEF CacheIInv
<1>4. ASSUME NEW c \in Calls, Cache!Store(c) PROVE CacheIInv'
  <2> DEFINE k == memC[c].key
             v == memC[c].version
             e == [version |-> v, until |-> nowC + Life]
  <2>1. /\ UNCHANGED <<menuC, startedC, nowC, stored, replaced, due>>
        /\ pcC[c] = "store" /\ cache' = [cache EXCEPT ![k] = e] /\ Cache!Serve(k, v)
    BY <1>4 DEF Cache!Store
  <2>2. CacheStep(c, "idle", Cache!Nothing)
    BY <1>4 DEF Cache!Store, Cache!Return, Cache!Goto, CacheStep
  <2>3. /\ memC[c].at <= nowC /\ nowC <= memC[c].at + MaxDelay /\ StillAt(v, memC[c].at)
        /\ k \in Cache!Keys /\ v \in 0..stored
    BY <1>0, <1>b, <2>1 DEF CacheRecent
  <2>4. /\ served' \in [version : Nat, due : Nat, age : Int]
        /\ served'.version = v /\ served'.due = due[k]
        /\ served'.age < Life + MaxDelay
    <3>1. v # stored => nowC - replaced[v] < Life + MaxDelay
      BY <1>a, <1>b, <2>3 DEF StillAt
    <3> HIDE DEF k, v
    <3> QED BY <1>0, <2>1, <2>3, <3>1, ServedEffect
  <2>5. /\ pcC' \in [Calls -> Cache!PC] /\ memC' \in [Calls -> CacheMem]
        /\ IsFiniteSet(CacheBusy)' /\ pcC'[c] = "idle" /\ memC'[c] = Cache!Nothing
        /\ \A d \in Calls \ {c} : pcC'[d] = pcC[d] /\ memC'[d] = memC[d]
    BY <1>0, <2>2, CacheNothing, CacheStepEffect DEF Cache!PC
  <2>6. e \in CacheEntry /\ e.version = v /\ e.until = nowC + Life
    BY <1>a, <1>b DEF CacheEntry
  <2>7. /\ StillAt(v, e.until - (Life + MaxDelay))
        /\ menuC.width = 1 => v >= due[k]
    BY <1>0, <1>a, <1>b, <2>1, <2>3, <2>6 DEF StillAt, CacheInTurn
  <2> HIDE DEF e, k, v
  <2>8. /\ cache' \in [Cache!Keys -> CacheEntry] /\ cache'[k] = e
        /\ \A j \in Cache!Keys \ {k} : cache'[j] = cache[j]
    BY <1>0, <2>1, <2>3, <2>6 DEF CacheTypes
  <2>9. CacheTypes'
    BY <1>0, <2>1, <2>4, <2>5, <2>8 DEF CacheTypes
  <2>10. CacheVersions'
    BY <1>0, <1>a, <2>1, <2>3, <2>5, <2>6, <2>8 DEF CacheVersions, Cache!Nothing
  <2>11. CacheRecent'
    BY <1>0, <1>a, <2>1, <2>4, <2>5, <2>6, <2>7, <2>8 DEF CacheRecent, StillAt
  <2>12. menuC.width = 1 => CacheInTurn'
    BY <1>0, <2>1, <2>4, <2>5, <2>6, <2>7, <2>8 DEF CacheInTurn, CacheBusy, Cache!Cached
  <2> QED BY <2>1, <2>9, <2>10, <2>11, <2>12 DEF CacheIInv
<1>5. ASSUME NEW c \in Calls, NEW w \in Cache!Writers, Cache!Commit(c, w) PROVE CacheIInv'
  <2>1. /\ UNCHANGED <<menuC, nowC, cache, due, served>>
        /\ startedC' = startedC + 1 /\ startedC < menuC.calls /\ stored' = stored + 1
        /\ replaced' = [v \in 0..stored |-> IF v = stored THEN nowC ELSE replaced[v]]
        /\ Cache!MayBegin(c) /\ pcC[c] = "idle"
    BY <1>5 DEF Cache!Commit, Cache!MayBegin
  <2>2. PICK l \in {"idle", "deleteAll"}, m \in CacheMem :
             CacheStep(c, l, m) /\ m.version <= stored'
    <3>1. CASE w = "try"
      <4>1. CacheStep(c, "idle", memC[c])
        BY <1>0, <1>5, <2>1, <3>1 DEF Cache!Commit, CacheStep, CacheTypes
      <4> QED BY <1>a, <1>b, <2>1, <4>1
    <3>2. CASE w # "try"
      <4> DEFINE m == [memC[c] EXCEPT !.version = stored', !.writer = w]
      <4>1. CacheStep(c, "deleteAll", m)
        BY <1>5, <3>2 DEF Cache!Commit, Cache!Goto, CacheStep
      <4>2. memC[c] \in CacheMem /\ stored' \in Nat
        BY <1>a, <1>b, <2>1
      <4>3. m \in CacheMem /\ m.version = stored'
        BY <4>2 DEF CacheMem
      <4> HIDE DEF m
      <4> QED BY <4>1, <4>2, <4>3
    <3> QED BY <3>1, <3>2
  <2>3. /\ pcC' \in [Calls -> Cache!PC] /\ memC' \in [Calls -> CacheMem]
        /\ IsFiniteSet(CacheBusy)' /\ pcC'[c] = l /\ memC'[c] = m
        /\ \A d \in Calls \ {c} : pcC'[d] = pcC[d] /\ memC'[d] = memC[d]
    BY <1>0, <2>2, CacheStepEffect DEF Cache!PC
  <2>4. /\ replaced' \in [0..(stored' - 1) -> Nat]
        /\ \A v \in 0..stored : replaced'[v] = IF v = stored THEN nowC ELSE replaced[v]
    BY <1>a, <1>b, <2>1
  <2>5. CacheTypes'
    BY <1>0, <1>a, <2>1, <2>3, <2>4 DEF CacheTypes
  <2>6. CacheVersions'
    BY <1>0, <1>a, <1>b, <2>1, <2>2, <2>3 DEF CacheVersions
  <2>7. CacheRecent'
    <3>1. ASSUME NEW v \in 0..stored, NEW t \in Int, t <= nowC, StillAt(v, t)
          PROVE  StillAt(v, t)'
      BY <1>a, <1>b, <2>1, <2>4, <3>1 DEF StillAt
    <3>2. ASSUME NEW k \in Cache!Keys
          PROVE  StillAt(cache[k].version, cache[k].until - (Life + MaxDelay))'
      <4>1. cache[k].until - (Life + MaxDelay) \in Int
            /\ cache[k].until - (Life + MaxDelay) <= nowC
        BY <1>0, <1>a, <1>b DEF CacheRecent
      <4>2. StillAt(cache[k].version, cache[k].until - (Life + MaxDelay))
        BY <1>0 DEF CacheRecent
      <4>3. StillAt(cache[k].version, cache[k].until - (Life + MaxDelay))
            => (cache[k].version = stored'
                \/ replaced'[cache[k].version] >= cache[k].until - (Life + MaxDelay))
        BY <1>b, <4>1, <3>1 DEF StillAt
      <4> QED BY <2>1, <4>2, <4>3 DEF StillAt
    <3>3. ASSUME NEW d \in Calls, pcC'[d] = "store"
          PROVE  /\ memC'[d].at <= nowC' /\ nowC' <= memC'[d].at + MaxDelay
                 /\ StillAt(memC[d].version, memC[d].at)'
      <4>1. d # c /\ pcC[d] = "store" /\ memC'[d] = memC[d]
        BY <2>2, <2>3, <3>3
      <4>2. /\ memC[d].at <= nowC /\ nowC <= memC[d].at + MaxDelay
            /\ StillAt(memC[d].version, memC[d].at)
        BY <1>0, <4>1 DEF CacheRecent
      <4>3. memC[d].version = stored' \/ replaced'[memC[d].version] >= memC[d].at
        BY <1>b, <4>2, <3>1 DEF StillAt
      <4> QED BY <2>1, <4>1, <4>2, <4>3 DEF StillAt
    <3> QED BY <1>0, <2>1, <3>2, <3>3 DEF CacheRecent
  <2>8. menuC.width = 1 => CacheInTurn'
    BY <1>0, <2>1, <2>2, <2>3, CacheAlone DEF CacheInTurn, CacheBusy, Cache!Cached
  <2> QED BY <2>1, <2>5, <2>6, <2>7, <2>8 DEF CacheIInv

<1>6. ASSUME NEW c \in Calls, Cache!DeleteAll(c) PROVE CacheIInv'
  <2>1. /\ UNCHANGED <<menuC, startedC, nowC, stored, replaced, served>>
        /\ pcC[c] = "deleteAll" /\ cache' = [cache EXCEPT !["all"] = Cache!NoEntry]
    BY <1>6 DEF Cache!DeleteAll
  <2>2. /\ cache' \in [Cache!Keys -> CacheEntry] /\ cache'["all"] = Cache!NoEntry
        /\ \A k \in Cache!Keys : cache'[k] \in {cache[k], Cache!NoEntry}
    BY <1>0, <2>1 DEF CacheTypes, Cache!NoEntry, CacheEntry, Cache!Keys
  <2>3. ~Cache!Cached("all")'
    BY <1>a, <2>1, <2>2 DEF Cache!Cached, Cache!NoEntry
  <2>4. CASE memC[c].writer = "credit"
    <3>1. CacheStep(c, "listKeys", memC[c]) /\ due' = due
      BY <1>0, <1>6, <2>4 DEF Cache!DeleteAll, Cache!Goto, CacheStep, CacheTypes
    <3>2. /\ due' \in [Cache!Keys -> Nat]
          /\ \A k \in Cache!Keys : due'[k] <= stored /\ due'[k] = due[k]
      BY <1>0, <3>1 DEF CacheTypes, CacheVersions
    <3> QED BY <2>1, <2>2, <2>3, <3>1, <3>2, CacheInvalidates
  <2>5. CASE memC[c].writer # "credit"
    <3>1. Cache!Done(c, {"all"})
      BY <1>6, <2>5 DEF Cache!DeleteAll
    <3>2. /\ due' \in [Cache!Keys -> Nat]
          /\ \A k \in Cache!Keys : due'[k] <= stored /\ (k \notin {"all"} => due'[k] = due[k])
          /\ CacheStep(c, "idle", Cache!Nothing)
      BY <1>0, <3>1, CacheDone
    <3> QED BY <2>1, <2>2, <2>3, <3>2, CacheInvalidates
  <2> QED BY <2>4, <2>5
<1>7. ASSUME NEW c \in Calls, Cache!ListKeys(c) PROVE CacheIInv'
  <2>1. /\ UNCHANGED <<menuC, startedC, nowC, stored, replaced, served, cache>>
        /\ pcC[c] = "listKeys"
    BY <1>7 DEF Cache!ListKeys
  <2>2. /\ cache' \in [Cache!Keys -> CacheEntry]
        /\ \A k \in Cache!Keys : cache'[k] \in {cache[k], Cache!NoEntry}
        /\ \A k : Cache!Cached(k)' <=> Cache!Cached(k)
    BY <1>0, <2>1 DEF CacheTypes, Cache!Cached
  <2>3. menuC.width = 1 => ~Cache!Cached("all")'
    BY <1>0, <2>1, <2>2 DEF CacheInTurn
  <2>4. CASE Cache!Cached("one")
    <3>1. CacheStep(c, "deleteOne", memC[c]) /\ due' = due
      BY <1>0, <1>7, <2>4 DEF Cache!ListKeys, Cache!Goto, CacheStep, CacheTypes
    <3>2. /\ due' \in [Cache!Keys -> Nat]
          /\ \A k \in Cache!Keys : due'[k] <= stored /\ due'[k] = due[k]
      BY <1>0, <3>1 DEF CacheTypes, CacheVersions
    <3> QED BY <2>1, <2>2, <2>3, <3>1, <3>2, CacheInvalidates
  <2>5. CASE ~Cache!Cached("one")
    <3>1. Cache!Done(c, Cache!Keys)
      BY <1>7, <2>5 DEF Cache!ListKeys
    <3>2. /\ due' \in [Cache!Keys -> Nat] /\ \A k \in Cache!Keys : due'[k] <= stored
          /\ CacheStep(c, "idle", Cache!Nothing)
      BY <1>0, <3>1, CacheDone
    <3>3. menuC.width = 1 => \A k \in Cache!Keys : ~Cache!Cached(k)'
      BY <2>2, <2>3, <2>5 DEF Cache!Keys
    <3> QED BY <2>1, <2>2, <2>3, <3>2, <3>3, CacheInvalidates
  <2> QED BY <2>4, <2>5
<1>8. ASSUME NEW c \in Calls, Cache!DeleteOne(c) PROVE CacheIInv'
  <2>1. /\ UNCHANGED <<menuC, startedC, nowC, stored, replaced, served>>
        /\ pcC[c] = "deleteOne" /\ cache' = [cache EXCEPT !["one"] = Cache!NoEntry]
        /\ Cache!Done(c, Cache!Keys)
    BY <1>8 DEF Cache!DeleteOne
  <2>2. /\ cache' \in [Cache!Keys -> CacheEntry] /\ cache'["one"] = Cache!NoEntry
        /\ cache'["all"] = cache["all"]
        /\ \A k \in Cache!Keys : cache'[k] \in {cache[k], Cache!NoEntry}
    BY <1>0, <2>1 DEF CacheTypes, Cache!NoEntry, CacheEntry, Cache!Keys
  <2>3. menuC.width = 1 => \A k \in Cache!Keys : ~Cache!Cached(k)'
    BY <1>0, <1>a, <2>1, <2>2 DEF CacheInTurn, Cache!Cached, Cache!NoEntry, Cache!Keys
  <2>4. /\ due' \in [Cache!Keys -> Nat] /\ \A k \in Cache!Keys : due'[k] <= stored
        /\ CacheStep(c, "idle", Cache!Nothing)
    BY <1>0, <2>1, CacheDone
  <2> QED BY <2>1, <2>2, <2>3, <2>4, CacheInvalidates
<1>9. ASSUME NEW c \in Calls, Cache!Break(c) PROVE CacheIInv'
  <2>1. /\ UNCHANGED <<menuC, startedC, nowC, stored, replaced, cache, due, served>>
        /\ pcC[c] # "idle" /\ CacheStep(c, "idle", Cache!Nothing)
    BY <1>9 DEF Cache!Break, Cache!Return, Cache!Goto, CacheStep
  <2>2. /\ cache' \in [Cache!Keys -> CacheEntry] /\ due' \in [Cache!Keys -> Nat]
        /\ \A k \in Cache!Keys : due'[k] <= stored /\ due'[k] = due[k]
    BY <1>0, <2>1 DEF CacheTypes, CacheVersions
  <2> QED BY <2>1, <2>2, CacheInvalidates
<1>10. CASE Cache!Tick
  <2>1. /\ UNCHANGED <<menuC, startedC, stored, replaced, cache, pcC, memC, due, served>>
        /\ nowC < MaxTime /\ nowC' = nowC + 1
        /\ \A c \in Calls : pcC[c] = "store" => nowC < memC[c].at + MaxDelay
    BY <1>10 DEF Cache!Tick
  <2>2. CacheTypes' /\ CacheVersions'
    BY <1>0, <1>a, <2>1 DEF CacheTypes, CacheVersions, CacheBusy
  <2>3. CacheRecent'
    BY <1>0, <1>a, <1>b, <2>1 DEF CacheRecent, StillAt
  <2>4. menuC.width = 1 => CacheInTurn'
    <3>1. \A k \in Cache!Keys : Cache!Cached(k)' => Cache!Cached(k)
      BY <1>a, <1>b, <2>1 DEF Cache!Cached
    <3> QED BY <1>0, <2>1, <3>1 DEF CacheInTurn, CacheBusy, Cache!Keys
  <2> QED BY <2>1, <2>2, <2>3, <2>4 DEF CacheIInv
<1>11. CASE UNCHANGED varsC
  BY <1>11 DEF varsC, CacheIInv, CacheTypes, CacheVersions, CacheRecent, CacheInTurn, CacheBusy,
               StillAt, Cache!Cached
<1> QED BY <1>1, <1>2, <1>3, <1>4, <1>5, <1>6, <1>7, <1>8, <1>9, <1>10, <1>11 DEF Cache!Next

\* getUserBalances and getUserBalance: what is shown was the balance less than
\* CACHE_TTL and one read's delay ago, whoever forgets to invalidate, breaks off or
\* is overtaken; one request at a time, no invalidated balance comes back.
THEOREM BalancesAreRecent == PlatformSpec => []ServedIsRecent
<1>1. PlatformInit => CacheIInv
  BY CacheInit DEF PlatformInit
<1>2. CacheIInv /\ [PlatformNext]_platformVars => CacheIInv'
  BY CacheNext, PartSteps
<1>3. CacheIInv => ServedIsRecent
  BY DEF CacheIInv, CacheRecent, CacheInTurn, ServedIsRecent, Cache!ServedIsRecent
<1> QED BY <1>1, <1>2, <1>3, PTL DEF PlatformSpec

-----------------------------------------------------------------------------
(***************************************************************************)
(* KYC submissions.                                                        *)
(***************************************************************************)

KycBusy == {c \in Calls : pcK[c] # "idle"}
Submission == [status : Submissions!Status, verified : BOOLEAN, number : Numbers,
               files : SUBSET Submissions!File]
KycMem == [n : Nat, number : Numbers \cup {<<>>}, files : SUBSET Submissions!File,
           next : Nat \ {0}]

KycTypes ==
    /\ menuK \in KycScenarios
    /\ startedK \in 0..menuK.calls
    /\ rowsK \in Seq(Submission)
    /\ storedK \subseteq Submissions!File /\ asking \subseteq DOMAIN rowsK
    /\ pcK \in [Calls -> Submissions!PC] /\ memK \in [Calls -> KycMem]
    /\ reviewed \in BOOLEAN
    /\ IsFiniteSet(KycBusy)

\* A submission's files are numbered from 1, without a gap.
Numbered(files, k) ==
    /\ Cardinality(files) = k
    /\ \A f \in files : f.n \in 1..k
    /\ \A i \in 1..k : \E f \in files : f.n = i
    /\ \A f, g \in files : f.n = g.n => f = g

\* What a call has checked, scanned and uploaded when it comes to a step.
KycCall(c) ==
    LET m == memK[c]
    IN /\ m.number \in Numbers
       /\ \E k \in 3..4 : Numbered(m.files, k) /\ m.next <= k
       /\ pcK[c] = "findApproved" => m.next = 1
       /\ pcK[c] # "findApproved" => Submissions!Validate(m.number)
       /\ menuK.scanner = "on" =>
            /\ pcK[c] = "scan" => \A f \in m.files : f.n < m.next => f.clean
            /\ pcK[c] \in {"upload", "insert"} => \A f \in m.files : f.clean
       /\ pcK[c] = "upload" => \A f \in m.files : f.n < m.next => f \in storedK
       /\ pcK[c] = "insert" => m.files \subseteq storedK

KycChecked ==
    /\ \A c \in KycBusy : KycCall(c)
    /\ \A c \in Calls \ KycBusy : memK[c].next = 1
    /\ \A i \in DOMAIN rowsK :
         rowsK[i].files \subseteq storedK /\ Submissions!Validate(rowsK[i].number)
    /\ menuK.scanner = "on" => \A f \in storedK : f.clean

\* A submission that is under way counts as the PENDING row it may become.
KycPending == {i \in DOMAIN rowsK : rowsK[i].status = "PENDING"}
KycRoom ==
    ~reviewed =>
      /\ asking \subseteq KycPending
      /\ Cardinality(KycPending) + Cardinality(KycBusy) <= menuK.width

KycIInv == KycTypes /\ KycChecked /\ KycRoom

-----------------------------------------------------------------------------
(* The identity number                                                     *)

\* JavaScript's remainder, corrected where it is negative, is the remainder.
LEMMA TenthIs ==
    ASSUME NEW d, NEW o \in Int, NEW e \in Int,
           Submissions!SumOdd(d) = o, Submissions!SumEven(d) = e
    PROVE  /\ Submissions!Tenth(d) \in 0..9
           /\ \E q \in Int : 7 * o - e = 10 * q + Submissions!Tenth(d)
<1> DEFINE a == o * 7 - e
<1>1. Submissions!Tenth(d) = a % 10
  <2>1. a \in Int
    OBVIOUS
  <2>2. CASE a >= 0
    <3>1. Submissions!Remainder(a, 10) = a % 10 /\ a % 10 >= 0
      BY <2>1, <2>2 DEF Submissions!Remainder
    <3> QED BY <3>1 DEF Submissions!Tenth
  <2>3. CASE a < 0
    <3>1. Submissions!Remainder(a, 10) = -((-a) % 10) /\ (-a) % 10 \in 0..9
      BY <2>1, <2>3 DEF Submissions!Remainder
    <3>2. CASE (-a) % 10 = 0
      BY <2>1, <3>1, <3>2 DEF Submissions!Tenth
    <3>3. CASE (-a) % 10 # 0
      <4> DEFINE r == (-a) % 10
      <4>1. Submissions!Tenth(d) = Submissions!Remainder(-r + 10, 10)
        BY <3>1, <3>3 DEF Submissions!Tenth
      <4>2. Submissions!Remainder(-r + 10, 10) = 10 - r
        BY <3>1, <3>3 DEF Submissions!Remainder
      <4>3. a % 10 = 10 - r
        BY <2>1, <3>1, <3>3
      <4> QED BY <4>1, <4>2, <4>3
    <3> QED BY <3>1, <3>2, <3>3
  <2> QED BY <2>1, <2>2, <2>3
<1>2. a % 10 \in 0..9 /\ \E q \in Int : a = 10 * q + (a % 10)
  OBVIOUS
<1> QED BY <1>1, <1>2

\* A summand that is taken once or seven times shows in the last digit.
LEMMA OddDigitShows ==
    ASSUME NEW o \in Int, NEW e \in Int, NEW p \in Int, NEW q \in Int, NEW z \in Int,
           NEW x \in 0..9, NEW y \in 0..9,
           7 * o - e = 10 * p + z, 7 * (o + x - y) - e = 10 * q + z
    PROVE  x = y
<1>1. 7 * (x - y) = 10 * (q - p)
  OBVIOUS
<1> QED BY <1>1

LEMMA EvenDigitShows ==
    ASSUME NEW o \in Int, NEW e \in Int, NEW p \in Int, NEW q \in Int, NEW z \in Int,
           NEW x \in 0..9, NEW y \in 0..9,
           7 * o - e = 10 * p + z, 7 * o - (e + x - y) = 10 * q + z
    PROVE  x = y
<1>1. y - x = 10 * (q - p)
  OBVIOUS
<1> QED BY <1>1

\* The digits of a typed number.
LEMMA DigitOf ==
    ASSUME NEW S, NEW s \in Seq(S)
    PROVE  \A j \in 1..Len(s) : s[j] \in S
OBVIOUS

\* tc-kimlik-validator.ts: whichever digit of a valid number is mistyped, the
\* number is not valid any more.
LEMMA DigitsAreChecked == Submissions!NoticesOneDigit
<1> SUFFICES ASSUME NEW d \in Numbers, NEW i \in 1..11, NEW v \in 0..9,
                    Submissions!Validate(d), v # d[i],
                    Submissions!Validate([d EXCEPT ![i] = v])
             PROVE  FALSE
  BY DEF Submissions!NoticesOneDigit
<1>1. d \in Seq(0..9) /\ Len(d) = 11
  BY KycAssumption DEF Submissions!Validate
<1> DEFINE e == [d EXCEPT ![i] = v]
<1>2. PICK d1, d2, d3, d4, d5, d6, d7, d8, d9, d10, d11 \in 0..9 :
           /\ d[1] = d1 /\ d[2] = d2 /\ d[3] = d3 /\ d[4] = d4 /\ d[5] = d5 /\ d[6] = d6
           /\ d[7] = d7 /\ d[8] = d8 /\ d[9] = d9 /\ d[10] = d10 /\ d[11] = d11
  <2>1. \A j \in 1..11 : d[j] \in 0..9
    BY <1>1, DigitOf, Zenon
  <2>2. /\ d[1] \in 0..9 /\ d[2] \in 0..9 /\ d[3] \in 0..9 /\ d[4] \in 0..9
        /\ d[5] \in 0..9 /\ d[6] \in 0..9 /\ d[7] \in 0..9 /\ d[8] \in 0..9
        /\ d[9] \in 0..9 /\ d[10] \in 0..9 /\ d[11] \in 0..9
    BY <2>1
  <2> QED BY <2>2, Zenon
<1>v. Submissions!Validate(d) /\ Submissions!Validate(e)
  OBVIOUS
<1>e. /\ e[1] = (IF i = 1 THEN v ELSE d1) /\ e[2] = (IF i = 2 THEN v ELSE d2)
      /\ e[3] = (IF i = 3 THEN v ELSE d3) /\ e[4] = (IF i = 4 THEN v ELSE d4)
      /\ e[5] = (IF i = 5 THEN v ELSE d5) /\ e[6] = (IF i = 6 THEN v ELSE d6)
      /\ e[7] = (IF i = 7 THEN v ELSE d7) /\ e[8] = (IF i = 8 THEN v ELSE d8)
      /\ e[9] = (IF i = 9 THEN v ELSE d9) /\ e[10] = (IF i = 10 THEN v ELSE d10)
      /\ e[11] = (IF i = 11 THEN v ELSE d11)
  BY <1>1, <1>2
<1> HIDE DEF e
<1>o. /\ Submissions!SumOdd(d) = d1 + d3 + d5 + d7 + d9
      /\ Submissions!SumEven(d) = d2 + d4 + d6 + d8
  BY <1>2 DEF Submissions!SumOdd, Submissions!SumEven
<1>3. /\ Submissions!SumOdd(d) \in Int /\ Submissions!SumEven(d) \in Int
      /\ Submissions!SumOdd(e) \in Int /\ Submissions!SumEven(e) \in Int
  BY <1>2, <1>e DEF Submissions!SumOdd, Submissions!SumEven
<1>4. PICK p \in Int : 7 * Submissions!SumOdd(d) - Submissions!SumEven(d) = 10 * p + d[10]
  BY <1>3, <1>v, TenthIs DEF Submissions!Validate
<1>5. PICK q \in Int : 7 * Submissions!SumOdd(e) - Submissions!SumEven(e) = 10 * q + e[10]
  BY <1>3, <1>v, TenthIs DEF Submissions!Validate
<1>6. /\ (Submissions!SumOdd(d) + Submissions!SumEven(d) + d[10]) % 10 = d[11]
      /\ (Submissions!SumOdd(e) + Submissions!SumEven(e) + e[10]) % 10 = e[11]
  BY <1>v DEF Submissions!Validate
<1>7. CASE i \in {1, 3, 5, 7, 9}
  <2>1. /\ Submissions!SumOdd(e) = Submissions!SumOdd(d) + v - d[i]
        /\ Submissions!SumEven(e) = Submissions!SumEven(d) /\ e[10] = d[10]
    BY <1>2, <1>e, <1>7 DEF Submissions!SumOdd, Submissions!SumEven
  <2>2. d[i] \in 0..9 /\ d[10] \in Int
    BY <1>2, <1>7
  <2>3. 7 * (Submissions!SumOdd(d) + v - d[i]) - Submissions!SumEven(d) = 10 * q + d[10]
    BY <1>5, <2>1
  <2> QED BY <1>3, <1>4, <2>2, <2>3, OddDigitShows
<1>8. CASE i \in {2, 4, 6, 8}
  <2>1. /\ Submissions!SumEven(e) = Submissions!SumEven(d) + v - d[i]
        /\ Submissions!SumOdd(e) = Submissions!SumOdd(d) /\ e[10] = d[10]
    BY <1>2, <1>e, <1>8 DEF Submissions!SumOdd, Submissions!SumEven
  <2>2. d[i] \in 0..9 /\ d[10] \in Int
    BY <1>2, <1>8
  <2>3. 7 * Submissions!SumOdd(d) - (Submissions!SumEven(d) + v - d[i]) = 10 * q + d[10]
    BY <1>5, <2>1
  <2> QED BY <1>3, <1>4, <2>2, <2>3, EvenDigitShows
<1>9. CASE i \in {10, 11}
  <2>1. /\ Submissions!SumOdd(e) = Submissions!SumOdd(d)
        /\ Submissions!SumEven(e) = Submissions!SumEven(d)
    BY <1>2, <1>e, <1>9 DEF Submissions!SumOdd, Submissions!SumEven
  <2>2. CASE i = 10
    <3>1. d[10] - v = 10 * (q - p)
      BY <1>2, <1>e, <1>3, <1>4, <1>5, <2>1, <2>2
    <3> QED BY <1>2, <1>e, <2>2, <3>1
  <2>3. CASE i = 11
    BY <1>2, <1>e, <1>6, <2>1, <2>3
  <2> QED BY <1>9, <2>2, <2>3
<1> QED BY <1>7, <1>8, <1>9

-----------------------------------------------------------------------------
(* The submissions                                                         *)

\* A step of call c.
KycStep(c, l, m) == pcK' = [pcK EXCEPT ![c] = l] /\ memK' = [memK EXCEPT ![c] = m]

LEMMA KycStepEffect ==
    ASSUME KycTypes, NEW c \in Calls, NEW l \in Submissions!PC, NEW m \in KycMem,
           KycStep(c, l, m)
    PROVE  /\ pcK' \in [Calls -> Submissions!PC] /\ memK' \in [Calls -> KycMem]
           /\ pcK'[c] = l /\ memK'[c] = m
           /\ \A d \in Calls \ {c} : pcK'[d] = pcK[d] /\ memK'[d] = memK[d]
           /\ IsFiniteSet(KycBusy)'
           /\ pcK[c] = "idle" => Cardinality(KycBusy)' <= Cardinality(KycBusy) + 1
           /\ pcK[c] # "idle" => Cardinality(KycBusy)' <= Cardinality(KycBusy)
           /\ pcK[c] # "idle" /\ l = "idle" =>
                Cardinality(KycBusy)' = Cardinality(KycBusy) - 1
<1>1. /\ pcK \in [Calls -> Submissions!PC] /\ memK \in [Calls -> KycMem]
      /\ IsFiniteSet(KycBusy)
  BY DEF KycTypes
<1>2. /\ pcK' \in [Calls -> Submissions!PC] /\ memK' \in [Calls -> KycMem]
      /\ pcK'[c] = l /\ memK'[c] = m
      /\ \A d \in Calls \ {c} : pcK'[d] = pcK[d] /\ memK'[d] = memK[d]
  BY <1>1 DEF KycStep
<1>3. /\ IsFiniteSet(KycBusy \cup {c}) /\ IsFiniteSet(KycBusy \ {c})
      /\ Cardinality(KycBusy) \in Nat /\ Cardinality(KycBusy \cup {c}) \in Nat
      /\ Cardinality(KycBusy \cup {c}) =
           IF c \in KycBusy THEN Cardinality(KycBusy) ELSE Cardinality(KycBusy) + 1
      /\ Cardinality(KycBusy \ {c}) =
           IF c \in KycBusy THEN Cardinality(KycBusy) - 1 ELSE Cardinality(KycBusy)
  BY <1>1, FS_AddElement, FS_RemoveElement, FS_CardinalityType
<1>4. c \in KycBusy <=> pcK[c] # "idle"
  BY DEF KycBusy
<1>5. CASE l = "idle"
  <2>1. KycBusy' = KycBusy \ {c}
    BY <1>2, <1>5 DEF KycBusy
  <2> QED BY <1>2, <1>3, <1>4, <1>5, <2>1
<1>6. CASE l # "idle"
  <2>1. KycBusy' = KycBusy \cup {c}
    BY <1>2, <1>6 DEF KycBusy
  <2> QED BY <1>2, <1>3, <1>4, <1>6, <2>1
<1> QED BY <1>5, <1>6

LEMMA KycNothing == Submissions!Nothing \in KycMem /\ Submissions!Nothing.next = 1
BY DEF Submissions!Nothing, KycMem, Submissions!File

LEMMA PendingFinite ==
    ASSUME KycTypes
    PROVE  IsFiniteSet(KycPending) /\ Cardinality(KycPending) \in Nat
<1>1. KycPending \subseteq 1..Len(rowsK) /\ Len(rowsK) \in Nat
  BY DEF KycTypes, KycPending
<1>2. IsFiniteSet(1..Len(rowsK))
  BY <1>1, FS_Interval
<1> QED BY <1>1, <1>2, FS_Subset, FS_CardinalityType

LEMMA KycInit == Submissions!Init => KycIInv
<1> SUFFICES ASSUME Submissions!Init PROVE KycIInv
  OBVIOUS
<1>0. menuK \in KycScenarios /\ menuK.calls \in Nat /\ menuK.width \in Nat
  BY KycAssumption DEF Submissions!Init
<1>1. KycBusy = {} /\ KycPending = {}
  BY DEF Submissions!Init, KycBusy, KycPending
<1>2. /\ pcK \in [Calls -> Submissions!PC] /\ memK \in [Calls -> KycMem]
      /\ \A c \in Calls : memK[c].next = 1
  BY KycNothing DEF Submissions!Init, Submissions!PC
<1>3. KycTypes
  <2>1. IsFiniteSet(KycBusy)
    BY <1>1, FS_EmptySet
  <2>2. rowsK = <<>> /\ startedK = 0 /\ reviewed = FALSE /\ storedK = {} /\ asking = {}
    BY DEF Submissions!Init
  <2>3. rowsK \in Seq(Submission)
    BY <2>2
  <2>4. startedK \in 0..menuK.calls
    BY <1>0, <2>2
  <2>5. reviewed \in BOOLEAN
    BY <2>2
  <2> QED BY <1>0, <1>2, <2>1, <2>2, <2>3, <2>4, <2>5 DEF KycTypes
<1>4. KycChecked
  BY <1>1, <1>2 DEF Submissions!Init, KycChecked
<1>5. KycRoom
  BY <1>0, <1>1, FS_EmptySet DEF Submissions!Init, KycRoom
<1> QED BY <1>3, <1>4, <1>5 DEF KycIInv

\* What another call has done stays done.
LEMMA KycOthers ==
    ASSUME KycChecked, menuK' = menuK, storedK \subseteq storedK', NEW d \in Calls,
           pcK[d] # "idle", pcK'[d] = pcK[d], memK'[d] = memK[d]
    PROVE  KycCall(d)'
<1>1. KycCall(d)
  BY DEF KycChecked, KycBusy
<1> QED BY <1>1 DEF KycCall

\* A step of one submission that writes no row.
LEMMA KycQuiet ==
    ASSUME KycIInv, NEW c \in Calls, NEW l \in Submissions!PC, NEW m \in KycMem,
           KycStep(c, l, m), UNCHANGED <<menuK, rowsK, asking, reviewed>>,
           startedK' \in 0..menuK.calls,
           storedK \subseteq storedK', storedK' \subseteq Submissions!File,
           menuK.scanner = "on" => \A f \in storedK' : f.clean,
           l # "idle" => KycCall(c)', l = "idle" => m.next = 1,
           pcK[c] = "idle" => KycPending = {} /\ Cardinality(KycBusy) < menuK.width
    PROVE  KycIInv'
<1>0. KycTypes /\ KycChecked /\ KycRoom
  BY DEF KycIInv
<1>1. /\ pcK' \in [Calls -> Submissions!PC] /\ memK' \in [Calls -> KycMem]
      /\ pcK'[c] = l /\ memK'[c] = m
      /\ \A d \in Calls \ {c} : pcK'[d] = pcK[d] /\ memK'[d] = memK[d]
      /\ IsFiniteSet(KycBusy)'
      /\ pcK[c] = "idle" => Cardinality(KycBusy)' <= Cardinality(KycBusy) + 1
      /\ pcK[c] # "idle" => Cardinality(KycBusy)' <= Cardinality(KycBusy)
  BY <1>0, KycStepEffect
<1>2. KycTypes'
  BY <1>0, <1>1 DEF KycTypes
<1>3. KycChecked'
  <2>1. ASSUME NEW d \in KycBusy' PROVE KycCall(d)'
    <3>1. CASE d = c
      BY <1>1, <2>1, <3>1 DEF KycBusy
    <3>2. CASE d # c
      BY <1>0, <1>1, <2>1, <3>2, KycOthers DEF KycBusy
    <3> QED BY <3>1, <3>2
  <2>2. \A d \in (Calls \ KycBusy)' : memK'[d].next = 1
    BY <1>0, <1>1 DEF KycChecked, KycBusy
  <2> QED BY <1>0, <2>1, <2>2 DEF KycChecked
<1>4. KycRoom'
  <2>1. KycPending' = KycPending
    BY DEF KycPending
  <2>2. /\ Cardinality(KycBusy) \in Nat /\ Cardinality(KycBusy)' \in Nat
        /\ Cardinality(KycPending) \in Nat /\ menuK.width \in Nat
        /\ KycPending = {} => Cardinality(KycPending) = 0
    BY <1>0, <1>1, PendingFinite, FS_CardinalityType, FS_EmptySet, KycAssumption DEF KycTypes
  <2> QED BY <1>0, <1>1, <2>1, <2>2 DEF KycRoom
<1> QED BY <1>2, <1>3, <1>4 DEF KycIInv

\* The file that is next, of a submission that is under way.
LEMMA TheFileIs ==
    ASSUME KycTypes, NEW c \in Calls, KycCall(c)
    PROVE  /\ Submissions!TheFile(c) \in memK[c].files
           /\ Submissions!TheFile(c).n = memK[c].next
           /\ \A f \in memK[c].files : f.n = memK[c].next => f = Submissions!TheFile(c)
<1>1. PICK k \in 3..4 : Numbered(memK[c].files, k) /\ memK[c].next <= k
  BY DEF KycCall
<1>2. memK[c].next \in 1..k
  BY <1>1 DEF KycTypes, KycMem
<1>3. \E f \in memK[c].files : f.n = memK[c].next
  BY <1>1, <1>2 DEF Numbered
<1>4. /\ Submissions!TheFile(c) \in memK[c].files
      /\ Submissions!TheFile(c).n = memK[c].next
  BY <1>3 DEF Submissions!TheFile
<1> QED BY <1>1, <1>4 DEF Numbered

\* One more file is dealt with.
LEMMA NextFileIs ==
    ASSUME KycTypes, NEW c \in Calls, KycCall(c), NEW l, Submissions!NextFile(c, l)
    PROVE  \/ /\ \A f \in memK[c].files : f.n < memK[c].next \/ f = Submissions!TheFile(c)
              /\ KycStep(c, l, [memK[c] EXCEPT !.next = 1])
           \/ /\ memK[c].next + 1 <= Cardinality(memK[c].files)
              /\ KycStep(c, pcK[c], [memK[c] EXCEPT !.next = memK[c].next + 1])
<1>1. PICK k \in 3..4 : Numbered(memK[c].files, k) /\ memK[c].next <= k
  BY DEF KycCall
<1>2. memK[c].next \in 1..k /\ Cardinality(memK[c].files) = k
  BY <1>1 DEF KycTypes, KycMem, Numbered
<1>3. Submissions!AtLast(c) <=> memK[c].next = k
  BY <1>2, Counts DEF Submissions!AtLast
<1>4. CASE memK[c].next = k
  <2>1. KycStep(c, l, [memK[c] EXCEPT !.next = 1])
    BY <1>3, <1>4 DEF Submissions!NextFile, Submissions!Goto, KycStep
  <2>2. \A f \in memK[c].files : f.n < memK[c].next \/ f = Submissions!TheFile(c)
    BY <1>1, <1>2, <1>4, TheFileIs DEF Numbered
  <2> QED BY <2>1, <2>2
<1>5. CASE memK[c].next # k
  <2>1. pcK' = pcK /\ memK' = [memK EXCEPT ![c].next = memK[c].next + 1]
    BY <1>3, <1>5 DEF Submissions!NextFile
  <2>2. KycStep(c, pcK[c], [memK[c] EXCEPT !.next = memK[c].next + 1])
    BY <2>1 DEF KycStep, KycTypes
  <2> QED BY <1>2, <1>5, <2>2
<1> QED BY <1>4, <1>5


\* The files of a new submission.
LEMMA FilesAreNumbered ==
    ASSUME NEW o \in Nat, NEW d, NEW k \in 3..4, NEW files,
           files = {[of |-> o, n |-> i, clean |-> i # d] : i \in 1..k}
    PROVE  files \subseteq Submissions!File /\ Numbered(files, k)
<1> DEFINE r(i) == [of |-> o, n |-> i, clean |-> i # d]
           F == [i \in 1..k |-> r(i)]
<1>1. \A i \in 1..k : r(i) \in Submissions!File /\ r(i).n = i
  BY DEF Submissions!File
<1>2. files = {r(i) : i \in 1..k}
  OBVIOUS
<1> HIDE DEF r
<1>3. files \subseteq Submissions!File /\ \A f \in files : f.n \in 1..k
  BY <1>1, <1>2
<1>4. \A i \in 1..k : \E f \in files : f.n = i
  BY <1>1, <1>2
<1>5. \A f, g \in files : f.n = g.n => f = g
  BY <1>1, <1>2
<1>6. F \in Surjection(1..k, files)
  BY <1>2 DEF Surjection
<1>7. F \in Injection(1..k, files)
  <2>1. \A i, j \in 1..k : F[i] = F[j] => i = j
    BY <1>1
  <2> QED BY <1>6, <2>1 DEF Injection, IsInjective, Surjection
<1>8. IsFiniteSet(1..k) /\ Cardinality(1..k) = k
  BY FS_Interval
<1>9. Cardinality(files) = k
  <2> HIDE DEF F
  <2> QED BY <1>6, <1>7, <1>8, FS_Surjection
<1> QED BY <1>3, <1>4, <1>5, <1>9 DEF Numbered

LEMMA KycNext == KycIInv /\ [Submissions!Next]_varsK => KycIInv'
<1> SUFFICES ASSUME KycIInv, [Submissions!Next]_varsK PROVE KycIInv'
  OBVIOUS
<1>0. KycTypes /\ KycChecked /\ KycRoom
  BY DEF KycIInv
<1>a. menuK.calls \in Nat /\ menuK.width \in Nat /\ startedK \in Nat
  BY <1>0, KycAssumption DEF KycTypes
<1>b. \A c \in Calls : pcK[c] # "idle" => KycCall(c) /\ memK[c] \in KycMem
  BY <1>0 DEF KycTypes, KycChecked, KycBusy
\* A call that ends.
<1>c. ASSUME NEW c \in Calls, pcK[c] # "idle", Submissions!Return(c),
             UNCHANGED <<menuK, startedK, rowsK, storedK, asking, reviewed>>
      PROVE  KycIInv'
  <2>1. KycStep(c, "idle", Submissions!Nothing)
    BY <1>c DEF Submissions!Return, Submissions!Goto, KycStep
  <2>2. /\ startedK' \in 0..menuK.calls /\ storedK' \subseteq Submissions!File
        /\ menuK.scanner = "on" => \A f \in storedK' : f.clean
    BY <1>0, <1>c DEF KycTypes, KycChecked
  <2>3. /\ "idle" \in Submissions!PC /\ storedK \subseteq storedK'
        /\ Submissions!Nothing \in KycMem /\ Submissions!Nothing.next = 1
    BY <1>c, KycNothing DEF Submissions!PC
  <2>4. UNCHANGED <<menuK, rowsK, asking, reviewed>>
    BY <1>c
  <2> QED BY <1>c, <2>1, <2>2, <2>3, <2>4, KycQuiet
<1>1. ASSUME NEW c \in Calls, NEW number \in Numbers, NEW dirty \in {0, 1, 4},
             NEW proof \in {0, 1}, Submissions!SubmitKyc(c, number, dirty, proof)
      PROVE  KycIInv'
  <2> DEFINE k == Submissions!RequiredFiles + proof
             files == {[of |-> startedK', n |-> i, clean |-> i # dirty] : i \in 1..k}
             m == [n |-> startedK', number |-> number, next |-> 1, files |-> files]
  <2>1. /\ UNCHANGED <<menuK, rowsK, storedK, asking, reviewed>>
        /\ startedK' = startedK + 1 /\ startedK < menuK.calls
        /\ KycStep(c, "findApproved", m) /\ pcK[c] = "idle"
    BY <1>1 DEF Submissions!SubmitKyc, Submissions!Begin, Submissions!Goto, KycStep
  <2>0. Cardinality(KycBusy) < menuK.width /\ KycPending = {}
    <3>1. Submissions!Cardinality(KycBusy) < menuK.width
      BY <1>1 DEF Submissions!SubmitKyc, Submissions!Begin, KycBusy
    <3>2. KycPending = {}
      BY <1>1 DEF Submissions!SubmitKyc, Submissions!Has, KycPending
    <3> QED BY <3>1, <3>2, Counts
  <2>2. k \in 3..4 /\ startedK' \in 0..menuK.calls /\ startedK' \in Nat
    BY <1>a, <2>1 DEF Submissions!RequiredFiles
  <2>3. files \subseteq Submissions!File /\ Numbered(files, k)
    BY <2>2, FilesAreNumbered
  <2>6. m \in KycMem /\ m.number = number /\ m.next = 1 /\ m.files = files
    <3> HIDE DEF files
    <3> QED BY <2>2, <2>3 DEF KycMem
  <2> HIDE DEF m, files, k
  <2>7. KycCall(c)'
    <3>1. pcK'[c] = "findApproved" /\ memK'[c] = m
      BY <1>0, <2>1, <2>6, KycStepEffect DEF Submissions!PC
    <3> QED BY <2>2, <2>3, <2>6, <3>1 DEF KycCall
  <2>8. /\ storedK' \subseteq Submissions!File /\ storedK \subseteq storedK'
        /\ menuK.scanner = "on" => \A f \in storedK' : f.clean
        /\ "findApproved" \in Submissions!PC
    BY <1>0, <2>1 DEF KycTypes, KycChecked, Submissions!PC
  <2> QED BY <2>0, <2>1, <2>2, <2>6, <2>7, <2>8, KycQuiet
<1>2. ASSUME NEW c \in Calls, Submissions!FindApproved(c) PROVE KycIInv'
  <2>1. /\ UNCHANGED <<menuK, startedK, rowsK, storedK, asking, reviewed>>
        /\ pcK[c] = "findApproved"
    BY <1>2 DEF Submissions!FindApproved
  <2>2. CASE Submissions!Has("APPROVED") \/ ~Submissions!Validate(memK[c].number)
    BY <1>2, <1>c, <2>1, <2>2 DEF Submissions!FindApproved
  <2>3. CASE ~(Submissions!Has("APPROVED") \/ ~Submissions!Validate(memK[c].number))
    <3>1. KycStep(c, "scan", memK[c])
      BY <1>0, <1>2, <2>3 DEF Submissions!FindApproved, Submissions!Goto, KycStep, KycTypes
    <3>2. pcK'[c] = "scan" /\ memK'[c] = memK[c]
      BY <1>0, <1>b, <2>1, <3>1, KycStepEffect DEF Submissions!PC
    <3>3. KycCall(c) /\ memK[c].next = 1
      BY <1>b, <2>1 DEF KycCall
    <3>4. \A f \in memK[c].files : ~(f.n < 1)
      BY <3>3 DEF KycCall, Numbered
    <3>5. KycCall(c)'
      BY <2>1, <2>3, <3>2, <3>3, <3>4 DEF KycCall
    <3>6. /\ startedK' \in 0..menuK.calls /\ storedK' \subseteq Submissions!File
          /\ menuK.scanner = "on" => \A f \in storedK' : f.clean
          /\ storedK \subseteq storedK'
      BY <1>0, <2>1 DEF KycTypes, KycChecked
    <3>7. /\ "scan" \in Submissions!PC /\ memK[c] \in KycMem /\ pcK[c] # "idle"
          /\ UNCHANGED <<menuK, rowsK, asking, reviewed>>
      BY <1>b, <2>1 DEF Submissions!PC
    <3> QED BY <3>1, <3>5, <3>6, <3>7, KycQuiet
  <2> QED BY <2>2, <2>3
<1>3. ASSUME NEW c \in Calls, Submissions!Scan(c) PROVE KycIInv'
  <2>1. /\ UNCHANGED <<menuK, startedK, rowsK, storedK, asking, reviewed>>
        /\ pcK[c] = "scan"
    BY <1>3 DEF Submissions!Scan
  <2> DEFINE Bad == \/ menuK.scanner = "off"
                    \/ menuK.scanner = "on" /\ ~Submissions!TheFile(c).clean
  <2>2. CASE Bad
    BY <1>3, <1>c, <2>1, <2>2 DEF Submissions!Scan
  <2>3. CASE ~Bad
    <3>1. Submissions!NextFile(c, "upload") /\ KycCall(c)
      BY <1>3, <1>b, <2>1, <2>3 DEF Submissions!Scan
    <3>2. PICK k \in 3..4 : Numbered(memK[c].files, k) /\ memK[c].next <= k
      BY <3>1 DEF KycCall
    <3>3. menuK.scanner = "on" => Submissions!TheFile(c).clean
      BY <2>3
    <3>4. PICK l \in {"scan", "upload"}, m \in KycMem :
               /\ KycStep(c, l, m) /\ m.number = memK[c].number /\ m.files = memK[c].files
               /\ m.next <= k
               /\ l = "scan" => m.next = memK[c].next + 1
               /\ l = "upload" =>
                    /\ m.next = 1
                    /\ \A f \in m.files : f.n < memK[c].next \/ f = Submissions!TheFile(c)
      <4>1. memK[c] \in KycMem
        BY <1>b, <2>1
      <4>2. /\ [memK[c] EXCEPT !.next = 1] \in KycMem
            /\ [memK[c] EXCEPT !.next = memK[c].next + 1] \in KycMem
        BY <4>1 DEF KycMem
      <4> DEFINE one == [memK[c] EXCEPT !.next = 1]
                 more == [memK[c] EXCEPT !.next = memK[c].next + 1]
      <4>3. /\ one.number = memK[c].number /\ one.files = memK[c].files /\ one.next = 1
            /\ more.number = memK[c].number /\ more.files = memK[c].files
            /\ more.next = memK[c].next + 1
        BY <4>1 DEF KycMem
      <4>4. Cardinality(memK[c].files) = k
        BY <3>2 DEF Numbered
      <4>5. \/ /\ \A f \in memK[c].files : f.n < memK[c].next \/ f = Submissions!TheFile(c)
               /\ KycStep(c, "upload", one)
            \/ /\ memK[c].next + 1 <= k
               /\ KycStep(c, "scan", more)
        BY <1>0, <2>1, <3>1, <4>4, NextFileIs
      <4>6. one \in KycMem /\ more \in KycMem
        BY <4>2
      <4> HIDE DEF one, more
      <4>7. 1 <= k
        BY <3>2
      <4>8. CASE KycStep(c, "upload", one) /\ \A f \in memK[c].files :
                    f.n < memK[c].next \/ f = Submissions!TheFile(c)
        BY <4>3, <4>6, <4>7, <4>8, Zenon
      <4>9. CASE memK[c].next + 1 <= k /\ KycStep(c, "scan", more)
        <5>1. more.next <= k
          BY <4>3, <4>9
        <5> QED BY <4>3, <4>6, <4>9, <5>1, Zenon
      <4> QED BY <4>5, <4>8, <4>9
    <3>5. pcK'[c] = l /\ memK'[c] = m
      BY <1>0, <3>4, KycStepEffect DEF Submissions!PC
    <3>6. \A f \in m.files : f.n \in Nat
      BY <3>2, <3>4 DEF Numbered
    <3>7. \A f \in m.files :
            f.n = memK[c].next => f = Submissions!TheFile(c)
      BY <1>0, <3>1, <3>4, TheFileIs
    <3>8. memK[c].next \in Nat
      BY <1>b, <2>1 DEF KycMem
    <3>9. menuK.scanner = "on" /\ l = "scan" => \A f \in m.files : f.n < m.next => f.clean
      BY <2>1, <3>1, <3>3, <3>4, <3>6, <3>7, <3>8 DEF KycCall
    <3>10. menuK.scanner = "on" /\ l = "upload" => \A f \in m.files : f.clean
      BY <2>1, <3>1, <3>3, <3>4 DEF KycCall
    <3>11. l = "upload" => \A f \in m.files : ~(f.n < m.next)
      BY <3>2, <3>4 DEF Numbered
    <3>12. KycCall(c)'
      BY <2>1, <3>1, <3>2, <3>4, <3>5, <3>9, <3>10, <3>11 DEF KycCall
    <3>13. /\ startedK' \in 0..menuK.calls /\ storedK' \subseteq Submissions!File
           /\ menuK.scanner = "on" => \A f \in storedK' : f.clean
           /\ storedK \subseteq storedK'
      BY <1>0, <2>1 DEF KycTypes, KycChecked
    <3>14. /\ l \in Submissions!PC /\ l # "idle" /\ pcK[c] # "idle" /\ KycStep(c, l, m)
           /\ UNCHANGED <<menuK, rowsK, asking, reviewed>>
      BY <2>1, <3>4 DEF Submissions!PC
    <3> QED BY <3>12, <3>13, <3>14, KycQuiet
  <2> QED BY <2>2, <2>3
<1>4. ASSUME NEW c \in Calls, Submissions!UploadFile(c) PROVE KycIInv'
  <2>1. /\ UNCHANGED <<menuK, startedK, rowsK, asking, reviewed>>
        /\ pcK[c] = "upload" /\ storedK' = storedK \cup {Submissions!TheFile(c)}
        /\ Submissions!NextFile(c, "insert") /\ KycCall(c)
    BY <1>4, <1>b DEF Submissions!UploadFile
  <2>2. PICK k \in 3..4 : Numbered(memK[c].files, k) /\ memK[c].next <= k
    BY <2>1 DEF KycCall
  <2>3. PICK l \in {"upload", "insert"}, m \in KycMem :
             /\ KycStep(c, l, m) /\ m.number = memK[c].number /\ m.files = memK[c].files
             /\ m.next <= k
             /\ l = "upload" => m.next = memK[c].next + 1
             /\ l = "insert" =>
                  \A f \in m.files : f.n < memK[c].next \/ f = Submissions!TheFile(c)
    <3>1. memK[c] \in KycMem
      BY <1>b, <2>1
    <3>2. /\ [memK[c] EXCEPT !.next = 1] \in KycMem
          /\ [memK[c] EXCEPT !.next = memK[c].next + 1] \in KycMem
      BY <3>1 DEF KycMem
    <3> QED BY <1>0, <2>1, <2>2, <3>1, <3>2, NextFileIs DEF Numbered, KycMem
  <2>4. pcK'[c] = l /\ memK'[c] = m
    BY <1>0, <2>3, KycStepEffect DEF Submissions!PC
  <2>5. /\ \A f \in m.files : f.n \in Nat
        /\ \A f \in m.files : f.n = memK[c].next => f = Submissions!TheFile(c)
        /\ Submissions!TheFile(c) \in m.files /\ memK[c].next \in Nat
        /\ m.files \subseteq Submissions!File
    BY <1>0, <1>b, <2>1, <2>2, <2>3, TheFileIs DEF Numbered, KycMem
  <2>6. /\ l = "upload" => \A f \in m.files : f.n < m.next => f \in storedK'
        /\ l = "insert" => m.files \subseteq storedK'
    BY <2>1, <2>3, <2>5 DEF KycCall
  <2>7. menuK.scanner = "on" => \A f \in m.files : f.clean
    BY <2>1, <2>3 DEF KycCall
  <2>8. KycCall(c)'
    BY <2>1, <2>2, <2>3, <2>4, <2>6, <2>7 DEF KycCall
  <2>9. /\ startedK' \in 0..menuK.calls /\ storedK' \subseteq Submissions!File
        /\ menuK.scanner = "on" => \A f \in storedK' : f.clean
        /\ storedK \subseteq storedK'
    BY <1>0, <2>1, <2>5, <2>7 DEF KycTypes, KycChecked
  <2>10. /\ l \in Submissions!PC /\ l # "idle" /\ pcK[c] # "idle" /\ KycStep(c, l, m)
         /\ UNCHANGED <<menuK, rowsK, asking, reviewed>>
    BY <2>1, <2>3 DEF Submissions!PC
  <2> QED BY <2>8, <2>9, <2>10, KycQuiet

<1>5. ASSUME NEW c \in Calls, Submissions!Insert(c) PROVE KycIInv'
  <2> DEFINE row == [status |-> "PENDING", verified |-> FALSE, number |-> memK[c].number,
                     files |-> memK[c].files]
             n == Len(rowsK) + 1
  <2>1. /\ UNCHANGED <<menuK, startedK, storedK, reviewed>> /\ pcK[c] = "insert"
        /\ rowsK' = Append(rowsK, row) /\ asking' = asking \cup {Len(rowsK')}
        /\ KycStep(c, "idle", Submissions!Nothing)
    BY <1>5 DEF Submissions!Insert, Submissions!Return, Submissions!Goto, KycStep
  <2>2. KycCall(c) /\ memK[c] \in KycMem
    BY <1>b, <2>1
  <2>3. /\ row.status = "PENDING" /\ row.number \in Numbers
        /\ Submissions!Validate(row.number) /\ row.files \subseteq storedK
    BY <2>1, <2>2 DEF KycCall
  <2>4. row \in Submission
    BY <2>2, <2>3 DEF Submission, Submissions!Status, KycMem
  <2> HIDE DEF row
  <2>5. /\ n \in Nat \ {0} /\ Len(rowsK') = n /\ rowsK' \in Seq(Submission)
        /\ DOMAIN rowsK = 1..Len(rowsK) /\ DOMAIN rowsK' = 1..n /\ rowsK'[n] = row
        /\ \A i \in DOMAIN rowsK : rowsK'[i] = rowsK[i]
        /\ asking \subseteq DOMAIN rowsK
    BY <1>0, <2>1, <2>4 DEF KycTypes
  <2>6. /\ "idle" \in Submissions!PC /\ Submissions!Nothing \in KycMem
        /\ Submissions!Nothing.next = 1 /\ storedK \subseteq storedK'
    BY <2>1, KycNothing DEF Submissions!PC
  <2>7. /\ pcK' \in [Calls -> Submissions!PC] /\ memK' \in [Calls -> KycMem]
        /\ pcK'[c] = "idle" /\ memK'[c] = Submissions!Nothing
        /\ \A d \in Calls \ {c} : pcK'[d] = pcK[d] /\ memK'[d] = memK[d]
        /\ IsFiniteSet(KycBusy)'
        /\ Cardinality(KycBusy)' = Cardinality(KycBusy) - 1
    BY <1>0, <2>1, <2>6, KycStepEffect
  <2>8. KycTypes'
    <3>1. asking' \subseteq DOMAIN rowsK'
      BY <2>1, <2>5
    <3> QED BY <1>0, <2>1, <2>5, <2>7, <3>1 DEF KycTypes
  <2>9. KycChecked'
    <3>1. \A i \in DOMAIN rowsK' : i \in DOMAIN rowsK \/ i = n
      BY <2>5
    <3>2. \A i \in DOMAIN rowsK' :
            rowsK'[i].files \subseteq storedK' /\ Submissions!Validate(rowsK'[i].number)
      BY <1>0, <2>1, <2>3, <2>5, <3>1 DEF KycChecked
    <3>3. \A d \in KycBusy' : KycCall(d)'
      BY <1>0, <2>1, <2>7, KycOthers DEF KycBusy
    <3>4. \A d \in (Calls \ KycBusy)' : memK'[d].next = 1
      BY <1>0, <2>6, <2>7 DEF KycBusy, KycChecked
    <3> QED BY <1>0, <2>1, <3>2, <3>3, <3>4 DEF KycChecked
  <2>10. KycRoom'
    <3>1. KycPending' = KycPending \cup {n}
      BY <2>3, <2>5 DEF KycPending
    <3>2. n \notin KycPending
      BY <2>5 DEF KycPending
    <3>3. Cardinality(KycPending') = Cardinality(KycPending) + 1
      BY <1>0, <3>1, <3>2, PendingFinite, FS_AddElement
    <3>4. /\ Cardinality(KycBusy) \in Nat /\ Cardinality(KycPending) \in Nat
          /\ Cardinality(KycBusy') = Cardinality(KycBusy) - 1
      BY <1>0, <2>7, PendingFinite, FS_CardinalityType DEF KycTypes
    <3>5. asking' = asking \cup {n}
      BY <2>1, <2>5
    <3>6. menuK' = menuK /\ reviewed' = reviewed
      BY <2>1
    <3> QED BY <1>0, <1>a, <3>1, <3>3, <3>4, <3>5, <3>6 DEF KycRoom
  <2> QED BY <2>8, <2>9, <2>10 DEF KycIInv
\* A row gets another status; the calls stay as they are.
<1>d. ASSUME NEW i \in DOMAIN rowsK, NEW row \in Submission,
             rowsK' = [rowsK EXCEPT ![i] = row], row.number = rowsK[i].number,
             row.files = rowsK[i].files, asking' \subseteq asking,
             reviewed' \in BOOLEAN,
             ~reviewed' => /\ ~reviewed
                           /\ row.status = "PENDING" => i \in KycPending
                           /\ asking' \subseteq asking \ {i},
             UNCHANGED <<menuK, startedK, storedK, pcK, memK>>
      PROVE  KycIInv'
  <2>1. /\ rowsK' \in Seq(Submission) /\ DOMAIN rowsK' = DOMAIN rowsK /\ rowsK'[i] = row
        /\ \A j \in DOMAIN rowsK \ {i} : rowsK'[j] = rowsK[j]
    BY <1>0, <1>d DEF KycTypes
  <2>2. KycBusy' = KycBusy
    BY <1>d DEF KycBusy
  <2>3. KycTypes'
    <3>1. /\ menuK' = menuK /\ startedK' = startedK /\ storedK' = storedK
          /\ pcK' = pcK /\ memK' = memK
      BY <1>d
    <3>2. asking' \subseteq DOMAIN rowsK'
      BY <1>0, <1>d, <2>1 DEF KycTypes
    <3> QED BY <1>0, <1>d, <2>1, <2>2, <3>1, <3>2 DEF KycTypes
  <2>4. KycChecked'
    <3>1. \A d \in Calls : KycCall(d) => KycCall(d)'
      BY <1>d DEF KycCall
    <3>2. \A j \in DOMAIN rowsK' :
            rowsK'[j].files \subseteq storedK' /\ Submissions!Validate(rowsK'[j].number)
      BY <1>0, <1>d, <2>1 DEF KycChecked
    <3>3. /\ \A d \in KycBusy' : KycCall(d)'
          /\ \A d \in (Calls \ KycBusy)' : memK'[d].next = 1
      BY <1>0, <1>d, <2>2, <3>1 DEF KycChecked, KycBusy
    <3> QED BY <1>0, <1>d, <3>2, <3>3 DEF KycChecked
  <2>5. ASSUME ~reviewed'
        PROVE  /\ (asking \subseteq KycPending)'
               /\ Cardinality(KycPending)' + Cardinality(KycBusy)' <= menuK'.width
    <3>1. KycPending' \subseteq KycPending
      BY <1>d, <2>1, <2>5 DEF KycPending
    <3>2. Cardinality(KycPending') <= Cardinality(KycPending) /\ Cardinality(KycPending') \in Nat
      BY <1>0, <3>1, PendingFinite, FS_Subset, FS_CardinalityType
    <3>3. asking \subseteq KycPending /\ menuK' = menuK
          /\ Cardinality(KycPending) + Cardinality(KycBusy) <= menuK.width
          /\ Cardinality(KycBusy) \in Nat
      BY <1>0, <1>d, <2>5, FS_CardinalityType DEF KycRoom, KycTypes
    <3>4. asking' \subseteq KycPending'
      BY <1>d, <2>1, <2>5, <3>3 DEF KycPending
    <3> QED BY <1>0, <1>a, <2>2, <3>2, <3>3, <3>4, PendingFinite
  <2> QED BY <2>3, <2>4, <2>5 DEF KycIInv, KycRoom
<1>6. ASSUME NEW i \in DOMAIN rowsK, NEW verified \in BOOLEAN,
             Submissions!VerifyWithMks(i, verified)
      PROVE  KycIInv'
  <2> DEFINE row == [rowsK[i] EXCEPT !.verified = verified,
                       !.status = IF verified THEN "IN_REVIEW" ELSE "PENDING"]
  <2>1. rowsK[i] \in Submission
    BY <1>0 DEF KycTypes
  <2>2. row \in Submission /\ row.number = rowsK[i].number /\ row.files = rowsK[i].files
    BY <2>1 DEF Submission, Submissions!Status
  <2>3. rowsK' = [rowsK EXCEPT ![i] = row] /\ asking' = asking \ {i} /\ i \in asking
        /\ UNCHANGED <<menuK, startedK, storedK, pcK, memK, reviewed>>
    BY <1>6 DEF Submissions!VerifyWithMks
  <2>4. ~reviewed => i \in KycPending
    BY <1>0, <2>3 DEF KycRoom
  <2>5. asking' \subseteq asking /\ asking' \subseteq asking \ {i} /\ reviewed' \in BOOLEAN
    BY <1>0, <2>3 DEF KycTypes
  <2>6. UNCHANGED <<menuK, startedK, storedK, pcK, memK>>
    BY <2>3
  <2>7. ~reviewed' => /\ ~reviewed
                      /\ row.status = "PENDING" => i \in KycPending
                      /\ asking' \subseteq asking \ {i}
    <3> HIDE DEF row
    <3> QED BY <2>3, <2>4, <2>5
  <2>8. row \in Submission /\ rowsK' = [rowsK EXCEPT ![i] = row]
    BY <2>2, <2>3
  <2> HIDE DEF row
  <2> QED BY <1>d, <2>2, <2>5, <2>6, <2>7, <2>8
<1>7. ASSUME NEW i \in DOMAIN rowsK, NEW status \in {"APPROVED", "REJECTED"},
             Submissions!Review(i, status)
      PROVE  KycIInv'
  <2> DEFINE row == [rowsK[i] EXCEPT !.status = status]
  <2>1. rowsK[i] \in Submission
    BY <1>0 DEF KycTypes
  <2>2. row \in Submission /\ row.number = rowsK[i].number /\ row.files = rowsK[i].files
    BY <2>1 DEF Submission, Submissions!Status
  <2>3. /\ rowsK' = [rowsK EXCEPT ![i] = row] /\ asking' = asking /\ reviewed' = TRUE
        /\ UNCHANGED <<menuK, startedK, storedK, pcK, memK>>
    BY <1>7 DEF Submissions!Review
  <2>4. asking' \subseteq asking
    BY <2>3
  <2>5. reviewed' \in BOOLEAN /\ reviewed'
    BY <2>3
  <2>6. UNCHANGED <<menuK, startedK, storedK, pcK, memK>>
    BY <2>3
  <2> HIDE DEF row
  <2> QED BY <1>d, <2>2, <2>3, <2>4, <2>5, <2>6
<1>8. ASSUME NEW c \in Calls, Submissions!Break(c) PROVE KycIInv'
  BY <1>8, <1>c DEF Submissions!Break
<1>9. CASE Submissions!Restart
  <2>1. /\ UNCHANGED <<menuK, startedK, rowsK, storedK, reviewed>> /\ asking' = {}
        /\ pcK' = [c \in Calls |-> "idle"] /\ memK' = [c \in Calls |-> Submissions!Nothing]
    BY <1>9 DEF Submissions!Restart
  <2>2. /\ KycBusy' = {} /\ KycPending' = KycPending
        /\ \A c \in Calls : memK'[c].next = 1
    BY <2>1, KycNothing DEF KycBusy, KycPending
  <2>3. /\ pcK' \in [Calls -> Submissions!PC] /\ memK' \in [Calls -> KycMem]
        /\ IsFiniteSet(KycBusy') /\ Cardinality(KycBusy') = 0
    BY <2>1, <2>2, KycNothing, FS_EmptySet DEF Submissions!PC
  <2>4. KycTypes'
    BY <1>0, <2>1, <2>3 DEF KycTypes
  <2>5. KycChecked'
    BY <1>0, <2>1, <2>2 DEF KycChecked
  <2>6. KycRoom'
    <3>1. Cardinality(KycBusy) \in Nat /\ Cardinality(KycPending) \in Nat
      BY <1>0, PendingFinite, FS_CardinalityType DEF KycTypes
    <3> QED BY <1>0, <1>a, <2>1, <2>2, <2>3, <3>1 DEF KycRoom
  <2> QED BY <2>4, <2>5, <2>6 DEF KycIInv
<1>10. CASE UNCHANGED varsK
  <2>1. /\ menuK' = menuK /\ startedK' = startedK /\ rowsK' = rowsK /\ storedK' = storedK
        /\ asking' = asking /\ pcK' = pcK /\ memK' = memK /\ reviewed' = reviewed
    BY <1>10 DEF varsK
  <2>2. KycBusy' = KycBusy /\ KycPending' = KycPending
    BY <2>1 DEF KycBusy, KycPending
  <2>3. \A c \in Calls : KycCall(c) => KycCall(c)'
    BY <2>1 DEF KycCall
  <2>4. KycTypes'
    BY <1>0, <2>1, <2>2 DEF KycTypes
  <2>5. KycChecked'
    BY <1>0, <2>1, <2>2, <2>3 DEF KycChecked, KycBusy
  <2>6. KycRoom'
    BY <1>0, <2>1, <2>2 DEF KycRoom
  <2> QED BY <2>4, <2>5, <2>6 DEF KycIInv
<1> QED
  BY <1>1, <1>2, <1>3, <1>4, <1>5, <1>6, <1>7, <1>8, <1>9, <1>10
  DEF Submissions!Next, Submissions!MksAnswers

\* kyc.service.ts: whatever submissions run at the same time, at most so many
\* rows are PENDING while no administrator has decided; a row has its files in
\* the bucket, and a valid number, in which every mistyped digit would show; and
\* with the scanner on no file of the bucket has a virus.
THEOREM SubmissionsStaySound == PlatformSpec => []SubmissionsAreSound
<1>1. PlatformInit => KycIInv
  BY KycInit DEF PlatformInit
<1>2. KycIInv /\ [PlatformNext]_platformVars => KycIInv'
  BY KycNext, PartSteps
<1>3. KycIInv => SubmissionsAreSound
  <2> SUFFICES ASSUME KycIInv
               PROVE  Submissions!PendingBounded /\ Submissions!SubmissionsAreChecked
    BY DEF SubmissionsAreSound
  <2>1. KycTypes /\ KycChecked /\ KycRoom
    BY DEF KycIInv
  <2>2. Submissions!PendingBounded
    <3>1. Submissions!PendingBounded <=> (~reviewed => Cardinality(KycPending) <= menuK.width)
      BY Counts DEF Submissions!PendingBounded, KycPending
    <3>2. /\ Cardinality(KycBusy) \in Nat /\ Cardinality(KycPending) \in Nat
          /\ menuK.width \in Nat
      BY <2>1, PendingFinite, FS_CardinalityType, KycAssumption DEF KycTypes
    <3> QED BY <2>1, <3>1, <3>2 DEF KycRoom
  <2>3. Submissions!SubmissionsAreChecked
    BY <2>1, DigitsAreChecked DEF Submissions!SubmissionsAreChecked, KycChecked
  <2> QED BY <2>2, <2>3
<1> QED BY <1>1, <1>2, <1>3, PTL DEF PlatformSpec

-----------------------------------------------------------------------------
(***************************************************************************)
(* The hot wallets.                                                        *)
(***************************************************************************)

HotTypes ==
    /\ deployed \in WalletScenarios
    /\ stage \in [Withdrawals -> Hot!Stage]
    /\ asked \in [Withdrawals -> Hot!Requests \cup {Hot!NoRequest}]
    /\ signed \in [Withdrawals -> Hot!Transaction \cup {Hot!NoHash}]
    /\ tries \in [Withdrawals -> 0..MaxRetries]
    /\ hashH \in [Withdrawals -> Hot!Transaction \cup {Hot!NoHash, Hot!Simulated}]
    /\ pool \subseteq Hot!Transaction /\ mined \subseteq Hot!Transaction

\* Transaction tx pays what request r asks for.
Owed(tx, r) ==
    /\ tx \in Hot!Transaction
    /\ tx.to = r.to /\ r.to = "0x"
    /\ tx.units <= r.amount /\ r.amount - tx.units < 2 * Coarse
    /\ r.currency = "ETH" => tx.units = r.amount

\* A withdrawal on its way.
Sound(w) ==
    /\ stage[w] # "new" => /\ asked[w] \in Hot!Requests
                           /\ Hot!ValidAddress(asked[w]) /\ Hot!ValidAmount(asked[w].amount)
    /\ stage[w] \in {"broadcast", "BROADCASTED"} => Owed(signed[w], asked[w])
    /\ stage[w] \in {"new", "sign", "broadcast"} => tries[w] < MaxRetries
    /\ stage[w] # "BROADCASTED" => hashH[w] = Hot!NoHash
    /\ stage[w] = "BROADCASTED" /\ hashH[w] # Hot!Simulated =>
         hashH[w] = signed[w] /\ hashH[w] \in pool \cup mined

\* Two hashes that name transactions name two.
Apart ==
    \A v, w \in Withdrawals :
      v # w /\ hashH[w] \in Hot!Transaction => hashH[v] # hashH[w]

HotIInv == HotTypes /\ (\A w \in Withdrawals : Sound(w)) /\ Apart

-----------------------------------------------------------------------------
(* What is signed                                                          *)

LEMMA HotTotal == \A s, n : Hot!Total(s, n) = Total(s, n)
BY DEF Hot!Total, Total

LEMMA Quotient ==
    ASSUME NEW a \in Nat, NEW c \in Nat \ {0}, c <= a
    PROVE  /\ a \div c \in Nat \ {0}
           /\ (a \div c) * c <= a /\ a < (a \div c) * c + c
<1>1. a \div c \in Nat /\ (a \div c) * c <= a /\ a < (a \div c) * c + c
  OBVIOUS
<1>2. a \div c # 0
  BY <1>1
<1> QED BY <1>1, <1>2

\* One unit less is still within two units of the amount.
LEMMA FlooredIs ==
    ASSUME NEW a \in Nat, NEW c \in Nat \ {0}, NEW q \in Nat \ {0}, NEW u \in {q, q - 1},
           q * c <= a, a < q * c + c
    PROVE  u \in Nat /\ u * c \in Nat /\ u * c <= a /\ a - u * c < 2 * c
<1>1. CASE u = q
  <2>1. u \in Nat /\ u * c \in Nat
    BY <1>1
  <2>2. PICK p \in Nat : p = u * c
    BY <2>1
  <2> QED BY <1>1, <2>1, <2>2
<1>2. CASE u = q - 1
  <2>1. u \in Nat /\ u * c \in Nat /\ u * c = q * c - c
    BY <1>2
  <2>2. PICK p \in Nat : p = u * c
    BY <2>1
  <2> QED BY <1>2, <2>1, <2>2
<1> QED BY <1>1, <1>2

LEMMA OutputsAre ==
    ASSUME NEW u \in Int, NEW s, NEW t \in Int, NEW size \in Int,
           Hot!Total(s, Len(s)) = t, Hot!TxSize(Len(s), 2) = size
    PROVE  /\ Hot!Outputs(u, s, 10).enough <=> t - u - size * 10 >= 0
           /\ Hot!Outputs(u, s, 10).total = t
           /\ Hot!Outputs(u, s, 10).fee = size * 10
           /\ Hot!Outputs(u, s, 10).pays = u
           /\ Hot!Outputs(u, s, 10).change =
                IF t - u - size * 10 > Hot!Dust THEN t - u - size * 10 ELSE 0
<1>1. Hot!Outputs(u, s, 10).enough <=> t - u - size * 10 >= 0
  BY DEF Hot!Outputs
<1>2. Hot!Outputs(u, s, 10).total = t
  BY DEF Hot!Outputs
<1>3. Hot!Outputs(u, s, 10).fee = size * 10
  BY DEF Hot!Outputs
<1>4. Hot!Outputs(u, s, 10).pays = u
  BY DEF Hot!Outputs
<1>5. Hot!Outputs(u, s, 10).change =
        IF t - u - size * 10 > Hot!Dust THEN t - u - size * 10 ELSE 0
  BY DEF Hot!Outputs
<1> QED BY <1>1, <1>2, <1>3, <1>4, <1>5

\* What transaction-signing.service.ts signs for a request that was accepted: a
\* Bitcoin transaction never, for it has no inputs to pay from.
LEMMA SignsWhatIsOwed ==
    ASSUME HotTypes, NEW r \in Hot!Requests, Hot!ValidAddress(r), Hot!ValidAmount(r.amount),
           NEW tx \in Hot!SignTransaction(r)
    PROVE  Owed(tx, r)
<1>1. /\ r.currency \in {"BTC", "ETH", "USDT"} /\ r.to \in Hot!Addresses
      /\ r.amount \in Nat /\ r.amount >= Coarse /\ Coarse \in Nat \ {0}
      /\ deployed.usdtKey \in {"BTC", "ETH", "USDT"}
  <2>1. /\ r.currency \in {"BTC", "ETH", "USDT"} /\ r.to \in Hot!Addresses
        /\ r.amount \in Amounts /\ Minimum <= r.amount
    BY DEF Hot!Requests, Hot!Currencies, Hot!ValidAmount
  <2>2. /\ Amounts \subseteq Nat /\ Minimum \in Nat /\ Coarse \in Nat \ {0} /\ Coarse <= Minimum
        /\ \A s \in WalletScenarios : s.usdtKey \in {"BTC", "ETH", "USDT"}
    BY HotWalletAssumption
  <2>3. deployed \in WalletScenarios
    BY DEF HotTypes
  <2>4. r.amount \in Nat
    BY <2>1, <2>2
  <2>5. r.amount >= Coarse
    BY <2>1, <2>2, <2>4
  <2>6. deployed.usdtKey \in {"BTC", "ETH", "USDT"}
    BY <2>2, <2>3
  <2> QED BY <2>1, <2>2, <2>4, <2>5, <2>6
<1>2. CASE r.currency = "BTC"
  <2>1. PICK u \in Hot!Floored(r.amount) : tx \in Hot!SignBitcoin(u, <<>>)
    BY <1>2 DEF Hot!SignTransaction
  <2>2. u \in Nat
    BY <1>1, <2>1 DEF Hot!Floored
  <2>3. ~ Hot!Outputs(u, <<>>, 10).enough
    <3>1. Hot!Total(<<>>, Len(<<>>)) = 0
      BY HotTotal, TotalEmpty
    <3>2. Hot!TxSize(Len(<<>>), 2) = 72
      BY DEF Hot!TxSize
    <3> QED BY <2>2, <3>1, <3>2, OutputsAre
  <2> QED BY <2>1, <2>3 DEF Hot!SignBitcoin
<1>3. CASE r.currency = "ETH"
  <2>1. r.to = "0x"
    BY <1>3 DEF Hot!ValidAddress, Hot!ValidEthereum
  <2>2. tx = [key |-> "ETH", nonce |-> 0, to |-> r.to, units |-> r.amount]
    BY <1>3 DEF Hot!SignTransaction, Hot!SignEthereum
  <2> QED BY <1>1, <1>3, <2>1, <2>2 DEF Owed, Hot!Transaction, Hot!Currencies
<1>4. CASE r.currency = "USDT"
  <2>1. r.to = "0x"
    BY <1>4 DEF Hot!SignTransaction, Hot!SignUsdt
  <2> DEFINE q == r.amount \div Coarse
  <2>2. PICK u \in {q, q - 1} :
             tx = [key |-> deployed.usdtKey, nonce |-> 0, to |-> r.to, units |-> u * Coarse]
    BY <1>4 DEF Hot!SignTransaction, Hot!SignUsdt, Hot!Floored
  <2>3. q \in Nat \ {0} /\ q * Coarse <= r.amount /\ r.amount < q * Coarse + Coarse
    BY <1>1, Quotient
  <2> HIDE DEF q
  <2>4. /\ u * Coarse \in Nat /\ u * Coarse <= r.amount
        /\ r.amount - u * Coarse < 2 * Coarse
    BY <1>1, <2>3, FlooredIs
  <2>5. PICK p \in Nat : p = u * Coarse
    BY <2>4
  <2>6. tx.units = p /\ tx.to = r.to /\ tx \in Hot!Transaction
    BY <1>1, <2>2, <2>5 DEF Hot!Transaction, Hot!Currencies
  <2> QED BY <1>4, <2>1, <2>4, <2>5, <2>6 DEF Owed
<1> QED BY <1>1, <1>2, <1>3, <1>4

\* transaction-signing.service.ts: what is spent and goes to nobody is dust.
LEMMA NothingIsLost == Hot!BitcoinAddsUp
<1> SUFFICES ASSUME NEW u \in {1, 5000}, NEW utxos \in [1..2 -> {0, 700, 2080, 4040, 7000}],
                    Hot!Outputs(u, utxos, 10).enough
             PROVE  LET o == Hot!Outputs(u, utxos, 10)
                    IN o.total - (o.pays + o.change + o.fee) \in 0..Hot!Dust
  BY DEF Hot!BitcoinAddsUp
<1>1. utxos \in [1..2 -> Int] /\ Len(utxos) = 2
  <2>1. utxos = <<utxos[1], utxos[2]>>
    OBVIOUS
  <2>2. Len(<<utxos[1], utxos[2]>>) = 2
    OBVIOUS
  <2> QED BY <2>1, <2>2
<1>2. PICK t \in Int : t = Hot!Total(utxos, Len(utxos))
  <2>1. Total(utxos, 2) \in Int
    <3>1. PICK n \in Nat : n = 2
      OBVIOUS
    <3>2. utxos \in [1..n -> Int]
      BY <1>1, <3>1
    <3>3. Total(utxos, n) \in Int
      BY <3>2, TotalType
    <3> QED BY <3>1, <3>3
  <2> QED BY <1>1, <2>1, HotTotal
<1>3. PICK size \in Int : size = Hot!TxSize(Len(utxos), 2)
  BY <1>1 DEF Hot!TxSize
<1>4. u \in Int
  OBVIOUS
<1> DEFINE o == Hot!Outputs(u, utxos, 10)
<1>5. /\ t - u - size * 10 >= 0
      /\ o.total = t /\ o.fee = size * 10 /\ o.pays = u
      /\ o.change = IF t - u - size * 10 > Hot!Dust THEN t - u - size * 10 ELSE 0
  BY <1>2, <1>3, <1>4, OutputsAre
<1>6. PICK total, change, fee, pays \in Int :
           o.total = total /\ o.change = change /\ o.fee = fee /\ o.pays = pays
  BY <1>4, <1>5
<1> HIDE DEF o
<1>7. total - (pays + change + fee) \in 0..Hot!Dust
  BY <1>4, <1>5, <1>6 DEF Hot!Dust
<1> QED BY <1>6, <1>7 DEF o

-----------------------------------------------------------------------------
(* What is sent                                                            *)

LEMMA HashesDiffer ==
    /\ Hot!NoHash \notin Hot!Transaction /\ Hot!Simulated \notin Hot!Transaction
    /\ Hot!NoHash # Hot!Simulated
<1>1. Hot!NoHash.key = "none" /\ Hot!Simulated.key = "zeroes"
  BY DEF Hot!NoHash, Hot!Simulated
<1>2. \A tx \in Hot!Transaction : tx.key \in {"BTC", "ETH", "USDT"}
  BY DEF Hot!Transaction, Hot!Currencies
<1> QED BY <1>1, <1>2

LEMMA HotInit == Hot!Init => HotIInv
<1> SUFFICES ASSUME Hot!Init PROVE HotIInv
  OBVIOUS
<1>1. \A w \in Withdrawals : stage[w] = "new" /\ hashH[w] = Hot!NoHash
  BY DEF Hot!Init
<1>2. HotTypes
  BY HotWalletAssumption DEF Hot!Init, HotTypes, Hot!Stage
<1>3. \A w \in Withdrawals : Sound(w)
  <2>1. \A w \in Withdrawals : tries[w] = 0 /\ 0 < MaxRetries
    BY HotWalletAssumption DEF Hot!Init
  <2> QED BY <1>1, <2>1 DEF Sound
<1>4. Apart
  BY <1>1, HashesDiffer DEF Apart
<1> QED BY <1>2, <1>3, <1>4 DEF HotIInv

\* A step of withdrawal w that gives it no hash.
LEMMA HotQuiet ==
    ASSUME HotIInv, NEW w \in Withdrawals, HotTypes', Sound(w)',
           hashH' = hashH, pool \cup mined \subseteq pool' \cup mined',
           \A v \in Withdrawals \ {w} :
             /\ stage'[v] = stage[v] /\ asked'[v] = asked[v]
             /\ signed'[v] = signed[v] /\ tries'[v] = tries[v]
    PROVE  HotIInv'
<1>1. (\A v \in Withdrawals : Sound(v)) /\ Apart
  BY DEF HotIInv
<1>2. ASSUME NEW v \in Withdrawals PROVE Sound(v)'
  <2>1. CASE v = w
    BY <2>1
  <2>2. CASE v # w
    <3>1. Sound(v)
      BY <1>1
    <3>2. /\ stage'[v] = stage[v] /\ asked'[v] = asked[v]
          /\ signed'[v] = signed[v] /\ tries'[v] = tries[v]
      BY <2>2
    <3> QED BY <3>1, <3>2 DEF Sound
  <2> QED BY <2>1, <2>2
<1>3. Apart'
  BY <1>1 DEF Apart
<1> QED BY <1>2, <1>3 DEF HotIInv

LEMMA HotNext == HotIInv /\ [Hot!Next]_varsH => HotIInv'
<1> SUFFICES ASSUME HotIInv, [Hot!Next]_varsH PROVE HotIInv'
  OBVIOUS
<1>0. HotTypes /\ (\A w \in Withdrawals : Sound(w)) /\ Apart
  BY DEF HotIInv
<1>a. MaxRetries \in Nat \ {0}
  BY HotWalletAssumption
<1>1. ASSUME NEW w \in Withdrawals, NEW r \in Hot!Requests, Hot!Create(w, r)
      PROVE  HotIInv'
  <2>1. /\ stage' = [stage EXCEPT ![w] = "sign"] /\ asked' = [asked EXCEPT ![w] = r]
        /\ UNCHANGED <<deployed, signed, tries, hashH, pool, mined>> /\ stage[w] = "new"
        /\ Hot!ValidAddress(r) /\ Hot!ValidAmount(r.amount)
    BY <1>1 DEF Hot!Create, Hot!Goto
  <2>2. HotTypes'
    BY <1>0, <2>1 DEF HotTypes, Hot!Stage
  <2>3. /\ stage'[w] = "sign" /\ asked'[w] = r
        /\ \A v \in Withdrawals \ {w} : stage'[v] = stage[v] /\ asked'[v] = asked[v]
    BY <1>0, <2>1 DEF HotTypes
  <2>4. hashH'[w] = Hot!NoHash
    BY <1>0, <2>1 DEF Sound
  <2>5. Sound(w)'
    <3>1. tries'[w] < MaxRetries
      BY <1>0, <2>1 DEF Sound
    <3> QED BY <2>1, <2>3, <2>4, <3>1 DEF Sound
  <2> QED BY <2>1, <2>2, <2>3, <2>5, HotQuiet
<1>2. ASSUME NEW w \in Withdrawals, Hot!Sign(w) PROVE HotIInv'
  <2>1. UNCHANGED <<deployed, asked, tries, hashH, pool, mined>> /\ stage[w] = "sign"
    BY <1>2 DEF Hot!Sign
  <2>2. /\ asked[w] \in Hot!Requests /\ Hot!ValidAddress(asked[w])
        /\ Hot!ValidAmount(asked[w].amount) /\ hashH[w] = Hot!NoHash
        /\ tries[w] < MaxRetries
    BY <1>0, <2>1 DEF Sound
  <2>3. CASE Hot!SignTransaction(asked[w]) = {}
    <3>1. stage' = [stage EXCEPT ![w] = "FAILED"] /\ signed' = signed
      BY <1>2, <2>3 DEF Hot!Sign, Hot!Goto
    <3>2. HotTypes'
      BY <1>0, <2>1, <3>1 DEF HotTypes, Hot!Stage
    <3>3. stage'[w] = "FAILED" /\ \A v \in Withdrawals \ {w} : stage'[v] = stage[v]
      BY <1>0, <3>1 DEF HotTypes
    <3>4. Sound(w)'
      BY <2>1, <2>2, <3>3 DEF Sound
    <3> QED BY <2>1, <3>1, <3>2, <3>3, <3>4, HotQuiet
  <2>4. CASE Hot!SignTransaction(asked[w]) # {}
    <3>1. PICK tx \in Hot!SignTransaction(asked[w]) :
               /\ signed' = [signed EXCEPT ![w] = tx]
               /\ stage' = [stage EXCEPT ![w] = "broadcast"]
      BY <1>2, <2>4 DEF Hot!Sign, Hot!Goto
    <3>2. Owed(tx, asked[w])
      BY <1>0, <2>2, SignsWhatIsOwed
    <3>3. HotTypes'
      BY <1>0, <2>1, <3>1, <3>2 DEF HotTypes, Hot!Stage, Owed
    <3>4. /\ stage'[w] = "broadcast" /\ signed'[w] = tx
          /\ \A v \in Withdrawals \ {w} : stage'[v] = stage[v] /\ signed'[v] = signed[v]
      BY <1>0, <3>1 DEF HotTypes
    <3>5. Sound(w)'
      BY <2>1, <2>2, <3>2, <3>4 DEF Sound
    <3> QED BY <2>1, <3>3, <3>4, <3>5, HotQuiet
  <2> QED BY <2>3, <2>4
\* A broadcast: what was signed stays what was signed, and is owed.
<1>b. ASSUME NEW w \in Withdrawals, stage[w] = "broadcast"
      PROVE  /\ asked[w] \in Hot!Requests /\ Hot!ValidAddress(asked[w])
             /\ Hot!ValidAmount(asked[w].amount) /\ Owed(signed[w], asked[w])
             /\ signed[w] \in Hot!Transaction /\ tries[w] < MaxRetries
             /\ tries[w] \in Nat /\ hashH[w] = Hot!NoHash
  BY <1>0, <1>b DEF Sound, Owed, HotTypes
<1>c. ASSUME NEW w \in Withdrawals, stage[w] = "broadcast",
             NEW h \in Hot!Transaction \cup {Hot!Simulated},
             h # Hot!Simulated => h = signed[w] /\ h \notin pool \cup mined /\ h \in pool',
             hashH' = [hashH EXCEPT ![w] = h],
             stage' = [stage EXCEPT ![w] = "BROADCASTED"],
             pool \subseteq pool', pool' \subseteq Hot!Transaction,
             UNCHANGED <<deployed, asked, signed, tries, mined>>
      PROVE  HotIInv'
  <2>1. HotTypes'
    BY <1>0, <1>c DEF HotTypes, Hot!Stage
  <2>2. /\ stage'[w] = "BROADCASTED" /\ hashH'[w] = h
        /\ \A v \in Withdrawals \ {w} : stage'[v] = stage[v] /\ hashH'[v] = hashH[v]
    BY <1>0, <1>c DEF HotTypes
  <2>3. ASSUME NEW v \in Withdrawals PROVE Sound(v)'
    <3>1. CASE v = w
      BY <1>b, <1>c, <2>2, <3>1 DEF Sound
    <3>2. CASE v # w
      <4>1. stage'[v] = stage[v] /\ hashH'[v] = hashH[v] /\ Sound(v)
        BY <1>0, <2>2, <3>2
      <4>2. /\ asked'[v] = asked[v] /\ signed'[v] = signed[v] /\ tries'[v] = tries[v]
            /\ pool \cup mined \subseteq pool' \cup mined'
        BY <1>c
      <4> QED BY <4>1, <4>2 DEF Sound
    <3> QED BY <3>1, <3>2
  <2>4. ASSUME NEW v \in Withdrawals \ {w}, hashH[v] \in Hot!Transaction
        PROVE  hashH[v] # h
    <3>1. hashH[v] \in pool \cup mined
      BY <1>0, <2>4, HashesDiffer DEF Sound
    <3> QED BY <1>c, <2>4, <3>1, HashesDiffer
  <2>5. Apart'
    <3> SUFFICES ASSUME NEW u \in Withdrawals, NEW v \in Withdrawals, u # v,
                        hashH'[v] \in Hot!Transaction
                 PROVE  hashH'[u] # hashH'[v]
      BY DEF Apart
    <3>1. CASE u # w /\ v # w
      BY <1>0, <2>2, <3>1 DEF Apart
    <3>2. CASE u = w
      BY <2>2, <2>4, <3>2
    <3>3. CASE v = w
      BY <2>2, <2>4, <3>3
    <3> QED BY <3>1, <3>2, <3>3
  <2> QED BY <2>1, <2>3, <2>5 DEF HotIInv
<1>3. ASSUME NEW w \in Withdrawals, Hot!Simulate(w) PROVE HotIInv'
  <2>1. /\ stage[w] = "broadcast" /\ hashH' = [hashH EXCEPT ![w] = Hot!Simulated]
        /\ stage' = [stage EXCEPT ![w] = "BROADCASTED"]
        /\ UNCHANGED <<deployed, asked, signed, tries, mined>> /\ pool' = pool
    BY <1>3 DEF Hot!Simulate, Hot!Goto
  <2>2. pool \subseteq pool' /\ pool' \subseteq Hot!Transaction
    BY <1>0, <2>1 DEF HotTypes
  <2>3. UNCHANGED <<deployed, asked, signed, tries, mined>>
    BY <2>1
  <2> QED BY <1>c, <2>1, <2>2, <2>3
<1>4. ASSUME NEW w \in Withdrawals, Hot!BroadcastEthereum(w) PROVE HotIInv'
  <2>1. /\ stage[w] = "broadcast" /\ hashH' = [hashH EXCEPT ![w] = signed[w]]
        /\ stage' = [stage EXCEPT ![w] = "BROADCASTED"] /\ Hot!Acceptable(signed[w])
        /\ pool' = pool \cup {signed[w]}
    BY <1>4 DEF Hot!BroadcastEthereum, Hot!Goto
  <2>2. signed[w] \in Hot!Transaction
    BY <1>b, <2>1
  <2>3. pool \subseteq pool' /\ pool' \subseteq Hot!Transaction /\ signed[w] \in pool'
    BY <1>0, <2>1, <2>2 DEF HotTypes
  <2>4. UNCHANGED <<deployed, asked, signed, tries, mined>>
    BY <1>4 DEF Hot!BroadcastEthereum
  <2>5. signed[w] \notin pool \cup mined
    BY <2>1 DEF Hot!Acceptable
  <2> QED BY <1>c, <2>1, <2>2, <2>3, <2>4, <2>5
<1>5. ASSUME NEW w \in Withdrawals, Hot!AttemptFails(w) PROVE HotIInv'
  <2>1. /\ stage[w] = "broadcast" /\ UNCHANGED <<deployed, asked, signed, mined, hashH>>
        /\ pool' \in {pool, pool \cup {signed[w]}}
        /\ tries' = [tries EXCEPT ![w] = tries[w] + 1]
    BY <1>0, <1>5 DEF Hot!AttemptFails, Hot!Retry, HotTypes
  <2>2. PICK l \in {"broadcast", "FAILED"} :
             /\ stage' = [stage EXCEPT ![w] = l]
             /\ l = "broadcast" => tries[w] + 1 < MaxRetries
    BY <1>5 DEF Hot!AttemptFails, Hot!Retry, Hot!Goto
  <2>3. /\ asked[w] \in Hot!Requests /\ Hot!ValidAddress(asked[w])
        /\ Hot!ValidAmount(asked[w].amount) /\ Owed(signed[w], asked[w])
        /\ signed[w] \in Hot!Transaction /\ tries[w] < MaxRetries
        /\ tries[w] \in Nat /\ hashH[w] = Hot!NoHash
    BY <1>b, <2>1
  <2>4. tries[w] + 1 \in 0..MaxRetries
    BY <1>a, <2>3
  <2>5. /\ stage'[w] = l /\ tries'[w] = tries[w] + 1
        /\ \A v \in Withdrawals \ {w} : stage'[v] = stage[v] /\ tries'[v] = tries[v]
    BY <1>0, <2>1, <2>2 DEF HotTypes
  <2>6. HotTypes'
    BY <1>0, <2>1, <2>2, <2>3, <2>4 DEF HotTypes, Hot!Stage
  <2>7. Sound(w)'
    BY <2>1, <2>2, <2>3, <2>5 DEF Sound
  <2>8. pool \cup mined \subseteq pool' \cup mined'
    BY <2>1
  <2> QED BY <2>1, <2>5, <2>6, <2>7, <2>8, HotQuiet
<1>6. ASSUME NEW tx \in pool, Hot!Mine(tx) PROVE HotIInv'
  <2>1. /\ UNCHANGED <<deployed, stage, asked, signed, tries, hashH>>
        /\ pool' \cup mined' = pool \cup mined
        /\ pool' \subseteq pool \cup mined /\ mined' \subseteq pool \cup mined
    BY <1>6 DEF Hot!Mine
  <2>2. HotTypes'
    BY <1>0, <2>1 DEF HotTypes
  <2>3. \A w \in Withdrawals : Sound(w)'
    BY <1>0, <2>1 DEF Sound
  <2>4. Apart'
    BY <1>0, <2>1 DEF Apart
  <2> QED BY <2>2, <2>3, <2>4 DEF HotIInv
<1>7. CASE UNCHANGED varsH
  <2>1. /\ UNCHANGED <<deployed, stage, asked, signed, tries, hashH, pool, mined>>
    BY <1>7 DEF varsH
  <2>2. HotTypes'
    BY <1>0, <2>1 DEF HotTypes
  <2>3. \A w \in Withdrawals : Sound(w)'
    BY <1>0, <2>1 DEF Sound
  <2>4. Apart'
    BY <1>0, <2>1 DEF Apart
  <2> QED BY <2>2, <2>3, <2>4 DEF HotIInv
<1> QED BY <1>1, <1>2, <1>3, <1>4, <1>5, <1>6, <1>7 DEF Hot!Next

\* withdrawal-processing.service.ts: what a BROADCASTED withdrawal's hash names is
\* on the network, pays the right address what was asked for, less at most two
\* units of its asset, and is no other withdrawal's, unless nothing is configured
\* to send it.
THEOREM WhatIsSentIsOwed == PlatformSpec => []SentIsOwed
<1>1. PlatformInit => HotIInv
  BY HotInit DEF PlatformInit
<1>2. HotIInv /\ [PlatformNext]_platformVars => HotIInv'
  BY HotNext, PartSteps
<1>3. HotIInv => SentIsOwed
  <2> SUFFICES ASSUME HotIInv PROVE Hot!SentIsOwed
    BY DEF SentIsOwed
  <2>1. ASSUME NEW w \in Withdrawals, stage[w] = "BROADCASTED", hashH[w] # Hot!Simulated
        PROVE  /\ hashH[w] \in pool \cup mined
               /\ hashH[w].to = asked[w].to /\ asked[w].to = "0x"
               /\ hashH[w].units <= asked[w].amount
               /\ asked[w].amount - hashH[w].units < 2 * Coarse
               /\ asked[w].currency = "ETH" => hashH[w].units = asked[w].amount
               /\ \A v \in Withdrawals \ {w} : hashH[v] # hashH[w]
    <3>1. hashH[w] = signed[w] /\ hashH[w] \in pool \cup mined /\ Owed(signed[w], asked[w])
      BY <2>1 DEF HotIInv, Sound
    <3>2. \A v \in Withdrawals \ {w} : hashH[v] # hashH[w]
      BY <3>1 DEF HotIInv, Apart, Owed
    <3> QED BY <3>1, <3>2 DEF Owed
  <2> QED BY <2>1, NothingIsLost DEF Hot!SentIsOwed
<1> QED BY <1>1, <1>2, <1>3, PTL DEF PlatformSpec

-----------------------------------------------------------------------------
(***************************************************************************)
(* The web client.  What a tab's spinners wait for is told by the          *)
(* operations it has in flight, so that one lemma about the reducers and   *)
(* one about the pages serve every action.                                 *)
(***************************************************************************)

TwoFactorOps == {"setup", "verifySetup", "status", "regenerate", "disable"}
SliceFields == Browser!Flags \cup {"user", "token", "verification"}

IsSlice(s) ==
    /\ s = [f \in SliceFields |-> s[f]]
    /\ s.loading \in BOOLEAN /\ s.registered \in BOOLEAN /\ s.loginSuccess \in BOOLEAN
    /\ s.authenticated \in BOOLEAN /\ s.resending \in BOOLEAN /\ s.resent \in BOOLEAN
    /\ s.requesting \in BOOLEAN /\ s.requested \in BOOLEAN
    /\ s.confirming \in BOOLEAN /\ s.confirmed \in BOOLEAN
    /\ s.loading2FA \in BOOLEAN /\ s.setupToken \in BOOLEAN
    /\ s.enabled \in BOOLEAN /\ s.fetching \in BOOLEAN
    /\ s.user \in Accounts \cup {Browser!Nobody, Browser!NewUser}
    /\ s.token \in Accounts \cup {Browser!Nobody}
    /\ s.verification \in {"idle", "pending", "verifying", "success", "error"}

ClientRequest ==
    [tab : Tabs, op : Browser!Ops, n : 1..menuW.calls, account : Accounts,
     token : Accounts \cup {Browser!Nobody}, mounted : BOOLEAN]

ClientTypes ==
    /\ menuW \in ClientScenarios
    /\ startedW \in 0..menuW.calls
    /\ storedW \in Accounts \cup {Browser!Nobody}
    /\ page \in [Tabs -> Browser!Pages] /\ leaving \subseteq Tabs
    /\ DOMAIN slice = Tabs /\ slice = [t \in Tabs |-> slice[t]]
    /\ \A t \in Tabs : IsSlice(slice[t])
    /\ requests \subseteq ClientRequest

\* What tab t has in flight among requests R.
Flying(R, t) == {r.op : r \in {q \in R : q.tab = t}}

\* What turns in store s waits for one of ops; a challenged login for nothing.
Waiting(s, ops, after) ==
    /\ s.loading => after \/ "register" \in ops \/ "login" \in ops
    /\ s.verification = "verifying" => "verifyEmail" \in ops
    /\ s.resending => "resend" \in ops
    /\ s.requesting => "requestReset" \in ops
    /\ s.confirming => "confirmReset" \in ops
    /\ s.loading2FA => \E op \in TwoFactorOps : op \in ops
    /\ s.fetching => "balances" \in ops

\* Store s takes itself to be signed in only as the account whose token is there.
SignedInAs(s, account) ==
    s.authenticated =>
      /\ s.token # Browser!Nobody /\ account = s.token
      /\ menuW.mockAuth \/ s.user \in {Browser!Nobody, account}

SameUser(s, u) ==
    s.authenticated = u.authenticated /\ s.token = u.token /\ s.user = u.user

ClientIInv ==
    /\ ClientTypes
    /\ \A t \in Tabs : Waiting(slice[t], Flying(requests, t), t \in challenged)
    /\ \A t \in Tabs \ (leaving \cup foreign) : SignedInAs(slice[t], storedW)

-----------------------------------------------------------------------------
(* The pages and the reducers                                              *)

LEMMA LeaveKeeps ==
    ASSUME NEW s, NEW p, NEW ops, NEW after, IsSlice(s), Waiting(s, ops, after)
    PROVE  /\ IsSlice(Browser!Leave(s, p)) /\ SameUser(Browser!Leave(s, p), s)
           /\ Waiting(Browser!Leave(s, p), ops, after)
<1> DEFINE u == Browser!Leave(s, p)
<1>1. CASE p = "register"
  <2>1. u = [s EXCEPT !.registered = FALSE]
    BY <1>1 DEF Browser!Leave
  <2> HIDE DEF u
  <2>2. IsSlice(u)
    BY <2>1 DEF IsSlice, SliceFields, Browser!Flags
  <2>3. SameUser(u, s)
    BY <2>1 DEF IsSlice, SliceFields, Browser!Flags, SameUser
  <2>4. Waiting(u, ops, after)
    BY <2>1 DEF IsSlice, SliceFields, Browser!Flags, Waiting
  <2> QED BY <2>2, <2>3, <2>4 DEF u
<1>2. CASE p = "login"
  <2>1. u = [s EXCEPT !.loginSuccess = FALSE]
    BY <1>2 DEF Browser!Leave
  <2> HIDE DEF u
  <2>2. IsSlice(u)
    BY <2>1 DEF IsSlice, SliceFields, Browser!Flags
  <2>3. SameUser(u, s)
    BY <2>1 DEF IsSlice, SliceFields, Browser!Flags, SameUser
  <2>4. Waiting(u, ops, after)
    BY <2>1 DEF IsSlice, SliceFields, Browser!Flags, Waiting
  <2> QED BY <2>2, <2>3, <2>4 DEF u
<1>3. CASE p \in {"verify", "verifyLink"}
  <2>1. u = [s EXCEPT !.verification = "idle", !.resending = FALSE, !.resent = FALSE]
    BY <1>3 DEF Browser!Leave
  <2> HIDE DEF u
  <2>2. IsSlice(u)
    BY <2>1 DEF IsSlice, SliceFields, Browser!Flags
  <2>3. SameUser(u, s)
    BY <2>1 DEF IsSlice, SliceFields, Browser!Flags, SameUser
  <2>4. Waiting(u, ops, after)
    BY <2>1 DEF IsSlice, SliceFields, Browser!Flags, Waiting
  <2> QED BY <2>2, <2>3, <2>4 DEF u
<1>4. CASE p \notin {"register", "login", "verify", "verifyLink"}
  <2>1. u = s
    BY <1>4 DEF Browser!Leave
  <2> QED BY <2>1 DEF SameUser
<1> QED BY <1>1, <1>2, <1>3, <1>4

LEMMA EnterKeeps ==
    ASSUME NEW s, NEW p, NEW ops, NEW after, IsSlice(s), Waiting(s, ops, after)
    PROVE  /\ IsSlice(Browser!Enter(s, p)) /\ SameUser(Browser!Enter(s, p), s)
           /\ Waiting(Browser!Enter(s, p), ops, after)
<1> DEFINE u == Browser!Enter(s, p)
<1>1. CASE p = "verify"
  <2>1. u = [s EXCEPT !.verification = "pending"]
    BY <1>1 DEF Browser!Enter
  <2> HIDE DEF u
  <2>2. IsSlice(u)
    BY <2>1 DEF IsSlice, SliceFields, Browser!Flags
  <2>3. SameUser(u, s)
    BY <2>1 DEF IsSlice, SliceFields, Browser!Flags, SameUser
  <2>4. Waiting(u, ops, after)
    BY <2>1 DEF IsSlice, SliceFields, Browser!Flags, Waiting
  <2> QED BY <2>2, <2>3, <2>4 DEF u
<1>2. CASE p = "forgot"
  <2>1. u = [s EXCEPT !.requesting = FALSE, !.requested = FALSE]
    BY <1>2 DEF Browser!Enter
  <2> HIDE DEF u
  <2>2. IsSlice(u)
    BY <2>1 DEF IsSlice, SliceFields, Browser!Flags
  <2>3. SameUser(u, s)
    BY <2>1 DEF IsSlice, SliceFields, Browser!Flags, SameUser
  <2>4. Waiting(u, ops, after)
    BY <2>1 DEF IsSlice, SliceFields, Browser!Flags, Waiting
  <2> QED BY <2>2, <2>3, <2>4 DEF u
<1>3. CASE p = "reset"
  <2>1. u = [s EXCEPT !.confirming = FALSE, !.confirmed = FALSE]
    BY <1>3 DEF Browser!Enter
  <2> HIDE DEF u
  <2>2. IsSlice(u)
    BY <2>1 DEF IsSlice, SliceFields, Browser!Flags
  <2>3. SameUser(u, s)
    BY <2>1 DEF IsSlice, SliceFields, Browser!Flags, SameUser
  <2>4. Waiting(u, ops, after)
    BY <2>1 DEF IsSlice, SliceFields, Browser!Flags, Waiting
  <2> QED BY <2>2, <2>3, <2>4 DEF u
<1>4. CASE p \notin {"verify", "forgot", "reset"}
  <2>1. u = s
    BY <1>4 DEF Browser!Enter
  <2> QED BY <2>1 DEF SameUser
<1> QED BY <1>1, <1>2, <1>3, <1>4

LEMMA EffectsKeep ==
    ASSUME NEW s, NEW p \in Browser!Pages, NEW ops, NEW after, IsSlice(s),
           Waiting(s, ops, after)
    PROVE  /\ IsSlice(Browser!Effects(s, p)) /\ SameUser(Browser!Effects(s, p), s)
           /\ Waiting(Browser!Effects(s, p), ops, after)
           /\ Browser!After(s, p) \in Browser!Pages
<1>1. Browser!After(s, p) \in Browser!Pages
  BY DEF Browser!After, Browser!Pages
<1>2. CASE Browser!After(s, p) = p
  BY <1>1, <1>2 DEF Browser!Effects, SameUser
<1>3. CASE Browser!After(s, p) # p
  <2> DEFINE u == Browser!Leave(s, p)
  <2>1. IsSlice(u) /\ SameUser(u, s) /\ Waiting(u, ops, after)
    BY LeaveKeeps
  <2> HIDE DEF u
  <2> DEFINE v == Browser!Enter(u, Browser!After(s, p))
  <2>2. IsSlice(v) /\ SameUser(v, u) /\ Waiting(v, ops, after)
    BY <2>1, EnterKeeps
  <2>3. Browser!Effects(s, p) = v
    BY <1>3 DEF Browser!Effects, u
  <2> HIDE DEF v
  <2> QED BY <1>1, <2>1, <2>2, <2>3 DEF SameUser
<1> QED BY <1>2, <1>3

Answer == {"pending", "ok", "error", "challenge", "misnamed"}

\* An answer to op stops what waits for it, and starts nothing; a request that
\* starts something is in flight.
LEMMA ReduceKeeps ==
    ASSUME NEW s, NEW op \in Browser!Ops, NEW answer \in Answer, NEW account \in Accounts,
           NEW enabled2FA \in BOOLEAN, NEW ops, NEW left, NEW after, NEW then,
           IsSlice(s), Waiting(s, ops, after), after => then,
           answer = "challenge" => op = "login" /\ then,
           answer = "misnamed" => op = "setup",
           answer = "pending" => op \in left,
           \A o \in ops : o \in left \/ (o = op /\ answer # "pending")
    PROVE  LET u == Browser!Reduce(s, op, answer, account, enabled2FA)
           IN IsSlice(u) /\ Waiting(u, left, then)
<1> DEFINE u == Browser!Reduce(s, op, answer, account, enabled2FA)
<1> USE DEF Answer
<1>1. CASE op = "recaptcha"
  <2>1. u = s
    BY <1>1 DEF Browser!Reduce
  <2> HIDE DEF u
  <2>2. Waiting(s, left, then)
    BY <1>1 DEF Waiting, TwoFactorOps
  <2> QED BY <2>1, <2>2 DEF u
<1>2. CASE op = "register"
  <2>1. u = Browser!Register(s, answer)
    BY <1>2 DEF Browser!Reduce
  <2> HIDE DEF u
  <2>2. CASE answer = "pending"
    <3>1. u = [s EXCEPT !.loading = TRUE, !.registered = FALSE]
      BY <2>1, <2>2 DEF Browser!Register
    <3>2. IsSlice(u)
      BY <3>1 DEF IsSlice, SliceFields, Browser!Flags
    <3>3. Waiting(u, left, then)
      BY <1>2, <2>2, <3>1 DEF IsSlice, SliceFields, Browser!Flags, Waiting, TwoFactorOps
    <3> QED BY <3>2, <3>3 DEF u
  <2>3. CASE answer = "ok"
    <3>1. u = [s EXCEPT !.loading = FALSE, !.registered = TRUE, !.user = Browser!NewUser]
      BY <2>1, <2>3 DEF Browser!Register
    <3>2. IsSlice(u)
      BY <3>1 DEF IsSlice, SliceFields, Browser!Flags
    <3>3. Waiting(u, left, then)
      BY <1>2, <2>3, <3>1 DEF IsSlice, SliceFields, Browser!Flags, Waiting, TwoFactorOps
    <3> QED BY <3>2, <3>3 DEF u
  <2>4. CASE answer = "error"
    <3>1. u = [s EXCEPT !.loading = FALSE, !.registered = FALSE]
      BY <2>1, <2>4 DEF Browser!Register
    <3>2. IsSlice(u)
      BY <3>1 DEF IsSlice, SliceFields, Browser!Flags
    <3>3. Waiting(u, left, then)
      BY <1>2, <2>4, <3>1 DEF IsSlice, SliceFields, Browser!Flags, Waiting, TwoFactorOps
    <3> QED BY <3>2, <3>3 DEF u
  <2> QED BY <1>2, <2>2, <2>3, <2>4 DEF u
<1>3. CASE op = "verifyEmail"
  <2>1. u = Browser!VerifyEmail(s, answer)
    BY <1>3 DEF Browser!Reduce
  <2> HIDE DEF u
  <2>2. CASE answer = "pending"
    <3>1. u = [s EXCEPT !.verification = "verifying"]
      BY <2>1, <2>2 DEF Browser!VerifyEmail
    <3>2. IsSlice(u)
      BY <3>1 DEF IsSlice, SliceFields, Browser!Flags
    <3>3. Waiting(u, left, then)
      BY <1>3, <2>2, <3>1 DEF IsSlice, SliceFields, Browser!Flags, Waiting, TwoFactorOps
    <3> QED BY <3>2, <3>3 DEF u
  <2>3. CASE answer = "ok"
    <3>1. u = [s EXCEPT !.verification = "success"]
      BY <2>1, <2>3 DEF Browser!VerifyEmail
    <3>2. IsSlice(u)
      BY <3>1 DEF IsSlice, SliceFields, Browser!Flags
    <3>3. Waiting(u, left, then)
      BY <1>3, <2>3, <3>1 DEF IsSlice, SliceFields, Browser!Flags, Waiting, TwoFactorOps
    <3> QED BY <3>2, <3>3 DEF u
  <2>4. CASE answer = "error"
    <3>1. u = [s EXCEPT !.verification = "error"]
      BY <2>1, <2>4 DEF Browser!VerifyEmail
    <3>2. IsSlice(u)
      BY <3>1 DEF IsSlice, SliceFields, Browser!Flags
    <3>3. Waiting(u, left, then)
      BY <1>3, <2>4, <3>1 DEF IsSlice, SliceFields, Browser!Flags, Waiting, TwoFactorOps
    <3> QED BY <3>2, <3>3 DEF u
  <2> QED BY <1>3, <2>2, <2>3, <2>4 DEF u
<1>4. CASE op = "resend"
  <2>1. u = Browser!Resend(s, answer)
    BY <1>4 DEF Browser!Reduce
  <2> HIDE DEF u
  <2>2. IsSlice(u)
    BY <1>4, <2>1 DEF Browser!Resend, IsSlice, SliceFields, Browser!Flags
  <2>3. u.resending <=> answer = "pending"
    BY <2>1 DEF Browser!Resend, IsSlice, SliceFields, Browser!Flags
  <2>4. /\ u.loading = s.loading /\ u.verification = s.verification /\ u.requesting = s.requesting
        /\ u.confirming = s.confirming /\ u.loading2FA = s.loading2FA /\ u.fetching = s.fetching
    BY <2>1 DEF Browser!Resend, IsSlice, SliceFields, Browser!Flags
  <2>5. Waiting(u, left, then)
    BY <1>4, <2>3, <2>4 DEF Waiting, TwoFactorOps
  <2> QED BY <2>2, <2>5 DEF u
<1>5. CASE op = "login"
  <2>1. u = Browser!Login(s, answer, account)
    BY <1>5 DEF Browser!Reduce
  <2> HIDE DEF u
  <2>2. CASE answer = "pending"
    <3>1. u = [s EXCEPT !.loading = TRUE, !.loginSuccess = FALSE]
      BY <2>1, <2>2 DEF Browser!Login
    <3>2. IsSlice(u)
      BY <3>1 DEF IsSlice, SliceFields, Browser!Flags
    <3>3. Waiting(u, left, then)
      BY <1>5, <2>2, <3>1 DEF IsSlice, SliceFields, Browser!Flags, Waiting, TwoFactorOps
    <3> QED BY <3>2, <3>3 DEF u
  <2>3. CASE answer = "ok"
    <3>1. u = [s EXCEPT !.loading = FALSE, !.loginSuccess = TRUE, !.authenticated = TRUE,
                      !.token = account, !.user = account]
      BY <2>1, <2>3 DEF Browser!Login
    <3>2. IsSlice(u)
      BY <3>1 DEF IsSlice, SliceFields, Browser!Flags
    <3>3. Waiting(u, left, then)
      BY <1>5, <2>3, <3>1 DEF IsSlice, SliceFields, Browser!Flags, Waiting, TwoFactorOps
    <3> QED BY <3>2, <3>3 DEF u
  <2>4. CASE answer = "error"
    <3>1. u = [s EXCEPT !.loading = FALSE, !.loginSuccess = FALSE, !.authenticated = FALSE]
      BY <2>1, <2>4 DEF Browser!Login
    <3>2. IsSlice(u)
      BY <3>1 DEF IsSlice, SliceFields, Browser!Flags
    <3>3. Waiting(u, left, then)
      BY <1>5, <2>4, <3>1 DEF IsSlice, SliceFields, Browser!Flags, Waiting, TwoFactorOps
    <3> QED BY <3>2, <3>3 DEF u
  <2>5. CASE answer = "challenge"
    <3>1. u = s
      BY <2>1, <2>5 DEF Browser!Login
    <3>2. IsSlice(u)
      BY <3>1 DEF IsSlice, SliceFields, Browser!Flags
    <3>3. Waiting(u, left, then)
      BY <1>5, <2>5, <3>1 DEF IsSlice, SliceFields, Browser!Flags, Waiting, TwoFactorOps
    <3> QED BY <3>2, <3>3 DEF u
  <2> QED BY <1>5, <2>2, <2>3, <2>4, <2>5 DEF u
<1>6. CASE op = "requestReset"
  <2>1. u = Browser!RequestPasswordReset(s, answer)
    BY <1>6 DEF Browser!Reduce
  <2> HIDE DEF u
  <2>2. IsSlice(u)
    BY <1>6, <2>1 DEF Browser!RequestPasswordReset, IsSlice, SliceFields, Browser!Flags
  <2>3. u.requesting <=> answer = "pending"
    BY <2>1 DEF Browser!RequestPasswordReset, IsSlice, SliceFields, Browser!Flags
  <2>4. /\ u.loading = s.loading /\ u.verification = s.verification /\ u.resending = s.resending
        /\ u.confirming = s.confirming /\ u.loading2FA = s.loading2FA /\ u.fetching = s.fetching
    BY <2>1 DEF Browser!RequestPasswordReset, IsSlice, SliceFields, Browser!Flags
  <2>5. Waiting(u, left, then)
    BY <1>6, <2>3, <2>4 DEF Waiting, TwoFactorOps
  <2> QED BY <2>2, <2>5 DEF u
<1>7. CASE op = "confirmReset"
  <2>1. u = Browser!ConfirmPasswordReset(s, answer)
    BY <1>7 DEF Browser!Reduce
  <2> HIDE DEF u
  <2>2. IsSlice(u)
    BY <1>7, <2>1 DEF Browser!ConfirmPasswordReset, IsSlice, SliceFields, Browser!Flags
  <2>3. u.confirming <=> answer = "pending"
    BY <2>1 DEF Browser!ConfirmPasswordReset, IsSlice, SliceFields, Browser!Flags
  <2>4. /\ u.loading = s.loading /\ u.verification = s.verification /\ u.resending = s.resending
        /\ u.requesting = s.requesting /\ u.loading2FA = s.loading2FA /\ u.fetching = s.fetching
    BY <2>1 DEF Browser!ConfirmPasswordReset, IsSlice, SliceFields, Browser!Flags
  <2>5. Waiting(u, left, then)
    BY <1>7, <2>3, <2>4 DEF Waiting, TwoFactorOps
  <2> QED BY <2>2, <2>5 DEF u
<1>8. CASE op = "setup"
  <2>1. u = Browser!Setup2FA(s, answer)
    BY <1>8 DEF Browser!Reduce
  <2> HIDE DEF u
  <2>2. IsSlice(u)
    <3>1. /\ u = [f \in SliceFields |-> u[f]]
          /\ \A f \in SliceFields \ {"loading2FA", "setupToken"} : u[f] = s[f]
      BY <2>1 DEF Browser!Setup2FA, IsSlice, SliceFields, Browser!Flags
    <3>2. u.loading2FA \in BOOLEAN
      BY <2>1 DEF Browser!Setup2FA, IsSlice, SliceFields, Browser!Flags
    <3>3. u.setupToken \in BOOLEAN
      BY <2>1 DEF Browser!Setup2FA, IsSlice, SliceFields, Browser!Flags
    <3> QED BY <3>1, <3>2, <3>3 DEF IsSlice, SliceFields, Browser!Flags
  <2>3. u.loading2FA <=> answer = "pending"
    BY <2>1 DEF Browser!Setup2FA, IsSlice, SliceFields, Browser!Flags
  <2>4. /\ u.loading = s.loading /\ u.verification = s.verification /\ u.resending = s.resending
        /\ u.requesting = s.requesting /\ u.confirming = s.confirming /\ u.fetching = s.fetching
    BY <2>1 DEF Browser!Setup2FA, IsSlice, SliceFields, Browser!Flags
  <2>5. Waiting(u, left, then)
    BY <1>8, <2>3, <2>4 DEF Waiting, TwoFactorOps
  <2> QED BY <2>2, <2>5 DEF u
<1>9. CASE op = "verifySetup"
  <2>1. u = Browser!VerifySetup2FA(s, answer)
    BY <1>9 DEF Browser!Reduce
  <2> HIDE DEF u
  <2>2. IsSlice(u)
    <3>1. /\ u = [f \in SliceFields |-> u[f]]
          /\ \A f \in SliceFields \ {"loading2FA", "setupToken", "enabled"} : u[f] = s[f]
      BY <2>1 DEF Browser!VerifySetup2FA, IsSlice, SliceFields, Browser!Flags
    <3>2. u.loading2FA \in BOOLEAN
      BY <2>1 DEF Browser!VerifySetup2FA, IsSlice, SliceFields, Browser!Flags
    <3>3. u.setupToken \in BOOLEAN
      BY <2>1 DEF Browser!VerifySetup2FA, IsSlice, SliceFields, Browser!Flags
    <3>4. u.enabled \in BOOLEAN
      BY <2>1 DEF Browser!VerifySetup2FA, IsSlice, SliceFields, Browser!Flags
    <3> QED BY <3>1, <3>2, <3>3, <3>4 DEF IsSlice, SliceFields, Browser!Flags
  <2>3. u.loading2FA <=> answer = "pending"
    BY <2>1 DEF Browser!VerifySetup2FA, IsSlice, SliceFields, Browser!Flags
  <2>4. /\ u.loading = s.loading /\ u.verification = s.verification /\ u.resending = s.resending
        /\ u.requesting = s.requesting /\ u.confirming = s.confirming /\ u.fetching = s.fetching
    BY <2>1 DEF Browser!VerifySetup2FA, IsSlice, SliceFields, Browser!Flags
  <2>5. Waiting(u, left, then)
    BY <1>9, <2>3, <2>4 DEF Waiting, TwoFactorOps
  <2> QED BY <2>2, <2>5 DEF u
<1>10. CASE op = "status"
  <2>1. u = Browser!Get2FAStatus(s, answer, enabled2FA)
    BY <1>10 DEF Browser!Reduce
  <2> HIDE DEF u
  <2>2. IsSlice(u)
    BY <1>10, <2>1 DEF Browser!Get2FAStatus, IsSlice, SliceFields, Browser!Flags
  <2>3. u.loading2FA <=> answer = "pending"
    BY <2>1 DEF Browser!Get2FAStatus, IsSlice, SliceFields, Browser!Flags
  <2>4. /\ u.loading = s.loading /\ u.verification = s.verification /\ u.resending = s.resending
        /\ u.requesting = s.requesting /\ u.confirming = s.confirming /\ u.fetching = s.fetching
    BY <2>1 DEF Browser!Get2FAStatus, IsSlice, SliceFields, Browser!Flags
  <2>5. Waiting(u, left, then)
    BY <1>10, <2>3, <2>4 DEF Waiting, TwoFactorOps
  <2> QED BY <2>2, <2>5 DEF u
<1>11. CASE op = "regenerate"
  <2>1. u = Browser!RegenerateBackupCodes(s, answer)
    BY <1>11 DEF Browser!Reduce
  <2> HIDE DEF u
  <2>2. IsSlice(u)
    BY <1>11, <2>1 DEF Browser!RegenerateBackupCodes, IsSlice, SliceFields, Browser!Flags
  <2>3. u.loading2FA <=> answer = "pending"
    BY <2>1 DEF Browser!RegenerateBackupCodes, IsSlice, SliceFields, Browser!Flags
  <2>4. /\ u.loading = s.loading /\ u.verification = s.verification /\ u.resending = s.resending
        /\ u.requesting = s.requesting /\ u.confirming = s.confirming /\ u.fetching = s.fetching
    BY <2>1 DEF Browser!RegenerateBackupCodes, IsSlice, SliceFields, Browser!Flags
  <2>5. Waiting(u, left, then)
    BY <1>11, <2>3, <2>4 DEF Waiting, TwoFactorOps
  <2> QED BY <2>2, <2>5 DEF u
<1>12. CASE op = "disable"
  <2>1. u = Browser!Disable2FA(s, answer)
    BY <1>12 DEF Browser!Reduce
  <2> HIDE DEF u
  <2>2. IsSlice(u)
    <3>1. /\ u = [f \in SliceFields |-> u[f]]
          /\ \A f \in SliceFields \ {"loading2FA", "setupToken", "enabled"} : u[f] = s[f]
      BY <2>1 DEF Browser!Disable2FA, IsSlice, SliceFields, Browser!Flags
    <3>2. u.loading2FA \in BOOLEAN
      BY <2>1 DEF Browser!Disable2FA, IsSlice, SliceFields, Browser!Flags
    <3>3. u.setupToken \in BOOLEAN
      BY <2>1 DEF Browser!Disable2FA, IsSlice, SliceFields, Browser!Flags
    <3>4. u.enabled \in BOOLEAN
      BY <2>1 DEF Browser!Disable2FA, IsSlice, SliceFields, Browser!Flags
    <3> QED BY <3>1, <3>2, <3>3, <3>4 DEF IsSlice, SliceFields, Browser!Flags
  <2>3. u.loading2FA <=> answer = "pending"
    BY <2>1 DEF Browser!Disable2FA, IsSlice, SliceFields, Browser!Flags
  <2>4. /\ u.loading = s.loading /\ u.verification = s.verification /\ u.resending = s.resending
        /\ u.requesting = s.requesting /\ u.confirming = s.confirming /\ u.fetching = s.fetching
    BY <2>1 DEF Browser!Disable2FA, IsSlice, SliceFields, Browser!Flags
  <2>5. Waiting(u, left, then)
    BY <1>12, <2>3, <2>4 DEF Waiting, TwoFactorOps
  <2> QED BY <2>2, <2>5 DEF u
<1>13. CASE op = "balances"
  <2>1. u = Browser!FetchBalances(s, answer)
    BY <1>13 DEF Browser!Reduce
  <2> HIDE DEF u
  <2>2. IsSlice(u)
    BY <1>13, <2>1 DEF Browser!FetchBalances, IsSlice, SliceFields, Browser!Flags
  <2>3. u.fetching <=> answer = "pending"
    BY <2>1 DEF Browser!FetchBalances, IsSlice, SliceFields, Browser!Flags
  <2>4. /\ u.loading = s.loading /\ u.verification = s.verification /\ u.resending = s.resending
        /\ u.requesting = s.requesting /\ u.confirming = s.confirming
        /\ u.loading2FA = s.loading2FA
    BY <2>1 DEF Browser!FetchBalances, IsSlice, SliceFields, Browser!Flags
  <2>5. Waiting(u, left, then)
    BY <1>13, <2>3, <2>4 DEF Waiting, TwoFactorOps
  <2> QED BY <2>2, <2>5 DEF u
<1> QED
  BY <1>1, <1>2, <1>3, <1>4, <1>5, <1>6, <1>7, <1>8, <1>9, <1>10, <1>11, <1>12, <1>13
  DEF Browser!Ops

-----------------------------------------------------------------------------
\* Only a login, and a mocked registration, change who a store is signed in as.
LEMMA ReduceSigns ==
    ASSUME NEW s, NEW op \in Browser!Ops, NEW answer \in Answer, NEW account \in Accounts,
           NEW enabled2FA, NEW now, IsSlice(s), SignedInAs(s, now),
           op = "register" /\ answer = "ok" => menuW.mockAuth,
           answer = "challenge" => op = "login", answer = "misnamed" => op = "setup"
    PROVE  SignedInAs(Browser!Reduce(s, op, answer, account, enabled2FA),
                      IF op = "login" /\ answer = "ok" THEN account ELSE now)
<1> DEFINE u == Browser!Reduce(s, op, answer, account, enabled2FA)
<1>0. SameUser(u, s) /\ ~(op = "login" /\ answer = "ok") =>
        SignedInAs(u, IF op = "login" /\ answer = "ok" THEN account ELSE now)
  <2> HIDE DEF u
  <2> QED BY DEF SameUser, SignedInAs
<1>1. CASE op = "recaptcha"
  <2>1. u = s
    BY <1>1 DEF Browser!Reduce
  <2> QED BY <1>0, <1>1, <2>1 DEF SameUser
<1>2. CASE op = "register"
  <2>1. u = Browser!Register(s, answer)
    BY <1>2 DEF Browser!Reduce
  <2>2. CASE answer = "ok"
    <3>1. u = [s EXCEPT !.loading = FALSE, !.registered = TRUE, !.user = Browser!NewUser]
      BY <2>1, <2>2 DEF Browser!Register
    <3> HIDE DEF u
    <3>2. u.authenticated = s.authenticated /\ u.token = s.token
      BY <3>1 DEF IsSlice, SliceFields, Browser!Flags
    <3>3. SignedInAs(u, now)
      BY <1>2, <2>2, <3>2 DEF SignedInAs
    <3> QED BY <1>2, <3>3 DEF u
  <2>3. CASE answer # "ok"
    <3>1. u \in {[s EXCEPT !.loading = TRUE, !.registered = FALSE],
                 [s EXCEPT !.loading = FALSE, !.registered = FALSE]}
      BY <1>2, <2>1, <2>3 DEF Browser!Register, Answer
    <3> HIDE DEF u
    <3>2. SameUser(u, s)
      BY <3>1 DEF IsSlice, SliceFields, Browser!Flags, SameUser
    <3> QED BY <1>0, <1>2, <3>2 DEF u
  <2> QED BY <2>2, <2>3
<1>3. CASE op = "verifyEmail"
  <2>1. u = Browser!VerifyEmail(s, answer)
    BY <1>3 DEF Browser!Reduce
  <2> HIDE DEF u
  <2>2. SameUser(u, s)
    BY <2>1 DEF Browser!VerifyEmail, IsSlice, SliceFields, Browser!Flags, SameUser
  <2> QED BY <1>0, <1>3, <2>2 DEF u
<1>4. CASE op = "resend"
  <2>1. u = Browser!Resend(s, answer)
    BY <1>4 DEF Browser!Reduce
  <2> HIDE DEF u
  <2>2. SameUser(u, s)
    BY <2>1 DEF Browser!Resend, IsSlice, SliceFields, Browser!Flags, SameUser
  <2> QED BY <1>0, <1>4, <2>2 DEF u
<1>5. CASE op = "login"
  <2>1. u = Browser!Login(s, answer, account)
    BY <1>5 DEF Browser!Reduce
  <2>2. CASE answer = "ok"
    <3>1. u = [s EXCEPT !.loading = FALSE, !.loginSuccess = TRUE, !.authenticated = TRUE,
                        !.token = account, !.user = account]
      BY <2>1, <2>2 DEF Browser!Login
    <3> HIDE DEF u
    <3>2. u.token = account /\ u.user = account
      BY <3>1 DEF IsSlice, SliceFields, Browser!Flags
    <3>3. SignedInAs(u, account)
      BY <3>2, ClientAssumption DEF SignedInAs, Browser!Nobody
    <3> QED BY <1>5, <2>2, <3>3 DEF u
  <2>3. CASE answer = "error"
    <3>1. u = [s EXCEPT !.loading = FALSE, !.loginSuccess = FALSE, !.authenticated = FALSE]
      BY <2>1, <2>3 DEF Browser!Login
    <3> HIDE DEF u
    <3>2. ~u.authenticated
      BY <3>1 DEF IsSlice, SliceFields, Browser!Flags
    <3>3. SignedInAs(u, now)
      BY <3>2 DEF SignedInAs
    <3> QED BY <1>5, <2>3, <3>3 DEF u
  <2>4. CASE answer \notin {"ok", "error"}
    <3>1. u \in {s, [s EXCEPT !.loading = TRUE, !.loginSuccess = FALSE]}
      BY <1>5, <2>1, <2>4 DEF Browser!Login, Answer
    <3> HIDE DEF u
    <3>2. SameUser(u, s)
      BY <3>1 DEF IsSlice, SliceFields, Browser!Flags, SameUser
    <3> QED BY <1>0, <1>5, <2>4, <3>2 DEF u
  <2> QED BY <2>2, <2>3, <2>4
<1>6. CASE op = "requestReset"
  <2>1. u = Browser!RequestPasswordReset(s, answer)
    BY <1>6 DEF Browser!Reduce
  <2> HIDE DEF u
  <2>2. SameUser(u, s)
    BY <2>1 DEF Browser!RequestPasswordReset, IsSlice, SliceFields, Browser!Flags, SameUser
  <2> QED BY <1>0, <1>6, <2>2 DEF u
<1>7. CASE op = "confirmReset"
  <2>1. u = Browser!ConfirmPasswordReset(s, answer)
    BY <1>7 DEF Browser!Reduce
  <2> HIDE DEF u
  <2>2. SameUser(u, s)
    BY <2>1 DEF Browser!ConfirmPasswordReset, IsSlice, SliceFields, Browser!Flags, SameUser
  <2> QED BY <1>0, <1>7, <2>2 DEF u
<1>8. CASE op = "setup"
  <2>1. u = Browser!Setup2FA(s, answer)
    BY <1>8 DEF Browser!Reduce
  <2> HIDE DEF u
  <2>2. SameUser(u, s)
    BY <2>1 DEF Browser!Setup2FA, IsSlice, SliceFields, Browser!Flags, SameUser
  <2> QED BY <1>0, <1>8, <2>2 DEF u
<1>9. CASE op = "verifySetup"
  <2>1. u = Browser!VerifySetup2FA(s, answer)
    BY <1>9 DEF Browser!Reduce
  <2> HIDE DEF u
  <2>2. SameUser(u, s)
    BY <2>1 DEF Browser!VerifySetup2FA, IsSlice, SliceFields, Browser!Flags, SameUser
  <2> QED BY <1>0, <1>9, <2>2 DEF u
<1>10. CASE op = "status"
  <2>1. u = Browser!Get2FAStatus(s, answer, enabled2FA)
    BY <1>10 DEF Browser!Reduce
  <2> HIDE DEF u
  <2>2. SameUser(u, s)
    BY <2>1 DEF Browser!Get2FAStatus, IsSlice, SliceFields, Browser!Flags, SameUser
  <2> QED BY <1>0, <1>10, <2>2 DEF u
<1>11. CASE op = "regenerate"
  <2>1. u = Browser!RegenerateBackupCodes(s, answer)
    BY <1>11 DEF Browser!Reduce
  <2> HIDE DEF u
  <2>2. SameUser(u, s)
    BY <2>1 DEF Browser!RegenerateBackupCodes, IsSlice, SliceFields, Browser!Flags, SameUser
  <2> QED BY <1>0, <1>11, <2>2 DEF u
<1>12. CASE op = "disable"
  <2>1. u = Browser!Disable2FA(s, answer)
    BY <1>12 DEF Browser!Reduce
  <2> HIDE DEF u
  <2>2. SameUser(u, s)
    BY <2>1 DEF Browser!Disable2FA, IsSlice, SliceFields, Browser!Flags, SameUser
  <2> QED BY <1>0, <1>12, <2>2 DEF u
<1>13. CASE op = "balances"
  <2>1. u = Browser!FetchBalances(s, answer)
    BY <1>13 DEF Browser!Reduce
  <2> HIDE DEF u
  <2>2. SameUser(u, s)
    BY <2>1 DEF Browser!FetchBalances, IsSlice, SliceFields, Browser!Flags, SameUser
  <2> QED BY <1>0, <1>13, <2>2 DEF u
<1> QED
  BY <1>1, <1>2, <1>3, <1>4, <1>5, <1>6, <1>7, <1>8, <1>9, <1>10, <1>11, <1>12, <1>13
  DEF Browser!Ops

-----------------------------------------------------------------------------
(* The requests                                                            *)

LEMMA AnswersAre ==
    ASSUME NEW r, r.op \in Browser!Ops, NEW a \in Browser!Answers(r)
    PROVE  /\ a \in {"ok", "error", "challenge", "misnamed", "unauthorized"}
           /\ a = "challenge" => r.op = "login"
           /\ a = "misnamed" => r.op = "setup"
           /\ a = "unauthorized" => r.op = "balances"
           /\ r.op = "register" /\ a = "ok" => menuW.mockAuth
<1>1. CASE r.op \in {"recaptcha", "confirmReset", "verifySetup"}
  <2>1. Browser!Answers(r) = {"ok", "error"}
    BY <1>1 DEF Browser!Answers, Browser!Either, Browser!ConfirmResetAnswers,
                Browser!VerifySetup2FAAnswers
  <2> QED BY <1>1, <2>1
<1>2. CASE r.op = "register"
  <2>1. Browser!Answers(r) = Browser!RegisterAnswers
    BY <1>2 DEF Browser!Answers
  <2> QED BY <1>2, <2>1 DEF Browser!RegisterAnswers, Browser!Either
<1>3. CASE r.op = "verifyEmail"
  <2>1. Browser!Answers(r) = Browser!VerifyEmailAnswers
    BY <1>3 DEF Browser!Answers
  <2> QED BY <1>3, <2>1 DEF Browser!VerifyEmailAnswers, Browser!Either
<1>4. CASE r.op = "resend"
  <2>1. Browser!Answers(r) = Browser!ResendAnswers
    BY <1>4 DEF Browser!Answers
  <2> QED BY <1>4, <2>1 DEF Browser!ResendAnswers, Browser!Either
<1>5. CASE r.op = "login"
  <2>1. Browser!Answers(r) = Browser!LoginAnswers
    BY <1>5 DEF Browser!Answers
  <2> QED BY <1>5, <2>1 DEF Browser!LoginAnswers, Browser!Either
<1>6. CASE r.op = "requestReset"
  <2>1. Browser!Answers(r) = Browser!RequestResetAnswers
    BY <1>6 DEF Browser!Answers
  <2> QED BY <1>6, <2>1 DEF Browser!RequestResetAnswers, Browser!Either
<1>7. CASE r.op = "setup"
  <2>1. Browser!Answers(r) = Browser!Setup2FAAnswers
    BY <1>7 DEF Browser!Answers
  <2> QED BY <1>7, <2>1 DEF Browser!Setup2FAAnswers
<1>8. CASE r.op = "status"
  <2>1. Browser!Answers(r) = Browser!Get2FAStatusAnswers
    BY <1>8 DEF Browser!Answers
  <2> QED BY <1>8, <2>1 DEF Browser!Get2FAStatusAnswers, Browser!Either
<1>9. CASE r.op = "regenerate"
  <2>1. Browser!Answers(r) = Browser!RegenerateAnswers
    BY <1>9 DEF Browser!Answers
  <2> QED BY <1>9, <2>1 DEF Browser!RegenerateAnswers, Browser!Either
<1>10. CASE r.op = "disable"
  <2>1. Browser!Answers(r) = Browser!Disable2FAAnswers
    BY <1>10 DEF Browser!Answers
  <2> QED BY <1>10, <2>1 DEF Browser!Disable2FAAnswers, Browser!Either
<1>11. CASE r.op = "balances"
  <2>1. Browser!Answers(r) = Browser!BalancesAnswers(r.token)
    BY <1>11 DEF Browser!Answers
  <2> QED BY <1>11, <2>1 DEF Browser!BalancesAnswers
<1> QED
  BY <1>1, <1>2, <1>3, <1>4, <1>5, <1>6, <1>7, <1>8, <1>9, <1>10, <1>11 DEF Browser!Ops

\* A request that is sent now.
LEMMA RequestIs ==
    ASSUME ClientTypes, NEW t \in Tabs, NEW op \in Browser!Ops, NEW a \in Accounts,
           startedW + 1 <= menuW.calls
    PROVE  /\ Browser!Request(t, op, a) \in ClientRequest
           /\ Browser!Request(t, op, a).tab = t /\ Browser!Request(t, op, a).op = op
<1>1. /\ startedW \in Nat /\ menuW.calls \in Nat /\ startedW + 1 \in 1..menuW.calls
      /\ storedW \in Accounts \cup {Browser!Nobody}
  BY ClientAssumption DEF ClientTypes
<1> QED BY <1>1 DEF Browser!Request, ClientRequest

LEMMA SomeoneIs == Browser!Someone \in Accounts
BY ClientAssumption DEF Browser!Someone

\* A step of tab t.
LEMMA ClientStep ==
    ASSUME ClientIInv, NEW t \in Tabs, NEW s, IsSlice(s),
           slice' = [slice EXCEPT ![t] = s], menuW' = menuW,
           startedW' \in 0..menuW.calls, storedW' \in Accounts \cup {Browser!Nobody},
           page' \in [Tabs -> Browser!Pages], leaving' \subseteq Tabs,
           requests' \subseteq ClientRequest,
           Waiting(s, Flying(requests', t), t \in challenged'),
           \A u \in Tabs \ {t} : /\ Flying(requests, u) \subseteq Flying(requests', u)
                                 /\ u \in challenged => u \in challenged',
           \A u \in Tabs \ {t} : u \notin leaving' \cup foreign' =>
                                 u \notin leaving \cup foreign /\ storedW' = storedW,
           t \notin leaving' \cup foreign' => SignedInAs(s, storedW')
    PROVE  ClientIInv'
<1>0. /\ ClientTypes
      /\ \A u \in Tabs : Waiting(slice[u], Flying(requests, u), u \in challenged)
      /\ \A u \in Tabs \ (leaving \cup foreign) : SignedInAs(slice[u], storedW)
  BY DEF ClientIInv
<1>1. /\ DOMAIN slice' = Tabs /\ slice' = [u \in Tabs |-> slice'[u]] /\ slice'[t] = s
      /\ \A u \in Tabs \ {t} : slice'[u] = slice[u]
  BY <1>0 DEF ClientTypes
<1>2. ClientRequest' = ClientRequest
  BY DEF ClientRequest
<1>3. ClientTypes'
  <2>1. \A u \in Tabs : IsSlice(slice'[u])
    BY <1>0, <1>1 DEF ClientTypes
  <2> QED BY <1>0, <1>1, <1>2, <2>1 DEF ClientTypes
<1>4. ASSUME NEW u \in Tabs
      PROVE  Waiting(slice'[u], Flying(requests', u), u \in challenged')
  <2>1. CASE u = t
    BY <1>1, <2>1
  <2>2. CASE u # t
    <3>1. Waiting(slice'[u], Flying(requests, u), u \in challenged)
      BY <1>0, <1>1, <2>2
    <3>2. Flying(requests, u) \subseteq Flying(requests', u)
      BY <2>2
    <3>3. u \in challenged => u \in challenged'
      BY <2>2
    <3> QED BY <3>1, <3>2, <3>3 DEF Waiting
  <2> QED BY <2>1, <2>2
<1>5. ASSUME NEW u \in Tabs \ (leaving' \cup foreign')
      PROVE  SignedInAs(slice'[u], storedW')
  <2>1. CASE u = t
    BY <1>1, <2>1
  <2>2. CASE u # t
    BY <1>0, <1>1, <2>2
  <2> QED BY <2>1, <2>2
<1>6. \A u \in Tabs \ (leaving' \cup foreign') : SignedInAs(slice[u], storedW)'
  BY <1>5 DEF SignedInAs
<1> QED BY <1>3, <1>4, <1>6 DEF ClientIInv

\* Fetching changes nobody's account.
LEMMA PendingIsSame ==
    ASSUME NEW s, IsSlice(s), NEW op \in {"verifyEmail", "status", "setup", "balances"},
           NEW account, NEW enabled2FA
    PROVE  SameUser(Browser!Reduce(s, op, "pending", account, enabled2FA), s)
<1> DEFINE u == Browser!Reduce(s, op, "pending", account, enabled2FA)
<1>1. CASE op = "verifyEmail"
  <2>1. u = [s EXCEPT !.verification = "verifying"]
    BY <1>1 DEF Browser!Reduce, Browser!VerifyEmail
  <2> HIDE DEF u
  <2>2. SameUser(u, s)
    BY <2>1 DEF IsSlice, SliceFields, Browser!Flags, SameUser
  <2> QED BY <2>2 DEF u
<1>2. CASE op = "status"
  <2>1. u = Browser!Get2FAStatus(s, "pending", enabled2FA)
    BY <1>2 DEF Browser!Reduce
  <2> HIDE DEF u
  <2>2. SameUser(u, s)
    BY <2>1 DEF Browser!Get2FAStatus, IsSlice, SliceFields, Browser!Flags, SameUser
  <2> QED BY <2>2 DEF u
<1>3. CASE op = "setup"
  <2>1. u = Browser!Setup2FA(s, "pending")
    BY <1>3 DEF Browser!Reduce
  <2> HIDE DEF u
  <2>2. SameUser(u, s)
    BY <2>1 DEF Browser!Setup2FA, IsSlice, SliceFields, Browser!Flags, SameUser
  <2> QED BY <2>2 DEF u
<1>4. CASE op = "balances"
  <2>1. u = Browser!FetchBalances(s, "pending")
    BY <1>4 DEF Browser!Reduce
  <2> HIDE DEF u
  <2>2. SameUser(u, s)
    BY <2>1 DEF Browser!FetchBalances, IsSlice, SliceFields, Browser!Flags, SameUser
  <2> QED BY <2>2 DEF u
<1> QED BY <1>1, <1>2, <1>3, <1>4

LEMMA ReducePending ==
    ASSUME NEW s, NEW op \in Browser!Ops, NEW account \in Accounts, NEW enabled2FA \in BOOLEAN,
           NEW ops, NEW left, NEW after, IsSlice(s), Waiting(s, ops, after),
           op \in left, ops \subseteq left
    PROVE  LET u == Browser!Reduce(s, op, "pending", account, enabled2FA)
           IN IsSlice(u) /\ Waiting(u, left, after)
<1>1. PICK answer \in Answer : answer = "pending"
  BY DEF Answer
<1>2. /\ answer = "challenge" => op = "login" /\ after
      /\ answer = "misnamed" => op = "setup"
      /\ answer = "pending" => op \in left
      /\ \A o \in ops : o \in left \/ (o = op /\ answer # "pending")
      /\ after => after
  BY <1>1
<1> DEFINE u == Browser!Reduce(s, op, answer, account, enabled2FA)
<1>3. IsSlice(u) /\ Waiting(u, left, after)
  BY <1>2, ReduceKeeps
<1> QED BY <1>1, <1>3

\* Coming to a page with store s: what is fetched is in flight, nobody signs in.
LEMMA ArriveIs ==
    ASSUME ClientTypes, NEW t \in Tabs, NEW s, NEW p \in Browser!Pages, NEW rest,
           NEW after, IsSlice(s), Waiting(s, Flying(rest, t), after),
           rest \subseteq ClientRequest, Browser!Arrive(t, s, p, rest)
    PROVE  \E u : /\ IsSlice(u) /\ SameUser(u, s)
                  /\ slice' = [slice EXCEPT ![t] = u]
                  /\ Waiting(u, Flying(requests', t), after)
                  /\ startedW' \in 0..menuW.calls
                  /\ requests' \subseteq ClientRequest /\ rest \subseteq requests'
                  /\ page' \in [Tabs -> Browser!Pages]
<1> DEFINE v == Browser!Enter(s, p)
           w == Browser!Effects(v, p)
           ops == Flying(rest, t)
<1>1. IsSlice(v) /\ SameUser(v, s) /\ Waiting(v, ops, after)
  BY EnterKeeps
<1>2. /\ IsSlice(w) /\ SameUser(w, v) /\ Waiting(w, ops, after)
      /\ Browser!After(w, p) \in Browser!Pages
  <2> HIDE DEF v
  <2>1. IsSlice(w) /\ SameUser(w, v) /\ Waiting(w, ops, after)
    BY <1>1, EffectsKeep
  <2> HIDE DEF w, ops
  <2> QED BY <2>1, EffectsKeep
<1>3. SameUser(w, s)
  BY <1>1, <1>2 DEF SameUser
<1>4. page' = [page EXCEPT ![t] = Browser!After(w, p)]
  BY DEF Browser!Arrive
<1>5. page' \in [Tabs -> Browser!Pages]
  BY <1>2, <1>4 DEF ClientTypes
<1>6. startedW \in Nat /\ menuW.calls \in Nat /\ startedW <= menuW.calls
  BY ClientAssumption DEF ClientTypes
<1>7. CASE Browser!Fetched(p) = {}
  <2>1. /\ slice' = [slice EXCEPT ![t] = w] /\ requests' = rest
        /\ startedW' = startedW + Browser!Cardinality({})
    BY <1>7 DEF Browser!Arrive
  <2>2. Browser!Cardinality({}) = 0
    BY FS_EmptySet DEF Browser!Cardinality, Cardinality
  <2> HIDE DEF w, v
  <2>3. startedW' \in 0..menuW.calls
    BY <1>6, <2>1, <2>2
  <2>4. Waiting(w, Flying(requests', t), after)
    BY <1>2, <2>1
  <2>5. requests' \subseteq ClientRequest /\ rest \subseteq requests'
    BY <2>1
  <2> QED BY <1>2, <1>3, <1>5, <2>1, <2>3, <2>4, <2>5
<1>8. ASSUME NEW op \in {"verifyEmail", "status", "setup", "balances"},
             Browser!Fetched(p) = {op}
      PROVE  \E u : /\ IsSlice(u) /\ SameUser(u, s)
                    /\ slice' = [slice EXCEPT ![t] = u]
                    /\ Waiting(u, Flying(requests', t), after)
                    /\ startedW' \in 0..menuW.calls
                    /\ requests' \subseteq ClientRequest /\ rest \subseteq requests'
                    /\ page' \in [Tabs -> Browser!Pages]
  <2> DEFINE u == Browser!Reduce(w, op, "pending", Browser!Someone, FALSE)
             r == Browser!Request(t, op, Browser!Someone)
  <2>1. (CHOOSE o \in {op} : TRUE) = op
    OBVIOUS
  <2>2. /\ slice' = [slice EXCEPT ![t] = u]
        /\ requests' = rest \cup {Browser!Request(t, o, Browser!Someone) : o \in {op}}
        /\ startedW' = startedW + Browser!Cardinality({op})
        /\ startedW + Browser!Cardinality({op}) <= menuW.calls
    BY <1>8, <2>1 DEF Browser!Arrive
  <2>3. Browser!Cardinality({op}) = 1
    BY FS_Singleton DEF Browser!Cardinality, Cardinality
  <2>4. /\ r \in ClientRequest /\ r.tab = t /\ r.op = op
    BY <2>2, <2>3, RequestIs, SomeoneIs DEF Browser!Ops
  <2>5. requests' = rest \cup {r}
    BY <2>2
  <2>6. op \in Flying(requests', t) /\ Flying(rest, t) \subseteq Flying(requests', t)
    <3> HIDE DEF r
    <3> QED BY <2>4, <2>5 DEF Flying
  <2>7. "pending" \in Answer /\ FALSE \in BOOLEAN /\ op \in Browser!Ops
    BY DEF Answer, Browser!Ops
  <2> HIDE DEF w, v
  <2>8. IsSlice(u) /\ Waiting(u, Flying(requests', t), after)
    <3> DEFINE left == Flying(requests', t)
    <3>1. op \in left /\ ops \subseteq left
      BY <2>6
    <3> HIDE DEF left, ops
    <3>2. IsSlice(w) /\ Waiting(w, ops, after)
      BY <1>2
    <3>3. IsSlice(u) /\ Waiting(u, left, after)
      BY <2>7, <3>1, <3>2, SomeoneIs, ReducePending
    <3> QED BY <3>3 DEF left
  <2>9. SameUser(u, w)
    BY <1>8, <1>2, PendingIsSame DEF Browser!Ops
  <2>10. SameUser(u, s)
    BY <1>3, <2>9 DEF SameUser
  <2> HIDE DEF u, r
  <2>11. startedW' \in 0..menuW.calls
    BY <1>6, <2>2, <2>3
  <2> QED BY <1>5, <2>2, <2>4, <2>5, <2>8, <2>10, <2>11
<1>9. \/ Browser!Fetched(p) = {}
      \/ \E op \in {"verifyEmail", "status", "setup", "balances"} : Browser!Fetched(p) = {op}
  BY DEF Browser!Fetched, Browser!Pages
<1> QED BY <1>7, <1>8, <1>9

-----------------------------------------------------------------------------
(* Every step of the client                                                *)

LEMMA InitialIs ==
    ASSUME NEW a \in Accounts \cup {Browser!Nobody}, NEW ops, NEW after
    PROVE  /\ IsSlice(Browser!InitialState(a))
           /\ Waiting(Browser!InitialState(a), ops, after)
           /\ SignedInAs(Browser!InitialState(a), a)
<1> DEFINE u == Browser!InitialState(a)
<1>1. /\ u = [f \in SliceFields |-> u[f]]
      /\ u.authenticated = (a # Browser!Nobody) /\ u.token = a /\ u.user = Browser!Nobody
      /\ u.verification = "idle"
      /\ u.loading = FALSE /\ u.registered = FALSE /\ u.loginSuccess = FALSE
      /\ u.resending = FALSE /\ u.resent = FALSE /\ u.requesting = FALSE
      /\ u.requested = FALSE /\ u.confirming = FALSE /\ u.confirmed = FALSE
      /\ u.loading2FA = FALSE /\ u.setupToken = FALSE /\ u.enabled = FALSE
      /\ u.fetching = FALSE
  BY DEF Browser!InitialState, SliceFields, Browser!Flags
<1> HIDE DEF u
<1>2. IsSlice(u)
  BY <1>1 DEF IsSlice
<1>3. Waiting(u, ops, after)
  BY <1>1 DEF Waiting
<1>4. SignedInAs(u, a)
  BY <1>1 DEF SignedInAs
<1> QED BY <1>2, <1>3, <1>4 DEF u

LEMMA ClientInit == Browser!Init => ClientIInv
<1> SUFFICES ASSUME Browser!Init PROVE ClientIInv
  OBVIOUS
<1> DEFINE u == Browser!InitialState(Browser!Nobody)
<1>1. /\ menuW \in ClientScenarios /\ startedW = 0 /\ storedW = Browser!Nobody
      /\ page = [t \in Tabs |-> "login"] /\ leaving = {} /\ slice = [t \in Tabs |-> u]
      /\ requests = {} /\ challenged = {} /\ foreign = {}
  BY DEF Browser!Init
<1>2. IsSlice(u) /\ SignedInAs(u, Browser!Nobody)
  BY InitialIs
<1>3. ASSUME NEW t \in Tabs PROVE Waiting(u, Flying(requests, t), t \in challenged)
  BY InitialIs
<1> HIDE DEF u
<1>4. 0 \in 0..menuW.calls
  BY <1>1, ClientAssumption
<1>5. page \in [Tabs -> Browser!Pages]
  BY <1>1 DEF Browser!Pages
<1>6. ClientTypes
  BY <1>1, <1>2, <1>4, <1>5 DEF ClientTypes
<1> QED BY <1>1, <1>2, <1>3, <1>6 DEF ClientIInv

\* A form, a button or a timer of tab t.
LEMMA ClientSubmits ==
    ASSUME ClientIInv, NEW t \in Tabs, NEW p, NEW op \in Browser!Ops, NEW a \in Accounts,
           Browser!Submit(t, p, op, a)
    PROVE  ClientIInv'
<1> DEFINE s == slice[t]
           u == Browser!Reduce(s, op, "pending", a, FALSE)
           r == Browser!Request(t, op, a)
           after == t \in challenged
<1>0. /\ ClientTypes /\ IsSlice(s) /\ Waiting(s, Flying(requests, t), after)
      /\ t \notin leaving \cup foreign => SignedInAs(s, storedW)
  BY DEF ClientIInv, ClientTypes
<1>1. /\ startedW < menuW.calls /\ startedW' = startedW + 1
      /\ requests' = requests \cup {r} /\ slice' = [slice EXCEPT ![t] = u]
      /\ UNCHANGED <<menuW, storedW, page, leaving, challenged, foreign>>
  BY <1>0 DEF Browser!Submit, ClientTypes
<1>2. /\ startedW' \in 0..menuW.calls /\ startedW + 1 <= menuW.calls
  BY <1>0, <1>1, ClientAssumption DEF ClientTypes
<1>3. r \in ClientRequest /\ r.tab = t /\ r.op = op
  BY <1>0, <1>2, RequestIs
<1> HIDE DEF r, s, u
<1>4. /\ op \in Flying(requests', t) /\ Flying(requests, t) \subseteq Flying(requests', t)
      /\ \A v \in Tabs \ {t} : Flying(requests, v) \subseteq Flying(requests', v)
  BY <1>1, <1>3 DEF Flying
<1>5. requests' \subseteq ClientRequest
  BY <1>0, <1>1, <1>3 DEF ClientTypes
<1>6. IsSlice(u) /\ Waiting(u, Flying(requests', t), after)
  <2> DEFINE ops == Flying(requests, t)
             left == Flying(requests', t)
  <2>1. Waiting(s, ops, after) /\ op \in left /\ ops \subseteq left /\ FALSE \in BOOLEAN
    BY <1>0, <1>4
  <2> HIDE DEF ops, left
  <2>2. IsSlice(u) /\ Waiting(u, left, after)
    BY <1>0, <2>1, ReducePending DEF u
  <2> QED BY <2>2 DEF left
<1>7. ASSUME t \notin leaving \cup foreign PROVE SignedInAs(u, storedW)
  <2>1. SignedInAs(s, storedW)
    BY <1>0, <1>7
  <2>2. PICK answer \in Answer : answer = "pending"
    BY DEF Answer
  <2>3. /\ op = "register" /\ answer = "ok" => menuW.mockAuth
        /\ answer = "challenge" => op = "login"
        /\ answer = "misnamed" => op = "setup"
        /\ ~(op = "login" /\ answer = "ok")
    BY <2>2
  <2>4. SignedInAs(Browser!Reduce(s, op, answer, a, FALSE),
                   IF op = "login" /\ answer = "ok" THEN a ELSE storedW)
    BY <1>0, <2>1, <2>3, ReduceSigns
  <2> QED BY <2>2, <2>3, <2>4 DEF u
<1>8. /\ menuW' = menuW /\ storedW' \in Accounts \cup {Browser!Nobody}
      /\ page' \in [Tabs -> Browser!Pages] /\ leaving' \subseteq Tabs
  BY <1>0, <1>1 DEF ClientTypes
<1>9. Waiting(u, Flying(requests', t), t \in challenged')
  BY <1>1, <1>6
<1>10. \A v \in Tabs \ {t} : /\ Flying(requests, v) \subseteq Flying(requests', v)
                             /\ v \in challenged => v \in challenged'
  BY <1>1, <1>4
<1>11. \A v \in Tabs \ {t} : v \notin leaving' \cup foreign' =>
                             v \notin leaving \cup foreign /\ storedW' = storedW
  BY <1>1
<1>12. t \notin leaving' \cup foreign' => SignedInAs(u, storedW')
  BY <1>1, <1>7
<1> QED
  BY <1>1, <1>2, <1>5, <1>6, <1>8, <1>9, <1>10, <1>11, <1>12, ClientStep

\* A link or the Back button.
LEMMA ClientNavigates ==
    ASSUME ClientIInv, NEW t \in Tabs, NEW p \in Browser!Pages, Browser!Navigate(t, p)
    PROVE  ClientIInv'
<1> DEFINE s == Browser!Leave(slice[t], page[t])
           rest == Browser!Unmounted(t)
           after == t \in challenged
<1>0. /\ ClientTypes /\ IsSlice(slice[t])
      /\ Waiting(slice[t], Flying(requests, t), after)
      /\ t \notin leaving \cup foreign => SignedInAs(slice[t], storedW)
  BY DEF ClientIInv, ClientTypes
<1>1. /\ Browser!Arrive(t, s, p, rest)
      /\ UNCHANGED <<menuW, storedW, leaving, challenged, foreign>>
  BY DEF Browser!Navigate
<1>2. /\ rest \subseteq ClientRequest
      /\ \A v : Flying(rest, v) = Flying(requests, v)
  <2>1. ASSUME NEW r \in requests
        PROVE  LET q == IF r.tab = t THEN [r EXCEPT !.mounted = FALSE] ELSE r
               IN q \in ClientRequest /\ q.tab = r.tab /\ q.op = r.op
    BY <1>0 DEF ClientTypes, ClientRequest
  <2>2. rest \subseteq ClientRequest
    BY <2>1 DEF Browser!Unmounted
  <2>3. ASSUME NEW v PROVE Flying(rest, v) = Flying(requests, v)
    <3> DEFINE Now(r) == IF r.tab = t THEN [r EXCEPT !.mounted = FALSE] ELSE r
    <3>1. rest = {Now(r) : r \in requests}
      BY DEF Browser!Unmounted
    <3>2. \A r \in requests : Now(r).tab = r.tab /\ Now(r).op = r.op
      BY <2>1
    <3> HIDE DEF Now, rest
    <3>3. ASSUME NEW op \in Flying(rest, v) PROVE op \in Flying(requests, v)
      BY <3>1, <3>2, <3>3 DEF Flying
    <3>4. ASSUME NEW op \in Flying(requests, v) PROVE op \in Flying(rest, v)
      BY <3>1, <3>2, <3>4 DEF Flying
    <3> QED BY <3>3, <3>4
  <2> QED BY <2>2, <2>3
<1>3. IsSlice(s) /\ SameUser(s, slice[t]) /\ Waiting(s, Flying(requests, t), after)
  <2> DEFINE ops == Flying(requests, t)
  <2>1. Waiting(slice[t], ops, after)
    BY <1>0
  <2> HIDE DEF ops
  <2>2. IsSlice(s) /\ SameUser(s, slice[t]) /\ Waiting(s, ops, after)
    BY <1>0, <2>1, LeaveKeeps
  <2> QED BY <2>2 DEF ops
<1>4. Waiting(s, Flying(rest, t), after)
  BY <1>2, <1>3
<1> HIDE DEF s, rest
<1>5. PICK u : /\ IsSlice(u) /\ SameUser(u, s)
               /\ slice' = [slice EXCEPT ![t] = u]
               /\ Waiting(u, Flying(requests', t), after)
               /\ startedW' \in 0..menuW.calls
               /\ requests' \subseteq ClientRequest /\ rest \subseteq requests'
               /\ page' \in [Tabs -> Browser!Pages]
  BY <1>0, <1>1, <1>2, <1>3, <1>4, ArriveIs
<1>6. /\ menuW' = menuW /\ storedW' \in Accounts \cup {Browser!Nobody}
      /\ leaving' \subseteq Tabs
  BY <1>0, <1>1 DEF ClientTypes
<1>7. Waiting(u, Flying(requests', t), t \in challenged')
  BY <1>1, <1>5
<1>8. ASSUME NEW v \in Tabs \ {t}
      PROVE  Flying(requests, v) \subseteq Flying(requests', v)
  <2>1. Flying(rest, v) \subseteq Flying(requests', v)
    BY <1>5 DEF Flying
  <2> QED BY <1>2, <2>1
<1>9. \A v \in Tabs \ {t} : /\ Flying(requests, v) \subseteq Flying(requests', v)
                            /\ v \in challenged => v \in challenged'
  BY <1>1, <1>8
<1>10. \A v \in Tabs \ {t} : v \notin leaving' \cup foreign' =>
                             v \notin leaving \cup foreign /\ storedW' = storedW
  BY <1>1
<1>11. t \notin leaving' \cup foreign' => SignedInAs(u, storedW')
  BY <1>0, <1>1, <1>3, <1>5 DEF SameUser, SignedInAs
<1> QED BY <1>5, <1>6, <1>7, <1>9, <1>10, <1>11, ClientStep

\* A reload: the tab's requests are gone, and its store knows what is stored.
LEMMA ClientLoads ==
    ASSUME ClientIInv, NEW t \in Tabs, NEW p \in Browser!Pages, Browser!Load(t, p)
    PROVE  ClientIInv'
<1> DEFINE s == Browser!InitialState(storedW)
           rest == requests \ Browser!InFlight(t, Browser!Ops)
<1>0. ClientTypes /\ storedW \in Accounts \cup {Browser!Nobody}
  BY DEF ClientIInv, ClientTypes
<1>1. /\ Browser!Arrive(t, s, p, rest)
      /\ leaving' = leaving \ {t} /\ challenged' = challenged \ {t}
      /\ foreign' = foreign \ {t} /\ UNCHANGED <<menuW, storedW>>
  BY DEF Browser!Load
<1>2. rest \subseteq ClientRequest
  BY <1>0 DEF ClientTypes
<1>3. ASSUME NEW v \in Tabs \ {t} PROVE Flying(requests, v) \subseteq Flying(rest, v)
  BY DEF Flying, Browser!InFlight
<1>4. IsSlice(s) /\ SignedInAs(s, storedW) /\ Waiting(s, Flying(rest, t), FALSE)
  <2> DEFINE ops == Flying(rest, t)
  <2> HIDE DEF ops
  <2>1. IsSlice(s) /\ SignedInAs(s, storedW) /\ Waiting(s, ops, FALSE)
    BY <1>0, InitialIs
  <2> QED BY <2>1 DEF ops
<1> HIDE DEF s, rest
<1>5. PICK u : /\ IsSlice(u) /\ SameUser(u, s)
               /\ slice' = [slice EXCEPT ![t] = u]
               /\ Waiting(u, Flying(requests', t), FALSE)
               /\ startedW' \in 0..menuW.calls
               /\ requests' \subseteq ClientRequest /\ rest \subseteq requests'
               /\ page' \in [Tabs -> Browser!Pages]
  BY <1>0, <1>1, <1>2, <1>4, ArriveIs
<1>6. /\ menuW' = menuW /\ storedW' \in Accounts \cup {Browser!Nobody}
      /\ leaving' \subseteq Tabs
  BY <1>0, <1>1 DEF ClientTypes
<1>7. Waiting(u, Flying(requests', t), t \in challenged')
  BY <1>5 DEF Waiting
<1>8. ASSUME NEW v \in Tabs \ {t}
      PROVE  Flying(requests, v) \subseteq Flying(requests', v)
  <2>1. Flying(rest, v) \subseteq Flying(requests', v)
    BY <1>5 DEF Flying
  <2> QED BY <1>3, <2>1
<1>9. \A v \in Tabs \ {t} : /\ Flying(requests, v) \subseteq Flying(requests', v)
                            /\ v \in challenged => v \in challenged'
  BY <1>1, <1>8
<1>10. \A v \in Tabs \ {t} : v \notin leaving' \cup foreign' =>
                             v \notin leaving \cup foreign /\ storedW' = storedW
  BY <1>1
<1>11. t \notin leaving' \cup foreign' => SignedInAs(u, storedW')
  BY <1>1, <1>4, <1>5 DEF SameUser, SignedInAs
<1> QED BY <1>5, <1>6, <1>7, <1>9, <1>10, <1>11, ClientStep

\* Five seconds after a mail was sent again.
LEMMA ClientClears ==
    ASSUME ClientIInv, NEW t \in Tabs, Browser!ClearResent(t)
    PROVE  ClientIInv'
<1> DEFINE s == slice[t]
           u == [s EXCEPT !.resent = FALSE]
<1>0. /\ ClientTypes /\ IsSlice(s) /\ Waiting(s, Flying(requests, t), t \in challenged)
      /\ t \notin leaving \cup foreign => SignedInAs(s, storedW)
  BY DEF ClientIInv, ClientTypes
<1>1. /\ slice' = [slice EXCEPT ![t] = u]
      /\ UNCHANGED <<menuW, startedW, storedW, page, leaving, requests, challenged, foreign>>
  BY <1>0 DEF Browser!ClearResent, ClientTypes
<1> HIDE DEF s
<1>2. IsSlice(u)
  BY <1>0 DEF IsSlice, SliceFields, Browser!Flags
<1>3. /\ SameUser(u, s) /\ u.loading = s.loading /\ u.verification = s.verification
      /\ u.resending = s.resending /\ u.requesting = s.requesting
      /\ u.confirming = s.confirming /\ u.loading2FA = s.loading2FA /\ u.fetching = s.fetching
  BY <1>0 DEF IsSlice, SliceFields, Browser!Flags, SameUser
<1> HIDE DEF u
<1>4. Waiting(u, Flying(requests', t), t \in challenged')
  <2> DEFINE ops == Flying(requests, t)
  <2>1. Waiting(s, ops, t \in challenged) /\ Flying(requests', t) = ops
    BY <1>0, <1>1
  <2> HIDE DEF ops
  <2> QED BY <1>1, <1>3, <2>1 DEF Waiting
<1>5. t \notin leaving' \cup foreign' => SignedInAs(u, storedW')
  BY <1>0, <1>1, <1>3 DEF SameUser, SignedInAs
<1>6. /\ menuW' = menuW /\ startedW' \in 0..menuW.calls
      /\ storedW' \in Accounts \cup {Browser!Nobody}
      /\ page' \in [Tabs -> Browser!Pages] /\ leaving' \subseteq Tabs
      /\ requests' \subseteq ClientRequest
  BY <1>0, <1>1 DEF ClientTypes
<1>7. \A v \in Tabs \ {t} : /\ Flying(requests, v) \subseteq Flying(requests', v)
                            /\ v \in challenged => v \in challenged'
  BY <1>1
<1>8. \A v \in Tabs \ {t} : v \notin leaving' \cup foreign' =>
                            v \notin leaving \cup foreign /\ storedW' = storedW
  BY <1>1
<1> QED BY <1>1, <1>2, <1>4, <1>5, <1>6, <1>7, <1>8, ClientStep

\* reCAPTCHA has answered: nothing waited for it, and the registration that is
\* sent is waited for.
LEMMA ClientSends ==
    ASSUME ClientIInv, NEW r \in requests, Browser!SendRegistration(r)
    PROVE  ClientIInv'
<1> DEFINE t == r.tab
           s == slice[t]
           u == Browser!Reduce(s, "register", "pending", Browser!Someone, FALSE)
           q == Browser!Request(t, "register", Browser!Someone)
           after == t \in challenged
           ops == Flying(requests, t)
           left == Flying(requests', t)
<1>0. /\ ClientTypes /\ t \in Tabs
  BY DEF ClientIInv, ClientTypes, ClientRequest
<1>1. /\ IsSlice(s) /\ Waiting(s, ops, after)
      /\ t \notin leaving \cup foreign => SignedInAs(s, storedW)
  BY <1>0 DEF ClientIInv, ClientTypes
<1>2. /\ startedW < menuW.calls /\ startedW' = startedW + 1 /\ r.op = "recaptcha"
      /\ requests' = (requests \ {r}) \cup {q} /\ slice' = [slice EXCEPT ![t] = u]
      /\ UNCHANGED <<menuW, storedW, page, leaving, challenged, foreign>>
  BY <1>0 DEF Browser!SendRegistration, Browser!Reduce, ClientTypes
<1>3. startedW' \in 0..menuW.calls /\ startedW + 1 <= menuW.calls
  BY <1>0, <1>2, ClientAssumption DEF ClientTypes
<1>4. "register" \in Browser!Ops /\ Browser!Someone \in Accounts
  BY SomeoneIs DEF Browser!Ops
<1> HIDE DEF t, s, u
<1>5. q \in ClientRequest /\ q.tab = t /\ q.op = "register"
  BY <1>0, <1>3, <1>4, RequestIs
<1> HIDE DEF q
<1>6. /\ "register" \in left /\ (ops \ {"recaptcha"}) \subseteq left
      /\ \A v \in Tabs \ {t} : Flying(requests, v) \subseteq Flying(requests', v)
  BY <1>2, <1>5 DEF Flying, t
<1>7. requests' \subseteq ClientRequest
  BY <1>0, <1>2, <1>5 DEF ClientTypes
<1> HIDE DEF ops, left
<1>8. Waiting(s, ops \ {"recaptcha"}, after)
  BY <1>1 DEF Waiting, TwoFactorOps
<1>9. IsSlice(u) /\ Waiting(u, left, after)
  <2> DEFINE some == ops \ {"recaptcha"}
  <2>1. Waiting(s, some, after) /\ some \subseteq left /\ FALSE \in BOOLEAN
    BY <1>6, <1>8
  <2> HIDE DEF some
  <2> QED BY <1>1, <1>4, <1>6, <2>1, ReducePending DEF u
<1>10. ASSUME t \notin leaving \cup foreign PROVE SignedInAs(u, storedW)
  <2>1. SignedInAs(s, storedW)
    BY <1>1, <1>10
  <2>2. u = Browser!Register(s, "pending")
    BY DEF Browser!Reduce, u
  <2>3. u = [s EXCEPT !.loading = TRUE, !.registered = FALSE]
    BY <2>2 DEF Browser!Register
  <2>4. SameUser(u, s)
    BY <1>1, <2>3 DEF IsSlice, SliceFields, Browser!Flags, SameUser
  <2> QED BY <2>1, <2>4 DEF SameUser, SignedInAs
<1>11. /\ menuW' = menuW /\ storedW' \in Accounts \cup {Browser!Nobody}
       /\ page' \in [Tabs -> Browser!Pages] /\ leaving' \subseteq Tabs
  BY <1>0, <1>2 DEF ClientTypes
<1>12. Waiting(u, Flying(requests', t), t \in challenged')
  BY <1>2, <1>9 DEF left
<1>13. \A v \in Tabs \ {t} : /\ Flying(requests, v) \subseteq Flying(requests', v)
                             /\ v \in challenged => v \in challenged'
  BY <1>2, <1>6
<1>14. \A v \in Tabs \ {t} : v \notin leaving' \cup foreign' =>
                             v \notin leaving \cup foreign /\ storedW' = storedW
  BY <1>2
<1>15. t \notin leaving' \cup foreign' => SignedInAs(u, storedW')
  BY <1>2, <1>10
<1> QED
  BY <1>0, <1>2, <1>3, <1>7, <1>9, <1>11, <1>12, <1>13, <1>14, <1>15, ClientStep

\* An answer: what it stops waits for it no more, a challenge apart; a login
\* makes every other tab foreign.
LEMMA ClientSettles ==
    ASSUME ClientIInv, NEW r \in requests, NEW answer \in Browser!Answers(r),
           NEW enabled2FA \in BOOLEAN, Browser!Settle(r, answer, enabled2FA)
    PROVE  ClientIInv'
<1> DEFINE t == r.tab
           s == slice[t]
           now == Browser!Reduce(s, r.op, answer, r.account, enabled2FA)
           u == Browser!Effects(now, page[t])
           signedIn == r.op = "login" /\ answer = "ok"
           ops == Flying(requests, t)
           left == Flying(requests', t)
           after == t \in challenged
           then == t \in challenged'
<1>0. /\ ClientTypes /\ t \in Tabs /\ r.op \in Browser!Ops /\ r.account \in Accounts
      /\ page[t] \in Browser!Pages
  BY DEF ClientIInv, ClientTypes, ClientRequest
<1>1. /\ IsSlice(s) /\ Waiting(s, ops, after)
      /\ t \notin leaving \cup foreign => SignedInAs(s, storedW)
  BY <1>0 DEF ClientIInv, ClientTypes
<1>2. /\ slice' = [slice EXCEPT ![t] = u]
      /\ page' = [page EXCEPT ![t] = Browser!After(now, page[t])]
      /\ storedW' = IF signedIn THEN r.account ELSE storedW
      /\ foreign' = IF signedIn THEN foreign \cup (Tabs \ {t}) ELSE foreign
      /\ challenged' = IF answer = "challenge" THEN challenged \cup {t} ELSE challenged
      /\ requests' = requests \ {r} /\ answer # "unauthorized"
      /\ UNCHANGED <<menuW, startedW, leaving>>
  BY DEF Browser!Settle
<1>3. /\ answer \in Answer
      /\ answer = "challenge" => r.op = "login"
      /\ answer = "misnamed" => r.op = "setup"
      /\ r.op = "register" /\ answer = "ok" => menuW.mockAuth
      /\ answer # "pending"
  BY <1>0, <1>2, AnswersAre DEF Answer
<1>4. \A o \in ops : o \in left \/ o = r.op
  BY <1>2 DEF Flying
<1>5. \A v \in Tabs \ {t} : /\ Flying(requests, v) \subseteq Flying(requests', v)
                            /\ v \in challenged => v \in challenged'
  BY <1>2 DEF Flying
<1>6. (after => then) /\ (answer = "challenge" => then)
  BY <1>2
<1> HIDE DEF t, s, ops, left, after, then
<1>7. IsSlice(now) /\ Waiting(now, left, then)
  <2>1. /\ answer = "challenge" => r.op = "login" /\ then
        /\ answer = "pending" => r.op \in left
        /\ \A o \in ops : o \in left \/ (o = r.op /\ answer # "pending")
    BY <1>3, <1>4, <1>6
  <2>2. PICK op \in Browser!Ops, account \in Accounts : op = r.op /\ account = r.account
    BY <1>0
  <2>3. /\ answer = "challenge" => op = "login" /\ then
        /\ answer = "misnamed" => op = "setup"
        /\ answer = "pending" => op \in left
        /\ \A o \in ops : o \in left \/ (o = op /\ answer # "pending")
    BY <1>3, <2>1, <2>2
  <2>4. answer \in Answer /\ (after => then) /\ IsSlice(s) /\ Waiting(s, ops, after)
    BY <1>1, <1>3, <1>6
  <2>5. LET v == Browser!Reduce(s, op, answer, account, enabled2FA)
        IN IsSlice(v) /\ Waiting(v, left, then)
    BY <2>3, <2>4, ReduceKeeps
  <2> QED BY <2>2, <2>5
<1> HIDE DEF now
<1>8. /\ IsSlice(u) /\ SameUser(u, now) /\ Waiting(u, left, then)
      /\ Browser!After(now, page[t]) \in Browser!Pages
  BY <1>0, <1>7, EffectsKeep
<1> HIDE DEF u
<1>9. ASSUME t \notin leaving \cup foreign PROVE SignedInAs(u, storedW')
  <2>1. SignedInAs(s, storedW)
    BY <1>1, <1>9
  <2>2. SignedInAs(now, IF signedIn THEN r.account ELSE storedW)
    BY <1>0, <1>1, <1>3, <2>1, ReduceSigns DEF now
  <2>3. SignedInAs(now, storedW')
    BY <1>2, <2>2
  <2> QED BY <1>8, <2>3 DEF SameUser, SignedInAs
<1>10. /\ menuW' = menuW /\ startedW' \in 0..menuW.calls
       /\ storedW' \in Accounts \cup {Browser!Nobody}
       /\ page' \in [Tabs -> Browser!Pages] /\ leaving' \subseteq Tabs
       /\ requests' \subseteq ClientRequest
  BY <1>0, <1>2, <1>8 DEF ClientTypes
<1>11. Waiting(u, Flying(requests', t), t \in challenged')
  BY <1>8 DEF left, then
<1>12. \A v \in Tabs \ {t} : v \notin leaving' \cup foreign' =>
                             v \notin leaving \cup foreign /\ storedW' = storedW
  BY <1>2
<1>13. t \notin leaving' \cup foreign' => SignedInAs(u, storedW')
  BY <1>2, <1>9
<1> QED
  BY <1>0, <1>2, <1>5, <1>8, <1>10, <1>11, <1>12, <1>13, ClientStep

\* A 401 to a wallet request: its tab is told to leave, and every other is foreign.
LEMMA ClientSignsOut ==
    ASSUME ClientIInv, NEW r \in requests, "unauthorized" \in Browser!Answers(r),
           Browser!SignOut(r)
    PROVE  ClientIInv'
<1> DEFINE t == r.tab
           s == slice[t]
           u == Browser!Reduce(s, "balances", "error", r.account, FALSE)
           ops == Flying(requests, t)
           left == Flying(requests', t)
           after == t \in challenged
<1>0. /\ ClientTypes /\ t \in Tabs /\ r.op \in Browser!Ops /\ r.account \in Accounts
  BY DEF ClientIInv, ClientTypes, ClientRequest
<1>1. IsSlice(s) /\ Waiting(s, ops, after)
  BY <1>0 DEF ClientIInv, ClientTypes
<1>2. /\ slice' = [slice EXCEPT ![t] = u] /\ storedW' = Browser!Nobody
      /\ leaving' = leaving \cup {t} /\ foreign' = foreign \cup (Tabs \ {t})
      /\ requests' = requests \ {r} /\ UNCHANGED <<menuW, startedW, page, challenged>>
  BY <1>0 DEF Browser!SignOut, Browser!Reduce, ClientTypes
<1>3. PICK a \in Browser!Answers(r) : a = "unauthorized"
  OBVIOUS
<1>4. r.op = "balances"
  BY <1>0, <1>3, AnswersAre
<1>5. \A o \in ops : o \in left \/ o = "balances"
  BY <1>2, <1>4 DEF Flying
<1>6. \A v \in Tabs \ {t} : /\ Flying(requests, v) \subseteq Flying(requests', v)
                            /\ v \in challenged => v \in challenged'
  BY <1>2 DEF Flying
<1> HIDE DEF t, s, ops, left, after
<1>7. IsSlice(u) /\ Waiting(u, left, after)
  <2>1. PICK answer \in Answer : answer = "error"
    BY DEF Answer
  <2>2. PICK op \in Browser!Ops, account \in Accounts :
          op = "balances" /\ account = r.account
    BY <1>0 DEF Browser!Ops
  <2>3. /\ answer = "challenge" => op = "login" /\ after
        /\ answer = "misnamed" => op = "setup"
        /\ answer = "pending" => op \in left
        /\ \A o \in ops : o \in left \/ (o = op /\ answer # "pending")
        /\ (after => after) /\ IsSlice(s) /\ Waiting(s, ops, after)
    BY <1>1, <1>5, <2>1, <2>2
  <2>4. PICK enabled2FA \in BOOLEAN : enabled2FA = FALSE
    OBVIOUS
  <2>5. LET v == Browser!Reduce(s, op, answer, account, enabled2FA)
        IN IsSlice(v) /\ Waiting(v, left, after)
    BY <2>3, ReduceKeeps
  <2> QED BY <2>1, <2>2, <2>4, <2>5
<1> HIDE DEF u
<1>8. /\ menuW' = menuW /\ startedW' \in 0..menuW.calls
      /\ storedW' \in Accounts \cup {Browser!Nobody}
      /\ page' \in [Tabs -> Browser!Pages] /\ leaving' \subseteq Tabs
      /\ requests' \subseteq ClientRequest
  BY <1>0, <1>2 DEF ClientTypes
<1>9. Waiting(u, Flying(requests', t), t \in challenged')
  BY <1>2, <1>7 DEF left, after
<1>10. \A v \in Tabs \ {t} : v \notin leaving' \cup foreign' =>
                             v \notin leaving \cup foreign /\ storedW' = storedW
  BY <1>2
<1>11. t \notin leaving' \cup foreign' => SignedInAs(u, storedW')
  BY <1>2
<1> QED
  BY <1>0, <1>2, <1>6, <1>7, <1>8, <1>9, <1>10, <1>11, ClientStep

LEMMA ClientNext == ClientIInv /\ [Browser!Next]_varsW => ClientIInv'
<1> SUFFICES ASSUME ClientIInv, [Browser!Next]_varsW PROVE ClientIInv'
  OBVIOUS
<1>0. menuW.tabs \subseteq Tabs /\ Browser!Someone \in Accounts
  BY ClientAssumption, SomeoneIs DEF ClientIInv, ClientTypes
<1>1. ASSUME NEW t \in menuW.tabs, NEW p \in Browser!Pages, Browser!Navigate(t, p)
      PROVE  ClientIInv'
  BY <1>0, <1>1, ClientNavigates
<1>2. ASSUME NEW t \in menuW.tabs, NEW p \in Browser!Pages, Browser!Load(t, p)
      PROVE  ClientIInv'
  BY <1>0, <1>2, ClientLoads
<1>3. ASSUME NEW t \in menuW.tabs,
             \/ Browser!SubmitRegister(t)
             \/ \E account \in Accounts : Browser!SubmitLogin(t, account)
             \/ \E p \in {"verify", "verifyLink"} : Browser!ResendVerification(t, p)
             \/ Browser!SubmitForgotPassword(t) \/ Browser!SubmitResetPassword(t)
             \/ Browser!SubmitSetupCode(t) \/ Browser!SubmitRegenerate(t)
             \/ Browser!SubmitDisable(t) \/ Browser!RefreshBalances(t)
      PROVE  ClientIInv'
  <2>1. \A p : \A op \in Browser!Ops : \A account \in Accounts :
          Browser!Submit(t, p, op, account) => ClientIInv'
    BY <1>0, ClientSubmits
  <2> QED BY <1>0, <1>3, <2>1 DEF Browser!SubmitRegister, Browser!SubmitLogin,
         Browser!ResendVerification, Browser!SubmitForgotPassword, Browser!SubmitResetPassword,
         Browser!SubmitSetupCode, Browser!SubmitRegenerate, Browser!SubmitDisable,
         Browser!RefreshBalances, Browser!Ops
<1>4. ASSUME NEW t \in menuW.tabs, Browser!ClearResent(t) PROVE ClientIInv'
  BY <1>0, <1>4, ClientClears
<1>5. ASSUME NEW r \in requests, Browser!SendRegistration(r) PROVE ClientIInv'
  BY <1>5, ClientSends
<1>6. ASSUME NEW r \in requests, NEW answer \in Browser!Answers(r),
             NEW enabled2FA \in BOOLEAN, Browser!Settle(r, answer, enabled2FA)
      PROVE  ClientIInv'
  BY <1>6, ClientSettles
<1>7. ASSUME NEW r \in requests, "unauthorized" \in Browser!Answers(r), Browser!SignOut(r)
      PROVE  ClientIInv'
  BY <1>7, ClientSignsOut
<1>8. CASE UNCHANGED varsW
  BY <1>8 DEF varsW, ClientIInv, ClientTypes, ClientRequest, Waiting, Flying, SignedInAs
<1> QED BY <1>1, <1>2, <1>3, <1>4, <1>5, <1>6, <1>7, <1>8 DEF Browser!Next

LEMMA ClientStaysSound == PlatformSpec => []ClientIInv
<1>1. PlatformInit => ClientIInv
  BY ClientInit DEF PlatformInit
<1>2. ClientIInv /\ [PlatformNext]_platformVars => ClientIInv'
  BY ClientNext, PartSteps
<1> QED BY <1>1, <1>2, PTL DEF PlatformSpec

\* authSlice and walletSlice: a spinner turns only while a request that can stop it
\* is in flight, on whatever pages the user goes back and forth; a login that was
\* answered with a challenge is the exception.
THEOREM SpinnersStop == PlatformSpec => []SpinnersEnd
<1>1. ClientIInv => SpinnersEnd
  <2> SUFFICES ASSUME ClientIInv, NEW t \in Tabs
               PROVE  /\ t \in challenged \/ (slice[t].loading =>
                           Browser!InFlight(t, {"register", "login"}) # {})
                      /\ slice[t].verification = "verifying" =>
                           Browser!InFlight(t, {"verifyEmail"}) # {}
                      /\ slice[t].resending => Browser!InFlight(t, {"resend"}) # {}
                      /\ slice[t].requesting => Browser!InFlight(t, {"requestReset"}) # {}
                      /\ slice[t].confirming => Browser!InFlight(t, {"confirmReset"}) # {}
                      /\ slice[t].loading2FA => Browser!InFlight(t, TwoFactorOps) # {}
                      /\ slice[t].fetching => Browser!InFlight(t, {"balances"}) # {}
    BY DEF SpinnersEnd, Browser!SpinnersEnd, TwoFactorOps
  <2>1. Waiting(slice[t], Flying(requests, t), t \in challenged)
    BY DEF ClientIInv
  <2>2. ASSUME NEW ops, NEW op \in ops, op \in Flying(requests, t)
        PROVE  Browser!InFlight(t, ops) # {}
    BY <2>2 DEF Flying, Browser!InFlight
  <2> DEFINE some == Flying(requests, t)
  <2> HIDE DEF some
  <2>3. Waiting(slice[t], some, t \in challenged)
    BY <2>1 DEF some
  <2>4. \A ops : \A op \in ops : op \in some => Browser!InFlight(t, ops) # {}
    BY <2>2 DEF some
  <2> QED BY <2>3, <2>4 DEF Waiting
<1> QED BY <1>1, ClientStaysSound, PTL

\* authSlice and the 401 handler of walletApi: a tab that is signed in has the account
\* whose token localStorage holds, unless another tab wrote there or it is leaving.
THEOREM SessionsAgree == PlatformSpec => []SignedInIsStored
<1>1. ClientIInv => SignedInIsStored
  BY DEF ClientIInv, SignedInAs, SignedInIsStored, Browser!SignedInIsStored
<1> QED BY <1>1, ClientStaysSound, PTL

-----------------------------------------------------------------------------
(* Types.  A row's address or IBAN is nobody else's.                       *)

FiatInserting == {c \in FiatCalls : pcF[c] = "insertAccount"}

\* Numbers of accounts are numbers of the calls that add them, and are used once;
\* deposits are numbered as they come.
FiatUnique ==
    /\ menuF \in FiatScenarios /\ startedF \in 0..menuF.calls
    /\ \A a \in accounts : a.iban \in Ibans /\ a.id <= startedF
    /\ \A a, b \in accounts : a.id = b.id \/ a.iban = b.iban => a = b
    /\ \A c \in FiatInserting :
         /\ memF[c].iban \in Ibans /\ memF[c].n <= startedF
         /\ \A a \in accounts : a.id # memF[c].n
    /\ \A c, d \in FiatInserting : memF[c].n = memF[d].n => c = d
    /\ \A d \in deposits : d.id <= Cardinality(deposits)
    /\ \A d, e \in deposits : d.id = e.id => d = e
    /\ overlap \in BOOLEAN

LEMMA FiatUniqueInit == Fiat!Init => FiatUnique
<1> SUFFICES ASSUME Fiat!Init PROVE FiatUnique
  OBVIOUS
<1>1. menuF \in FiatScenarios /\ startedF = 0 /\ menuF.calls \in Nat
  BY FiatAssumption DEF Fiat!Init
<1>2. overlap \in BOOLEAN /\ accounts = {} /\ deposits = {} /\ FiatInserting = {}
  BY DEF Fiat!Init, FiatInserting
<1>3. startedF \in 0..menuF.calls
  BY <1>1
<1> QED BY <1>1, <1>2, <1>3 DEF FiatUnique

\* A step of one call that adds no account and no deposit, and does not come to
\* insert an account.
LEMMA FiatUniqueStep ==
    ASSUME FiatIInv, FiatUnique, NEW c \in FiatCalls, NEW l, l # "insertAccount", NEW m,
           menuF' = menuF, startedF' \in startedF..menuF.calls,
           pcF' = [pcF EXCEPT ![c] = l], memF' = [memF EXCEPT ![c] = m],
           accounts' \subseteq accounts, deposits' = deposits, overlap' \in BOOLEAN
    PROVE  FiatUnique'
<1>1. startedF \in Nat /\ menuF.calls \in Nat /\ startedF' \in 0..menuF.calls
      /\ startedF <= startedF'
  BY FiatAssumption DEF FiatUnique
<1>2. \A d \in FiatInserting' : d \in FiatInserting /\ d # c /\ memF'[d] = memF[d]
  BY DEF FiatIInv, FiatCallsType, FiatInserting
<1>3. \A a \in accounts : a.id \in Nat
  BY DEF FiatIInv, FiatRowsType
<1>4. \A d \in FiatInserting : memF[d].n \in Nat
  BY DEF FiatIInv, FiatCallsType, FiatMemType, FiatInserting
<1> QED BY <1>1, <1>2, <1>3, <1>4 DEF FiatUnique

LEMMA FiatUniqueNext == FiatIInv /\ FiatUnique /\ [Fiat!Next]_varsF => FiatUnique'
<1> SUFFICES ASSUME FiatIInv, FiatUnique, [Fiat!Next]_varsF PROVE FiatUnique'
  OBVIOUS
<1>0. /\ FiatRowsType /\ FiatCallsType
      /\ startedF \in Nat /\ menuF.calls \in Nat /\ overlap \in BOOLEAN
      /\ startedF \in startedF..menuF.calls
  BY FiatAssumption DEF FiatIInv, FiatUnique
<1>1. ASSUME NEW c \in FiatCalls, NEW iban \in Ibans, Fiat!AddBankAccount(c, iban)
      PROVE  FiatUnique'
  <2> DEFINE m == [[Fiat!Nothing EXCEPT !.iban = iban] EXCEPT !.n = startedF']
  <2>1. /\ pcF' = [pcF EXCEPT ![c] = "insertAccount"] /\ memF' = [memF EXCEPT ![c] = m]
        /\ startedF' = startedF + 1 /\ startedF < menuF.calls
        /\ UNCHANGED <<menuF, accounts, deposits, overlap>>
    BY <1>1 DEF Fiat!AddBankAccount, Fiat!Begin, Fiat!Goto
  <2>2. m.n = startedF + 1 /\ m.iban = iban
    BY <2>1 DEF Fiat!Nothing
  <2> HIDE DEF m
  <2>3. /\ memF'[c] = m
        /\ \A d \in FiatInserting' : d # c => d \in FiatInserting /\ memF'[d] = memF[d]
    BY <1>0, <2>1 DEF FiatCallsType, FiatInserting
  <2>4. /\ \A a \in accounts : a.id \in Nat /\ a.id <= startedF
        /\ \A d \in FiatInserting : memF[d].n \in Nat /\ memF[d].n <= startedF
    BY <1>0 DEF FiatRowsType, FiatCallsType, FiatMemType, FiatInserting, FiatUnique
  <2>5. \A d \in FiatInserting' : /\ memF'[d].iban \in Ibans /\ memF'[d].n <= startedF'
                                  /\ \A a \in accounts' : a.id # memF'[d].n
    BY <1>0, <2>1, <2>2, <2>3, <2>4 DEF FiatUnique
  <2>6. \A d, e \in FiatInserting' : memF'[d].n = memF'[e].n => d = e
    BY <1>0, <2>2, <2>3, <2>4 DEF FiatUnique
  <2>7. startedF' \in 0..menuF'.calls /\ \A a \in accounts' : a.id <= startedF'
    BY <1>0, <2>1, <2>4
  <2> QED BY <2>1, <2>5, <2>6, <2>7 DEF FiatUnique
<1>2. ASSUME NEW c \in FiatCalls,
             \/ \E a \in accounts :
                  Fiat!RemoveBankAccount(c, a) \/ Fiat!CreateDepositRequest(c, a)
             \/ \E d \in deposits : Fiat!ApproveDeposit(c, d)
      PROVE  FiatUnique'
  <2>1. PICK l, m : /\ l # "insertAccount"
                    /\ pcF' = [pcF EXCEPT ![c] = l] /\ memF' = [memF EXCEPT ![c] = m]
                    /\ startedF < menuF.calls /\ startedF' = startedF + 1
                    /\ UNCHANGED <<menuF, accounts, deposits, overlap>>
    BY <1>2 DEF Fiat!RemoveBankAccount, Fiat!CreateDepositRequest, Fiat!ApproveDeposit,
                Fiat!Begin, Fiat!Goto
  <2>2. startedF' \in startedF..menuF.calls /\ overlap' \in BOOLEAN
    BY <1>0, <2>1
  <2> QED BY <2>1, <2>2, FiatUniqueStep
<1>3. ASSUME NEW c \in FiatCalls, Fiat!CountPending(c) \/ Fiat!Break(c) \/ Fiat!RemoveAccount(c)
      PROVE  FiatUnique'
  <2>1. PICK l, m :
             /\ l \in {"idle", "removeAccount"}
             /\ pcF' = [pcF EXCEPT ![c] = l] /\ memF' = [memF EXCEPT ![c] = m]
             /\ UNCHANGED <<menuF, startedF, deposits>>
    BY <1>3 DEF Fiat!CountPending, Fiat!Break, Fiat!RemoveAccount, Fiat!Return, Fiat!Goto
  <2>2. accounts' \subseteq accounts
    BY <1>3 DEF Fiat!CountPending, Fiat!Break, Fiat!RemoveAccount
  <2>3. overlap' \in BOOLEAN
    BY <1>0, <1>3 DEF Fiat!CountPending, Fiat!Break, Fiat!RemoveAccount, Fiat!Overlapped
  <2> QED BY <1>0, <2>1, <2>2, <2>3, FiatUniqueStep
<1>4. ASSUME NEW c \in FiatCalls, Fiat!InsertAccount(c) PROVE FiatUnique'
  <2>0. CASE \E a \in accounts : a.iban = memF[c].iban
    <3>1. /\ pcF' = [pcF EXCEPT ![c] = "idle"] /\ memF' = [memF EXCEPT ![c] = Fiat!Nothing]
          /\ accounts' = accounts /\ UNCHANGED <<menuF, startedF, deposits, overlap>>
      BY <1>4, <2>0 DEF Fiat!InsertAccount, Fiat!Return, Fiat!Goto
    <3> QED BY <1>0, <3>1, FiatUniqueStep
  <2>1. CASE ~\E a \in accounts : a.iban = memF[c].iban
    <3> DEFINE new == [id |-> memF[c].n, iban |-> memF[c].iban]
    <3>1. /\ pcF' = [pcF EXCEPT ![c] = "idle"] /\ memF' = [memF EXCEPT ![c] = Fiat!Nothing]
          /\ accounts' = accounts \cup {new} /\ c \in FiatInserting
          /\ UNCHANGED <<menuF, startedF, deposits, overlap>>
      BY <1>4, <2>1 DEF Fiat!InsertAccount, Fiat!Return, Fiat!Goto, FiatInserting
    <3>2. new.id = memF[c].n /\ new.iban = memF[c].iban
      OBVIOUS
    <3> HIDE DEF new
    <3>3. \A d \in FiatInserting' : d \in FiatInserting /\ d # c /\ memF'[d] = memF[d]
      BY <1>0, <3>1 DEF FiatCallsType, FiatInserting
    <3>4. \A a, b \in accounts' : a.id = b.id \/ a.iban = b.iban => a = b
      BY <2>1, <3>1, <3>2 DEF FiatUnique
    <3>5. \A a \in accounts' : a.iban \in Ibans /\ a.id <= startedF'
      BY <3>1, <3>2 DEF FiatUnique
    <3>6. \A d \in FiatInserting' : /\ memF'[d].iban \in Ibans /\ memF'[d].n <= startedF'
                                    /\ \A a \in accounts' : a.id # memF'[d].n
      BY <3>1, <3>2, <3>3 DEF FiatUnique
    <3> QED BY <3>1, <3>3, <3>4, <3>5, <3>6 DEF FiatUnique
  <2> QED BY <2>0, <2>1
<1>5. ASSUME NEW c \in FiatCalls, Fiat!InsertDeposit(c) PROVE FiatUnique'
  <2> DEFINE new == [id |-> Cardinality(deposits) + 1, account |-> memF[c].id,
                     status |-> "PENDING"]
  <2>1. /\ pcF' = [pcF EXCEPT ![c] = "idle"] /\ memF' = [memF EXCEPT ![c] = Fiat!Nothing]
        /\ deposits' = deposits \cup {new} /\ UNCHANGED <<menuF, startedF, accounts, overlap>>
    BY <1>5, Counts DEF Fiat!InsertDeposit, Fiat!Return, Fiat!Goto
  <2>2. /\ IsFiniteSet(deposits) /\ Cardinality(deposits) \in Nat
        /\ \A d \in deposits : d.id \in Nat /\ d.id <= Cardinality(deposits)
    BY <1>0, FS_CardinalityType DEF FiatRowsType, Fiat!Deposit, FiatUnique
  <2>3. new.id = Cardinality(deposits) + 1
    OBVIOUS
  <2> HIDE DEF new
  <2>4. new \notin deposits
    BY <2>2, <2>3
  <2>5. Cardinality(deposits') = Cardinality(deposits) + 1
    BY <2>1, <2>2, <2>4, FS_AddElement
  <2>6. \A d \in deposits' : d.id <= Cardinality(deposits)'
    BY <2>1, <2>2, <2>3, <2>5
  <2>7. \A d, e \in deposits' : d.id = e.id => d = e
    BY <2>1, <2>2, <2>3 DEF FiatUnique
  <2>8. \A d \in FiatInserting' : d \in FiatInserting /\ memF'[d] = memF[d]
    BY <1>0, <2>1 DEF FiatCallsType, FiatInserting
  <2>9. overlap' \in BOOLEAN /\ menuF' \in FiatScenarios /\ startedF' \in 0..menuF'.calls
    BY <1>0, <2>1 DEF FiatUnique
  <2>10. /\ \A a \in accounts' : a.iban \in Ibans /\ a.id <= startedF'
         /\ \A a, b \in accounts' : a.id = b.id \/ a.iban = b.iban => a = b
    BY <2>1 DEF FiatUnique
  <2>11. /\ \A d \in FiatInserting' : /\ memF'[d].iban \in Ibans /\ memF'[d].n <= startedF'
                                      /\ \A a \in accounts' : a.id # memF'[d].n
         /\ \A d, e \in FiatInserting' : memF'[d].n = memF'[e].n => d = e
    BY <2>1, <2>8 DEF FiatUnique
  <2> QED BY <2>6, <2>7, <2>9, <2>10, <2>11 DEF FiatUnique
<1>6. ASSUME NEW c \in FiatCalls, Fiat!SaveApproval(c) PROVE FiatUnique'
  <2> DEFINE Saved(d) == IF d.id = memF[c].id THEN [d EXCEPT !.status = "APPROVED"] ELSE d
             After == {Saved(d) : d \in deposits}
  <2>1. /\ pcF' = [pcF EXCEPT ![c] = "idle"] /\ memF' = [memF EXCEPT ![c] = Fiat!Nothing]
        /\ deposits' = After /\ UNCHANGED <<menuF, startedF, accounts, overlap>>
    BY <1>6 DEF Fiat!SaveApproval, Fiat!Return, Fiat!Goto
  <2>2. \A d \in deposits : Saved(d).id = d.id
    BY <1>0 DEF FiatRowsType, Fiat!Deposit
  <2>3. IsFiniteSet(deposits)
    BY <1>0 DEF FiatRowsType
  <2> HIDE DEF Saved
  <2>4. Cardinality(After) = Cardinality(deposits)
    <3> DEFINE f == [d \in deposits |-> Saved(d)]
    <3>1. f \in [deposits -> After] /\ \A a \in After : \E d \in deposits : f[d] = a
      OBVIOUS
    <3>2. \A d, e \in deposits : f[d] = f[e] => d = e
      BY <2>2 DEF FiatUnique
    <3> HIDE DEF f
    <3>3. f \in Bijection(deposits, After)
      BY <3>1, <3>2 DEF Bijection, Injection, Surjection, IsInjective
    <3> QED BY <2>3, <3>3, FS_Bijection DEF ExistsBijection
  <2>5. \A d \in deposits' : d.id <= Cardinality(deposits)'
    BY <2>1, <2>2, <2>4 DEF FiatUnique
  <2>6. \A d, e \in deposits' : d.id = e.id => d = e
    BY <2>1, <2>2 DEF FiatUnique
  <2>7. \A d \in FiatInserting' : d \in FiatInserting /\ memF'[d] = memF[d]
    BY <1>0, <2>1 DEF FiatCallsType, FiatInserting
  <2> HIDE DEF After
  <2> QED BY <2>1, <2>5, <2>6, <2>7 DEF FiatUnique
<1>7. CASE UNCHANGED varsF
  BY <1>7 DEF varsF, FiatUnique, FiatInserting
<1> QED BY <1>1, <1>2, <1>3, <1>4, <1>5, <1>6, <1>7 DEF Fiat!Next

AddressUsed(currency) == {r.index : r \in {s \in rowsA : s.currency = currency}}

\* getMaxAddressIndex finds a largest index where there is one.
AddressTypes ==
    /\ startedA \in 0..MaxCalls
    /\ rowsA \subseteq Addresses!Row
    /\ pcA \in [Calls -> Addresses!PC] /\ memA \in [Calls -> Addresses!Row]
    /\ \A currency \in Addresses!Currencies :
         AddressUsed(currency) = {} \/
         \E m \in AddressUsed(currency) : \A i \in AddressUsed(currency) : i <= m

LEMMA AddressNobody == Addresses!Nobody \in Addresses!Row
<1>1. (CHOOSE u \in Users : TRUE) \in Users
  BY AddressAssumption
<1> QED BY <1>1 DEF Addresses!Nobody, Addresses!Row, Addresses!Currencies

LEMMA AddressMax ==
    ASSUME AddressTypes, NEW currency \in Addresses!Currencies
    PROVE  Addresses!MaxAddressIndex(currency) + 1 \in Nat
<1> DEFINE used == AddressUsed(currency)
<1>1. used \subseteq Nat
  BY DEF AddressTypes, AddressUsed, Addresses!Row
<1>2. /\ used = {} \/ \E m \in used : \A i \in used : i <= m
      /\ Addresses!MaxAddressIndex(currency) =
           IF used = {} \/ Addresses!Max(used) = 0 THEN -1 ELSE Addresses!Max(used)
  BY DEF AddressTypes, Addresses!MaxAddressIndex, AddressUsed
<1> HIDE DEF used
<1>3. ASSUME used # {} PROVE Addresses!Max(used) \in Nat
  <2>1. PICK m \in used : \A i \in used : i <= m
    BY <1>2, <1>3
  <2>2. \A i \in used : m >= i
    BY <1>1, <2>1
  <2>3. Addresses!Max(used) \in used
    BY <2>2 DEF Addresses!Max
  <2> QED BY <1>1, <2>3
<1> QED BY <1>2, <1>3

LEMMA LargestGrows ==
    ASSUME NEW S \in SUBSET Nat, NEW n \in Nat,
           S = {} \/ \E m \in S : \A i \in S : i <= m
    PROVE  \E m \in S \cup {n} : \A i \in S \cup {n} : i <= m
<1>1. CASE S = {}
  BY <1>1
<1>2. ASSUME NEW m \in S, \A i \in S : i <= m
      PROVE  \E k \in S \cup {n} : \A i \in S \cup {n} : i <= k
  <2>1. CASE n <= m
    BY <1>2, <2>1
  <2>2. CASE ~(n <= m)
    <3>1. \A i \in S \cup {n} : i <= n
      BY <1>2, <2>2
    <3> QED BY <3>1
  <2> QED BY <2>1, <2>2
<1> QED BY <1>1, <1>2

LEMMA AddressTypesNext == AddressTypes /\ [Addresses!Next]_varsA => AddressTypes'
<1> SUFFICES ASSUME AddressTypes, [Addresses!Next]_varsA PROVE AddressTypes'
  OBVIOUS
<1>0. /\ startedA \in 0..MaxCalls /\ MaxCalls \in Nat /\ rowsA \subseteq Addresses!Row
      /\ pcA \in [Calls -> Addresses!PC] /\ memA \in [Calls -> Addresses!Row]
  BY AddressAssumption DEF AddressTypes
<1>a. \A c \in Calls : [memA EXCEPT ![c] = Addresses!Nobody] \in [Calls -> Addresses!Row]
  BY <1>0, AddressNobody
<1>b. \A c \in Calls : \A l \in Addresses!PC : [pcA EXCEPT ![c] = l] \in [Calls -> Addresses!PC]
  BY <1>0
<1>1. ASSUME NEW c \in Calls, NEW u \in Users, NEW currency \in Addresses!Currencies,
             Addresses!GenerateDepositAddress(c, u, currency)
      PROVE  AddressTypes'
  <2>1. /\ startedA' = startedA + 1 /\ startedA < MaxCalls /\ rowsA' = rowsA
        /\ \/ pcA' = pcA /\ memA' = memA
           \/ /\ pcA' = [pcA EXCEPT ![c] = "findMax"]
              /\ memA' = [memA EXCEPT ![c] =
                            [user |-> u, currency |-> currency, index |-> 0]]
    BY <1>1 DEF Addresses!GenerateDepositAddress, Addresses!Goto
  <2>2. [user |-> u, currency |-> currency, index |-> 0] \in Addresses!Row
    BY DEF Addresses!Row
  <2>3. startedA' \in 0..MaxCalls
    BY <1>0, <2>1
  <2>4. pcA' \in [Calls -> Addresses!PC] /\ memA' \in [Calls -> Addresses!Row]
    BY <1>0, <2>1, <2>2 DEF Addresses!PC
  <2> QED BY <2>1, <2>3, <2>4 DEF AddressTypes, AddressUsed
<1>2. ASSUME NEW c \in Calls, Addresses!FindMax(c) PROVE AddressTypes'
  <2> DEFINE i == Addresses!MaxAddressIndex(memA[c].currency) + 1
  <2>1. memA[c] \in Addresses!Row /\ memA[c].currency \in Addresses!Currencies
    BY <1>0 DEF Addresses!Row
  <2>2. i \in Nat
    BY <2>1, AddressMax
  <2> HIDE DEF i
  <2>3. [memA[c] EXCEPT !.index = i] \in Addresses!Row
    BY <2>1, <2>2 DEF Addresses!Row
  <2>4. /\ memA' = [memA EXCEPT ![c] = [memA[c] EXCEPT !.index = i]]
        /\ pcA' = [pcA EXCEPT ![c] = "insert"] /\ UNCHANGED <<startedA, rowsA>>
    BY <1>0, <1>2 DEF Addresses!FindMax, Addresses!Goto, i
  <2>5. memA' \in [Calls -> Addresses!Row] /\ pcA' \in [Calls -> Addresses!PC]
    BY <1>0, <1>b, <2>3, <2>4 DEF Addresses!PC
  <2> QED BY <2>4, <2>5 DEF AddressTypes, AddressUsed
<1>3. ASSUME NEW c \in Calls, Addresses!Insert(c) PROVE AddressTypes'
  <2>1. CASE Addresses!Taken(c)
    <3>1. /\ pcA' = [pcA EXCEPT ![c] = "idle"]
          /\ memA' = [memA EXCEPT ![c] = Addresses!Nobody] /\ UNCHANGED <<startedA, rowsA>>
      BY <1>3, <2>1 DEF Addresses!Insert, Addresses!Return, Addresses!Goto
    <3>2. memA' \in [Calls -> Addresses!Row] /\ pcA' \in [Calls -> Addresses!PC]
      BY <1>a, <1>b, <3>1 DEF Addresses!PC
    <3> QED BY <3>1, <3>2 DEF AddressTypes, AddressUsed
  <2>2. CASE ~Addresses!Taken(c)
    <3> DEFINE new == memA[c]
    <3>1. /\ pcA' = [pcA EXCEPT ![c] = "registerWebhook"] /\ rowsA' = rowsA \cup {new}
          /\ UNCHANGED <<startedA, memA>>
      BY <1>3, <2>2 DEF Addresses!Insert, Addresses!Goto
    <3>2. new \in Addresses!Row
      BY <1>0
    <3>3. pcA' \in [Calls -> Addresses!PC]
      BY <1>b, <3>1 DEF Addresses!PC
    <3> HIDE DEF new
    <3>4. ASSUME NEW currency \in Addresses!Currencies
          PROVE  \/ AddressUsed(currency)' = {}
                 \/ \E m \in AddressUsed(currency)' : \A i \in AddressUsed(currency)' : i <= m
      <4> DEFINE used == AddressUsed(currency)
                 now == AddressUsed(currency)'
      <4>1. now = IF new.currency = currency THEN used \cup {new.index} ELSE used
        BY <3>1 DEF AddressUsed
      <4>2. new.index \in Nat /\ used \subseteq Nat
        BY <1>0, <3>2 DEF Addresses!Row, AddressUsed
      <4>3. used = {} \/ \E m \in used : \A i \in used : i <= m
        BY DEF AddressTypes
      <4> HIDE DEF used, now
      <4>4. now = {} \/ \E m \in now : \A i \in now : i <= m
        <5>1. used \in SUBSET Nat /\ new.index \in Nat
          BY <4>2
        <5> DEFINE more == used \cup {new.index}
        <5>2. \E m \in more : \A i \in more : i <= m
          BY <4>3, <5>1, LargestGrows
        <5> HIDE DEF more
        <5>3. now = more \/ now = used
          BY <4>1 DEF more
        <5> QED BY <4>3, <5>2, <5>3
      <4> QED BY <4>4 DEF now
    <3>5. rowsA' \subseteq Addresses!Row
      BY <1>0, <3>1, <3>2
    <3> QED BY <1>0, <3>1, <3>3, <3>4, <3>5 DEF AddressTypes
  <2> QED BY <2>1, <2>2
<1>4. ASSUME NEW c \in Calls, Addresses!RegisterWebhook(c) \/ Addresses!Break(c)
      PROVE  AddressTypes'
  <2>1. /\ pcA' = [pcA EXCEPT ![c] = "idle"]
        /\ memA' = [memA EXCEPT ![c] = Addresses!Nobody] /\ UNCHANGED <<startedA, rowsA>>
    BY <1>4 DEF Addresses!RegisterWebhook, Addresses!Break, Addresses!Return, Addresses!Goto
  <2>2. memA' \in [Calls -> Addresses!Row] /\ pcA' \in [Calls -> Addresses!PC]
    BY <1>a, <1>b, <2>1 DEF Addresses!PC
  <2> QED BY <2>1, <2>2 DEF AddressTypes, AddressUsed
<1>5. ASSUME NEW a \in hooks, Addresses!Webhook(a) PROVE AddressTypes'
  BY <1>5 DEF Addresses!Webhook, AddressTypes, AddressUsed
<1>6. CASE UNCHANGED varsA
  BY <1>6 DEF varsA, AddressTypes, AddressUsed
<1> QED BY <1>1, <1>2, <1>3, <1>4, <1>5, <1>6 DEF Addresses!Next

LEMMA AddressTypesInit == Addresses!Init => AddressTypes
<1> SUFFICES ASSUME Addresses!Init PROVE AddressTypes
  OBVIOUS
<1>1. memA \in [Calls -> Addresses!Row] /\ pcA \in [Calls -> Addresses!PC]
  BY AddressNobody DEF Addresses!Init, Addresses!PC
<1>2. startedA \in 0..MaxCalls /\ rowsA = {}
  BY AddressAssumption DEF Addresses!Init
<1> QED BY <1>1, <1>2 DEF AddressTypes, AddressUsed

-----------------------------------------------------------------------------
\* What the parts' invariants say of their types.

LEMMA CacheTypesOK == CacheIInv => Cache!TypeOK
<1> SUFFICES ASSUME CacheIInv PROVE Cache!TypeOK
  OBVIOUS
<1>0. /\ menuC \in CacheScenarios /\ nowC \in 1..MaxTime
      /\ startedC \in 0..menuC.calls /\ stored \in 0..startedC
      /\ replaced \in [0..(stored - 1) -> Nat]
      /\ cache \in [Cache!Keys -> CacheEntry]
      /\ pcC \in [Calls -> Cache!PC] /\ memC \in [Calls -> CacheMem]
      /\ due \in [Cache!Keys -> Nat]
  BY DEF CacheIInv, CacheTypes
<1>1. /\ menuC.calls \in Nat /\ MaxTime \in Nat /\ Life \in Nat /\ stored \in Nat
      /\ stored \in 0..menuC.calls
  BY <1>0, CacheAssumption
<1>2. cache \in [Cache!Keys -> [version : 0..stored, until : 0..(MaxTime + Life)]]
  <2>1. ASSUME NEW k \in Cache!Keys
        PROVE  cache[k] \in [version : 0..stored, until : 0..(MaxTime + Life)]
    <3>1. cache[k] \in CacheEntry
      BY <1>0
    <3>2. cache[k].version <= stored /\ cache[k].until <= nowC + Life
      BY DEF CacheIInv, CacheVersions, CacheRecent
    <3>3. cache[k].version \in 0..stored
      BY <1>1, <3>1, <3>2 DEF CacheEntry
    <3>4. cache[k].until \in 0..(MaxTime + Life)
      BY <1>0, <1>1, <3>1, <3>2 DEF CacheEntry
    <3> QED BY <3>1, <3>3, <3>4 DEF CacheEntry
  <2> QED BY <1>0, <2>1
<1>3. \A c \in Calls : memC[c].version \in 0..stored
  BY <1>0, <1>1 DEF CacheIInv, CacheVersions, CacheMem
<1>4. due \in [Cache!Keys -> 0..stored]
  BY <1>0, <1>1 DEF CacheIInv, CacheVersions
<1> QED BY <1>0, <1>1, <1>2, <1>3, <1>4 DEF Cache!TypeOK

LEMMA FiatTypesOK == FiatIInv /\ FiatUnique => Fiat!TypeOK
<1> SUFFICES ASSUME FiatIInv, FiatUnique PROVE Fiat!TypeOK
  OBVIOUS
<1>1. accounts \subseteq Fiat!Account /\ deposits \subseteq Fiat!Deposit
  BY DEF FiatIInv, FiatRowsType, FiatUnique, Fiat!Account
<1>2. pcF \in [FiatCalls -> Fiat!PC] /\ overlap \in BOOLEAN /\ startedF \in 0..menuF.calls
  BY DEF FiatIInv, FiatCallsType, FiatUnique
<1> QED BY <1>1, <1>2 DEF Fiat!TypeOK, FiatUnique

LEMMA KycTypesOK == KycIInv => Submissions!TypeOK
<1> SUFFICES ASSUME KycIInv PROVE Submissions!TypeOK
  OBVIOUS
<1>0. KycTypes /\ KycChecked
  BY DEF KycIInv
<1>1. ASSUME NEW c \in Calls
      PROVE  memK[c].files \subseteq Submissions!File /\ memK[c].next \in 1..5
  <2>1. memK[c] \in KycMem
    BY <1>0 DEF KycTypes
  <2>2. CASE c \in KycBusy
    <3>1. PICK k \in 3..4 : memK[c].next <= k
      BY <1>0, <2>2 DEF KycChecked, KycCall
    <3> QED BY <2>1, <3>1 DEF KycMem
  <2>3. CASE c \notin KycBusy
    <3>1. memK[c].next = 1
      BY <1>0, <2>3 DEF KycChecked
    <3> QED BY <2>1, <3>1 DEF KycMem
  <2> QED BY <2>2, <2>3
<1>2. ASSUME NEW i \in DOMAIN rowsK
      PROVE  /\ rowsK[i].status \in Submissions!Status /\ rowsK[i].verified \in BOOLEAN
             /\ rowsK[i].files \subseteq Submissions!File
  <2>1. rowsK[i] \in Submission
    BY <1>0 DEF KycTypes
  <2> QED BY <2>1 DEF Submission
<1> QED BY <1>0, <1>1, <1>2 DEF KycTypes, Submissions!TypeOK

LEMMA AddressTypesOK == AddressesIInv /\ AddressTypes => Addresses!TypeOK
BY DEF AddressesIInv, RowsUnique, AddressTypes, Addresses!TypeOK

LEMMA HotTypesOK == HotIInv => Hot!TypeOK
<1> SUFFICES ASSUME HotIInv, NEW w \in Withdrawals
             PROVE  asked[w].currency \in Hot!Currencies /\ asked[w].network \in Hot!Networks
  BY DEF HotIInv, HotTypes, Hot!TypeOK
<1>1. asked[w] \in Hot!Requests \cup {Hot!NoRequest}
  BY DEF HotIInv, HotTypes
<1> QED BY <1>1 DEF Hot!Requests, Hot!NoRequest, Hot!Currencies, Hot!Networks

LEMMA ClientTypesOK == ClientIInv => Browser!TypeOK
<1> SUFFICES ASSUME ClientTypes PROVE Browser!TypeOK
  BY DEF ClientIInv
<1>1. ASSUME NEW t \in Tabs
      PROVE  /\ \A f \in Browser!Flags : slice[t][f] \in BOOLEAN
             /\ slice[t].user \in Accounts \cup {Browser!Nobody, Browser!NewUser}
             /\ slice[t].token \in Accounts \cup {Browser!Nobody}
             /\ slice[t].verification \in {"idle", "pending", "verifying", "success", "error"}
  <2>1. IsSlice(slice[t])
    BY DEF ClientTypes
  <2> DEFINE s == slice[t]
  <2> HIDE DEF s
  <2>2. IsSlice(s)
    BY <2>1 DEF s
  <2>3. \A f \in Browser!Flags : s[f] \in BOOLEAN
    BY <2>2 DEF IsSlice, Browser!Flags
  <2> QED BY <2>1, <2>3 DEF IsSlice, s
<1> QED BY <1>1 DEF ClientTypes, ClientRequest, Browser!TypeOK

\* Every part of the platform keeps its types, and no two rows share an address, an
\* IBAN or a number.
THEOREM TypesAreKept == PlatformSpec => []PlatformTypeOK
<1> DEFINE Parts == /\ part \in {"deposit", "cache", "fiat", "kyc", "addresses",
                                "hot wallet", "client"}
                    /\ IInv /\ CacheIInv /\ FiatIInv /\ FiatUnique /\ KycIInv
                    /\ AddressesIInv /\ AddressTypes /\ HotIInv /\ ClientIInv
<1>1. PlatformInit => Parts
  BY InitIInv, CacheInit, FiatInit, FiatUniqueInit, KycInit, AddressesInit, AddressTypesInit,
     HotInit, ClientInit DEF PlatformInit
<1>2. Parts /\ [PlatformNext]_platformVars => Parts'
  BY PartSteps, NextIInv, CacheNext, FiatNext, FiatUniqueNext, KycNext, AddressesNext,
     AddressTypesNext, HotNext, ClientNext DEF PlatformNext, platformVars
<1>3. Parts => PlatformTypeOK
  BY CacheTypesOK, FiatTypesOK, KycTypesOK, AddressTypesOK, HotTypesOK, ClientTypesOK
  DEF PlatformTypeOK, IInv
<1> QED BY <1>1, <1>2, <1>3, PTL DEF PlatformSpec
=============================================================================
