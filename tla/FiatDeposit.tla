------------------------------ MODULE FiatDeposit ------------------------------
(***************************************************************************)
(* deposit.service.ts for one user: bank accounts, the requests to deposit *)
(* TRY from them, and their approval by an administrator.  A call is one   *)
(* request being served; calls interleave at every await.  A request that  *)
(* is refused before it has written anything is not an action.             *)
(*                                                                         *)
(* Approval changes the status and nothing else: crediting the wallet is a *)
(* TODO of the source.  The rows have no foreign key in the entities.      *)
(***************************************************************************)
EXTENDS Naturals, FiniteSets

CONSTANTS Calls,    \* requests that can be in progress at once
          Ibans,
          Scenarios \* how many requests in all (a bound), how many at a time

VARIABLES
    scenario, started,
    accounts, \* fiat_accounts
    deposits, \* deposit_requests
    pc, mem,  \* the calls and what they remember
    overlap   \* history: an account was removed while a request was created

vars == <<scenario, started, accounts, deposits, pc, mem, overlap>>

PC == {"idle", "insertAccount", "countPending", "removeAccount", "insertDeposit",
       "saveApproval"}
Account == [id : Nat, iban : Ibans]
Nothing == [n |-> 0, iban |-> "none", id |-> 0, seen |-> {}]
Deposit == [id : Nat, account : Nat, status : {"PENDING", "APPROVED"}]

TypeOK ==
    /\ started \in 0..scenario.calls
    /\ accounts \subseteq Account /\ deposits \subseteq Deposit
    /\ \A a, b \in accounts : a.id = b.id \/ a.iban = b.iban => a = b
    /\ \A d, e \in deposits : d.id = e.id => d = e
    /\ pc \in [Calls -> PC] /\ overlap \in BOOLEAN

Init ==
    /\ scenario \in Scenarios
    /\ started = 0
    /\ accounts = {} /\ deposits = {}
    /\ pc = [c \in Calls |-> "idle"]
    /\ mem = [c \in Calls |-> Nothing]
    /\ overlap = FALSE

Goto(c, l) == pc' = [pc EXCEPT ![c] = l]
Return(c) == Goto(c, "idle") /\ mem' = [mem EXCEPT ![c] = Nothing]

Begin(c, l, m) ==
    /\ pc[c] = "idle"
    /\ Cardinality({d \in Calls : pc[d] # "idle"}) < scenario.width
    /\ started < scenario.calls
    /\ started' = started + 1
    /\ Goto(c, l)
    /\ mem' = [mem EXCEPT ![c] = [m EXCEPT !.n = started']]

-----------------------------------------------------------------------------
(* Bank accounts                                                           *)

AddBankAccount(c, iban) ==
    /\ \A a \in accounts : a.iban # iban
    /\ Begin(c, "insertAccount", [Nothing EXCEPT !.iban = iban])
    /\ UNCHANGED <<scenario, accounts, deposits, overlap>>

\* The unique index of (user, iban) refuses the second of two.
InsertAccount(c) ==
    /\ pc[c] = "insertAccount"
    /\ accounts' = IF \E a \in accounts : a.iban = mem[c].iban THEN accounts
                   ELSE accounts \cup {[id |-> mem[c].n, iban |-> mem[c].iban]}
    /\ Return(c)
    /\ UNCHANGED <<scenario, started, deposits, overlap>>

RemoveBankAccount(c, a) ==
    /\ Begin(c, "countPending", [Nothing EXCEPT !.id = a.id])
    /\ UNCHANGED <<scenario, accounts, deposits, overlap>>

\* Fault: approved deposits stand in the way, not pending ones.
CountApproved(c) ==
    /\ pc[c] = "countPending"
    /\ IF \E d \in deposits : d.account = mem[c].id /\ d.status = "APPROVED"
       THEN Return(c)
       ELSE /\ Goto(c, "removeAccount")
            /\ mem' = [mem EXCEPT ![c].seen = deposits]
    /\ UNCHANGED <<scenario, started, accounts, deposits, overlap>>

CountPending(c) ==
    /\ pc[c] = "countPending"
    /\ IF \E d \in deposits : d.account = mem[c].id /\ d.status = "PENDING"
       THEN Return(c)
       ELSE /\ Goto(c, "removeAccount")
            /\ mem' = [mem EXCEPT ![c].seen = deposits]
    /\ UNCHANGED <<scenario, started, accounts, deposits, overlap>>

\* A request for the account is being created, or was since the count.
Overlapped(c) ==
    \/ \E d \in Calls : pc[d] = "insertDeposit" /\ mem[d].id = mem[c].id
    \/ \E d \in deposits \ mem[c].seen : d.account = mem[c].id

RemoveAccount(c) ==
    /\ pc[c] = "removeAccount"
    /\ accounts' = {a \in accounts : a.id # mem[c].id}
    /\ overlap' = (overlap \/ Overlapped(c))
    /\ Return(c)
    /\ UNCHANGED <<scenario, started, deposits>>

-----------------------------------------------------------------------------
(* Deposit requests                                                        *)

CreateDepositRequest(c, a) ==
    /\ Begin(c, "insertDeposit", [Nothing EXCEPT !.id = a.id])
    /\ UNCHANGED <<scenario, accounts, deposits, overlap>>

InsertDeposit(c) ==
    /\ pc[c] = "insertDeposit"
    /\ deposits' = deposits \cup {[id |-> Cardinality(deposits) + 1,
                                   account |-> mem[c].id, status |-> "PENDING"]}
    /\ Return(c)
    /\ UNCHANGED <<scenario, started, accounts, overlap>>

ApproveDeposit(c, d) ==
    /\ d.status = "PENDING"
    /\ Begin(c, "saveApproval", [Nothing EXCEPT !.id = d.id])
    /\ UNCHANGED <<scenario, accounts, deposits, overlap>>

SaveApproval(c) ==
    /\ pc[c] = "saveApproval"
    /\ deposits' = {IF d.id = mem[c].id THEN [d EXCEPT !.status = "APPROVED"] ELSE d :
                      d \in deposits}
    /\ Return(c)
    /\ UNCHANGED <<scenario, started, accounts, overlap>>

-----------------------------------------------------------------------------
\* An await throws, or the server stops.
Break(c) ==
    /\ pc[c] # "idle"
    /\ Return(c)
    /\ UNCHANGED <<scenario, started, accounts, deposits, overlap>>

Next ==
    \E c \in Calls :
      \/ \E iban \in Ibans : AddBankAccount(c, iban)
      \/ \E a \in accounts : RemoveBankAccount(c, a) \/ CreateDepositRequest(c, a)
      \/ \E d \in deposits : ApproveDeposit(c, d)
      \/ InsertAccount(c) \/ CountPending(c) \/ RemoveAccount(c)
      \/ InsertDeposit(c) \/ SaveApproval(c)
      \/ Break(c)

Spec == Init /\ [][Next]_vars

-----------------------------------------------------------------------------
Orphans == {d \in deposits : d.status = "PENDING" /\ \A a \in accounts : a.id # d.account}

\* removeBankAccount: "Cannot remove account with pending deposits".  A pending
\* request has its bank account, unless the account was removed by a request
\* that overlapped its creation: nothing locks the account meanwhile.
PendingHasAccount == Orphans # {} => overlap
=============================================================================
