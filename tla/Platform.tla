------------------------------ MODULE Platform ------------------------------
(***************************************************************************)
(* The deposits, the smaller services and the web client side by side.     *)
(* They share no state that matters here, so a behaviour runs one of them, *)
(* chosen at the start; the others stay as they were.                      *)
(***************************************************************************)
EXTENDS CryptoDeposit

CONSTANTS
    Life, MaxDelay, MaxTime, CacheScenarios,                 \* BalanceCache
    FiatCalls, Ibans, FiatScenarios,                         \* FiatDeposit
    Numbers, KycScenarios,                                   \* Kyc
    Users, MaxCalls,                                         \* DepositAddress
    Withdrawals, Amounts, Minimum, Maximum, Coarse,          \* HotWallet
    MaxRetries, WalletScenarios,
    Tabs, Accounts, ClientScenarios                          \* WebClient

ASSUME CacheAssumption ==
    /\ Life \in Nat \ {0} /\ MaxDelay \in Nat /\ MaxTime \in Nat \ {0}
    /\ \A s \in CacheScenarios : s.calls \in Nat /\ s.width \in Nat
ASSUME FiatAssumption == \A s \in FiatScenarios : s.calls \in Nat
\* Identity numbers are typed as digits, in any number.
ASSUME KycAssumption ==
    /\ \A s \in KycScenarios : s.calls \in Nat /\ s.width \in Nat
    /\ Numbers \subseteq Seq(0..9)
ASSUME AddressAssumption == MaxCalls \in Nat /\ Users # {}
\* No minimum is below one unit of the USDT contract.  Its key may be the one of
\* another currency.
ASSUME HotWalletAssumption ==
    /\ Amounts \subseteq Nat /\ Minimum \in Nat /\ Maximum \in Nat
    /\ Coarse \in Nat \ {0} /\ Coarse <= Minimum
    /\ MaxRetries \in Nat \ {0}
    /\ \A s \in WalletScenarios : s.usdtKey \in {"BTC", "ETH", "USDT"}
ASSUME ClientAssumption ==
    /\ Accounts # {} /\ "nobody" \notin Accounts
    /\ \A s \in ClientScenarios : s.calls \in Nat /\ s.tabs \subseteq Tabs

VARIABLES
    part,
    menuC, startedC, nowC, stored, replaced, cache, pcC, memC, due, served,
    menuF, startedF, accounts, deposits, pcF, memF, overlap,
    menuK, startedK, rowsK, storedK, asking, pcK, memK, reviewed,
    startedA, rowsA, hooks, pcA, memA, answersA, recorded,
    deployed, stage, asked, signed, tries, hashH, pool, mined,
    menuW, startedW, storedW, page, leaving, slice, requests, challenged, foreign

Cache == INSTANCE BalanceCache WITH
    Scenarios <- CacheScenarios,
    scenario <- menuC, started <- startedC, now <- nowC, wallet <- stored,
    pc <- pcC, mem <- memC
Fiat == INSTANCE FiatDeposit WITH
    Calls <- FiatCalls, Scenarios <- FiatScenarios,
    scenario <- menuF, started <- startedF, pc <- pcF, mem <- memF
Submissions == INSTANCE Kyc WITH
    Scenarios <- KycScenarios,
    scenario <- menuK, started <- startedK, rows <- rowsK, stored <- storedK,
    pc <- pcK, mem <- memK
Addresses == INSTANCE DepositAddress WITH
    started <- startedA, rows <- rowsA, pc <- pcA, mem <- memA, answers <- answersA
Hot == INSTANCE HotWallet WITH
    Scenarios <- WalletScenarios, scenario <- deployed, hash <- hashH
Browser == INSTANCE WebClient WITH
    Scenarios <- ClientScenarios,
    scenario <- menuW, started <- startedW, stored <- storedW

varsC == <<menuC, startedC, nowC, stored, replaced, cache, pcC, memC, due, served>>
varsF == <<menuF, startedF, accounts, deposits, pcF, memF, overlap>>
varsK == <<menuK, startedK, rowsK, storedK, asking, pcK, memK, reviewed>>
varsA == <<startedA, rowsA, hooks, pcA, memA, answersA, recorded>>
varsH == <<deployed, stage, asked, signed, tries, hashH, pool, mined>>
varsW == <<menuW, startedW, storedW, page, leaving, slice, requests, challenged, foreign>>

OneOf(S) == CHOOSE s \in S : TRUE

PlatformInit ==
    /\ part \in {"deposit", "cache", "fiat", "kyc", "addresses", "hot wallet", "client"}
    /\ Init /\ Cache!Init /\ Fiat!Init /\ Submissions!Init /\ Addresses!Init /\ Hot!Init
    /\ Browser!Init
    /\ part # "cache" => menuC = OneOf(CacheScenarios)
    /\ part # "fiat" => menuF = OneOf(FiatScenarios)
    /\ part # "kyc" => menuK = OneOf(KycScenarios)
    /\ part # "hot wallet" => deployed = OneOf(WalletScenarios)
    /\ part # "client" => menuW = OneOf(ClientScenarios)

PlatformNext ==
    \/ /\ part = "deposit" /\ Next
       /\ UNCHANGED <<part, varsC, varsF, varsK, varsA, varsH, varsW>>
    \/ /\ part = "cache" /\ Cache!Next
       /\ UNCHANGED <<part, vars, varsF, varsK, varsA, varsH, varsW>>
    \/ /\ part = "fiat" /\ Fiat!Next
       /\ UNCHANGED <<part, vars, varsC, varsK, varsA, varsH, varsW>>
    \/ /\ part = "kyc" /\ Submissions!Next
       /\ UNCHANGED <<part, vars, varsC, varsF, varsA, varsH, varsW>>
    \/ /\ part = "addresses" /\ Addresses!Next
       /\ UNCHANGED <<part, vars, varsC, varsF, varsK, varsH, varsW>>
    \/ /\ part = "hot wallet" /\ Hot!Next
       /\ UNCHANGED <<part, vars, varsC, varsF, varsK, varsA, varsW>>
    \/ /\ part = "client" /\ Browser!Next
       /\ UNCHANGED <<part, vars, varsC, varsF, varsK, varsA, varsH>>

platformVars == <<part, vars, varsC, varsF, varsK, varsA, varsH, varsW>>

PlatformSpec == PlatformInit /\ [][PlatformNext]_platformVars

\* Every part keeps its types; no two rows share an address, or an IBAN.
PlatformTypeOK ==
    CASE part = "deposit" -> TypeOK
      [] part = "cache" -> Cache!TypeOK
      [] part = "fiat" -> Fiat!TypeOK
      [] part = "kyc" -> Submissions!TypeOK
      [] part = "addresses" -> Addresses!TypeOK
      [] part = "hot wallet" -> Hot!TypeOK
      [] part = "client" -> Browser!TypeOK

\* No read shows a balance older than the cache keeps it, whoever forgets to
\* invalidate.
ServedIsRecent == part = "cache" => Cache!ServedIsRecent

\* A pending deposit request keeps its bank account, but for one race.
PendingHasAccount == part = "fiat" => Fiat!PendingHasAccount

\* Concurrent submissions leave a bounded number of PENDING rows, each with files
\* that were scanned and a number that is one.
SubmissionsAreSound ==
    part = "kyc" => Submissions!PendingBounded /\ Submissions!SubmissionsAreChecked

\* No two users are shown one deposit address, or get its payments.
AddressHasOneOwner == part = "addresses" => Addresses!AddressHasOneOwner

\* A withdrawal shown as sent is on the network, alone and for what is owed.
SentIsOwed == part = "hot wallet" => Hot!SentIsOwed

\* No spinner outlives its request, but that of a login with a second factor.
SpinnersEnd == part = "client" => Browser!SpinnersEnd
\* What a tab takes for its session is what localStorage holds.
SignedInIsStored == part = "client" => Browser!SignedInIsStored
=============================================================================
