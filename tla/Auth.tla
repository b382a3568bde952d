-------------------------------- MODULE Auth --------------------------------
(***************************************************************************)
(* The auth service's account, second factor and rate limiter, and the     *)
(* wallet service's own check of a second factor, side by side.  They      *)
(* share no state that matters here, so a behaviour runs one of them,      *)
(* chosen at the start; the others stay as they were.                      *)
(***************************************************************************)
EXTENDS AuthService

CONSTANTS
    Codes, MaxFailed, FactorScenarios,         \* TwoFactor
    Limit, RateWindow, RateTime, MaxRequests,  \* RateLimiter
    MaxWithdrawalAttempts, AttemptWindow,      \* WithdrawalTwoFactor
    WithdrawalTime

ASSUME FactorAssumption ==
    /\ MaxFailed \in Nat \ {0}
    /\ \A s \in FactorScenarios : s.calls \in Nat /\ s.width \in Nat /\ s.enabled \in BOOLEAN
ASSUME RateAssumption ==
    Limit \in Nat /\ {RateWindow, RateTime} \subseteq Nat \ {0} /\ MaxRequests \in Nat
ASSUME WithdrawalAssumption ==
    {MaxWithdrawalAttempts, WithdrawalTime} \subseteq Nat \ {0} /\ AttemptWindow \in Nat

VARIABLES
    part,
    menu2FA, started2FA, serial2FA, enabled, backups, setup, challenge2FA, lookups,
    attempts, attemptsExpire, pc2FA, mem2FA, handed, grants, uses, broken,
    nowRate, startedRate, entries, whitelist, pcRate, mine, allowed,
    nowWithdrawal, tracker, asking

Second == INSTANCE TwoFactor WITH
    Scenarios <- FactorScenarios,
    scenario <- menu2FA, started <- started2FA, serial <- serial2FA,
    challenge <- challenge2FA, pc <- pc2FA, mem <- mem2FA
Rate == INSTANCE RateLimiter WITH
    Window <- RateWindow, MaxTime <- RateTime, MaxCalls <- MaxRequests,
    now <- nowRate, started <- startedRate, pc <- pcRate
Withdrawal == INSTANCE WithdrawalTwoFactor WITH
    MaxAttempts <- MaxWithdrawalAttempts, Window <- AttemptWindow,
    MaxTime <- WithdrawalTime, now <- nowWithdrawal

vars2FA == <<menu2FA, started2FA, serial2FA, enabled, backups, setup, challenge2FA,
             lookups, attempts, attemptsExpire, pc2FA, mem2FA, handed, grants, uses,
             broken>>
varsRate == <<nowRate, startedRate, entries, whitelist, pcRate, mine, allowed>>
varsWithdrawal == <<nowWithdrawal, tracker, asking>>

OneOf(S) == CHOOSE s \in S : TRUE

AuthInit ==
    /\ part \in {"account", "second factor", "rate limiter", "withdrawal"}
    /\ Init /\ Second!Init /\ Rate!Init /\ Withdrawal!Init
    /\ part # "account" => scenario = OneOf(Scenarios)
    /\ part # "second factor" => menu2FA = OneOf(FactorScenarios)
    /\ part # "rate limiter" => ~whitelist

AuthNext ==
    \/ /\ part = "account" /\ Next
       /\ UNCHANGED <<part, vars2FA, varsRate, varsWithdrawal>>
    \/ /\ part = "second factor" /\ Second!Next
       /\ UNCHANGED <<part, vars, varsRate, varsWithdrawal>>
    \/ /\ part = "rate limiter" /\ Rate!Next
       /\ UNCHANGED <<part, vars, vars2FA, varsWithdrawal>>
    \/ /\ part = "withdrawal" /\ Withdrawal!Next
       /\ UNCHANGED <<part, vars, vars2FA, varsRate>>

authVars == <<part, vars, vars2FA, varsRate, varsWithdrawal>>

AuthSpec == AuthInit /\ [][AuthNext]_authVars

\* Every part keeps its types; there is one row per backup code, and the codes
\* not yet used are all of one setup, whichever setups and uses overlap.
AuthTypeOK == TypeOK /\ Second!TypeOK /\ Rate!TypeOK /\ Withdrawal!TypeOK

\* Concurrent logins leave a bounded number of live sessions, and none is live
\* between a logout or a reset and the next login.
SessionsAreRevoked == SessionsBounded /\ SignedOutHasNoSession

\* A second factor's wrong codes stay bounded in the auth service, where calls
\* race between the lock check and the count; and the lock that bounds them
\* ends, unless the call that set it broke off.
GuessesBounded == Second!GuessesBounded /\ Second!LockoutEnds

\* The challenge that a login answers with is passed at most once per concurrent
\* call.
PassedOnce == Second!PassedOnce

\* No window lets more than Limit requests through, however pipelines
\* interleave; and in the wallet service, which has a count of its own, no window
\* counts more wrong codes than its limit and the calls under way allow.
LimitsHold == Rate!RateBounded /\ Withdrawal!CodesBounded
=============================================================================
