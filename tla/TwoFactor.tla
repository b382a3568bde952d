------------------------------ MODULE TwoFactor ------------------------------
(***************************************************************************)
(* two-factor.service.ts and redis-2fa.service.ts for one user: the row of *)
(* two_factor_auth, the backup codes, and the keys in Redis for setup,     *)
(* challenge and failed attempts, each with its time to live.              *)
(*                                                                         *)
(* A call is one request being served; calls interleave at every await.    *)
(* Secrets and tokens are numbered as they are made.  A request that is    *)
(* refused before it has written anything is not an action.  disable and   *)
(* regenerateBackupCodes compare an argon2 hash with bcrypt, which never   *)
(* matches: they always answer "Invalid password" and change nothing.      *)
(***************************************************************************)
EXTENDS Naturals, FiniteSets

CONSTANTS Calls,     \* requests that can be in progress at once
          Codes,     \* backup codes of one generation
          MaxFailed, \* failed attempts after which isLockedOut
          Scenarios  \* requests that come, how many in all (a bound), at a time

VARIABLES
    scenario, started, serial,
    enabled,                  \* two_factor_auth: number of the secret, or 0
    backups,                  \* two_factor_backup_codes
    setup,                    \* 2fa:setup:<user>: the setup token, or 0
    challenge, lookups,       \* 2fa:challenge:<user>, 2fa:challenge:token:<t>
    attempts, attemptsExpire, \* 2fa:attempts:<user>, and whether it has a TTL
    pc, mem,                  \* the calls and what they remember
    handed,                   \* tokens that were answered to the client
    grants, uses, broken      \* history: see the properties

rows == <<enabled, backups>>
keys == <<setup, challenge, lookups, attempts, attemptsExpire>>
history == <<grants, uses, broken>>
vars == <<scenario, started, serial, rows, keys, pc, mem, handed, history>>

PC == {"idle", "storeSetup", "saveSetup", "clearSetup",
       "storeChallenge", "storeLookup", "matchChallenge", "checkLock", "checkCode",
       "findCodes", "useCode", "fail", "setExpiry", "clearAttempts",
       "clearChallenge", "clearLookup"}
Backup == [batch : Nat, n : Codes, used : BOOLEAN]
SameCode(a, b) == a.batch = b.batch /\ a.n = b.n
Totp(s) == [batch |-> s, n |-> 0]        \* n = 0: six digits of the app
NoCode == Totp(0)
Nothing == [token |-> 0, code |-> NoCode]

TypeOK ==
    /\ started \in 0..scenario.calls /\ serial \in 0..(scenario.calls + 1)
    /\ enabled \in 0..serial /\ setup \in 0..serial /\ challenge \in 0..serial
    /\ backups \subseteq Backup
    /\ \A a, b \in backups : SameCode(a, b) => a = b
    /\ \A a, b \in backups : ~a.used /\ ~b.used => a.batch = b.batch
    /\ lookups \subseteq 1..serial /\ handed \subseteq 1..serial
    /\ attempts \in Nat /\ attemptsExpire \in BOOLEAN
    /\ pc \in [Calls -> PC]
    /\ \A c \in Calls : mem[c].token \in 0..serial

Fresh(s) == [batch : {s}, n : Codes, used : {FALSE}]

Init ==
    /\ scenario \in Scenarios
    /\ started = 0
    /\ enabled = IF scenario.enabled THEN 1 ELSE 0
    /\ serial = enabled
    /\ backups = IF scenario.enabled THEN Fresh(1) ELSE {}
    /\ setup = 0 /\ challenge = 0 /\ lookups = {}
    /\ attempts = 0 /\ attemptsExpire = FALSE
    /\ pc = [c \in Calls |-> "idle"]
    /\ mem = [c \in Calls |-> Nothing]
    /\ handed = {}
    /\ grants = [t \in 1..(scenario.calls + 1) |-> 0]
    /\ uses = [b \in (1..(scenario.calls + 1)) \X Codes |-> 0]
    /\ broken = FALSE

-----------------------------------------------------------------------------
(* Helpers                                                                 *)

Goto(c, l) == pc' = [pc EXCEPT ![c] = l]
Return(c) == Goto(c, "idle") /\ mem' = [mem EXCEPT ![c] = Nothing]

Begin(c, op, l, m) ==
    /\ op \in scenario.ops
    /\ pc[c] = "idle"
    /\ Cardinality({d \in Calls : pc[d] # "idle"}) < scenario.width
    /\ started < scenario.calls
    /\ started' = started + 1
    /\ Goto(c, l)
    /\ mem' = [mem EXCEPT ![c] = m]

-----------------------------------------------------------------------------
(* Setup                                                                   *)

Setup(c) ==
    /\ enabled = 0
    /\ Begin(c, "setup", "storeSetup", Nothing)
    /\ UNCHANGED <<scenario, serial, rows, keys, handed, history>>

\* A later setup replaces the token of an earlier one.
StoreSetup(c) ==
    /\ pc[c] = "storeSetup"
    /\ serial' = serial + 1
    /\ setup' = serial'
    /\ handed' = handed \cup {serial'}
    /\ Return(c)
    /\ UNCHANGED <<scenario, started, rows, challenge, lookups, attempts,
                   attemptsExpire, history>>

\* The token is the stored one and the code is of its secret.  Whether 2FA has
\* been enabled meanwhile is not looked at.
VerifySetup(c, t) ==
    /\ setup = t
    /\ Begin(c, "setup", "saveSetup", [Nothing EXCEPT !.token = t])
    /\ UNCHANGED <<scenario, serial, rows, keys, handed, history>>

\* Fault: the codes of an earlier setup are not deleted.
SaveSetupKeepingCodes(c) ==
    /\ pc[c] = "saveSetup"
    /\ enabled' = mem[c].token
    /\ serial' = serial + 1
    /\ backups' = backups \cup Fresh(serial')
    /\ Goto(c, "clearSetup")
    /\ UNCHANGED <<scenario, started, keys, mem, handed, history>>

\* One transaction; two_factor_auth has one row per user.
SaveSetup(c) ==
    /\ pc[c] = "saveSetup"
    /\ enabled' = mem[c].token
    /\ serial' = serial + 1
    /\ backups' = Fresh(serial')
    /\ Goto(c, "clearSetup")
    /\ UNCHANGED <<scenario, started, keys, mem, handed, history>>

ClearSetup(c) ==
    /\ pc[c] = "clearSetup"
    /\ setup' = 0
    /\ Return(c)
    /\ UNCHANGED <<scenario, started, serial, rows, challenge, lookups, attempts,
                   attemptsExpire, handed, history>>

-----------------------------------------------------------------------------
(* The challenge of a login                                                *)

CreateChallenge(c) ==
    /\ enabled # 0
    /\ Begin(c, "login", "storeChallenge", Nothing)
    /\ UNCHANGED <<scenario, serial, rows, keys, handed, history>>

StoreChallenge(c) ==
    /\ pc[c] = "storeChallenge"
    /\ serial' = serial + 1
    /\ challenge' = serial'
    /\ mem' = [mem EXCEPT ![c].token = serial']
    /\ Goto(c, "storeLookup")
    /\ UNCHANGED <<scenario, started, rows, setup, lookups, attempts,
                   attemptsExpire, handed, history>>

StoreLookup(c) ==
    /\ pc[c] = "storeLookup"
    /\ lookups' = lookups \cup {mem[c].token}
    /\ handed' = handed \cup {mem[c].token}
    /\ Return(c)
    /\ UNCHANGED <<scenario, started, serial, rows, setup, challenge, attempts,
                   attemptsExpire, history>>

\* verifyChallenge: the reverse lookup ...
VerifyChallenge(c, t, code) ==
    /\ t \in lookups
    /\ Begin(c, "verify", "matchChallenge", [token |-> t, code |-> code])
    /\ UNCHANGED <<scenario, serial, rows, keys, handed, history>>

\* ... the newest challenge of the user, ...
MatchChallenge(c) ==
    /\ pc[c] = "matchChallenge"
    /\ IF challenge = mem[c].token
       THEN Goto(c, "checkLock") /\ UNCHANGED mem
       ELSE Return(c)
    /\ UNCHANGED <<scenario, started, serial, rows, keys, handed, history>>

\* Fault: a user with too many failed attempts goes on.
NeverLocked(c) ==
    /\ pc[c] = "checkLock"
    /\ Goto(c, "checkCode")
    /\ UNCHANGED <<scenario, started, serial, rows, keys, mem, handed, history>>

\* ... the failed attempts, which other calls may still be adding to, ...
CheckLock(c) ==
    /\ pc[c] = "checkLock"
    /\ IF attempts >= MaxFailed
       THEN Return(c)
       ELSE Goto(c, "checkCode") /\ UNCHANGED mem
    /\ UNCHANGED <<scenario, started, serial, rows, keys, handed, history>>

\* ... and the code: of the app, or one of the backup codes.
CheckCode(c) ==
    /\ pc[c] = "checkCode"
    /\ Goto(c, CASE mem[c].code = Totp(enabled) -> "clearAttempts"
                 [] mem[c].code.n \in Codes -> "findCodes"
                 [] OTHER -> "fail")
    /\ UNCHANGED <<scenario, started, serial, rows, keys, mem, handed, history>>

\* find({ where: { userId, usedAt: null } }): TypeORM 0.3 leaves a condition on
\* null out, so that the codes already used are compared as well.
FindCode(c) ==
    /\ pc[c] = "findCodes"
    /\ Goto(c, IF \E b \in backups : SameCode(b, mem[c].code) THEN "useCode" ELSE "fail")
    /\ UNCHANGED <<scenario, started, serial, rows, keys, mem, handed, history>>

\* save() of the code that was found, as used: an UPDATE, or an INSERT when a
\* setup has deleted the row since.
UseCode(c) ==
    /\ pc[c] = "useCode"
    /\ LET k == mem[c].code
       IN /\ backups' = {b \in backups : ~SameCode(b, k)}
                            \cup {[batch |-> k.batch, n |-> k.n, used |-> TRUE]}
          /\ uses' = [uses EXCEPT ![<<k.batch, k.n>>] = @ + 1]
    /\ Goto(c, "clearAttempts")
    /\ UNCHANGED <<scenario, started, serial, enabled, keys, mem, handed, grants,
                   broken>>

\* incrementFailedAttempts: INCR, and EXPIRE when it was the first.
Fail(c) ==
    /\ pc[c] = "fail"
    /\ attempts' = attempts + 1
    /\ IF attempts' = 1
       THEN Goto(c, "setExpiry") /\ UNCHANGED mem
       ELSE Return(c)
    /\ UNCHANGED <<scenario, started, serial, rows, setup, challenge, lookups,
                   attemptsExpire, handed, history>>

SetExpiry(c) ==
    /\ pc[c] = "setExpiry"
    /\ attemptsExpire' = (attempts > 0)
    /\ Return(c)
    /\ UNCHANGED <<scenario, started, serial, rows, setup, challenge, lookups,
                   attempts, handed, history>>

ClearAttempts(c) ==
    /\ pc[c] = "clearAttempts"
    /\ attempts' = 0 /\ attemptsExpire' = FALSE
    /\ Goto(c, "clearChallenge")
    /\ UNCHANGED <<scenario, started, serial, rows, setup, challenge, lookups,
                   mem, handed, history>>

\* Fault: the call answers and leaves the challenge and its lookup to expire.
LeaveChallenge(c) ==
    /\ pc[c] = "clearChallenge"
    /\ grants' = [grants EXCEPT ![mem[c].token] = @ + 1]
    /\ Return(c)
    /\ UNCHANGED <<scenario, started, serial, rows, keys, handed, uses, broken>>

\* The user's challenge is deleted, also when it is a newer one by now.
ClearChallenge(c) ==
    /\ pc[c] = "clearChallenge"
    /\ challenge' = 0
    /\ Goto(c, "clearLookup")
    /\ UNCHANGED <<scenario, started, serial, rows, setup, lookups, attempts,
                   attemptsExpire, mem, handed, history>>

\* The controller makes tokens for the user next: see AuthService.
Grant(c) ==
    /\ pc[c] = "clearLookup"
    /\ lookups' = lookups \ {mem[c].token}
    /\ grants' = [grants EXCEPT ![mem[c].token] = @ + 1]
    /\ Return(c)
    /\ UNCHANGED <<scenario, started, serial, rows, setup, challenge, attempts,
                   attemptsExpire, handed, uses, broken>>

-----------------------------------------------------------------------------
(* Keys that expire; calls that end early                                  *)

ExpireKey ==
    /\ \/ setup' = 0 /\ UNCHANGED <<challenge, lookups, attempts, attemptsExpire>>
       \/ challenge' = 0 /\ UNCHANGED <<setup, lookups, attempts, attemptsExpire>>
       \/ /\ \E t \in lookups : lookups' = lookups \ {t}
          /\ UNCHANGED <<setup, challenge, attempts, attemptsExpire>>
       \/ /\ attemptsExpire
          /\ attempts' = 0 /\ attemptsExpire' = FALSE
          /\ UNCHANGED <<setup, challenge, lookups>>
    /\ UNCHANGED <<scenario, started, serial, rows, pc, mem, handed, history>>

Break(c) ==
    /\ pc[c] # "idle"
    /\ broken' = (broken \/ pc[c] = "setExpiry")
    /\ Return(c)
    /\ UNCHANGED <<scenario, started, serial, rows, keys, handed, grants, uses>>

\* What a user may type: the code of the app, a backup code, or a wrong one.
Typed == {Totp(enabled), NoCode} \cup [batch : {0}, n : Codes]
           \cup {[batch |-> b.batch, n |-> b.n] : b \in backups}

SetupStep(c) ==
    \/ Setup(c) \/ StoreSetup(c)
    \/ \E t \in handed : VerifySetup(c, t)
    \/ SaveSetup(c) \/ ClearSetup(c)

ChallengeStep(c) ==
    \/ CreateChallenge(c) \/ StoreChallenge(c) \/ StoreLookup(c)
    \/ \E t \in handed, code \in Typed : VerifyChallenge(c, t, code)
    \/ MatchChallenge(c) \/ CheckLock(c) \/ CheckCode(c)
    \/ FindCode(c) \/ UseCode(c) \/ Fail(c) \/ SetExpiry(c)
    \/ ClearAttempts(c) \/ ClearChallenge(c) \/ Grant(c)

Next ==
    \/ ExpireKey
    \/ \E c \in Calls : SetupStep(c) \/ ChallengeStep(c) \/ Break(c)

Spec == Init /\ [][Next]_vars

-----------------------------------------------------------------------------
(* Properties                                                              *)

\* The lock is read before the code is checked and the failure is counted after
\* it: calls that run at the same time may each have one more wrong guess than
\* the limit, and no call more than that.
GuessesBounded == attempts <= MaxFailed + scenario.width - 1

\* A challenge is passed at most once by each of the calls that run at the same
\* time; one at a time, at most once.
PassedOnce == \A t \in DOMAIN grants : grants[t] <= scenario.width

\* A backup code is taken at most once.  (TWO_FACTOR_IMPLEMENTATION_SUMMARY.md:
\* "Backup codes: Single-use only, marked with `usedAt` timestamp".)
BackupCodesAreSingleUse == \A b \in DOMAIN uses : uses[b] <= 1

\* "Too many failed attempts. Please try again later.": the count will expire,
\* or the call that is to say so is under way.  (When that call breaks off, the
\* key never expires and the user stays locked out.)
LockoutEnds ==
    attempts > 0 /\ ~broken => attemptsExpire \/ \E c \in Calls : pc[c] = "setExpiry"
=============================================================================
