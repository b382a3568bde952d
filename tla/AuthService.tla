----------------------------- MODULE AuthService -----------------------------
(***************************************************************************)
(* auth.service.ts, token-blacklist.service.ts and jwt.strategy.ts for one *)
(* account: its row of users, its rows of sessions and                     *)
(* password_reset_tokens, the blacklist in Redis, and the tokens that are  *)
(* in the client's hands or in its mailbox.                                *)
(*                                                                         *)
(* A call is one request being served; calls interleave at every await.    *)
(* userRepository.save writes the whole row as the call remembers it,      *)
(* whatever was written since it was read.  A request that is refused      *)
(* before it has written anything leaves no trace and is not an action:    *)
(* the early returns are the guards.                                       *)
(*                                                                         *)
(* The status of an account is always ACTIVE: nothing in src/ changes it.  *)
(***************************************************************************)
EXTENDS Naturals, FiniteSets

CONSTANTS Calls,        \* requests that can be in progress at once
          Passwords,    \* a set of strings
          MaxAttempts,  \* MAX_LOGIN_ATTEMPTS
          AccessLife, LockLife, ResetLife, VerifyLife, \* in ticks
          Month,        \* 30 days, in ticks
          MaxTime,      \* bound on the clock
          Scenarios     \* which requests come, how many in all (a bound) and
                        \* how many at a time

ASSUME AuthAssumption ==
    /\ {MaxAttempts, AccessLife, LockLife, ResetLife, VerifyLife, Month,
        MaxTime} \subseteq Nat \ {0}
    /\ "none" \notin Passwords
ASSUME ScenarioAssumption ==
    /\ IsFiniteSet(Calls)
    /\ \A s \in Scenarios :
         /\ s.calls \in Nat /\ s.width \in Nat
         /\ s.password \in Passwords

VARIABLES
    scenario, now, started,      \* what this behaviour is about, the clock
    user, sessions, resets,      \* PostgreSQL
    jtis, cutoff,                \* Redis: single tokens, a date for all others
    serial,                      \* the last token made, of any kind
    access, refresh, mailbox,    \* the tokens that left the service
    challenge,                   \* a 2FA challenge is open (TwoFactor)
    pc, mem,                     \* the calls and what they remember
    lastSet, everVerified, wrong, signedOut, dead \* history, see the end

db == <<user, sessions, resets>>
redis == <<jtis, cutoff>>
outside == <<access, refresh, mailbox, challenge>>
history == <<lastSet, everVerified, wrong, signedOut, dead>>
vars == <<scenario, now, started, db, redis, serial, outside, pc, mem, history>>

Op == {"register", "verify", "resend", "login", "refresh", "request", "logout",
       "askReset", "reset"}
PC == {"idle", "insertUser", "saveUser", "saveResend", "checkPassword",
       "issueChallenge", "deleteSessions", "insertSession", "resetAttempts",
       "saveLogin", "signAccess", "checkJti", "checkCutoff", "accepted",
       "findSessions", "revokeSessions", "deleteResets", "insertReset",
       "savePassword", "markUsed", "revokeAll", "blacklistUser"}

UserRow == [password : Passwords \cup {"none"}, verified : BOOLEAN,
            verifyToken : Nat, verifyUntil : Nat, failed : Nat, lockedUntil : Nat]
SessionRow == [refresh : Nat, revoked : BOOLEAN]
ResetRow == [token : Nat, until : Nat, used : BOOLEAN]
AccessToken == [jti : Nat, iat : Nat]

\* The columns of a new row; 0 stands for null.
NoUser == [password |-> "none", verified |-> FALSE, verifyToken |-> 0,
           verifyUntil |-> 0, failed |-> 0, lockedUntil |-> 0]
NoReset == [token |-> 0, until |-> 0, used |-> FALSE]
Nothing == [user |-> NoUser, password |-> "none", token |-> 0, iat |-> 0,
            found |-> {}, reset |-> NoReset, dead |-> FALSE, failedOpen |-> FALSE]

TypeOK ==
    /\ now \in 1..MaxTime /\ started \in 0..scenario.calls
    /\ user \in UserRow
    /\ sessions \subseteq SessionRow
    /\ resets \subseteq ResetRow
    /\ jtis \subseteq 1..serial /\ cutoff \in {0} \cup (Month + 1)..(Month + MaxTime)
    /\ serial \in 0..scenario.calls
    /\ access \subseteq AccessToken /\ refresh \subseteq 1..serial
    /\ mailbox \subseteq 1..serial /\ challenge \in BOOLEAN
    /\ pc \in [Calls -> PC]
    /\ \A c \in Calls :
         /\ mem[c].user \in UserRow /\ mem[c].token \in 0..serial
         /\ mem[c].found \subseteq SessionRow /\ mem[c].reset \in ResetRow

Init ==
    /\ scenario \in Scenarios
    /\ now = 1 /\ started = 0
    /\ user = IF "register" \in scenario.ops THEN NoUser
              ELSE [NoUser EXCEPT !.password = scenario.password, !.verified = TRUE]
    /\ sessions = {} /\ resets = {}
    /\ jtis = {} /\ cutoff = 0
    /\ serial = 0
    /\ access = {} /\ refresh = {} /\ mailbox = {} /\ challenge = FALSE
    /\ pc = [c \in Calls |-> "idle"]
    /\ mem = [c \in Calls |-> Nothing]
    /\ lastSet = user.password /\ everVerified = user.verified
    /\ wrong = 0 /\ signedOut = FALSE /\ dead = {}

-----------------------------------------------------------------------------
(* Helpers                                                                 *)

Goto(c, l) == pc' = [pc EXCEPT ![c] = l]
Remember(c, m) == mem' = [mem EXCEPT ![c] = m]
Return(c) == Goto(c, "idle") /\ Remember(c, Nothing)

Begin(c, op, l, m) ==
    /\ op \in scenario.ops
    /\ pc[c] = "idle"
    /\ Cardinality({d \in Calls : pc[d] # "idle"}) < scenario.width
    /\ started < scenario.calls
    /\ started' = started + 1
    /\ Goto(c, l)
    /\ Remember(c, m)

\* A letter with the newest token is sent; it may be lost.
Mail == mailbox' \in {mailbox, mailbox \cup {serial'}}

Live == {s \in sessions : ~s.revoked}

\* save() of a session or a reset token: the row is updated, or inserted again
\* when another call has deleted it.
SaveSession(s) ==
    sessions' = {r \in sessions : r.refresh # s.refresh} \cup {s}
SaveReset(t) ==
    resets' = {r \in resets : r.token # t.token} \cup {t}

-----------------------------------------------------------------------------
(* Registration and the verification of the e-mail address                 *)

\* register() finds no row with this e-mail and hashes the password ...
Register(c, p) ==
    /\ user = NoUser
    /\ Begin(c, "register", "insertUser", [Nothing EXCEPT !.password = p])
    /\ UNCHANGED <<scenario, now, db, redis, serial, outside, history>>

\* ... and inserts; the unique index refuses the second of two.
InsertUser(c) ==
    /\ pc[c] = "insertUser"
    /\ \/ /\ user = NoUser
          /\ serial' = serial + 1
          /\ user' = [NoUser EXCEPT !.password = mem[c].password,
                                    !.verifyToken = serial',
                                    !.verifyUntil = now + VerifyLife]
          /\ lastSet' = mem[c].password
          /\ Mail
       \/ /\ user # NoUser
          /\ UNCHANGED <<user, serial, lastSet, mailbox>>
    /\ Return(c)
    /\ UNCHANGED <<scenario, now, started, sessions, resets, redis, access,
                   refresh, challenge, everVerified, wrong, signedOut, dead>>

\* Only a row that is not verified has a token: a token that is found is one
\* of an address still to be verified.
VerifyEmail(c, t) ==
    /\ user.verifyToken = t /\ now <= user.verifyUntil
    /\ Begin(c, "verify", "saveUser",
             [Nothing EXCEPT !.user = [user EXCEPT !.verified = TRUE,
                                                   !.verifyToken = 0,
                                                   !.verifyUntil = 0]])
    /\ UNCHANGED <<scenario, now, db, redis, serial, outside, history>>

SaveVerified(c) ==
    /\ pc[c] = "saveUser"
    /\ user' = mem[c].user
    /\ everVerified' = TRUE
    /\ Return(c)
    /\ UNCHANGED <<scenario, now, started, sessions, resets, redis, serial,
                   outside, lastSet, wrong, signedOut, dead>>

ResendVerification(c) ==
    /\ user # NoUser /\ ~user.verified
    /\ serial' = serial + 1
    /\ Begin(c, "resend", "saveResend",
             [Nothing EXCEPT !.user = [user EXCEPT !.verifyToken = serial',
                                                   !.verifyUntil = now + VerifyLife],
                             !.token = serial'])
    /\ UNCHANGED <<scenario, now, db, redis, outside, history>>

\* The row is saved before the letter is sent: a letter that fails leaves it.
SaveResend(c) ==
    /\ pc[c] = "saveResend"
    /\ user' = mem[c].user
    /\ mailbox' \in {mailbox, mailbox \cup {mem[c].token}}
    /\ Return(c)
    /\ UNCHANGED <<scenario, now, started, sessions, resets, redis, serial,
                   access, refresh, challenge, history>>

-----------------------------------------------------------------------------
(* Login                                                                   *)

Login(c, p) ==
    /\ user # NoUser
    /\ Begin(c, "login", "checkPassword",
             [Nothing EXCEPT !.user = user, !.password = p])
    /\ UNCHANGED <<scenario, now, db, redis, serial, outside, history>>

Matches(c) == mem[c].user.password = mem[c].password
Locked(u) == u.lockedUntil > now
NeedsReset(u) == u.failed > 0 \/ u.lockedUntil > 0
Cleared(u) == [u EXCEPT !.failed = 0, !.lockedUntil = 0]

Failed(u) ==
    [u EXCEPT !.failed = @ + 1,
              !.lockedUntil = IF u.failed + 1 >= MaxAttempts THEN now + LockLife ELSE @]

\* incrementFailedAttempts: one more than what this call has read.
WrongPassword(c) ==
    /\ pc[c] = "checkPassword" /\ ~Matches(c)
    /\ user' = Failed(mem[c].user)
    /\ wrong' = wrong + 1
    /\ Return(c)
    /\ UNCHANGED <<scenario, now, started, sessions, resets, redis, serial,
                   outside, lastSet, everVerified, signedOut, dead>>

\* The lock is looked at only after the right password.
RefusedByLock(c) ==
    /\ pc[c] = "checkPassword" /\ Matches(c) /\ Locked(mem[c].user)
    /\ Return(c)
    /\ UNCHANGED <<scenario, now, started, db, redis, serial, outside, history>>

PasswordAccepted(c) ==
    /\ pc[c] = "checkPassword" /\ Matches(c) /\ ~Locked(mem[c].user)
    /\ IF scenario.twoFactor
       THEN Goto(c, "issueChallenge") /\ UNCHANGED <<serial, mem>>
       ELSE /\ Goto(c, "deleteSessions")
            /\ serial' = serial + 1
            /\ Remember(c, [mem[c] EXCEPT !.token = serial', !.iat = now])
    /\ UNCHANGED <<scenario, now, started, db, redis, outside, history>>

\* With 2FA on, login ends with a challenge instead of tokens.
IssueChallenge(c) ==
    /\ pc[c] = "issueChallenge"
    /\ user' = IF NeedsReset(mem[c].user) THEN Cleared(mem[c].user) ELSE user
    /\ challenge' = TRUE
    /\ wrong' = 0
    /\ Return(c)
    /\ UNCHANGED <<scenario, now, started, sessions, resets, redis, serial,
                   access, refresh, mailbox, lastSet, everVerified, signedOut,
                   dead>>

\* The controller calls generateTokens once TwoFactor has taken the code, which
\* closes the challenge.
ChallengePassed(c) ==
    /\ challenge
    /\ challenge' = FALSE
    /\ serial' = serial + 1
    /\ Begin(c, "login", "deleteSessions",
             [Nothing EXCEPT !.user = user, !.token = serial', !.iat = now])
    /\ UNCHANGED <<scenario, now, db, redis, access, refresh, mailbox, history>>

DeleteSessions(c) ==
    /\ pc[c] = "deleteSessions"
    /\ sessions' = {}
    /\ Goto(c, "insertSession")
    /\ UNCHANGED <<scenario, now, started, user, resets, redis, serial, outside,
                   mem, history>>

InsertSession(c) ==
    /\ pc[c] = "insertSession"
    /\ sessions' = sessions \cup {[refresh |-> mem[c].token, revoked |-> FALSE]}
    /\ signedOut' = FALSE
    /\ Goto(c, IF ~scenario.twoFactor /\ NeedsReset(mem[c].user)
               THEN "resetAttempts" ELSE "saveLogin")
    /\ UNCHANGED <<scenario, now, started, user, resets, redis, serial, outside,
                   mem, lastSet, everVerified, wrong, dead>>

ResetFailedAttempts(c) ==
    /\ pc[c] = "resetAttempts"
    /\ user' = Cleared(mem[c].user)
    /\ wrong' = 0
    /\ Remember(c, [mem[c] EXCEPT !.user = user'])
    /\ Goto(c, "saveLogin")
    /\ UNCHANGED <<scenario, now, started, sessions, resets, redis, serial,
                   outside, lastSet, everVerified, signedOut, dead>>

\* updateLastLogin saves the row as it was when the login began.
UpdateLastLogin(c) ==
    /\ pc[c] = "saveLogin"
    /\ user' = mem[c].user
    /\ access' = access \cup {[jti |-> mem[c].token, iat |-> mem[c].iat]}
    /\ refresh' = refresh \cup {mem[c].token}
    /\ Return(c)
    /\ UNCHANGED <<scenario, now, started, sessions, resets, redis, serial,
                   mailbox, challenge, history>>

\* The session of a refresh token is read; the access token is signed when the
\* answer has come.
RefreshToken(c, r) ==
    /\ \E s \in Live : s.refresh = r
    /\ Begin(c, "refresh", "signAccess", Nothing)
    /\ UNCHANGED <<scenario, now, db, redis, serial, outside, history>>

SignAccess(c) ==
    /\ pc[c] = "signAccess"
    /\ serial' = serial + 1
    /\ access' = access \cup {[jti |-> serial', iat |-> now]}
    /\ Return(c)
    /\ UNCHANGED <<scenario, now, started, db, redis, refresh, mailbox,
                   challenge, history>>

-----------------------------------------------------------------------------
(* A request to this service with an access token, and logout.  The wallet  *)
(* service checks a token by its signature and expiry alone.               *)

Request(c, t) ==
    /\ now < t.iat + AccessLife
    /\ Begin(c, "request", "checkJti",
             [Nothing EXCEPT !.token = t.jti, !.iat = t.iat, !.dead = t.jti \in dead])
    /\ UNCHANGED <<scenario, now, db, redis, serial, outside, history>>

\* Redis may fail: the check then lets the token pass.
Check(c, listed, l) ==
    \/ listed /\ Return(c)
    \/ ~listed /\ Goto(c, l) /\ UNCHANGED mem
    \/ Goto(c, l) /\ Remember(c, [mem[c] EXCEPT !.failedOpen = TRUE])

CheckJti(c) ==
    /\ pc[c] = "checkJti"
    /\ Check(c, mem[c].token \in jtis, "checkCutoff")
    /\ UNCHANGED <<scenario, now, started, db, redis, serial, outside, history>>

CheckCutoff(c) ==
    /\ pc[c] = "checkCutoff"
    /\ Check(c, mem[c].iat < cutoff, "accepted")
    /\ UNCHANGED <<scenario, now, started, db, redis, serial, outside, history>>

\* A guarded endpoint of this service that changes nothing here: 2FA, KYC.
Serve(c) ==
    /\ pc[c] = "accepted"
    /\ Return(c)
    /\ UNCHANGED <<scenario, now, started, db, redis, serial, outside, history>>

\* Fault: the test for a token that has expired already is the wrong way round.
LogoutOfExpired(c) ==
    /\ pc[c] = "accepted" /\ "logout" \in scenario.ops
    /\ jtis' = IF mem[c].iat + AccessLife <= now
               THEN jtis \cup {mem[c].token} ELSE jtis
    /\ Goto(c, "findSessions")
    /\ UNCHANGED <<scenario, now, started, db, cutoff, serial, outside, mem, history>>

\* blacklistToken, which keeps the jti as long as the token would live; when
\* Redis fails the logout ends here.
Logout(c) ==
    /\ pc[c] = "accepted" /\ "logout" \in scenario.ops
    /\ \/ /\ jtis' = IF mem[c].iat + AccessLife > now
                     THEN jtis \cup {mem[c].token} ELSE jtis
          /\ Goto(c, "findSessions") /\ UNCHANGED mem
       \/ Return(c) /\ UNCHANGED jtis
    /\ UNCHANGED <<scenario, now, started, db, cutoff, serial, outside, history>>

FindSessions(c) ==
    /\ pc[c] = "findSessions"
    /\ Remember(c, [mem[c] EXCEPT !.found = Live])
    /\ Goto(c, "revokeSessions")
    /\ UNCHANGED <<scenario, now, started, db, redis, serial, outside, history>>

RevokeNext(c, s) ==
    /\ pc[c] = "revokeSessions" /\ s \in mem[c].found
    /\ SaveSession([s EXCEPT !.revoked = TRUE])
    /\ Remember(c, [mem[c] EXCEPT !.found = @ \ {s}])
    /\ UNCHANGED <<scenario, now, started, user, resets, redis, serial, outside,
                   pc, history>>

LoggedOut(c) ==
    /\ pc[c] = "revokeSessions" /\ mem[c].found = {}
    /\ signedOut' = TRUE
    /\ dead' = dead \cup {mem[c].token}
    /\ Return(c)
    /\ UNCHANGED <<scenario, now, started, db, redis, serial, outside, lastSet,
                   everVerified, wrong>>

-----------------------------------------------------------------------------
(* Password reset                                                          *)

RequestPasswordReset(c) ==
    /\ user # NoUser
    /\ Begin(c, "askReset", "deleteResets", Nothing)
    /\ UNCHANGED <<scenario, now, db, redis, serial, outside, history>>

\* delete({ user_id, used_at: null }): whether TypeORM turns null into IS NULL
\* or into a comparison that is never true is left open.
DeleteUnused(c) ==
    /\ pc[c] = "deleteResets"
    /\ resets' \in {resets, {r \in resets : r.used}}
    /\ Goto(c, "insertReset")
    /\ UNCHANGED <<scenario, now, started, user, sessions, redis, serial,
                   outside, mem, history>>

InsertReset(c) ==
    /\ pc[c] = "insertReset"
    /\ serial' = serial + 1
    /\ resets' = resets \cup {[token |-> serial', until |-> now + ResetLife,
                               used |-> FALSE]}
    /\ Mail
    /\ Return(c)
    /\ UNCHANGED <<scenario, now, started, user, sessions, redis, access,
                   refresh, challenge, history>>

ConfirmPasswordReset(c, t, p) ==
    /\ \E r \in resets :
         /\ r.token = t /\ ~r.used /\ now < r.until
         /\ Begin(c, "reset", "savePassword",
                  [Nothing EXCEPT !.user = user, !.password = p, !.reset = r])
    /\ UNCHANGED <<scenario, now, db, redis, serial, outside, history>>

\* Fault: the new password is stored, the count and the lock are forgotten.
SavePasswordOnly(c) ==
    /\ pc[c] = "savePassword"
    /\ user' = [mem[c].user EXCEPT !.password = mem[c].password]
    /\ lastSet' = mem[c].password
    /\ wrong' = 0
    /\ Goto(c, "markUsed")
    /\ UNCHANGED <<scenario, now, started, sessions, resets, redis, serial,
                   outside, mem, everVerified, signedOut, dead>>

SavePassword(c) ==
    /\ pc[c] = "savePassword"
    /\ user' = [Cleared(mem[c].user) EXCEPT !.password = mem[c].password]
    /\ lastSet' = mem[c].password
    /\ wrong' = 0
    /\ Goto(c, "markUsed")
    /\ UNCHANGED <<scenario, now, started, sessions, resets, redis, serial,
                   outside, mem, everVerified, signedOut, dead>>

MarkUsed(c) ==
    /\ pc[c] = "markUsed"
    /\ SaveReset([mem[c].reset EXCEPT !.used = TRUE])
    /\ Goto(c, "revokeAll")
    /\ UNCHANGED <<scenario, now, started, user, sessions, redis, serial,
                   outside, mem, history>>

\* Fault: the sessions outlive the password.
RevokeNone(c) ==
    /\ pc[c] = "revokeAll"
    /\ Goto(c, "blacklistUser")
    /\ UNCHANGED <<scenario, now, started, db, redis, serial, outside, mem, history>>

RevokeAll(c) ==
    /\ pc[c] = "revokeAll"
    /\ sessions' = {[s EXCEPT !.revoked = TRUE] : s \in sessions}
    /\ Goto(c, "blacklistUser")
    /\ UNCHANGED <<scenario, now, started, user, resets, redis, serial, outside,
                   mem, history>>

\* blacklistAllUserTokens stores a date 30 days ahead; when Redis fails the
\* call answers 500 with everything before done.
BlacklistUser(c) ==
    /\ pc[c] = "blacklistUser"
    /\ \/ /\ cutoff' = now + Month
          /\ signedOut' = TRUE
          /\ dead' = dead \cup {t.jti : t \in access}
       \/ UNCHANGED <<cutoff, signedOut, dead>>
    /\ Return(c)
    /\ UNCHANGED <<scenario, now, started, db, jtis, serial, outside, lastSet,
                   everVerified, wrong>>

-----------------------------------------------------------------------------
\* An await throws, or the server stops: the call ends where it is.
Break(c) ==
    /\ pc[c] # "idle"
    /\ Return(c)
    /\ UNCHANGED <<scenario, now, started, db, redis, serial, outside, history>>

Tick ==
    /\ now < MaxTime
    /\ now' = now + 1
    /\ UNCHANGED <<scenario, started, db, redis, serial, outside, pc, mem, history>>

Account(c) ==
    \/ \E p \in Passwords : Register(c, p)
    \/ InsertUser(c)
    \/ \E t \in mailbox : VerifyEmail(c, t)
    \/ SaveVerified(c) \/ ResendVerification(c) \/ SaveResend(c)

LoginStep(c) ==
    \/ \E p \in Passwords : Login(c, p)
    \/ WrongPassword(c) \/ RefusedByLock(c) \/ PasswordAccepted(c)
    \/ IssueChallenge(c) \/ ChallengePassed(c)
    \/ DeleteSessions(c) \/ InsertSession(c)
    \/ ResetFailedAttempts(c) \/ UpdateLastLogin(c)

TokenStep(c) ==
    \/ \E r \in refresh : RefreshToken(c, r)
    \/ SignAccess(c)
    \/ \E t \in access : Request(c, t)
    \/ CheckJti(c) \/ CheckCutoff(c) \/ Serve(c)
    \/ Logout(c) \/ FindSessions(c) \/ LoggedOut(c)
    \/ \E s \in mem[c].found : RevokeNext(c, s)

ResetStep(c) ==
    \/ RequestPasswordReset(c) \/ DeleteUnused(c) \/ InsertReset(c)
    \/ \E t \in mailbox, p \in Passwords : ConfirmPasswordReset(c, t, p)
    \/ SavePassword(c) \/ MarkUsed(c) \/ RevokeAll(c) \/ BlacklistUser(c)

Next ==
    \/ Tick
    \/ \E c \in Calls :
         Account(c) \/ LoginStep(c) \/ TokenStep(c) \/ ResetStep(c) \/ Break(c)

Spec == Init /\ [][Next]_vars

-----------------------------------------------------------------------------
(* Properties                                                              *)

\* A request to this service with an access token that was logged out, or that
\* was handed out before a password reset was confirmed, is never served,
\* whatever other calls do meanwhile, unless Redis failed it during the checks.
\* Nothing is said of the wallet service, whose guard never looks.
RevokedIsRefused ==
    \A c \in Calls : pc[c] = "accepted" /\ mem[c].dead => mem[c].failedOpen

\* createSession deletes the older sessions "to prevent session accumulation":
\* logins that run at the same time may leave one live session each, and never
\* more.
SessionsBounded == Cardinality(Live) <= scenario.width

\* One request at a time: after a logout or a reset has succeeded no session is
\* live until the next login, whatever failed in between.
SignedOutHasNoSession == scenario.width = 1 /\ signedOut => Live = {}

\* One request at a time: the row of users says what happened.  Its password is
\* the last one that was set, a verified address stays verified, the count is
\* the number of wrong passwords since it was last cleared, and the account is
\* locked as soon as there are too many of them.
PasswordIsLastSet == user.password = lastSet
RowIsHistory ==
    scenario.width = 1 =>
        /\ PasswordIsLastSet
        /\ everVerified => user.verified
        /\ user.failed = wrong
        /\ user.lockedUntil > 0 <=> wrong >= MaxAttempts
=============================================================================
