------------------------------ MODULE AuthProofs -----------------------------
(***************************************************************************)
(* Every part of Auth keeps its invariant: a step is a step of one part and *)
(* leaves the others as they are (PartSteps), and each part has an inductive *)
(* invariant of its own.                                                   *)
(***************************************************************************)
EXTENDS Auth, FiniteSetTheorems, TLAPS

\* A step is a step of each part, or leaves that part alone.
LEMMA PartSteps ==
    ASSUME [AuthNext]_authVars
    PROVE  /\ [Next]_vars
           /\ [Second!Next]_vars2FA
           /\ [Rate!Next]_varsRate
           /\ [Withdrawal!Next]_varsWithdrawal
BY DEF AuthNext, authVars

\* Each part counts with Cardinality.
LEMMA Counts ==
    \A S : /\ Second!Cardinality(S) = Cardinality(S)
           /\ Rate!Cardinality(S) = Cardinality(S)
           /\ Withdrawal!Cardinality(S) = Cardinality(S)
BY DEF Second!Cardinality, Rate!Cardinality, Withdrawal!Cardinality, Cardinality

\* Two sets of calls that may differ in one call.
LEMMA OneMoves ==
    ASSUME NEW S, NEW T, S \subseteq Calls, T \subseteq Calls, NEW c,
           \A d \in Calls \ {c} : d \in S <=> d \in T
    PROVE  /\ Cardinality(S) \in Nat /\ Cardinality(T) \in Nat
           /\ c \in S /\ c \notin T => Cardinality(T) = Cardinality(S) - 1
           /\ c \notin S /\ c \in T => Cardinality(T) = Cardinality(S) + 1
           /\ (c \in S <=> c \in T) => Cardinality(T) = Cardinality(S)
<1>1. IsFiniteSet(S) /\ IsFiniteSet(T)
  BY ScenarioAssumption, FS_Subset
<1>2. Cardinality(S) \in Nat /\ Cardinality(T) \in Nat
  BY <1>1, FS_CardinalityType
<1>3. CASE c \in S /\ c \notin T
  <2>1. S = T \cup {c}
    BY <1>3
  <2> QED BY <1>1, <1>2, <1>3, <2>1, FS_AddElement
<1>4. CASE c \notin S /\ c \in T
  <2>1. T = S \cup {c}
    BY <1>4
  <2> QED BY <1>1, <1>2, <1>4, <2>1, FS_AddElement
<1>5. CASE c \in S <=> c \in T
  <2>1. S = T
    BY <1>5
  <2> QED BY <1>2, <1>5, <2>1
<1> QED BY <1>2, <1>3, <1>4, <1>5

LEMMA CallsCount ==
    ASSUME NEW S, S \subseteq Calls
    PROVE  /\ IsFiniteSet(S) /\ Cardinality(S) \in Nat /\ Cardinality(S) <= Cardinality(Calls)
           /\ Cardinality(Calls) \in Nat
BY ScenarioAssumption, FS_Subset, FS_CardinalityType

\* Numbers are made by the calls that are to make one: s numbers, n calls, k requests.
LEMMA NumbersRest ==
    ASSUME NEW s \in Nat, NEW n \in Nat, NEW n2 \in Nat, NEW k \in Nat, NEW k2 \in Nat,
           NEW b \in Nat, s + n <= k + b, k <= k2, n2 <= n
    PROVE  s + n2 <= k2 + b
OBVIOUS

LEMMA NumbersKept ==
    ASSUME NEW s \in Nat, NEW s2 \in Nat, NEW n \in Nat, NEW n2 \in Nat,
           NEW k \in Nat, NEW k2 \in Nat, NEW b \in Nat, s + n <= k + b,
           \/ s2 = s /\ k2 = k + 1 /\ n2 = n + 1
           \/ s2 = s /\ k <= k2 /\ n2 <= n
           \/ s2 = s + 1 /\ k2 = k /\ n2 = n - 1
           \/ s2 = s + 1 /\ k2 = k + 1 /\ n2 <= n
    PROVE  s2 + n2 <= k2 + b
OBVIOUS

LEMMA NumbersMade ==
    ASSUME NEW s \in Nat, NEW s2 \in Nat, NEW n \in Nat, NEW n2 \in Nat,
           NEW k \in Nat, NEW k2 \in Nat, s + n <= k,
           \/ s2 = s /\ k2 = k + 1 /\ n2 = n + 1
           \/ s2 = s /\ k <= k2 /\ n2 <= n
           \/ s2 = s + 1 /\ k2 = k /\ n2 = n - 1
           \/ s2 = s + 1 /\ k2 = k + 1 /\ n2 <= n
    PROVE  s2 + n2 <= k2
BY NumbersKept

LEMMA NumbersBound ==
    ASSUME NEW s \in Nat, NEW n \in Nat, NEW k \in Nat, NEW b \in Nat, s + n <= k + 1, k <= b
    PROVE  s \in 0..(b + 1)
OBVIOUS

LEMMA NumbersGrow ==
    ASSUME NEW t \in Nat, NEW s \in Nat, NEW s2 \in Nat, t <= s, s <= s2
    PROVE  t \in 0..s2
OBVIOUS

-----------------------------------------------------------------------------
(* Tokens: a dead one is on one of the two lists, or has expired.          *)
\* A dead token stays on its list, since the lists only grow and the cut-off only
\* moves on; and no token that is handed out later has its jti.

Fields == {"user", "password", "token", "iat", "found", "reset", "dead", "failedOpen"}

TokenTypes ==
    /\ now \in Nat /\ serial \in Nat
    /\ cutoff \in Nat /\ cutoff <= now + Month
    /\ access \subseteq AccessToken
    /\ pc \in [Calls -> PC] /\ mem = [c \in Calls |-> mem[c]]
    /\ \A c \in Calls : DOMAIN mem[c] = Fields

Listed(jti, iat) == jti \in jtis \/ iat < cutoff

\* A token is one of a kind, and a dead one is refused as long as it would live.
TokenOK(t) ==
    /\ t.jti <= serial /\ t.iat <= now
    /\ t.jti \in dead => Listed(t.jti, t.iat) \/ t.iat + AccessLife <= now
TokensUnique == \A t, u \in access : t.jti = u.jti => t = u
DeadWasIssued == \A j \in dead : \E t \in access : t.jti = j
AccessOK == (\A t \in access : TokenOK(t)) /\ TokensUnique /\ DeadWasIssued

\* A login has a new jti, which it has not handed out yet.
Issuing == {"deleteSessions", "insertSession", "resetAttempts", "saveLogin"}
NotIssued(c) ==
    /\ mem[c].token \in Nat /\ mem[c].token <= serial
    /\ mem[c].iat \in Nat /\ mem[c].iat <= now
    /\ \A t \in access : t.jti # mem[c].token
IssuedOnce ==
    \A c, d \in Calls :
        c # d /\ pc[c] \in Issuing /\ pc[d] \in Issuing => mem[c].token # mem[d].token

\* A request carries a token that was handed out; when it was dead at the start,
\* the checks that are still to come will refuse it, or Redis has failed.
Carrying == {"checkJti", "checkCutoff", "accepted", "findSessions", "revokeSessions"}
CarriesToken(c) == [jti |-> mem[c].token, iat |-> mem[c].iat] \in access
WillBeRefused(c) ==
    /\ pc[c] = "checkJti" => Listed(mem[c].token, mem[c].iat)
    /\ pc[c] = "checkCutoff" => mem[c].iat < cutoff \/ mem[c].failedOpen
    /\ pc[c] = "accepted" => mem[c].failedOpen

\* A logout has put its token on the list before it touches the sessions.
LogoutListed(c) == mem[c].token \in jtis \/ mem[c].iat + AccessLife <= now

CallOK(c) ==
    /\ pc[c] \in Issuing => NotIssued(c)
    /\ pc[c] \in Carrying => CarriesToken(c)
    /\ mem[c].dead => WillBeRefused(c)
    /\ pc[c] \in {"findSessions", "revokeSessions"} => LogoutListed(c)
CallsOK == \A c \in Calls : CallOK(c)

TokensIInv == TokenTypes /\ AccessOK /\ IssuedOnce /\ CallsOK

-----------------------------------------------------------------------------

LEMMA FieldsOfNothing == DOMAIN Nothing = Fields
BY DEF Nothing, Fields

LEMMA TokensInit == Init => TokensIInv
<1> SUFFICES ASSUME Init PROVE TokensIInv
  OBVIOUS
<1> USE AuthAssumption
<1>1. TokenTypes
  BY FieldsOfNothing DEF Init, TokenTypes, PC
<1>2. AccessOK
  BY DEF Init, AccessOK, TokensUnique, DeadWasIssued
<1>3. IssuedOnce /\ CallsOK
  BY DEF Init, IssuedOnce, CallsOK, CallOK, Issuing, Carrying, WillBeRefused, Nothing
<1> QED BY <1>1, <1>2, <1>3 DEF TokensIInv

\* What never shrinks.
Grows ==
    /\ now <= now' /\ serial <= serial' /\ cutoff <= cutoff'
    /\ jtis \subseteq jtis' /\ access \subseteq access'

\* The step of one call leaves the others what they rest on, unless it hands out
\* a token of theirs.
LEMMA OtherCall ==
    ASSUME TokenTypes, TokenTypes', Grows, NEW d \in Calls, CallOK(d),
           pc'[d] = pc[d], mem'[d] = mem[d],
           pc[d] \in Issuing => \A t \in access' : t \in access \/ t.jti # mem[d].token
    PROVE  CallOK(d)'
<1> USE AuthAssumption
<1>1. /\ now \in Nat /\ now' \in Nat /\ serial \in Nat /\ serial' \in Nat
      /\ cutoff \in Nat /\ cutoff' \in Nat
      /\ access \subseteq AccessToken
      /\ now <= now' /\ serial <= serial' /\ cutoff <= cutoff'
      /\ jtis \subseteq jtis' /\ access \subseteq access'
  BY DEF TokenTypes, Grows
<1>2. pc'[d] \in Issuing => NotIssued(d)'
  BY <1>1 DEF CallOK, NotIssued
<1>3. pc'[d] \in Carrying => CarriesToken(d)' /\ mem[d].iat \in Nat
  BY <1>1 DEF CallOK, CarriesToken, AccessToken
<1>4. mem'[d].dead => WillBeRefused(d)'
  BY <1>1, <1>3 DEF CallOK, WillBeRefused, Listed, Carrying
<1>5. pc'[d] \in {"findSessions", "revokeSessions"} => LogoutListed(d)'
  BY <1>1, <1>3 DEF CallOK, LogoutListed, Carrying
<1> QED BY <1>2, <1>3, <1>4, <1>5 DEF CallOK

\* A step of call c: it answers for itself and for the tokens.
LEMMA StepKeeps ==
    ASSUME TokensIInv, NEW c \in Calls, NEW l \in PC, NEW m, DOMAIN m = Fields,
           pc' = [pc EXCEPT ![c] = l], mem' = [mem EXCEPT ![c] = m],
           Grows, now' \in Nat, serial' \in Nat, cutoff' \in Nat, cutoff' <= now' + Month,
           access' \subseteq AccessToken, AccessOK', CallOK(c)',
           \A d \in Calls \ {c} : pc[d] \in Issuing =>
               /\ \A t \in access' : t \in access \/ t.jti # mem[d].token
               /\ l \in Issuing => m.token # mem[d].token
    PROVE  TokensIInv'
<1>1. /\ pc'[c] = l /\ mem'[c] = m
      /\ \A d \in Calls \ {c} : pc'[d] = pc[d] /\ mem'[d] = mem[d]
  BY DEF TokensIInv, TokenTypes
<1>2. TokenTypes'
  BY <1>1 DEF TokensIInv, TokenTypes
<1>3. ASSUME NEW d \in Calls \ {c} PROVE CallOK(d)'
  BY <1>1, <1>2, OtherCall DEF TokensIInv, CallsOK
<1>4. CallsOK'
  BY <1>3 DEF CallsOK
<1>5. IssuedOnce'
  BY <1>1 DEF TokensIInv, IssuedOnce
<1> QED BY <1>2, <1>4, <1>5 DEF TokensIInv

\* The tokens, and what is said of them, are left alone.
TokensRest == UNCHANGED <<now, jtis, cutoff, access, dead>>

LEMMA RestingTokens ==
    ASSUME TokensIInv, TokensRest, serial' \in Nat, serial <= serial'
    PROVE  /\ Grows /\ now' \in Nat /\ cutoff' \in Nat /\ cutoff' <= now' + Month
           /\ access' \subseteq AccessToken /\ AccessOK'
<1>1. TokenTypes /\ AccessOK
  BY DEF TokensIInv
<1>2. /\ now \in Nat /\ cutoff \in Nat /\ cutoff <= now + Month /\ serial \in Nat
      /\ access \subseteq AccessToken
  BY <1>1 DEF TokenTypes
<1>3. Grows
  BY <1>2 DEF TokensRest, Grows
<1>4. AccessOK'
  <2>1. \A t \in access : TokenOK(t)'
    BY <1>1, <1>2 DEF AccessOK, TokenOK, Listed, TokensRest, AccessToken
  <2> QED BY <1>1, <2>1 DEF AccessOK, TokensUnique, DeadWasIssued, TokensRest
<1> QED BY <1>2, <1>3, <1>4 DEF TokensRest

\* A step to a place where the call has neither a new token nor a request's.
LEMMA QuietStep ==
    ASSUME TokensIInv, TokensRest, serial' \in Nat, serial <= serial',
           NEW c \in Calls, NEW l \in PC, l \notin Issuing, l \notin Carrying,
           NEW m, DOMAIN m = Fields,
           pc' = [pc EXCEPT ![c] = l], mem' = [mem EXCEPT ![c] = m]
    PROVE  TokensIInv'
<1>1. pc'[c] = l
  BY DEF TokensIInv, TokenTypes
<1>2. CallOK(c)'
  BY <1>1 DEF CallOK, WillBeRefused, Carrying, Issuing
<1>3. access' = access
  BY DEF TokensRest
<1> QED BY <1>2, <1>3, RestingTokens, StepKeeps

-----------------------------------------------------------------------------

\* How a request begins, and how a call ends or goes on.
LEMMA BeginMoves ==
    ASSUME NEW c \in Calls, NEW op, NEW l, NEW m, Begin(c, op, l, m)
    PROVE  /\ pc' = [pc EXCEPT ![c] = l] /\ mem' = [mem EXCEPT ![c] = m]
           /\ pc[c] = "idle"
BY DEF Begin, Goto, Remember

LEMMA ReturnMoves ==
    ASSUME NEW c \in Calls, Return(c)
    PROVE  /\ pc' = [pc EXCEPT ![c] = "idle"] /\ mem' = [mem EXCEPT ![c] = Nothing]
           /\ "idle" \in PC /\ "idle" \notin Issuing /\ "idle" \notin Carrying
           /\ DOMAIN Nothing = Fields
BY FieldsOfNothing DEF Return, Goto, Remember, PC, Issuing, Carrying

LEMMA StayMoves ==
    ASSUME TokensIInv, NEW c \in Calls
    PROVE  mem = [mem EXCEPT ![c] = mem[c]] /\ DOMAIN mem[c] = Fields
BY DEF TokensIInv, TokenTypes

\* A call that ends with the tokens as they were.
LEMMA ReturnKeeps ==
    ASSUME TokensIInv, TokensRest, serial' \in Nat, serial <= serial', NEW c \in Calls, Return(c)
    PROVE  TokensIInv'
BY ReturnMoves, QuietStep

LEMMA AccountKeeps ==
    ASSUME TokensIInv, NEW c \in Calls, Account(c)
    PROVE  TokensIInv'
<1>0. serial \in Nat
  BY DEF TokensIInv, TokenTypes
<1>1. ASSUME NEW p \in Passwords, Register(c, p) PROVE TokensIInv'
  <2>1. TokensRest /\ serial' = serial
    BY <1>1 DEF Register, redis, outside, history, TokensRest
  <2> DEFINE m == [Nothing EXCEPT !.password = p]
  <2>2. Begin(c, "register", "insertUser", m)
    BY <1>1 DEF Register
  <2>3. DOMAIN m = Fields
    BY FieldsOfNothing
  <2>4. "insertUser" \in PC /\ "insertUser" \notin Issuing /\ "insertUser" \notin Carrying
    BY DEF PC, Issuing, Carrying
  <2> HIDE DEF m
  <2> QED BY <1>0, <2>1, <2>2, <2>3, <2>4, BeginMoves, QuietStep
<1>2. ASSUME InsertUser(c) PROVE TokensIInv'
  <2>1. TokensRest /\ serial' \in {serial, serial + 1} /\ Return(c)
    BY <1>2 DEF InsertUser, redis, TokensRest
  <2> QED BY <1>0, <2>1, ReturnKeeps
<1>3. ASSUME NEW t \in mailbox, VerifyEmail(c, t) PROVE TokensIInv'
  <2>1. TokensRest /\ serial' = serial
    BY <1>3 DEF VerifyEmail, redis, outside, history, TokensRest
  <2> DEFINE m == [Nothing EXCEPT !.user = [user EXCEPT !.verified = TRUE,
                                                     !.verifyToken = 0,
                                                     !.verifyUntil = 0]]
  <2>2. Begin(c, "verify", "saveUser", m)
    BY <1>3 DEF VerifyEmail
  <2>3. DOMAIN m = Fields
    BY FieldsOfNothing
  <2>4. "saveUser" \in PC /\ "saveUser" \notin Issuing /\ "saveUser" \notin Carrying
    BY DEF PC, Issuing, Carrying
  <2> HIDE DEF m
  <2> QED BY <1>0, <2>1, <2>2, <2>3, <2>4, BeginMoves, QuietStep
<1>4. ASSUME SaveVerified(c) \/ SaveResend(c) PROVE TokensIInv'
  <2>1. TokensRest /\ serial' = serial /\ Return(c)
    BY <1>4 DEF SaveVerified, SaveResend, redis, outside, history, TokensRest
  <2> QED BY <1>0, <2>1, ReturnKeeps
<1>5. ASSUME ResendVerification(c) PROVE TokensIInv'
  <2>1. TokensRest /\ serial' = serial + 1
    BY <1>5 DEF ResendVerification, redis, outside, history, TokensRest
  <2> DEFINE m == [Nothing EXCEPT
                     !.user = [user EXCEPT !.verifyToken = serial',
                                           !.verifyUntil = now + VerifyLife],
                     !.token = serial']
  <2>2. Begin(c, "resend", "saveResend", m)
    BY <1>5 DEF ResendVerification
  <2>3. DOMAIN m = Fields
    BY FieldsOfNothing
  <2>4. "saveResend" \in PC /\ "saveResend" \notin Issuing /\ "saveResend" \notin Carrying
    BY DEF PC, Issuing, Carrying
  <2> HIDE DEF m
  <2> QED BY <1>0, <2>1, <2>2, <2>3, <2>4, BeginMoves, QuietStep
<1> QED BY <1>1, <1>2, <1>3, <1>4, <1>5 DEF Account

\* A login that goes on with its token, or takes a new one.
LEMMA IssuingStep ==
    ASSUME TokensIInv, TokensRest, NEW c \in Calls, NEW l \in Issuing, NEW m, DOMAIN m = Fields,
           pc' = [pc EXCEPT ![c] = l], mem' = [mem EXCEPT ![c] = m],
           \/ /\ pc[c] \in Issuing /\ m.token = mem[c].token /\ m.iat = mem[c].iat
              /\ serial' = serial
           \/ /\ serial' = serial + 1 /\ m.token = serial' /\ m.iat = now
    PROVE  TokensIInv'
<1>0. TokenTypes /\ AccessOK /\ CallsOK /\ IssuedOnce
  BY DEF TokensIInv
<1>1. /\ now \in Nat /\ serial \in Nat /\ serial' \in Nat /\ serial <= serial'
      /\ now' = now /\ access' = access
  BY <1>0 DEF TokenTypes, TokensRest
<1>2. pc'[c] = l /\ mem'[c] = m
  BY <1>0 DEF TokenTypes
<1>3. \A t \in access : t.jti \in Nat /\ t.jti <= serial
  BY <1>0 DEF TokenTypes, AccessOK, TokenOK, AccessToken
<1>4. NotIssued(c)'
  <2>1. CASE pc[c] \in Issuing /\ m.token = mem[c].token /\ m.iat = mem[c].iat
             /\ serial' = serial
    <3>1. NotIssued(c)
      BY <1>0, <2>1 DEF CallsOK, CallOK
    <3> QED BY <1>1, <1>2, <2>1, <3>1 DEF NotIssued
  <2>2. CASE serial' = serial + 1 /\ m.token = serial' /\ m.iat = now
    BY <1>1, <1>2, <1>3, <2>2 DEF NotIssued
  <2> QED BY <2>1, <2>2
<1>5. CallOK(c)'
  BY <1>2, <1>4 DEF CallOK, Issuing, Carrying, WillBeRefused
<1>6. ASSUME NEW d \in Calls \ {c}, pc[d] \in Issuing PROVE m.token # mem[d].token
  <2>1. NotIssued(d)
    BY <1>0, <1>6 DEF CallsOK, CallOK
  <2> QED BY <1>0, <1>1, <1>6, <2>1 DEF IssuedOnce, NotIssued
<1>7. l \in PC
  BY DEF PC, Issuing
<1> QED BY <1>1, <1>2, <1>5, <1>6, <1>7, RestingTokens, StepKeeps

\* A token is handed out.
LEMMA HandOut ==
    ASSUME TokensIInv, NEW c \in Calls, Return(c), NEW t \in AccessToken,
           access' = access \cup {t}, UNCHANGED <<now, jtis, cutoff, dead>>,
           serial' \in Nat, serial <= serial', t.jti <= serial', t.iat <= now,
           \A u \in access : u.jti # t.jti,
           \A d \in Calls \ {c} : pc[d] \in Issuing => mem[d].token # t.jti
    PROVE  TokensIInv'
<1>0. TokenTypes /\ AccessOK /\ CallsOK
  BY DEF TokensIInv
<1>1. /\ now \in Nat /\ serial \in Nat /\ cutoff \in Nat /\ cutoff <= now + Month
      /\ access \subseteq AccessToken
  BY <1>0 DEF TokenTypes
<1>2. Grows
  BY <1>1 DEF Grows
<1>3. ASSUME NEW u \in access' PROVE TokenOK(u)'
  <2>1. CASE u \in access
    BY <1>0, <1>1, <2>1 DEF AccessOK, TokenOK, Listed, AccessToken
  <2>2. CASE u = t
    <3>1. t.jti \notin dead
      BY <1>0 DEF AccessOK, DeadWasIssued
    <3> QED BY <2>2, <3>1 DEF TokenOK
  <2> QED BY <2>1, <2>2
<1>4. TokensUnique'
  BY <1>0 DEF AccessOK, TokensUnique
<1>5. DeadWasIssued'
  BY <1>0 DEF AccessOK, DeadWasIssued
<1>6. AccessOK'
  BY <1>3, <1>4, <1>5 DEF AccessOK
<1>7. pc'[c] = "idle" /\ mem'[c] = Nothing
  BY <1>0 DEF TokenTypes, Return, Goto, Remember
<1>8. CallOK(c)'
  BY <1>7 DEF CallOK, Issuing, Carrying, WillBeRefused, Nothing
<1> QED BY <1>1, <1>2, <1>6, <1>8, ReturnMoves, StepKeeps

LEMMA LoginKeeps ==
    ASSUME TokensIInv, NEW c \in Calls, LoginStep(c)
    PROVE  TokensIInv'
<1>0. serial \in Nat /\ now \in Nat
  BY DEF TokensIInv, TokenTypes
<1>1. ASSUME NEW p \in Passwords, Login(c, p) PROVE TokensIInv'
  <2> DEFINE m == [Nothing EXCEPT !.user = user, !.password = p]
  <2>1. TokensRest /\ serial' = serial /\ Begin(c, "login", "checkPassword", m)
    BY <1>1 DEF Login, redis, outside, history, TokensRest
  <2>2. DOMAIN m = Fields
    BY FieldsOfNothing
  <2>3. /\ "checkPassword" \in PC /\ "checkPassword" \notin Issuing
        /\ "checkPassword" \notin Carrying
    BY DEF PC, Issuing, Carrying
  <2> HIDE DEF m
  <2> QED BY <1>0, <2>1, <2>2, <2>3, BeginMoves, QuietStep
<1>2. ASSUME WrongPassword(c) \/ RefusedByLock(c) \/ IssueChallenge(c) PROVE TokensIInv'
  <2>1. TokensRest /\ serial' = serial /\ Return(c)
    BY <1>2 DEF WrongPassword, RefusedByLock, IssueChallenge, redis, outside, history,
                TokensRest
  <2> QED BY <1>0, <2>1, ReturnKeeps
<1>3. ASSUME PasswordAccepted(c) PROVE TokensIInv'
  <2>1. TokensRest
    BY <1>3 DEF PasswordAccepted, redis, outside, history, TokensRest
  <2>2. CASE scenario.twoFactor
    <3>1. /\ serial' = serial /\ pc' = [pc EXCEPT ![c] = "issueChallenge"]
          /\ mem' = [mem EXCEPT ![c] = mem[c]]
      BY <1>3, <2>2, StayMoves DEF PasswordAccepted, Goto
    <3>2. /\ "issueChallenge" \in PC /\ "issueChallenge" \notin Issuing
          /\ "issueChallenge" \notin Carrying
      BY DEF PC, Issuing, Carrying
    <3>3. DOMAIN mem[c] = Fields /\ serial' \in Nat /\ serial <= serial'
      BY <1>0, <3>1, StayMoves
    <3> HIDE DEF TokensIInv
    <3> QED BY <2>1, <3>1, <3>2, <3>3, QuietStep
  <2>3. CASE ~scenario.twoFactor
    <3> DEFINE m == [mem[c] EXCEPT !.token = serial', !.iat = now]
    <3>1. /\ serial' = serial + 1 /\ mem' = [mem EXCEPT ![c] = m]
          /\ pc' = [pc EXCEPT ![c] = "deleteSessions"]
      BY <1>3, <2>3 DEF PasswordAccepted, Goto, Remember
    <3>2. DOMAIN mem[c] = Fields
      BY StayMoves
    <3>3. DOMAIN m = Fields /\ m.token = serial' /\ m.iat = now
      BY <3>2 DEF Fields
    <3> HIDE DEF m
    <3> QED BY <1>0, <2>1, <3>1, <3>3, IssuingStep DEF Issuing
  <2> QED BY <2>2, <2>3
<1>4. ASSUME ChallengePassed(c) PROVE TokensIInv'
  <2> DEFINE m == [Nothing EXCEPT !.user = user, !.token = serial', !.iat = now]
  <2>1. TokensRest /\ serial' = serial + 1 /\ Begin(c, "login", "deleteSessions", m)
    BY <1>4 DEF ChallengePassed, redis, history, TokensRest
  <2>2. DOMAIN m = Fields /\ m.token = serial' /\ m.iat = now
    BY FieldsOfNothing DEF Fields
  <2> HIDE DEF m
  <2> QED BY <2>1, <2>2, BeginMoves, IssuingStep DEF Issuing
<1>5. ASSUME DeleteSessions(c) \/ InsertSession(c) PROVE TokensIInv'
  <2>1. /\ TokensRest /\ serial' = serial /\ mem' = mem /\ pc[c] \in Issuing
        /\ \E l \in Issuing : pc' = [pc EXCEPT ![c] = l]
    BY <1>5 DEF DeleteSessions, InsertSession, Goto, redis, outside, history, TokensRest,
                Issuing
  <2>2. PICK l \in Issuing : pc' = [pc EXCEPT ![c] = l]
    BY <2>1
  <2>3. mem' = [mem EXCEPT ![c] = mem[c]] /\ DOMAIN mem[c] = Fields
    BY <2>1, StayMoves
  <2> QED BY <2>1, <2>2, <2>3, IssuingStep
<1>6. ASSUME ResetFailedAttempts(c) PROVE TokensIInv'
  <2> DEFINE m == [mem[c] EXCEPT !.user = user']
  <2>1. /\ TokensRest /\ serial' = serial /\ mem' = [mem EXCEPT ![c] = m]
        /\ pc[c] \in Issuing /\ pc' = [pc EXCEPT ![c] = "saveLogin"]
    BY <1>6 DEF ResetFailedAttempts, Goto, Remember, redis, outside, history, TokensRest,
                Issuing
  <2>2. DOMAIN mem[c] = Fields
    BY StayMoves
  <2>3. DOMAIN m = Fields /\ m.token = mem[c].token /\ m.iat = mem[c].iat
    BY <2>2 DEF Fields
  <2> HIDE DEF m
  <2> QED BY <2>1, <2>3, IssuingStep DEF Issuing
<1>7. ASSUME UpdateLastLogin(c) PROVE TokensIInv'
  <2> DEFINE t == [jti |-> mem[c].token, iat |-> mem[c].iat]
  <2>1. /\ Return(c) /\ access' = access \cup {t} /\ UNCHANGED <<now, jtis, cutoff, dead>>
        /\ serial' = serial /\ pc[c] = "saveLogin"
    BY <1>7 DEF UpdateLastLogin, redis, history
  <2>2. NotIssued(c)
    BY <2>1 DEF TokensIInv, CallsOK, CallOK, Issuing
  <2>3. t \in AccessToken /\ t.jti = mem[c].token /\ t.iat = mem[c].iat
    BY <2>2 DEF NotIssued, AccessToken
  <2>4. \A d \in Calls \ {c} : pc[d] \in Issuing => mem[d].token # t.jti
    BY <2>1, <2>3 DEF TokensIInv, IssuedOnce, Issuing
  <2>5. t.jti <= serial /\ t.iat <= now /\ \A u \in access : u.jti # t.jti
    BY <2>2, <2>3 DEF NotIssued
  <2> HIDE DEF t
  <2> QED BY <1>0, <2>1, <2>3, <2>4, <2>5, HandOut
<1> QED BY <1>1, <1>2, <1>3, <1>4, <1>5, <1>6, <1>7 DEF LoginStep

\* A step of a call that carries a token, which leaves the tokens alone.
LEMMA CarryingStep ==
    ASSUME TokensIInv, TokensRest, serial' = serial, NEW c \in Calls,
           NEW l \in PC, l \notin Issuing, NEW m, DOMAIN m = Fields,
           pc' = [pc EXCEPT ![c] = l], mem' = [mem EXCEPT ![c] = m], CallOK(c)'
    PROVE  TokensIInv'
<1>1. serial' \in Nat /\ serial <= serial' /\ access' = access
  BY DEF TokensIInv, TokenTypes, TokensRest
<1>2. /\ Grows /\ now' \in Nat /\ cutoff' \in Nat /\ cutoff' <= now' + Month
      /\ access' \subseteq AccessToken /\ AccessOK'
  BY <1>1, RestingTokens
<1> QED BY <1>1, <1>2, StepKeeps

\* What a call that carries a token knows of it.
LEMMA Carried ==
    ASSUME TokensIInv, NEW c \in Calls, pc[c] \in Carrying
    PROVE  /\ CallOK(c) /\ [jti |-> mem[c].token, iat |-> mem[c].iat] \in access
           /\ mem[c].token \in Nat /\ mem[c].token <= serial
           /\ mem[c].iat \in Nat /\ mem[c].iat <= now
           /\ now \in Nat /\ cutoff \in Nat /\ DOMAIN mem[c] = Fields
<1> DEFINE t == [jti |-> mem[c].token, iat |-> mem[c].iat]
<1>1. CallOK(c) /\ t \in access
  BY DEF TokensIInv, CallsOK, CallOK, CarriesToken
<1>2. TokenOK(t) /\ t \in AccessToken
  BY <1>1 DEF TokensIInv, TokenTypes, AccessOK
<1> QED BY <1>1, <1>2 DEF TokenOK, AccessToken, TokensIInv, TokenTypes

\* Redis failed a check: the call remembers it, and the rest as before.
LEMMA FailedOpenFields ==
    ASSUME TokensIInv, NEW c \in Calls
    PROVE  LET m == [mem[c] EXCEPT !.failedOpen = TRUE]
           IN  /\ DOMAIN m = Fields /\ m.token = mem[c].token /\ m.iat = mem[c].iat
               /\ m.dead = mem[c].dead /\ m.failedOpen
BY StayMoves DEF Fields

\* Tokens that are dead from now on, and a list that is longer.
LEMMA MoreDead ==
    ASSUME TokensIInv, UNCHANGED <<now, serial, access>>, jtis \subseteq jtis',
           cutoff' \in Nat, cutoff <= cutoff',
           \A t \in access : t.jti \in dead' =>
               t.jti \in dead \/ Listed(t.jti, t.iat)' \/ t.iat + AccessLife <= now,
           \A j \in dead' : j \in dead \/ \E t \in access : t.jti = j
    PROVE  Grows /\ AccessOK'
<1>0. TokenTypes /\ AccessOK
  BY DEF TokensIInv
<1>1. /\ now \in Nat /\ serial \in Nat /\ cutoff \in Nat /\ access \subseteq AccessToken
  BY <1>0 DEF TokenTypes
<1>2. Grows
  BY <1>1 DEF Grows
<1>3. ASSUME NEW t \in access PROVE TokenOK(t)'
  BY <1>0, <1>1 DEF AccessOK, TokenOK, Listed, AccessToken
<1>4. TokensUnique' /\ DeadWasIssued'
  BY <1>0 DEF AccessOK, TokensUnique, DeadWasIssued
<1> QED BY <1>2, <1>3, <1>4 DEF AccessOK

LEMMA TokenKeeps ==
    ASSUME TokensIInv, NEW c \in Calls, TokenStep(c)
    PROVE  TokensIInv'
<1>0. serial \in Nat /\ now \in Nat
  BY DEF TokensIInv, TokenTypes
<1>1. ASSUME NEW r \in refresh, RefreshToken(c, r) PROVE TokensIInv'
  <2>1. TokensRest /\ serial' = serial /\ Begin(c, "refresh", "signAccess", Nothing)
    BY <1>1 DEF RefreshToken, redis, outside, history, TokensRest
  <2>2. "signAccess" \in PC /\ "signAccess" \notin Issuing /\ "signAccess" \notin Carrying
    BY DEF PC, Issuing, Carrying
  <2> QED BY <1>0, <2>1, <2>2, FieldsOfNothing, BeginMoves, QuietStep
<1>2. ASSUME SignAccess(c) PROVE TokensIInv'
  <2> DEFINE t == [jti |-> serial', iat |-> now]
  <2>1. /\ Return(c) /\ access' = access \cup {t} /\ UNCHANGED <<now, jtis, cutoff, dead>>
        /\ serial' = serial + 1
    BY <1>2 DEF SignAccess, redis, history
  <2>2. t \in AccessToken /\ t.jti = serial + 1 /\ t.iat = now
    BY <1>0, <2>1 DEF AccessToken
  <2>3. \A u \in access : u.jti # t.jti
    BY <1>0, <2>2 DEF TokensIInv, TokenTypes, AccessOK, TokenOK, AccessToken
  <2>4. \A d \in Calls \ {c} : pc[d] \in Issuing => mem[d].token # t.jti
    BY <1>0, <2>2 DEF TokensIInv, CallsOK, CallOK, NotIssued
  <2> HIDE DEF t
  <2> QED BY <1>0, <2>1, <2>2, <2>3, <2>4, HandOut
<1>3. ASSUME NEW t \in access, Request(c, t) PROVE TokensIInv'
  <2> DEFINE m == [Nothing EXCEPT !.token = t.jti, !.iat = t.iat, !.dead = t.jti \in dead]
  <2>1. TokensRest /\ serial' = serial /\ Begin(c, "request", "checkJti", m)
    BY <1>3 DEF Request, redis, outside, history, TokensRest
  <2>2. /\ DOMAIN m = Fields /\ m.token = t.jti /\ m.iat = t.iat
        /\ m.dead = (t.jti \in dead)
    BY FieldsOfNothing DEF Fields
  <2> HIDE DEF m
  <2>3. pc'[c] = "checkJti" /\ mem'[c] = m
    BY <2>1, BeginMoves DEF TokensIInv, TokenTypes
  <2>4. /\ [jti |-> t.jti, iat |-> t.iat] = t
        /\ t.jti \in dead => Listed(t.jti, t.iat)
    <3>1. t \in AccessToken /\ TokenOK(t)
      BY DEF TokensIInv, TokenTypes, AccessOK
    <3>2. now < t.iat + AccessLife
      BY <1>3 DEF Request
    <3> QED BY <1>0, <3>1, <3>2, AuthAssumption DEF AccessToken, TokenOK
  <2>5. CallOK(c)'
    BY <2>1, <2>2, <2>3, <2>4
       DEF CallOK, CarriesToken, WillBeRefused, Listed, TokensRest, Issuing
  <2>6. "checkJti" \in PC /\ "checkJti" \notin Issuing
    BY DEF PC, Issuing
  <2> QED BY <2>1, <2>2, <2>5, <2>6, BeginMoves, CarryingStep
<1>4. ASSUME CheckJti(c) PROVE TokensIInv'
  <2>1. /\ TokensRest /\ serial' = serial /\ pc[c] = "checkJti"
        /\ Check(c, mem[c].token \in jtis, "checkCutoff")
    BY <1>4 DEF CheckJti, redis, outside, history, TokensRest
  <2>2. CASE Return(c)
    BY <1>0, <2>1, <2>2, ReturnKeeps
  <2>3. ASSUME NEW m, mem' = [mem EXCEPT ![c] = m], DOMAIN m = Fields,
               m.token = mem[c].token, m.iat = mem[c].iat, m.dead = mem[c].dead,
               m.failedOpen \/ (mem[c].token \notin jtis /\ m = mem[c]),
               pc' = [pc EXCEPT ![c] = "checkCutoff"]
        PROVE  TokensIInv'
    <3>1. pc'[c] = "checkCutoff" /\ mem'[c] = m
      BY <2>3 DEF TokensIInv, TokenTypes
    <3>2. /\ CallOK(c) /\ CarriesToken(c)
          /\ mem[c].dead => Listed(mem[c].token, mem[c].iat)
      BY <2>1, Carried DEF Carrying, CallOK, WillBeRefused, CarriesToken
    <3>3. CallOK(c)'
      BY <2>1, <2>3, <3>1, <3>2
         DEF CallOK, CarriesToken, WillBeRefused, Listed, TokensRest, Issuing
    <3> QED BY <2>1, <2>3, <3>3, CarryingStep DEF PC, Issuing
  <2>4. CASE mem[c].token \notin jtis /\ Goto(c, "checkCutoff") /\ UNCHANGED mem
    <3>1. /\ mem' = [mem EXCEPT ![c] = mem[c]] /\ DOMAIN mem[c] = Fields
          /\ pc' = [pc EXCEPT ![c] = "checkCutoff"]
      BY <2>4, StayMoves DEF Goto
    <3> QED BY <2>3, <2>4, <3>1
  <2>5. CASE Goto(c, "checkCutoff") /\ Remember(c, [mem[c] EXCEPT !.failedOpen = TRUE])
    <3> DEFINE m == [mem[c] EXCEPT !.failedOpen = TRUE]
    <3>1. mem' = [mem EXCEPT ![c] = m] /\ pc' = [pc EXCEPT ![c] = "checkCutoff"]
      BY <2>5 DEF Goto, Remember
    <3>2. /\ DOMAIN m = Fields /\ m.token = mem[c].token /\ m.iat = mem[c].iat
          /\ m.dead = mem[c].dead /\ m.failedOpen
      BY FailedOpenFields
    <3> HIDE DEF m
    <3> QED BY <2>3, <3>1, <3>2
  <2> QED BY <2>1, <2>2, <2>4, <2>5 DEF Check
<1>5. ASSUME CheckCutoff(c) PROVE TokensIInv'
  <2>1. /\ TokensRest /\ serial' = serial /\ pc[c] = "checkCutoff"
        /\ Check(c, mem[c].iat < cutoff, "accepted")
    BY <1>5 DEF CheckCutoff, redis, outside, history, TokensRest
  <2>2. CASE Return(c)
    BY <1>0, <2>1, <2>2, ReturnKeeps
  <2>3. ASSUME NEW m, mem' = [mem EXCEPT ![c] = m], DOMAIN m = Fields,
               m.token = mem[c].token, m.iat = mem[c].iat, m.dead = mem[c].dead,
               m.failedOpen \/ (~(mem[c].iat < cutoff) /\ m = mem[c]),
               pc' = [pc EXCEPT ![c] = "accepted"]
        PROVE  TokensIInv'
    <3>1. pc'[c] = "accepted" /\ mem'[c] = m
      BY <2>3 DEF TokensIInv, TokenTypes
    <3>2. /\ CallOK(c) /\ CarriesToken(c)
          /\ mem[c].dead => mem[c].iat < cutoff \/ mem[c].failedOpen
      BY <2>1, Carried DEF Carrying, CallOK, WillBeRefused, CarriesToken
    <3>3. CallOK(c)'
      BY <2>1, <2>3, <3>1, <3>2
         DEF CallOK, CarriesToken, WillBeRefused, TokensRest, Issuing
    <3> QED BY <2>1, <2>3, <3>3, CarryingStep DEF PC, Issuing
  <2>4. CASE ~(mem[c].iat < cutoff) /\ Goto(c, "accepted") /\ UNCHANGED mem
    <3>1. /\ mem' = [mem EXCEPT ![c] = mem[c]] /\ DOMAIN mem[c] = Fields
          /\ pc' = [pc EXCEPT ![c] = "accepted"]
      BY <2>4, StayMoves DEF Goto
    <3> QED BY <2>3, <2>4, <3>1
  <2>5. CASE Goto(c, "accepted") /\ Remember(c, [mem[c] EXCEPT !.failedOpen = TRUE])
    <3> DEFINE m == [mem[c] EXCEPT !.failedOpen = TRUE]
    <3>1. mem' = [mem EXCEPT ![c] = m] /\ pc' = [pc EXCEPT ![c] = "accepted"]
      BY <2>5 DEF Goto, Remember
    <3>2. /\ DOMAIN m = Fields /\ m.token = mem[c].token /\ m.iat = mem[c].iat
          /\ m.dead = mem[c].dead /\ m.failedOpen
      BY FailedOpenFields
    <3> HIDE DEF m
    <3> QED BY <2>3, <3>1, <3>2
  <2> QED BY <2>1, <2>2, <2>4, <2>5 DEF Check
<1>6. ASSUME Serve(c) PROVE TokensIInv'
  <2>1. TokensRest /\ serial' = serial /\ Return(c)
    BY <1>6 DEF Serve, redis, outside, history, TokensRest
  <2> QED BY <1>0, <2>1, ReturnKeeps
<1>7. ASSUME Logout(c) PROVE TokensIInv'
  <2>1. /\ UNCHANGED <<now, serial, cutoff, access, dead>> /\ pc[c] = "accepted"
        /\ \/ /\ jtis' = IF mem[c].iat + AccessLife > now
                         THEN jtis \cup {mem[c].token} ELSE jtis
              /\ Goto(c, "findSessions") /\ UNCHANGED mem
           \/ Return(c) /\ UNCHANGED jtis
    BY <1>7 DEF Logout, outside, history
  <2>2. CASE Return(c) /\ UNCHANGED jtis
    BY <1>0, <2>1, <2>2, ReturnKeeps DEF TokensRest
  <2>3. CASE /\ jtis' = IF mem[c].iat + AccessLife > now
                        THEN jtis \cup {mem[c].token} ELSE jtis
             /\ Goto(c, "findSessions") /\ UNCHANGED mem
    <3>1. /\ mem' = [mem EXCEPT ![c] = mem[c]] /\ DOMAIN mem[c] = Fields
          /\ pc' = [pc EXCEPT ![c] = "findSessions"]
      BY <2>3, StayMoves DEF Goto
    <3>2. pc'[c] = "findSessions" /\ mem'[c] = mem[c]
      BY <2>3, <3>1 DEF TokensIInv, TokenTypes
    <3>3. /\ CarriesToken(c) /\ mem[c].iat \in Nat /\ now \in Nat /\ cutoff \in Nat
      BY <2>1, Carried DEF Carrying, CarriesToken
    <3>4. LogoutListed(c)'
      BY <2>1, <2>3, <3>2, <3>3, AuthAssumption DEF LogoutListed
    <3>5. CallOK(c)'
      BY <2>1, <3>2, <3>3, <3>4 DEF CallOK, CarriesToken, WillBeRefused, Issuing
    <3>6. jtis \subseteq jtis' /\ cutoff' \in Nat /\ cutoff <= cutoff'
      BY <2>1, <2>3, <3>3
    <3>7. Grows /\ AccessOK'
      <4>1. \A t \in access : t.jti \in dead' => t.jti \in dead
        BY <2>1
      <4>2. \A j \in dead' : j \in dead
        BY <2>1
      <4> QED BY <2>1, <3>6, <4>1, <4>2, MoreDead
    <3>8. "findSessions" \in PC /\ "findSessions" \notin Issuing
      BY DEF PC, Issuing
    <3>9. /\ now' \in Nat /\ serial' \in Nat /\ cutoff' <= now' + Month
          /\ access' \subseteq AccessToken /\ access' = access
      BY <2>1 DEF TokensIInv, TokenTypes
    <3> QED BY <3>1, <3>5, <3>6, <3>7, <3>8, <3>9, StepKeeps
  <2> QED BY <2>1, <2>2, <2>3
<1>8. ASSUME FindSessions(c) PROVE TokensIInv'
  <2> DEFINE m == [mem[c] EXCEPT !.found = Live]
  <2>1. /\ TokensRest /\ serial' = serial /\ pc[c] = "findSessions"
        /\ mem' = [mem EXCEPT ![c] = m] /\ pc' = [pc EXCEPT ![c] = "revokeSessions"]
    BY <1>8 DEF FindSessions, Goto, Remember, redis, outside, history, TokensRest
  <2>2. /\ DOMAIN m = Fields /\ m.token = mem[c].token /\ m.iat = mem[c].iat
    BY StayMoves DEF Fields
  <2> HIDE DEF m
  <2>3. pc'[c] = "revokeSessions" /\ mem'[c] = m
    BY <2>1 DEF TokensIInv, TokenTypes
  <2>4. CarriesToken(c) /\ LogoutListed(c)
    BY <2>1, Carried DEF Carrying, CallOK
  <2>5. CallOK(c)'
    BY <2>1, <2>2, <2>3, <2>4
       DEF CallOK, CarriesToken, LogoutListed, WillBeRefused, TokensRest, Issuing
  <2> QED BY <2>1, <2>2, <2>5, CarryingStep DEF PC, Issuing
<1>9. ASSUME NEW s \in mem[c].found, RevokeNext(c, s) PROVE TokensIInv'
  <2> DEFINE m == [mem[c] EXCEPT !.found = @ \ {s}]
  <2>1. /\ TokensRest /\ serial' = serial /\ pc[c] = "revokeSessions"
        /\ mem' = [mem EXCEPT ![c] = m] /\ pc' = pc
    BY <1>9 DEF RevokeNext, Remember, redis, outside, history, TokensRest
  <2>2. /\ DOMAIN m = Fields /\ m.token = mem[c].token /\ m.iat = mem[c].iat
    BY StayMoves DEF Fields
  <2> HIDE DEF m
  <2>3. /\ pc'[c] = "revokeSessions" /\ mem'[c] = m
        /\ pc' = [pc EXCEPT ![c] = "revokeSessions"]
    BY <2>1 DEF TokensIInv, TokenTypes
  <2>4. CarriesToken(c) /\ LogoutListed(c)
    BY <2>1, Carried DEF Carrying, CallOK
  <2>5. CallOK(c)'
    BY <2>1, <2>2, <2>3, <2>4
       DEF CallOK, CarriesToken, LogoutListed, WillBeRefused, TokensRest, Issuing
  <2>6. "revokeSessions" \in PC /\ "revokeSessions" \notin Issuing
    BY DEF PC, Issuing
  <2>7. mem' = [mem EXCEPT ![c] = m] /\ TokensRest /\ serial' = serial
    BY <2>1
  <2> QED BY <2>2, <2>3, <2>5, <2>6, <2>7, CarryingStep
<1>10. ASSUME LoggedOut(c) PROVE TokensIInv'
  <2> DEFINE u == [jti |-> mem[c].token, iat |-> mem[c].iat]
  <2>1. /\ UNCHANGED <<now, serial, jtis, cutoff, access>> /\ pc[c] = "revokeSessions"
        /\ dead' = dead \cup {mem[c].token} /\ Return(c)
    BY <1>10 DEF LoggedOut, redis, outside
  <2>2. u \in access /\ LogoutListed(c)
    BY <2>1, Carried DEF Carrying, CallOK
  <2>3. \A t \in access : t.jti = mem[c].token => t = u
    BY <2>2 DEF TokensIInv, AccessOK, TokensUnique
  <2>4. /\ \A t \in access : t.jti \in dead' =>
               t.jti \in dead \/ Listed(t.jti, t.iat)' \/ t.iat + AccessLife <= now
        /\ \A j \in dead' : j \in dead \/ \E t \in access : t.jti = j
    BY <2>1, <2>2, <2>3 DEF LogoutListed, Listed
  <2>5. /\ jtis \subseteq jtis' /\ cutoff' \in Nat /\ cutoff <= cutoff'
        /\ now' \in Nat /\ serial' \in Nat /\ cutoff' <= now' + Month
        /\ access' \subseteq AccessToken /\ access' = access
    BY <2>1 DEF TokensIInv, TokenTypes
  <2>6. Grows /\ AccessOK'
    BY <2>1, <2>4, <2>5, MoreDead
  <2>7. CallOK(c)'
    <3>1. pc'[c] = "idle" /\ mem'[c] = Nothing
      BY <2>1 DEF TokensIInv, TokenTypes, Return, Goto, Remember
    <3> QED BY <3>1 DEF CallOK, Issuing, Carrying, WillBeRefused, Nothing
  <2> HIDE DEF u
  <2> QED BY <2>1, <2>5, <2>6, <2>7, ReturnMoves, StepKeeps
<1> QED BY <1>1, <1>2, <1>3, <1>4, <1>5, <1>6, <1>7, <1>8, <1>9, <1>10 DEF TokenStep

LEMMA ResetKeeps ==
    ASSUME TokensIInv, NEW c \in Calls, ResetStep(c)
    PROVE  TokensIInv'
<1>0. serial \in Nat /\ now \in Nat /\ cutoff \in Nat
  BY DEF TokensIInv, TokenTypes
<1>1. ASSUME RequestPasswordReset(c) PROVE TokensIInv'
  <2>1. TokensRest /\ serial' = serial /\ Begin(c, "askReset", "deleteResets", Nothing)
    BY <1>1 DEF RequestPasswordReset, redis, outside, history, TokensRest
  <2>2. "deleteResets" \in PC /\ "deleteResets" \notin Issuing /\ "deleteResets" \notin Carrying
    BY DEF PC, Issuing, Carrying
  <2> QED BY <1>0, <2>1, <2>2, FieldsOfNothing, BeginMoves, QuietStep
<1>2. ASSUME InsertReset(c) PROVE TokensIInv'
  <2>1. TokensRest /\ serial' = serial + 1 /\ Return(c)
    BY <1>2 DEF InsertReset, redis, history, TokensRest
  <2> QED BY <1>0, <2>1, ReturnKeeps
<1>3. ASSUME NEW t \in mailbox, NEW p \in Passwords, ConfirmPasswordReset(c, t, p)
      PROVE  TokensIInv'
  <2>1. PICK r \in resets :
             Begin(c, "reset", "savePassword",
                   [Nothing EXCEPT !.user = user, !.password = p, !.reset = r])
    BY <1>3 DEF ConfirmPasswordReset
  <2> DEFINE m == [Nothing EXCEPT !.user = user, !.password = p, !.reset = r]
  <2>2. TokensRest /\ serial' = serial
    BY <1>3 DEF ConfirmPasswordReset, redis, outside, history, TokensRest
  <2>3. DOMAIN m = Fields
    BY FieldsOfNothing
  <2>4. "savePassword" \in PC /\ "savePassword" \notin Issuing /\ "savePassword" \notin Carrying
    BY DEF PC, Issuing, Carrying
  <2>5. Begin(c, "reset", "savePassword", m)
    BY <2>1
  <2> HIDE DEF m
  <2> QED BY <1>0, <2>2, <2>3, <2>4, <2>5, BeginMoves, QuietStep
<1>4. ASSUME DeleteUnused(c) \/ SavePassword(c) \/ MarkUsed(c) \/ RevokeAll(c) PROVE TokensIInv'
  <2>1. /\ TokensRest /\ serial' = serial /\ mem' = mem
        /\ \E l \in {"insertReset", "markUsed", "revokeAll", "blacklistUser"} :
              pc' = [pc EXCEPT ![c] = l]
    BY <1>4 DEF DeleteUnused, SavePassword, MarkUsed, RevokeAll, Goto, redis, outside,
                history, TokensRest
  <2>2. PICK l \in {"insertReset", "markUsed", "revokeAll", "blacklistUser"} :
             pc' = [pc EXCEPT ![c] = l]
    BY <2>1
  <2>3. l \in PC /\ l \notin Issuing /\ l \notin Carrying
    BY DEF PC, Issuing, Carrying
  <2>4. mem' = [mem EXCEPT ![c] = mem[c]] /\ DOMAIN mem[c] = Fields
    BY <2>1, StayMoves
  <2>5. TokensRest /\ serial' \in Nat /\ serial <= serial'
    BY <1>0, <2>1
  <2> QED BY <2>2, <2>3, <2>4, <2>5, QuietStep
<1>5. ASSUME BlacklistUser(c) PROVE TokensIInv'
  <2>1. /\ UNCHANGED <<now, serial, jtis, access>> /\ Return(c)
        /\ \/ cutoff' = now + Month /\ dead' = dead \cup {t.jti : t \in access}
           \/ UNCHANGED <<cutoff, dead>>
    BY <1>5 DEF BlacklistUser, outside
  <2>2. CASE UNCHANGED <<cutoff, dead>>
    BY <1>0, <2>1, <2>2, ReturnKeeps DEF TokensRest
  <2>3. CASE cutoff' = now + Month /\ dead' = dead \cup {t.jti : t \in access}
    <3>1. \A t \in access : t.iat \in Nat /\ t.iat <= now
      BY DEF TokensIInv, TokenTypes, AccessOK, TokenOK, AccessToken
    <3>2. \A t \in access : Listed(t.jti, t.iat)'
      BY <1>0, <2>3, <3>1, AuthAssumption DEF Listed
    <3>3. \A j \in dead' : j \in dead \/ \E t \in access : t.jti = j
      BY <2>3
    <3>4. /\ jtis \subseteq jtis' /\ cutoff' \in Nat /\ cutoff <= cutoff'
          /\ now' \in Nat /\ serial' \in Nat /\ cutoff' <= now' + Month
          /\ access' \subseteq AccessToken /\ access' = access
      BY <1>0, <2>1, <2>3, AuthAssumption DEF TokensIInv, TokenTypes
    <3>5. Grows /\ AccessOK'
      BY <2>1, <3>2, <3>3, <3>4, MoreDead
    <3>6. CallOK(c)'
      <4>1. pc'[c] = "idle" /\ mem'[c] = Nothing
        BY <2>1 DEF TokensIInv, TokenTypes, Return, Goto, Remember
      <4> QED BY <4>1 DEF CallOK, Issuing, Carrying, WillBeRefused, Nothing
    <3> QED BY <2>1, <3>4, <3>5, <3>6, ReturnMoves, StepKeeps
  <2> QED BY <2>1, <2>2, <2>3
<1> QED BY <1>1, <1>2, <1>3, <1>4, <1>5 DEF ResetStep

LEMMA TokensNext == TokensIInv /\ [Next]_vars => TokensIInv'
<1> SUFFICES ASSUME TokensIInv, [Next]_vars PROVE TokensIInv'
  OBVIOUS
<1>0. serial \in Nat /\ now \in Nat
  BY DEF TokensIInv, TokenTypes
<1>1. ASSUME NEW c \in Calls, Break(c) PROVE TokensIInv'
  <2>1. TokensRest /\ serial' = serial /\ Return(c)
    BY <1>1 DEF Break, redis, outside, history, TokensRest
  <2> QED BY <1>0, <2>1, ReturnKeeps
<1>2. CASE Tick \/ UNCHANGED vars
  <2>1. /\ now' \in {now, now + 1}
        /\ UNCHANGED <<serial, jtis, cutoff, access, dead, pc, mem>>
    BY <1>2 DEF Tick, vars, db, redis, outside, history
  <2>2. now' \in Nat /\ now <= now'
    BY <1>0, <2>1
  <2>3. TokenTypes'
    <3>1. cutoff <= now + Month /\ cutoff \in Nat /\ Month \in Nat
      BY AuthAssumption DEF TokensIInv, TokenTypes
    <3>2. now' = now \/ now' = now + 1
      BY <2>1
    <3>3. cutoff <= now' + Month
      BY <1>0, <3>1, <3>2
    <3> QED BY <2>1, <2>2, <3>3 DEF TokensIInv, TokenTypes
  <2>4. Grows
    BY <2>1, <2>2 DEF Grows, TokensIInv, TokenTypes
  <2>5. AccessOK'
    <3>1. ASSUME NEW t \in access PROVE TokenOK(t)'
      <4>1. TokenOK(t) /\ t.iat \in Nat /\ AccessLife \in Nat
        BY AuthAssumption DEF TokensIInv, AccessOK, TokenTypes, AccessToken
      <4> QED BY <1>0, <2>1, <2>2, <4>1 DEF TokenOK, Listed
    <3> QED BY <2>1, <3>1 DEF TokensIInv, AccessOK, TokensUnique, DeadWasIssued
  <2>6. ASSUME NEW d \in Calls PROVE CallOK(d)'
    BY <2>1, <2>3, <2>4, OtherCall DEF TokensIInv, CallsOK
  <2>7. IssuedOnce'
    BY <2>1 DEF TokensIInv, IssuedOnce
  <2> QED BY <2>3, <2>5, <2>6, <2>7 DEF TokensIInv, CallsOK
<1> QED BY <1>1, <1>2, AccountKeeps, LoginKeeps, TokenKeeps, ResetKeeps DEF Next

-----------------------------------------------------------------------------
(* The account: its sessions and its row of users.                         *)

\* What a call remembers.
Mem == [user : UserRow, password : Passwords \cup {"none"}, token : Nat, iat : Nat,
        found : SUBSET SessionRow, reset : ResetRow, dead : BOOLEAN, failedOpen : BOOLEAN]

CallsAt(L) == {c \in Calls : pc[c] \in L}

\* A call makes one token at most, and is in one of these places until then.
MakingToken == {"insertUser", "checkPassword", "signAccess", "deleteResets", "insertReset"}
HasToken == Issuing \cup Carrying \cup {"saveResend"}
HasPassword == {"insertUser", "savePassword"}

DataTypes ==
    /\ serial \in Nat /\ user \in UserRow
    /\ sessions \subseteq SessionRow /\ IsFiniteSet(sessions)
    /\ resets \subseteq ResetRow
    /\ jtis \subseteq 1..serial /\ cutoff \in {0} \cup (Month + 1)..(Month + MaxTime)
    /\ access \subseteq AccessToken /\ \A t \in access : t.jti \in 1..serial
    /\ refresh \subseteq 1..serial /\ mailbox \subseteq 1..serial /\ challenge \in BOOLEAN
    /\ lastSet \in Passwords \cup {"none"} /\ wrong \in Nat
    /\ everVerified \in BOOLEAN /\ signedOut \in BOOLEAN

CallTypes ==
    /\ pc \in [Calls -> PC] /\ mem \in [Calls -> Mem]
    /\ \A c \in Calls : /\ mem[c].token <= serial
                        /\ pc[c] \in HasToken => mem[c].token > 0
                        /\ pc[c] \in HasPassword => mem[c].password \in Passwords

AccountTypes ==
    /\ scenario \in Scenarios /\ now \in 1..MaxTime /\ started \in 0..scenario.calls
    /\ DataTypes /\ CallTypes
    /\ serial + Cardinality(CallsAt(MakingToken)) <= started

\* The calls that are being served are not more than come at a time.
Served == CallsAt(PC \ {"idle"})
ServedOK ==
    /\ Cardinality(Served) <= scenario.width
    /\ scenario.width = 1 => \A c, d \in Served : c = d

\* A login that has deleted the sessions will insert one.
SessionsOK == Cardinality(Live) + Cardinality(CallsAt({"insertSession"})) <= scenario.width

\* One request at a time: a logout has found what is live, and a reset has
\* revoked it.
SignOutOK ==
    scenario.width = 1 =>
        /\ signedOut => Live = {}
        /\ \A c \in Calls : /\ pc[c] = "revokeSessions" => Live \subseteq mem[c].found
                            /\ pc[c] = "blacklistUser" => Live = {}

\* One request at a time: the row that a call will save is the row as it is, but
\* for what the call is about.
Saving == {"saveUser", "saveResend", "checkPassword", "issueChallenge", "deleteSessions",
           "insertSession", "resetAttempts", "saveLogin", "savePassword"}
Remembers(u) ==
    /\ u.password = user.password /\ u.failed = user.failed
    /\ u.lockedUntil = user.lockedUntil /\ (user.verified => u.verified)
RowOK ==
    scenario.width = 1 =>
        /\ PasswordIsLastSet
        /\ everVerified => user.verified
        /\ user.failed = wrong
        /\ user.lockedUntil > 0 <=> wrong >= MaxAttempts
        /\ \A c \in Calls : /\ pc[c] \in Saving => Remembers(mem[c].user)
                            /\ pc[c] = "saveUser" => mem[c].user.verified

AccountIInv == AccountTypes /\ ServedOK /\ SessionsOK /\ SignOutOK /\ RowOK

-----------------------------------------------------------------------------

\* What a row of users becomes.
LEMMA UserTypes ==
    ASSUME NEW u \in UserRow
    PROVE  /\ Cleared(u) \in UserRow
           /\ Cleared(u).failed = 0 /\ Cleared(u).lockedUntil = 0
           /\ Cleared(u).password = u.password /\ Cleared(u).verified = u.verified
BY DEF UserRow, Cleared

LEMMA FailedType ==
    ASSUME NEW u \in UserRow, now \in Nat
    PROVE  /\ Failed(u) \in UserRow
           /\ Failed(u).failed = u.failed + 1
           /\ Failed(u).lockedUntil =
                IF u.failed + 1 >= MaxAttempts THEN now + LockLife ELSE u.lockedUntil
           /\ Failed(u).password = u.password /\ Failed(u).verified = u.verified
<1> DEFINE i == IF u.failed + 1 >= MaxAttempts THEN now + LockLife ELSE u.lockedUntil
<1>1. i \in Nat /\ u.failed + 1 \in Nat
  BY AuthAssumption DEF UserRow
<1>2. Failed(u) = [u EXCEPT !.failed = u.failed + 1, !.lockedUntil = i]
  BY DEF Failed
<1> HIDE DEF i
<1>3. LET v == [u EXCEPT !.failed = u.failed + 1, !.lockedUntil = i]
      IN  /\ v \in UserRow /\ v.failed = u.failed + 1 /\ v.lockedUntil = i
          /\ v.password = u.password /\ v.verified = u.verified
  BY <1>1 DEF UserRow
<1> QED BY <1>2, <1>3 DEF i

LEMMA VerifyTypes ==
    ASSUME NEW u \in UserRow, NEW t \in Nat, NEW i \in Nat
    PROVE  /\ LET v == [u EXCEPT !.verified = TRUE, !.verifyToken = 0, !.verifyUntil = 0]
              IN  /\ v \in UserRow /\ v.verified /\ v.password = u.password
                  /\ v.failed = u.failed /\ v.lockedUntil = u.lockedUntil
           /\ LET v == [u EXCEPT !.verifyToken = t, !.verifyUntil = i]
              IN  /\ v \in UserRow /\ v.verified = u.verified /\ v.password = u.password
                  /\ v.failed = u.failed /\ v.lockedUntil = u.lockedUntil
BY DEF UserRow

LEMMA PasswordType ==
    ASSUME NEW u \in UserRow, NEW p \in Passwords \cup {"none"}
    PROVE  LET v == [u EXCEPT !.password = p]
           IN  /\ v \in UserRow /\ v.verified = u.verified /\ v.password = p
               /\ v.failed = u.failed /\ v.lockedUntil = u.lockedUntil
BY DEF UserRow

LEMMA NewUserType ==
    ASSUME NEW p \in Passwords \cup {"none"}, NEW t \in Nat, NEW i \in Nat
    PROVE  LET v == [NoUser EXCEPT !.password = p, !.verifyToken = t, !.verifyUntil = i]
           IN  /\ v \in UserRow /\ v.verified = FALSE /\ v.password = p
               /\ v.failed = 0 /\ v.lockedUntil = 0
BY DEF UserRow, NoUser

LEMMA NoUserType == NoUser \in UserRow /\ NoUser.password = "none"
BY DEF UserRow, NoUser

\* What a call may come to remember.
LEMMA NothingMem ==
    /\ Nothing \in Mem /\ Nothing.token = 0 /\ DOMAIN Nothing = Fields
<1>1. NoUser \in UserRow /\ NoReset \in ResetRow
  BY NoUserType DEF NoReset, ResetRow
<1> QED BY <1>1 DEF Nothing, Mem, Fields

LEMMA UserMem ==
    ASSUME NEW m \in Mem, NEW u \in UserRow, NEW p \in Passwords \cup {"none"}, NEW t \in Nat,
           NEW i \in Nat, NEW r \in ResetRow
    PROVE  /\ LET n == [m EXCEPT !.user = u]
              IN  n \in Mem /\ n.user = u /\ n.token = m.token
           /\ LET n == [m EXCEPT !.user = u, !.token = t]
              IN  n \in Mem /\ n.user = u /\ n.token = t
           /\ LET n == [m EXCEPT !.user = u, !.password = p]
              IN  n \in Mem /\ n.user = u /\ n.token = m.token
           /\ LET n == [m EXCEPT !.user = u, !.token = t, !.iat = i]
              IN  n \in Mem /\ n.user = u /\ n.token = t
           /\ LET n == [m EXCEPT !.user = u, !.password = p, !.reset = r]
              IN  n \in Mem /\ n.user = u /\ n.token = m.token /\ n.password = p
BY DEF Mem

LEMMA TokenMem ==
    ASSUME NEW m \in Mem, NEW p \in Passwords \cup {"none"}, NEW t \in Nat, NEW i \in Nat,
           NEW b \in BOOLEAN, NEW f \in SUBSET SessionRow
    PROVE  /\ LET n == [m EXCEPT !.password = p]
              IN  n \in Mem /\ n.token = m.token /\ n.password = p
           /\ LET n == [m EXCEPT !.token = t, !.iat = i]
              IN  n \in Mem /\ n.user = m.user /\ n.token = t
           /\ LET n == [m EXCEPT !.token = t, !.iat = i, !.dead = b]
              IN  n \in Mem /\ n.token = t
           /\ LET n == [m EXCEPT !.failedOpen = TRUE]
              IN  n \in Mem /\ n.token = m.token
           /\ LET n == [m EXCEPT !.found = f]
              IN  n \in Mem /\ n.token = m.token /\ n.found = f
BY DEF Mem

\* Call c goes to l and remembers m.
Goes(c, l, m) == pc' = [pc EXCEPT ![c] = l] /\ mem' = [mem EXCEPT ![c] = m]

LEMMA Gone ==
    ASSUME CallTypes, NEW c \in Calls, NEW l, NEW m, Goes(c, l, m)
    PROVE  /\ pc'[c] = l /\ mem'[c] = m
           /\ \A d \in Calls \ {c} : pc'[d] = pc[d] /\ mem'[d] = mem[d]
BY DEF CallTypes, Goes

LEMMA CallsMove ==
    ASSUME CallTypes, NEW c \in Calls, NEW l, NEW m, Goes(c, l, m), NEW L
    PROVE  /\ Cardinality(CallsAt(L)) \in Nat /\ Cardinality(CallsAt(L)') \in Nat
           /\ pc[c] \in L /\ l \notin L =>
                Cardinality(CallsAt(L)') = Cardinality(CallsAt(L)) - 1
           /\ pc[c] \notin L /\ l \in L =>
                Cardinality(CallsAt(L)') = Cardinality(CallsAt(L)) + 1
           /\ (pc[c] \in L <=> l \in L) =>
                Cardinality(CallsAt(L)') = Cardinality(CallsAt(L))
<1> DEFINE S == CallsAt(L)
           T == {d \in Calls : pc'[d] \in L}
<1>1. S \subseteq Calls /\ T \subseteq Calls /\ T = CallsAt(L)'
  BY DEF CallsAt
<1>2. (c \in S <=> pc[c] \in L) /\ (c \in T <=> l \in L)
  BY Gone DEF CallsAt
<1>3. \A d \in Calls \ {c} : d \in S <=> d \in T
  BY Gone DEF CallsAt
<1> HIDE DEF S, T
<1>4. /\ Cardinality(S) \in Nat /\ Cardinality(T) \in Nat
      /\ c \in S /\ c \notin T => Cardinality(T) = Cardinality(S) - 1
      /\ c \notin S /\ c \in T => Cardinality(T) = Cardinality(S) + 1
      /\ (c \in S <=> c \in T) => Cardinality(T) = Cardinality(S)
  BY <1>1, <1>3, OneMoves
<1> QED BY <1>1, <1>2, <1>4 DEF S

\* What AccountTypes gives a step.
LEMMA AccountNow ==
    ASSUME AccountTypes
    PROVE  /\ scenario.calls \in Nat /\ scenario.width \in Nat /\ scenario.password \in Passwords
           /\ now \in Nat /\ now \in 1..MaxTime /\ started \in Nat /\ serial \in Nat
           /\ DataTypes /\ CallTypes /\ user \in UserRow
           /\ \A c \in Calls : /\ mem[c] \in Mem /\ mem[c].user \in UserRow
                               /\ mem[c].token \in Nat /\ mem[c].iat \in Nat
                               /\ mem[c].token <= serial
<1>1. \A c \in Calls : mem[c] \in Mem /\ mem[c].token <= serial
  BY DEF AccountTypes, CallTypes
<1>2. \A m \in Mem : m.user \in UserRow /\ m.token \in Nat /\ m.iat \in Nat
  BY DEF Mem
<1>3. /\ scenario.calls \in Nat /\ scenario.width \in Nat /\ scenario.password \in Passwords
  BY ScenarioAssumption DEF AccountTypes
<1>4. now \in Nat /\ started \in Nat
  BY <1>3 DEF AccountTypes
<1> QED BY <1>1, <1>2, <1>3, <1>4 DEF AccountTypes, DataTypes

\* How many tokens a step from here to l has made.
Making(c, l) ==
    \/ /\ serial' = serial /\ started <= started' /\ (l \in MakingToken => pc[c] \in MakingToken)
    \/ serial' = serial /\ started' = started + 1
    \/ serial' = serial + 1 /\ started' = started /\ pc[c] \in MakingToken /\ l \notin MakingToken
    \/ /\ serial' = serial + 1 /\ started' = started + 1
       /\ l \notin MakingToken

\* What is to be said of a step of one call.
LEMMA AccountStep ==
    ASSUME AccountTypes, NEW c \in Calls, NEW l \in PC, NEW m \in Mem, Goes(c, l, m),
           DataTypes', scenario' = scenario, now' = now,
           started' \in 0..scenario.calls, Making(c, l),
           m.token <= serial', l \in HasToken => m.token > 0,
           l \in HasPassword => m.password \in Passwords
    PROVE  AccountTypes'
<1>1. /\ serial \in Nat /\ started \in Nat /\ CallTypes /\ scenario.calls \in Nat
      /\ serial + Cardinality(CallsAt(MakingToken)) <= started
      /\ pc \in [Calls -> PC] /\ mem \in [Calls -> Mem]
  BY AccountNow DEF AccountTypes, CallTypes
<1>2. serial' + Cardinality(CallsAt(MakingToken)') <= started'
  <2> DEFINE n == Cardinality(CallsAt(MakingToken))
             n2 == Cardinality(CallsAt(MakingToken)')
  <2>1. /\ n \in Nat /\ n2 \in Nat
        /\ pc[c] \in MakingToken /\ l \notin MakingToken => n2 = n - 1
        /\ pc[c] \notin MakingToken /\ l \in MakingToken => n2 = n + 1
        /\ (pc[c] \in MakingToken <=> l \in MakingToken) => n2 = n
    BY <1>1, CallsMove
  <2>2. /\ serial \in Nat /\ started \in Nat /\ serial' \in Nat /\ started' \in Nat
        /\ serial + n <= started
    BY <1>1, <2>1 DEF Making
  <2> HIDE DEF n, n2
  <2>3. CASE /\ serial' = serial /\ started <= started'
             /\ (l \in MakingToken => pc[c] \in MakingToken)
    <3>1. n2 <= n
      BY <2>1, <2>3
    <3>2. serial' + n2 <= started'
      BY <2>1, <2>2, <2>3, <3>1, NumbersMade
    <3> QED BY <2>2, <3>2 DEF n2
  <2>4. CASE serial' = serial /\ started' = started + 1
    <3>1. n2 = n + 1 \/ n2 <= n
      BY <2>1
    <3>2. started <= started'
      BY <2>2, <2>4
    <3>3. serial' + n2 <= started'
      BY <2>1, <2>2, <2>4, <3>1, <3>2, NumbersMade
    <3> QED BY <2>2, <3>3 DEF n2
  <2>5. CASE serial' = serial + 1 /\ started' = started /\ pc[c] \in MakingToken
             /\ l \notin MakingToken
    <3>1. serial' + n2 <= started'
      BY <2>1, <2>2, <2>5, NumbersMade
    <3> QED BY <2>2, <3>1 DEF n2
  <2>6. CASE serial' = serial + 1 /\ started' = started + 1 /\ l \notin MakingToken
    <3>1. n2 <= n
      BY <2>1, <2>6
    <3>2. serial' + n2 <= started'
      BY <2>1, <2>2, <2>6, <3>1, NumbersMade
    <3> QED BY <2>2, <3>2 DEF n2
  <2> QED BY <2>3, <2>4, <2>5, <2>6 DEF Making
<1>3. CallTypes'
  <2>1. pc' \in [Calls -> PC] /\ mem' \in [Calls -> Mem]
    BY <1>1 DEF Goes
  <2>2. /\ pc'[c] = l /\ mem'[c] = m
        /\ \A d \in Calls \ {c} : pc'[d] = pc[d] /\ mem'[d] = mem[d]
    BY <1>1, Gone
  <2>3. serial <= serial' /\ serial' \in Nat
    BY <1>1 DEF Making
  <2>4. ASSUME NEW d \in Calls
        PROVE  /\ mem'[d].token <= serial'
               /\ pc'[d] \in HasToken => mem'[d].token > 0
               /\ pc'[d] \in HasPassword => mem'[d].password \in Passwords
    <3>1. /\ mem[d].token \in Nat /\ mem[d].token <= serial
          /\ pc[d] \in HasToken => mem[d].token > 0
          /\ pc[d] \in HasPassword => mem[d].password \in Passwords
      BY AccountNow DEF CallTypes
    <3>2. CASE d = c
      BY <2>2, <3>2
    <3>3. CASE d # c
      BY <1>1, <2>2, <2>3, <3>1, <3>3
    <3> QED BY <3>2, <3>3
  <2> QED BY <2>1, <2>4 DEF CallTypes
<1> QED BY <1>2, <1>3 DEF AccountTypes

-----------------------------------------------------------------------------
\* What a step of call c, from where it is to l, does to the sessions, ...
AboutSessions == {"insertSession", "revokeSessions", "blacklistUser"}
SessionEffect(c, l, m) ==
    \/ /\ sessions' = sessions /\ signedOut' = signedOut /\ l \notin AboutSessions
    \/ /\ sessions' = {} /\ signedOut' = signedOut /\ l = "insertSession"
    \/ /\ pc[c] = "insertSession" /\ l \notin AboutSessions /\ signedOut' = FALSE
       /\ \E s \in SessionRow : sessions' = sessions \cup {s}
    \/ /\ sessions' = sessions /\ signedOut' = signedOut
       /\ l = "revokeSessions" /\ m.found = Live
    \/ /\ pc[c] = "revokeSessions" /\ l = "revokeSessions" /\ signedOut' = signedOut
       /\ \E s \in mem[c].found :
            /\ m.found = mem[c].found \ {s}
            /\ sessions' = {r \in sessions : r.refresh # s.refresh}
                             \cup {[s EXCEPT !.revoked = TRUE]}
    \/ /\ pc[c] = "revokeSessions" /\ mem[c].found = {} /\ l = "idle" /\ sessions' = sessions
    \/ /\ sessions' = {[s EXCEPT !.revoked = TRUE] : s \in sessions}
       /\ signedOut' = signedOut /\ l = "blacklistUser"
    \/ /\ pc[c] = "blacklistUser" /\ l = "idle" /\ sessions' = sessions

\* ... and to the row of users.
RowRests == UNCHANGED <<user, lastSet, everVerified, wrong>>
RowRead(c, l, m) ==
    /\ l \in Saving => (pc[c] \in Saving /\ m.user = mem[c].user) \/ Remembers(m.user)
    /\ l = "saveUser" => m.user.verified
RowEffect(c, l, m) ==
    \/ RowRests /\ RowRead(c, l, m)
    \/ /\ l = "idle" /\ user = NoUser
       /\ user'.password = lastSet' /\ user'.failed = 0 /\ user'.lockedUntil = 0
       /\ everVerified' = everVerified /\ wrong' = wrong
    \/ /\ l = "idle" /\ pc[c] \in Saving /\ user' = mem[c].user
       /\ lastSet' = lastSet /\ wrong' = wrong
       /\ everVerified' = everVerified \/ pc[c] = "saveUser"
    \/ /\ l = "idle" /\ pc[c] \in Saving /\ user' = Failed(mem[c].user)
       /\ lastSet' = lastSet /\ wrong' = wrong + 1 /\ everVerified' = everVerified
    \/ /\ pc[c] \in Saving /\ wrong' = 0 /\ lastSet' = lastSet /\ everVerified' = everVerified
       /\ \/ user' = Cleared(mem[c].user)
          \/ user' = user /\ ~NeedsReset(mem[c].user)
       /\ l = "idle" \/ (l = "saveLogin" /\ m.user = user')
    \/ /\ pc[c] = "savePassword" /\ l = "markUsed" /\ wrong' = 0
       /\ everVerified' = everVerified /\ lastSet' = mem[c].password
       /\ user' = [Cleared(mem[c].user) EXCEPT !.password = mem[c].password]

AccountEffect(c, l, m) ==
    /\ Goes(c, l, m) /\ scenario' = scenario
    /\ pc[c] # "idle" \/ Cardinality({d \in Calls : pc[d] # "idle"}) < scenario.width
    /\ SessionEffect(c, l, m) /\ RowEffect(c, l, m)

Done(c) == AccountTypes' /\ \E l, m : AccountEffect(c, l, m)

\* Steps that leave the row of users and the sessions alone.
LEMMA AccountQuiet ==
    ASSUME AccountTypes, NEW c \in Calls, NEW l \in PC, NEW m \in Mem, Goes(c, l, m),
           DataTypes', UNCHANGED <<scenario, now, sessions, signedOut>>, RowRests,
           started' \in 0..scenario.calls, Making(c, l),
           pc[c] # "idle" \/ Cardinality({d \in Calls : pc[d] # "idle"}) < scenario.width,
           m.token <= serial', l \in HasToken => m.token > 0,
           l \in HasPassword => m.password \in Passwords,
           l \notin AboutSessions, RowRead(c, l, m)
    PROVE  Done(c)
<1>1. AccountTypes'
  BY AccountStep
<1>2. SessionEffect(c, l, m) /\ RowEffect(c, l, m)
  BY DEF SessionEffect, RowEffect
<1>3. AccountEffect(c, l, m)
  BY <1>2 DEF AccountEffect
<1> QED BY <1>1, <1>3 DEF Done

\* The tables and the tokens keep their types when a step leaves them alone.
LEMMA DataRests ==
    ASSUME DataTypes, serial' \in {serial, serial + 1},
           UNCHANGED <<user, sessions, resets, jtis, cutoff, access, refresh, mailbox, challenge,
                       lastSet, everVerified, wrong, signedOut>>
    PROVE  DataTypes'
<1>1. /\ serial \in Nat /\ serial' \in Nat /\ serial <= serial'
      /\ jtis \subseteq 1..serial' /\ refresh \subseteq 1..serial' /\ mailbox \subseteq 1..serial'
      /\ \A t \in access : t.jti \in 1..serial'
  BY DEF DataTypes
<1> QED BY <1>1 DEF DataTypes

\* How a request begins, and how a call ends or goes on.
LEMMA AccountBegins ==
    ASSUME AccountTypes, NEW c \in Calls, NEW op, NEW l, NEW m, Begin(c, op, l, m)
    PROVE  /\ Goes(c, l, m) /\ pc[c] = "idle"
           /\ started' = started + 1 /\ started' \in 0..scenario.calls
           /\ Cardinality({d \in Calls : pc[d] # "idle"}) < scenario.width
BY AccountNow DEF Begin, Goto, Remember, Goes

LEMMA AccountReturns ==
    ASSUME NEW c \in Calls, Return(c)
    PROVE  Goes(c, "idle", Nothing)
BY DEF Return, Goto, Remember, Goes

LEMMA AccountStays ==
    ASSUME AccountTypes, NEW c \in Calls, NEW l, Goto(c, l), UNCHANGED mem
    PROVE  Goes(c, l, mem[c])
BY DEF AccountTypes, CallTypes, Goto, Goes

\* A request that begins, and one that ends.
LEMMA RequestBegins ==
    ASSUME AccountTypes, NEW c \in Calls, NEW op, NEW l \in PC, NEW m \in Mem,
           Begin(c, op, l, m), DataTypes', UNCHANGED <<scenario, now, sessions, signedOut>>,
           RowRests, serial' = serial \/ (serial' = serial + 1 /\ l \notin MakingToken),
           m.token <= serial', l \in HasToken => m.token > 0,
           l \in HasPassword => m.password \in Passwords,
           l \notin AboutSessions, l \in Saving => Remembers(m.user),
           l = "saveUser" => m.user.verified
    PROVE  Done(c)
<1>1. /\ Goes(c, l, m) /\ pc[c] = "idle"
      /\ started' = started + 1 /\ started' \in 0..scenario.calls
      /\ Cardinality({d \in Calls : pc[d] # "idle"}) < scenario.width
  BY AccountBegins
<1>2. Making(c, l)
  BY <1>1 DEF Making
<1>3. RowRead(c, l, m)
  BY DEF RowRead
<1> QED BY <1>1, <1>2, <1>3, AccountQuiet

LEMMA EndPlaces ==
    /\ "idle" \in PC /\ "idle" \notin HasToken /\ "idle" \notin HasPassword
    /\ "idle" \notin AboutSessions /\ "idle" \notin Saving /\ "idle" \notin MakingToken
BY DEF PC, HasToken, HasPassword, AboutSessions, Saving, MakingToken, Issuing, Carrying

LEMMA RequestEnds ==
    ASSUME AccountTypes, NEW c \in Calls, Goes(c, "idle", Nothing), pc[c] # "idle",
           DataTypes', UNCHANGED <<scenario, now, started, sessions, signedOut>>, RowRests,
           serial' = serial \/ (serial' = serial + 1 /\ pc[c] \in MakingToken)
    PROVE  Done(c)
<1>1. /\ started \in 0..scenario.calls /\ started \in Nat /\ serial \in Nat
      /\ Nothing \in Mem /\ Nothing.token = 0
  BY AccountNow, NothingMem DEF AccountTypes
<1>2. Making(c, "idle")
  BY <1>1, EndPlaces DEF Making
<1>3. RowRead(c, "idle", Nothing)
  BY EndPlaces DEF RowRead
<1>4. Nothing.token <= serial'
  BY <1>1
<1> QED BY <1>1, <1>2, <1>3, <1>4, EndPlaces, AccountQuiet

\* A call that ends and has changed the row of users.
LEMMA RequestSaves ==
    ASSUME AccountTypes, NEW c \in Calls, Goes(c, "idle", Nothing), pc[c] # "idle",
           DataTypes', UNCHANGED <<scenario, now, started, sessions, signedOut>>,
           RowEffect(c, "idle", Nothing),
           serial' = serial \/ (serial' = serial + 1 /\ pc[c] \in MakingToken)
    PROVE  Done(c)
<1>1. /\ started \in 0..scenario.calls /\ started \in Nat /\ serial \in Nat
      /\ Nothing \in Mem /\ Nothing.token = 0
  BY AccountNow, NothingMem DEF AccountTypes
<1>2. Making(c, "idle")
  BY <1>1, EndPlaces DEF Making
<1>3. Nothing.token <= serial'
  BY <1>1
<1>4. AccountTypes'
  BY <1>1, <1>2, <1>3, EndPlaces, AccountStep
<1>5. SessionEffect(c, "idle", Nothing)
  BY EndPlaces DEF SessionEffect
<1>6. AccountEffect(c, "idle", Nothing)
  BY <1>5 DEF AccountEffect
<1> QED BY <1>4, <1>6 DEF Done

\* The image of a finite set is finite.
LEMMA RevokedAreFinite ==
    ASSUME NEW S, IsFiniteSet(S)
    PROVE  /\ IsFiniteSet({[s EXCEPT !.revoked = TRUE] : s \in S})
<1> DEFINE f == [s \in S |-> [s EXCEPT !.revoked = TRUE]]
           T == {[s EXCEPT !.revoked = TRUE] : s \in S}
<1>1. f \in Surjection(S, T)
  BY DEF Surjection
<1> HIDE DEF f, T
<1>2. IsFiniteSet(T)
  BY <1>1, FS_Surjection
<1> QED BY <1>2 DEF T

\* Every operation of a call is such a step: registration ...
LEMMA AccountDone ==
    ASSUME AccountTypes, NEW c \in Calls, Account(c)
    PROVE  Done(c)
<1>1. /\ now \in Nat /\ serial \in Nat /\ DataTypes /\ CallTypes /\ user \in UserRow
      /\ mem[c] \in Mem /\ mem[c].user \in UserRow /\ mem[c].token \in Nat
      /\ mem[c].token <= serial /\ Nothing \in Mem /\ Nothing.token = 0
  BY AccountNow, NothingMem
<1>2. ASSUME NEW p \in Passwords, Register(c, p) PROVE Done(c)
  <2> DEFINE m == [Nothing EXCEPT !.password = p]
  <2>1. m \in Mem /\ m.token = 0 /\ m.password = p
    BY <1>1 DEF Mem
  <2> HIDE DEF m
  <2>2. Begin(c, "register", "insertUser", m)
    BY <1>2 DEF Register, m
  <2>3. DataTypes' /\ UNCHANGED <<scenario, now, serial, sessions, signedOut>> /\ RowRests
    BY <1>1, <1>2, DataRests DEF Register, db, redis, outside, history, RowRests
  <2>4. /\ "insertUser" \in PC \ (HasToken \cup AboutSessions \cup Saving)
        /\ "insertUser" # "saveUser"
    BY DEF PC, HasToken, Issuing, Carrying, AboutSessions, Saving
  <2> QED BY <1>1, <2>1, <2>2, <2>3, <2>4, RequestBegins
<1>3. ASSUME InsertUser(c) PROVE Done(c)
  <2>1. /\ Goes(c, "idle", Nothing) /\ pc[c] = "insertUser" /\ "insertUser" \in MakingToken
        /\ UNCHANGED <<scenario, now, started, sessions, signedOut>>
    BY <1>3, AccountReturns DEF InsertUser, MakingToken
  <2>2. mem[c].password \in Passwords
    BY <1>1, <2>1 DEF CallTypes, HasPassword
  <2>3. CASE user = NoUser /\ serial' = serial + 1
    <3> DEFINE i == now + VerifyLife
               t == serial'
               p == mem[c].password
               v == [NoUser EXCEPT !.password = p, !.verifyToken = t, !.verifyUntil = i]
    <3>1. i \in Nat /\ t \in Nat /\ serial' \in Nat /\ p \in Passwords
      BY <1>1, <2>2, <2>3, AuthAssumption
    <3> HIDE DEF i, t, p
    <3>2. /\ v \in UserRow /\ v.verified = FALSE /\ v.password = p
          /\ v.failed = 0 /\ v.lockedUntil = 0
      BY <3>1 DEF UserRow, NoUser
    <3> HIDE DEF v
    <3>3. /\ user' = v /\ lastSet' = p
          /\ mailbox' \in {mailbox, mailbox \cup {serial'}}
          /\ UNCHANGED <<sessions, resets, jtis, cutoff, access, refresh, challenge,
                         everVerified, wrong, signedOut>>
      <4>1. /\ user' = v /\ lastSet' = p /\ Mail
        BY <1>1, <1>3, <2>3 DEF InsertUser, v, i, t, p
      <4> QED BY <1>3, <4>1 DEF InsertUser, Mail, redis
    <3>4. DataTypes'
      BY <1>1, <2>3, <3>1, <3>2, <3>3 DEF DataTypes
    <3>5. RowEffect(c, "idle", Nothing)
      BY <2>3, <3>2, <3>3 DEF RowEffect
    <3> QED BY <2>1, <2>3, <3>4, <3>5, RequestSaves
  <2>4. CASE user # NoUser /\ serial' = serial
    <3>1. RowRests /\ DataTypes'
      BY <1>1, <1>3, <2>4, DataRests DEF InsertUser, RowRests, redis
    <3> QED BY <2>1, <2>4, <3>1, RequestEnds
  <2> QED BY <1>3, <2>3, <2>4 DEF InsertUser
<1>4. ASSUME NEW t \in mailbox, VerifyEmail(c, t) PROVE Done(c)
  <2> DEFINE v == [user EXCEPT !.verified = TRUE, !.verifyToken = 0, !.verifyUntil = 0]
             m == [Nothing EXCEPT !.user = v]
  <2>1. /\ v \in UserRow /\ v.verified /\ v.password = user.password
        /\ v.failed = user.failed /\ v.lockedUntil = user.lockedUntil
    BY <1>1, VerifyTypes
  <2> HIDE DEF v
  <2>2. m \in Mem /\ m.user = v /\ m.token = 0
    BY <1>1, <2>1, NoUserType, UserMem DEF Mem
  <2> HIDE DEF m
  <2>3. Begin(c, "verify", "saveUser", m)
    BY <1>4 DEF VerifyEmail, m, v
  <2>4. DataTypes' /\ UNCHANGED <<scenario, now, serial, sessions, signedOut>> /\ RowRests
    BY <1>1, <1>4, DataRests DEF VerifyEmail, db, redis, outside, history, RowRests
  <2>5. "saveUser" \in PC \ (HasToken \cup AboutSessions \cup HasPassword)
    BY DEF PC, HasToken, Issuing, Carrying, AboutSessions, HasPassword
  <2>6. Remembers(m.user) /\ m.user.verified
    BY <2>1, <2>2 DEF Remembers
  <2> QED BY <1>1, <2>2, <2>3, <2>4, <2>5, <2>6, RequestBegins
<1>5. ASSUME SaveVerified(c) PROVE Done(c)
  <2>1. /\ Goes(c, "idle", Nothing) /\ pc[c] = "saveUser" /\ user' = mem[c].user
        /\ everVerified' = TRUE
        /\ UNCHANGED <<scenario, now, started, serial, lastSet, wrong>>
        /\ UNCHANGED <<sessions, resets, jtis, cutoff, access, refresh, mailbox,
                       challenge, signedOut>>
    BY <1>5, AccountReturns DEF SaveVerified, redis, outside
  <2>2. DataTypes'
    BY <1>1, <2>1 DEF DataTypes
  <2>3. RowEffect(c, "idle", Nothing)
    BY <2>1 DEF RowEffect, Saving
  <2> QED BY <2>1, <2>2, <2>3, RequestSaves
<1>6. ASSUME ResendVerification(c) PROVE Done(c)
  <2> DEFINE i == now + VerifyLife
             t == serial'
             v == [user EXCEPT !.verifyToken = t, !.verifyUntil = i]
             m == [Nothing EXCEPT !.user = v, !.token = t]
  <2>1. /\ i \in Nat /\ t \in Nat /\ t = serial' /\ serial' = serial + 1
    BY <1>1, <1>6, AuthAssumption DEF ResendVerification
  <2> HIDE DEF i, t
  <2>2. /\ v \in UserRow /\ v.verified = user.verified /\ v.password = user.password
        /\ v.failed = user.failed /\ v.lockedUntil = user.lockedUntil
    BY <1>1, <2>1 DEF UserRow
  <2> HIDE DEF v
  <2>3. m \in Mem /\ m.user = v /\ m.token = t
    BY <1>1, <2>1, <2>2, UserMem DEF Mem
  <2> HIDE DEF m
  <2>4. Begin(c, "resend", "saveResend", m)
    BY <1>6 DEF ResendVerification, m, v, i, t
  <2>5. DataTypes' /\ UNCHANGED <<scenario, now, sessions, signedOut>> /\ RowRests
    BY <1>1, <1>6, <2>1, DataRests DEF ResendVerification, db, redis, outside, history, RowRests
  <2>6. /\ "saveResend" \in PC \ (AboutSessions \cup HasPassword \cup MakingToken)
        /\ "saveResend" # "saveUser"
    BY DEF PC, AboutSessions, HasPassword, MakingToken
  <2>7. Remembers(m.user) /\ m.token <= serial' /\ m.token > 0
    BY <1>1, <2>1, <2>2, <2>3 DEF Remembers
  <2> QED BY <1>1, <2>1, <2>3, <2>4, <2>5, <2>6, <2>7, RequestBegins
<1>7. ASSUME SaveResend(c) PROVE Done(c)
  <2>1. /\ Goes(c, "idle", Nothing) /\ pc[c] = "saveResend" /\ user' = mem[c].user
        /\ mailbox' \in {mailbox, mailbox \cup {mem[c].token}}
        /\ UNCHANGED <<scenario, now, started, serial, lastSet, everVerified, wrong>>
        /\ UNCHANGED <<sessions, resets, jtis, cutoff, access, refresh, challenge, signedOut>>
    BY <1>7, AccountReturns DEF SaveResend, redis, history
  <2>2. mem[c].token \in 1..serial
    <3>1. mem[c].token > 0
      BY <1>1, <2>1 DEF CallTypes, HasToken
    <3> QED BY <1>1, <3>1
  <2>3. DataTypes'
    BY <1>1, <2>1, <2>2 DEF DataTypes
  <2>4. RowEffect(c, "idle", Nothing)
    BY <2>1 DEF RowEffect, Saving
  <2> QED BY <2>1, <2>3, <2>4, RequestSaves
<1> QED BY <1>2, <1>3, <1>4, <1>5, <1>6, <1>7 DEF Account

\* ... login ...
LEMMA LoginDone ==
    ASSUME AccountTypes, NEW c \in Calls, LoginStep(c)
    PROVE  Done(c)
<1>1. /\ now \in Nat /\ serial \in Nat /\ DataTypes /\ CallTypes /\ user \in UserRow
      /\ mem[c] \in Mem /\ mem[c].user \in UserRow /\ mem[c].token \in Nat
      /\ mem[c].token <= serial /\ Nothing \in Mem /\ Nothing.token = 0
      /\ started \in 0..scenario.calls /\ scenario.calls \in Nat /\ started \in Nat
  BY AccountNow, NothingMem DEF AccountTypes
<1>2. ASSUME NEW p \in Passwords, Login(c, p) PROVE Done(c)
  <2> DEFINE m == [Nothing EXCEPT !.user = user, !.password = p]
  <2>1. m \in Mem /\ m.user = user /\ m.token = 0
    BY <1>1 DEF Mem
  <2> HIDE DEF m
  <2>2. Begin(c, "login", "checkPassword", m)
    BY <1>2 DEF Login, m
  <2>3. DataTypes' /\ UNCHANGED <<scenario, now, serial, sessions, signedOut>> /\ RowRests
    BY <1>1, <1>2, DataRests DEF Login, db, redis, outside, history, RowRests
  <2>4. /\ "checkPassword" \in PC \ (HasToken \cup AboutSessions \cup HasPassword)
        /\ "checkPassword" # "saveUser"
    BY DEF PC, HasToken, Issuing, Carrying, AboutSessions, HasPassword
  <2>5. Remembers(m.user)
    BY <2>1 DEF Remembers
  <2> QED BY <1>1, <2>1, <2>2, <2>3, <2>4, <2>5, RequestBegins
<1>3. ASSUME WrongPassword(c) PROVE Done(c)
  <2>1. /\ Goes(c, "idle", Nothing) /\ pc[c] = "checkPassword" /\ user' = Failed(mem[c].user)
        /\ wrong' = wrong + 1
        /\ UNCHANGED <<scenario, now, started, serial, lastSet, everVerified>>
        /\ UNCHANGED <<sessions, resets, jtis, cutoff, access, refresh, mailbox,
                       challenge, signedOut>>
    BY <1>3, AccountReturns DEF WrongPassword, redis, outside
  <2>2. user' \in UserRow
    BY <1>1, <2>1, FailedType
  <2>3. DataTypes'
    BY <1>1, <2>1, <2>2 DEF DataTypes
  <2>4. RowEffect(c, "idle", Nothing)
    BY <2>1 DEF RowEffect, Saving
  <2> QED BY <2>1, <2>3, <2>4, RequestSaves
<1>4. ASSUME RefusedByLock(c) PROVE Done(c)
  <2>1. /\ Goes(c, "idle", Nothing) /\ pc[c] # "idle" /\ DataTypes' /\ RowRests
        /\ UNCHANGED <<scenario, now, started, serial, sessions, signedOut>>
    BY <1>1, <1>4, AccountReturns, DataRests
       DEF RefusedByLock, db, redis, outside, history, RowRests
  <2> QED BY <2>1, RequestEnds
<1>5. ASSUME PasswordAccepted(c) PROVE Done(c)
  <2>1. /\ pc[c] = "checkPassword" /\ serial' \in {serial, serial + 1}
        /\ UNCHANGED <<scenario, now, started, sessions, signedOut>> /\ RowRests /\ DataTypes'
    BY <1>1, <1>5, DataRests DEF PasswordAccepted, db, redis, outside, history, RowRests
  <2>2. CASE scenario.twoFactor
    <3>1. Goes(c, "issueChallenge", mem[c]) /\ serial' = serial
      BY <1>5, <2>2, AccountStays DEF PasswordAccepted
    <3>2. /\ "issueChallenge" \in PC
          /\ "issueChallenge" \notin HasToken \cup AboutSessions \cup HasPassword \cup MakingToken
          /\ "issueChallenge" # "saveUser" /\ "checkPassword" \in Saving
      BY DEF PC, HasToken, Issuing, Carrying, AboutSessions, HasPassword, MakingToken, Saving
    <3>3. Making(c, "issueChallenge") /\ RowRead(c, "issueChallenge", mem[c])
      BY <1>1, <2>1, <3>1, <3>2 DEF Making, RowRead
    <3> QED BY <1>1, <2>1, <3>1, <3>2, <3>3, AccountQuiet
  <2>3. CASE ~scenario.twoFactor
    <3> DEFINE t == serial'
               m == [mem[c] EXCEPT !.token = t, !.iat = now]
    <3>1. serial' = serial + 1 /\ t = serial' /\ t \in Nat /\ t > 0
      BY <1>1, <1>5, <2>3 DEF PasswordAccepted
    <3> HIDE DEF t
    <3>2. m \in Mem /\ m.user = mem[c].user /\ m.token = t
      BY <1>1, <3>1 DEF Mem
    <3> HIDE DEF m
    <3>3. Goes(c, "deleteSessions", m)
      BY <1>5, <2>3 DEF PasswordAccepted, Goto, Remember, Goes, m, t
    <3>4. /\ "deleteSessions" \in PC
          /\ "deleteSessions" \notin AboutSessions \cup HasPassword \cup MakingToken
          /\ "deleteSessions" # "saveUser"
          /\ "checkPassword" \in Saving /\ "checkPassword" \in MakingToken
      BY DEF PC, AboutSessions, HasPassword, MakingToken, Saving
    <3>5. Making(c, "deleteSessions") /\ RowRead(c, "deleteSessions", m)
      BY <2>1, <3>1, <3>2, <3>4 DEF Making, RowRead
    <3>6. m.token <= serial' /\ m.token > 0
      BY <3>1, <3>2
    <3> QED BY <1>1, <2>1, <3>2, <3>3, <3>4, <3>5, <3>6, AccountQuiet
  <2> QED BY <2>2, <2>3
<1>6. ASSUME IssueChallenge(c) PROVE Done(c)
  <2>1. /\ Goes(c, "idle", Nothing) /\ pc[c] = "issueChallenge" /\ wrong' = 0 /\ challenge' = TRUE
        /\ user' = IF NeedsReset(mem[c].user) THEN Cleared(mem[c].user) ELSE user
        /\ UNCHANGED <<scenario, now, started, serial, lastSet, everVerified>>
        /\ UNCHANGED <<sessions, resets, jtis, cutoff, access, refresh, mailbox, signedOut>>
    BY <1>6, AccountReturns DEF IssueChallenge, redis
  <2>2. user' \in UserRow
    BY <1>1, <2>1, UserTypes
  <2>3. DataTypes'
    BY <1>1, <2>1, <2>2 DEF DataTypes
  <2>4. RowEffect(c, "idle", Nothing)
    BY <2>1 DEF RowEffect, Saving
  <2> QED BY <2>1, <2>3, <2>4, RequestSaves
<1>7. ASSUME ChallengePassed(c) PROVE Done(c)
  <2> DEFINE t == serial'
             m == [Nothing EXCEPT !.user = user, !.token = t, !.iat = now]
  <2>1. serial' = serial + 1 /\ t = serial' /\ t \in Nat /\ t > 0
    BY <1>1, <1>7 DEF ChallengePassed
  <2> HIDE DEF t
  <2>2. m \in Mem /\ m.user = user /\ m.token = t
    BY <1>1, <2>1 DEF Mem
  <2> HIDE DEF m
  <2>3. Begin(c, "login", "deleteSessions", m)
    BY <1>7 DEF ChallengePassed, m, t
  <2>4. /\ challenge' = FALSE /\ UNCHANGED <<scenario, now, sessions, signedOut>> /\ RowRests
        /\ UNCHANGED <<resets, jtis, cutoff, access, refresh, mailbox>>
    BY <1>7 DEF ChallengePassed, db, redis, history, RowRests
  <2>5. DataTypes'
    <3>1. /\ serial' \in Nat /\ serial <= serial'
          /\ UNCHANGED <<user, lastSet, everVerified, wrong>>
      BY <1>1, <2>1, <2>4 DEF RowRests
    <3>2. /\ jtis \subseteq 1..serial' /\ refresh \subseteq 1..serial'
          /\ mailbox \subseteq 1..serial' /\ \A a \in access : a.jti \in 1..serial'
      BY <1>1, <3>1 DEF DataTypes
    <3>3. challenge' \in BOOLEAN
      BY <2>4
    <3> QED BY <1>1, <2>4, <3>1, <3>2, <3>3 DEF DataTypes
  <2>6. /\ "deleteSessions" \in PC
        /\ "deleteSessions" \notin AboutSessions \cup HasPassword \cup MakingToken
        /\ "deleteSessions" # "saveUser"
    BY DEF PC, AboutSessions, HasPassword, MakingToken
  <2>7. Remembers(m.user) /\ m.token <= serial' /\ m.token > 0
    BY <1>1, <2>1, <2>2 DEF Remembers
  <2> QED BY <1>1, <2>1, <2>2, <2>3, <2>4, <2>5, <2>6, <2>7, RequestBegins
<1>8. ASSUME DeleteSessions(c) PROVE Done(c)
  <2>1. /\ Goes(c, "insertSession", mem[c]) /\ pc[c] = "deleteSessions" /\ sessions' = {}
        /\ UNCHANGED <<scenario, now, started, serial, signedOut>> /\ RowRests
        /\ UNCHANGED <<resets, jtis, cutoff, access, refresh, mailbox, challenge>>
    BY <1>8, AccountStays DEF DeleteSessions, redis, outside, history, RowRests
  <2>2. DataTypes'
    BY <1>1, <2>1, FS_EmptySet DEF DataTypes, RowRests
  <2>3. /\ "insertSession" \in PC /\ "insertSession" \notin HasPassword \cup MakingToken
        /\ "insertSession" # "saveUser" /\ "deleteSessions" \in Saving
        /\ "deleteSessions" \in HasToken
    BY DEF PC, HasPassword, MakingToken, Saving, HasToken, Issuing
  <2>4. mem[c].token > 0
    BY <1>1, <2>1, <2>3 DEF CallTypes
  <2>5. Making(c, "insertSession") /\ RowEffect(c, "insertSession", mem[c])
    BY <1>1, <2>1, <2>3 DEF Making, RowEffect, RowRead
  <2>6. AccountTypes'
    BY <1>1, <2>1, <2>2, <2>3, <2>4, <2>5, AccountStep
  <2>7. SessionEffect(c, "insertSession", mem[c])
    BY <2>1 DEF SessionEffect
  <2>8. AccountEffect(c, "insertSession", mem[c])
    BY <2>1, <2>5, <2>7 DEF AccountEffect
  <2> QED BY <2>6, <2>8 DEF Done
<1>9. ASSUME InsertSession(c) PROVE Done(c)
  <2> DEFINE s == [refresh |-> mem[c].token, revoked |-> FALSE]
             l == IF ~scenario.twoFactor /\ NeedsReset(mem[c].user)
                  THEN "resetAttempts" ELSE "saveLogin"
  <2>1. /\ Goes(c, l, mem[c]) /\ pc[c] = "insertSession" /\ sessions' = sessions \cup {s}
        /\ signedOut' = FALSE /\ UNCHANGED <<scenario, now, started, serial>> /\ RowRests
        /\ UNCHANGED <<resets, jtis, cutoff, access, refresh, mailbox, challenge>>
    BY <1>9, AccountStays DEF InsertSession, redis, outside, RowRests
  <2>2. s \in SessionRow
    BY <1>1 DEF SessionRow
  <2>3. /\ l \in PC /\ l \notin HasPassword \cup MakingToken \cup AboutSessions
        /\ l # "saveUser" /\ "insertSession" \in Saving /\ "insertSession" \in HasToken
    BY DEF PC, HasPassword, MakingToken, AboutSessions, Saving, HasToken, Issuing
  <2> HIDE DEF s, l
  <2>4. IsFiniteSet(sessions \cup {s})
    BY <1>1, FS_AddElement DEF DataTypes
  <2>5. DataTypes'
    BY <1>1, <2>1, <2>2, <2>4 DEF DataTypes, RowRests
  <2>6. mem[c].token > 0
    BY <1>1, <2>1, <2>3 DEF CallTypes
  <2>7. Making(c, l) /\ RowEffect(c, l, mem[c])
    BY <1>1, <2>1, <2>3 DEF Making, RowEffect, RowRead
  <2>8. AccountTypes'
    BY <1>1, <2>1, <2>3, <2>5, <2>6, <2>7, AccountStep
  <2>9. SessionEffect(c, l, mem[c])
    BY <2>1, <2>2, <2>3 DEF SessionEffect
  <2>10. AccountEffect(c, l, mem[c])
    BY <2>1, <2>7, <2>9 DEF AccountEffect
  <2> QED BY <2>8, <2>10 DEF Done
<1>10. ASSUME ResetFailedAttempts(c) PROVE Done(c)
  <2> DEFINE u == Cleared(mem[c].user)
             m == [mem[c] EXCEPT !.user = u]
  <2>1. u \in UserRow
    BY <1>1, UserTypes
  <2> HIDE DEF u
  <2>2. m \in Mem /\ m.user = u /\ m.token = mem[c].token
    BY <1>1, <2>1 DEF Mem
  <2> HIDE DEF m
  <2>3. /\ Goes(c, "saveLogin", m) /\ pc[c] = "resetAttempts" /\ user' = u /\ wrong' = 0
        /\ UNCHANGED <<scenario, now, started, serial, lastSet, everVerified>>
        /\ UNCHANGED <<sessions, resets, jtis, cutoff, access, refresh, mailbox, challenge,
                       signedOut>>
    BY <1>10 DEF ResetFailedAttempts, redis, outside, Goto, Remember, Goes, m, u
  <2>4. DataTypes'
    BY <1>1, <2>1, <2>3 DEF DataTypes
  <2>5. /\ "saveLogin" \in PC
        /\ "saveLogin" \notin HasPassword \cup MakingToken \cup AboutSessions
        /\ "resetAttempts" \in Saving /\ "resetAttempts" \in HasToken
    BY DEF PC, HasPassword, MakingToken, AboutSessions, Saving, HasToken, Issuing
  <2>6. m.token > 0 /\ m.token <= serial
    BY <1>1, <2>2, <2>3, <2>5 DEF CallTypes
  <2>7. Making(c, "saveLogin")
    BY <1>1, <2>3, <2>5 DEF Making
  <2>8. RowEffect(c, "saveLogin", m)
    BY <2>2, <2>3, <2>5 DEF RowEffect, u
  <2>9. AccountTypes'
    BY <1>1, <2>2, <2>3, <2>4, <2>5, <2>6, <2>7, AccountStep
  <2>10. SessionEffect(c, "saveLogin", m)
    BY <2>3, <2>5 DEF SessionEffect
  <2>11. AccountEffect(c, "saveLogin", m)
    BY <2>3, <2>8, <2>10 DEF AccountEffect
  <2> QED BY <2>9, <2>11 DEF Done
<1>11. ASSUME UpdateLastLogin(c) PROVE Done(c)
  <2> DEFINE a == [jti |-> mem[c].token, iat |-> mem[c].iat]
  <2>1. /\ Goes(c, "idle", Nothing) /\ pc[c] = "saveLogin" /\ user' = mem[c].user
        /\ access' = access \cup {a} /\ refresh' = refresh \cup {mem[c].token}
        /\ UNCHANGED <<scenario, now, started, serial, lastSet, everVerified, wrong>>
        /\ UNCHANGED <<sessions, resets, jtis, cutoff, mailbox, challenge, signedOut>>
    BY <1>11, AccountReturns DEF UpdateLastLogin, redis, history
  <2>2. mem[c].token \in 1..serial
    <3>1. mem[c].token > 0
      BY <1>1, <2>1 DEF CallTypes, HasToken, Issuing
    <3> QED BY <1>1, <3>1
  <2>3. a \in AccessToken /\ a.jti \in 1..serial
    BY <1>1, <2>2, AccountNow DEF AccessToken
  <2> HIDE DEF a
  <2>4. DataTypes'
    BY <1>1, <2>1, <2>2, <2>3 DEF DataTypes
  <2>5. RowEffect(c, "idle", Nothing)
    BY <2>1 DEF RowEffect, Saving
  <2> QED BY <2>1, <2>4, <2>5, RequestSaves
<1> QED
  BY <1>2, <1>3, <1>4, <1>5, <1>6, <1>7, <1>8, <1>9, <1>10, <1>11 DEF LoginStep

\* ... requests with a token, and logout ...
LEMMA TokenDone ==
    ASSUME AccountTypes, NEW c \in Calls, TokenStep(c)
    PROVE  Done(c)
<1>1. /\ now \in Nat /\ serial \in Nat /\ DataTypes /\ CallTypes /\ user \in UserRow
      /\ mem[c] \in Mem /\ mem[c].user \in UserRow /\ mem[c].token \in Nat /\ mem[c].iat \in Nat
      /\ mem[c].token <= serial /\ Nothing \in Mem /\ Nothing.token = 0
      /\ started \in 0..scenario.calls /\ scenario.calls \in Nat /\ started \in Nat
  BY AccountNow, NothingMem DEF AccountTypes
<1>2. /\ Carrying \subseteq PC /\ Carrying \subseteq HasToken
      /\ \A l \in Carrying : l \notin HasPassword \cup MakingToken \cup Saving /\ l # "idle"
  BY DEF PC, Carrying, HasToken, HasPassword, MakingToken, Saving
<1>3. ASSUME NEW r \in refresh, RefreshToken(c, r) PROVE Done(c)
  <2>1. Begin(c, "refresh", "signAccess", Nothing)
    BY <1>3 DEF RefreshToken
  <2>2. DataTypes' /\ UNCHANGED <<scenario, now, serial, sessions, signedOut>> /\ RowRests
    BY <1>1, <1>3, DataRests DEF RefreshToken, db, redis, outside, history, RowRests
  <2>3. /\ "signAccess" \in PC \ (HasToken \cup AboutSessions \cup HasPassword \cup Saving)
        /\ "signAccess" # "saveUser"
    BY DEF PC, HasToken, Issuing, Carrying, AboutSessions, HasPassword, Saving
  <2> QED BY <1>1, <2>1, <2>2, <2>3, RequestBegins
<1>4. ASSUME SignAccess(c) PROVE Done(c)
  <2> DEFINE t == serial'
             a == [jti |-> t, iat |-> now]
  <2>1. /\ Goes(c, "idle", Nothing) /\ pc[c] = "signAccess" /\ serial' = serial + 1
        /\ access' = access \cup {a} /\ RowRests
        /\ UNCHANGED <<scenario, now, started, sessions, resets, jtis, cutoff, refresh,
                       mailbox, challenge, signedOut>>
    BY <1>4, AccountReturns DEF SignAccess, db, redis, history, RowRests
  <2>2. /\ t = serial' /\ t \in Nat /\ t \in 1..serial' /\ serial <= serial'
        /\ a \in AccessToken /\ a.jti = t
    BY <1>1, <2>1 DEF AccessToken
  <2> HIDE DEF a, t
  <2>3. DataTypes'
    <3>1. /\ UNCHANGED <<user, lastSet, everVerified, wrong>> /\ serial' \in Nat
      BY <2>1, <2>2 DEF RowRests
    <3>2. /\ jtis \subseteq 1..serial' /\ refresh \subseteq 1..serial'
          /\ mailbox \subseteq 1..serial' /\ \A b \in access' : b.jti \in 1..serial'
          /\ access' \subseteq AccessToken
      BY <1>1, <2>1, <2>2 DEF DataTypes
    <3> QED BY <1>1, <2>1, <3>1, <3>2 DEF DataTypes
  <2> QED BY <2>1, <2>3, RequestEnds DEF MakingToken
<1>5. ASSUME NEW t \in access, Request(c, t) PROVE Done(c)
  <2> DEFINE j == t.jti
             i == t.iat
             b == t.jti \in dead
             m == [Nothing EXCEPT !.token = j, !.iat = i, !.dead = b]
  <2>1. j \in Nat /\ i \in Nat /\ j > 0 /\ j <= serial
    BY <1>1 DEF DataTypes, AccessToken
  <2>2. b \in BOOLEAN
    OBVIOUS
  <2> HIDE DEF j, i, b
  <2>3. m \in Mem /\ m.token = j
    BY <1>1, <2>1, <2>2 DEF Mem
  <2> HIDE DEF m
  <2>4. Begin(c, "request", "checkJti", m)
    BY <1>5 DEF Request, m, j, i, b
  <2>5. DataTypes' /\ UNCHANGED <<scenario, now, serial, sessions, signedOut>> /\ RowRests
    BY <1>1, <1>5, DataRests DEF Request, db, redis, outside, history, RowRests
  <2>6. "checkJti" \in Carrying \ AboutSessions /\ "checkJti" # "saveUser"
    BY DEF Carrying, AboutSessions
  <2> QED BY <1>1, <1>2, <2>1, <2>3, <2>4, <2>5, <2>6, RequestBegins
<1>6. ASSUME NEW listed, NEW l \in Carrying \ AboutSessions, pc[c] \in Carrying,
             Check(c, listed, l), UNCHANGED <<scenario, now, started>>,
             UNCHANGED <<db, redis, serial, outside, history>>
      PROVE  Done(c)
  <2>1. /\ UNCHANGED <<scenario, now, started, serial, sessions, signedOut>> /\ RowRests
        /\ DataTypes'
    BY <1>1, <1>6, DataRests DEF db, redis, outside, history, RowRests
  <2>2. CASE Return(c)
    BY <1>2, <1>6, <2>1, <2>2, AccountReturns, RequestEnds
  <2>3. ASSUME NEW m \in Mem, m.token = mem[c].token, Goes(c, l, m) PROVE Done(c)
    <3>1. mem[c].token > 0 /\ mem[c].token <= serial'
      BY <1>1, <1>2, <1>6, <2>1 DEF CallTypes
    <3>2. l # "saveUser" /\ l \in PC /\ l \notin HasPassword \cup MakingToken \cup Saving
      BY <1>2 DEF Carrying
    <3>3. Making(c, l) /\ RowRead(c, l, m)
      BY <1>1, <2>1, <3>2 DEF Making, RowRead
    <3>4. pc[c] # "idle" /\ started' \in 0..scenario.calls
      BY <1>1, <1>2, <1>6, <2>1
    <3> QED BY <1>6, <2>1, <2>3, <3>1, <3>2, <3>3, <3>4, AccountQuiet
  <2>4. CASE Goto(c, l) /\ UNCHANGED mem
    BY <1>1, <2>3, <2>4, AccountStays
  <2>5. CASE Goto(c, l) /\ Remember(c, [mem[c] EXCEPT !.failedOpen = TRUE])
    <3> DEFINE m == [mem[c] EXCEPT !.failedOpen = TRUE]
    <3>1. m \in Mem /\ m.token = mem[c].token
      BY <1>1 DEF Mem
    <3> HIDE DEF m
    <3>2. Goes(c, l, m)
      BY <2>5 DEF Goto, Remember, Goes, m
    <3> QED BY <2>3, <3>1, <3>2
  <2> QED BY <1>6, <2>2, <2>4, <2>5 DEF Check
<1>7. ASSUME CheckJti(c) \/ CheckCutoff(c) PROVE Done(c)
  <2>1. /\ {"checkCutoff", "accepted"} \subseteq Carrying \ AboutSessions
        /\ "checkJti" \in Carrying /\ "checkCutoff" \in Carrying
    BY DEF Carrying, AboutSessions
  <2>2. CASE CheckJti(c)
    BY <1>6, <2>1, <2>2 DEF CheckJti
  <2>3. CASE CheckCutoff(c)
    BY <1>6, <2>1, <2>3 DEF CheckCutoff
  <2> QED BY <1>7, <2>2, <2>3
<1>8. ASSUME Serve(c) PROVE Done(c)
  <2>1. /\ Goes(c, "idle", Nothing) /\ pc[c] # "idle" /\ DataTypes' /\ RowRests
        /\ UNCHANGED <<scenario, now, started, serial, sessions, signedOut>>
    BY <1>1, <1>8, AccountReturns, DataRests DEF Serve, db, redis, outside, history, RowRests
  <2> QED BY <2>1, RequestEnds
<1>9. ASSUME Logout(c) PROVE Done(c)
  <2>1. /\ pc[c] = "accepted" /\ pc[c] \in Carrying /\ RowRests
        /\ UNCHANGED <<scenario, now, started, serial, sessions, resets, cutoff, access, refresh,
                       mailbox, challenge, signedOut>>
        /\ jtis' \in {jtis, jtis \cup {mem[c].token}}
    BY <1>9 DEF Logout, db, outside, history, RowRests, Carrying
  <2>2. mem[c].token > 0 /\ mem[c].token \in 1..serial
    <3>1. mem[c].token > 0
      BY <1>1, <1>2, <2>1 DEF CallTypes
    <3> QED BY <1>1, <3>1
  <2>3. DataTypes'
    BY <1>1, <2>1, <2>2 DEF DataTypes, RowRests
  <2>4. CASE Return(c)
    BY <1>2, <2>1, <2>3, <2>4, AccountReturns, RequestEnds
  <2>5. CASE Goto(c, "findSessions") /\ UNCHANGED mem
    <3>1. Goes(c, "findSessions", mem[c])
      BY <1>1, <2>5, AccountStays
    <3>2. "findSessions" \in Carrying \ AboutSessions /\ "findSessions" # "saveUser"
      BY DEF Carrying, AboutSessions
    <3>3. Making(c, "findSessions") /\ RowRead(c, "findSessions", mem[c])
      BY <1>1, <1>2, <2>1, <3>2 DEF Making, RowRead
    <3> QED BY <1>1, <1>2, <2>1, <2>2, <2>3, <3>1, <3>2, <3>3, AccountQuiet
  <2> QED BY <1>9, <2>4, <2>5 DEF Logout
<1>10. ASSUME FindSessions(c) \/ \E s \in mem[c].found : RevokeNext(c, s) PROVE Done(c)
  <2>1. \E f \in SUBSET SessionRow :
          LET m == [mem[c] EXCEPT !.found = f]
          IN  /\ Goes(c, "revokeSessions", m)
              /\ SessionEffect(c, "revokeSessions", m)
              /\ sessions' \subseteq SessionRow /\ IsFiniteSet(sessions')
    <3>1. CASE FindSessions(c)
      <4> DEFINE f == Live
                 m == [mem[c] EXCEPT !.found = f]
      <4>1. f \in SUBSET SessionRow
        BY <1>1 DEF DataTypes, Live
      <4>2. m.found = f
        BY <1>1 DEF Mem
      <4>3. Goes(c, "revokeSessions", m) /\ sessions' = sessions /\ signedOut' = signedOut
        BY <3>1 DEF FindSessions, Goto, Remember, Goes, db, history
      <4>4. SessionEffect(c, "revokeSessions", m)
        BY <4>2, <4>3 DEF SessionEffect
      <4>5. sessions' \subseteq SessionRow /\ IsFiniteSet(sessions')
        BY <1>1, <4>3 DEF DataTypes
      <4> QED BY <4>1, <4>3, <4>4, <4>5
    <3>2. ASSUME NEW s \in mem[c].found, RevokeNext(c, s)
          PROVE  \E f \in SUBSET SessionRow :
                   LET m == [mem[c] EXCEPT !.found = f]
                   IN  /\ Goes(c, "revokeSessions", m)
                       /\ SessionEffect(c, "revokeSessions", m)
                       /\ sessions' \subseteq SessionRow /\ IsFiniteSet(sessions')
      <4> DEFINE f == mem[c].found \ {s}
                 m == [mem[c] EXCEPT !.found = f]
                 t == [s EXCEPT !.revoked = TRUE]
                 Kept == {r \in sessions : r.refresh # s.refresh}
      <4>1. f \in SUBSET SessionRow /\ s \in SessionRow
        BY <1>1 DEF Mem
      <4>2. t \in SessionRow /\ t.refresh = s.refresh
        BY <4>1 DEF SessionRow
      <4>3. /\ pc' = pc /\ mem' = [mem EXCEPT ![c] = [mem[c] EXCEPT !.found = @ \ {s}]]
            /\ sessions' = Kept \cup {t}
            /\ signedOut' = signedOut /\ pc[c] = "revokeSessions"
        BY <3>2, <4>2 DEF RevokeNext, Remember, SaveSession, history
      <4>4. m.found = f /\ m = [mem[c] EXCEPT !.found = @ \ {s}]
        BY <1>1 DEF Mem
      <4>5. pc' = [pc EXCEPT ![c] = "revokeSessions"]
        BY <1>1, <4>3 DEF CallTypes
      <4> HIDE DEF m, f
      <4>6. Goes(c, "revokeSessions", m)
        BY <4>3, <4>4, <4>5 DEF Goes
      <4>7. SessionEffect(c, "revokeSessions", m)
        BY <4>3, <4>4 DEF SessionEffect, f
      <4>8. Kept \subseteq sessions /\ IsFiniteSet(Kept)
        BY <1>1, FS_Subset DEF DataTypes
      <4>9. sessions' \subseteq SessionRow /\ IsFiniteSet(sessions')
        BY <1>1, <4>2, <4>3, <4>8, FS_AddElement DEF DataTypes
      <4> QED BY <4>1, <4>6, <4>7, <4>9 DEF m
    <3> QED BY <1>10, <3>1, <3>2
  <2>2. PICK f \in SUBSET SessionRow :
          LET m == [mem[c] EXCEPT !.found = f]
          IN  /\ Goes(c, "revokeSessions", m)
              /\ SessionEffect(c, "revokeSessions", m)
              /\ sessions' \subseteq SessionRow /\ IsFiniteSet(sessions')
    BY <2>1
  <2> DEFINE m == [mem[c] EXCEPT !.found = f]
  <2>3. m \in Mem /\ m.token = mem[c].token
    BY <1>1 DEF Mem
  <2>4. /\ Goes(c, "revokeSessions", m) /\ SessionEffect(c, "revokeSessions", m)
        /\ sessions' \subseteq SessionRow /\ IsFiniteSet(sessions')
    BY <2>2
  <2> HIDE DEF m
  <2>5. /\ pc[c] \in {"findSessions", "revokeSessions"} /\ RowRests
        /\ UNCHANGED <<scenario, now, started, serial, resets, jtis, cutoff, access, refresh,
                       mailbox, challenge, signedOut>>
    BY <1>10 DEF FindSessions, RevokeNext, db, redis, outside, history, RowRests
  <2>6. /\ pc[c] \in Carrying /\ "revokeSessions" \in Carrying /\ "revokeSessions" # "saveUser"
        /\ pc[c] # "idle"
    BY <1>2, <2>5 DEF Carrying
  <2>7. DataTypes'
    BY <1>1, <2>4, <2>5 DEF DataTypes, RowRests
  <2>8. Making(c, "revokeSessions") /\ RowEffect(c, "revokeSessions", m)
    BY <1>1, <1>2, <2>5, <2>6 DEF Making, RowEffect, RowRead
  <2>9. m.token > 0
    BY <1>1, <1>2, <2>3, <2>6 DEF CallTypes
  <2>10. AccountTypes'
    BY <1>1, <1>2, <2>3, <2>4, <2>5, <2>6, <2>7, <2>8, <2>9, AccountStep
  <2>11. AccountEffect(c, "revokeSessions", m)
    BY <2>4, <2>5, <2>6, <2>8 DEF AccountEffect
  <2> QED BY <2>10, <2>11 DEF Done
<1>11. ASSUME LoggedOut(c) PROVE Done(c)
  <2>1. /\ Goes(c, "idle", Nothing) /\ pc[c] = "revokeSessions" /\ mem[c].found = {}
        /\ signedOut' = TRUE /\ RowRests
        /\ UNCHANGED <<scenario, now, started, serial, sessions, resets, jtis, cutoff, access,
                       refresh, mailbox, challenge>>
    BY <1>11, AccountReturns DEF LoggedOut, db, redis, outside, RowRests
  <2>2. DataTypes'
    BY <1>1, <2>1 DEF DataTypes, RowRests
  <2>3. Making(c, "idle") /\ RowEffect(c, "idle", Nothing)
    BY <1>1, <2>1, EndPlaces DEF Making, RowEffect, RowRead
  <2>4. AccountTypes'
    BY <1>1, <2>1, <2>2, <2>3, EndPlaces, AccountStep
  <2>5. SessionEffect(c, "idle", Nothing)
    BY <2>1 DEF SessionEffect
  <2>6. AccountEffect(c, "idle", Nothing)
    BY <2>1, <2>3, <2>5 DEF AccountEffect
  <2> QED BY <2>4, <2>6 DEF Done
<1> QED
  BY <1>3, <1>4, <1>5, <1>7, <1>8, <1>9, <1>10, <1>11 DEF TokenStep

\* ... the password reset ...
LEMMA ResetDone ==
    ASSUME AccountTypes, NEW c \in Calls, ResetStep(c)
    PROVE  Done(c)
<1>1. /\ now \in Nat /\ serial \in Nat /\ DataTypes /\ CallTypes /\ user \in UserRow
      /\ mem[c] \in Mem /\ mem[c].user \in UserRow /\ mem[c].token \in Nat /\ mem[c].iat \in Nat
      /\ mem[c].token <= serial /\ Nothing \in Mem /\ Nothing.token = 0
      /\ started \in 0..scenario.calls /\ scenario.calls \in Nat /\ started \in Nat
  BY AccountNow, NothingMem DEF AccountTypes
<1>2. ASSUME RequestPasswordReset(c) PROVE Done(c)
  <2>1. Begin(c, "askReset", "deleteResets", Nothing)
    BY <1>2 DEF RequestPasswordReset
  <2>2. DataTypes' /\ UNCHANGED <<scenario, now, serial, sessions, signedOut>> /\ RowRests
    BY <1>1, <1>2, DataRests DEF RequestPasswordReset, db, redis, outside, history, RowRests
  <2>3. /\ "deleteResets" \in PC \ (HasToken \cup AboutSessions \cup HasPassword \cup Saving)
        /\ "deleteResets" # "saveUser"
    BY DEF PC, HasToken, Issuing, Carrying, AboutSessions, HasPassword, Saving
  <2> QED BY <1>1, <2>1, <2>2, <2>3, RequestBegins
<1>3. ASSUME NEW l \in PC, l \notin HasToken \cup AboutSessions \cup HasPassword \cup Saving,
             Goes(c, l, mem[c]), pc[c] # "idle", l \in MakingToken => pc[c] \in MakingToken,
             resets' \subseteq ResetRow, RowRests,
             UNCHANGED <<scenario, now, started, serial, sessions, jtis, cutoff, access, refresh,
                         mailbox, challenge, signedOut>>
      PROVE  Done(c)
  <2>1. DataTypes'
    BY <1>1, <1>3 DEF DataTypes, RowRests
  <2>2. Making(c, l)
    BY <1>1, <1>3 DEF Making
  <2>3. RowRead(c, l, mem[c])
    BY <1>3 DEF RowRead, Saving
  <2> QED BY <1>1, <1>3, <2>1, <2>2, <2>3, AccountQuiet
<1>4. ASSUME DeleteUnused(c) PROVE Done(c)
  <2>1. /\ Goes(c, "insertReset", mem[c]) /\ pc[c] = "deleteResets" /\ RowRests
        /\ resets' \in {resets, {r \in resets : r.used}}
        /\ UNCHANGED <<scenario, now, started, serial, sessions, jtis, cutoff, access, refresh,
                       mailbox, challenge, signedOut>>
    BY <1>1, <1>4, AccountStays DEF DeleteUnused, redis, outside, history, RowRests
  <2>2. resets' \subseteq ResetRow
    BY <1>1, <2>1 DEF DataTypes
  <2>3. /\ "insertReset" \in PC /\ "deleteResets" \in MakingToken
        /\ "insertReset" \notin HasToken \cup AboutSessions \cup HasPassword \cup Saving
    BY DEF PC, HasToken, Issuing, Carrying, AboutSessions, HasPassword, Saving, MakingToken
  <2> QED BY <1>3, <2>1, <2>2, <2>3
<1>5. ASSUME InsertReset(c) PROVE Done(c)
  <2> DEFINE t == serial'
             i == now + ResetLife
             r == [token |-> t, until |-> i, used |-> FALSE]
  <2>1. /\ Goes(c, "idle", Nothing) /\ pc[c] = "insertReset" /\ serial' = serial + 1
        /\ resets' = resets \cup {r} /\ mailbox' \in {mailbox, mailbox \cup {t}} /\ RowRests
        /\ UNCHANGED <<scenario, now, started, sessions, jtis, cutoff, access, refresh,
                       challenge, signedOut>>
    BY <1>5, AccountReturns DEF InsertReset, redis, history, RowRests, Mail
  <2>2. /\ t = serial' /\ t \in Nat /\ t \in 1..serial' /\ serial <= serial'
        /\ serial' \in Nat /\ i \in Nat
    BY <1>1, <2>1, AuthAssumption
  <2> HIDE DEF t, i
  <2>3. r \in ResetRow
    BY <2>2 DEF ResetRow
  <2> HIDE DEF r
  <2>4. DataTypes'
    <3>1. /\ UNCHANGED <<user, lastSet, everVerified, wrong>> /\ serial' \in Nat
      BY <2>1, <2>2 DEF RowRests
    <3>2. /\ jtis \subseteq 1..serial' /\ refresh \subseteq 1..serial'
          /\ mailbox' \subseteq 1..serial' /\ \A b \in access : b.jti \in 1..serial'
          /\ resets' \subseteq ResetRow
      BY <1>1, <2>1, <2>2, <2>3 DEF DataTypes
    <3> QED BY <1>1, <2>1, <3>1, <3>2 DEF DataTypes
  <2> QED BY <2>1, <2>4, RequestEnds DEF MakingToken
<1>6. ASSUME NEW t \in mailbox, NEW p \in Passwords, ConfirmPasswordReset(c, t, p)
      PROVE  Done(c)
  <2>1. PICK r \in resets :
          Begin(c, "reset", "savePassword",
                [Nothing EXCEPT !.user = user, !.password = p, !.reset = r])
    BY <1>6 DEF ConfirmPasswordReset
  <2> DEFINE m == [Nothing EXCEPT !.user = user, !.password = p, !.reset = r]
  <2>2. r \in ResetRow
    BY <1>1 DEF DataTypes
  <2>3. m \in Mem /\ m.user = user /\ m.token = 0 /\ m.password = p
    BY <1>1, <2>2 DEF Mem
  <2>4. Begin(c, "reset", "savePassword", m)
    BY <2>1
  <2> HIDE DEF m
  <2>5. DataTypes' /\ UNCHANGED <<scenario, now, serial, sessions, signedOut>> /\ RowRests
    BY <1>1, <1>6, DataRests DEF ConfirmPasswordReset, db, redis, outside, history, RowRests
  <2>6. /\ "savePassword" \in PC \ (HasToken \cup AboutSessions)
        /\ "savePassword" # "saveUser"
    BY DEF PC, HasToken, Issuing, Carrying, AboutSessions
  <2>7. Remembers(m.user)
    BY <2>3 DEF Remembers
  <2> QED BY <1>1, <2>3, <2>4, <2>5, <2>6, <2>7, RequestBegins
<1>7. ASSUME SavePassword(c) PROVE Done(c)
  <2> DEFINE p == mem[c].password
             u == Cleared(mem[c].user)
             v == [u EXCEPT !.password = p]
  <2>1. /\ Goes(c, "markUsed", mem[c]) /\ pc[c] = "savePassword" /\ wrong' = 0
        /\ user' = v /\ lastSet' = p
        /\ UNCHANGED <<scenario, now, started, serial, everVerified>>
        /\ UNCHANGED <<sessions, resets, jtis, cutoff, access, refresh, mailbox, challenge,
                       signedOut>>
    BY <1>1, <1>7, AccountStays DEF SavePassword, redis, outside
  <2>2. u \in UserRow
    BY <1>1, UserTypes
  <2>3. p \in Passwords
    BY <1>1, <2>1 DEF CallTypes, HasPassword
  <2>4. RowEffect(c, "markUsed", mem[c])
    BY <2>1 DEF RowEffect
  <2> HIDE DEF p, u
  <2>5. v \in UserRow
    BY <2>2, <2>3 DEF UserRow
  <2> HIDE DEF v
  <2>6. DataTypes'
    BY <1>1, <2>1, <2>3, <2>5 DEF DataTypes
  <2>7. /\ "markUsed" \in PC
        /\ "markUsed" \notin HasToken \cup HasPassword \cup MakingToken \cup AboutSessions
    BY DEF PC, HasToken, Issuing, Carrying, HasPassword, MakingToken, AboutSessions
  <2>8. Making(c, "markUsed")
    BY <1>1, <2>1, <2>7 DEF Making
  <2>9. AccountTypes'
    BY <1>1, <2>1, <2>6, <2>7, <2>8, AccountStep
  <2>10. SessionEffect(c, "markUsed", mem[c])
    BY <2>1, <2>7 DEF SessionEffect
  <2>11. AccountEffect(c, "markUsed", mem[c])
    BY <2>1, <2>4, <2>10 DEF AccountEffect
  <2> QED BY <2>9, <2>11 DEF Done
<1>8. ASSUME MarkUsed(c) PROVE Done(c)
  <2> DEFINE r == [mem[c].reset EXCEPT !.used = TRUE]
  <2>1. r \in ResetRow
    BY <1>1 DEF Mem, ResetRow
  <2>2. /\ Goes(c, "revokeAll", mem[c]) /\ pc[c] = "markUsed" /\ RowRests
        /\ SaveReset(r)
        /\ UNCHANGED <<scenario, now, started, serial, sessions, jtis, cutoff, access, refresh,
                       mailbox, challenge, signedOut>>
    BY <1>1, <1>8, AccountStays DEF MarkUsed, redis, outside, history, RowRests
  <2> HIDE DEF r
  <2>3. resets' \subseteq ResetRow
    BY <1>1, <2>1, <2>2 DEF DataTypes, SaveReset
  <2>4. /\ "revokeAll" \in PC
        /\ "revokeAll" \notin HasToken \cup AboutSessions \cup HasPassword \cup Saving
        /\ "revokeAll" \notin MakingToken
    BY DEF PC, HasToken, Issuing, Carrying, AboutSessions, HasPassword, Saving, MakingToken
  <2> QED BY <1>3, <2>2, <2>3, <2>4
<1>9. ASSUME RevokeAll(c) PROVE Done(c)
  <2> DEFINE S == {[s EXCEPT !.revoked = TRUE] : s \in sessions}
  <2>1. /\ Goes(c, "blacklistUser", mem[c]) /\ pc[c] = "revokeAll" /\ RowRests
        /\ sessions' = S
        /\ UNCHANGED <<scenario, now, started, serial, resets, jtis, cutoff, access, refresh,
                       mailbox, challenge, signedOut>>
    BY <1>1, <1>9, AccountStays DEF RevokeAll, redis, outside, history, RowRests
  <2>2. S \subseteq SessionRow
    <3>1. \A s \in SessionRow : [s EXCEPT !.revoked = TRUE] \in SessionRow
      BY DEF SessionRow
    <3> QED BY <1>1, <3>1 DEF DataTypes
  <2>3. IsFiniteSet(S)
    <3>1. IsFiniteSet(sessions)
      BY <1>1 DEF DataTypes
    <3> QED BY <3>1, RevokedAreFinite
  <2> HIDE DEF S
  <2>4. DataTypes'
    BY <1>1, <2>1, <2>2, <2>3 DEF DataTypes, RowRests
  <2>5. /\ "blacklistUser" \in PC /\ "blacklistUser" # "saveUser"
        /\ "blacklistUser" \notin HasToken \cup HasPassword \cup MakingToken \cup Saving
    BY DEF PC, HasToken, Issuing, Carrying, HasPassword, MakingToken, Saving
  <2>6. Making(c, "blacklistUser") /\ RowEffect(c, "blacklistUser", mem[c])
    BY <1>1, <2>1, <2>5 DEF Making, RowEffect, RowRead
  <2>7. AccountTypes'
    BY <1>1, <2>1, <2>4, <2>5, <2>6, AccountStep
  <2>8. SessionEffect(c, "blacklistUser", mem[c])
    BY <2>1 DEF SessionEffect, S
  <2>9. AccountEffect(c, "blacklistUser", mem[c])
    BY <2>1, <2>6, <2>8 DEF AccountEffect
  <2> QED BY <2>7, <2>9 DEF Done
<1>10. ASSUME BlacklistUser(c) PROVE Done(c)
  <2>1. /\ Goes(c, "idle", Nothing) /\ pc[c] = "blacklistUser" /\ RowRests
        /\ cutoff' \in {cutoff, now + Month} /\ signedOut' \in {signedOut, TRUE}
        /\ UNCHANGED <<scenario, now, started, serial, sessions, resets, jtis, access,
                       refresh, mailbox, challenge>>
    BY <1>10, AccountReturns DEF BlacklistUser, db, outside, RowRests
  <2>2. now + Month \in (Month + 1)..(Month + MaxTime)
    BY <1>1, AccountNow, AuthAssumption
  <2>3. DataTypes'
    BY <1>1, <2>1, <2>2 DEF DataTypes, RowRests
  <2>4. Making(c, "idle") /\ RowEffect(c, "idle", Nothing)
    BY <1>1, <2>1, EndPlaces DEF Making, RowEffect, RowRead
  <2>5. AccountTypes'
    BY <1>1, <2>1, <2>3, <2>4, EndPlaces, AccountStep
  <2>6. SessionEffect(c, "idle", Nothing)
    BY <2>1 DEF SessionEffect
  <2>7. AccountEffect(c, "idle", Nothing)
    BY <2>1, <2>4, <2>6 DEF AccountEffect
  <2> QED BY <2>5, <2>7 DEF Done
<1> QED
  BY <1>2, <1>4, <1>5, <1>6, <1>7, <1>8, <1>9, <1>10 DEF ResetStep

\* ... and the call that breaks off.
LEMMA BreakDone ==
    ASSUME AccountTypes, NEW c \in Calls, Break(c)
    PROVE  Done(c)
<1>1. DataTypes
  BY AccountNow
<1>2. /\ Goes(c, "idle", Nothing) /\ pc[c] # "idle" /\ DataTypes' /\ RowRests
      /\ UNCHANGED <<scenario, now, started, serial, sessions, signedOut>>
  BY <1>1, AccountReturns, DataRests DEF Break, db, redis, outside, history, RowRests
<1> QED BY <1>2, RequestEnds

\* A step is one of one call, or leaves everything but the clock.
ClockOnly ==
    UNCHANGED <<scenario, started, db, redis, serial, outside, pc, mem, history>>
LEMMA AccountStepIs ==
    ASSUME AccountTypes, [Next]_vars
    PROVE  (\E c \in Calls : Done(c)) \/ (AccountTypes' /\ ClockOnly)
<1>1. ASSUME NEW c \in Calls,
             Account(c) \/ LoginStep(c) \/ TokenStep(c) \/ ResetStep(c) \/ Break(c)
      PROVE  Done(c)
  BY <1>1, AccountDone, LoginDone, TokenDone, ResetDone, BreakDone
<1>2. ASSUME Tick \/ UNCHANGED vars PROVE AccountTypes' /\ ClockOnly
  <2>1. ClockOnly
    BY <1>2 DEF Tick, vars, ClockOnly
  <2>2. now' \in 1..MaxTime
    BY <1>2, AuthAssumption DEF Tick, vars, AccountTypes
  <2>3. DataTypes' /\ CallTypes' /\ CallsAt(MakingToken)' = CallsAt(MakingToken)
    <3>1. DataTypes /\ serial' = serial
      BY <2>1 DEF AccountTypes, ClockOnly
    <3>2. DataTypes'
      BY <2>1, <3>1, DataRests DEF ClockOnly, db, redis, outside, history
    <3> QED BY <2>1, <3>2 DEF ClockOnly, AccountTypes, CallTypes, CallsAt
  <2> QED BY <2>1, <2>2, <2>3 DEF AccountTypes, ClockOnly
<1> QED BY <1>1, <1>2 DEF Next

-----------------------------------------------------------------------------
\* The calls come one by one up to the width.
LEMMA ServedIs ==
    ASSUME AccountTypes
    PROVE  /\ Served = {d \in Calls : pc[d] # "idle"}
           /\ Cardinality(Served) \in Nat /\ IsFiniteSet(Served)
<1>1. pc \in [Calls -> PC]
  BY DEF AccountTypes, CallTypes
<1>2. Served = {d \in Calls : pc[d] # "idle"}
  BY <1>1 DEF Served, CallsAt
<1>3. Served \subseteq Calls
  BY <1>2
<1> QED BY <1>2, <1>3, CallsCount

\* One request at a time: the other calls are idle.
LEMMA OthersIdle ==
    ASSUME AccountTypes, ServedOK, scenario.width = 1, NEW c \in Calls, NEW l, NEW m,
           AccountEffect(c, l, m)
    PROVE  \A d \in Calls \ {c} : pc[d] = "idle" /\ pc'[d] = "idle"
<1>1. CallTypes /\ Served = {d \in Calls : pc[d] # "idle"} /\ IsFiniteSet(Served)
      /\ Cardinality(Served) \in Nat
  BY ServedIs DEF AccountTypes
<1>2. \A d \in Calls \ {c} : pc[d] = "idle"
  <2>1. CASE pc[c] # "idle"
    BY <1>1, <2>1 DEF ServedOK
  <2>2. CASE pc[c] = "idle"
    <3>1. Cardinality(Served) = 0
      BY <1>1, <2>2 DEF AccountEffect
    <3>2. Served = {}
      BY <1>1, <3>1, FS_EmptySet
    <3> QED BY <1>1, <3>2
  <2> QED BY <2>1, <2>2
<1>3. \A d \in Calls \ {c} : pc'[d] = pc[d]
  BY <1>1, Gone DEF AccountEffect
<1> QED BY <1>2, <1>3

LEMMA ServedNext ==
    ASSUME AccountTypes, ServedOK, AccountTypes', NEW c \in Calls, NEW l, NEW m,
           AccountEffect(c, l, m)
    PROVE  ServedOK'
<1>1. /\ CallTypes /\ Goes(c, l, m) /\ scenario' = scenario /\ scenario.width \in Nat
      /\ pc'[c] = l /\ pc' \in [Calls -> PC]
  <2>1. CallTypes /\ Goes(c, l, m) /\ scenario' = scenario /\ scenario.width \in Nat
    BY AccountNow DEF AccountEffect
  <2>2. pc' \in [Calls -> PC]
    BY DEF AccountTypes, CallTypes
  <2> QED BY <2>1, <2>2, Gone
<1>2. /\ Cardinality(Served) \in Nat /\ Cardinality(Served)' \in Nat
      /\ Cardinality(Served) <= scenario.width
      /\ (pc[c] = "idle" => Cardinality(Served) < scenario.width)
  BY <1>1, ServedIs, CallsMove DEF AccountEffect, Served, ServedOK
<1>3. /\ pc[c] \in PC /\ l \in PC
      /\ pc[c] # "idle" => Cardinality(Served)' <= Cardinality(Served)
      /\ Cardinality(Served)' <= Cardinality(Served) + 1
  <2> DEFINE L == PC \ {"idle"}
  <2>1. pc[c] \in PC /\ l \in PC /\ (pc[c] \in L <=> pc[c] # "idle") /\ (l \in L <=> l # "idle")
    BY <1>1 DEF CallTypes
  <2>2. /\ pc[c] \in L /\ l \notin L => Cardinality(CallsAt(L)') = Cardinality(CallsAt(L)) - 1
        /\ pc[c] \notin L /\ l \in L => Cardinality(CallsAt(L)') = Cardinality(CallsAt(L)) + 1
        /\ (pc[c] \in L <=> l \in L) => Cardinality(CallsAt(L)') = Cardinality(CallsAt(L))
        /\ Cardinality(CallsAt(L)) \in Nat /\ Cardinality(CallsAt(L)') \in Nat
    BY <1>1, CallsMove
  <2> DEFINE n == Cardinality(CallsAt(L))
             n2 == Cardinality(CallsAt(L)')
  <2>3. n = Cardinality(Served) /\ n2 = Cardinality(Served)'
    BY DEF Served
  <2>4. /\ n \in Nat /\ n2 \in Nat
        /\ pc[c] \in L /\ l \notin L => n2 = n - 1
        /\ pc[c] \notin L /\ l \in L => n2 = n + 1
        /\ (pc[c] \in L <=> l \in L) => n2 = n
    BY <2>2
  <2> HIDE DEF n, n2, L
  <2>5. n2 <= n + 1 /\ (pc[c] \in L => n2 <= n)
    BY <2>4
  <2> QED BY <2>1, <2>3, <2>5
<1>4. Cardinality(Served)' <= scenario'.width
  <2> DEFINE n == Cardinality(Served)
             n2 == Cardinality(Served)'
             w == scenario.width
  <2>1. /\ n \in Nat /\ n2 \in Nat /\ w \in Nat /\ n <= w /\ n2 <= n + 1
        /\ pc[c] = "idle" => n < w
        /\ pc[c] # "idle" => n2 <= n
    BY <1>1, <1>2, <1>3
  <2> HIDE DEF n, n2, w
  <2>2. n2 <= w
    BY <2>1
  <2> QED BY <1>1, <2>2 DEF n2, w
<1>5. ASSUME scenario'.width = 1, NEW d \in Calls, NEW e \in Calls,
             d \in Served', e \in Served'
      PROVE  d = e
  <2>1. scenario.width = 1
    BY <1>1, <1>5
  <2>2. \A f \in Calls \ {c} : pc'[f] = "idle"
    BY <2>1, OthersIdle
  <2>3. pc'[d] # "idle" /\ pc'[e] # "idle"
    BY <1>5 DEF Served, CallsAt
  <2> QED BY <2>2, <2>3
<1>6. Served' \subseteq Calls
  BY DEF Served, CallsAt
<1> QED BY <1>4, <1>5, <1>6 DEF ServedOK

\* What a step does to the live sessions.
LEMMA LiveNext ==
    ASSUME AccountTypes, NEW c \in Calls, NEW l, NEW m, AccountEffect(c, l, m)
    PROVE  \/ Live' \subseteq Live /\ l # "insertSession"
           \/ Live' = {}
           \/ /\ pc[c] = "insertSession" /\ l # "insertSession"
              /\ \E s \in SessionRow : Live' \subseteq Live \cup {s}
<1>1. \A d \in Calls : mem[d].found \subseteq SessionRow
  BY AccountNow DEF Mem
<1>2. /\ sessions \subseteq SessionRow /\ SessionEffect(c, l, m)
      /\ \A s \in SessionRow : [s EXCEPT !.revoked = TRUE].revoked = TRUE
  BY AccountNow DEF DataTypes, AccountEffect, SessionRow
<1>3. CASE sessions' = sessions /\ l # "insertSession"
  BY <1>3 DEF Live
<1>4. CASE sessions' = {}
  BY <1>4 DEF Live
<1>5. CASE pc[c] = "insertSession" /\ l \notin AboutSessions
           /\ \E s \in SessionRow : sessions' = sessions \cup {s}
  BY <1>5 DEF Live, AboutSessions
<1>6. CASE l = "revokeSessions" /\ \E s \in mem[c].found :
             sessions' = {r \in sessions : r.refresh # s.refresh}
                           \cup {[s EXCEPT !.revoked = TRUE]}
  BY <1>1, <1>2, <1>6 DEF Live
<1>7. CASE sessions' = {[s EXCEPT !.revoked = TRUE] : s \in sessions}
  BY <1>2, <1>7 DEF Live
<1> QED BY <1>2, <1>3, <1>4, <1>5, <1>6, <1>7 DEF SessionEffect, AboutSessions

LEMMA SessionsNext ==
    ASSUME AccountTypes, ServedOK, SessionsOK, AccountTypes', ServedOK',
           NEW c \in Calls, NEW l, NEW m, AccountEffect(c, l, m)
    PROVE  SessionsOK'
<1> DEFINE L == {"insertSession"}
           n == Cardinality(CallsAt(L))
           n2 == Cardinality(CallsAt(L)')
           k == Cardinality(Live)
           k2 == Cardinality(Live')
           w == scenario.width
<1>1. CallTypes /\ Goes(c, l, m) /\ scenario' = scenario /\ w \in Nat
  BY AccountNow DEF AccountEffect
<1>2. /\ n \in Nat /\ n2 \in Nat
      /\ pc[c] \in L /\ l \notin L => n2 = n - 1
      /\ pc[c] \notin L /\ l \in L => n2 = n + 1
      /\ (pc[c] \in L <=> l \in L) => n2 = n
  BY <1>1, CallsMove
<1>3. /\ IsFiniteSet(Live) /\ k \in Nat /\ IsFiniteSet(Live') /\ k2 \in Nat
  <2>1. IsFiniteSet(sessions) /\ IsFiniteSet(sessions')
    BY DEF AccountTypes, DataTypes
  <2>2. Live \subseteq sessions /\ Live' \subseteq sessions'
    BY DEF Live
  <2>3. IsFiniteSet(Live) /\ IsFiniteSet(Live')
    BY <2>1, <2>2, FS_Subset
  <2> QED BY <2>3, FS_CardinalityType
<1>4. k + n <= w
  BY DEF SessionsOK
<1>5. k2 + n2 <= w
  <2>1. CASE Live' \subseteq Live /\ l # "insertSession"
    <3>1. k2 <= k
      BY <1>3, <2>1, FS_Subset
    <3>2. l \notin L
      BY <2>1
    <3> HIDE DEF n, n2, k, k2, w, L
    <3>3. n2 <= n
      BY <1>2, <3>2
    <3> QED BY <1>1, <1>2, <1>3, <1>4, <3>1, <3>3
  <2>2. CASE Live' = {}
    <3>1. k2 = 0
      BY <2>2, FS_EmptySet
    <3>2. CallsAt(L)' \subseteq Served' /\ Served' \subseteq Calls
      BY DEF CallsAt, Served, PC
    <3>3. n2 <= Cardinality(Served')
      BY <3>2, CallsCount, FS_Subset
    <3>4. Cardinality(Served') <= w /\ Cardinality(Served') \in Nat
      BY <1>1, <3>2, CallsCount DEF ServedOK
    <3> HIDE DEF n, n2, k, k2, w, L
    <3> QED BY <1>1, <1>2, <1>3, <3>1, <3>3, <3>4
  <2>3. CASE /\ pc[c] = "insertSession" /\ l # "insertSession"
             /\ \E s \in SessionRow : Live' \subseteq Live \cup {s}
    <3>1. PICK s \in SessionRow : Live' \subseteq Live \cup {s}
      BY <2>3
    <3>2. /\ IsFiniteSet(Live \cup {s}) /\ Cardinality(Live \cup {s}) \in Nat
          /\ Cardinality(Live \cup {s}) <= k + 1
      <4>1. /\ IsFiniteSet(Live \cup {s})
            /\ Cardinality(Live \cup {s}) =
                 IF s \in Live THEN Cardinality(Live) ELSE Cardinality(Live) + 1
        BY <1>3, FS_AddElement
      <4> QED BY <1>3, <4>1
    <3>3. k2 <= Cardinality(Live \cup {s})
      BY <3>1, <3>2, FS_Subset
    <3>4. n2 = n - 1
      BY <1>2, <2>3
    <3> HIDE DEF n, n2, k, k2, w, L
    <3>5. k2 <= k + 1
      BY <1>3, <3>2, <3>3
    <3> QED BY <1>1, <1>2, <1>3, <1>4, <3>4, <3>5
  <2> QED BY <2>1, <2>2, <2>3, LiveNext
<1> QED BY <1>1, <1>5 DEF SessionsOK

LEMMA SignOutNext ==
    ASSUME AccountTypes, ServedOK, SignOutOK, NEW c \in Calls, NEW l, NEW m,
           AccountEffect(c, l, m)
    PROVE  SignOutOK'
<1> SUFFICES ASSUME scenario'.width = 1
             PROVE  /\ signedOut' => Live' = {}
                    /\ \A d \in Calls :
                         /\ pc'[d] = "revokeSessions" => Live' \subseteq mem'[d].found
                         /\ pc'[d] = "blacklistUser" => Live' = {}
  BY DEF SignOutOK
<1>1. /\ scenario.width = 1 /\ CallTypes /\ Goes(c, l, m) /\ SessionEffect(c, l, m)
      /\ sessions \subseteq SessionRow
  BY AccountNow DEF AccountEffect, DataTypes
<1>2. /\ pc'[c] = l /\ mem'[c] = m
      /\ \A d \in Calls \ {c} : pc'[d] = "idle"
  BY <1>1, Gone, OthersIdle
<1>3. /\ signedOut => Live = {}
      /\ pc[c] = "revokeSessions" => Live \subseteq mem[c].found
      /\ pc[c] = "blacklistUser" => Live = {}
  BY <1>1 DEF SignOutOK
<1>4. /\ \A s \in SessionRow : [s EXCEPT !.revoked = TRUE].revoked = TRUE
      /\ mem[c].found \subseteq SessionRow
  BY AccountNow DEF Mem, SessionRow
<1>5. /\ signedOut' => Live' = {}
      /\ l = "revokeSessions" => Live' \subseteq m.found
      /\ l = "blacklistUser" => Live' = {}
  <2>1. CASE sessions' = sessions /\ signedOut' = signedOut /\ l \notin AboutSessions
    BY <1>3, <2>1 DEF Live, AboutSessions
  <2>2. CASE sessions' = {} /\ signedOut' = signedOut /\ l = "insertSession"
    BY <2>2 DEF Live
  <2>3. CASE l \notin AboutSessions /\ signedOut' = FALSE
    BY <2>3 DEF AboutSessions
  <2>4. CASE /\ sessions' = sessions /\ signedOut' = signedOut
             /\ l = "revokeSessions" /\ m.found = Live
    BY <1>3, <2>4 DEF Live
  <2>5. CASE /\ pc[c] = "revokeSessions" /\ l = "revokeSessions" /\ signedOut' = signedOut
             /\ \E s \in mem[c].found :
                  /\ m.found = mem[c].found \ {s}
                  /\ sessions' = {r \in sessions : r.refresh # s.refresh}
                                   \cup {[s EXCEPT !.revoked = TRUE]}
    <3>1. PICK s \in mem[c].found :
            /\ m.found = mem[c].found \ {s}
            /\ sessions' = {r \in sessions : r.refresh # s.refresh}
                             \cup {[s EXCEPT !.revoked = TRUE]}
      BY <2>5
    <3>2. [s EXCEPT !.revoked = TRUE].revoked = TRUE
      BY <1>4
    <3>3. Live' \subseteq Live \ {s}
      BY <3>1, <3>2 DEF Live
    <3>4. Live \subseteq mem[c].found
      BY <1>3, <2>5
    <3> QED BY <1>3, <2>5, <3>1, <3>3, <3>4
  <2>6. CASE /\ pc[c] = "revokeSessions" /\ mem[c].found = {} /\ l = "idle"
             /\ sessions' = sessions
    BY <1>3, <2>6 DEF Live
  <2>7. CASE /\ sessions' = {[s EXCEPT !.revoked = TRUE] : s \in sessions}
             /\ signedOut' = signedOut /\ l = "blacklistUser"
    BY <1>1, <1>4, <2>7 DEF Live
  <2>8. CASE pc[c] = "blacklistUser" /\ l = "idle" /\ sessions' = sessions
    BY <1>3, <2>8 DEF Live
  <2> QED BY <1>1, <2>1, <2>2, <2>3, <2>4, <2>5, <2>6, <2>7, <2>8 DEF SessionEffect
<1> QED BY <1>2, <1>5

\* One request at a time, with a row remembered as it is: the new row says what
\* happened.
LEMMA RowNext ==
    ASSUME AccountTypes, ServedOK, RowOK, NEW c \in Calls, NEW l, NEW m,
           AccountEffect(c, l, m)
    PROVE  RowOK'
<1> SUFFICES ASSUME scenario'.width = 1
             PROVE  /\ PasswordIsLastSet'
                    /\ everVerified' => user'.verified
                    /\ user'.failed = wrong'
                    /\ user'.lockedUntil > 0 <=> wrong' >= MaxAttempts
                    /\ \A d \in Calls : /\ pc'[d] \in Saving => Remembers(mem[d].user)'
                                        /\ pc'[d] = "saveUser" => mem'[d].user.verified
  BY DEF RowOK
<1>1. /\ scenario.width = 1 /\ CallTypes /\ Goes(c, l, m) /\ RowEffect(c, l, m)
      /\ user \in UserRow /\ mem[c].user \in UserRow /\ wrong \in Nat
      /\ now \in Nat
  BY AccountNow DEF AccountEffect, DataTypes
<1>2. /\ pc'[c] = l /\ mem'[c] = m
      /\ \A d \in Calls \ {c} : pc'[d] = "idle"
  BY <1>1, Gone, OthersIdle
<1>3. /\ user.password = lastSet /\ user.failed = wrong
      /\ everVerified => user.verified
      /\ user.lockedUntil > 0 <=> wrong >= MaxAttempts
      /\ pc[c] \in Saving => Remembers(mem[c].user)
      /\ pc[c] = "saveUser" => mem[c].user.verified
  BY <1>1 DEF RowOK, PasswordIsLastSet
<1>4. /\ user.failed \in Nat /\ user.lockedUntil \in Nat
      /\ mem[c].user.failed \in Nat /\ mem[c].user.lockedUntil \in Nat
      /\ MaxAttempts \in Nat /\ MaxAttempts > 0 /\ LockLife \in Nat /\ LockLife > 0
  BY <1>1, AuthAssumption DEF UserRow
<1> DEFINE Row ==
             /\ user'.password = lastSet' /\ user'.failed = wrong'
             /\ everVerified' => user'.verified
             /\ user'.lockedUntil > 0 <=> wrong' >= MaxAttempts
           Saves ==
             /\ l \in Saving => Remembers(m.user)'
             /\ l = "saveUser" => m.user.verified
<1>5. Row /\ Saves
  <2>1. CASE RowRests /\ RowRead(c, l, m)
    <3>1. Row
      BY <1>3, <2>1 DEF RowRests
    <3>2. Saves
      BY <1>3, <2>1 DEF RowRests, RowRead, Remembers
    <3> QED BY <3>1, <3>2
  <2>2. CASE /\ l = "idle" /\ user = NoUser
             /\ user'.password = lastSet' /\ user'.failed = 0 /\ user'.lockedUntil = 0
             /\ everVerified' = everVerified /\ wrong' = wrong
    <3>1. user.verified = FALSE /\ user.failed = 0 /\ user.lockedUntil = 0
      BY <2>2 DEF NoUser
    <3>2. wrong = 0 /\ ~(wrong >= MaxAttempts) /\ ~everVerified
      BY <1>3, <1>4, <3>1
    <3>3. ~everVerified'
      BY <2>2, <3>2
    <3>4. user'.failed = wrong' /\ (user'.lockedUntil > 0 <=> wrong' >= MaxAttempts)
      BY <1>4, <2>2, <3>2
    <3>5. Saves
      BY <2>2, EndPlaces
    <3> QED BY <2>2, <3>3, <3>4, <3>5
  <2>3. CASE /\ l = "idle" /\ pc[c] \in Saving /\ user' = mem[c].user
             /\ lastSet' = lastSet /\ wrong' = wrong
             /\ (everVerified' = everVerified \/ pc[c] = "saveUser")
    <3>1. Remembers(mem[c].user)
      BY <1>3, <2>3
    <3>2. user'.password = lastSet' /\ user'.failed = wrong'
      BY <1>3, <2>3, <3>1 DEF Remembers
    <3>3. everVerified' => user'.verified
      BY <1>3, <2>3, <3>1 DEF Remembers
    <3>4. user'.lockedUntil > 0 <=> wrong' >= MaxAttempts
      BY <1>3, <2>3, <3>1 DEF Remembers
    <3>5. Saves
      BY <2>3, EndPlaces
    <3> QED BY <3>2, <3>3, <3>4, <3>5
  <2>4. CASE /\ l = "idle" /\ pc[c] \in Saving /\ user' = Failed(mem[c].user)
             /\ lastSet' = lastSet /\ wrong' = wrong + 1 /\ everVerified' = everVerified
    <3>1. Remembers(mem[c].user)
      BY <1>3, <2>4
    <3> DEFINE u == mem[c].user
               v == Failed(u)
    <3>2. /\ v.failed = u.failed + 1 /\ v.password = u.password /\ v.verified = u.verified
          /\ v.lockedUntil =
               IF u.failed + 1 >= MaxAttempts THEN now + LockLife ELSE u.lockedUntil
      BY <1>1, FailedType
    <3>3. u.failed = wrong /\ u.lockedUntil = user.lockedUntil /\ u.password = lastSet
      BY <1>3, <3>1 DEF Remembers
    <3> HIDE DEF v
    <3>4. user' = v /\ user'.password = lastSet' /\ user'.failed = wrong'
      BY <2>4, <3>2, <3>3 DEF v
    <3>5. everVerified' => user'.verified
      BY <1>3, <2>4, <3>1, <3>2, <3>4 DEF Remembers
    <3>6. user'.lockedUntil > 0 <=> wrong' >= MaxAttempts
      <4>1. CASE wrong + 1 >= MaxAttempts
        <5>1. user'.lockedUntil = now + LockLife
          BY <3>2, <3>3, <3>4, <4>1
        <5> QED BY <1>1, <1>4, <2>4, <4>1, <5>1
      <4>2. CASE ~(wrong + 1 >= MaxAttempts)
        <5>1. user'.lockedUntil = user.lockedUntil /\ ~(wrong >= MaxAttempts)
          BY <1>1, <1>4, <3>2, <3>3, <3>4, <4>2
        <5> QED BY <1>3, <2>4, <4>2, <5>1
      <4> QED BY <4>1, <4>2
    <3>7. Saves
      BY <2>4, EndPlaces
    <3> QED BY <3>4, <3>5, <3>6, <3>7
  <2>5. CASE /\ pc[c] \in Saving /\ wrong' = 0 /\ lastSet' = lastSet
             /\ everVerified' = everVerified
             /\ \/ user' = Cleared(mem[c].user)
                \/ user' = user /\ ~NeedsReset(mem[c].user)
             /\ (l = "idle" \/ (l = "saveLogin" /\ m.user = user'))
    <3>1. Remembers(mem[c].user)
      BY <1>3, <2>5
    <3>2. /\ user'.failed = 0 /\ user'.lockedUntil = 0 /\ user'.password = lastSet'
          /\ everVerified' => user'.verified
      <4>1. CASE user' = Cleared(mem[c].user)
        <5> DEFINE u == mem[c].user
                   v == Cleared(u)
        <5>1. /\ v.failed = 0 /\ v.lockedUntil = 0 /\ v.password = u.password
              /\ v.verified = u.verified
          BY <1>1, UserTypes
        <5> HIDE DEF v
        <5>2. user' = v
          BY <4>1 DEF v
        <5> QED BY <1>3, <2>5, <3>1, <5>1, <5>2 DEF Remembers
      <4>2. CASE user' = user /\ ~NeedsReset(mem[c].user)
        <5>1. user.failed = 0 /\ user.lockedUntil = 0
          BY <1>4, <3>1, <4>2 DEF NeedsReset, Remembers
        <5> QED BY <1>3, <2>5, <4>2, <5>1
      <4> QED BY <2>5, <4>1, <4>2
    <3>3. user'.failed = wrong' /\ (user'.lockedUntil > 0 <=> wrong' >= MaxAttempts)
      BY <1>4, <2>5, <3>2
    <3>4. Saves
      BY <2>5, EndPlaces DEF Remembers
    <3> QED BY <3>2, <3>3, <3>4
  <2>6. CASE /\ pc[c] = "savePassword" /\ l = "markUsed" /\ wrong' = 0
             /\ everVerified' = everVerified /\ lastSet' = mem[c].password
             /\ user' = [Cleared(mem[c].user) EXCEPT !.password = mem[c].password]
    <3>1. Remembers(mem[c].user)
      BY <1>3, <2>6 DEF Saving
    <3> DEFINE u == Cleared(mem[c].user)
               p == mem[c].password
               v == [u EXCEPT !.password = p]
    <3>2. /\ u \in UserRow /\ u.failed = 0 /\ u.lockedUntil = 0
          /\ u.verified = mem[c].user.verified
      BY <1>1, UserTypes
    <3> HIDE DEF u
    <3>3. /\ v.failed = 0 /\ v.lockedUntil = 0 /\ v.password = p /\ v.verified = u.verified
      BY <3>2 DEF UserRow
    <3> HIDE DEF v
    <3>4. user' = v /\ lastSet' = p
      BY <2>6 DEF v, u
    <3>5. everVerified' => user'.verified
      BY <1>3, <2>6, <3>1, <3>2, <3>3, <3>4 DEF Remembers
    <3>6. user'.failed = wrong' /\ (user'.lockedUntil > 0 <=> wrong' >= MaxAttempts)
      <4>1. user'.failed = 0 /\ user'.lockedUntil = 0 /\ wrong' = 0
        BY <2>6, <3>3, <3>4
      <4> QED BY <1>4, <4>1
    <3>7. Saves
      BY <2>6 DEF Saving
    <3> QED BY <3>3, <3>4, <3>5, <3>6, <3>7
  <2> QED BY <1>1, <2>1, <2>2, <2>3, <2>4, <2>5, <2>6 DEF RowEffect
<1>6. "idle" \notin Saving /\ "idle" # "saveUser"
  BY EndPlaces
<1>7. ASSUME NEW d \in Calls
      PROVE  /\ pc'[d] \in Saving => Remembers(mem[d].user)'
             /\ pc'[d] = "saveUser" => mem'[d].user.verified
  <2>1. CASE d = c
    BY <1>2, <1>5, <2>1 DEF Remembers
  <2>2. CASE d # c
    BY <1>2, <1>6, <2>2
  <2> QED BY <2>1, <2>2
<1> QED BY <1>5, <1>7 DEF PasswordIsLastSet

-----------------------------------------------------------------------------
LEMMA AccountInit ==
    ASSUME Init
    PROVE  AccountIInv
<1>1. /\ scenario \in Scenarios /\ scenario.calls \in Nat /\ scenario.width \in Nat
      /\ scenario.password \in Passwords
  BY ScenarioAssumption DEF Init
<1>2. /\ Nothing \in Mem /\ Nothing.token = 0 /\ NoUser \in UserRow
      /\ Cardinality({}) = 0 /\ IsFiniteSet({})
  BY NothingMem, NoUserType, FS_EmptySet
<1>3. /\ user \in UserRow /\ user.failed = 0 /\ user.lockedUntil = 0
  <2>1. CASE user = NoUser
    BY <1>2, <2>1 DEF NoUser
  <2>2. CASE user = [NoUser EXCEPT !.password = scenario.password, !.verified = TRUE]
    BY <1>1, <2>2 DEF NoUser, UserRow
  <2> QED BY <2>1, <2>2 DEF Init
<1>4. /\ \A c \in Calls : pc[c] = "idle" /\ mem[c] = Nothing
      /\ "idle" \in PC /\ pc \in [Calls -> PC] /\ mem \in [Calls -> Mem]
  BY <1>2, EndPlaces DEF Init
<1>5. \A L : "idle" \notin L => CallsAt(L) = {}
  BY <1>4 DEF CallsAt
<1>6. CallTypes
  BY <1>2, <1>4, EndPlaces DEF CallTypes, Init
<1>7. DataTypes
  <2>1. /\ sessions = {} /\ resets = {} /\ jtis = {} /\ cutoff = 0 /\ serial = 0 /\ access = {}
        /\ refresh = {} /\ mailbox = {} /\ challenge = FALSE /\ wrong = 0 /\ signedOut = FALSE
        /\ lastSet = user.password /\ everVerified = user.verified
    BY DEF Init
  <2>2. lastSet \in Passwords \cup {"none"} /\ everVerified \in BOOLEAN
    BY <1>3, <2>1 DEF UserRow
  <2> QED BY <1>2, <1>3, <2>1, <2>2 DEF DataTypes
<1>8. AccountTypes
  <2>1. now \in 1..MaxTime /\ started \in 0..scenario.calls
    BY <1>1, AuthAssumption DEF Init
  <2>2. CallsAt(MakingToken) = {} /\ serial = 0 /\ started = 0
    BY <1>5, EndPlaces DEF Init
  <2>3. serial + Cardinality(CallsAt(MakingToken)) <= started
    BY <1>2, <2>2
  <2> QED BY <1>1, <1>6, <1>7, <2>1, <2>3 DEF AccountTypes
<1>9. Served = {} /\ CallsAt({"insertSession"}) = {} /\ Live = {}
  BY <1>5 DEF Served, Live, Init
<1>10. ServedOK /\ SessionsOK
  BY <1>1, <1>2, <1>9 DEF ServedOK, SessionsOK
<1>11. SignOutOK
  BY <1>4, <1>9 DEF SignOutOK
<1>12. RowOK
  <2>1. /\ user.password = lastSet /\ (everVerified => user.verified) /\ wrong = 0
    BY DEF Init
  <2>2. ~(wrong >= MaxAttempts)
    BY <2>1, AuthAssumption
  <2>3. \A c \in Calls : pc[c] \notin Saving /\ pc[c] # "saveUser"
    BY <1>4, EndPlaces
  <2> QED BY <1>3, <2>1, <2>2, <2>3 DEF RowOK, PasswordIsLastSet
<1> QED BY <1>8, <1>10, <1>11, <1>12 DEF AccountIInv

LEMMA AccountNext ==
    ASSUME AccountIInv, [Next]_vars
    PROVE  AccountIInv'
<1>1. AccountTypes /\ ServedOK /\ SessionsOK /\ SignOutOK /\ RowOK
  BY DEF AccountIInv
<1>2. CASE \E c \in Calls : Done(c)
  <2>1. PICK c \in Calls : Done(c)
    BY <1>2
  <2>2. AccountTypes'
    BY <2>1 DEF Done
  <2>3. PICK l, m : AccountEffect(c, l, m)
    BY <2>1 DEF Done
  <2>4. ServedOK'
    BY <1>1, <2>2, <2>3, ServedNext
  <2>5. SessionsOK'
    BY <1>1, <2>2, <2>3, <2>4, SessionsNext
  <2>6. SignOutOK'
    BY <1>1, <2>3, SignOutNext
  <2>7. RowOK'
    BY <1>1, <2>3, RowNext
  <2> QED BY <2>2, <2>4, <2>5, <2>6, <2>7 DEF AccountIInv
<1>3. CASE AccountTypes' /\ ClockOnly
  <2>1. /\ UNCHANGED <<scenario, user, sessions, lastSet, everVerified, wrong, signedOut>>
        /\ UNCHANGED <<pc, mem>>
    BY <1>3 DEF ClockOnly, db, history
  <2>2. ServedOK' /\ SessionsOK'
    BY <1>1, <2>1 DEF ServedOK, SessionsOK, Served, CallsAt, Live
  <2>3. SignOutOK'
    BY <1>1, <2>1 DEF SignOutOK, Live
  <2>4. RowOK'
    BY <1>1, <2>1 DEF RowOK, PasswordIsLastSet, Remembers
  <2> QED BY <1>3, <2>2, <2>3, <2>4 DEF AccountIInv
<1> QED BY <1>1, <1>2, <1>3, AccountStepIs

-----------------------------------------------------------------------------
(* The second factor.                                                      *)

\* What a call of the second factor remembers.
FactorCode == [batch : Nat, n : Codes \cup {0}]
FactorMem == [token : Nat, code : FactorCode]

\* The calls in some of the places of the second factor.
FactorsAt(L) == {c \in Calls : pc2FA[c] \in L}

\* A call makes one number at most, and is in one of these places until then.
Numbering == {"storeSetup", "saveSetup", "storeChallenge"}

\* From here on a call has a token, and until a code was refused it may pass.
Tokened == {"storeLookup", "matchChallenge", "checkLock", "checkCode", "findCodes", "useCode",
            "clearAttempts", "clearChallenge", "clearLookup"}
Passing == Tokened \ {"storeLookup", "matchChallenge"}

FactorTypes ==
    /\ Second!TypeOK
    /\ menu2FA \in FactorScenarios
    /\ broken \in BOOLEAN
    /\ mem2FA \in [Calls -> FactorMem]
    /\ grants \in [1..(menu2FA.calls + 1) -> Nat]
    /\ uses \in [(1..(menu2FA.calls + 1)) \X Codes -> Nat]
    /\ serial2FA + Cardinality(FactorsAt(Numbering)) <= started2FA + 1
    /\ \A c \in Calls : pc2FA[c] \in Tokened => mem2FA[c].token > 0
    /\ \A c \in Calls : pc2FA[c] = "useCode" => mem2FA[c].code.n \in Codes

\* The calls that are being served are not more than come at a time.
Serving == FactorsAt(Second!PC \ {"idle"})
ServingOK == Cardinality(Serving) <= menu2FA.width

\* A call that is past the lock may still add to the count.
PastLock == {"checkCode", "findCodes", "fail"}
GuessesOK == attempts + Cardinality(FactorsAt(PastLock)) <= MaxFailed + menu2FA.width - 1

\* The calls that may still pass challenge t.  Once one has, it is not the newest
\* challenge any more, and no other comes.
PassingOf(t) == {c \in Calls : pc2FA[c] \in Passing /\ mem2FA[c].token = t}
GrantsOK ==
    /\ \A t \in DOMAIN grants :
         /\ grants[t] + Cardinality(PassingOf(t)) <= menu2FA.width
         /\ grants[t] > 0 => challenge2FA # t /\ t <= serial2FA
    /\ \A c \in Calls : pc2FA[c] = "clearLookup" => challenge2FA # mem2FA[c].token

FactorIInv ==
    FactorTypes /\ ServingOK /\ GuessesOK /\ Second!LockoutEnds /\ GrantsOK

-----------------------------------------------------------------------------

\* Call c goes to l and remembers m.
Moves(c, l, m) ==
    pc2FA' = [pc2FA EXCEPT ![c] = l] /\ mem2FA' = [mem2FA EXCEPT ![c] = m]

LEMMA Moved ==
    ASSUME FactorTypes, NEW c \in Calls, NEW l, NEW m, Moves(c, l, m)
    PROVE  /\ pc2FA'[c] = l /\ mem2FA'[c] = m
           /\ \A d \in Calls \ {c} : pc2FA'[d] = pc2FA[d] /\ mem2FA'[d] = mem2FA[d]
BY DEF FactorTypes, Second!TypeOK, Moves

\* How a step of one call changes the number of calls in some of the places.
LEMMA FactorsMove ==
    ASSUME FactorTypes, NEW c \in Calls, NEW l, NEW m, Moves(c, l, m), NEW L
    PROVE  /\ Cardinality(FactorsAt(L)) \in Nat /\ Cardinality(FactorsAt(L)') \in Nat
           /\ pc2FA[c] \in L /\ l \notin L =>
                Cardinality(FactorsAt(L)') = Cardinality(FactorsAt(L)) - 1
           /\ pc2FA[c] \notin L /\ l \in L =>
                Cardinality(FactorsAt(L)') = Cardinality(FactorsAt(L)) + 1
           /\ (pc2FA[c] \in L <=> l \in L) =>
                Cardinality(FactorsAt(L)') = Cardinality(FactorsAt(L))
<1> DEFINE S == FactorsAt(L)
           T == {d \in Calls : pc2FA'[d] \in L}
<1>1. S \subseteq Calls /\ T \subseteq Calls /\ T = FactorsAt(L)'
  BY DEF FactorsAt
<1>2. (c \in S <=> pc2FA[c] \in L) /\ (c \in T <=> l \in L)
  BY Moved DEF FactorsAt
<1>3. \A d \in Calls \ {c} : d \in S <=> d \in T
  BY Moved DEF FactorsAt
<1> HIDE DEF S, T
<1>4. /\ Cardinality(S) \in Nat /\ Cardinality(T) \in Nat
      /\ c \in S /\ c \notin T => Cardinality(T) = Cardinality(S) - 1
      /\ c \notin S /\ c \in T => Cardinality(T) = Cardinality(S) + 1
      /\ (c \in S <=> c \in T) => Cardinality(T) = Cardinality(S)
  BY <1>1, <1>3, OneMoves
<1> QED BY <1>1, <1>2, <1>4 DEF S

\* A backup code has one row, and the unused ones are of one setup.
OneSetup(B) ==
    /\ B \subseteq Second!Backup
    /\ \A a, b \in B : Second!SameCode(a, b) => a = b
    /\ \A a, b \in B : ~a.used /\ ~b.used => a.batch = b.batch

\* What FactorTypes gives a step.
LEMMA FactorNow ==
    ASSUME FactorTypes
    PROVE  /\ menu2FA.calls \in Nat /\ menu2FA.width \in Nat /\ serial2FA \in Nat
           /\ started2FA \in 0..menu2FA.calls
           /\ enabled \in 0..serial2FA /\ setup \in 0..serial2FA
           /\ challenge2FA \in 0..serial2FA
           /\ OneSetup(backups)
           /\ lookups \subseteq 1..serial2FA /\ handed \subseteq 1..serial2FA
           /\ attempts \in Nat /\ attemptsExpire \in BOOLEAN /\ broken \in BOOLEAN
           /\ grants \in [1..(menu2FA.calls + 1) -> Nat]
           /\ uses \in [(1..(menu2FA.calls + 1)) \X Codes -> Nat]
           /\ pc2FA \in [Calls -> Second!PC] /\ mem2FA \in [Calls -> FactorMem]
           /\ \A c \in Calls : mem2FA[c] \in FactorMem /\ mem2FA[c].token \in 0..serial2FA
           /\ \A c \in Calls : pc2FA[c] \in Tokened => mem2FA[c].token > 0
           /\ Second!Nothing \in FactorMem /\ Second!Nothing.token = 0
<1>1. Second!Nothing \in FactorMem /\ Second!Nothing.token = 0
  BY DEF Second!Nothing, Second!NoCode, Second!Totp, FactorMem, FactorCode
<1> QED BY <1>1, FactorAssumption DEF FactorTypes, Second!TypeOK, OneSetup

\* What is to be said of a step of one call.
LEMMA FactorStep ==
    ASSUME FactorTypes, NEW c \in Calls, NEW l \in Second!PC, NEW m \in FactorMem,
           Moves(c, l, m), menu2FA' = menu2FA,
           serial2FA' \in Nat, serial2FA <= serial2FA', started2FA' \in 0..menu2FA.calls,
           l \in Numbering => /\ serial2FA' = serial2FA /\ pc2FA[c] \notin Numbering
                              /\ started2FA' = started2FA + 1,
           l \notin Numbering =>
               \/ serial2FA' = serial2FA /\ started2FA <= started2FA'
               \/ serial2FA' = serial2FA + 1 /\ pc2FA[c] \in Numbering
                  /\ started2FA' = started2FA,
           m.token <= serial2FA', l \in Tokened => m.token > 0,
           l = "useCode" => m.code.n \in Codes,
           enabled' \in 0..serial2FA', setup' \in 0..serial2FA',
           challenge2FA' \in 0..serial2FA',
           OneSetup(backups'),
           lookups' \subseteq 1..serial2FA', handed' \subseteq 1..serial2FA',
           attempts' \in Nat, attemptsExpire' \in BOOLEAN, broken' \in BOOLEAN,
           grants' \in [1..(menu2FA.calls + 1) -> Nat],
           uses' \in [(1..(menu2FA.calls + 1)) \X Codes -> Nat]
    PROVE  FactorTypes'
<1>1. /\ menu2FA \in FactorScenarios /\ menu2FA.calls \in Nat
      /\ serial2FA \in Nat /\ started2FA \in Nat
      /\ serial2FA + Cardinality(FactorsAt(Numbering)) <= started2FA + 1
      /\ pc2FA \in [Calls -> Second!PC] /\ mem2FA \in [Calls -> FactorMem]
      /\ \A d \in Calls : mem2FA[d].token <= serial2FA
      /\ \A d \in Calls : pc2FA[d] \in Tokened => mem2FA[d].token > 0
  <2>1. /\ menu2FA \in FactorScenarios
        /\ serial2FA + Cardinality(FactorsAt(Numbering)) <= started2FA + 1
    BY Zenon DEF FactorTypes
  <2> QED BY <2>1, FactorNow
<1>2. serial2FA' + Cardinality(FactorsAt(Numbering)') <= started2FA' + 1
      /\ Cardinality(FactorsAt(Numbering)') \in Nat
  <2> DEFINE n == Cardinality(FactorsAt(Numbering))
             n2 == Cardinality(FactorsAt(Numbering)')
  <2>1. /\ n \in Nat /\ n2 \in Nat
        /\ pc2FA[c] \in Numbering /\ l \notin Numbering => n2 = n - 1
        /\ pc2FA[c] \notin Numbering /\ l \in Numbering => n2 = n + 1
        /\ (pc2FA[c] \in Numbering <=> l \in Numbering) => n2 = n
    BY FactorsMove
  <2>2. /\ serial2FA \in Nat /\ started2FA \in Nat /\ serial2FA' \in Nat /\ started2FA' \in Nat
        /\ serial2FA + n <= started2FA + 1
    BY <1>1
  <2> DEFINE b == 1
  <2>3. b \in Nat /\ serial2FA + n <= started2FA + b
    BY <2>2
  <2> HIDE DEF n, n2, b
  <2>4. serial2FA' + n2 <= started2FA' + b
    <3>1. \/ serial2FA' = serial2FA /\ started2FA' = started2FA + 1 /\ n2 = n + 1
          \/ serial2FA' = serial2FA /\ started2FA <= started2FA' /\ n2 <= n
          \/ serial2FA' = serial2FA + 1 /\ started2FA' = started2FA /\ n2 = n - 1
      BY <2>1
    <3>2. CASE serial2FA' = serial2FA /\ started2FA' = started2FA + 1 /\ n2 = n + 1
      BY <2>1, <2>2, <2>3, <3>2, NumbersKept
    <3>3. CASE serial2FA' = serial2FA /\ started2FA <= started2FA' /\ n2 <= n
      <4>1. serial2FA + n2 <= started2FA' + b
        BY <2>1, <2>2, <2>3, <3>3, NumbersRest, Zenon
      <4> QED BY <3>3, <4>1
    <3>4. CASE serial2FA' = serial2FA + 1 /\ started2FA' = started2FA /\ n2 = n - 1
      BY <2>1, <2>2, <2>3, <3>4, NumbersKept
    <3> QED BY <3>1, <3>2, <3>3, <3>4
  <2> QED BY <2>1, <2>4 DEF n2, b
<1>3. serial2FA' \in 0..(menu2FA'.calls + 1) /\ started2FA' \in 0..menu2FA'.calls
  <2>1. /\ serial2FA' \in Nat /\ started2FA' \in Nat /\ menu2FA'.calls \in Nat
        /\ started2FA' <= menu2FA'.calls
    BY <1>1
  <2>2. serial2FA' \in 0..(menu2FA'.calls + 1)
    <3> DEFINE n2 == Cardinality(FactorsAt(Numbering)')
    <3>1. n2 \in Nat /\ serial2FA' + n2 <= started2FA' + 1
      BY <1>2
    <3> HIDE DEF n2
    <3> QED BY <2>1, <3>1, NumbersBound, Zenon
  <2> QED BY <2>1, <2>2
<1>4. pc2FA' \in [Calls -> Second!PC] /\ mem2FA' \in [Calls -> FactorMem]
  BY <1>1 DEF Moves
<1>5. /\ pc2FA'[c] = l /\ mem2FA'[c] = m
      /\ \A d \in Calls \ {c} : pc2FA'[d] = pc2FA[d] /\ mem2FA'[d] = mem2FA[d]
  BY Moved
<1>6. ASSUME NEW d \in Calls
      PROVE  /\ mem2FA'[d].token \in 0..serial2FA'
             /\ pc2FA'[d] \in Tokened => mem2FA'[d].token > 0
  <2>1. mem2FA'[d].token \in Nat
    BY <1>4 DEF FactorMem
  <2>2. CASE d = c
    BY <1>1, <1>5, <2>1, <2>2
  <2>3. CASE d # c
    <3>1. mem2FA[d].token <= serial2FA /\ (pc2FA[d] \in Tokened => mem2FA[d].token > 0)
      BY <1>1
    <3>2. serial2FA \in Nat /\ serial2FA' \in Nat /\ serial2FA <= serial2FA'
      BY <1>1
    <3>3. mem2FA'[d] = mem2FA[d] /\ pc2FA'[d] = pc2FA[d]
      BY <1>5, <2>3
    <3>4. mem2FA[d].token \in Nat
      BY <2>1, <3>3
    <3>5. mem2FA[d].token \in 0..serial2FA'
      BY <3>1, <3>2, <3>4, NumbersGrow, Zenon
    <3> QED BY <3>1, <3>3, <3>5
  <2> QED BY <2>2, <2>3
<1>7. Second!TypeOK'
  BY <1>3, <1>4, <1>6 DEF Second!TypeOK, OneSetup
<1>8. \A d \in Calls : pc2FA'[d] = "useCode" => mem2FA'[d].code.n \in Codes
  <2>1. \A d \in Calls : pc2FA[d] = "useCode" => mem2FA[d].code.n \in Codes
    BY Zenon DEF FactorTypes
  <2> QED BY <1>5, <2>1
<1> QED BY <1>1, <1>2, <1>4, <1>6, <1>7, <1>8 DEF FactorTypes

\* The codes of a setup.
LEMMA BackupTypes ==
    ASSUME NEW s \in Nat
    PROVE  OneSetup(Second!Fresh(s))
<1>1. \A b \in Second!Fresh(s) : b \in Second!Backup /\ b.batch = s /\ b.used = FALSE
  BY Zenon DEF Second!Fresh, Second!Backup
<1>2. \A b \in Second!Fresh(s) : b.batch = s
  BY <1>1
<1>3. ASSUME NEW a \in Second!Fresh(s), NEW b \in Second!Fresh(s), a.n = b.n PROVE a = b
  <2>1. /\ a \in Second!Backup /\ a.batch = s /\ a.used = FALSE
        /\ b \in Second!Backup /\ b.batch = s /\ b.used = FALSE
    BY <1>1
  <2> QED BY <1>3, <2>1 DEF Second!Backup
<1> QED BY <1>1, <1>2, <1>3 DEF OneSetup, Second!SameCode

\* A code is saved as used, whether or not it still has a row.
LEMMA UsedRow ==
    ASSUME NEW B, OneSetup(B), NEW k \in FactorCode, k.n \in Codes
    PROVE  OneSetup({b \in B : ~Second!SameCode(b, k)}
                       \cup {[batch |-> k.batch, n |-> k.n, used |-> TRUE]})
<1> DEFINE u == [batch |-> k.batch, n |-> k.n, used |-> TRUE]
           R == {b \in B : ~Second!SameCode(b, k)}
<1>1. u \in Second!Backup /\ u.used /\ u.batch = k.batch /\ u.n = k.n
  BY DEF FactorCode, Second!Backup
<1>2. R \subseteq B /\ \A b \in R : ~Second!SameCode(b, u) /\ ~Second!SameCode(u, b)
  BY <1>1 DEF Second!SameCode
<1> HIDE DEF u, R
<1>3. R \cup {u} \subseteq Second!Backup
  BY <1>1, <1>2 DEF OneSetup
<1>4. ASSUME NEW a \in R \cup {u}, NEW b \in R \cup {u}, Second!SameCode(a, b) PROVE a = b
  BY <1>2, <1>4 DEF OneSetup
<1>5. ASSUME NEW a \in R \cup {u}, NEW b \in R \cup {u}, ~a.used, ~b.used
      PROVE  a.batch = b.batch
  BY <1>1, <1>2, <1>5 DEF OneSetup
<1>6. OneSetup(R \cup {u})
  BY <1>3, <1>4, <1>5 DEF OneSetup
<1> QED BY <1>6 DEF R, u

\* What a call remembers with a token.
LEMMA TokenType ==
    ASSUME NEW t \in Nat, NEW m \in FactorMem
    PROVE  LET u == [m EXCEPT !.token = t] IN u \in FactorMem /\ u.token = t
BY DEF FactorMem

LEMMA CountsUp ==
    ASSUME NEW D, NEW f \in [D -> Nat], NEW x
    PROVE  [f EXCEPT ![x] = @ + 1] \in [D -> Nat]
<1>1. CASE x \in D
  BY <1>1
<1>2. CASE x \notin D
  <2>1. [f EXCEPT ![x] = @ + 1] = f
    BY <1>2
  <2> QED BY <2>1
<1> QED BY <1>1, <1>2

\* What the requests and the answers do to the calls.
LEMMA FactorBegins ==
    ASSUME NEW c \in Calls, NEW op, NEW l, NEW m, Second!Begin(c, op, l, m)
    PROVE  /\ Moves(c, l, m) /\ pc2FA[c] = "idle"
           /\ started2FA < menu2FA.calls /\ started2FA' = started2FA + 1
           /\ Cardinality({d \in Calls : pc2FA[d] # "idle"}) < menu2FA.width
BY Counts DEF Second!Begin, Second!Goto, Moves

LEMMA FactorReturns ==
    ASSUME NEW c \in Calls, Second!Return(c)
    PROVE  Moves(c, "idle", Second!Nothing)
BY DEF Second!Return, Second!Goto, Moves

LEMMA FactorStays ==
    ASSUME FactorTypes, NEW c \in Calls, NEW l, Second!Goto(c, l), UNCHANGED mem2FA
    PROVE  Moves(c, l, mem2FA[c])
BY DEF FactorTypes, Second!Goto, Moves

\* Only a call moves on.
LEMMA FactorQuiet ==
    ASSUME FactorTypes, NEW c \in Calls, NEW l \in Second!PC, NEW m \in FactorMem,
           Moves(c, l, m), menu2FA' = menu2FA, serial2FA' = serial2FA,
           UNCHANGED <<enabled, backups, setup, challenge2FA, lookups, attempts,
                       attemptsExpire, handed, grants, uses, broken>>,
           \/ started2FA' = started2FA /\ l \notin Numbering
           \/ /\ started2FA < menu2FA.calls /\ started2FA' = started2FA + 1
              /\ pc2FA[c] \notin Numbering,
           m.token <= serial2FA, l \in Tokened => m.token > 0,
           l = "useCode" => m.code.n \in Codes
    PROVE  FactorTypes'
<1>1. /\ menu2FA.calls \in Nat /\ serial2FA \in Nat /\ started2FA \in 0..menu2FA.calls
      /\ enabled \in 0..serial2FA /\ setup \in 0..serial2FA
      /\ challenge2FA \in 0..serial2FA /\ OneSetup(backups)
      /\ lookups \subseteq 1..serial2FA /\ handed \subseteq 1..serial2FA
      /\ attempts \in Nat /\ attemptsExpire \in BOOLEAN /\ broken \in BOOLEAN
      /\ grants \in [1..(menu2FA.calls + 1) -> Nat]
      /\ uses \in [(1..(menu2FA.calls + 1)) \X Codes -> Nat]
  BY FactorNow
<1>2. started2FA' \in 0..menu2FA.calls
  BY <1>1
<1>3. OneSetup(backups')
  BY <1>1
<1> QED BY <1>1, <1>2, <1>3, FactorStep

LEMMA FactorTypesInit ==
    Second!Init => FactorTypes /\ ServingOK /\ GuessesOK /\ GrantsOK
<1> SUFFICES ASSUME Second!Init
             PROVE  FactorTypes /\ ServingOK /\ GuessesOK /\ GrantsOK
  OBVIOUS
<1>1. /\ menu2FA \in FactorScenarios /\ menu2FA.calls \in Nat /\ menu2FA.width \in Nat
      /\ serial2FA = enabled /\ enabled \in 0..1 /\ started2FA = 0
      /\ setup = 0 /\ challenge2FA = 0 /\ lookups = {} /\ handed = {}
      /\ attempts = 0 /\ attemptsExpire = FALSE /\ broken = FALSE
      /\ \A c \in Calls : pc2FA[c] = "idle"
  BY FactorAssumption DEF Second!Init
<1>2. pc2FA \in [Calls -> Second!PC]
  BY DEF Second!Init, Second!PC
<1>3. Second!Nothing \in FactorMem /\ Second!Nothing.token = 0
  BY DEF Second!Nothing, Second!NoCode, Second!Totp, FactorMem, FactorCode
<1>4. mem2FA \in [Calls -> FactorMem] /\ \A c \in Calls : mem2FA[c] = Second!Nothing
  BY <1>3 DEF Second!Init
<1>5. /\ grants \in [1..(menu2FA.calls + 1) -> Nat]
      /\ uses \in [(1..(menu2FA.calls + 1)) \X Codes -> Nat]
      /\ \A t \in DOMAIN grants : grants[t] = 0
  BY DEF Second!Init
<1>6. OneSetup(backups)
  <2>1. backups = IF menu2FA.enabled THEN Second!Fresh(1) ELSE {}
    BY DEF Second!Init
  <2>2. OneSetup(Second!Fresh(1)) /\ OneSetup({})
    BY BackupTypes DEF OneSetup
  <2> QED BY <2>1, <2>2
<1>7. ASSUME NEW L, "idle" \notin L PROVE Cardinality(FactorsAt(L)) = 0
  <2>1. FactorsAt(L) = {}
    BY <1>1, <1>7 DEF FactorsAt
  <2> QED BY <2>1, FS_EmptySet
<1>8. Cardinality(FactorsAt(Numbering)) = 0
  BY <1>7 DEF Numbering
<1>9. Cardinality(FactorsAt(PastLock)) = 0
  BY <1>7 DEF PastLock
<1>10. Cardinality(Serving) = 0
  BY <1>7 DEF Serving
<1>11. "idle" \notin Tokened /\ "idle" \notin Passing
  BY DEF Tokened, Passing
<1>12. \A t : Cardinality(PassingOf(t)) = 0
  <2>1. \A t : PassingOf(t) = {}
    BY <1>1, <1>11 DEF PassingOf
  <2> QED BY <2>1, FS_EmptySet
<1>13. FactorTypes
  <2>1. Second!TypeOK
    <3>1. /\ started2FA \in 0..menu2FA.calls /\ serial2FA \in 0..(menu2FA.calls + 1)
          /\ enabled \in 0..serial2FA /\ setup \in 0..serial2FA
          /\ challenge2FA \in 0..serial2FA /\ \A c \in Calls : mem2FA[c].token \in 0..serial2FA
      BY <1>1, <1>3, <1>4
    <3> QED BY <1>1, <1>2, <1>6, <3>1 DEF Second!TypeOK, OneSetup
  <2>2. serial2FA + Cardinality(FactorsAt(Numbering)) <= started2FA + 1
    BY <1>1, <1>8
  <2>3. broken \in BOOLEAN
    BY <1>1
  <2>4. \A c \in Calls : pc2FA[c] \notin Tokened
    BY <1>1, <1>11
  <2> QED BY <1>1, <1>4, <1>5, <2>1, <2>2, <2>3, <2>4 DEF FactorTypes
<1>14. ServingOK /\ GuessesOK
  BY <1>1, <1>9, <1>10, FactorAssumption DEF ServingOK, GuessesOK
<1>15. GrantsOK
  BY <1>1, <1>5, <1>12 DEF GrantsOK
<1> QED BY <1>13, <1>14, <1>15

LEMMA FactorTypesNext == FactorTypes /\ [Second!Next]_vars2FA => FactorTypes'
<1> SUFFICES ASSUME FactorTypes, [Second!Next]_vars2FA PROVE FactorTypes'
  OBVIOUS
<1>0. /\ menu2FA.calls \in Nat /\ serial2FA \in Nat /\ started2FA \in 0..menu2FA.calls
      /\ enabled \in 0..serial2FA /\ setup \in 0..serial2FA
      /\ challenge2FA \in 0..serial2FA /\ OneSetup(backups)
      /\ lookups \subseteq 1..serial2FA /\ handed \subseteq 1..serial2FA
      /\ attempts \in Nat /\ attemptsExpire \in BOOLEAN /\ broken \in BOOLEAN
      /\ grants \in [1..(menu2FA.calls + 1) -> Nat]
      /\ uses \in [(1..(menu2FA.calls + 1)) \X Codes -> Nat]
      /\ \A c \in Calls : mem2FA[c] \in FactorMem /\ mem2FA[c].token \in 0..serial2FA
      /\ \A c \in Calls : pc2FA[c] \in Tokened => mem2FA[c].token > 0
      /\ Second!Nothing \in FactorMem /\ Second!Nothing.token = 0
  BY FactorNow
<1> DEFINE none == Second!Nothing
<1> HIDE DEF none
<1>a. none = Second!Nothing /\ none \in FactorMem /\ none.token = 0
  BY <1>0 DEF none
<1>i. "idle" \in Second!PC /\ "idle" \notin Numbering /\ "idle" \notin Tokened
  BY DEF Second!PC, Numbering, Tokened
<1>1. ASSUME NEW c \in Calls, Second!Setup(c) PROVE FactorTypes'
  <2>1. /\ Moves(c, "storeSetup", none) /\ pc2FA[c] = "idle"
        /\ started2FA < menu2FA.calls /\ started2FA' = started2FA + 1
    BY <1>1, <1>a, FactorBegins DEF Second!Setup
  <2>2. /\ menu2FA' = menu2FA /\ serial2FA' = serial2FA
        /\ UNCHANGED <<enabled, backups, setup, challenge2FA, lookups, attempts,
                       attemptsExpire, handed, grants, uses, broken>>
    BY <1>1 DEF Second!Setup, Second!rows, Second!keys, Second!history
  <2>3. "storeSetup" \in Second!PC /\ "storeSetup" \notin Tokened
    BY DEF Second!PC, Tokened
  <2> QED BY <1>0, <1>a, <1>i, <2>1, <2>2, <2>3, FactorQuiet
<1>2. ASSUME NEW c \in Calls, Second!StoreSetup(c) PROVE FactorTypes'
  <2>1. /\ Moves(c, "idle", none) /\ pc2FA[c] \in Numbering
        /\ serial2FA' = serial2FA + 1 /\ setup' = serial2FA + 1
        /\ handed' = handed \cup {serial2FA + 1}
        /\ UNCHANGED <<menu2FA, started2FA, enabled, backups, challenge2FA, lookups, attempts,
                       attemptsExpire, grants, uses, broken>>
    BY <1>2, <1>a, FactorReturns
       DEF Second!StoreSetup, Second!rows, Second!history, Numbering
  <2>2. OneSetup(backups')
    BY <1>0, <2>1
  <2>3. /\ menu2FA' = menu2FA /\ serial2FA' = serial2FA + 1 /\ serial2FA' \in Nat
        /\ serial2FA <= serial2FA' /\ none.token <= serial2FA' /\ started2FA' = started2FA
        /\ started2FA' \in 0..menu2FA.calls /\ enabled' \in 0..serial2FA'
        /\ setup' \in 0..serial2FA' /\ challenge2FA' \in 0..serial2FA'
        /\ lookups' \subseteq 1..serial2FA' /\ handed' \subseteq 1..serial2FA'
    BY <1>0, <1>a, <2>1
  <2>4. /\ attempts' \in Nat /\ attemptsExpire' \in BOOLEAN /\ broken' \in BOOLEAN
        /\ grants' \in [1..(menu2FA.calls + 1) -> Nat]
        /\ uses' \in [(1..(menu2FA.calls + 1)) \X Codes -> Nat]
    BY <1>0, <2>1
  <2> QED BY <1>a, <1>i, <2>1, <2>2, <2>3, <2>4, FactorStep
<1>3. ASSUME NEW c \in Calls, NEW t \in handed, Second!VerifySetup(c, t) PROVE FactorTypes'
  <2> DEFINE m == [Second!Nothing EXCEPT !.token = t]
  <2>1. m \in FactorMem /\ m.token = t /\ t \in 1..serial2FA
    <3>1. t \in Nat /\ t \in 1..serial2FA
      BY <1>0
    <3> QED BY <1>0, <3>1, TokenType
  <2>2. Second!Begin(c, "setup", "saveSetup", m)
    BY <1>3 DEF Second!VerifySetup
  <2> HIDE DEF m
  <2>3. /\ Moves(c, "saveSetup", m) /\ pc2FA[c] = "idle"
        /\ started2FA < menu2FA.calls /\ started2FA' = started2FA + 1
    BY <2>2, FactorBegins
  <2>4. /\ menu2FA' = menu2FA /\ serial2FA' = serial2FA
        /\ UNCHANGED <<enabled, backups, setup, challenge2FA, lookups, attempts,
                       attemptsExpire, handed, grants, uses, broken>>
    BY <1>3 DEF Second!VerifySetup, Second!rows, Second!keys, Second!history
  <2>5. "saveSetup" \in Second!PC /\ "saveSetup" \notin Tokened
    BY DEF Second!PC, Tokened
  <2> QED BY <1>0, <1>i, <2>1, <2>3, <2>4, <2>5, FactorQuiet
<1>4. ASSUME NEW c \in Calls, Second!SaveSetup(c) PROVE FactorTypes'
  <2>1. /\ Moves(c, "clearSetup", mem2FA[c]) /\ pc2FA[c] \in Numbering
        /\ serial2FA' = serial2FA + 1 /\ enabled' = mem2FA[c].token
        /\ backups' = Second!Fresh(serial2FA + 1)
        /\ UNCHANGED <<menu2FA, started2FA, setup, challenge2FA, lookups, attempts,
                       attemptsExpire, handed, grants, uses, broken>>
    BY <1>4, FactorStays DEF Second!SaveSetup, Second!keys, Second!history, Numbering
  <2>2. OneSetup(backups')
    <3>1. serial2FA + 1 \in Nat
      BY <1>0
    <3> QED BY <2>1, <3>1, BackupTypes
  <2>3. "clearSetup" \in Second!PC /\ "clearSetup" \notin Tokened /\ "clearSetup" \notin Numbering
    BY DEF Second!PC, Tokened, Numbering
  <2> QED BY <1>0, <2>1, <2>2, <2>3, FactorStep
<1>5. ASSUME NEW c \in Calls, Second!ClearSetup(c) PROVE FactorTypes'
  <2>1. /\ Moves(c, "idle", none) /\ setup' = 0
        /\ UNCHANGED <<menu2FA, started2FA, serial2FA, enabled, backups, challenge2FA, lookups,
                       attempts, attemptsExpire, handed, grants, uses, broken>>
    BY <1>5, <1>a, FactorReturns DEF Second!ClearSetup, Second!rows, Second!history
  <2>2. OneSetup(backups')
    BY <1>0, <2>1
  <2>3. /\ menu2FA' = menu2FA /\ serial2FA' = serial2FA /\ serial2FA' \in Nat
        /\ serial2FA <= serial2FA' /\ none.token <= serial2FA' /\ started2FA' = started2FA
        /\ started2FA' \in 0..menu2FA.calls /\ enabled' \in 0..serial2FA'
        /\ setup' \in 0..serial2FA' /\ challenge2FA' \in 0..serial2FA'
        /\ lookups' \subseteq 1..serial2FA' /\ handed' \subseteq 1..serial2FA'
    BY <1>0, <1>a, <2>1
  <2>4. /\ attempts' \in Nat /\ attemptsExpire' \in BOOLEAN /\ broken' \in BOOLEAN
        /\ grants' \in [1..(menu2FA.calls + 1) -> Nat]
        /\ uses' \in [(1..(menu2FA.calls + 1)) \X Codes -> Nat]
    BY <1>0, <2>1
  <2> QED BY <1>a, <1>i, <2>1, <2>2, <2>3, <2>4, FactorStep
<1>6. ASSUME NEW c \in Calls, Second!CreateChallenge(c) PROVE FactorTypes'
  <2>1. /\ Moves(c, "storeChallenge", none) /\ pc2FA[c] = "idle"
        /\ started2FA < menu2FA.calls /\ started2FA' = started2FA + 1
    BY <1>6, <1>a, FactorBegins DEF Second!CreateChallenge
  <2>2. /\ menu2FA' = menu2FA /\ serial2FA' = serial2FA
        /\ UNCHANGED <<enabled, backups, setup, challenge2FA, lookups, attempts,
                       attemptsExpire, handed, grants, uses, broken>>
    BY <1>6 DEF Second!CreateChallenge, Second!rows, Second!keys, Second!history
  <2>3. "storeChallenge" \in Second!PC /\ "storeChallenge" \notin Tokened
    BY DEF Second!PC, Tokened
  <2> QED BY <1>0, <1>a, <1>i, <2>1, <2>2, <2>3, FactorQuiet
<1>7. ASSUME NEW c \in Calls, Second!StoreChallenge(c) PROVE FactorTypes'
  <2> DEFINE m == [mem2FA[c] EXCEPT !.token = serial2FA + 1]
  <2>1. /\ Moves(c, "storeLookup", m) /\ pc2FA[c] \in Numbering
        /\ serial2FA' = serial2FA + 1 /\ challenge2FA' = serial2FA + 1
        /\ UNCHANGED <<menu2FA, started2FA, enabled, backups, setup, lookups, attempts,
                       attemptsExpire, handed, grants, uses, broken>>
    BY <1>7 DEF Second!StoreChallenge, Second!rows, Second!history, Second!Goto, Moves, Numbering
  <2>2. m \in FactorMem /\ m.token = serial2FA + 1
    <3>1. serial2FA + 1 \in Nat /\ mem2FA[c] \in FactorMem
      BY <1>0
    <3> QED BY <3>1, TokenType
  <2>3. OneSetup(backups')
    BY <1>0, <2>1
  <2>4. "storeLookup" \in Second!PC /\ "storeLookup" \notin Numbering
    BY DEF Second!PC, Numbering
  <2> HIDE DEF m
  <2>5. /\ serial2FA' \in Nat /\ serial2FA <= serial2FA' /\ m.token <= serial2FA' /\ m.token > 0
        /\ started2FA' = started2FA /\ started2FA' \in 0..menu2FA.calls
        /\ enabled' \in 0..serial2FA' /\ setup' \in 0..serial2FA'
        /\ challenge2FA' \in 0..serial2FA' /\ lookups' \subseteq 1..serial2FA'
        /\ handed' \subseteq 1..serial2FA' /\ attempts' \in Nat
    BY <1>0, <2>1, <2>2
  <2>6. /\ attemptsExpire' \in BOOLEAN /\ broken' \in BOOLEAN
        /\ grants' \in [1..(menu2FA.calls + 1) -> Nat]
        /\ uses' \in [(1..(menu2FA.calls + 1)) \X Codes -> Nat]
    BY <1>0, <2>1
  <2> QED BY <2>1, <2>2, <2>3, <2>4, <2>5, <2>6, FactorStep
<1>8. ASSUME NEW c \in Calls, Second!StoreLookup(c) PROVE FactorTypes'
  <2>1. /\ Moves(c, "idle", none) /\ mem2FA[c].token \in 1..serial2FA
        /\ lookups' = lookups \cup {mem2FA[c].token} /\ handed' = handed \cup {mem2FA[c].token}
        /\ UNCHANGED <<menu2FA, started2FA, serial2FA, enabled, backups, setup, challenge2FA,
                       attempts, attemptsExpire, grants, uses, broken>>
    BY <1>0, <1>8, <1>a, FactorReturns
       DEF Second!StoreLookup, Second!rows, Second!history, Tokened
  <2>2. OneSetup(backups') /\ lookups' \subseteq 1..serial2FA /\ handed' \subseteq 1..serial2FA
    BY <1>0, <2>1
  <2>3. /\ menu2FA' = menu2FA /\ serial2FA' = serial2FA /\ serial2FA' \in Nat
        /\ serial2FA <= serial2FA' /\ none.token <= serial2FA' /\ started2FA' = started2FA
        /\ started2FA' \in 0..menu2FA.calls /\ enabled' \in 0..serial2FA'
        /\ setup' \in 0..serial2FA' /\ challenge2FA' \in 0..serial2FA'
        /\ lookups' \subseteq 1..serial2FA' /\ handed' \subseteq 1..serial2FA'
    BY <1>0, <1>a, <2>1, <2>2
  <2>4. /\ attempts' \in Nat /\ attemptsExpire' \in BOOLEAN /\ broken' \in BOOLEAN
        /\ grants' \in [1..(menu2FA.calls + 1) -> Nat]
        /\ uses' \in [(1..(menu2FA.calls + 1)) \X Codes -> Nat]
    BY <1>0, <2>1, <2>2
  <2> QED BY <1>a, <1>i, <2>1, <2>2, <2>3, <2>4, FactorStep

<1>9. ASSUME NEW c \in Calls, NEW t \in handed, NEW code \in Second!Typed,
             Second!VerifyChallenge(c, t, code)
      PROVE  FactorTypes'
  <2> DEFINE m == [token |-> t, code |-> code]
  <2>1. code \in FactorCode
    BY <1>0 DEF Second!Typed, Second!Totp, Second!NoCode, FactorCode, OneSetup, Second!Backup
  <2>2. m \in FactorMem /\ m.token = t /\ t \in 1..serial2FA
    BY <1>0, <2>1 DEF FactorMem
  <2>3. Second!Begin(c, "verify", "matchChallenge", m)
    BY <1>9 DEF Second!VerifyChallenge
  <2> HIDE DEF m
  <2>4. /\ Moves(c, "matchChallenge", m) /\ pc2FA[c] = "idle"
        /\ started2FA < menu2FA.calls /\ started2FA' = started2FA + 1
    BY <2>3, FactorBegins
  <2>5. /\ menu2FA' = menu2FA /\ serial2FA' = serial2FA
        /\ UNCHANGED <<enabled, backups, setup, challenge2FA, lookups, attempts,
                       attemptsExpire, handed, grants, uses, broken>>
    BY <1>9 DEF Second!VerifyChallenge, Second!rows, Second!keys, Second!history
  <2>6. "matchChallenge" \in Second!PC
    BY DEF Second!PC
  <2> QED BY <1>0, <1>i, <2>2, <2>4, <2>5, <2>6, FactorQuiet
\* The call goes on with what it remembers, or ends.
<1>10. ASSUME NEW c \in Calls,
              \/ Second!MatchChallenge(c) \/ Second!CheckLock(c) \/ Second!CheckCode(c)
              \/ Second!FindCode(c)
       PROVE  FactorTypes'
  <2> DEFINE L == {"checkLock", "checkCode", "clearAttempts", "findCodes", "useCode", "fail"}
  <2>1. /\ pc2FA[c] \in Tokened
        /\ UNCHANGED <<menu2FA, started2FA, serial2FA, enabled, backups, setup, challenge2FA,
                       lookups, attempts, attemptsExpire, handed, grants, uses, broken>>
    BY <1>10 DEF Second!MatchChallenge, Second!CheckLock, Second!CheckCode, Second!FindCode,
                 Second!rows, Second!keys, Second!history, Tokened
  <2>2. \/ Second!Return(c)
        \/ \E l \in L : /\ Second!Goto(c, l) /\ UNCHANGED mem2FA
                        /\ l = "useCode" => mem2FA[c].code.n \in Codes
    <3>1. CASE Second!MatchChallenge(c) \/ Second!CheckLock(c)
      BY <3>1 DEF Second!MatchChallenge, Second!CheckLock
    <3>2. CASE Second!CheckCode(c)
      <4>1. PICK l : Second!Goto(c, l) /\ l \in {"clearAttempts", "findCodes", "fail"}
        BY <3>2 DEF Second!CheckCode
      <4> QED BY <3>2, <4>1 DEF Second!CheckCode
    <3>3. CASE Second!FindCode(c)
      <4>1. UNCHANGED mem2FA
        BY <3>3 DEF Second!FindCode
      <4>2. CASE \E b \in backups : Second!SameCode(b, mem2FA[c].code)
        <5>1. Second!Goto(c, "useCode")
          BY <3>3, <4>2 DEF Second!FindCode
        <5>2. mem2FA[c].code.n \in Codes
          BY <1>0, <4>2 DEF OneSetup, Second!Backup, Second!SameCode
        <5> QED BY <4>1, <5>1, <5>2
      <4>3. CASE ~\E b \in backups : Second!SameCode(b, mem2FA[c].code)
        <5>1. Second!Goto(c, "fail")
          BY <3>3, <4>3 DEF Second!FindCode
        <5> QED BY <4>1, <5>1
      <4> QED BY <4>2, <4>3
    <3> QED BY <1>10, <3>1, <3>2, <3>3
  <2>3. CASE Second!Return(c)
    <3>1. Moves(c, "idle", none)
      BY <1>a, <2>3, FactorReturns
    <3> QED BY <1>0, <1>a, <1>i, <2>1, <3>1, FactorQuiet
  <2>4. ASSUME NEW l \in L, Second!Goto(c, l), UNCHANGED mem2FA,
               l = "useCode" => mem2FA[c].code.n \in Codes
        PROVE  FactorTypes'
    <3>1. Moves(c, l, mem2FA[c])
      BY <2>4, FactorStays
    <3>2. l \in Second!PC /\ l \notin Numbering
      BY DEF Second!PC, Numbering
    <3> QED BY <1>0, <2>1, <2>4, <3>1, <3>2, FactorQuiet
  <2> QED BY <2>2, <2>3, <2>4
<1>11. ASSUME NEW c \in Calls, Second!UseCode(c) PROVE FactorTypes'
  <2> DEFINE k == mem2FA[c].code
  <2>1. /\ Moves(c, "clearAttempts", mem2FA[c]) /\ pc2FA[c] = "useCode"
        /\ backups' = {b \in backups : ~Second!SameCode(b, k)}
                         \cup {[batch |-> k.batch, n |-> k.n, used |-> TRUE]}
        /\ uses' = [uses EXCEPT ![<<k.batch, k.n>>] = @ + 1]
        /\ UNCHANGED <<menu2FA, started2FA, serial2FA, enabled, setup, challenge2FA, lookups,
                       attempts, attemptsExpire, handed, grants, broken>>
    BY <1>11, FactorStays DEF Second!UseCode, Second!keys
  <2>2. OneSetup(backups')
    <3>1. k.n \in Codes /\ k \in FactorCode
      BY <1>0, <2>1 DEF FactorTypes, FactorMem
    <3>2. OneSetup(backups)
      BY <1>0
    <3> HIDE DEF k
    <3> QED BY <2>1, <3>1, <3>2, UsedRow
  <2>3. uses' \in [(1..(menu2FA.calls + 1)) \X Codes -> Nat]
    <3> DEFINE D == (1..(menu2FA.calls + 1)) \X Codes
    <3>1. uses \in [D -> Nat]
      BY <1>0
    <3> HIDE DEF D
    <3>2. uses' \in [D -> Nat]
      BY <2>1, <3>1, CountsUp
    <3> QED BY <3>2 DEF D
  <2>4. "clearAttempts" \in Second!PC /\ "clearAttempts" \notin Numbering
    BY DEF Second!PC, Numbering
  <2>5. /\ Moves(c, "clearAttempts", mem2FA[c]) /\ pc2FA[c] \in Tokened
        /\ UNCHANGED <<menu2FA, started2FA, serial2FA, enabled, setup, challenge2FA, lookups,
                       attempts, attemptsExpire, handed, grants, broken>>
    BY <2>1 DEF Tokened
  <2> QED BY <1>0, <2>2, <2>3, <2>4, <2>5, FactorStep
<1>12. ASSUME NEW c \in Calls, Second!Fail(c) \/ Second!SetExpiry(c) PROVE FactorTypes'
  <2>0. attemptsExpire' \in BOOLEAN
    <3>1. (attempts > 0) \in BOOLEAN
      OBVIOUS
    <3>2. attemptsExpire' = attemptsExpire \/ attemptsExpire' = (attempts > 0)
      BY <1>12, Zenon DEF Second!Fail, Second!SetExpiry
    <3> QED BY <1>0, <3>1, <3>2, Zenon
  <2>1. /\ attempts' \in Nat
        /\ UNCHANGED <<menu2FA, started2FA, serial2FA, enabled, backups, setup, challenge2FA,
                       lookups, handed, grants, uses, broken>>
    BY <1>0, <1>12 DEF Second!Fail, Second!SetExpiry, Second!rows, Second!history
  <2>2. OneSetup(backups')
    BY <1>0, <2>1
  <2>3. Second!Return(c) \/ (Second!Goto(c, "setExpiry") /\ UNCHANGED mem2FA)
    BY <1>12 DEF Second!Fail, Second!SetExpiry
  <2>4. CASE Second!Return(c)
    <3>1. Moves(c, "idle", none)
      BY <1>a, <2>4, FactorReturns
    <3>2. /\ menu2FA' = menu2FA /\ serial2FA' = serial2FA /\ serial2FA' \in Nat
          /\ serial2FA <= serial2FA' /\ none.token <= serial2FA' /\ started2FA' = started2FA
          /\ started2FA' \in 0..menu2FA.calls /\ enabled' \in 0..serial2FA'
          /\ setup' \in 0..serial2FA' /\ challenge2FA' \in 0..serial2FA'
          /\ lookups' \subseteq 1..serial2FA' /\ handed' \subseteq 1..serial2FA'
      BY <1>0, <1>a, <2>0, <2>1
    <3>3. /\ attempts' \in Nat /\ attemptsExpire' \in BOOLEAN /\ broken' \in BOOLEAN
          /\ grants' \in [1..(menu2FA.calls + 1) -> Nat]
          /\ uses' \in [(1..(menu2FA.calls + 1)) \X Codes -> Nat]
      BY <1>0, <2>0, <2>1
    <3> QED BY <1>a, <1>i, <2>2, <3>1, <3>2, <3>3, FactorStep
  <2>5. CASE Second!Goto(c, "setExpiry") /\ UNCHANGED mem2FA
    <3>1. Moves(c, "setExpiry", mem2FA[c])
      BY <2>5, FactorStays
    <3>2. "setExpiry" \in Second!PC /\ "setExpiry" \notin Numbering /\ "setExpiry" \notin Tokened
      BY DEF Second!PC, Numbering, Tokened
    <3> QED BY <1>0, <2>0, <2>1, <2>2, <3>1, <3>2, FactorStep
  <2> QED BY <2>3, <2>4, <2>5
<1>13. ASSUME NEW c \in Calls, Second!ClearAttempts(c) PROVE FactorTypes'
  <2>1. /\ Moves(c, "clearChallenge", mem2FA[c]) /\ pc2FA[c] \in Tokened
        /\ attempts' = 0
        /\ UNCHANGED <<menu2FA, started2FA, serial2FA, enabled, backups, setup, challenge2FA,
                       lookups, handed, grants, uses, broken>>
    BY <1>13, FactorStays DEF Second!ClearAttempts, Second!rows, Second!history, Tokened
  <2>2. OneSetup(backups')
    BY <1>0, <2>1
  <2>4. attemptsExpire' \in BOOLEAN
    BY <1>13, Zenon DEF Second!ClearAttempts
  <2>3. "clearChallenge" \in Second!PC /\ "clearChallenge" \notin Numbering
    BY DEF Second!PC, Numbering
  <2> QED BY <1>0, <2>1, <2>2, <2>3, <2>4, FactorStep
<1>14. ASSUME NEW c \in Calls, Second!ClearChallenge(c) PROVE FactorTypes'
  <2>1. /\ Moves(c, "clearLookup", mem2FA[c]) /\ pc2FA[c] \in Tokened /\ challenge2FA' = 0
        /\ UNCHANGED <<menu2FA, started2FA, serial2FA, enabled, backups, setup, attempts,
                       attemptsExpire, lookups, handed, grants, uses, broken>>
    BY <1>14, FactorStays DEF Second!ClearChallenge, Second!rows, Second!history, Tokened
  <2>2. OneSetup(backups')
    BY <1>0, <2>1
  <2>3. "clearLookup" \in Second!PC /\ "clearLookup" \notin Numbering
    BY DEF Second!PC, Numbering
  <2>4. /\ serial2FA' \in Nat /\ serial2FA' = serial2FA /\ serial2FA <= serial2FA'
        /\ mem2FA[c] \in FactorMem /\ mem2FA[c].token <= serial2FA' /\ mem2FA[c].token > 0
        /\ started2FA' = started2FA /\ started2FA <= started2FA'
        /\ started2FA' \in 0..menu2FA.calls
        /\ enabled' \in 0..serial2FA' /\ setup' \in 0..serial2FA'
        /\ challenge2FA' \in 0..serial2FA' /\ lookups' \subseteq 1..serial2FA'
        /\ handed' \subseteq 1..serial2FA' /\ attempts' \in Nat
    BY <1>0, <2>1
  <2>5. /\ attemptsExpire' \in BOOLEAN /\ broken' \in BOOLEAN
        /\ grants' \in [1..(menu2FA.calls + 1) -> Nat]
        /\ uses' \in [(1..(menu2FA.calls + 1)) \X Codes -> Nat]
    BY <1>0, <2>1
  <2> QED BY <2>1, <2>2, <2>3, <2>4, <2>5, FactorStep
<1>15. ASSUME NEW c \in Calls, Second!Grant(c) PROVE FactorTypes'
  <2>1. /\ Moves(c, "idle", none) /\ lookups' = lookups \ {mem2FA[c].token}
        /\ grants' = [grants EXCEPT ![mem2FA[c].token] = @ + 1]
        /\ UNCHANGED <<menu2FA, started2FA, serial2FA, enabled, backups, setup, challenge2FA,
                       attempts, attemptsExpire, handed, uses, broken>>
    BY <1>15, <1>a, FactorReturns DEF Second!Grant, Second!rows
  <2>2. OneSetup(backups') /\ lookups' \subseteq 1..serial2FA
    BY <1>0, <2>1
  <2>3. grants' \in [1..(menu2FA.calls + 1) -> Nat]
    <3> DEFINE D == 1..(menu2FA.calls + 1)
    <3>1. grants \in [D -> Nat]
      BY <1>0
    <3> HIDE DEF D
    <3>2. grants' \in [D -> Nat]
      BY <2>1, <3>1, CountsUp
    <3> QED BY <3>2 DEF D
  <2>4. /\ menu2FA' = menu2FA /\ serial2FA' = serial2FA /\ serial2FA' \in Nat
        /\ serial2FA <= serial2FA' /\ none.token <= serial2FA' /\ started2FA' = started2FA
        /\ started2FA' \in 0..menu2FA.calls /\ enabled' \in 0..serial2FA'
        /\ setup' \in 0..serial2FA' /\ challenge2FA' \in 0..serial2FA'
        /\ lookups' \subseteq 1..serial2FA' /\ handed' \subseteq 1..serial2FA'
    BY <1>0, <1>a, <2>1, <2>2, <2>3
  <2>5. /\ attempts' \in Nat /\ attemptsExpire' \in BOOLEAN /\ broken' \in BOOLEAN
        /\ grants' \in [1..(menu2FA.calls + 1) -> Nat]
        /\ uses' \in [(1..(menu2FA.calls + 1)) \X Codes -> Nat]
    BY <1>0, <2>1, <2>2, <2>3
  <2> QED BY <1>a, <1>i, <2>1, <2>2, <2>4, <2>5, FactorStep
<1>16. ASSUME NEW c \in Calls, Second!Break(c) PROVE FactorTypes'
  <2>0. broken' \in BOOLEAN
    <3>1. broken' = (broken \/ pc2FA[c] = "setExpiry")
      BY <1>16 DEF Second!Break
    <3> QED BY <3>1, Zenon
  <2>1. /\ Moves(c, "idle", none)
        /\ UNCHANGED <<menu2FA, started2FA, serial2FA, enabled, backups, setup, challenge2FA,
                       lookups, attempts, attemptsExpire, handed, grants, uses>>
    BY <1>0, <1>16, <1>a, FactorReturns DEF Second!Break, Second!rows, Second!keys
  <2>2. /\ OneSetup(backups') /\ serial2FA' \in Nat /\ serial2FA <= serial2FA'
        /\ started2FA' \in 0..menu2FA.calls /\ none.token <= serial2FA'
        /\ enabled' \in 0..serial2FA' /\ setup' \in 0..serial2FA'
        /\ challenge2FA' \in 0..serial2FA' /\ lookups' \subseteq 1..serial2FA'
        /\ handed' \subseteq 1..serial2FA' /\ attempts' \in Nat
    BY <1>0, <1>a, <2>1
  <2>3. /\ attemptsExpire' \in BOOLEAN
        /\ grants' \in [1..(menu2FA.calls + 1) -> Nat]
        /\ uses' \in [(1..(menu2FA.calls + 1)) \X Codes -> Nat]
    BY <1>0, <2>1
  <2>4. serial2FA' = serial2FA /\ started2FA <= started2FA'
    BY <1>0, <2>1
  <2> QED BY <1>a, <1>i, <2>0, <2>1, <2>2, <2>3, <2>4, FactorStep
<1>17. CASE Second!ExpireKey
  <2>1. /\ setup' \in 0..serial2FA /\ challenge2FA' \in 0..serial2FA
        /\ lookups' \subseteq lookups
        /\ attempts' \in Nat
        /\ UNCHANGED <<menu2FA, started2FA, serial2FA, enabled, backups, pc2FA, mem2FA, handed,
                       grants, uses, broken>>
    BY <1>0, <1>17 DEF Second!ExpireKey, Second!rows, Second!history
  <2>2. attemptsExpire' = attemptsExpire \/ attemptsExpire' = FALSE
    BY <1>17 DEF Second!ExpireKey
  <2>3. attemptsExpire' \in BOOLEAN
    BY <1>0, <2>2, Zenon
  <2> QED BY <1>0, <2>1, <2>3 DEF FactorTypes, Second!TypeOK, FactorsAt
<1>18. CASE UNCHANGED vars2FA
  BY <1>18 DEF vars2FA, FactorTypes, Second!TypeOK, FactorsAt
<1> QED BY <1>1, <1>2, <1>3, <1>4, <1>5, <1>6, <1>7, <1>8, <1>9, <1>10, <1>11, <1>12, <1>13,
           <1>14, <1>15, <1>16, <1>17, <1>18
        DEF Second!Next, Second!SetupStep, Second!ChallengeStep

-----------------------------------------------------------------------------
\* What a step of call c, from where it is to l, does to the count of failures, ...
CountEffect(c, l) ==
    \/ /\ attempts' = attempts /\ attemptsExpire' = attemptsExpire /\ broken' = broken
       /\ pc2FA[c] # "setExpiry"
       /\ l \in PastLock => pc2FA[c] \in PastLock \/ attempts < MaxFailed
    \/ attempts' = 0
    \/ /\ attempts' = attempts + 1 /\ attemptsExpire' = attemptsExpire /\ broken' = broken
       /\ pc2FA[c] = "fail" /\ l \notin PastLock /\ (attempts = 0 => l = "setExpiry")
    \/ /\ pc2FA[c] = "setExpiry" /\ l \notin PastLock /\ attempts' = attempts
       /\ broken' \/ (attempts > 0 => attemptsExpire')
    \/ /\ pc2FA[c] # "setExpiry" /\ l \notin PastLock /\ attempts' = attempts
       /\ attemptsExpire' = attemptsExpire /\ (broken => broken')

\* ... and to the challenges.
ChallengeEffect(c, l, m) ==
    /\ l \in Passing => pc2FA[c] \in Passing \/ challenge2FA = m.token
    /\ l \in Passing => m.token = mem2FA[c].token
    /\ \/ challenge2FA' = challenge2FA /\ l # "clearLookup"
       \/ challenge2FA' = 0
       \/ /\ challenge2FA' = serial2FA + 1 /\ serial2FA' = serial2FA + 1
          /\ l # "clearLookup"
    /\ \/ grants' = grants
       \/ /\ pc2FA[c] = "clearLookup" /\ l = "idle" /\ challenge2FA' = challenge2FA
          /\ grants' = [grants EXCEPT ![mem2FA[c].token] = @ + 1]

StepEffect(c, l, m) ==
    /\ Moves(c, l, m) /\ menu2FA' = menu2FA /\ serial2FA' \in {serial2FA, serial2FA + 1}
    /\ \/ pc2FA[c] # "idle"
       \/ Cardinality({d \in Calls : pc2FA[d] # "idle"}) < menu2FA.width
    /\ CountEffect(c, l) /\ ChallengeEffect(c, l, m)

\* A step that leaves counts and challenges alone.
LEMMA QuietEffect ==
    ASSUME NEW c, NEW l, NEW m,
           UNCHANGED <<menu2FA, challenge2FA, attempts, attemptsExpire, grants, broken>>,
           Moves(c, l, m), serial2FA' \in {serial2FA, serial2FA + 1},
           pc2FA[c] # "setExpiry",
           \/ pc2FA[c] # "idle"
           \/ Cardinality({d \in Calls : pc2FA[d] # "idle"}) < menu2FA.width,
           l \notin PastLock, l \notin Passing
    PROVE  StepEffect(c, l, m)
<1>1. CountEffect(c, l)
  BY DEF CountEffect
<1>2. ChallengeEffect(c, l, m)
  BY DEF ChallengeEffect, Passing, Tokened
<1> QED BY <1>1, <1>2 DEF StepEffect

LEMMA StepEffects ==
    ASSUME FactorTypes, NEW c \in Calls,
           Second!SetupStep(c) \/ Second!ChallengeStep(c) \/ Second!Break(c)
    PROVE  \E l, m : StepEffect(c, l, m)
<1>0. /\ serial2FA \in Nat /\ enabled \in 0..serial2FA /\ handed \subseteq 1..serial2FA
      /\ attempts \in Nat /\ mem2FA[c] \in FactorMem
      /\ Second!Nothing.token = 0
  BY FactorNow
<1> DEFINE none == Second!Nothing
<1> HIDE DEF none
<1>a. none = Second!Nothing /\ none.token = 0
  BY <1>0 DEF none
<1> USE DEF PastLock, Passing, Tokened
\* Requests come.
<1>1. ASSUME NEW op, NEW l \in {"storeSetup", "saveSetup", "storeChallenge", "matchChallenge"},
             NEW m, Second!Begin(c, op, l, m),
             UNCHANGED <<menu2FA, challenge2FA, attempts, attemptsExpire, grants, broken>>,
             serial2FA' = serial2FA
      PROVE  \E x, y : StepEffect(c, x, y)
  <2>1. /\ Moves(c, l, m) /\ pc2FA[c] = "idle"
        /\ Cardinality({d \in Calls : pc2FA[d] # "idle"}) < menu2FA.width
    BY <1>1, FactorBegins
  <2>2. StepEffect(c, l, m)
    BY <1>0, <1>1, <2>1, QuietEffect
  <2> QED BY <2>2
<1>2. CASE Second!Setup(c) \/ Second!CreateChallenge(c)
  <2>1. \/ Second!Begin(c, "setup", "storeSetup", none)
        \/ Second!Begin(c, "login", "storeChallenge", none)
    BY <1>2, <1>a DEF Second!Setup, Second!CreateChallenge
  <2>2. /\ UNCHANGED <<menu2FA, challenge2FA, attempts, attemptsExpire, grants, broken>>
        /\ serial2FA' = serial2FA
    BY <1>2 DEF Second!Setup, Second!CreateChallenge, Second!rows, Second!keys, Second!history
  <2> QED BY <1>0, <1>1, <1>a, <2>1, <2>2
<1>3. ASSUME NEW t \in handed, Second!VerifySetup(c, t) PROVE \E x, y : StepEffect(c, x, y)
  <2> DEFINE m == [Second!Nothing EXCEPT !.token = t]
  <2>1. Second!Begin(c, "setup", "saveSetup", m)
    BY <1>3 DEF Second!VerifySetup
  <2> HIDE DEF m
  <2>2. /\ UNCHANGED <<menu2FA, challenge2FA, attempts, attemptsExpire, grants, broken>>
        /\ serial2FA' = serial2FA
    BY <1>3 DEF Second!VerifySetup, Second!rows, Second!keys, Second!history
  <2> QED BY <1>1, <2>1, <2>2
<1>4. ASSUME NEW t \in handed, NEW code \in Second!Typed, Second!VerifyChallenge(c, t, code)
      PROVE  \E x, y : StepEffect(c, x, y)
  <2> DEFINE m == [token |-> t, code |-> code]
  <2>1. Second!Begin(c, "verify", "matchChallenge", m)
    BY <1>4 DEF Second!VerifyChallenge
  <2> HIDE DEF m
  <2>2. /\ UNCHANGED <<menu2FA, challenge2FA, attempts, attemptsExpire, grants, broken>>
        /\ serial2FA' = serial2FA
    BY <1>4 DEF Second!VerifyChallenge, Second!rows, Second!keys, Second!history
  <2> QED BY <1>1, <2>1, <2>2

\* Calls that end.
<1>5. CASE Second!StoreSetup(c) \/ Second!ClearSetup(c) \/ Second!StoreLookup(c)
  <2>1. Moves(c, "idle", none)
    BY <1>5, <1>a, FactorReturns DEF Second!StoreSetup, Second!ClearSetup, Second!StoreLookup
  <2>2. /\ UNCHANGED <<menu2FA, challenge2FA, attempts, attemptsExpire, grants, broken>>
        /\ serial2FA' \in {serial2FA, serial2FA + 1}
        /\ pc2FA[c] # "idle" /\ pc2FA[c] # "setExpiry"
    BY <1>5 DEF Second!StoreSetup, Second!ClearSetup, Second!StoreLookup, Second!rows,
                Second!history
  <2>3. StepEffect(c, "idle", none)
    BY <2>1, <2>2, QuietEffect
  <2> QED BY <2>3
<1>6. CASE Second!SaveSetup(c)
  <2>1. /\ Moves(c, "clearSetup", mem2FA[c]) /\ pc2FA[c] = "saveSetup"
        /\ serial2FA' = serial2FA + 1
        /\ UNCHANGED <<menu2FA, challenge2FA, attempts, attemptsExpire, grants, broken>>
    BY <1>6, FactorStays DEF Second!SaveSetup, Second!keys, Second!history
  <2>2. CountEffect(c, "clearSetup") /\ ChallengeEffect(c, "clearSetup", mem2FA[c])
    BY <2>1 DEF CountEffect, ChallengeEffect
  <2>3. StepEffect(c, "clearSetup", mem2FA[c])
    BY <2>1, <2>2 DEF StepEffect
  <2> QED BY <2>3
<1>7. CASE Second!StoreChallenge(c)
  <2> DEFINE m == [mem2FA[c] EXCEPT !.token = serial2FA + 1]
  <2>1. /\ Moves(c, "storeLookup", m) /\ pc2FA[c] = "storeChallenge"
        /\ challenge2FA' = serial2FA + 1 /\ serial2FA' = serial2FA + 1
        /\ UNCHANGED <<menu2FA, attempts, attemptsExpire, grants, broken>>
    BY <1>7 DEF Second!StoreChallenge, Second!rows, Second!history, Second!Goto, Moves
  <2> HIDE DEF m
  <2>2. CountEffect(c, "storeLookup") /\ ChallengeEffect(c, "storeLookup", m)
    BY <2>1 DEF CountEffect, ChallengeEffect
  <2>3. StepEffect(c, "storeLookup", m)
    BY <2>1, <2>2 DEF StepEffect
  <2> QED BY <2>3
\* The challenge, the lock and the code are looked at.
<1>8. ASSUME NEW l, l # "clearLookup", Second!Goto(c, l), UNCHANGED mem2FA,
             UNCHANGED <<menu2FA, serial2FA, challenge2FA, attempts, attemptsExpire, grants,
                         broken>>,
             pc2FA[c] # "idle", pc2FA[c] # "setExpiry",
             l \in PastLock => pc2FA[c] \in PastLock \/ attempts < MaxFailed,
             l \in Passing => pc2FA[c] \in Passing \/ challenge2FA = mem2FA[c].token
      PROVE  \E x, y : StepEffect(c, x, y)
  <2>1. Moves(c, l, mem2FA[c])
    BY <1>8, FactorStays
  <2>2. CountEffect(c, l) /\ ChallengeEffect(c, l, mem2FA[c])
    BY <1>8 DEF CountEffect, ChallengeEffect
  <2>3. StepEffect(c, l, mem2FA[c])
    BY <1>8, <2>1, <2>2 DEF StepEffect
  <2> QED BY <2>3
<1>9. ASSUME Second!Return(c), pc2FA[c] # "idle", pc2FA[c] # "setExpiry",
             UNCHANGED <<menu2FA, serial2FA, challenge2FA, attempts, attemptsExpire, grants,
                         broken>>
      PROVE  \E x, y : StepEffect(c, x, y)
  <2>1. Moves(c, "idle", none)
    BY <1>9, <1>a, FactorReturns
  <2>2. StepEffect(c, "idle", none)
    BY <1>9, <2>1, QuietEffect
  <2> QED BY <2>2
<1>10. CASE Second!MatchChallenge(c) \/ Second!CheckLock(c) \/ Second!CheckCode(c)
            \/ Second!FindCode(c)
  <2>1. UNCHANGED <<menu2FA, serial2FA, challenge2FA, attempts, attemptsExpire, grants, broken>>
    BY <1>10 DEF Second!MatchChallenge, Second!CheckLock, Second!CheckCode, Second!FindCode,
                 Second!rows, Second!keys, Second!history
  <2>2. CASE Second!MatchChallenge(c)
    <3>1. pc2FA[c] = "matchChallenge"
      BY <2>2 DEF Second!MatchChallenge
    <3>2. CASE challenge2FA = mem2FA[c].token
      <4>1. Second!Goto(c, "checkLock") /\ UNCHANGED mem2FA
        BY <2>2, <3>2 DEF Second!MatchChallenge
      <4> QED BY <1>8, <2>1, <3>1, <3>2, <4>1
    <3>3. CASE challenge2FA # mem2FA[c].token
      <4>1. Second!Return(c)
        BY <2>2, <3>3 DEF Second!MatchChallenge
      <4> QED BY <1>9, <2>1, <3>1, <4>1
    <3> QED BY <3>2, <3>3
  <2>3. CASE Second!CheckLock(c)
    <3>1. pc2FA[c] = "checkLock"
      BY <2>3 DEF Second!CheckLock
    <3>2. CASE attempts >= MaxFailed
      <4>1. Second!Return(c)
        BY <2>3, <3>2 DEF Second!CheckLock
      <4> QED BY <1>9, <2>1, <3>1, <4>1
    <3>3. CASE ~(attempts >= MaxFailed)
      <4>1. Second!Goto(c, "checkCode") /\ UNCHANGED mem2FA
        BY <2>3, <3>3 DEF Second!CheckLock
      <4>2. attempts < MaxFailed
        BY <1>0, <3>3, FactorAssumption
      <4> QED BY <1>8, <2>1, <3>1, <4>1, <4>2
    <3> QED BY <3>2, <3>3
  <2>4. CASE Second!CheckCode(c)
    <3>1. PICK l : Second!Goto(c, l) /\ l \in {"clearAttempts", "findCodes", "fail"}
      BY <2>4 DEF Second!CheckCode
    <3>2. pc2FA[c] = "checkCode" /\ UNCHANGED mem2FA
      BY <2>4 DEF Second!CheckCode
    <3> QED BY <1>8, <2>1, <3>1, <3>2
  <2>5. CASE Second!FindCode(c)
    <3>1. pc2FA[c] = "findCodes" /\ UNCHANGED mem2FA
      BY <2>5 DEF Second!FindCode
    <3>2. PICK l : Second!Goto(c, l) /\ l \in {"useCode", "fail"}
      BY <2>5 DEF Second!FindCode
    <3> QED BY <1>8, <2>1, <3>1, <3>2
  <2> QED BY <1>10, <2>2, <2>3, <2>4, <2>5
<1>11. CASE Second!UseCode(c)
  <2>1. /\ Moves(c, "clearAttempts", mem2FA[c]) /\ pc2FA[c] = "useCode"
        /\ UNCHANGED <<menu2FA, serial2FA, challenge2FA, attempts, attemptsExpire, grants, broken>>
    BY <1>11, FactorStays DEF Second!UseCode, Second!keys
  <2>2. CountEffect(c, "clearAttempts") /\ ChallengeEffect(c, "clearAttempts", mem2FA[c])
    BY <2>1 DEF CountEffect, ChallengeEffect
  <2>3. StepEffect(c, "clearAttempts", mem2FA[c])
    BY <2>1, <2>2 DEF StepEffect
  <2> QED BY <2>3
<1>12. CASE Second!Fail(c)
  <2>1. /\ pc2FA[c] = "fail" /\ attempts' = attempts + 1
        /\ UNCHANGED <<menu2FA, serial2FA, challenge2FA, attemptsExpire, grants, broken>>
    BY <1>12 DEF Second!Fail, Second!rows, Second!history
  <2>2. CASE attempts + 1 = 1
    <3>1. Moves(c, "setExpiry", mem2FA[c])
      BY <1>12, <2>1, <2>2, FactorStays DEF Second!Fail
    <3>2. CountEffect(c, "setExpiry") /\ ChallengeEffect(c, "setExpiry", mem2FA[c])
      BY <2>1 DEF CountEffect, ChallengeEffect
    <3>3. StepEffect(c, "setExpiry", mem2FA[c])
      BY <2>1, <3>1, <3>2 DEF StepEffect
    <3> QED BY <3>3
  <2>3. CASE attempts + 1 # 1
    <3>1. Moves(c, "idle", none)
      BY <1>12, <1>a, <2>1, <2>3, FactorReturns DEF Second!Fail
    <3>2. CountEffect(c, "idle") /\ ChallengeEffect(c, "idle", none)
      BY <1>0, <2>1, <2>3 DEF CountEffect, ChallengeEffect
    <3>3. StepEffect(c, "idle", none)
      BY <2>1, <3>1, <3>2 DEF StepEffect
    <3> QED BY <3>3
  <2> QED BY <2>2, <2>3
<1>13. CASE Second!SetExpiry(c)
  <2>1. /\ Moves(c, "idle", none) /\ pc2FA[c] = "setExpiry" /\ attemptsExpire' = (attempts > 0)
        /\ UNCHANGED <<menu2FA, serial2FA, challenge2FA, attempts, grants>>
    BY <1>13, <1>a, FactorReturns DEF Second!SetExpiry, Second!rows, Second!history
  <2>2. CountEffect(c, "idle") /\ ChallengeEffect(c, "idle", none)
    BY <2>1 DEF CountEffect, ChallengeEffect
  <2>3. StepEffect(c, "idle", none)
    BY <2>1, <2>2 DEF StepEffect
  <2> QED BY <2>3
<1>14. CASE Second!ClearAttempts(c)
  <2>1. /\ Moves(c, "clearChallenge", mem2FA[c]) /\ pc2FA[c] = "clearAttempts" /\ attempts' = 0
        /\ UNCHANGED <<menu2FA, serial2FA, challenge2FA, grants, broken>>
    BY <1>14, FactorStays DEF Second!ClearAttempts, Second!rows, Second!history
  <2>2. CountEffect(c, "clearChallenge") /\ ChallengeEffect(c, "clearChallenge", mem2FA[c])
    BY <2>1 DEF CountEffect, ChallengeEffect
  <2>3. StepEffect(c, "clearChallenge", mem2FA[c])
    BY <2>1, <2>2 DEF StepEffect
  <2> QED BY <2>3
<1>15. CASE Second!ClearChallenge(c)
  <2>1. /\ Moves(c, "clearLookup", mem2FA[c]) /\ pc2FA[c] = "clearChallenge"
        /\ challenge2FA' = 0
        /\ UNCHANGED <<menu2FA, serial2FA, attempts, attemptsExpire, grants, broken>>
    BY <1>15, FactorStays DEF Second!ClearChallenge, Second!rows, Second!history
  <2>2. CountEffect(c, "clearLookup") /\ ChallengeEffect(c, "clearLookup", mem2FA[c])
    BY <2>1 DEF CountEffect, ChallengeEffect
  <2>3. StepEffect(c, "clearLookup", mem2FA[c])
    BY <2>1, <2>2 DEF StepEffect
  <2> QED BY <2>3
<1>16. CASE Second!Grant(c)
  <2>1. /\ Moves(c, "idle", none) /\ pc2FA[c] = "clearLookup"
        /\ grants' = [grants EXCEPT ![mem2FA[c].token] = @ + 1]
        /\ UNCHANGED <<menu2FA, serial2FA, challenge2FA, attempts, attemptsExpire, broken>>
    BY <1>16, <1>a, FactorReturns DEF Second!Grant, Second!rows
  <2>2. CountEffect(c, "idle") /\ ChallengeEffect(c, "idle", none)
    BY <2>1 DEF CountEffect, ChallengeEffect
  <2>3. StepEffect(c, "idle", none)
    BY <2>1, <2>2 DEF StepEffect
  <2> QED BY <2>3
<1>17. CASE Second!Break(c)
  <2>1. /\ Moves(c, "idle", none) /\ pc2FA[c] # "idle"
        /\ UNCHANGED <<menu2FA, serial2FA, challenge2FA, attempts, attemptsExpire, grants>>
    BY <1>17, <1>a, FactorReturns DEF Second!Break, Second!rows, Second!keys
  <2>2. CountEffect(c, "idle")
    <3>1. broken' = (broken \/ pc2FA[c] = "setExpiry")
      BY <1>17 DEF Second!Break
    <3> QED BY <2>1, <3>1 DEF CountEffect
  <2>3. ChallengeEffect(c, "idle", none)
    BY <2>1 DEF ChallengeEffect
  <2>4. StepEffect(c, "idle", none)
    BY <2>1, <2>2, <2>3 DEF StepEffect
  <2> QED BY <2>4
<1> QED BY <1>2, <1>3, <1>4, <1>5, <1>6, <1>7, <1>10, <1>11, <1>12, <1>13, <1>14, <1>15,
           <1>16, <1>17 DEF Second!SetupStep, Second!ChallengeStep

-----------------------------------------------------------------------------
\* One lemma for each part of the invariant; keys may expire meanwhile.

LEMMA ExpiryRests ==
    ASSUME FactorTypes, Second!ExpireKey \/ UNCHANGED vars2FA
    PROVE  /\ UNCHANGED <<menu2FA, serial2FA, pc2FA, mem2FA, grants, broken>>
           /\ challenge2FA' \in {0, challenge2FA}
           /\ \/ attempts' = 0
              \/ attempts' = attempts /\ attemptsExpire' = attemptsExpire
BY DEF Second!ExpireKey, vars2FA, Second!rows, Second!history

LEMMA ServingNext ==
    ASSUME FactorTypes, ServingOK, [Second!Next]_vars2FA
    PROVE  ServingOK'
<1>1. CASE Second!ExpireKey \/ UNCHANGED vars2FA
  BY <1>1, ExpiryRests DEF ServingOK, Serving, FactorsAt
<1>2. ASSUME NEW c \in Calls, NEW l, NEW m, StepEffect(c, l, m) PROVE ServingOK'
  <2> DEFINE L == Second!PC \ {"idle"}
  <2>1. menu2FA.width \in Nat /\ pc2FA \in [Calls -> Second!PC]
    BY FactorNow
  <2>2. FactorsAt(L) = {d \in Calls : pc2FA[d] # "idle"}
    BY <2>1 DEF FactorsAt
  <2>3. /\ Moves(c, l, m) /\ menu2FA' = menu2FA
        /\ pc2FA[c] # "idle" \/ Cardinality(FactorsAt(L)) < menu2FA.width
    BY <1>2, <2>2 DEF StepEffect
  <2>4. (pc2FA[c] \in L <=> pc2FA[c] # "idle") /\ Cardinality(FactorsAt(L)) <= menu2FA.width
    BY <2>1 DEF ServingOK, Serving
  <2> HIDE DEF L
  <2>5. /\ Cardinality(FactorsAt(L)) \in Nat /\ Cardinality(FactorsAt(L)') \in Nat
        /\ pc2FA[c] \in L /\ l \notin L =>
             Cardinality(FactorsAt(L)') = Cardinality(FactorsAt(L)) - 1
        /\ pc2FA[c] \notin L /\ l \in L =>
             Cardinality(FactorsAt(L)') = Cardinality(FactorsAt(L)) + 1
        /\ (pc2FA[c] \in L <=> l \in L) =>
             Cardinality(FactorsAt(L)') = Cardinality(FactorsAt(L))
    BY <2>3, FactorsMove
  <2>6. Cardinality(FactorsAt(L)') <= menu2FA.width
    BY <2>1, <2>3, <2>4, <2>5
  <2> QED BY <2>3, <2>6 DEF ServingOK, Serving, L
<1>3. ASSUME NEW c \in Calls,
             Second!SetupStep(c) \/ Second!ChallengeStep(c) \/ Second!Break(c)
      PROVE  ServingOK'
  <2>1. PICK l, m : StepEffect(c, l, m)
    BY <1>3, StepEffects
  <2> QED BY <1>2, <2>1
<1> QED BY <1>1, <1>3 DEF Second!Next

\* Fewer calls are anywhere than are being served.
LEMMA ServingBounds ==
    ASSUME FactorTypes, ServingOK, NEW L, "idle" \notin L
    PROVE  Cardinality(FactorsAt(L)) \in Nat /\ Cardinality(FactorsAt(L)) <= menu2FA.width
<1>1. FactorsAt(L) \subseteq Serving /\ Serving \subseteq Calls /\ FactorsAt(L) \subseteq Calls
  BY FactorNow DEF FactorsAt, Serving
<1>2. Cardinality(FactorsAt(L)) <= Cardinality(Serving)
  BY <1>1, CallsCount, FS_Subset
<1>3. Cardinality(FactorsAt(L)) \in Nat /\ Cardinality(Serving) \in Nat /\ menu2FA.width \in Nat
  BY <1>1, CallsCount, FactorNow
<1> QED BY <1>2, <1>3 DEF ServingOK

LEMMA GuessesNext ==
    ASSUME FactorTypes, ServingOK, FactorTypes', ServingOK', GuessesOK,
           [Second!Next]_vars2FA
    PROVE  GuessesOK'
<1>0. /\ attempts \in Nat /\ attempts' \in Nat /\ menu2FA.width \in Nat
      /\ MaxFailed \in Nat \ {0} /\ "idle" \notin PastLock
      /\ attempts + Cardinality(FactorsAt(PastLock)) <= MaxFailed + menu2FA.width - 1
  BY FactorAssumption, FactorNow DEF FactorTypes, Second!TypeOK, PastLock, GuessesOK
<1>1. /\ Cardinality(FactorsAt(PastLock)) \in Nat
      /\ Cardinality(FactorsAt(PastLock)') \in Nat
      /\ Cardinality(FactorsAt(PastLock)') <= menu2FA'.width
  <2>1. Cardinality(FactorsAt(PastLock)) \in Nat
    BY <1>0, ServingBounds
  <2>2. /\ FactorsAt(PastLock)' \subseteq Serving' /\ Serving' \subseteq Calls
        /\ FactorsAt(PastLock)' \subseteq Calls
    BY <1>0 DEF FactorsAt, Serving, FactorTypes, Second!TypeOK
  <2>3. Cardinality(FactorsAt(PastLock)') <= Cardinality(Serving')
    BY <2>2, CallsCount, FS_Subset
  <2>4. Cardinality(FactorsAt(PastLock)') \in Nat /\ Cardinality(Serving') \in Nat
    BY <2>2, CallsCount
  <2>5. Cardinality(Serving') <= menu2FA'.width /\ menu2FA'.width \in Nat
    BY FactorAssumption DEF ServingOK, FactorTypes
  <2> QED BY <2>1, <2>3, <2>4, <2>5
<1>2. CASE Second!ExpireKey \/ UNCHANGED vars2FA
  <2>1. /\ menu2FA' = menu2FA /\ FactorsAt(PastLock)' = FactorsAt(PastLock)
        /\ attempts' = 0 \/ attempts' = attempts
    BY <1>2, ExpiryRests DEF FactorsAt
  <2> QED BY <1>0, <1>1, <2>1 DEF GuessesOK
<1>3. ASSUME NEW c \in Calls, NEW l, NEW m, StepEffect(c, l, m) PROVE GuessesOK'
  <2>1. Moves(c, l, m) /\ menu2FA' = menu2FA
    BY <1>3 DEF StepEffect
  <2>2. /\ pc2FA[c] \in PastLock /\ l \notin PastLock =>
             Cardinality(FactorsAt(PastLock)') = Cardinality(FactorsAt(PastLock)) - 1
        /\ pc2FA[c] \notin PastLock /\ l \in PastLock =>
             Cardinality(FactorsAt(PastLock)') = Cardinality(FactorsAt(PastLock)) + 1
        /\ (pc2FA[c] \in PastLock <=> l \in PastLock) =>
             Cardinality(FactorsAt(PastLock)') = Cardinality(FactorsAt(PastLock))
    BY <2>1, FactorsMove
  <2>3. \/ /\ attempts' = attempts
           /\ l \in PastLock => pc2FA[c] \in PastLock \/ attempts < MaxFailed
        \/ attempts' = 0
        \/ attempts' = attempts + 1 /\ pc2FA[c] \in PastLock /\ l \notin PastLock
    BY <1>3 DEF StepEffect, CountEffect, PastLock
  <2>4. attempts' + Cardinality(FactorsAt(PastLock)') <= MaxFailed + menu2FA.width - 1
    <3>1. CASE attempts' = 0 \/ (attempts' = attempts /\ attempts < MaxFailed)
      BY <1>0, <1>1, <2>1, <3>1
    <3>2. CASE attempts' = attempts /\ (l \in PastLock => pc2FA[c] \in PastLock)
      BY <1>0, <1>1, <2>2, <3>2
    <3>3. CASE attempts' = attempts + 1 /\ pc2FA[c] \in PastLock /\ l \notin PastLock
      BY <1>0, <1>1, <2>2, <3>3
    <3> QED BY <2>3, <3>1, <3>2, <3>3
  <2> QED BY <2>1, <2>4 DEF GuessesOK
<1>4. ASSUME NEW c \in Calls,
             Second!SetupStep(c) \/ Second!ChallengeStep(c) \/ Second!Break(c)
      PROVE  GuessesOK'
  <2>1. PICK l, m : StepEffect(c, l, m)
    BY <1>4, StepEffects
  <2> QED BY <1>3, <2>1
<1> QED BY <1>2, <1>4 DEF Second!Next

LEMMA LockoutNext ==
    ASSUME FactorTypes, Second!LockoutEnds, [Second!Next]_vars2FA
    PROVE  Second!LockoutEnds'
<1>1. CASE Second!ExpireKey \/ UNCHANGED vars2FA
  BY <1>1, ExpiryRests DEF Second!LockoutEnds
<1>2. ASSUME NEW c \in Calls, NEW l, NEW m, StepEffect(c, l, m) PROVE Second!LockoutEnds'
  <2>0. attempts \in Nat
    BY FactorNow
  <2>1. pc2FA'[c] = l /\ \A d \in Calls \ {c} : pc2FA'[d] = pc2FA[d]
    BY <1>2, Moved DEF StepEffect
  <2>2. CountEffect(c, l)
    BY <1>2 DEF StepEffect
  <2>3. pc2FA[c] # "setExpiry" =>
          \A d \in Calls : pc2FA[d] = "setExpiry" => pc2FA'[d] = "setExpiry"
    BY <2>1
  <2>4. CASE attempts' = attempts /\ attemptsExpire' = attemptsExpire /\ (broken => broken')
             /\ pc2FA[c] # "setExpiry"
    BY <2>0, <2>3, <2>4 DEF Second!LockoutEnds
  <2>5. CASE attempts' = 0
    BY <2>5 DEF Second!LockoutEnds
  <2>6. CASE attempts' = attempts + 1 /\ attemptsExpire' = attemptsExpire /\ broken' = broken
             /\ pc2FA[c] = "fail" /\ (attempts = 0 => l = "setExpiry")
    <3>1. CASE attempts = 0
      BY <2>1, <2>6, <3>1 DEF Second!LockoutEnds
    <3>2. CASE attempts # 0
      BY <2>0, <2>3, <2>6, <3>2 DEF Second!LockoutEnds
    <3> QED BY <3>1, <3>2
  <2>7. CASE attempts' = attempts /\ (broken' \/ (attempts > 0 => attemptsExpire'))
    BY <2>7 DEF Second!LockoutEnds
  <2> QED BY <2>2, <2>4, <2>5, <2>6, <2>7 DEF CountEffect
<1>3. ASSUME NEW c \in Calls,
             Second!SetupStep(c) \/ Second!ChallengeStep(c) \/ Second!Break(c)
      PROVE  Second!LockoutEnds'
  <2>1. PICK l, m : StepEffect(c, l, m)
    BY <1>3, StepEffects
  <2> QED BY <1>2, <2>1
<1> QED BY <1>1, <1>3 DEF Second!Next

LEMMA GrantsNext ==
    ASSUME FactorTypes, ServingOK, FactorTypes', ServingOK', GrantsOK,
           [Second!Next]_vars2FA
    PROVE  GrantsOK'
<1>0. /\ serial2FA \in Nat /\ challenge2FA \in 0..serial2FA /\ menu2FA.width \in Nat
      /\ menu2FA.calls \in Nat /\ grants \in [1..(menu2FA.calls + 1) -> Nat]
      /\ \A c \in Calls : mem2FA[c].token \in 0..serial2FA
      /\ \A c \in Calls : pc2FA[c] \in Tokened => mem2FA[c].token > 0
  BY FactorNow
<1>1. CASE Second!ExpireKey \/ UNCHANGED vars2FA
  <2>1. /\ UNCHANGED <<menu2FA, serial2FA, pc2FA, mem2FA, grants>>
        /\ challenge2FA' \in {0, challenge2FA}
    BY <1>1, ExpiryRests
  <2>2. \A t : PassingOf(t)' = PassingOf(t)
    BY <2>1 DEF PassingOf
  <2>3. \A c \in Calls : pc2FA[c] = "clearLookup" => mem2FA[c].token # 0
    BY <1>0 DEF Tokened
  <2> QED BY <1>0, <2>1, <2>2, <2>3 DEF GrantsOK
<1>2. ASSUME NEW c \in Calls, NEW l, NEW m, StepEffect(c, l, m) PROVE GrantsOK'
  <2>1. /\ Moves(c, l, m) /\ menu2FA' = menu2FA /\ serial2FA' \in {serial2FA, serial2FA + 1}
        /\ ChallengeEffect(c, l, m)
    BY <1>2 DEF StepEffect
  <2>2. /\ pc2FA'[c] = l /\ mem2FA'[c] = m
        /\ \A d \in Calls \ {c} : pc2FA'[d] = pc2FA[d] /\ mem2FA'[d] = mem2FA[d]
    BY <2>1, Moved
  <2>3. \/ challenge2FA' \in {0, challenge2FA}
        \/ challenge2FA' = serial2FA + 1 /\ serial2FA' = serial2FA + 1
    BY <2>1 DEF ChallengeEffect
  <2>4. DOMAIN grants' = DOMAIN grants
    BY <2>1 DEF ChallengeEffect
  <2>5. ASSUME NEW t \in DOMAIN grants
        PROVE  /\ grants'[t] + Cardinality(PassingOf(t)') <= menu2FA.width
               /\ grants'[t] > 0 => challenge2FA' # t /\ t <= serial2FA'
    <3> DEFINE S == PassingOf(t)
               T == {d \in Calls : pc2FA'[d] \in Passing /\ mem2FA'[d].token = t}
    <3>1. T = PassingOf(t)' /\ S \subseteq Calls /\ T \subseteq Calls
      BY DEF PassingOf
    <3>2. /\ c \in S <=> pc2FA[c] \in Passing /\ mem2FA[c].token = t
          /\ c \in T <=> l \in Passing /\ m.token = t
          /\ \A d \in Calls \ {c} : d \in S <=> d \in T
      BY <2>2 DEF PassingOf
    <3>3. /\ grants[t] \in Nat /\ grants[t] + Cardinality(S) <= menu2FA.width
          /\ grants[t] > 0 => challenge2FA # t /\ t <= serial2FA
          /\ t \in Nat \ {0}
      BY <1>0 DEF GrantsOK
    <3> HIDE DEF S, T
    <3>4. /\ Cardinality(S) \in Nat /\ Cardinality(T) \in Nat
          /\ c \in S /\ c \notin T => Cardinality(T) = Cardinality(S) - 1
          /\ c \notin S /\ c \in T => Cardinality(T) = Cardinality(S) + 1
          /\ (c \in S <=> c \in T) => Cardinality(T) = Cardinality(S)
      BY <3>1, <3>2, OneMoves
    <3>5. Cardinality(T) <= menu2FA.width
      <4>1. T \subseteq Serving' /\ Serving' \subseteq Calls
        BY <3>1 DEF T, FactorsAt, Serving, FactorTypes, Second!TypeOK, Passing, Tokened
      <4>2. Cardinality(T) <= Cardinality(Serving') /\ Cardinality(Serving') \in Nat
        BY <4>1, CallsCount, FS_Subset
      <4>3. Cardinality(Serving') <= menu2FA.width
        BY <2>1 DEF ServingOK
      <4> QED BY <1>0, <3>4, <4>2, <4>3
    \* No call comes to a challenge that was passed.
    <3>6. c \notin S /\ c \in T => grants[t] = 0
      BY <2>1, <3>2, <3>3 DEF ChallengeEffect
    <3>7. CASE grants' = grants
      <4>1. grants[t] + Cardinality(T) <= menu2FA.width
        BY <1>0, <3>3, <3>4, <3>5, <3>6
      <4>2. grants[t] > 0 => challenge2FA' # t /\ t <= serial2FA'
        BY <1>0, <2>1, <2>3, <3>3
      <4> QED BY <3>1, <3>7, <4>1, <4>2
    <3>8. CASE /\ pc2FA[c] = "clearLookup" /\ l = "idle" /\ challenge2FA' = challenge2FA
               /\ grants' = [grants EXCEPT ![mem2FA[c].token] = @ + 1]
      <4>1. CASE mem2FA[c].token = t
        <5>1. c \in S /\ c \notin T
          BY <3>2, <3>8, <4>1 DEF Passing, Tokened
        <5>2. grants'[t] = grants[t] + 1 /\ Cardinality(T) = Cardinality(S) - 1
          BY <3>4, <3>8, <4>1, <5>1
        <5>3. challenge2FA # t /\ t <= serial2FA
          BY <1>0, <3>8, <4>1 DEF GrantsOK
        <5>4. serial2FA <= serial2FA'
          BY <1>0, <2>1
        <5>5. grants'[t] + Cardinality(T) <= menu2FA.width
          BY <1>0, <3>3, <3>4, <5>2
        <5>6. challenge2FA' # t /\ t <= serial2FA'
          BY <1>0, <2>1, <3>3, <3>8, <5>3, <5>4
        <5> QED BY <3>1, <5>5, <5>6
      <4>2. CASE mem2FA[c].token # t
        <5>1. grants'[t] = grants[t]
          BY <3>8, <4>2
        <5>2. grants[t] + Cardinality(T) <= menu2FA.width
          BY <1>0, <3>3, <3>4, <3>5, <3>6
        <5> QED BY <1>0, <2>1, <3>1, <3>3, <3>8, <5>1, <5>2
      <4> QED BY <4>1, <4>2
    <3> QED BY <2>1, <3>7, <3>8 DEF ChallengeEffect
  <2>6. ASSUME NEW d \in Calls, pc2FA'[d] = "clearLookup"
        PROVE  challenge2FA' # mem2FA'[d].token
    <3>1. CASE d = c
      <4>1. l = "clearLookup" /\ l \in Passing
        BY <2>2, <2>6, <3>1 DEF Passing, Tokened
      <4>2. challenge2FA' = 0
        BY <2>1, <4>1 DEF ChallengeEffect
      <4>3. mem2FA'[c].token > 0 /\ mem2FA'[c].token \in Nat
        BY <2>2, <4>1 DEF FactorTypes, FactorMem, Passing
      <4> QED BY <3>1, <4>2, <4>3
    <3>2. CASE d # c
      <4>1. pc2FA[d] = "clearLookup" /\ mem2FA'[d] = mem2FA[d]
        BY <2>2, <2>6, <3>2
      <4>2. /\ challenge2FA # mem2FA[d].token /\ mem2FA[d].token \in 0..serial2FA
            /\ mem2FA[d].token > 0
        BY <1>0, <4>1 DEF GrantsOK, Tokened
      <4> QED BY <1>0, <2>3, <4>1, <4>2
    <3> QED BY <3>1, <3>2
  <2> QED BY <2>1, <2>4, <2>5, <2>6 DEF GrantsOK
<1>3. ASSUME NEW c \in Calls,
             Second!SetupStep(c) \/ Second!ChallengeStep(c) \/ Second!Break(c)
      PROVE  GrantsOK'
  <2>1. PICK l, m : StepEffect(c, l, m)
    BY <1>3, StepEffects
  <2> QED BY <1>2, <2>1
<1> QED BY <1>1, <1>3 DEF Second!Next

LEMMA FactorInit == Second!Init => FactorIInv
BY FactorTypesInit DEF Second!Init, Second!LockoutEnds, FactorIInv

LEMMA FactorNext == FactorIInv /\ [Second!Next]_vars2FA => FactorIInv'
<1> SUFFICES ASSUME FactorIInv, [Second!Next]_vars2FA PROVE FactorIInv'
  OBVIOUS
<1>1. FactorTypes /\ ServingOK /\ GuessesOK /\ Second!LockoutEnds /\ GrantsOK
  BY DEF FactorIInv
<1>2. FactorTypes'
  BY <1>1, FactorTypesNext
<1>3. ServingOK'
  BY <1>1, ServingNext
<1>4. GuessesOK' /\ GrantsOK'
  BY <1>1, <1>2, <1>3, GuessesNext, GrantsNext
<1>5. Second!LockoutEnds'
  BY <1>1, LockoutNext
<1> QED BY <1>2, <1>3, <1>4, <1>5 DEF FactorIInv

-----------------------------------------------------------------------------
(* The wallet service's own check of a second factor.                      *)

\* The calls that wait may each count one more.
CodesOK ==
    /\ tracker.count + Cardinality(asking) <= MaxWithdrawalAttempts + Cardinality(Calls) - 1
WithdrawalIInv == Withdrawal!TypeOK /\ CodesOK

LEMMA WithdrawalInit == Withdrawal!Init => WithdrawalIInv
<1> SUFFICES ASSUME Withdrawal!Init PROVE WithdrawalIInv
  OBVIOUS
<1>1. Cardinality(asking) = 0 /\ Cardinality(Calls) \in Nat
  BY FS_EmptySet, CallsCount DEF Withdrawal!Init
<1>2. CodesOK
  BY <1>1, WithdrawalAssumption DEF Withdrawal!Init, Withdrawal!NoTracker, CodesOK
<1> QED BY <1>2, WithdrawalAssumption
        DEF Withdrawal!Init, Withdrawal!NoTracker, Withdrawal!TypeOK, WithdrawalIInv

\* What an entry is when its window is looked at, and what one more code makes of it.
LEMMA TrackedType ==
    ASSUME Withdrawal!TypeOK
    PROVE  /\ {Withdrawal!NoTracker, Withdrawal!Current, Withdrawal!Tracked}
                \subseteq [count : Nat, resetAt : 0..(WithdrawalTime + AttemptWindow)]
           /\ Withdrawal!Current.count <= tracker.count
           /\ Withdrawal!Tracked.count <= Withdrawal!Current.count + 1
<1> DEFINE R == [count : Nat, resetAt : 0..(WithdrawalTime + AttemptWindow)]
<1>1. Withdrawal!NoTracker \in R /\ Withdrawal!NoTracker.count = 0
  BY WithdrawalAssumption DEF Withdrawal!NoTracker
<1>2. tracker \in R
  BY DEF Withdrawal!TypeOK
<1>3. Withdrawal!Current \in R /\ Withdrawal!Current.count <= tracker.count
  BY <1>1, <1>2 DEF Withdrawal!Current
<1>4. Withdrawal!Tracked \in R /\ Withdrawal!Tracked.count <= Withdrawal!Current.count + 1
  <2>1. CASE Withdrawal!Current = Withdrawal!NoTracker
    BY <1>1, <2>1, WithdrawalAssumption DEF Withdrawal!Tracked, Withdrawal!TypeOK
  <2>2. CASE Withdrawal!Current # Withdrawal!NoTracker
    BY <1>3, <2>2 DEF Withdrawal!Tracked
  <2> QED BY <2>1, <2>2
<1> QED BY <1>1, <1>3, <1>4

LEMMA WithdrawalNext == WithdrawalIInv /\ [Withdrawal!Next]_varsWithdrawal => WithdrawalIInv'
<1> SUFFICES ASSUME WithdrawalIInv, [Withdrawal!Next]_varsWithdrawal PROVE WithdrawalIInv'
  OBVIOUS
<1> DEFINE R == [count : Nat, resetAt : 0..(WithdrawalTime + AttemptWindow)]
           n == Cardinality(Calls)
<1>1. /\ nowWithdrawal \in 1..WithdrawalTime /\ tracker \in R /\ asking \subseteq Calls
      /\ tracker.count + Cardinality(asking) <= MaxWithdrawalAttempts + n - 1
      /\ MaxWithdrawalAttempts \in Nat \ {0}
  BY WithdrawalAssumption DEF WithdrawalIInv, Withdrawal!TypeOK, CodesOK
<1>2. n \in Nat /\ Cardinality(asking) \in Nat /\ Cardinality({}) = 0
  BY <1>1, CallsCount, FS_EmptySet
<1>3. /\ Withdrawal!NoTracker \in R /\ Withdrawal!Current \in R /\ Withdrawal!Tracked \in R
      /\ Withdrawal!NoTracker.count = 0
      /\ Withdrawal!Current.count <= tracker.count
      /\ Withdrawal!Tracked.count <= Withdrawal!Current.count + 1
  BY TrackedType DEF WithdrawalIInv, Withdrawal!NoTracker
<1>4. Withdrawal!IsRateLimited <=> Withdrawal!Current.count >= MaxWithdrawalAttempts
  BY DEF Withdrawal!IsRateLimited
\* It is enough to look at the count and at who waits.
<1>5. ASSUME nowWithdrawal' = nowWithdrawal, tracker' \in R, asking' \subseteq Calls,
             tracker'.count + Cardinality(asking') <= MaxWithdrawalAttempts + n - 1
      PROVE  WithdrawalIInv'
  BY <1>1, <1>5 DEF WithdrawalIInv, Withdrawal!TypeOK, CodesOK
<1>6. CASE Withdrawal!Tick
  BY <1>1, <1>6, WithdrawalAssumption
     DEF Withdrawal!Tick, WithdrawalIInv, Withdrawal!TypeOK, CodesOK
<1>7. CASE Withdrawal!Restart \/ Withdrawal!ClearRateLimit
  <2>1. /\ nowWithdrawal' = nowWithdrawal /\ tracker' = Withdrawal!NoTracker
        /\ asking' \in {{}, asking}
    BY <1>7 DEF Withdrawal!Restart, Withdrawal!ClearRateLimit
  <2>2. Cardinality(asking') <= n /\ Cardinality(asking') \in Nat /\ asking' \subseteq Calls
    BY <1>1, <2>1, CallsCount
  <2> QED BY <1>1, <1>2, <1>3, <1>5, <2>1, <2>2
<1>8. ASSUME NEW c \in Calls, Withdrawal!Refuse(c) PROVE WithdrawalIInv'
  BY <1>1, <1>2, <1>3, <1>5, <1>8 DEF Withdrawal!Refuse
<1>9. ASSUME NEW c \in Calls, Withdrawal!BadFormat(c) PROVE WithdrawalIInv'
  <2>1. /\ nowWithdrawal' = nowWithdrawal /\ tracker' = Withdrawal!Tracked /\ asking' = asking
        /\ c \notin asking /\ ~(Withdrawal!Current.count >= MaxWithdrawalAttempts)
    BY <1>4, <1>9 DEF Withdrawal!BadFormat
  <2>2. Cardinality(asking) <= n - 1
    <3>1. asking \cup {c} \subseteq Calls
      BY <1>1
    <3>2. /\ Cardinality(asking \cup {c}) <= n
          /\ Cardinality(asking \cup {c}) = Cardinality(asking) + 1
      BY <1>1, <2>1, <3>1, CallsCount, FS_AddElement
    <3> QED BY <1>2, <3>2
  <2> QED BY <1>1, <1>2, <1>3, <1>5, <2>1, <2>2
<1>10. ASSUME NEW c \in Calls, Withdrawal!Ask(c) PROVE WithdrawalIInv'
  <2>1. /\ nowWithdrawal' = nowWithdrawal /\ tracker' = Withdrawal!Current
        /\ asking' = asking \cup {c} /\ ~(Withdrawal!Current.count >= MaxWithdrawalAttempts)
    BY <1>4, <1>10 DEF Withdrawal!Ask
  <2>2. asking' \subseteq Calls
    BY <1>1, <2>1
  <2>3. Cardinality(asking') <= n /\ Cardinality(asking') \in Nat
    BY <2>2, CallsCount
  <2> QED BY <1>1, <1>2, <1>3, <1>5, <2>1, <2>2, <2>3
<1>11. ASSUME NEW c \in Calls,
              Withdrawal!Valid(c) \/ Withdrawal!Invalid(c) \/ Withdrawal!Unavailable(c)
       PROVE  WithdrawalIInv'
  <2>1. /\ nowWithdrawal' = nowWithdrawal /\ c \in asking /\ asking' = asking \ {c}
        /\ tracker' \in {Withdrawal!NoTracker, Withdrawal!Tracked, tracker}
    BY <1>11 DEF Withdrawal!Valid, Withdrawal!Invalid, Withdrawal!Unavailable
  <2>2. asking' \subseteq Calls
    BY <1>1, <2>1
  <2>3. Cardinality(asking') = Cardinality(asking) - 1 /\ Cardinality(asking') \in Nat
    <3>1. \A d \in Calls \ {c} : d \in asking <=> d \in asking'
      BY <2>1
    <3> QED BY <1>1, <2>1, <2>2, <3>1, OneMoves
  <2> QED BY <1>1, <1>2, <1>3, <1>5, <2>1, <2>2, <2>3
<1>12. CASE UNCHANGED varsWithdrawal
  BY <1>1, <1>5, <1>12 DEF varsWithdrawal
<1> QED BY <1>6, <1>7, <1>8, <1>9, <1>10, <1>11, <1>12 DEF Withdrawal!Next

-----------------------------------------------------------------------------
(* The rate limiter.                                                       *)

Pipeline == {"remove", "add", "count"}

\* Requests are finite in number and dated; nobody waits inside a pipeline.
DatesOK ==
    /\ nowRate \in 1..RateTime /\ startedRate \in 0..MaxRequests /\ whitelist \in BOOLEAN
    /\ entries \subseteq Rate!Entry /\ IsFiniteSet(entries)
    /\ allowed \subseteq Rate!Entry /\ IsFiniteSet(allowed)
    /\ mine \in [Calls -> Rate!Entry]
    /\ pcRate \in [Calls -> Rate!PC]
    /\ \A e \in allowed : e.at <= nowRate
    /\ \A c \in Calls : pcRate[c] \in Pipeline => mine[c].at = nowRate

\* The sorted set still has what counts.
WindowOK ==
    /\ \A e \in allowed : nowRate < e.at + RateWindow => e \in entries
    /\ \A c \in Calls : pcRate[c] = "count" => mine[c] \in entries

Within(t) == {e \in allowed : e.at <= t /\ t < e.at + RateWindow}
WindowsKept == \A t \in Nat : Cardinality(Within(t)) <= Limit

RateIInv == DatesOK /\ WindowOK /\ WindowsKept

LEMMA RateInit == ASSUME Rate!Init PROVE RateIInv
<1> USE RateAssumption
<1>1. \A t \in Nat : Within(t) = {}
  BY DEF Rate!Init, Within
<1>2. \A t \in Nat : Cardinality(Within(t)) <= Limit
  BY <1>1, FS_EmptySet
<1>3. IsFiniteSet(entries) /\ IsFiniteSet(allowed)
  BY FS_EmptySet DEF Rate!Init
<1> QED BY <1>2, <1>3
        DEF Rate!Init, RateIInv, DatesOK, WindowOK, WindowsKept, Rate!Entry, Rate!PC, Pipeline

\* What is in a window that has not passed is in the sorted set, if its
\* youngest entry is.
LEMMA WindowIsCounted ==
    ASSUME DatesOK, WindowOK, NEW t \in Nat, nowRate <= t
    PROVE  Within(t) \subseteq entries
BY RateAssumption DEF DatesOK, WindowOK, Within, Rate!Entry

\* A request is let through by what it counted, so every window keeps its limit.
LEMMA CountKeepsWindows ==
    ASSUME RateIInv, NEW c \in Calls, Rate!Count(c)
    PROVE  WindowsKept'
<1> USE RateAssumption
<1>1. CASE allowed' = allowed
  BY <1>1 DEF RateIInv, WindowsKept, Within
<1>2. CASE allowed' = allowed \cup {mine[c]} /\ Cardinality(entries) <= Limit
  <2> SUFFICES ASSUME NEW t \in Nat PROVE Cardinality(Within(t)') <= Limit
    BY DEF WindowsKept
  <2>1. mine[c] \in entries /\ mine[c] \in Rate!Entry /\ mine[c].at = nowRate
    BY DEF Rate!Count, RateIInv, WindowOK, DatesOK, Pipeline
  <2>2. CASE nowRate <= t
    <3>1. Within(t)' \subseteq entries
      BY <1>2, <2>1, <2>2, WindowIsCounted DEF Within, RateIInv
    <3>2. Cardinality(Within(t)') <= Cardinality(entries) /\ Cardinality(entries) \in Nat
          /\ Cardinality(Within(t)') \in Nat
      BY <3>1, FS_Subset, FS_CardinalityType DEF RateIInv, DatesOK
    <3> QED BY <1>2, <3>2
  <2>3. CASE ~(nowRate <= t)
    <3>1. Within(t)' = Within(t)
      BY <1>2, <2>1, <2>3 DEF Within, RateIInv, DatesOK, Rate!Entry
    <3> QED BY <3>1 DEF RateIInv, WindowsKept
  <2> QED BY <2>2, <2>3
<1> QED BY <1>1, <1>2, Counts DEF Rate!Count, Rate!Respond

LEMMA RateNext == ASSUME RateIInv, [Rate!Next]_varsRate PROVE RateIInv'
<1> USE RateAssumption DEF RateIInv
<1>1. CASE Rate!Tick
  <2>1. DatesOK'
    BY <1>1 DEF Rate!Tick, DatesOK, Pipeline, Rate!PC, Rate!Entry
  <2>2. WindowOK'
    BY <1>1 DEF Rate!Tick, DatesOK, WindowOK, Rate!Entry
  <2>3. WindowsKept'
    BY <1>1 DEF Rate!Tick, WindowsKept, Within
  <2> QED BY <2>1, <2>2, <2>3
<1>2. ASSUME NEW c \in Calls, Rate!RecaptchaGuard(c) PROVE RateIInv'
  BY <1>2
     DEF Rate!RecaptchaGuard, Rate!Goto, DatesOK, WindowOK, WindowsKept, Within, Pipeline,
         Rate!PC, Rate!Entry
<1>3. ASSUME NEW c \in Calls, Rate!Verify(c) PROVE RateIInv'
  BY <1>3 DEF Rate!Verify, Rate!Goto, DatesOK, WindowOK, WindowsKept, Within, Pipeline, Rate!PC
<1>4. ASSUME NEW c \in Calls, Rate!Whitelisted(c) PROVE RateIInv'
  BY <1>4
     DEF Rate!Whitelisted, Rate!Goto, DatesOK, WindowOK, WindowsKept, Within, Pipeline,
         Rate!PC
<1>5. ASSUME NEW c \in Calls, Rate!CanActivate(c) PROVE RateIInv'
  BY <1>5
     DEF Rate!CanActivate, Rate!Goto, DatesOK, WindowOK, WindowsKept, Within, Pipeline,
         Rate!PC, Rate!Entry
<1>6. ASSUME NEW c \in Calls, Rate!RemoveOld(c) PROVE RateIInv'
  <2>1. mine[c].at = nowRate
    BY <1>6 DEF Rate!RemoveOld, DatesOK, Pipeline
  <2>2. IsFiniteSet(entries')
    BY <1>6, FS_Subset DEF Rate!RemoveOld, DatesOK
  <2>3. DatesOK'
    BY <1>6, <2>2 DEF Rate!RemoveOld, Rate!Goto, DatesOK, Pipeline, Rate!PC
  <2>4. WindowOK'
    BY <1>6, <2>1 DEF Rate!RemoveOld, Rate!Goto, DatesOK, WindowOK, Pipeline, Rate!PC, Rate!Entry
  <2> QED BY <1>6, <2>3, <2>4 DEF Rate!RemoveOld, WindowsKept, Within
<1>7. ASSUME NEW c \in Calls, Rate!Add(c) PROVE RateIInv'
  <2>1. IsFiniteSet(entries')
    BY <1>7, FS_AddElement DEF Rate!Add, DatesOK
  <2>2. DatesOK'
    BY <1>7, <2>1 DEF Rate!Add, Rate!Goto, DatesOK, Pipeline, Rate!PC
  <2>3. WindowOK'
    BY <1>7 DEF Rate!Add, Rate!Goto, DatesOK, WindowOK, Rate!PC
  <2> QED BY <1>7, <2>2, <2>3 DEF Rate!Add, WindowsKept, Within
<1>8. ASSUME NEW c \in Calls, Rate!Count(c) PROVE RateIInv'
  <2>1. mine[c] \in Rate!Entry /\ mine[c] \in entries /\ mine[c].at = nowRate
    BY <1>8 DEF Rate!Count, DatesOK, WindowOK, Pipeline
  <2>2. IsFiniteSet(allowed')
    BY <1>8, FS_AddElement DEF Rate!Count, Rate!Respond, DatesOK
  <2>3. DatesOK'
    BY <1>8, <2>1, <2>2 DEF Rate!Count, Rate!Respond, Rate!Goto, DatesOK, Pipeline, Rate!PC
  <2>4. WindowOK'
    BY <1>8, <2>1 DEF Rate!Count, Rate!Respond, Rate!Goto, DatesOK, WindowOK, Rate!PC
  <2> QED BY <1>8, <2>3, <2>4, CountKeepsWindows
<1>9. CASE UNCHANGED varsRate
  BY <1>9 DEF varsRate, DatesOK, WindowOK, WindowsKept, Within
<1> QED BY <1>1, <1>2, <1>3, <1>4, <1>5, <1>6, <1>7, <1>8, <1>9 DEF Rate!Next

-----------------------------------------------------------------------------
(* All parts.                                                              *)

AuthIInv == AccountIInv /\ TokensIInv /\ FactorIInv /\ RateIInv /\ WithdrawalIInv

LEMMA AuthInvariant == AuthSpec => []AuthIInv
<1>1. ASSUME AuthInit PROVE AuthIInv
  <2>1. Init /\ Second!Init /\ Rate!Init /\ Withdrawal!Init
    BY <1>1 DEF AuthInit
  <2>2. AccountIInv /\ TokensIInv /\ FactorIInv
    BY <2>1, AccountInit, TokensInit, FactorInit
  <2>3. RateIInv /\ WithdrawalIInv
    BY <2>1, RateInit, WithdrawalInit
  <2> QED BY <2>2, <2>3 DEF AuthIInv
<1>2. ASSUME AuthIInv, [AuthNext]_authVars PROVE AuthIInv'
  <2>1. /\ [Next]_vars /\ [Second!Next]_vars2FA /\ [Rate!Next]_varsRate
        /\ [Withdrawal!Next]_varsWithdrawal
    BY <1>2, PartSteps
  <2>2. AccountIInv /\ TokensIInv /\ FactorIInv /\ RateIInv /\ WithdrawalIInv
    BY <1>2 DEF AuthIInv
  <2>3. AccountIInv'
    BY <2>1, <2>2, AccountNext
  <2>4. TokensIInv'
    BY <2>1, <2>2, TokensNext
  <2>5. FactorIInv'
    BY <2>1, <2>2, FactorNext
  <2>6. RateIInv'
    BY <2>1, <2>2, RateNext
  <2>7. WithdrawalIInv'
    BY <2>1, <2>2, WithdrawalNext
  <2> QED BY <2>3, <2>4, <2>5, <2>6, <2>7 DEF AuthIInv
<1> QED BY <1>1, <1>2, PTL DEF AuthSpec

\* auth.service.ts, two-factor.service.ts and the guards: every part keeps its
\* types, and the numbers it makes stay within the requests that have come; a
\* backup code has one row and the unused ones are of one setup, also when a
\* code is saved as used after a setup has deleted its row.
THEOREM AuthTypesAreKept == AuthSpec => []AuthTypeOK
<1>1. ASSUME AccountTypes PROVE TypeOK
  <2>1. /\ scenario.calls \in Nat /\ started \in Nat /\ started <= scenario.calls
        /\ serial \in Nat
        /\ serial + Cardinality(CallsAt(MakingToken)) <= started
    BY <1>1, AccountNow DEF AccountTypes
  <2>2. Cardinality(CallsAt(MakingToken)) \in Nat
    BY CallsCount DEF CallsAt
  <2>3. serial \in 0..scenario.calls
    BY <2>1, <2>2
  <2>4. ASSUME NEW c \in Calls
        PROVE  /\ mem[c].user \in UserRow /\ mem[c].token \in 0..serial
               /\ mem[c].found \subseteq SessionRow /\ mem[c].reset \in ResetRow
    <3>1. mem[c] \in Mem /\ mem[c].token \in Nat /\ mem[c].token <= serial
      BY <1>1, AccountNow
    <3>2. /\ mem[c].user \in UserRow
          /\ mem[c].found \subseteq SessionRow /\ mem[c].reset \in ResetRow
      BY <3>1 DEF Mem
    <3> QED BY <2>1, <3>1, <3>2
  <2> QED BY <1>1, <2>3, <2>4 DEF AccountTypes, DataTypes, CallTypes, TypeOK
<1>2. ASSUME DatesOK PROVE Rate!TypeOK
  BY <1>2 DEF DatesOK, Rate!TypeOK
<1>3. AuthIInv => AuthTypeOK
  BY <1>1, <1>2 DEF AuthIInv, AccountIInv, FactorIInv, FactorTypes, RateIInv, WithdrawalIInv,
                    AuthTypeOK
<1> QED BY <1>3, AuthInvariant, PTL

\* logout, blacklistAllUserTokens and the guard of the auth service's
\* jwt.strategy.ts: a request to that service with a token that was dead when it
\* came is not served unless Redis failed its checks, whatever other calls do
\* meanwhile.
THEOREM RevokedStaysRevoked == AuthSpec => []RevokedIsRefused
<1>1. AuthIInv => RevokedIsRefused
  BY DEF AuthIInv, TokensIInv, CallsOK, CallOK, WillBeRefused, RevokedIsRefused
<1> QED BY <1>1, AuthInvariant, PTL

\* createSession and logout: no more sessions are live than logins run at the
\* same time; and one request at a time, none is live from a logout or a
\* confirmed reset to the next login.
THEOREM SessionsAreEnded == AuthSpec => []SessionsAreRevoked
<1>1. ASSUME AccountIInv PROVE SessionsBounded
  <2>1. /\ Cardinality(Live) + Cardinality(CallsAt({"insertSession"})) <= scenario.width
        /\ scenario.width \in Nat /\ IsFiniteSet(sessions)
    BY <1>1, AccountNow DEF AccountIInv, SessionsOK, DataTypes
  <2>2. Live \subseteq sessions
    BY DEF Live
  <2>3. Cardinality(Live) \in Nat
    BY <2>1, <2>2, FS_Subset, FS_CardinalityType
  <2>4. Cardinality(CallsAt({"insertSession"})) \in Nat
    BY CallsCount DEF CallsAt
  <2>5. Cardinality(Live) <= scenario.width
    BY <2>1, <2>3, <2>4
  <2> QED BY <2>5 DEF SessionsBounded
<1>2. ASSUME AccountIInv PROVE SignedOutHasNoSession
  BY <1>2 DEF AccountIInv, SignOutOK, SignedOutHasNoSession
<1>3. AuthIInv => SessionsAreRevoked
  BY <1>1, <1>2 DEF AuthIInv, SessionsAreRevoked
<1> QED BY <1>3, AuthInvariant, PTL

\* userRepository.save of the whole row: one request at a time, the row of users
\* has the last password that was set, a verified address, and the number of
\* wrong passwords since the count was cleared, with the lock that goes with it.
THEOREM RowTellsHistory == AuthSpec => []RowIsHistory
<1>1. AuthIInv => RowIsHistory
  BY DEF AuthIInv, AccountIInv, RowOK, RowIsHistory
<1> QED BY <1>1, AuthInvariant, PTL

\* verifyTwoFactorLogin and verifyBackupCode: the wrong codes exceed the limit
\* by at most one for each other call that runs at the same time, and the
\* lockout ends unless the call that starts it broke off.
THEOREM GuessesAreBounded == AuthSpec => []GuessesBounded
<1>1. ASSUME FactorIInv PROVE Second!GuessesBounded
  <2> DEFINE n == Cardinality(FactorsAt(PastLock))
  <2>1. n \in Nat
    BY CallsCount DEF FactorsAt
  <2>2. /\ attempts + n <= MaxFailed + menu2FA.width - 1
        /\ attempts \in Nat /\ MaxFailed \in Nat /\ menu2FA.width \in Nat
    BY <1>1, FactorAssumption DEF FactorIInv, GuessesOK, FactorTypes, Second!TypeOK
  <2> HIDE DEF n
  <2>3. attempts <= MaxFailed + menu2FA.width - 1
    BY <2>1, <2>2
  <2> QED BY <2>3 DEF Second!GuessesBounded
<1>2. AuthIInv => GuessesBounded
  BY <1>1 DEF AuthIInv, FactorIInv, GuessesBounded
<1> QED BY <1>2, AuthInvariant, PTL

\* verifyTwoFactorLogin: a challenge token is passed at most once by each of the
\* calls that run at the same time.
THEOREM ChallengesPassOnce == AuthSpec => []PassedOnce
<1>1. ASSUME FactorIInv PROVE Second!PassedOnce
  <2>1. grants \in [1..(menu2FA.calls + 1) -> Nat] /\ menu2FA.width \in Nat
    BY <1>1, FactorAssumption DEF FactorIInv, FactorTypes
  <2>2. ASSUME NEW t \in DOMAIN grants PROVE grants[t] <= menu2FA.width
    <3>1. Cardinality(PassingOf(t)) \in Nat
      BY CallsCount DEF PassingOf
    <3>2. grants[t] \in Nat /\ grants[t] + Cardinality(PassingOf(t)) <= menu2FA.width
      BY <1>1, <2>1 DEF FactorIInv, GrantsOK
    <3> QED BY <2>1, <3>1, <3>2
  <2> QED BY <2>2 DEF Second!PassedOnce
<1>2. AuthIInv => PassedOnce
  BY <1>1 DEF AuthIInv, PassedOnce
<1> QED BY <1>2, AuthInvariant, PTL

\* slidingWindowRateLimit and trackAttempt: in every window at most Limit
\* requests are let through, and at most the limit and one for each other call
\* under way of wrong codes are counted, whatever runs at the same time.
THEOREM LimitsAreKept == AuthSpec => []LimitsHold
<1>1. ASSUME RateIInv PROVE Rate!RateBounded
  <2>1. \A t \in 1..RateTime : Cardinality(Within(t)) <= Limit
    BY <1>1 DEF RateIInv, WindowsKept
  <2>2. \A S : Rate!Cardinality(S) = Cardinality(S)
    BY Counts
  <2> QED BY <2>1, <2>2 DEF Within, Rate!RateBounded
<1>2. ASSUME WithdrawalIInv PROVE Withdrawal!CodesBounded
  <2>1. /\ tracker.count + Cardinality(asking) <= MaxWithdrawalAttempts + Cardinality(Calls) - 1
        /\ asking \subseteq Calls
        /\ tracker \in [count : Nat, resetAt : 0..(WithdrawalTime + AttemptWindow)]
    BY <1>2 DEF WithdrawalIInv, CodesOK, Withdrawal!TypeOK
  <2>2. Cardinality(asking) \in Nat /\ Cardinality(Calls) \in Nat /\ tracker.count \in Nat
    BY <2>1, CallsCount
  <2>3. tracker.count <= MaxWithdrawalAttempts + Cardinality(Calls) - 1
    BY <2>1, <2>2, WithdrawalAssumption
  <2> QED BY <2>3, Counts DEF Withdrawal!CodesBounded
<1>3. AuthIInv => LimitsHold
  BY <1>1, <1>2 DEF AuthIInv, LimitsHold
<1> QED BY <1>3, AuthInvariant, PTL
=============================================================================
