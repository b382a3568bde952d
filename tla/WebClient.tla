------------------------------ MODULE WebClient ------------------------------
(***************************************************************************)
(* The web client: the Redux slices auth and wallet of every browser tab,  *)
(* the API functions they call, and the pages that dispatch them.  Tabs    *)
(* share localStorage, which holds the access token; a request carries the *)
(* token that is there when it is sent, and its answer may come at any     *)
(* later time, on any page.  Loading a page starts its tab's store anew.   *)
(*                                                                         *)
(* Effects of a page run with the step that causes them.  Messages, form   *)
(* data and 2FA codes are left out: a form is submitted with valid data.   *)
(* No page renders the logout button, or the modal that verifies a second  *)
(* factor at login.                                                        *)
(***************************************************************************)
EXTENDS Naturals, FiniteSets

CONSTANTS Tabs, Accounts,
          Scenarios \* the pages that are visited, how many requests are sent
                    \* (a bound), which APIs are mocked, and whether the
                    \* accounts have a second factor

VARIABLES
    scenario, started,
    stored,    \* whose access token is in localStorage
    page,      \* what each tab shows
    leaving,   \* tabs in which window.location.href was assigned
    slice,     \* the store of each tab
    requests,  \* in flight, with the token they carry
    challenged,\* history: a login was answered with a 2FA challenge
    foreign    \* history: another tab changed localStorage

vars == <<scenario, started, stored, page, leaving, slice, requests, challenged, foreign>>

Nobody == "nobody"
NewUser == "new user"
Pages == {"login", "register", "verify", "verifyLink", "forgot", "reset",
          "settings", "setup", "wallet", "dashboard"}
Ops == {"recaptcha", "register", "verifyEmail", "resend", "login", "requestReset",
        "confirmReset", "setup", "verifySetup", "status", "regenerate", "disable",
        "balances"}
Flags == {"loading", "registered", "loginSuccess", "authenticated", "resending", "resent",
          "requesting", "requested", "confirming", "confirmed", "loading2FA", "setupToken",
          "enabled", "fetching"}

TypeOK ==
    /\ started \in 0..scenario.calls
    /\ stored \in Accounts \cup {Nobody}
    /\ page \in [Tabs -> Pages] /\ leaving \subseteq Tabs
    /\ \A t \in Tabs :
         /\ \A f \in Flags : slice[t][f] \in BOOLEAN
         /\ slice[t].user \in Accounts \cup {Nobody, NewUser}
         /\ slice[t].token \in Accounts \cup {Nobody}
         /\ slice[t].verification \in {"idle", "pending", "verifying", "success", "error"}
    /\ requests \subseteq [tab : Tabs, op : Ops, n : 1..scenario.calls, account : Accounts,
                           token : Accounts \cup {Nobody}, mounted : BOOLEAN]

-----------------------------------------------------------------------------
(* authApi and walletApi: what each call can be answered                   *)

Either == {"ok", "error"}
\* The service wants terms and KVKK to be accepted; the client does not send it.
RegisterAnswers == IF scenario.mockAuth THEN Either ELSE {"error"}
VerifyEmailAnswers == IF scenario.mockAuth THEN {"ok"} ELSE Either
ResendAnswers == IF scenario.mockAuth THEN {"ok"} ELSE Either
LoginAnswers ==
    IF scenario.twoFactor /\ ~scenario.mockAuth THEN {"challenge", "error"} ELSE Either
RequestResetAnswers == IF scenario.mockAuth THEN {"ok"} ELSE Either
ConfirmResetAnswers == Either
Setup2FAAnswers ==
    IF scenario.mockAuth THEN {"ok"} ELSE {"misnamed", "error"}
VerifySetup2FAAnswers == Either
Get2FAStatusAnswers == IF scenario.mockAuth THEN {"ok"} ELSE Either
RegenerateAnswers == IF scenario.mockAuth THEN Either ELSE {"error"}
Disable2FAAnswers == IF scenario.mockAuth THEN Either ELSE {"error"}
\* The wallet service knows no mocked token; one of its own may have expired.
BalancesAnswers(token) ==
    IF scenario.mockWallet THEN {"ok"}
    ELSE {"unauthorized", "error"} \cup
         (IF token = Nobody \/ scenario.mockAuth THEN {} ELSE {"ok"})

Answers(r) ==
    CASE r.op = "recaptcha" -> Either
      [] r.op = "register" -> RegisterAnswers
      [] r.op = "verifyEmail" -> VerifyEmailAnswers
      [] r.op = "resend" -> ResendAnswers
      [] r.op = "login" -> LoginAnswers
      [] r.op = "requestReset" -> RequestResetAnswers
      [] r.op = "confirmReset" -> ConfirmResetAnswers
      [] r.op = "setup" -> Setup2FAAnswers
      [] r.op = "verifySetup" -> VerifySetup2FAAnswers
      [] r.op = "status" -> Get2FAStatusAnswers
      [] r.op = "regenerate" -> RegenerateAnswers
      [] r.op = "disable" -> Disable2FAAnswers
      [] r.op = "balances" -> BalancesAnswers(r.token)

-----------------------------------------------------------------------------
(* authSlice and walletSlice: the store, and what each thunk does to it    *)

InitialState(account) ==
    [f \in Flags \cup {"user", "token", "verification"} |->
       CASE f = "authenticated" -> account # Nobody
         [] f = "user" -> Nobody
         [] f = "token" -> account
         [] f = "verification" -> "idle"
         [] OTHER -> FALSE]

Register(s, answer) ==
    CASE answer = "pending" -> [s EXCEPT !.loading = TRUE, !.registered = FALSE]
      [] answer = "ok" ->
           [s EXCEPT !.loading = FALSE, !.registered = TRUE, !.user = NewUser]
      [] answer = "error" -> [s EXCEPT !.loading = FALSE, !.registered = FALSE]

VerifyEmail(s, answer) ==
    [s EXCEPT !.verification = CASE answer = "pending" -> "verifying"
                                 [] answer = "ok" -> "success"
                                 [] answer = "error" -> "error"]

Resend(s, answer) ==
    [s EXCEPT !.resending = answer = "pending", !.resent = answer = "ok"]

\* A challenge has no user: the reducer throws, and the store stays as it was.
Login(s, answer, account) ==
    CASE answer = "pending" -> [s EXCEPT !.loading = TRUE, !.loginSuccess = FALSE]
      [] answer = "ok" ->
           [s EXCEPT !.loading = FALSE, !.loginSuccess = TRUE, !.authenticated = TRUE,
                     !.token = account, !.user = account]
      [] answer = "error" ->
           [s EXCEPT !.loading = FALSE, !.loginSuccess = FALSE, !.authenticated = FALSE]
      [] answer = "challenge" -> s

RequestPasswordReset(s, answer) ==
    [s EXCEPT !.requesting = answer = "pending", !.requested = answer = "ok"]

ConfirmPasswordReset(s, answer) ==
    [s EXCEPT !.confirming = answer = "pending", !.confirmed = answer = "ok"]

\* The service names the token setup_token, which the pages do not look for.
Setup2FA(s, answer) ==
    [s EXCEPT !.loading2FA = answer = "pending",
              !.setupToken = answer = "ok" \/ (@ /\ answer # "misnamed")]

VerifySetup2FA(s, answer) ==
    [s EXCEPT !.loading2FA = answer = "pending",
              !.setupToken = @ /\ answer # "ok", !.enabled = @ \/ answer = "ok"]

\* What status finds: the mock says no, the service may say either.
Get2FAStatus(s, answer, enabled) ==
    [s EXCEPT !.loading2FA = answer = "pending",
              !.enabled = IF answer = "ok" THEN enabled ELSE @]

RegenerateBackupCodes(s, answer) == [s EXCEPT !.loading2FA = answer = "pending"]

Disable2FA(s, answer) ==
    [s EXCEPT !.loading2FA = answer = "pending", !.enabled = @ /\ answer # "ok"]

\* Fault: a refused fetch leaves the spinner on.
FetchUntilOk(s, answer) == [s EXCEPT !.fetching = answer # "ok"]

FetchBalances(s, answer) == [s EXCEPT !.fetching = answer = "pending"]

Reduce(s, op, answer, account, enabled) ==
    CASE op = "recaptcha" -> s
      [] op = "register" -> Register(s, answer)
      [] op = "verifyEmail" -> VerifyEmail(s, answer)
      [] op = "resend" -> Resend(s, answer)
      [] op = "login" -> Login(s, answer, account)
      [] op = "requestReset" -> RequestPasswordReset(s, answer)
      [] op = "confirmReset" -> ConfirmPasswordReset(s, answer)
      [] op = "setup" -> Setup2FA(s, answer)
      [] op = "verifySetup" -> VerifySetup2FA(s, answer)
      [] op = "status" -> Get2FAStatus(s, answer, enabled)
      [] op = "regenerate" -> RegenerateBackupCodes(s, answer)
      [] op = "disable" -> Disable2FA(s, answer)
      [] op = "balances" -> FetchBalances(s, answer)

-----------------------------------------------------------------------------
(* The pages                                                               *)

InFlight(t, ops) == {r \in requests : r.tab = t /\ r.op \in ops}

\* What a page dispatches when it is left and when it is entered.
Leave(s, p) ==
    CASE p = "register" -> [s EXCEPT !.registered = FALSE]
      [] p = "login" -> [s EXCEPT !.loginSuccess = FALSE]
      [] p \in {"verify", "verifyLink"} ->
           [s EXCEPT !.verification = "idle", !.resending = FALSE, !.resent = FALSE]
      [] OTHER -> s

Enter(s, p) ==
    CASE p = "verify" -> [s EXCEPT !.verification = "pending"]
      [] p = "forgot" -> [s EXCEPT !.requesting = FALSE, !.requested = FALSE]
      [] p = "reset" -> [s EXCEPT !.confirming = FALSE, !.confirmed = FALSE]
      [] OTHER -> s

Fetched(p) ==
    CASE p = "verifyLink" -> {"verifyEmail"}
      [] p = "settings" -> {"status"}
      [] p = "setup" -> {"setup"}
      [] p = "wallet" -> {"balances"}
      [] OTHER -> {}

\* The page an effect goes on to when page p shows store s.
After(s, p) ==
    CASE p = "login" /\ (s.authenticated \/ s.loginSuccess) -> "dashboard"
      [] p = "register" /\ s.registered -> "verify"
      [] OTHER -> p

Effects(s, p) == IF After(s, p) = p THEN s ELSE Enter(Leave(s, p), After(s, p))

Request(t, op, account) ==
    [tab |-> t, op |-> op, n |-> started + 1, account |-> account, token |-> stored,
     mounted |-> TRUE]
Someone == CHOOSE a \in Accounts : TRUE

\* Tab t comes to page p with store s, and rest of the requests.
Arrive(t, s, p, rest) ==
    LET entered == Effects(Enter(s, p), p)
        sent == Fetched(p)
    IN /\ p \in scenario.pages
       /\ started + Cardinality(sent) <= scenario.calls
       /\ started' = started + Cardinality(sent)
       /\ requests' = rest \cup {Request(t, op, Someone) : op \in sent}
       /\ page' = [page EXCEPT ![t] = After(entered, p)]
       /\ slice' = [slice EXCEPT ![t] =
                       IF sent = {} THEN entered
                       ELSE Reduce(entered, CHOOSE op \in sent : TRUE, "pending",
                                   Someone, FALSE)]

Unmounted(t) ==
    {IF r.tab = t THEN [r EXCEPT !.mounted = FALSE] ELSE r : r \in requests}

\* A link or the Back button: the store stays.
Navigate(t, p) ==
    /\ p # page[t]
    /\ Arrive(t, Leave(slice[t], page[t]), p, Unmounted(t))
    /\ UNCHANGED <<scenario, stored, leaving, challenged, foreign>>

\* A typed address, a mailed link, a reload, or the end of a 401: a new store.
Load(t, p) ==
    /\ t \in leaving => p = "login"
    /\ Arrive(t, InitialState(stored), p, requests \ InFlight(t, Ops))
    /\ leaving' = leaving \ {t}
    /\ challenged' = challenged \ {t} /\ foreign' = foreign \ {t}
    /\ UNCHANGED <<scenario, stored>>

-----------------------------------------------------------------------------
(* The forms, and what is fetched by hand or by a timer                    *)

\* Tab t, on page p, dispatches op.
Submit(t, p, op, account) ==
    /\ page[t] = p
    /\ started < scenario.calls /\ started' = started + 1
    /\ requests' = requests \cup {Request(t, op, account)}
    /\ slice' = [slice EXCEPT ![t] = Reduce(@, op, "pending", account, FALSE)]
    /\ UNCHANGED <<scenario, stored, page, leaving, challenged, foreign>>

\* The form first asks reCAPTCHA; the page is submitting until that answers.
SubmitRegister(t) ==
    /\ ~slice[t].loading
    /\ ~\E r \in InFlight(t, {"recaptcha"}) : r.mounted
    /\ Submit(t, "register", "recaptcha", Someone)

SubmitLogin(t, account) ==
    ~slice[t].loading /\ Submit(t, "login", "login", account)

ResendVerification(t, p) ==
    /\ slice[t].verification \in {"idle", "pending", "error"}
    /\ ~slice[t].resending /\ ~slice[t].resent
    /\ Submit(t, p, "resend", Someone)

SubmitForgotPassword(t) ==
    /\ ~slice[t].requesting /\ ~slice[t].requested
    /\ Submit(t, "forgot", "requestReset", Someone)

SubmitResetPassword(t) ==
    /\ ~slice[t].confirming /\ ~slice[t].confirmed
    /\ Submit(t, "reset", "confirmReset", Someone)

\* The sixth digit submits the code, also while a request is in flight.
SubmitSetupCode(t) == slice[t].setupToken /\ Submit(t, "setup", "verifySetup", Someone)

SubmitRegenerate(t) ==
    /\ slice[t].enabled /\ ~slice[t].loading2FA
    /\ Submit(t, "settings", "regenerate", Someone)

SubmitDisable(t) ==
    /\ slice[t].enabled /\ ~slice[t].loading2FA
    /\ Submit(t, "settings", "disable", Someone)

\* The button waits for the fetch in flight, the 30 s interval does not.
RefreshBalances(t) == Submit(t, "wallet", "balances", Someone)

\* Five seconds after a verification mail was sent again.
ClearResent(t) ==
    /\ page[t] \in {"verify", "verifyLink"} /\ slice[t].resent
    /\ slice' = [slice EXCEPT ![t].resent = FALSE]
    /\ UNCHANGED <<scenario, started, stored, page, leaving, requests, challenged, foreign>>

-----------------------------------------------------------------------------
(* Answers                                                                 *)

\* reCAPTCHA has answered, or failed: the registration is sent, also from a
\* page that was left meanwhile.
SendRegistration(r) ==
    /\ r.op = "recaptcha"
    /\ started < scenario.calls /\ started' = started + 1
    /\ requests' = (requests \ {r}) \cup {Request(r.tab, "register", Someone)}
    /\ slice' = [slice EXCEPT ![r.tab] = Register(@, "pending")]
    /\ UNCHANGED <<scenario, stored, page, leaving, challenged, foreign>>

\* An answer changes the store, and localStorage when it is a login's.
Settle(r, answer, enabled) ==
    LET t == r.tab
        s == Reduce(slice[t], r.op, answer, r.account, enabled)
        signedIn == r.op = "login" /\ answer = "ok"
    IN /\ r.op # "recaptcha" /\ answer # "unauthorized"
       /\ enabled => r.op = "status" /\ ~scenario.mockAuth
       /\ slice' = [slice EXCEPT ![t] = Effects(s, page[t])]
       /\ page' = [page EXCEPT ![t] = After(s, page[t])]
       /\ stored' = IF signedIn THEN r.account ELSE stored
       /\ foreign' = IF signedIn THEN foreign \cup (Tabs \ {t}) ELSE foreign
       /\ challenged' = IF answer = "challenge" THEN challenged \cup {t} ELSE challenged
       /\ requests' = requests \ {r}
       /\ UNCHANGED <<scenario, started, leaving>>

\* Fault: the application goes to the login page itself, and keeps its store.
SignOutInPlace(r) ==
    /\ stored' = Nobody
    /\ page' = [page EXCEPT ![r.tab] = "login"]
    /\ foreign' = foreign \cup (Tabs \ {r.tab})
    /\ slice' = [slice EXCEPT ![r.tab] = FetchBalances(@, "error")]
    /\ requests' = requests \ {r}
    /\ UNCHANGED <<scenario, started, leaving, challenged>>

\* 401 to a wallet request: whoever's tokens are stored now are removed, and the
\* browser is told to load the login page.
SignOut(r) ==
    /\ stored' = Nobody
    /\ leaving' = leaving \cup {r.tab}
    /\ foreign' = foreign \cup (Tabs \ {r.tab})
    /\ slice' = [slice EXCEPT ![r.tab] = FetchBalances(@, "error")]
    /\ requests' = requests \ {r}
    /\ UNCHANGED <<scenario, started, page, challenged>>

-----------------------------------------------------------------------------
Init ==
    /\ scenario \in Scenarios
    /\ started = 0 /\ stored = Nobody
    /\ page = [t \in Tabs |-> "login"] /\ leaving = {}
    /\ slice = [t \in Tabs |-> InitialState(Nobody)]
    /\ requests = {} /\ challenged = {} /\ foreign = {}

Next ==
    \/ \E t \in scenario.tabs :
         \/ \E p \in Pages : Navigate(t, p) \/ Load(t, p)
         \/ SubmitRegister(t)
         \/ \E account \in Accounts : SubmitLogin(t, account)
         \/ \E p \in {"verify", "verifyLink"} : ResendVerification(t, p)
         \/ SubmitForgotPassword(t) \/ SubmitResetPassword(t)
         \/ SubmitSetupCode(t) \/ SubmitRegenerate(t) \/ SubmitDisable(t)
         \/ RefreshBalances(t) \/ ClearResent(t)
    \/ \E r \in requests :
         \/ SendRegistration(r)
         \/ \E answer \in Answers(r), enabled \in BOOLEAN : Settle(r, answer, enabled)
         \/ "unauthorized" \in Answers(r) /\ SignOut(r)

Spec == Init /\ [][Next]_vars

-----------------------------------------------------------------------------
\* A spinner turns only while a request that can stop it is in flight, although
\* requests share a flag, pages are left and come back to, and a 401 reloads the
\* page; but a login that was answered with a 2FA challenge spins for ever.
SpinnersEnd ==
    \A t \in Tabs :
      LET Waits(flag, ops) == slice[t][flag] => InFlight(t, ops) # {}
      IN /\ t \in challenged \/ Waits("loading", {"register", "login"})
         /\ slice[t].verification = "verifying" => InFlight(t, {"verifyEmail"}) # {}
         /\ Waits("resending", {"resend"})
         /\ Waits("requesting", {"requestReset"})
         /\ Waits("confirming", {"confirmReset"})
         /\ Waits("loading2FA", {"setup", "verifySetup", "status", "regenerate", "disable"})
         /\ Waits("fetching", {"balances"})

\* A tab that takes itself to be signed in agrees with localStorage about the
\* account, unless another tab has written there since the page was loaded, or a
\* 401 has already told the browser to load it anew.  The user it shows is that
\* account's, unless registration is mocked and was overtaken by a login.
SignedInIsStored ==
    \A t \in Tabs \ (leaving \cup foreign) :
      slice[t].authenticated =>
        /\ slice[t].token # Nobody /\ stored = slice[t].token
        /\ scenario.mockAuth \/ slice[t].user \in {Nobody, stored}
=============================================================================
