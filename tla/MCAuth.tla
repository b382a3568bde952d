------------------------------- MODULE MCAuth -------------------------------
(***************************************************************************)
(* Auth for TLC: which requests come, how many, and how many at once.      *)
(***************************************************************************)
EXTENDS Auth, TLC

CONSTANTS c1, c2

Menu(ops, calls, w, two) ==
    [ops |-> ops, calls |-> calls, width |-> w, twoFactor |-> two, password |-> "old"]
MCScenarios ==
    {Menu({"register", "verify", "resend", "login"}, 5, 1, FALSE),
     Menu({"login", "refresh", "request", "logout"}, 4, 2, FALSE),
     Menu({"login", "request", "askReset", "reset"}, 4, 2, FALSE),
     Menu({"login", "request", "logout", "askReset", "reset"}, 4, 1, FALSE),
     Menu({"login", "request", "logout", "askReset", "reset"}, 5, 1, TRUE)}
Codes2FA(ops, calls, w, on) ==
    [ops |-> ops, calls |-> calls, width |-> w, enabled |-> on]
MC2FAScenarios ==
    {Codes2FA({"setup", "login", "verify"}, 5, 1, FALSE),
     Codes2FA({"setup", "login", "verify"}, 5, 2, FALSE),
     Codes2FA({"login", "verify"}, 4, 1, TRUE),
     Codes2FA({"login", "verify"}, 4, 2, TRUE)}
=============================================================================
