----------------------------- MODULE MCPlatform -----------------------------
(***************************************************************************)
(* Platform for TLC: how many requests each part serves, how many at once, *)
(* and the deployments and pages they meet.                                *)
(***************************************************************************)
EXTENDS Platform, MCCryptoDeposit

CONSTANTS c1, c2, c3

Two(calls, w) == [calls |-> calls, width |-> w]
MCCacheScenarios == {Two(4, 1), Two(3, 2)}
MCFiatScenarios == {Two(5, 1), Two(5, 2), Two(4, 3)}
MCKycScenarios ==
    {[calls |-> 3, width |-> 1, scanner |-> "on"],
     [calls |-> 2, width |-> 2, scanner |-> "on"],
     [calls |-> 2, width |-> 2, scanner |-> "skipped"],
     [calls |-> 2, width |-> 1, scanner |-> "off"]}
MCNumbers == {<<1, 0, 0, 0, 0, 0, 0, 0, 1, 4, 6>>, <<1, 0, 0, 0, 0, 0, 0, 0, 1, 4, 7>>}
Deployment(keys, usdtKey, provider) ==
    [keys |-> keys, usdtKey |-> usdtKey, provider |-> provider]
MCWalletScenarios ==
    {Deployment({"BTC", "ETH", "USDT"}, "USDT", TRUE),
     Deployment({"BTC", "ETH", "USDT"}, "ETH", TRUE),
     Deployment({"ETH", "USDT"}, "USDT", FALSE),
     Deployment({"ETH"}, "USDT", TRUE)}
Client(tabs, pages, calls, auth, mock, two) ==
    [tabs |-> tabs, pages |-> pages, calls |-> calls, mockAuth |-> auth,
     mockWallet |-> mock, twoFactor |-> two]
MCClientScenarios ==
    {Client({1}, {"login", "register", "verify", "dashboard"}, 4, mock, TRUE, FALSE) :
       mock \in BOOLEAN}
      \cup
    {Client({1}, {"login", "verify", "verifyLink", "forgot", "reset", "dashboard"}, 3,
            mock, TRUE, FALSE) : mock \in BOOLEAN}
      \cup
    {Client({1}, {"login", "settings", "setup", "dashboard"}, 4, mock, TRUE, ~mock) :
       mock \in BOOLEAN}
      \cup
    {Client({1, 2}, {"login", "wallet", "dashboard"}, 3, mock, FALSE, FALSE) :
       mock \in BOOLEAN}
=============================================================================
