---------------------------- MODULE MCTwoFactor ----------------------------
(***************************************************************************)
(* TwoFactor for TLC, by itself: logins and second factors, one at a time. *)
(***************************************************************************)
EXTENDS TwoFactor

CONSTANT c1

MCScenarios == {[ops |-> {"login", "verify"}, calls |-> 4, width |-> 1, enabled |-> TRUE]}
=============================================================================
