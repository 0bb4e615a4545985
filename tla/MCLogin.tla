------------------------------- MODULE MCLogin ------------------------------
(***************************************************************************)
(* Instance of Login for TLC.                                              *)
(***************************************************************************)
EXTENDS Login, TLC

CONSTANTS w1, w2, p1, p2

\* One phone to be signed up, one with an account.
MCInitialAccounts == {[p \in Phones |-> IF p = p1 THEN "none" ELSE "active"]}
=============================================================================
