------------------------------ MODULE MCNative -------------------------------
(***************************************************************************)
(* The smallest instance of NativeRoute for TLC: one dedicated project and *)
(* one connection, with api-service in one process that is not killed.     *)
(***************************************************************************)
EXTENDS NativeRoute

CONSTANTS w1, c1, b1, s1, r1
=============================================================================
