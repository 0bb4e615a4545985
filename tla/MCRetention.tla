----------------------------- MODULE MCRetention ----------------------------
(***************************************************************************)
(* Instance of Retention for TLC, with the times of the code.              *)
(***************************************************************************)
EXTENDS Retention
=============================================================================
