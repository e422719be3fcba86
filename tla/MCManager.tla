------------------------------ MODULE MCManager ------------------------------
(* Manager for TLC. *)
EXTENDS Manager
=============================================================================
