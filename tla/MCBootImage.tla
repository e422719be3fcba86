----------------------------- MODULE MCBootImage -----------------------------
(* BootImage for TLC. *)
EXTENDS BootImage
=============================================================================
