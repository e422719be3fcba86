----------------------------- MODULE MCEfiMount -----------------------------
(* EfiMount for TLC. *)
EXTENDS EfiMount
=============================================================================
