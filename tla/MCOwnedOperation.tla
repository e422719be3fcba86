------------------------- MODULE MCOwnedOperation -------------------------
(* OwnedOperation with three operations: a delivered one, one whose thread   *)
(* is still waking when the next is started, and an abandoned one.           *)
EXTENDS OwnedOperation
=============================================================================
