----------------------------- MODULE MCRecovery -----------------------------
(* Recovery with four disk instances: the first one, two replugs under the same *)
(* other dev_t, and a clone of its USB identity that appears under that dev_t too. *)
EXTENDS Recovery

CONSTANTS d0, d1, d2, x1, devA, devB

MCInst == {d0, d1, d2, x1}
MCDev  == {devA, devB}
MCDevOf == [i \in MCInst |-> IF i = d0 THEN devA ELSE devB]
MCGenuine == {d0, d1, d2}

\* For liveness: one replug and the clone.
MCFewInst == {d0, d1, x1}
MCFewDevOf == [i \in MCFewInst |-> IF i = d0 THEN devA ELSE devB]
MCFewGenuine == {d0, d1}
=============================================================================
