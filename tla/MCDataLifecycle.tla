-------------------------- MODULE MCDataLifecycle --------------------------
(* Three invocations: a first enable, a safe stop and a rearm, and a failed or *)
(* second attempt; a replug between them and two stop commands.               *)
EXTENDS DataLifecycle
=============================================================================
