----------------------------- MODULE StableMap -----------------------------
(***************************************************************************)
(* The contract of the stable map, as its users see it.  While an owner      *)
(* admits, the map may move to another admitted disk instance.  Ending the   *)
(* admission is final: from then on the backing instance is fixed, and once   *)
(* the owner's end has been closed the map no longer queues.                  *)
(***************************************************************************)
CONSTANTS Admissible, Initial

VARIABLES backing, mode, queueing

stableVars == <<backing, mode, queueing>>

Begin == backing = Initial /\ mode = "admitting" /\ queueing = TRUE

\* A switch to an admitted instance; the new table queues.
Switch == /\ mode = "admitting"
          /\ backing' \in Admissible
          /\ queueing' = TRUE
          /\ UNCHANGED mode

\* A switch already handed to the kernel may complete as the admission ends.
EndAdmission == /\ mode = "admitting" /\ mode' = "fenced"
                /\ \/ UNCHANGED <<backing, queueing>>
                   \/ backing' \in Admissible /\ queueing' = TRUE

StopQueueing == /\ mode = "fenced" /\ queueing' = FALSE
                /\ UNCHANGED <<backing, mode>>

CloseOwner == /\ mode = "fenced" /\ ~queueing /\ mode' = "closed"
              /\ UNCHANGED <<backing, queueing>>

Move == Switch \/ EndAdmission \/ StopQueueing \/ CloseOwner

Contract == Begin /\ [][Move]_stableVars
=============================================================================
