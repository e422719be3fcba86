---------------------------- MODULE MCCandidateStore ----------------------------
EXTENDS CandidateStore
\* One input changes: of those that are read twice, the one closest to the admission.
MCContent == [i \in Input |-> IF i = "context" THEN {0, 1} ELSE {0}]
=============================================================================
