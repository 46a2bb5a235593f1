----------------------------- MODULE MCKnowledge -----------------------------
(***************************************************************************)
(* Lessons of one run and corrections of it, for TLC.                      *)
(***************************************************************************)
EXTENDS Knowledge

\* One group corrects the run's observation.
Correction == [g \in Groups |-> CHOOSE r \in Runs : TRUE]
=============================================================================
