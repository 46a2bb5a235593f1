----------------------------- MODULE MCHandoff -----------------------------
(* Instances of HandoffRecovery for TLC: the constants are model values. *)
EXTENDS HandoffRecovery
=============================================================================
