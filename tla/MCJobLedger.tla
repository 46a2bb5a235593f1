---------------------------- MODULE MCJobLedger ----------------------------
(***************************************************************************)
(* Constants for TLC: which kinds the jobs of a run have.                  *)
(***************************************************************************)
EXTENDS JobLedger

ValidationRemediationRepair == <<"validation", "remediation", "repair">>
IntegrationAndRemediation   == <<"integration", "remediation">>
=============================================================================
