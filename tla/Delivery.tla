------------------------------ MODULE Delivery ------------------------------
(***************************************************************************)
(* What the publication outbox promises the people who read its reports,   *)
(* without its states, its retries or its worker: a report reaches its     *)
(* destination at most once, one that may have been written is never       *)
(* written again, and one is confirmed only after it was acknowledged.     *)
(* docs/RESILIENCE.md, "Transactional outbox boundary", says it in words;  *)
(* Outbox implements it.                                                   *)
(***************************************************************************)
EXTENDS Naturals

CONSTANT Reports

VARIABLES
  outcome,  \* what is known of a report
  posted    \* how many times it was written at its destination

vars == <<outcome, posted>>

Outcomes == {"absent", "open", "held", "withdrawn", "doubtful",
             "acknowledged", "confirmed"}

TypeOK == /\ outcome \in [Reports -> Outcomes]
          /\ posted \in [Reports -> Nat]

Init == /\ outcome = [r \in Reports |-> "absent"]
        /\ posted = [r \in Reports |-> 0]

Becomes(r, from, to) ==
  /\ outcome[r] = from
  /\ outcome' = [outcome EXCEPT ![r] = to]

Queue(r)    == Becomes(r, "absent", "open") /\ UNCHANGED posted
Withdraw(r) == Becomes(r, "open", "withdrawn") /\ UNCHANGED posted
Suspend(r)  == Becomes(r, "open", "held") /\ UNCHANGED posted
Reopen(r)   == Becomes(r, "held", "open") /\ UNCHANGED posted

\* The write takes effect; until its answer is stored it is in doubt.
Post(r) == /\ Becomes(r, "open", "doubtful")
           /\ posted' = [posted EXCEPT ![r] = @ + 1]

\* Nobody knows whether these took effect: their sender is gone.
Doubt(lost) ==
  /\ \A r \in lost : outcome[r] = "open"
  /\ outcome' = [r \in Reports |-> IF r \in lost THEN "doubtful" ELSE outcome[r]]
  /\ UNCHANGED posted

Acknowledge(r) == /\ posted[r] = 1
                  /\ Becomes(r, "doubtful", "acknowledged")
                  /\ UNCHANGED posted

Confirm(r) == Becomes(r, "acknowledged", "confirmed") /\ UNCHANGED posted

Next ==
  \/ \E r \in Reports : \/ Queue(r) \/ Withdraw(r) \/ Suspend(r) \/ Reopen(r)
                         \/ Post(r) \/ Acknowledge(r) \/ Confirm(r)
  \/ \E lost \in SUBSET Reports : Doubt(lost)

Spec == Init /\ [][Next]_vars

-----------------------------------------------------------------------------
\* What that comes to: a report that waits, is held or was withdrawn was never
\* written, one that is acknowledged or confirmed was written once, and one in
\* doubt at most once.
Promise ==
  \A r \in Reports :
    /\ posted[r] <= 1
    /\ outcome[r] \in {"absent", "open", "held", "withdrawn"} => posted[r] = 0
    /\ outcome[r] \in {"acknowledged", "confirmed"} => posted[r] = 1
=============================================================================
