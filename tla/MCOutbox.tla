------------------------------ MODULE MCOutbox ------------------------------
(***************************************************************************)
(* Two instances of Outbox in one run: a plain report and one about a      *)
(* revision, with an operator who replays, for the safety properties, and  *)
(* a plain report and a promotion, under fairness, for progress.  They     *)
(* share no variable; `part` says which of them moves, from the start on.  *)
(***************************************************************************)
EXTENDS Outbox

PlainAndReport == [k \in Keys |-> IF k = 1 THEN "plain" ELSE "report"]

VARIABLES
  part,
  q_pub, q_receipt, q_old, q_before, q_attempts, q_hold, q_wpc, q_wkey, q_wout, q_candidate,
  q_draft, q_posted, q_crashes

queue == <<q_pub, q_receipt, q_old, q_before, q_attempts, q_hold, q_wpc, q_wkey, q_wout,
           q_candidate, q_draft, q_posted, q_crashes>>

Q == INSTANCE Outbox WITH
  Keys <- {1, 2}, Kind <- <<"plain", "ready">>, MaxAttempts <- 1, Operator <- FALSE,
  MaxCrashes <- 1,
  pub <- q_pub, receipt <- q_receipt, old <- q_old, before <- q_before,
  attempts <- q_attempts, hold <- q_hold, wpc <- q_wpc, wkey <- q_wkey, wout <- q_wout,
  candidate <- q_candidate, draft <- q_draft, posted <- q_posted, crashes <- q_crashes

BothInit == Init /\ Q!Init /\ part \in {"delivery", "queue"}

BothNext ==
  /\ UNCHANGED part
  /\ \/ part = "delivery" /\ Next /\ UNCHANGED queue
     \/ part = "queue" /\ Q!Next /\ UNCHANGED vars

BothSpec ==
  /\ BothInit /\ [][BothNext]_<<part, vars, queue>>
  /\ part = "queue" => Q!Fairness

\* A publication whose turn it is gets it (claim_publication takes the one touched
\* longest ago), however long the destination of another one fails.
QueueIsServed == part = "queue" => Q!NoStarvation

\* Unless circuits keep opening for ever, every publication is delivered or comes to
\* rest where the operator sees it (flush_publication, claim_publication's repairs).
QueueSettles == part = "queue" => Q!Settles
=============================================================================
