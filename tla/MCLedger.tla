------------------------------ MODULE MCLedger ------------------------------
(***************************************************************************)
(* Two instances of JobLedger in one run: jobs of three session kinds      *)
(* beside an operator, for the safety properties, and an integration       *)
(* before a scan, under fairness, for progress.  They share no variable;   *)
(* `part` says which of them moves, from the start on.                     *)
(***************************************************************************)
EXTENDS MCJobLedger

VARIABLES
  part,
  p_state, p_session, p_lease, p_due, p_err, p_attempts, p_wpc, p_wjob, p_wout, p_req,
  p_created, p_working, p_crashes

progress == <<p_state, p_session, p_lease, p_due, p_err, p_attempts, p_wpc, p_wjob, p_wout,
              p_req, p_created, p_working, p_crashes>>

P == INSTANCE JobLedger WITH
  Jobs <- {1, 2}, Kind <- <<"integration", "scan">>, MaxSessions <- 3, MaxAttempts <- 1,
  AllowDispatch <- {TRUE}, ReportHeld <- FALSE, Requests <- {"operator"}, MaxCrashes <- 1,
  MaxTries <- 3,
  state <- p_state, session <- p_session, lease <- p_lease, due <- p_due, err <- p_err,
  attempts <- p_attempts, wpc <- p_wpc, wjob <- p_wjob, wout <- p_wout, req <- p_req,
  created <- p_created, working <- p_working, crashes <- p_crashes

BothInit == Init /\ P!Init /\ part \in {"safety", "progress"}

BothNext ==
  /\ UNCHANGED part
  /\ \/ part = "safety" /\ Next /\ UNCHANGED progress
     \/ part = "progress" /\ P!Next /\ UNCHANGED vars

BothSpec ==
  /\ BothInit /\ [][BothNext]_<<part, vars, progress>>
  /\ part = "progress" => P!Fairness

\* A paid session is observed until its job leaves `running` (engine.poll), whatever
\* the operator does.
SessionsResolve == part = "progress" => P!RunningResolves

\* A queued job is started (store.claim), unless a job waits for the operator or the
\* operator replays for ever.
QueueAdvances == part = "progress" => P!QueueMoves
=============================================================================
