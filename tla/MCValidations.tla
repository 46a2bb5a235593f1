---------------------------- MODULE MCValidations ----------------------------
(***************************************************************************)
(* Two instances of PrValidation in one run: the worker beside an          *)
(* operator, for the safety properties, and the worker alone, with a       *)
(* crash, under fairness.  They share no variable; `part` says which of    *)
(* them moves, from the start on.                                          *)
(***************************************************************************)
EXTENDS PrValidation

VARIABLES
  part,
  w_state, w_sha, w_key, w_tracked, w_working, w_session, w_head, w_standing, w_wpc, w_wjob,
  w_seen, w_intake, w_moves, w_crashes, w_overlapped

alone == <<w_state, w_sha, w_key, w_tracked, w_working, w_session, w_head, w_standing, w_wpc,
           w_wjob, w_seen, w_intake, w_moves, w_crashes, w_overlapped>>

W == INSTANCE PrValidation WITH
  Requests <- {}, MaxCrashes <- 1,
  state <- w_state, sha <- w_sha, key <- w_key, tracked <- w_tracked, working <- w_working,
  session <- w_session, head <- w_head, standing <- w_standing, wpc <- w_wpc, wjob <- w_wjob,
  seen <- w_seen, intake <- w_intake, moves <- w_moves, crashes <- w_crashes,
  overlapped <- w_overlapped

\* The instance that does not move starts in one of its states only.
BothInit ==
  /\ Init /\ W!Init /\ part \in {"requests", "worker"}
  /\ part = "requests" => w_head = (CHOOSE c \in Commits : TRUE) /\ w_standing = "out"
  /\ part = "worker" => head = (CHOOSE c \in Commits : TRUE) /\ standing = "out"

BothNext ==
  /\ UNCHANGED part
  /\ \/ part = "requests" /\ Next /\ UNCHANGED alone
     \/ part = "worker" /\ W!Next /\ UNCHANGED vars

BothSpec ==
  /\ BothInit /\ [][BothNext]_<<part, vars, alone>>
  /\ part = "worker" => W!Fairness

\* Once the pull request rests, its head has a validation (pr_validation.py, accept;
\* store.py, supersede_validation), or an operator is asked to act.
HeadIsValidated == part = "worker" => W!Converges
=============================================================================
