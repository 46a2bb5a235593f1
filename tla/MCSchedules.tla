----------------------------- MODULE MCSchedules -----------------------------
(***************************************************************************)
(* Two instances of Schedules in one run: a maintenance recipe that is     *)
(* edited, ticked and run by hand, for the safety properties, and a recipe *)
(* beside one whose reads always fail, under fairness.  They share no      *)
(* variable; `part` says which of them moves, from the start on.           *)
(***************************************************************************)
EXTENDS Schedules

CONSTANTS discovery, secrets, asked1

\* Every call repeats one request.
Retried   == [c \in Calls |-> asked1]
OnSecrets == [x \in {asked1} |-> secrets]

VARIABLES
  part,
  d_on, d_due, d_version, d_recipe, d_state, d_base, d_key, d_pr, d_head, d_at, d_of, d_saw,
  d_closed, d_left, d_answer, d_page, d_dues, d_edits, d_moves

beside == <<d_on, d_due, d_version, d_recipe, d_state, d_base, d_key, d_pr, d_head, d_at, d_of,
            d_saw, d_closed, d_left, d_answer, d_page, d_dues, d_edits, d_moves>>

D == INSTANCE Schedules WITH
  Recipes <- {discovery, secrets}, Failing <- {discovery}, Calls <- {}, RequestOf <- <<>>,
  RecipeOf <- <<>>, MaxDue <- 2, MaxEdits <- 1,
  on <- d_on, due <- d_due, version <- d_version, recipe <- d_recipe, state <- d_state,
  base <- d_base, key <- d_key, pr <- d_pr, head <- d_head, at <- d_at, of <- d_of,
  saw <- d_saw, closed <- d_closed, left <- d_left, answer <- d_answer, page <- d_page,
  dues <- d_dues, edits <- d_edits, moves <- d_moves

\* The instance that does not move starts in one of its states only.
BothInit ==
  /\ Init /\ D!Init /\ part \in {"runs", "due"}
  /\ part = "due" => on = [r \in Recipes |-> TRUE] /\ head = (CHOOSE c \in Commits : TRUE)
  /\ part = "runs" => /\ d_on = [r \in {discovery, secrets} |-> TRUE]
                      /\ d_head = (CHOOSE c \in Commits : TRUE)

BothNext ==
  /\ UNCHANGED part
  /\ \/ part = "runs" /\ Next /\ UNCHANGED beside
     \/ part = "due" /\ D!Next /\ UNCHANGED vars

BothSpec ==
  /\ BothInit /\ [][BothNext]_<<part, vars, beside>>
  /\ part = "due" => D!Fairness

\* A recipe that is due is served or put off (schedules.tick), whatever the reads of
\* the recipe beside it do.
DueBesideFailing == part = "due" => D!DueIsServed
=============================================================================
