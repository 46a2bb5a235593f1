------------------------------ MODULE Schedules ------------------------------
(***************************************************************************)
(* The automation recipes: their durable schedules, edited by operators    *)
(* from pages that may be out of date, the worker's pass over all of them, *)
(* and runs by hand (automation/schedules.py, catalogue.py, controls.py),  *)
(* with the maintenance recipes whose pull request owns them while it is   *)
(* open (automation/maintenance.py).                                       *)
(*                                                                         *)
(* A tick and a manual run read GitHub step by step, then decide in one    *)
(* transaction.  Time is a flag per recipe: its next run has come.  An     *)
(* interval is longer than a tick, so it does not come again during one,   *)
(* and the key of a scheduled run, which counts intervals, is a new one.   *)
(* Closed pull requests stay closed.                                       *)
(***************************************************************************)
EXTENDS Integers, FiniteSets

CONSTANTS
  Recipes,
  Maintenance,  \* those whose run may leave a pull request
  Failing,      \* those whose reads of GitHub may fail every time
  Calls,        \* manual runs asked for
  RequestOf,    \* call -> its request identity: a retry repeats it
  RecipeOf,     \* request -> recipe
  Operators,
  Commits,      \* revisions of the release branch
  MaxDue,       \* bound on times a next run comes
  MaxEdits,     \* bound on edits
  MaxMoves      \* bound on changes of the branch

ASSUME BoundsAssumption == MaxDue \in Nat /\ MaxEdits \in Nat /\ MaxMoves \in Nat
ASSUME RecipesAssumption ==
  /\ Recipes # {} /\ IsFiniteSet(Recipes)
  /\ Maintenance \cup Failing \subseteq Recipes
ASSUME CallsAssumption ==
  /\ IsFiniteSet(Calls) /\ \A c \in Calls : RecipeOf[RequestOf[c]] \in Recipes

VARIABLES
  on, due, version,        \* schedules: enabled, next_run has come, updated
  recipe, state, base, key, \* jobs: key is "schedule" or a request
  pr,      \* GitHub: the job's pull request is open
  head,    \* GitHub: the branch
  at, of, saw, closed,     \* the worker and the calls: step, recipe, reads
  left,    \* recipes the worker has yet to check in this pass
  answer,  \* what a call was told
  page,    \* what an operator's page shows
  dues, edits, moves

rows   == <<on, due, version>>
jobs   == <<recipe, state, base, key>>
github == <<pr, head, moves>>
actors == <<at, of, saw, closed, left, answer>>
vars   == <<rows, jobs, github, actors, page, dues, edits>>

None     == "none"
Worker   == "worker"
Actors   == {Worker} \cup Calls
Requests == {RequestOf[c] : c \in Calls}
Jobs     == 1..(Cardinality(Recipes) + MaxDue + Cardinality(Requests))
Rows     == {j \in Jobs : state[j] # "absent"}

TypeOK ==
  /\ on \in [Recipes -> BOOLEAN] /\ due \in [Recipes -> BOOLEAN] /\ version \in [Recipes -> Nat]
  /\ recipe \in [Jobs -> Recipes]
  /\ state \in [Jobs -> {"absent", "active", "prepared", "completed"}]
  /\ base \in [Jobs -> Commits \cup {None}] /\ key \in [Jobs -> Requests \cup {"schedule"}]
  /\ pr \in [Jobs -> BOOLEAN] /\ head \in Commits
  /\ at \in [Actors -> {"idle", "reconcile", "complete", "revision", "insert"}]
  /\ of \in [Actors -> Recipes] /\ saw \in [Actors -> Commits \cup {None}]
  /\ closed \in [Actors -> Jobs] /\ left \subseteq Recipes
  /\ answer \in [Calls -> Jobs \cup {0, -1}]
  /\ page \in [Operators -> [of : Recipes, on : BOOLEAN, version : Nat] \cup {<<>>}]

\* The seed of a row enables discovery, due at once; an operator enables others.
Init ==
  /\ on \in [Recipes -> BOOLEAN] /\ due = on /\ version = [r \in Recipes |-> 0]
  /\ recipe = [j \in Jobs |-> CHOOSE r \in Recipes : TRUE]
  /\ state = [j \in Jobs |-> "absent"] /\ base = [j \in Jobs |-> None]
  /\ key = [j \in Jobs |-> "schedule"]
  /\ pr = [j \in Jobs |-> FALSE] /\ head \in Commits
  /\ at = [a \in Actors |-> "idle"] /\ of = [a \in Actors |-> CHOOSE r \in Recipes : TRUE]
  /\ saw = [a \in Actors |-> None] /\ closed = [a \in Actors |-> 1]
  /\ left = {} /\ answer = [c \in Calls |-> 0]
  /\ page = [o \in Operators |-> <<>>]
  /\ dues = 0 /\ edits = 0 /\ moves = 0

-----------------------------------------------------------------------------
(* The world: time, the branch, the runs and their pull requests.          *)

NextRunComes(r) ==
  /\ ~due[r] /\ dues < MaxDue /\ (at[Worker] # "idle" => of[Worker] # r)
  /\ due' = [due EXCEPT ![r] = TRUE] /\ dues' = dues + 1
  /\ UNCHANGED <<on, version, jobs, github, actors, page, edits>>

Push(c) ==
  /\ c # head /\ moves < MaxMoves
  /\ head' = c /\ moves' = moves + 1
  /\ UNCHANGED <<rows, jobs, pr, actors, page, dues, edits>>

\* finish_scan, finish_maintenance: a run ends; one of a maintenance recipe may
\* leave a pull request.  One that is held or given up stays active.
RunEnds(j) ==
  /\ state[j] = "active"
  /\ \/ state' = [state EXCEPT ![j] = "completed"] /\ UNCHANGED pr
     \/ /\ recipe[j] \in Maintenance
        /\ state' = [state EXCEPT ![j] = "prepared"] /\ pr' = [pr EXCEPT ![j] = TRUE]
  /\ UNCHANGED <<rows, recipe, base, key, head, moves, actors, page, dues, edits>>

PrCloses(j) ==
  /\ pr[j]
  /\ pr' = [pr EXCEPT ![j] = FALSE]
  /\ UNCHANGED <<rows, jobs, head, moves, actors, page, dues, edits>>

-----------------------------------------------------------------------------
(* Operators edit schedules.                                               *)

\* overview: a page shows the row.
Look(o, r) ==
  /\ page' = [page EXCEPT ![o] = [of |-> r, on |-> on[r], version |-> version[r]]]
  /\ UNCHANGED <<rows, jobs, github, actors, dues, edits>>

\* Mutant: the row keeps its version.
ConfigureQuietly(o, e) ==
  /\ page[o] # <<>> /\ edits < MaxEdits /\ version[page[o].of] = page[o].version
  /\ on' = [on EXCEPT ![page[o].of] = e]
  /\ due' = [due EXCEPT ![page[o].of] = @ /\ ~e]
  /\ edits' = edits + 1
  /\ UNCHANGED <<version, jobs, github, actors, page, dues>>

\* configure, refused unless the row is the one the page showed; enabling puts
\* the next run one interval away.
Configure(o, e) ==
  /\ page[o] # <<>> /\ edits < MaxEdits /\ version[page[o].of] = page[o].version
  /\ on' = [on EXCEPT ![page[o].of] = e]
  /\ due' = [due EXCEPT ![page[o].of] = @ /\ ~e]
  /\ version' = [version EXCEPT ![page[o].of] = @ + 1]
  /\ edits' = edits + 1
  /\ UNCHANGED <<jobs, github, actors, page, dues>>

-----------------------------------------------------------------------------
(* A tick of the worker and a manual run, up to their transaction.         *)

Outside == UNCHANGED <<rows, jobs, github, page, dues, edits>>
Goto(a, step) == at' = [at EXCEPT ![a] = step]
Starts(a, r) == Goto(a, "reconcile") /\ of' = [of EXCEPT ![a] = r]
Ends(a) == /\ at' = [at EXCEPT ![a] = "idle"] /\ saw' = [saw EXCEPT ![a] = None]
           /\ closed' = [closed EXCEPT ![a] = 1] /\ of' = [of EXCEPT ![a] = CHOOSE r \in Recipes : TRUE]

\* schedule_automations, once a minute.
TickAll ==
  /\ at[Worker] = "idle" /\ left = {}
  /\ left' = Recipes
  /\ UNCHANGED <<at, of, saw, closed, answer>> /\ Outside

\* tick: the row is read; it is skipped unless it is enabled and due.
Tick(r) ==
  /\ at[Worker] = "idle" /\ r \in left
  /\ left' = left \ {r}
  /\ IF on[r] /\ due[r] THEN Starts(Worker, r) ELSE UNCHANGED <<at, of>>
  /\ UNCHANGED <<saw, closed, answer>> /\ Outside

\* run_now: a request already known is answered with its job.
Told(c, j) == answer' = [answer EXCEPT ![c] = j]
JobOf(q) == {j \in Rows : key[j] = q}

RunNow(c) ==
  /\ at[c] = "idle" /\ answer[c] = 0
  /\ IF JobOf(RequestOf[c]) # {}
     THEN (\E j \in JobOf(RequestOf[c]) : Told(c, j)) /\ UNCHANGED <<at, of>>
     ELSE Starts(c, RecipeOf[RequestOf[c]]) /\ UNCHANGED answer
  /\ UNCHANGED <<saw, closed, left>> /\ Outside

\* _reconcile_maintenance: the pull request of a prepared run is read.
ReconcileRead(a) ==
  /\ at[a] = "reconcile"
  /\ LET mine == {j \in Rows : /\ state[j] = "prepared" /\ recipe[j] = of[a]
                               /\ recipe[j] \in Maintenance}
     IN  \/ \E j \in mine : ~pr[j] /\ Goto(a, "complete") /\ closed' = [closed EXCEPT ![a] = j]
         \/ (\A j \in mine : pr[j]) /\ Goto(a, "revision") /\ UNCHANGED closed
  /\ UNCHANGED <<of, saw, left, answer>> /\ Outside

\* Its run is completed, if nobody else did it.
Complete(a) ==
  /\ at[a] = "complete"
  /\ state' = [state EXCEPT ![closed[a]] = IF @ = "prepared" THEN "completed" ELSE @]
  /\ Goto(a, "revision")
  /\ UNCHANGED <<rows, recipe, base, key, github, of, saw, closed, left, answer, page, dues, edits>>

Revision(a) ==
  /\ at[a] = "revision"
  /\ Goto(a, "insert") /\ saw' = [saw EXCEPT ![a] = head]
  /\ UNCHANGED <<of, closed, left, answer>> /\ Outside

\* Mutant: one recipe's outage ends the pass.
FailsPass(a) ==
  /\ at[a] \in {"reconcile", "revision"}
  /\ Ends(a)
  /\ left' = (IF a = Worker THEN {} ELSE left) /\ UNCHANGED answer
  /\ Outside

\* A read fails: the worker goes on to the next recipe, the call may be repeated.
Fails(a) ==
  /\ at[a] \in {"reconcile", "revision"}
  /\ Ends(a)
  /\ UNCHANGED <<left, answer>> /\ Outside

-----------------------------------------------------------------------------
(* The transactions.                                                       *)

\* Mutant: a prepared run no longer counts.
RunningRuns(r) == {j \in Rows : recipe[j] = r /\ state[j] = "active"}

\* _active: queued, under way, held, given up or prepared.
ActiveRuns(r) == {j \in Rows : recipe[j] = r /\ state[j] \in {"active", "prepared"}}

Scanned(r, c) ==
  {j \in Rows : r \in Maintenance /\ recipe[j] = r /\ state[j] = "completed" /\ base[j] = c}

Insert(r, c, k) ==
  \E j \in Jobs :
    /\ Rows = 1..(j - 1)
    /\ state' = [state EXCEPT ![j] = "active"] /\ recipe' = [recipe EXCEPT ![j] = r]
    /\ base' = [base EXCEPT ![j] = c] /\ key' = [key EXCEPT ![j] = k]

\* tick, under the lock: the row is read again; a run that is active, or whose
\* revision was scanned, is not repeated; the next run is one interval away.
TickDecides ==
  /\ at[Worker] = "insert"
  /\ LET r == of[Worker] IN
     IF ~on[r] \/ ~due[r] THEN UNCHANGED <<due, jobs>>
     ELSE /\ due' = [due EXCEPT ![r] = FALSE]
          /\ IF ActiveRuns(r) \cup Scanned(r, saw[Worker]) # {} THEN UNCHANGED jobs
             ELSE Insert(r, saw[Worker], "schedule")
  /\ Ends(Worker)
  /\ UNCHANGED <<on, version, github, left, answer, page, dues, edits>>

\* Mutant: the request is not looked up again.
RunDecidesUnread(c) ==
  /\ at[c] = "insert"
  /\ LET r == of[c] IN
     IF ActiveRuns(r) # {} THEN Told(c, -1) /\ UNCHANGED jobs
     ELSE Insert(r, saw[c], RequestOf[c]) /\ Told(c, CHOOSE j \in Jobs : Rows = 1..(j - 1))
  /\ Ends(c)
  /\ UNCHANGED <<rows, github, left, page, dues, edits>>

\* run_now, under the lock: the request is looked up again, an active run refuses
\* it, and a scanned revision does not.
RunDecides(c) ==
  /\ at[c] = "insert"
  /\ LET r == of[c]  q == RequestOf[c] IN
     IF JobOf(q) # {} THEN (\E j \in JobOf(q) : Told(c, j)) /\ UNCHANGED jobs
     ELSE IF ActiveRuns(r) # {} THEN Told(c, -1) /\ UNCHANGED jobs
     ELSE Insert(r, saw[c], q) /\ Told(c, CHOOSE j \in Jobs : Rows = 1..(j - 1))
  /\ Ends(c)
  /\ UNCHANGED <<rows, github, left, page, dues, edits>>

-----------------------------------------------------------------------------
Reads(a) == ReconcileRead(a) \/ Revision(a)
Steps    == TickAll \/ (\E r \in Recipes : Tick(r)) \/ Complete(Worker) \/ TickDecides

Next ==
  \/ \E r \in Recipes : NextRunComes(r)
  \/ \E c \in Commits : Push(c)
  \/ \E j \in Jobs : RunEnds(j) \/ PrCloses(j)
  \/ \E o \in Operators : (\E r \in Recipes : Look(o, r)) \/ \E e \in BOOLEAN : Configure(o, e)
  \/ Steps
  \/ \E a \in Actors : Reads(a) \/ Fails(a)
  \/ \E c \in Calls : RunNow(c) \/ Complete(c) \/ RunDecides(c)

Spec == Init /\ [][Next]_vars

\* The worker passes over the recipes again and again; a read that is repeated
\* succeeds at last, but for the failing recipes.
Fairness ==
  /\ WF_vars(Steps) /\ WF_vars(Reads(Worker) \/ Fails(Worker))
  /\ \A r \in Recipes \ Failing : /\ SF_vars(ReconcileRead(Worker) /\ of[Worker] = r)
                                  /\ SF_vars(Revision(Worker) /\ of[Worker] = r)

FairSpec == Spec /\ Fairness

-----------------------------------------------------------------------------
(* Properties.                                                             *)

\* A recipe never has two runs that are under way, held, given up or own an open
\* pull request, whatever ticks and manual runs read before they decide.
NoTwoRuns ==
  \A i, j \in Rows : recipe[i] = recipe[j] /\ i # j
    => ~(state[i] \in {"active", "prepared"} /\ (state[j] \in {"active", "prepared"} \/ pr[j]))

\* A retry of a manual run is told about the run it asked for, never that this run
\* is in its own way.
RetryFindsItsRun ==
  [][\A c \in Calls : answer'[c] = -1 /\ answer[c] # -1 => JobOf(RequestOf[c]) = {}]_vars

\* An edit replaces what its operator saw, never another operator's later edit.
EditsWhatWasSeen ==
  [][\A o \in Operators : (\E e \in BOOLEAN : Configure(o, e)) => on[page[o].of] = page[o].on]_vars

\* A recipe that is due is served or put off at last, whatever other recipes' reads do.
DueIsServed == \A r \in Recipes \ Failing : (on[r] /\ due[r]) ~> (~on[r] \/ ~due[r])
=============================================================================
