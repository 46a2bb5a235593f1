--------------------------- MODULE SchedulesProofs ---------------------------
(***************************************************************************)
(* Proofs about the schedules for every catalogue of recipes and any       *)
(* number of manual runs, operators, edits, revisions and due times.       *)
(***************************************************************************)
EXTENDS Schedules, FiniteSetTheorems, TLAPS

\* The states of a run that keep another one of its recipe out.
InTheWay == {"active", "prepared"}

\* An open pull request belongs to a run that waits for it, and who is about to
\* complete a run has seen its pull request closed.
PrsOwned ==
  /\ \A j \in Jobs : pr[j] => state[j] = "prepared"
  /\ \A a \in Actors : at[a] = "complete" =>
       ~pr[closed[a]] /\ state[closed[a]] \in {"prepared", "completed"}

OneInTheWay ==
  \A i, j \in Jobs : recipe[i] = recipe[j] /\ state[i] \in InTheWay /\ state[j] \in InTheWay => i = j

\* A page whose version is the row's shows the row.
PagesShow ==
  \A o \in Operators : page[o] # <<>> =>
    /\ page[o].version <= version[page[o].of]
    /\ page[o].version = version[page[o].of] => on[page[o].of] = page[o].on

IInv == TypeOK /\ PrsOwned /\ OneInTheWay /\ PagesShow

-----------------------------------------------------------------------------
(* The tables.                                                             *)

LEMMA JobsAreNumbers == Jobs \subseteq Nat \ {0} /\ 1 \in Jobs
<1>1. IsFiniteSet(Requests)
  <2>1. [c \in Calls |-> RequestOf[c]] \in Surjection(Calls, Requests)
    BY DEF Requests, Surjection
  <2> QED
    BY <2>1, CallsAssumption, FS_Surjection
<1>2. Cardinality(Requests) \in Nat /\ Cardinality(Recipes) \in Nat /\ Cardinality(Recipes) # 0
  BY <1>1, RecipesAssumption, FS_CardinalityType, FS_EmptySet
<1> QED
  BY <1>2, BoundsAssumption DEF Jobs

LEMMA SomeRecipe == (CHOOSE r \in Recipes : TRUE) \in Recipes
  BY RecipesAssumption

\* A new run takes the first row that is free.
LEMMA InsertStep ==
  ASSUME IInv, NEW r \in Recipes, NEW c, NEW k, Insert(r, c, k), ActiveRuns(r) = {},
         UNCHANGED <<pr, version, on, page>>
  PROVE  /\ \E j \in Jobs :
              /\ state[j] = "absent" /\ Rows = 1..(j - 1)
              /\ state' = [state EXCEPT ![j] = "active"] /\ recipe' = [recipe EXCEPT ![j] = r]
              /\ base' = [base EXCEPT ![j] = c] /\ key' = [key EXCEPT ![j] = k]
         /\ OneInTheWay'
         /\ \A j \in Jobs : state[j] # "absent" => state'[j] = state[j]
<1>1. PICK j \in Jobs :
        /\ Rows = 1..(j - 1)
        /\ state' = [state EXCEPT ![j] = "active"] /\ recipe' = [recipe EXCEPT ![j] = r]
        /\ base' = [base EXCEPT ![j] = c] /\ key' = [key EXCEPT ![j] = k]
  BY DEF Insert
<1>2. j \notin Rows
  BY <1>1, JobsAreNumbers
<1>3. state[j] = "absent"
  BY <1>2 DEF Rows
<1>4. \A i \in Jobs : state[i] \in InTheWay => recipe[i] # r
  BY DEF ActiveRuns, Rows, InTheWay
<1>5. OneInTheWay'
  BY <1>1, <1>3, <1>4 DEF IInv, TypeOK, OneInTheWay, InTheWay
<1> QED
  BY <1>1, <1>3, <1>5 DEF IInv, TypeOK

\* What no step of the world touches.
LEMMA WorldStep ==
  ASSUME IInv,
         \/ \E r \in Recipes : NextRunComes(r)
         \/ \E c \in Commits : Push(c)
         \/ \E j \in Jobs : RunEnds(j) \/ PrCloses(j)
  PROVE  IInv'
<1>1. ASSUME UNCHANGED <<on, version, jobs, pr, actors, page>>,
             due' \in [Recipes -> BOOLEAN], head' \in Commits
      PROVE  IInv'
  <2>1. TypeOK'
    BY <1>1 DEF IInv, TypeOK, jobs, actors
  <2> QED
    BY <1>1, <2>1 DEF IInv, PrsOwned, OneInTheWay, PagesShow, jobs, actors
<1>2. ASSUME NEW j \in Jobs, RunEnds(j)
      PROVE  IInv'
  <2>1. TypeOK'
    BY <1>2 DEF RunEnds, IInv, TypeOK, rows, actors
  <2>2. PrsOwned'
    <3>1. \A i \in Jobs \ {j} : state'[i] = state[i] /\ pr'[i] = pr[i]
      BY <1>2 DEF RunEnds, IInv, TypeOK
    <3>2. state[j] = "active" /\ (pr'[j] => state'[j] = "prepared")
      BY <1>2 DEF RunEnds, IInv, TypeOK, PrsOwned
    <3>3. UNCHANGED <<at, closed>> /\ \A a \in Actors : closed[a] \in Jobs
      BY <1>2 DEF RunEnds, IInv, TypeOK, actors
    <3> QED
      BY <3>1, <3>2, <3>3 DEF IInv, PrsOwned
  <2>3. OneInTheWay'
    BY <1>2 DEF RunEnds, IInv, TypeOK, OneInTheWay, InTheWay
  <2>4. PagesShow'
    BY <1>2 DEF RunEnds, IInv, PagesShow, rows
  <2> QED
    BY <2>1, <2>2, <2>3, <2>4 DEF IInv
<1>3. ASSUME NEW j \in Jobs, PrCloses(j)
      PROVE  IInv'
  BY <1>3 DEF PrCloses, IInv, TypeOK, PrsOwned, OneInTheWay, PagesShow, rows, jobs, actors
<1>4. ASSUME NEW r \in Recipes, NextRunComes(r)
      PROVE  IInv'
  BY <1>1, <1>4 DEF NextRunComes, IInv, TypeOK, rows, github
<1>5. ASSUME NEW c \in Commits, Push(c)
      PROVE  IInv'
  BY <1>1, <1>5 DEF Push, IInv, TypeOK, rows
<1> QED
  BY <1>2, <1>3, <1>4, <1>5

\* An edit gives the row a version that no page shows yet.
LEMMA PageStep ==
  ASSUME IInv, NEW o \in Operators,
         (\E r \in Recipes : Look(o, r)) \/ \E e \in BOOLEAN : Configure(o, e)
  PROVE  IInv'
<1>1. ASSUME NEW r \in Recipes, Look(o, r)
      PROVE  IInv'
  <2>1. TypeOK'
    BY <1>1 DEF Look, IInv, TypeOK, rows, jobs, github, actors
  <2>2. PagesShow'
    BY <1>1 DEF Look, IInv, TypeOK, PagesShow, rows
  <2> QED
    BY <1>1, <2>1, <2>2 DEF Look, IInv, PrsOwned, OneInTheWay, jobs, github, actors
<1>2. ASSUME NEW e \in BOOLEAN, Configure(o, e)
      PROVE  IInv'
  <2>1. page[o] \in [of : Recipes, on : BOOLEAN, version : Nat]
    BY <1>2 DEF Configure, IInv, TypeOK
  <2>2. TypeOK'
    BY <1>2, <2>1 DEF Configure, IInv, TypeOK, jobs, github, actors
  <2>3. PagesShow'
    <3> SUFFICES ASSUME NEW q \in Operators, page[q] # <<>>
                 PROVE  /\ page[q].version <= version'[page[q].of]
                        /\ page[q].version = version'[page[q].of] => on'[page[q].of] = page[q].on
      BY <1>2 DEF Configure, PagesShow
    <3>1. page[q] \in [of : Recipes, on : BOOLEAN, version : Nat]
      BY DEF IInv, TypeOK
    <3> QED
      BY <1>2, <2>1, <3>1 DEF Configure, IInv, TypeOK, PagesShow
  <2> QED
    BY <1>2, <2>2, <2>3 DEF Configure, IInv, PrsOwned, OneInTheWay, jobs, github, actors
<1> QED
  BY <1>1, <1>2

-----------------------------------------------------------------------------
(* The worker and the calls.                                               *)

\* A step that writes no table and leaves who completes a run alone.
LEMMA ReadStep ==
  ASSUME IInv, Outside,
         at' \in [Actors -> {"idle", "reconcile", "complete", "revision", "insert"}],
         of' \in [Actors -> Recipes], saw' \in [Actors -> Commits \cup {None}],
         closed' \in [Actors -> Jobs], left' \subseteq Recipes,
         answer' \in [Calls -> Jobs \cup {0, -1}],
         \A a \in Actors : at'[a] = "complete" =>
           \/ at[a] = "complete" /\ closed'[a] = closed[a]
           \/ ~pr[closed'[a]] /\ state[closed'[a]] = "prepared"
  PROVE  IInv'
BY DEF IInv, TypeOK, PrsOwned, OneInTheWay, PagesShow, Outside, rows, jobs, github

LEMMA EndsFacts ==
  ASSUME IInv, NEW a \in Actors, Ends(a)
  PROVE  /\ at' \in [Actors -> {"idle", "reconcile", "complete", "revision", "insert"}]
         /\ of' \in [Actors -> Recipes] /\ saw' \in [Actors -> Commits \cup {None}]
         /\ closed' \in [Actors -> Jobs]
         /\ \A b \in Actors : at'[b] = "complete" => at[b] = "complete" /\ closed'[b] = closed[b]
BY JobsAreNumbers, SomeRecipe DEF Ends, IInv, TypeOK

LEMMA CallsAct == Calls \subseteq Actors /\ Worker \in Actors
  BY DEF Actors

\* The steps before the transaction.
LEMMA StartStep ==
  ASSUME IInv,
         \/ TickAll \/ \E r \in Recipes : Tick(r)
         \/ \E c \in Calls : RunNow(c)
  PROVE  IInv'
<1>1. CASE TickAll
  BY <1>1, ReadStep DEF TickAll, IInv, TypeOK
<1>2. ASSUME NEW r \in Recipes, Tick(r)
      PROVE  IInv'
  <2>1. /\ at' \in [Actors -> {"idle", "reconcile", "complete", "revision", "insert"}]
        /\ of' \in [Actors -> Recipes]
        /\ \A a \in Actors : at'[a] = "complete" => at[a] = "complete"
    BY <1>2, CallsAct DEF Tick, Starts, Goto, IInv, TypeOK
  <2>2. left' \subseteq Recipes /\ UNCHANGED <<saw, closed, answer>> /\ Outside
    BY <1>2 DEF Tick, IInv, TypeOK
  <2> QED
    BY <2>1, <2>2, ReadStep DEF IInv, TypeOK
<1>3. ASSUME NEW c \in Calls, RunNow(c)
      PROVE  IInv'
  <2>1. answer' \in [Calls -> Jobs \cup {0, -1}]
    BY <1>3 DEF RunNow, Told, JobOf, Rows, IInv, TypeOK
  <2>2. RecipeOf[RequestOf[c]] \in Recipes
    BY CallsAssumption
  <2> QED
    BY <1>3, <2>1, <2>2, ReadStep, CallsAct DEF RunNow, Starts, Goto, IInv, TypeOK
<1> QED
  BY <1>1, <1>2, <1>3

LEMMA ReadsStep ==
  ASSUME IInv, NEW a \in Actors, Reads(a) \/ Fails(a)
  PROVE  IInv'
<1>1. CASE ReconcileRead(a)
  BY <1>1, ReadStep DEF ReconcileRead, Rows, Goto, IInv, TypeOK
<1>2. CASE Revision(a)
  BY <1>2, ReadStep DEF Revision, Goto, IInv, TypeOK
<1>3. CASE Fails(a)
  BY <1>3, ReadStep, EndsFacts DEF Fails, IInv, TypeOK
<1> QED
  BY <1>1, <1>2, <1>3 DEF Reads

\* Who completes a run saw its pull request closed, and it stays closed.
LEMMA CompleteStep ==
  ASSUME IInv, NEW a \in Actors, Complete(a)
  PROVE  IInv'
<1>1. /\ at[a] = "complete" /\ closed[a] \in Jobs
      /\ state' = [state EXCEPT ![closed[a]] = IF @ = "prepared" THEN "completed" ELSE @]
      /\ UNCHANGED <<recipe, pr, closed, page, version, on>>
      /\ at' = [at EXCEPT ![a] = "revision"]
  BY DEF Complete, Goto, IInv, TypeOK, rows, github
<1>2. TypeOK'
  BY <1>1 DEF Complete, IInv, TypeOK, rows, github
<1>3. PrsOwned'
  BY <1>1 DEF IInv, TypeOK, PrsOwned
<1>4. OneInTheWay'
  BY <1>1 DEF IInv, TypeOK, OneInTheWay, InTheWay
<1>5. PagesShow'
  BY <1>1 DEF IInv, PagesShow
<1> QED
  BY <1>2, <1>3, <1>4, <1>5 DEF IInv

\* The transactions: what they insert is not in the way of anything.
LEMMA DecideStep ==
  ASSUME IInv, NEW a \in Actors, Ends(a),
         due' \in [Recipes -> BOOLEAN], UNCHANGED <<on, version, github, left, page>>,
         answer' \in [Calls -> Jobs \cup {0, -1}],
         \/ UNCHANGED jobs
         \/ \E k \in Requests \cup {"schedule"} :
              Insert(of[a], saw[a], k) /\ ActiveRuns(of[a]) = {}
  PROVE  IInv'
<1>1. CASE UNCHANGED jobs
  BY <1>1, EndsFacts DEF IInv, TypeOK, PrsOwned, OneInTheWay, PagesShow, github, jobs
<1>2. ASSUME NEW k \in Requests \cup {"schedule"}, Insert(of[a], saw[a], k), ActiveRuns(of[a]) = {}
      PROVE  IInv'
  <2>1. of[a] \in Recipes /\ saw[a] \in Commits \cup {None}
    BY DEF IInv, TypeOK
  <2>2. PICK j \in Jobs :
          /\ state[j] = "absent"
          /\ state' = [state EXCEPT ![j] = "active"] /\ recipe' = [recipe EXCEPT ![j] = of[a]]
          /\ base' = [base EXCEPT ![j] = saw[a]] /\ key' = [key EXCEPT ![j] = k]
    BY <1>2, <2>1, InsertStep DEF github
  <2>3. TypeOK'
    BY <1>2, <2>1, <2>2, EndsFacts DEF IInv, TypeOK, github
  <2>4. PrsOwned'
    BY <2>2, EndsFacts DEF IInv, TypeOK, PrsOwned, github
  <2>5. OneInTheWay'
    BY <1>2, <2>1, InsertStep DEF github
  <2>6. PagesShow'
    BY DEF IInv, PagesShow
  <2> QED
    BY <2>3, <2>4, <2>5, <2>6 DEF IInv
<1> QED
  BY <1>1, <1>2

LEMMA TickDecidesStep == ASSUME IInv, TickDecides PROVE IInv'
<1>1. due' \in [Recipes -> BOOLEAN]
  BY CallsAct DEF TickDecides, IInv, TypeOK
<1>2. answer' \in [Calls -> Jobs \cup {0, -1}]
  BY DEF TickDecides, IInv, TypeOK
<1>3. \/ UNCHANGED jobs
      \/ Insert(of[Worker], saw[Worker], "schedule") /\ ActiveRuns(of[Worker]) = {}
  BY DEF TickDecides
<1> QED
  BY <1>1, <1>2, <1>3, CallsAct, DecideStep DEF TickDecides

\* The answer is the row the transaction inserted.
LEMMA ToldNew ==
  ASSUME IInv, NEW r, NEW b, NEW k, Insert(r, b, k)
  PROVE  (CHOOSE j \in Jobs : Rows = 1..(j - 1)) \in Jobs
BY DEF Insert

LEMMA RunDecidesStep == ASSUME IInv, NEW c \in Calls, RunDecides(c) PROVE IInv'
<1>1. answer' \in [Calls -> Jobs \cup {0, -1}]
  BY ToldNew DEF RunDecides, Told, JobOf, Rows, IInv, TypeOK
<1>2. \/ UNCHANGED jobs
      \/ Insert(of[c], saw[c], RequestOf[c]) /\ ActiveRuns(of[c]) = {}
  BY DEF RunDecides
<1>3. RequestOf[c] \in Requests /\ due' \in [Recipes -> BOOLEAN]
  BY DEF Requests, RunDecides, rows, IInv, TypeOK
<1> QED
  BY <1>1, <1>2, <1>3, CallsAct, DecideStep DEF RunDecides, rows

-----------------------------------------------------------------------------
LEMMA InitIInv == Init => IInv
<1> SUFFICES ASSUME Init PROVE IInv
  OBVIOUS
<1>1. TypeOK
  BY JobsAreNumbers, SomeRecipe DEF Init, TypeOK
<1>2. PrsOwned /\ OneInTheWay /\ PagesShow
  BY DEF Init, PrsOwned, OneInTheWay, InTheWay, PagesShow
<1> QED
  BY <1>1, <1>2 DEF IInv

LEMMA NextIInv == IInv /\ [Next]_vars => IInv'
<1> SUFFICES ASSUME IInv, [Next]_vars PROVE IInv'
  OBVIOUS
<1>1. CASE UNCHANGED vars
  <2>1. UNCHANGED <<on, due, version, recipe, state, base, key, pr, head, at, of, saw, closed,
                    left, answer, page>>
    BY <1>1 DEF vars, rows, jobs, github, actors
  <2> QED
    BY <2>1 DEF IInv, TypeOK, PrsOwned, OneInTheWay, PagesShow
<1>2. CASE Steps
  BY <1>2, StartStep, CompleteStep, TickDecidesStep, CallsAct DEF Steps
<1> QED
  BY <1>1, <1>2, WorldStep, PageStep, StartStep, ReadsStep, CompleteStep, RunDecidesStep,
     CallsAct DEF Next

\* Every variable keeps its type.
THEOREM TypeCorrect == Spec => []TypeOK
<1>1. IInv => TypeOK
  BY DEF IInv
<1> QED
  BY <1>1, InitIInv, NextIInv, PTL DEF Spec

\* A recipe never has two runs in the way of each other, however ticks, manual runs,
\* pull requests and failed reads interleave (schedules.py, tick and run_now).
THEOREM OneRunPerRecipe == Spec => []NoTwoRuns
<1>1. IInv => NoTwoRuns
  BY DEF IInv, NoTwoRuns, OneInTheWay, PrsOwned, InTheWay, Rows
<1> QED
  BY <1>1, InitIInv, NextIInv, PTL DEF Spec

\* A call is told that a run is in its way only while its request has none
\* (schedules.py, run_now).
THEOREM RetryIsAnswered == Spec => RetryFindsItsRun
<1>1. ASSUME IInv, [Next]_vars, NEW c \in Calls, answer'[c] = -1, answer[c] # -1
      PROVE  JobOf(RequestOf[c]) = {}
  <2>1. \/ answer' = answer
        \/ \E d \in Calls : RunNow(d) \/ RunDecides(d)
    BY <1>1 DEF Next, vars, NextRunComes, Push, RunEnds, PrCloses, Look, Configure, Steps,
       TickAll, Tick, Complete, TickDecides, Reads, ReconcileRead, Revision, Fails, actors
  <2>2. PICK d \in Calls : RunNow(d) \/ RunDecides(d)
    BY <1>1, <2>1
  <2>3. ASSUME NEW j \in Jobs PROVE ~Told(d, j)
    BY <1>1, JobsAreNumbers DEF Told, IInv, TypeOK
  <2>4. ~RunNow(d)
    BY <1>1, <2>3 DEF RunNow, JobOf, Rows
  <2>5. JobOf(RequestOf[d]) = {} /\ Told(d, -1)
    BY <2>2, <2>3, <2>4, <1>1, ToldNew DEF RunDecides, JobOf, Rows
  <2> QED
    BY <1>1, <2>5 DEF Told, IInv, TypeOK
<1>2. IInv /\ [Next]_vars =>
        [\A c \in Calls : answer'[c] = -1 /\ answer[c] # -1 => JobOf(RequestOf[c]) = {}]_vars
  BY <1>1
<1> QED
  BY <1>2, InitIInv, NextIInv, PTL DEF Spec, RetryFindsItsRun

\* An edit is applied to the row its page showed (schedules.py, configure).
THEOREM NoLostEdit == Spec => EditsWhatWasSeen
<1>1. IInv /\ [Next]_vars =>
        [\A o \in Operators : (\E e \in BOOLEAN : Configure(o, e)) => on[page[o].of] = page[o].on]_vars
  BY DEF IInv, PagesShow, Configure
<1> QED
  BY <1>1, InitIInv, NextIInv, PTL DEF Spec, EditsWhatWasSeen
=============================================================================
