---------------------------- MODULE PrValidation ----------------------------
(***************************************************************************)
(* The validations of one pull request while its head moves: intake        *)
(* (automation/pr_validation.py) by the worker's poll and inbox and by an  *)
(* operator's request, freshness checks and the evidence gate              *)
(* (automation/validation.py), supersession and deduplication              *)
(* (automation/store.py) and the worker's handling of a validation job     *)
(* (automation/engine.py).                                                 *)
(*                                                                         *)
(* Every transaction and every provider call is a step.  The pull request  *)
(* was opened by a person: no implementation job of this ledger is related *)
(* to it.  The recovery policy, leases and budgets of a job are JobLedger's *)
(* subject; here a failed step only says whether the job stays in the      *)
(* queue.                                                                  *)
(***************************************************************************)
EXTENDS Integers, Sequences, FiniteSets

CONSTANTS
  Jobs,        \* identities of validation rows
  Commits,     \* revisions the pull request's branch may point at
  Requests,    \* operators who request a validation
  MaxMoves,    \* bound on pushes and changes of eligibility
  MaxCrashes   \* bound on worker deaths

ASSUME JobsAssumption == IsFiniteSet(Jobs) /\ Jobs # {}
ASSUME CommitsAssumption == Commits # {}
ASSUME ActorsAssumption == "worker" \notin Requests
ASSUME BoundsAssumption == MaxMoves \in Nat /\ MaxCrashes \in Nat

None == "none"        \* no revision: the pull request is not eligible
ASSUME NoneAssumption == None \notin Commits

VARIABLES
  state,     \* jobs.state, or "absent" before the row exists
  sha,       \* jobs.candidate_sha
  key,       \* jobs.dedup: the revision, then the ids it comes :after:
  tracked,   \* payload.tracked_pr: an earlier row knew the pull request
  working,   \* provider: the job's agent exists and is executing
  session,   \* jobs.session_id IS NOT NULL
  head,      \* GitHub: the head of the pull request
  standing,  \* GitHub: it asks for validation, is open only, or is out of scope
  wpc,       \* where the worker stands
  wjob,      \* the validation it handles
  seen,      \* the revision its last freshness check observed
  intake,    \* for every actor: where its intake stands, what it read
  moves, crashes,
  overlapped \* history: a request ran while the worker was in a task

rows   == <<state, sha, key, tracked, session>>
worker == <<wpc, wjob, seen>>
github == <<head, standing, moves>>
system == <<rows, working, worker, intake, github, crashes>>
vars   == <<system, overlapped>>

Actors == {"worker"} \cup Requests

Live     == {"running", "dispatching", "unknown_effect", "needs_attention"}
Outcomes == {"review_ready", "validation_failed", "awaiting_ci"}
\* "dead_letter" stands for "blocked" too: intake and claims do not tell them apart.
States   == {"absent", "queued", "stale", "dead_letter"} \cup Live \cup Outcomes

\* Asked: labelled or of the configured owner, and not a draft.  Open: neither,
\* which is enough for a pull request the ledger already tracks.
Standings == {"asked", "open", "out"}

Steps == {"idle", "intake", "dispatch", "start", "create", "record", "poll",
          "finish", "collect", "recheck", "commit", "refresh", "supersede"}
IntakeSteps == {"idle", "read", "supersede", "key", "enqueue"}

Idle == [pc |-> "idle", snap |-> {}, sha |-> None, todo |-> {}, key |-> <<>>]

Rows == {j \in Jobs : state[j] # "absent"}

TypeOK ==
  /\ state \in [Jobs -> States]
  /\ sha \in [Jobs -> Commits \cup {None}]
  /\ \A j \in Jobs : sha[j] = None <=> j \notin Rows
  /\ \A i, j \in Rows : key[i] = key[j] => i = j
  /\ tracked \in [Jobs -> BOOLEAN]
  /\ session \in [Jobs -> BOOLEAN]
  /\ working \in [Jobs -> BOOLEAN]
  /\ head \in Commits /\ standing \in Standings
  /\ wpc \in Steps /\ wjob \in Jobs /\ seen \in Commits \cup {None}
  /\ \A a \in Actors : /\ intake[a].pc \in IntakeSteps
                       /\ intake[a].snap \subseteq Jobs \X States
                       /\ intake[a].todo \subseteq Jobs
  /\ moves \in Nat /\ crashes \in Nat /\ overlapped \in BOOLEAN

Init ==
  /\ state = [j \in Jobs |-> "absent"]
  /\ sha = [j \in Jobs |-> None]
  /\ key = [j \in Jobs |-> <<>>]
  /\ tracked = [j \in Jobs |-> FALSE]
  /\ session = [j \in Jobs |-> FALSE]
  /\ working = [j \in Jobs |-> FALSE]
  /\ head \in Commits /\ standing \in Standings
  /\ wpc = "idle" /\ wjob = (CHOOSE j \in Jobs : TRUE) /\ seen = None
  /\ intake = [a \in Actors |-> Idle]
  /\ moves = 0 /\ crashes = 0 /\ overlapped = FALSE

-----------------------------------------------------------------------------
(* Rows.                                                                   *)

\* The row an INSERT creates.
NextId == CHOOSE j \in Jobs \ Rows : TRUE

Present(k) == \E j \in Rows : key[j] = k
StaleWith(k) == {j \in Rows : key[j] = k /\ state[j] = "stale"}

\* INSERT ... ON CONFLICT DO NOTHING of a validation of c under k, with the
\* other rows in the states of st; t is its payload's tracked_pr.
Insert(st, k, c, t) ==
  IF Present(k)
  THEN state' = st /\ UNCHANGED <<sha, key, tracked>>
  ELSE /\ Jobs # Rows
       /\ state' = [st EXCEPT ![NextId] = "queued"]
       /\ sha' = [sha EXCEPT ![NextId] = c]
       /\ key' = [key EXCEPT ![NextId] = k]
       /\ tracked' = [tracked EXCEPT ![NextId] = t]

\* The key of the replacement of j by c: returning to a revision whose first
\* validation is stale needs a row of its own.
ReplacementKey(j, c) == IF StaleWith(<<c>>) # {} THEN <<c, j>> ELSE <<c>>

\* Store.supersede_validation, one transaction; the replacement takes the payload.
Supersede(j, c) ==
  LET st == [state EXCEPT ![j] = "stale"]
  IN  /\ IF state[j] \in {"absent", "stale"} THEN UNCHANGED <<state, sha, key, tracked>>
         ELSE IF c = None THEN state' = st /\ UNCHANGED <<sha, key, tracked>>
         ELSE Insert(st, ReplacementKey(j, c), c, tracked[j])
      /\ UNCHANGED session

\* eligible_validation.
Eligible(t) == standing = "asked" \/ (standing = "open" /\ t)

\* What a freshness check of j observes: the head, or that j is out of scope.
Observed(j) == IF Eligible(tracked[j]) THEN head ELSE None

-----------------------------------------------------------------------------
(* GitHub and the agents.                                                  *)

Push(c) ==
  /\ moves < MaxMoves /\ c # head
  /\ head' = c /\ moves' = moves + 1
  /\ UNCHANGED <<rows, working, worker, intake, standing, crashes>>

\* Closed, retargeted, unlabelled, made a draft, and back.
Reclassify(s) ==
  /\ moves < MaxMoves /\ s # standing
  /\ standing' = s /\ moves' = moves + 1
  /\ UNCHANGED <<rows, working, worker, intake, head, crashes>>

AgentStops(j) ==
  /\ working[j]
  /\ working' = [working EXCEPT ![j] = FALSE]
  /\ UNCHANGED <<rows, worker, intake, github, crashes>>

-----------------------------------------------------------------------------
(* Intake: accept(number, source).                                         *)

At(a, step) == intake[a].pc = step

\* The worker's intake is one task of its cycle; a request runs beside it.
Goes(a, r) ==
  /\ intake' = [intake EXCEPT ![a] = r]
  /\ wpc' = IF a = "worker" THEN (IF r.pc = "idle" THEN "idle" ELSE "intake") ELSE wpc

\* operational_jobs: what the ledger holds now decides everything below.
AcceptStart(a) ==
  /\ At(a, "idle") /\ (a = "worker" => wpc = "idle")
  /\ Goes(a, [Idle EXCEPT !.pc = "read", !.snap = {<<j, state[j]>> : j \in Rows}])
  /\ UNCHANGED <<rows, working, wjob, seen, github, crashes>>

Known(a, c) == \E p \in intake[a].snap : sha[p[1]] = c /\ p[2] # "stale"

\* Mutant: a validator that waits for an operator is not waited for.
DefersWithoutHeld(a) == \E p \in intake[a].snap : p[2] \in {"running", "dispatching"}

\* A paid or uncertain validator must finish or be reconciled first.
Defers(a) == \E p \in intake[a].snap : p[2] \in Live

\* Mutant: a validation that has settled is left open.
AcceptReadKeepsGates(a) ==
  /\ At(a, "read")
  /\ IF ~Eligible(intake[a].snap # {}) \/ Known(a, head) \/ Defers(a)
     THEN Goes(a, Idle)
     ELSE Goes(a, [intake[a] EXCEPT !.pc = "supersede", !.sha = head,
                     !.todo = {p[1] : p \in {q \in intake[a].snap : q[2] \in {"queued", "dead_letter"}}}])
  /\ UNCHANGED <<rows, working, wjob, seen, github, crashes>>

\* The pull request is read: an ineligible or failed read, a revision that is
\* known and a prior validator end the intake.
AcceptRead(a) ==
  /\ At(a, "read")
  /\ IF ~Eligible(intake[a].snap # {}) \/ Known(a, head) \/ Defers(a)
     THEN Goes(a, Idle)
     ELSE Goes(a, [intake[a] EXCEPT !.pc = "supersede", !.sha = head,
                     !.todo = {p[1] : p \in {q \in intake[a].snap : q[2] # "stale"}}])
  /\ UNCHANGED <<rows, working, wjob, seen, github, crashes>>

AcceptFails(a) ==
  /\ At(a, "read")
  /\ Goes(a, Idle)
  /\ UNCHANGED <<rows, working, wjob, seen, github, crashes>>

\* Each older validation is superseded in a transaction of its own.
AcceptSupersede(a) ==
  /\ At(a, "supersede")
  /\ \/ \E j \in intake[a].todo :
          /\ Supersede(j, None)
          /\ Goes(a, [intake[a] EXCEPT !.todo = @ \ {j}])
     \/ /\ intake[a].todo = {}
        /\ Goes(a, [intake[a] EXCEPT !.pc = "key"])
        /\ UNCHANGED rows
  /\ UNCHANGED <<working, wjob, seen, github, crashes>>

\* Mutant: a revision has one key for ever.
FreshKeyOnce(c) == <<c>>

\* The first key of the chain that no stale row holds.
FreshKey(c) ==
  LET link[n \in 0..Cardinality(Jobs)] ==
        IF n = 0 THEN <<c>>
        ELSE LET k == link[n - 1]
             IN  IF StaleWith(k) = {} THEN k
                 ELSE Append(k, CHOOSE j \in StaleWith(k) : TRUE)
  IN  link[Cardinality(Jobs)]

AcceptKey(a) ==
  /\ At(a, "key")
  /\ Goes(a, [intake[a] EXCEPT !.pc = "enqueue", !.key = FreshKey(intake[a].sha)])
  /\ UNCHANGED <<rows, working, wjob, seen, github, crashes>>

AcceptEnqueue(a) ==
  /\ At(a, "enqueue")
  /\ Insert(state, intake[a].key, intake[a].sha, intake[a].snap # {})
  /\ Goes(a, Idle)
  /\ UNCHANGED <<session, working, wjob, seen, github, crashes>>

RequestDies(a) ==
  /\ a \in Requests /\ ~At(a, "idle")
  /\ Goes(a, Idle)
  /\ UNCHANGED <<rows, working, wjob, seen, github, crashes>>

-----------------------------------------------------------------------------
(* The worker's handling of a validation.                                  *)

Stays == UNCHANGED <<intake, github, crashes>>
Goto(step) == wpc' = step /\ UNCHANGED <<wjob, seen>>

\* Store.claim: a running validation is polled, a queued one is dispatched
\* when no other one keeps the queue.
Claim(j) ==
  /\ wpc = "idle"
  /\ \/ state[j] = "running" /\ wpc' = "poll" /\ UNCHANGED state
     \/ /\ state[j] = "queued" /\ wpc' = "dispatch" /\ state' = [state EXCEPT ![j] = "dispatching"]
        /\ \A i \in Jobs \ {j} : state[i] \notin Live /\ ~(session[i] /\ state[i] = "dead_letter")
  /\ wjob' = j
  /\ UNCHANGED <<sha, key, tracked, session, working, seen>> /\ Stays

\* A step fails: the recovery policy leaves the job in place or gives it up,
\* and does not touch a row that is stale or settled.
FailedState == IF state[wjob] \in {"stale"} \cup Outcomes THEN {state[wjob]}
               ELSE {IF session[wjob] THEN "running" ELSE "queued", "dead_letter"}

Fails ==
  /\ \E s \in FailedState : state' = [state EXCEPT ![wjob] = s]
  /\ Goto("idle")
  /\ UNCHANGED <<sha, key, tracked, session, working>> /\ Stays

\* is_current: the pull request is read; what was seen decides in the next step.
Reads(next) ==
  /\ seen' = Observed(wjob)
  /\ wpc' = IF seen' = sha[wjob] THEN next ELSE "supersede"
  /\ UNCHANGED <<wjob, rows, working>> /\ Stays

\* is_current, second half: the outdated validation and its replacement.
Outdated ==
  /\ wpc = "supersede"
  /\ Supersede(wjob, seen)
  /\ Goto("idle")
  /\ UNCHANGED working /\ Stays

Dispatch == wpc = "dispatch" /\ (Reads("start") \/ Fails)

\* dispatch_started, written whatever the row says by now.
Start ==
  /\ wpc = "start"
  /\ state' = [state EXCEPT ![wjob] = "dispatching"]
  /\ Goto("create")
  /\ UNCHANGED <<sha, key, tracked, session, working>> /\ Stays

\* create_session is answered, is refused, or its answer is lost.
Create ==
  /\ wpc = "create"
  /\ \/ /\ working' = [working EXCEPT ![wjob] = TRUE]
        /\ Goto("record")
        /\ UNCHANGED rows
     \/ Fails /\ UNCHANGED working
     \/ /\ \E b \in BOOLEAN : working' = [working EXCEPT ![wjob] = b]
        /\ state' = [state EXCEPT ![wjob] = "unknown_effect"]
        /\ Goto("idle")
        /\ UNCHANGED <<sha, key, tracked, session>>
  /\ Stays

Record ==
  /\ wpc = "record"
  /\ state' = [state EXCEPT ![wjob] = "running"]
  /\ session' = [session EXCEPT ![wjob] = TRUE]
  /\ Goto("idle")
  /\ UNCHANGED <<sha, key, tracked, working>> /\ Stays

\* The agent still works, waits for somebody or is archived for its age, the
\* archive request is lost, or the agent has handed its result over.
Poll ==
  /\ wpc = "poll"
  /\ \/ Fails
     \/ working[wjob] /\ Goto("idle") /\ UNCHANGED <<rows, working>> /\ Stays
     \/ /\ state' = [state EXCEPT ![wjob] = "needs_attention"]
        /\ working' = [working EXCEPT ![wjob] = FALSE]
        /\ Goto("idle")
        /\ UNCHANGED <<sha, key, tracked, session>> /\ Stays
     \/ /\ working[wjob]
        /\ state' = [state EXCEPT ![wjob] = "unknown_effect"]
        /\ Goto("idle")
        /\ UNCHANGED <<sha, key, tracked, session, working>> /\ Stays
     \/ ~working[wjob] /\ Goto("finish") /\ UNCHANGED <<rows, working>> /\ Stays

Finish == wpc = "finish" /\ (Reads("collect") \/ Fails)

\* Attachments, evidence and CI are read.
Collect ==
  /\ wpc = "collect"
  /\ \/ Fails
     \/ /\ Goto(IF state[wjob] = "stale" THEN "idle" ELSE "recheck")
        /\ UNCHANGED <<rows, working>> /\ Stays

Recheck == wpc = "recheck" /\ (Reads("commit") \/ Fails)

\* Mutant: the gate is written whatever happened to the row.
CommitUnguarded ==
  /\ wpc = "commit"
  /\ \E s \in Outcomes : state' = [state EXCEPT ![wjob] = s]
  /\ Goto("idle")
  /\ UNCHANGED <<sha, key, tracked, session, working>> /\ Stays

\* commit_validation, or the hold of a correctable handoff: unless stale.
Commit ==
  /\ wpc = "commit"
  /\ \/ /\ state[wjob] # "stale"
        /\ \E s \in Outcomes \cup {"needs_attention"} : state' = [state EXCEPT ![wjob] = s]
     \/ state[wjob] = "stale" /\ UNCHANGED state
  /\ Goto("idle")
  /\ UNCHANGED <<sha, key, tracked, session, working>> /\ Stays

\* refresh_readiness of a ready gate, current_report of any settled one.
Refresh(j) ==
  /\ wpc = "idle" /\ state[j] \in Outcomes
  /\ wpc' = "refresh" /\ wjob' = j
  /\ UNCHANGED <<rows, working, seen>> /\ Stays

RefreshRead ==
  /\ wpc = "refresh"
  /\ \/ Reads("idle")
     \/ Goto("idle") /\ UNCHANGED <<rows, working>> /\ Stays

\* A dispatch whose worker is gone: its lease has expired.
Expire(j) ==
  /\ wpc = "idle" /\ state[j] = "dispatching"
  /\ state' = [state EXCEPT ![j] = "unknown_effect"]
  /\ UNCHANGED <<sha, key, tracked, session, working, worker>> /\ Stays

Crash ==
  /\ wpc # "idle" /\ crashes < MaxCrashes
  /\ Goto("idle") /\ intake' = [intake EXCEPT !["worker"] = Idle]
  /\ crashes' = crashes + 1
  /\ UNCHANGED <<rows, working, github>>

-----------------------------------------------------------------------------
Intake(a) == AcceptStart(a) \/ AcceptRead(a) \/ AcceptFails(a) \/ AcceptSupersede(a)
             \/ AcceptKey(a) \/ AcceptEnqueue(a) \/ RequestDies(a)

Handles == Outdated \/ Dispatch \/ Start \/ Create \/ Record \/ Poll \/ Finish
           \/ Collect \/ Recheck \/ Commit \/ RefreshRead

Overlap == wpc # "idle" /\ \E r \in Requests : ~At(r, "idle")

Step ==
  \/ \E c \in Commits : Push(c)
  \/ \E s \in Standings : Reclassify(s)
  \/ \E a \in Actors : Intake(a)
  \/ \E j \in Jobs : AgentStops(j) \/ Claim(j) \/ Refresh(j) \/ Expire(j)
  \/ Handles
  \/ Crash

Next == Step /\ overlapped' = (overlapped \/ Overlap')

Spec == Init /\ [][Next]_vars

\* Every task of the worker's cycle runs again and again, requests that are
\* repeated for ever are answered at some time, and agents come to an end.
Fairness ==
  /\ WF_system(Handles) /\ WF_system(\E j \in Jobs : AgentStops(j))
  /\ SF_system(\E j \in Jobs : Claim(j)) /\ SF_system(\E j \in Jobs : Expire(j))
  /\ SF_system(AcceptStart("worker")) /\ SF_system(AcceptRead("worker"))
  /\ WF_system(~At("worker", "idle") /\ Intake("worker"))
  /\ SF_system(wpc = "poll" /\ Poll /\ wpc' = "finish")
  /\ SF_system(wpc = "finish" /\ Reads("collect"))

FairSpec == Spec /\ Fairness

-----------------------------------------------------------------------------
(* Properties.                                                             *)

\* While they take turns, a validator that runs or waits for an operator is not
\* superseded under its working agent.
LiveNotAbandoned ==
  [][\A j \in Jobs : state[j] \in Live /\ state'[j] = "stale"
                      => ~working[j] \/ overlapped]_vars

\* The same for every validator that was paid for (pr_validation.py, "Never
\* abandon a paid/uncertain validator to start another").
NeverAbandonPaid ==
  [][\A j \in Jobs : state[j] # "stale" /\ state'[j] = "stale" => ~working[j]]_vars

\* While the worker and the one operator take turns, pushes, returns to an earlier
\* revision, polls, requests and freshness checks leave one open validation at
\* most: the paid sessions of one pull request never overlap.
OneOpenValidation ==
  \A i, j \in Rows : i # j => state[i] = "stale" \/ state[j] = "stale" \/ overlapped

\* No gate is ever written over a superseded validation, whatever requests do
\* while its evidence is collected.
StaleNeverGates ==
  [][\A j \in Jobs : state[j] = "stale" => state'[j] \notin Outcomes]_vars

Covered == \E j \in Rows : sha[j] = head /\ state[j] # "stale"
Outdates == \E j \in Rows : state[j] = "review_ready" /\ sha[j] # head
Waits == \E j \in Rows : state[j] \in {"unknown_effect", "needs_attention"}

\* Once the pull request rests, its head has a validation and no gate speaks
\* about another revision, unless an operator is asked to act.
Converges == <>[](~Eligible(Rows # {}) \/ Waits \/ (Covered /\ ~Outdates))
=============================================================================
