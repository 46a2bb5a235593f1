----------------------------- MODULE JobLedger -----------------------------
(***************************************************************************)
(* The durable job ledger (automation/store.py), the worker's job tick     *)
(* (automation/engine.py), the recovery policy it applies to a failed tick *)
(* (automation/resilience.py) and the operator's HTTP controls that write  *)
(* the same rows from another process (automation/routes.py, controls.py,  *)
(* recovery_routes.py), with the agent provider on the other side of the   *)
(* network.                                                                *)
(*                                                                         *)
(* The worker is one process: a file lock keeps a second one out           *)
(* (worker.singleton).  Each of its steps below ends where the code        *)
(* commits a transaction or returns from a provider call, so a crash or an *)
(* operator's request can fall between any two of them.  Clock readings    *)
(* are abstracted to what they decide: lease[j] says that lease_until is   *)
(* in the future, due[j] that next_poll has passed.                        *)
(***************************************************************************)
EXTENDS Integers, FiniteSets

CONSTANTS
  Jobs,          \* identities of job rows; a smaller number was created earlier
  Kind,          \* the kind of every job
  MaxSessions,   \* Settings.max_sessions, the lifetime budget of paid sessions
  MaxAttempts,   \* resilience.MAX_ATTEMPTS
  AllowDispatch, \* values Settings.enabled may have when the worker claims
  ReportHeld,    \* BOOLEAN: a remediation may find its failure report unsent
  Requests,      \* operator requests the API processes serve at the same time
  MaxCrashes,    \* bound on worker deaths
  MaxTries       \* bound on the attempt counter of one job

SessionKinds == {"repair", "dependency", "patch", "scan", "validation",
                 "audit", "maintenance", "remediation"}
Kinds == SessionKinds \cup {"integration"}

\* execution_policy.RESERVED_SESSIONS: sessions a job of this kind may still
\* need, its own included.
Reserved == [k \in Kinds |->
               CASE k = "scan" -> 3
                 [] k \in {"validation", "audit"} -> 1
                 [] k = "integration" -> 0
                 [] OTHER -> 2]

ASSUME JobsAssumption == Jobs \subseteq Nat /\ IsFiniteSet(Jobs) /\ Jobs # {}
ASSUME KindAssumption == Kind \in [Jobs -> Kinds]
ASSUME BudgetAssumption == MaxSessions \in Nat
ASSUME AttemptsAssumption == MaxAttempts \in Nat \ {0}
ASSUME SwitchAssumption == AllowDispatch \subseteq BOOLEAN /\ ReportHeld \in BOOLEAN
ASSUME BoundsAssumption == MaxCrashes \in Nat /\ MaxTries \in Nat

VARIABLES
  state,     \* jobs.state, or "absent" before the row exists
  session,   \* jobs.session_id IS NOT NULL
  lease,     \* jobs.lease_until > now
  due,       \* jobs.next_poll <= now
  err,       \* jobs.error is not empty
  attempts,  \* recovery.attempts of the job, 0 without a row
  wpc,       \* where the worker stands in its tick
  wjob,      \* the job it claimed
  wout,      \* failure class, then the state the recovery policy chose
  req,       \* the operator requests in flight
  created,   \* provider: sessions that exist with the job's tag
  working,   \* provider: the job's agent is executing
  crashes

ledger   == <<state, session, lease, due, err, attempts>>
worker   == <<wpc, wjob, wout>>
provider == <<created, working>>
vars == <<ledger, worker, req, provider, crashes>>

Settled == {"implemented", "prepared", "completed", "integrated",
            "review_ready", "validation_failed", "awaiting_ci"}
Gated   == {"review_ready", "validation_failed", "awaiting_ci"}
Held    == {"blocked", "dead_letter"}
States  == {"absent", "queued", "dispatching", "running", "unknown_effect",
            "needs_attention", "stale"} \cup Settled \cup Held

\* Provider errors by what resilience.failure does with them: credits,
\* authentication and local_limit hold the job, an open circuit only delays
\* it, a retryable error counts an attempt, any other one is final.
Classes == {"hold", "circuit", "transient", "permanent"}

WorkerSteps == {"idle", "dispatch", "reserve", "context", "create", "record",
                "uncertain", "poll", "finish", "fail", "settle", "release"}
RequestSteps == {"idle", "reconcile", "requeue", "claim", "send", "sent",
                 "refused", "doubt"}

TypeOK ==
  /\ state \in [Jobs -> States]
  /\ session \in [Jobs -> BOOLEAN]
  /\ lease \in [Jobs -> BOOLEAN]
  /\ due \in [Jobs -> BOOLEAN]
  /\ err \in [Jobs -> BOOLEAN]
  /\ attempts \in [Jobs -> Nat]
  /\ wpc \in WorkerSteps
  /\ wjob \in Jobs
  /\ wout \in {"none"} \cup Classes \cup States
  /\ req \in [Requests -> [pc : RequestSteps, job : Jobs]]
  /\ created \in [Jobs -> Nat]
  /\ working \in [Jobs -> BOOLEAN]
  /\ crashes \in Nat

\* What wjob and a request's job hold while nothing is being handled.
NoJob == CHOOSE j \in Jobs : TRUE

Init ==
  /\ state = [j \in Jobs |-> "absent"]
  /\ session = [j \in Jobs |-> FALSE]
  /\ lease = [j \in Jobs |-> FALSE]
  /\ due = [j \in Jobs |-> TRUE]
  /\ err = [j \in Jobs |-> FALSE]
  /\ attempts = [j \in Jobs |-> 0]
  /\ wpc = "idle"
  /\ wjob = NoJob
  /\ wout = "none"
  /\ req = [r \in Requests |-> [pc |-> "idle", job |-> NoJob]]
  /\ created = [j \in Jobs |-> 0]
  /\ working = [j \in Jobs |-> FALSE]
  /\ crashes = 0

-----------------------------------------------------------------------------
(* The ledger's queries.                                                   *)

\* Mutant: a failed job with a session no longer holds the queue.
LiveWithoutHeld(s, j) ==
  s[j] \in {"running", "dispatching", "unknown_effect", "needs_attention"}

\* Mutant: a settled job with a session holds the queue too.
LiveWhenSettled(s, j) ==
  \/ s[j] \in {"running", "dispatching", "unknown_effect", "needs_attention"}
  \/ session[j] /\ s[j] \in Held \cup Settled

\* A job that keeps the queue closed in Store.claim.
Live(s, j) ==
  \/ s[j] \in {"running", "dispatching", "unknown_effect", "needs_attention"}
  \/ session[j] /\ s[j] \in Held

\* Store.session_count without its `excluding` argument.
Counted ==
  {j \in Jobs : /\ Kind[j] # "integration"
                /\ session[j] \/ state[j] \in {"dispatching", "unknown_effect"}}

\* The first statement of Store.claim: a dispatch whose worker is gone.
Expired ==
  [j \in Jobs |-> IF state[j] = "dispatching" /\ ~lease[j]
                  THEN "unknown_effect" ELSE state[j]]

Priority(j) ==
  CASE Kind[j] = "remediation" -> 0
    [] Kind[j] = "validation"  -> 1
    [] Kind[j] = "integration" -> 2
    [] Kind[j] = "scan"        -> 4
    [] OTHER                   -> 3

\* ORDER BY running first, then kind, then created.
Before(s, i, j) ==
  \/ s[i] = "running" /\ s[j] = "queued"
  \/ /\ s[i] = s[j]
     /\ \/ Priority(i) < Priority(j)
        \/ Priority(i) = Priority(j) /\ i < j

\* Mutant: running jobs are left to a callback.
ReadyQueuedOnly(s, allow) ==
  {j \in Jobs : s[j] = "queued" /\ allow /\ due[j] /\ ~lease[j]}

Ready(s, allow) ==
  {j \in Jobs : /\ s[j] = "running" \/ (s[j] = "queued" /\ allow)
                /\ due[j]
                /\ ~lease[j]}

\* Mutant: the queue is not single flight.
ClaimableFirst(s, allow) ==
  {j \in Ready(s, allow) : \A i \in Ready(s, allow) \ {j} : Before(s, j, i)}

Claimable(s, allow) ==
  {j \in Ready(s, allow) :
     /\ \A i \in Ready(s, allow) \ {j} : Before(s, j, i)
     /\ s[j] = "queued" => \A i \in Jobs : ~Live(s, i)}

\* Store._enqueue.  Rows are numbered in the order they are created, so only
\* the next one can appear; a key that already has a row inserts nothing.
Inserted(s, kinds) ==
  {s} \cup {[s EXCEPT ![j] = "queued"] :
              j \in {i \in Jobs : /\ s[i] = "absent"
                                  /\ Kind[i] \in kinds
                                  /\ \A h \in Jobs : h < i => s[h] # "absent"}}

\* Store.commit_handoff and Store.commit_validation: a superseded row refuses
\* the write together with its follow-up jobs.
Committed(s, j, new, kinds) ==
  IF s[j] = "stale" THEN {s}
  ELSE Inserted([s EXCEPT ![j] = new], kinds)

-----------------------------------------------------------------------------
(* Intake, time and the provider's own progress.                           *)

\* An issue, a pull request, a schedule or a batch adds a job.
Enqueue ==
  /\ state' \in Inserted(state, Kinds) \ {state}
  /\ UNCHANGED <<session, lease, due, err, attempts, worker, req, provider, crashes>>

LeaseExpires(j) ==
  /\ lease[j]
  /\ lease' = [lease EXCEPT ![j] = FALSE]
  /\ UNCHANGED <<state, session, due, err, attempts, worker, req, provider, crashes>>

PollDue(j) ==
  /\ ~due[j]
  /\ due' = [due EXCEPT ![j] = TRUE]
  /\ UNCHANGED <<state, session, lease, err, attempts, worker, req, provider, crashes>>

\* The agent finishes, asks, pauses at a limit or fails.
AgentStops(j) ==
  /\ working[j]
  /\ working' = [working EXCEPT ![j] = FALSE]
  /\ UNCHANGED <<ledger, worker, req, created, crashes>>

-----------------------------------------------------------------------------
(* The worker: Engine.tick.                                                *)

At(step) == wpc = step

Goto(step) == wpc' = step /\ UNCHANGED <<wjob, wout>>

Stop == wpc' = "idle" /\ wjob' = NoJob /\ wout' = "none"

\* An exception reaches the handlers of Engine.tick.
Fails(classes) ==
  \E c \in classes :
    /\ wpc' = "fail"
    /\ wout' = c
    /\ wjob' = wjob

Claim ==
  /\ At("idle")
  /\ \E allow \in AllowDispatch :
       /\ \/ \E j \in Claimable(Expired, allow) :
               /\ state' = [Expired EXCEPT ![j] = IF @ = "queued" THEN "dispatching" ELSE @]
               /\ lease' = [lease EXCEPT ![j] = TRUE]
               /\ wpc' = IF state[j] = "queued" THEN "dispatch" ELSE "poll"
               /\ wjob' = j
          \/ /\ Claimable(Expired, allow) = {}
             /\ Expired # state
             /\ state' = Expired
             /\ UNCHANGED <<lease, wpc, wjob>>
       /\ err' = [j \in Jobs |-> err[j] \/ Expired[j] # state[j]]
  /\ UNCHANGED <<session, due, attempts, wout, req, provider, crashes>>

\* Engine.dispatch of an integration job: assemble_candidate writes branches
\* and pull requests only, and ends in a handoff with one validation.
Assemble ==
  /\ At("dispatch")
  /\ Kind[wjob] = "integration"
  /\ \/ /\ state' \in Committed(state, wjob, "integrated", {"validation"})
        /\ Goto("release")
     \/ Goto("uncertain") /\ UNCHANGED state
     \/ Fails(Classes) /\ UNCHANGED state
  /\ UNCHANGED <<session, lease, due, err, attempts, req, provider, crashes>>

\* The checks before a paid session, by kind; they read GitHub.
Preflight ==
  LET k == Kind[wjob]
      Refuse(new) == state' = [state EXCEPT ![wjob] = new]
      Error == err' = [err EXCEPT ![wjob] = TRUE]
  IN
  /\ At("dispatch")
  /\ k # "integration"
  /\ \/ /\ Goto("reserve")
        /\ err' \in {err} \cup IF k = "remediation"
                              THEN {[err EXCEPT ![wjob] = FALSE]} ELSE {}
        /\ UNCHANGED state
     \/ Fails(Classes) /\ UNCHANGED <<state, err>>
     \/ k \in {"remediation", "dependency", "patch"}
        /\ Refuse("stale") /\ Error /\ Goto("release")
     \/ k \in {"dependency", "patch", "validation"}
        /\ Refuse("blocked") /\ Error /\ Goto("release")
     \/ k = "remediation" /\ ReportHeld
        /\ Error /\ Goto("release") /\ UNCHANGED state
     \/ k = "validation"
        /\ state' \in Committed(state, wjob, "stale", {"validation"})
                        \cup Committed(state, wjob, "validation_failed", {"remediation"})
        /\ Error /\ Goto("release")
  /\ UNCHANGED <<session, lease, due, attempts, req, provider, crashes>>

\* Mutant: a job is admitted while the budget is not yet exceeded.
ReserveLate ==
  /\ At("reserve")
  /\ IF Cardinality(Counted \ {wjob}) > MaxSessions THEN Fails({"hold"}) ELSE Goto("context")
  /\ UNCHANGED <<ledger, req, provider, crashes>>

\* The budget check of Engine.dispatch.
Reserve ==
  /\ At("reserve")
  /\ IF Cardinality(Counted \ {wjob}) + Reserved[Kind[wjob]] > MaxSessions
     THEN Fails({"hold"})
     ELSE Goto("context")
  /\ UNCHANGED <<ledger, req, provider, crashes>>

\* The learning lease and the Knowledge context; then the intent is recorded.
Context ==
  /\ At("context")
  /\ \/ /\ state' = [state EXCEPT ![wjob] = "dispatching"]
        /\ Goto("create")
     \/ Fails({"transient"}) /\ UNCHANGED state
  /\ UNCHANGED <<session, lease, due, err, attempts, req, provider, crashes>>

\* renew() and Providers.create_session: acknowledged, refused, or lost with
\* or without a session at the provider.
Create ==
  /\ At("create")
  /\ \/ /\ created' = [created EXCEPT ![wjob] = @ + 1]
        /\ working' = [working EXCEPT ![wjob] = TRUE]
        /\ Goto("record") \/ Goto("uncertain")
     \/ Goto("uncertain") /\ UNCHANGED provider
     \/ Fails(Classes) /\ UNCHANGED provider
  /\ UNCHANGED <<ledger, req, crashes>>

\* Mutant: the session's identity is not saved with the state.
RecordWithoutIdentity ==
  /\ At("record")
  /\ state' = [state EXCEPT ![wjob] = "running"]
  /\ due' = [due EXCEPT ![wjob] = FALSE]
  /\ Goto("release")
  /\ UNCHANGED <<session, lease, err, attempts, req, provider, crashes>>

Record ==
  /\ At("record")
  /\ state' = [state EXCEPT ![wjob] = "running"]
  /\ session' = [session EXCEPT ![wjob] = TRUE]
  /\ due' = [due EXCEPT ![wjob] = FALSE]
  /\ Goto("release")
  /\ UNCHANGED <<lease, err, attempts, req, provider, crashes>>

\* Mutant: a lost response is sent again.
UncertainRequeued ==
  /\ At("uncertain")
  /\ state' = [state EXCEPT ![wjob] = "queued"]
  /\ err' = [err EXCEPT ![wjob] = TRUE]
  /\ Goto("release")
  /\ UNCHANGED <<session, lease, due, attempts, req, provider, crashes>>

\* Mutant: a lost response is taken for a refusal.
UncertainBlocked ==
  /\ At("uncertain")
  /\ state' = [state EXCEPT ![wjob] = "blocked"]
  /\ err' = [err EXCEPT ![wjob] = TRUE]
  /\ Goto("release")
  /\ UNCHANGED <<session, lease, due, attempts, req, provider, crashes>>

\* `except UnknownEffect` of Engine.tick.
Uncertain ==
  /\ At("uncertain")
  /\ state' = [state EXCEPT ![wjob] = "unknown_effect"]
  /\ err' = [err EXCEPT ![wjob] = TRUE]
  /\ Goto("release")
  /\ UNCHANGED <<session, lease, due, attempts, req, provider, crashes>>

\* Engine.poll up to the handoff: the session is still working, has ended with
\* a handoff, has stopped without one, or is archived at its time limit.
Poll ==
  LET Observe == due' = [due EXCEPT ![wjob] = FALSE]
      Attention == /\ state' = [state EXCEPT ![wjob] = "needs_attention"]
                   /\ err' = [err EXCEPT ![wjob] = TRUE]
                   /\ Goto("release")
      Clean == err' = [err EXCEPT ![wjob] = FALSE]
  IN
  /\ At("poll")
  /\ \/ Fails(Classes) /\ UNCHANGED <<state, due, err, working>>
     \/ working[wjob] /\ Observe /\ Clean /\ Goto("release") /\ UNCHANGED <<state, working>>
     \/ ~working[wjob] /\ Observe /\ Clean /\ Goto("finish") /\ UNCHANGED <<state, working>>
     \/ ~working[wjob] /\ Observe /\ Attention /\ UNCHANGED working
     \/ /\ working[wjob]
        /\ Observe
        /\ \/ Attention /\ working' = [working EXCEPT ![wjob] = FALSE]
           \/ /\ Clean /\ Goto("uncertain") /\ UNCHANGED state
              /\ working' \in {working, [working EXCEPT ![wjob] = FALSE]}
           \/ Clean /\ Fails(Classes) /\ UNCHANGED <<state, working>>
  /\ UNCHANGED <<session, lease, attempts, req, created, crashes>>

\* States a completed handoff may reach, and the jobs committed with it.
Outcomes(k) ==
  CASE k = "repair" -> {"implemented"}
    [] k \in {"remediation", "dependency", "patch"} -> {"prepared"}
    [] k = "maintenance" -> {"prepared", "completed"}
    [] k \in {"scan", "audit"} -> {"completed"}
    [] k = "validation" -> {"review_ready", "validation_failed", "awaiting_ci", "stale"}

FollowUps(k) ==
  CASE k \in {"remediation", "dependency", "patch", "maintenance"} -> {"validation"}
    [] k = "validation" -> {"validation", "remediation"}
    [] k = "scan" -> {"repair"}
    [] OTHER -> {}

\* A remediation retires the settled validation of the candidate it replaces.
Superseded(k) ==
  IF k = "remediation" /\ state[wjob] # "stale"
  THEN {[j \in Jobs |-> IF j \in old THEN "stale" ELSE state[j]] :
          old \in SUBSET {j \in Jobs : /\ Kind[j] = "validation"
                                       /\ state[j] \in Gated}}
  ELSE {state}

\* finish_repair, finish_scan, finish_validation and the other handlers of a
\* structured handoff.  Only the discovery handler writes to a provider.
Finish ==
  LET k == Kind[wjob] IN
  /\ At("finish")
  /\ \/ /\ \E new \in Outcomes(k) :
             /\ state' \in UNION {Committed(t, wjob, new, FollowUps(k)) : t \in Superseded(k)}
             /\ err' = [j \in Jobs |->
                          \/ j = wjob /\ new \in {"validation_failed", "stale"}
                          \/ j # wjob /\ (err[j] \/ (state[j] # state'[j] /\ state'[j] = "stale"))]
        /\ Goto("release")
     \/ /\ IF k = "validation" THEN state' \in Committed(state, wjob, "needs_attention", {})
                             ELSE state' = [state EXCEPT ![wjob] = "needs_attention"]
        /\ err' = [err EXCEPT ![wjob] = TRUE]
        /\ Goto("release")
     \/ k = "scan" /\ Goto("uncertain") /\ UNCHANGED <<state, err>>
     \/ Fails(Classes) /\ UNCHANGED <<state, err>>
  /\ UNCHANGED <<session, lease, due, attempts, req, provider, crashes>>

\* Recovery.failure: the attempt is saved before the job is updated.
FailureState(class, tries, replay) ==
  CASE class = "hold" -> "blocked"
    [] class = "circuit" -> replay
    [] class = "permanent" -> "dead_letter"
    [] class = "transient" -> IF tries >= MaxAttempts THEN "dead_letter" ELSE replay

Fail ==
  LET tries == attempts[wjob] + (IF wout \in {"hold", "circuit"} THEN 0 ELSE 1)
      replay == IF session[wjob] THEN "running" ELSE "queued"
  IN
  /\ At("fail")
  /\ tries <= MaxTries
  /\ IF state[wjob] \in {"stale", "review_ready", "completed", "implemented", "integrated"}
     THEN wpc' = "release" /\ UNCHANGED <<wout, attempts>>
     ELSE /\ wpc' = "settle"
          /\ wout' = FailureState(wout, tries, replay)
          /\ attempts' = [attempts EXCEPT ![wjob] = tries]
  /\ UNCHANGED <<state, session, lease, due, err, wjob, req, provider, crashes>>

Settle ==
  /\ At("settle")
  /\ state' = [state EXCEPT ![wjob] = wout]
  /\ due' = [due EXCEPT ![wjob] = FALSE]
  /\ err' = [err EXCEPT ![wjob] = TRUE]
  /\ Goto("release")
  /\ UNCHANGED <<session, lease, attempts, req, provider, crashes>>

\* The end of Engine.tick: a job that ended without exception and without error
\* forgets its attempts.
Release ==
  /\ At("release")
  /\ lease' = [lease EXCEPT ![wjob] = FALSE]
  /\ attempts' = [attempts EXCEPT ![wjob] = IF err[wjob] \/ wout # "none" THEN @ ELSE 0]
  /\ Stop
  /\ UNCHANGED <<state, session, due, err, req, provider, crashes>>

\* The process dies; its lease stays until it expires.
Crash ==
  /\ wpc # "idle"
  /\ crashes < MaxCrashes
  /\ crashes' = crashes + 1
  /\ Stop
  /\ UNCHANGED <<ledger, req, provider>>

-----------------------------------------------------------------------------
(* The operator: requests served by the API processes.                     *)

Serve(r, step, j) == req' = [req EXCEPT ![r] = [pc |-> step, job |-> j]]
Serving(r, step) == req[r].pc = step
Answer(r) == Serve(r, "idle", NoJob)

\* routes.reconcile reads the row and the tagged session ...
ReconcileRead(r, j) ==
  /\ Serving(r, "idle")
  /\ state[j] \in {"unknown_effect", "needs_attention"}
  /\ created[j] > 0
  /\ Serve(r, "reconcile", j)
  /\ UNCHANGED <<ledger, worker, provider, crashes>>

\* ... and then writes what it decided.
ReconcileWrite(r) ==
  LET j == req[r].job IN
  /\ Serving(r, "reconcile")
  /\ state' = [state EXCEPT ![j] = "running"]
  /\ session' = [session EXCEPT ![j] = TRUE]
  /\ due' = [due EXCEPT ![j] = TRUE]
  /\ err' = [err EXCEPT ![j] = FALSE]
  /\ Answer(r)
  /\ UNCHANGED <<lease, attempts, worker, provider, crashes>>

\* routes.resume_integration, read and write.
ResumeIntegrationRead(r, j) ==
  /\ Serving(r, "idle")
  /\ Kind[j] = "integration"
  /\ state[j] \in {"unknown_effect", "needs_attention", "blocked"}
  /\ Serve(r, "requeue", j)
  /\ UNCHANGED <<ledger, worker, provider, crashes>>

ResumeIntegrationWrite(r) ==
  LET j == req[r].job IN
  /\ Serving(r, "requeue")
  /\ state' = [state EXCEPT ![j] = "queued"]
  /\ lease' = [lease EXCEPT ![j] = FALSE]
  /\ err' = [err EXCEPT ![j] = FALSE]
  /\ Answer(r)
  /\ UNCHANGED <<session, due, attempts, worker, provider, crashes>>

\* controls.resume_job: read, claim the intent, send the message, record.
ResumeRead(r, j) ==
  /\ Serving(r, "idle")
  /\ session[j]
  /\ state[j] = "needs_attention"
  /\ Serve(r, "claim", j)
  /\ UNCHANGED <<ledger, worker, provider, crashes>>

ResumeClaim(r) ==
  LET j == req[r].job IN
  /\ Serving(r, "claim")
  /\ \/ /\ Kind[j] = "validation"    \* is_current found a moved candidate
        /\ state' \in Committed(state, j, "stale", {"validation"})
        /\ err' = [err EXCEPT ![j] = TRUE]
        /\ Answer(r)
     \/ /\ state[j] = "needs_attention"
        /\ state' = [state EXCEPT ![j] = "unknown_effect"]
        /\ err' = [err EXCEPT ![j] = TRUE]
        /\ Serve(r, "send", j)
     \/ /\ state[j] # "needs_attention"
        /\ Answer(r)
        /\ UNCHANGED <<state, err>>
  /\ UNCHANGED <<session, lease, due, attempts, worker, provider, crashes>>

ResumeSend(r) ==
  LET j == req[r].job IN
  /\ Serving(r, "send")
  /\ \/ /\ working' = [working EXCEPT ![j] = TRUE]
        /\ Serve(r, "sent", j) \/ Serve(r, "doubt", j)
     \/ /\ Serve(r, "refused", j) \/ Serve(r, "doubt", j)
        /\ UNCHANGED working
  /\ UNCHANGED <<ledger, worker, created, crashes>>

ResumeRecord(r) ==
  LET j == req[r].job IN
  /\ \/ /\ Serving(r, "sent")
        /\ state' = [state EXCEPT ![j] = "running"]
        /\ due' = [due EXCEPT ![j] = TRUE]
        /\ err' = [err EXCEPT ![j] = FALSE]
     \/ /\ Serving(r, "refused")
        /\ state' = [state EXCEPT ![j] = "needs_attention"]
        /\ err' = [err EXCEPT ![j] = TRUE]
        /\ UNCHANGED due
     \/ /\ Serving(r, "doubt")
        /\ state' = [state EXCEPT ![j] = "unknown_effect"]
        /\ err' = [err EXCEPT ![j] = TRUE]
        /\ UNCHANGED due
  /\ Answer(r)
  /\ UNCHANGED <<session, lease, attempts, worker, provider, crashes>>

\* An API process dies with its request.
RequestDies(r) ==
  /\ ~Serving(r, "idle")
  /\ Answer(r)
  /\ UNCHANGED <<ledger, worker, provider, crashes>>

\* recovery_routes.replay of a job: one transaction, so never in flight.
Replay(r, j) ==
  /\ Serving(r, "idle")
  /\ state[j] \in Held
  /\ state' = [state EXCEPT ![j] = IF session[j] THEN "running" ELSE "queued"]
  /\ due' = [due EXCEPT ![j] = TRUE]
  /\ lease' = [lease EXCEPT ![j] = FALSE]
  /\ err' = [err EXCEPT ![j] = FALSE]
  /\ attempts' = [attempts EXCEPT ![j] = 0]
  /\ UNCHANGED <<session, worker, req, provider, crashes>>

-----------------------------------------------------------------------------
Tick ==
  \/ Assemble \/ Preflight \/ Reserve \/ Context \/ Create \/ Record
  \/ Uncertain \/ Poll \/ Finish \/ Fail \/ Settle \/ Release

Environment ==
  \/ Enqueue
  \/ \E j \in Jobs : LeaseExpires(j) \/ PollDue(j) \/ AgentStops(j)

Operator ==
  \E r \in Requests :
       \/ \E j \in Jobs : \/ Replay(r, j)
                          \/ ReconcileRead(r, j)
                          \/ ResumeIntegrationRead(r, j)
                          \/ ResumeRead(r, j)
       \/ ReconcileWrite(r) \/ ResumeIntegrationWrite(r)
       \/ ResumeClaim(r) \/ ResumeSend(r) \/ ResumeRecord(r)
       \/ RequestDies(r)

Next == Claim \/ Tick \/ Crash \/ Environment \/ Operator

Spec == Init /\ [][Next]_vars

-----------------------------------------------------------------------------
(* Properties.                                                             *)

\* A job never owns two paid sessions, whatever was lost, retried, replayed
\* or reconciled (README.md:586, engine.py:187-225, store.py:51-78).
AtMostOneSession == \A j \in Jobs : created[j] <= 1

\* A session that exists at the provider is recorded on its job, or its job is
\* still dispatching or quarantined for reconciliation: no paid work is lost
\* from the ledger (docs/RESILIENCE.md:51, store.py:55-59, engine.py:118-120).
NoSessionForgotten ==
  \A j \in Jobs :
    created[j] > 0 => session[j] \/ state[j] \in {"dispatching", "unknown_effect"}

\* Uncertain creations count against the lifetime budget, so the provider
\* never holds more sessions than Settings.max_sessions (engine.py:171-183).
SessionBudget == Cardinality({j \in Jobs : created[j] > 0}) <= MaxSessions

\* Single flight: at most one job keeps the queue closed (store.py:66-73).
SingleFlight == Cardinality({j \in Jobs : Live(state, j)}) <= 1

\* Agents never work side by side at the provider.
OneAgentWorking == Cardinality({j \in Jobs : working[j]}) <= 1

\* A working agent belongs to a job the worker still polls, or to one an
\* operator has to look at; the ledger never settles a job under its agent.
NoAgentAbandoned ==
  \A j \in Jobs :
    working[j] => Live(state, j)

\* An expired dispatch says "Worker stopped during provider creation"
\* (store.py:57), and the worker did stop: no other tick ends by leaving its
\* job dispatching without a lease (engine.py:137-138, README.md:608).
ExpiryMeansCrash ==
  [][\A j \in Jobs :
       At("idle") /\ state[j] = "dispatching" /\ state'[j] = "unknown_effect"
         => crashes > 0]_vars

-----------------------------------------------------------------------------
(* Liveness.  The worker's loop never stops for good (worker.main, Compose *)
(* restarts), time passes, agents stop, and a provider that is asked again *)
(* and again answers at last (the breaker admits probes).                  *)

Answered(step) == step /\ wpc' # "fail"

Fairness ==
  /\ WF_vars(Claim)
  /\ WF_vars(Tick)
  /\ \A j \in Jobs :
       WF_vars(LeaseExpires(j)) /\ WF_vars(PollDue(j)) /\ WF_vars(AgentStops(j))
  /\ SF_vars(Answered(Assemble)) /\ SF_vars(Answered(Preflight))
  /\ SF_vars(Answered(Context)) /\ SF_vars(Answered(Create))
  /\ SF_vars(Answered(Poll)) /\ SF_vars(Answered(Finish))

FairSpec == Spec /\ Fairness

\* A paid session is observed until its job leaves `running`.
RunningResolves ==
  \A j \in Jobs : state[j] = "running" ~> state[j] # "running"

\* A queued job is started, unless some job waits for the operator, or the operator
\* goes on replaying others that are served before it.
OperatorNeeded ==
  \E j \in Jobs : \/ state[j] \in {"unknown_effect", "needs_attention"}
                  \/ session[j] /\ state[j] \in Held

ReplaysEnd == <>[][\A r \in Requests, j \in Jobs : ~Replay(r, j)]_vars

QueueMoves ==
  ReplaysEnd =>
    \A j \in Jobs : state[j] = "queued" ~> (state[j] # "queued" \/ OperatorNeeded)

-----------------------------------------------------------------------------
(* The inductive invariant behind AtMostOneSession, NoSessionForgotten and *)
(* SessionBudget.                                                          *)

\* What the ledger knows of a job agrees with the provider.
RowsAgree ==
  \A j \in Jobs :
    /\ session[j] => created[j] > 0
    /\ created[j] > 0 => Kind[j] # "integration"
    /\ state[j] \in {"absent", "queued"} => created[j] = 0
    /\ state[j] = "running" => session[j]

\* What the worker may rely on at each step of its tick.
TickAgrees ==
  /\ wpc \in {"dispatch", "reserve", "context", "create"} => created[wjob] = 0
  /\ wpc \in {"reserve", "context", "create"} => Kind[wjob] # "integration"
  /\ wpc = "create" => state[wjob] = "dispatching"
  /\ wpc \in {"record", "uncertain"} =>
       created[wjob] = 0 \/ session[wjob] \/ state[wjob] = "dispatching"
  /\ wpc = "record" => created[wjob] > 0
  /\ wpc \in {"poll", "finish"} => session[wjob]
  /\ wpc = "fail" => wout \in Classes /\ (session[wjob] \/ created[wjob] = 0)
  /\ wpc = "settle" =>
       /\ wout \in {"queued", "running"} \cup Held
       /\ session[wjob] \/ created[wjob] = 0
       /\ wout = "queued" => created[wjob] = 0
       /\ wout = "running" => session[wjob]

\* What an operator's request may rely on between its read and its write.
RequestsAgree ==
  \A r \in Requests :
    /\ req[r].pc = "reconcile" => created[req[r].job] > 0
    /\ req[r].pc = "requeue" => Kind[req[r].job] = "integration"
    /\ req[r].pc \in {"claim", "send", "sent", "refused", "doubt"} => session[req[r].job]

\* From the budget check to the creation, the job's own slot stays free.
SlotReserved ==
  wpc \in {"context", "create"} => Cardinality(Counted \ {wjob}) + 1 <= MaxSessions

IInv ==
  /\ TypeOK
  /\ AtMostOneSession
  /\ NoSessionForgotten
  /\ SessionBudget
  /\ RowsAgree
  /\ TickAgrees
  /\ RequestsAgree
  /\ SlotReserved

-----------------------------------------------------------------------------
(* The inductive invariant behind SingleFlight, OneAgentWorking and        *)
(* NoAgentAbandoned, which hold when operators' requests come one at a     *)
(* time: a second request may write what the first one decided on.         *)

OneRequest == \A r, q \in Requests : r = q

OneLive == \A i, j \in Jobs : Live(state, i) /\ Live(state, j) => i = j

\* The row of the job in hand is as the claim left it, or as a dispatch wrote it.
RowInHand ==
  /\ wpc \in {"dispatch", "reserve", "context", "create", "record"} =>
       state[wjob] = "dispatching"
  /\ wpc \in {"poll", "finish"} => state[wjob] = "running"
  /\ wpc \in {"uncertain", "fail", "settle"} => state[wjob] \in {"dispatching", "running"}

\* The row a request read is as the request found it, or as it wrote it.
RowAsked ==
  \A r \in Requests :
    LET j == req[r].job
        pc == req[r].pc
    IN  /\ pc = "reconcile" => state[j] \in {"unknown_effect", "needs_attention"}
        /\ pc = "requeue" => state[j] \in {"unknown_effect", "needs_attention", "blocked"}
        /\ pc = "claim" => state[j] = "needs_attention"
        /\ pc \in {"send", "sent", "refused", "doubt"} => state[j] = "unknown_effect"
        /\ pc \in {"claim", "send", "refused"} => ~working[j]

\* Where the ledger tells that an agent has stopped, it has.
AgentsKnown ==
  /\ NoAgentAbandoned
  /\ \A j \in Jobs : working[j] => created[j] > 0
  /\ \A j \in Jobs : state[j] = "needs_attention" => ~working[j]
  /\ wpc = "finish" => ~working[wjob]

FInv == OneLive /\ RowInHand /\ RowAsked /\ AgentsKnown
=============================================================================
