-------------------------- MODULE HandoffRecovery --------------------------
(***************************************************************************)
(* One job whose agent has stopped: the automatic follow-up of an          *)
(* inconclusive handoff (automation/handoffs.py), the poll that accepts a  *)
(* handoff (automation/engine.py) and an operator's reconcile and resume   *)
(* beside them (automation/routes.py, automation/controls.py).             *)
(*                                                                         *)
(* A step ends where the code commits or returns from a provider call.     *)
(* The worker's two tasks take turns (one process); requests do not.  Only *)
(* a message wakes an agent, and a message that is delivered may wait for  *)
(* it.  Content of a handoff is a member of a small set; its fingerprint   *)
(* is itself.                                                              *)
(***************************************************************************)
EXTENDS Integers

CONSTANTS
  Requests,      \* operators' requests
  Handoffs,      \* what a session may hand over
  Complete,      \* task_complete and no blocker
  Blocked,       \* task_complete with a blocker
  HasCandidate,  \* validation and remediation jobs are about a revision
  MaxFollowups,  \* settings.max_handoff_followups
  MaxFaults      \* bound on worker deaths and on its provider calls that fail

ASSUME HandoffsAssumption ==
  Handoffs # {} /\ Complete \subseteq Handoffs /\ Blocked \subseteq Handoffs /\ Complete \cap Blocked = {}
ASSUME CandidateAssumption == HasCandidate \in BOOLEAN
ASSUME BoundsAssumption == MaxFollowups \in Nat /\ MaxFaults \in Nat

VARIABLES
  state,     \* jobs.state; "settled" stands for every accepted outcome
  attempts,  \* memory["handoff-followup"].attempts
  asked,     \* its original_handoff
  seen,      \* audit: the session was observed working since requested_at
  status,    \* provider: what the session is doing
  output,    \* provider: its structured output
  pending,   \* provider: a message the agent has not picked up
  current,   \* GitHub: the candidate is still the one of the job
  wpc, task, \* where the worker stands and in which of its tasks
  view,      \* the handoff the follow-up read
  polled,    \* the handoff the poll read
  rpc,       \* where every request stands
  faults,
  sent,      \* history: automatic messages that reached the session
  worked     \* history: the agent worked at some time since the last request

job     == <<state, attempts, asked, seen>>
agent   == <<status, output, pending>>
worker  == <<wpc, task, view, polled>>
world   == <<current, faults>>
history == <<sent, worked>>
vars    == <<job, agent, worker, rpc, world, history>>

Concluded == Complete \cup Blocked
AtRest    == {"finished", "waiting", "inactive"}
Statuses  == {"working", "held"} \cup AtRest
States    == {"running", "needs_attention", "unknown_effect", "dead_letter",
              "settled", "failed", "stale"}
Steps     == {"idle", "inspect", "poll", "finish", "decide", "scope", "outdated",
              "claim", "send", "record"}

Nothing == CHOOSE h \in Handoffs : TRUE

TypeOK ==
  /\ state \in States
  /\ attempts \in 0..MaxFollowups /\ sent \in 0..attempts
  /\ asked \in Handoffs /\ output \in Handoffs /\ view \in Handoffs /\ polled \in Handoffs
  /\ status \in Statuses
  /\ seen \in BOOLEAN /\ pending \in BOOLEAN /\ current \in BOOLEAN /\ worked \in BOOLEAN
  /\ wpc \in Steps /\ task \in {"jobs", "handoff"}
  /\ rpc \in [Requests -> {"idle", "reconcile", "resume", "message", "resumed"}]
  /\ faults \in 0..MaxFaults

Init ==
  /\ state = "running" /\ attempts = 0 /\ seen = FALSE
  /\ status = "working" /\ output \in Handoffs \ Concluded /\ asked = output
  /\ pending = FALSE /\ current = TRUE
  /\ wpc = "idle" /\ task = "jobs"
  /\ view = Nothing /\ polled = Nothing
  /\ rpc = [r \in Requests |-> "idle"]
  /\ faults = 0 /\ sent = 0 /\ worked = TRUE

-----------------------------------------------------------------------------
(* The agent and the branch.                                               *)

AgentStarts ==
  /\ pending /\ status \in AtRest
  /\ status' = "working" /\ pending' = FALSE /\ worked' = TRUE
  /\ UNCHANGED <<job, output, worker, rpc, world, sent>>

AgentEnds ==
  /\ status = "working"
  /\ status' \in AtRest \cup {"held"}
  /\ output' \in Handoffs   \* possibly the very one it was asked about
  /\ UNCHANGED <<job, pending, worker, rpc, world, history>>

CandidateMoves ==
  /\ HasCandidate /\ current' = ~current
  /\ UNCHANGED <<job, agent, worker, rpc, faults, history>>

-----------------------------------------------------------------------------
(* The worker: the handoff_recovery task.                                  *)

\* A task forgets what it read when it ends.
At(step, v, p) ==
  /\ wpc' = step
  /\ task' = IF step = "idle" THEN "jobs" ELSE task
  /\ view' = IF step = "idle" THEN Nothing ELSE v
  /\ polled' = IF step = "idle" THEN Nothing ELSE p
Goto(step) == At(step, view, polled)
Outside == UNCHANGED <<agent, rpc, world>>

\* A call of the worker fails, or its process dies.
Fault == faults < MaxFaults /\ faults' = faults + 1 /\ UNCHANGED current

\* Mutant: an acknowledged message makes whatever is there a fresh handoff.
FreshWhenAsked(result) == TRUE

\* fresh_after_followup: a changed handoff, or an observation of work since.
Fresh(result) == attempts = 0 \/ result # asked \/ seen

FollowUp ==
  /\ wpc = "idle" /\ state = "needs_attention"
  /\ wpc' = "inspect" /\ task' = "handoff"
  /\ UNCHANGED <<job, view, polled, history>> /\ Outside

\* The task ends early: a provider read fails.
GivesUp(step) ==
  /\ wpc = step /\ task = "handoff" /\ Fault
  /\ Goto("idle")
  /\ UNCHANGED <<job, agent, rpc, history>>

\* The session is read; live, held and unanswered sessions are left alone.
Inspect ==
  /\ wpc = "inspect"
  /\ At(IF status \notin AtRest \/ ~Fresh(output) THEN "idle"
        ELSE IF output \in Complete /\ status # "inactive" THEN "poll"
        ELSE "decide", output, polled)
  /\ UNCHANGED <<job, history>> /\ Outside

\* Mutant: a job whose follow-ups are used up is left where it is.
DecideNeverFails ==
  /\ wpc = "decide"
  /\ Goto(IF attempts >= MaxFollowups THEN "idle" ELSE IF HasCandidate THEN "scope" ELSE "claim")
  /\ UNCHANGED <<job, history>> /\ Outside

\* After the last follow-up a conclusive handoff fails the job, whatever its
\* row says by now.
Decide ==
  /\ wpc = "decide"
  /\ IF attempts < MaxFollowups
     THEN Goto(IF HasCandidate THEN "scope" ELSE "claim") /\ UNCHANGED state
     ELSE /\ Goto("idle")
          /\ IF view \in Concluded THEN state' = "failed" ELSE UNCHANGED state
  /\ UNCHANGED <<attempts, asked, seen, history>> /\ Outside

\* current_pr is read before the message.
Scope ==
  /\ wpc = "scope"
  /\ Goto(IF current THEN "claim" ELSE "outdated")
  /\ UNCHANGED <<job, history>> /\ Outside

Outdated ==
  /\ wpc = "outdated"
  /\ state' = "stale"
  /\ Goto("idle")
  /\ UNCHANGED <<attempts, asked, seen, history>> /\ Outside

\* Mutant: the observations of an earlier follow-up still count.
ClaimKeepsSeen ==
  /\ wpc = "claim"
  /\ IF state = "needs_attention"
     THEN /\ state' = "unknown_effect" /\ attempts' = attempts + 1
          /\ asked' = view /\ worked' = (status = "working")
          /\ UNCHANGED <<seen, sent>>
          /\ Goto("send")
     ELSE UNCHANGED <<job, history>> /\ Goto("idle")
  /\ Outside

\* The intent is stored with the new state before the paid message.
Claim ==
  /\ wpc = "claim"
  /\ IF state = "needs_attention"
     THEN /\ state' = "unknown_effect" /\ attempts' = attempts + 1
          /\ asked' = view /\ seen' = FALSE
          /\ worked' = (status = "working") /\ UNCHANGED sent
          /\ Goto("send")
     ELSE UNCHANGED <<job, history>> /\ Goto("idle")
  /\ Outside

\* A message is answered, refused, or its answer is lost, delivered or not.
Message(answered, refused, lost) ==
  \/ pending' = TRUE /\ answered
  \/ UNCHANGED pending /\ refused
  \/ pending' \in {pending, TRUE} /\ lost

Becomes(s) == state' = s /\ UNCHANGED <<attempts, asked, seen>>

Send ==
  /\ wpc = "send"
  /\ Message(Goto("record") /\ sent' = sent + 1 /\ UNCHANGED <<job, world>>,
             /\ Goto("idle") /\ Becomes("needs_attention") /\ Fault
             /\ UNCHANGED sent,
             /\ Goto("idle") /\ Becomes("unknown_effect") /\ Fault
             /\ sent' = (IF pending' THEN sent + 1 ELSE sent))
  /\ UNCHANGED <<status, output, rpc, worked>>

Record ==
  /\ wpc = "record"
  /\ Becomes("running")
  /\ Goto("idle")
  /\ UNCHANGED history /\ Outside

-----------------------------------------------------------------------------
(* The worker: the jobs task, and the poll both tasks make.                *)

Tick ==
  /\ wpc = "idle" /\ state = "running"
  /\ wpc' = "poll" /\ task' = "jobs"
  /\ UNCHANGED <<job, view, polled, history>> /\ Outside

\* After the poll the follow-up goes on when the row still asks for attention.
Return == Goto(IF task = "handoff" /\ state' = "needs_attention" THEN "decide" ELSE "idle")

\* job_failure leaves the job in place or gives it up, unless it is settled.
Fails ==
  /\ wpc \in {"poll", "finish"} /\ task = "jobs"
  /\ IF state \in {"settled", "stale"} THEN UNCHANGED state ELSE state' \in {"running", "dead_letter"}
  /\ Goto("idle") /\ Fault
  /\ UNCHANGED <<attempts, asked, seen, agent, rpc, history>>

Ready == status = "finished" \/ (status = "waiting" /\ output \in Concluded)

\* A conclusion is taken to the checks of its kind unless it is the one a
\* follow-up was sent for.
PollReady ==
  /\ wpc = "poll" /\ Ready
  /\ UNCHANGED <<job, history>>
  /\ IF Fresh(output) THEN At("finish", view, output) ELSE Return
  /\ Outside

\* Mutant: a suspended session is left running.
PollWaitingOnly ==
  /\ wpc = "poll" /\ ~Ready /\ status # "working"
  /\ IF status = "waiting" THEN Becomes("needs_attention") ELSE UNCHANGED job
  /\ Return
  /\ UNCHANGED history /\ Outside

\* Waiting, suspended or ended sessions ask for attention.
PollStopped ==
  /\ wpc = "poll" /\ ~Ready /\ status # "working"
  /\ Becomes("needs_attention")
  /\ Return
  /\ UNCHANGED history /\ Outside

\* A working session is observed; past its time limit it is archived, and
\* an archive request may be lost or refused.
PollWorking ==
  /\ wpc = "poll" /\ status = "working"
  /\ seen' = TRUE
  /\ \/ UNCHANGED <<state, status, world>> /\ Return
     \/ state' = "needs_attention" /\ status' = "held" /\ Return /\ UNCHANGED world
     \/ /\ status' \in {status, "held"} /\ Goto("idle") /\ Fault
        /\ IF task = "jobs" THEN state' \in {"unknown_effect", "running", "dead_letter"}
           ELSE UNCHANGED state
  /\ UNCHANGED <<attempts, asked, output, pending, rpc, history>>

\* The checks of the handoff: it is accepted, more is needed, or its candidate
\* is no longer the one to check.
Finish ==
  /\ wpc = "finish"
  /\ \/ Becomes("settled") /\ state # "stale"
     \/ Becomes("needs_attention")
     \/ Becomes("stale") /\ ~current
     \/ UNCHANGED job /\ state = "stale"
  /\ Return
  /\ UNCHANGED history /\ Outside

Crash ==
  /\ wpc # "idle" /\ Fault
  /\ Goto("idle")
  /\ UNCHANGED <<job, agent, rpc, history>>

-----------------------------------------------------------------------------
(* Operators.                                                              *)

Moves(r, from, to) == rpc[r] = from /\ rpc' = [rpc EXCEPT ![r] = to]
Elsewhere == UNCHANGED <<status, output, worker, world, history>>

ReconcileRead(r) ==
  /\ state \in {"unknown_effect", "needs_attention"}
  /\ Moves(r, "idle", "reconcile")
  /\ UNCHANGED <<job, pending>> /\ Elsewhere

\* The session was read; the row is written whatever it says by now.
ReconcileWrite(r) ==
  /\ Moves(r, "reconcile", "idle")
  /\ Becomes("running")
  /\ UNCHANGED pending /\ Elsewhere

\* The session, and the candidate of a validation, are read before the claim.
ResumeRead(r) ==
  /\ state = "needs_attention" /\ status # "held"
  /\ Moves(r, "idle", "resume")
  /\ UNCHANGED <<job, pending>> /\ Elsewhere

ResumeOutdated(r) ==
  /\ ~current
  /\ Moves(r, "resume", "idle")
  /\ Becomes("stale")
  /\ UNCHANGED pending /\ Elsewhere

ResumeClaim(r) ==
  /\ state = "needs_attention"
  /\ Moves(r, "resume", "message")
  /\ Becomes("unknown_effect")
  /\ UNCHANGED pending /\ Elsewhere

ResumeSend(r) ==
  /\ Message(Moves(r, "message", "resumed") /\ UNCHANGED job,
             Moves(r, "message", "idle") /\ Becomes("needs_attention"),
             Moves(r, "message", "idle") /\ Becomes("unknown_effect"))
  /\ Elsewhere

ResumeRecord(r) ==
  /\ Moves(r, "resumed", "idle")
  /\ Becomes("running")
  /\ UNCHANGED pending /\ Elsewhere

\* A conflict, a failed read, or the death of the API process.
RequestEnds(r) ==
  /\ rpc[r] # "idle"
  /\ rpc' = [rpc EXCEPT ![r] = "idle"]
  /\ UNCHANGED <<job, pending>> /\ Elsewhere

-----------------------------------------------------------------------------
Request(r) == ReconcileRead(r) \/ ReconcileWrite(r) \/ ResumeRead(r) \/ ResumeOutdated(r)
              \/ ResumeClaim(r) \/ ResumeSend(r) \/ ResumeRecord(r) \/ RequestEnds(r)

Reads == Inspect \/ PollReady \/ PollStopped \/ PollWorking \/ Finish \/ Scope
Works == Decide \/ Outdated \/ Claim \/ Send \/ Record

Next ==
  \/ AgentStarts \/ AgentEnds \/ CandidateMoves
  \/ FollowUp \/ Tick
  \/ Reads \/ Works
  \/ \E step \in {"inspect", "poll", "finish", "scope"} : GivesUp(step)
  \/ Fails \/ Crash
  \/ \E r \in Requests : Request(r)

Spec == Init /\ [][Next]_vars

\* The worker's tasks come again and again and end, and agents pick messages up
\* and come to an end.  That a call of the worker succeeds at last is the bound
\* on faults; what an operator does is never fair.
FairSpec ==
  /\ Spec
  /\ WF_vars(AgentStarts) /\ WF_vars(AgentEnds)
  /\ SF_vars(FollowUp \/ Tick) /\ WF_vars(Reads \/ Works)

-----------------------------------------------------------------------------
(* Properties.                                                             *)

\* The handoff a follow-up was sent for, with no work observed since.
Unanswered == ~Fresh(output)

\* A message acknowledgement is not proof that its work completed: after a
\* follow-up a handoff is accepted only if it changed or the agent has worked.
NoReplay ==
  [][state # "settled" /\ state' = "settled" => attempts = 0 \/ polled # asked \/ worked]_vars

\* No second automatic message about the same handoff, also when the first was
\* refused, lost or cut by a crash, and whatever an operator did meanwhile.
AskedOnce ==
  [][wpc = "claim" /\ wpc' = "send" =>
       attempts = 0 \/ view # asked \/ worked]_vars

\* A running job is concluded, handed to an operator or given up at last, unless
\* its session rests on the handoff it was asked about.
RunningEnds == []<>(state # "running") \/ <>[]Unanswered

\* A job that needs attention is followed up or concluded at last, unless its
\* session is held, has not answered a follow-up, or is still inconclusive after
\* the last one.
AttentionEnds ==
  \/ []<>(state # "needs_attention")
  \/ <>[](status = "held" \/ Unanswered
          \/ (attempts = MaxFollowups /\ output \notin Concluded))
=============================================================================
