----------------------------- MODULE Preparation -----------------------------
(***************************************************************************)
(* A bot's pull request that an agent prepares and a second agent          *)
(* validates: deliveries of GitHub in the durable inbox                    *)
(* (automation/inbox.py), intake by delivery and by poll, preflight and    *)
(* handoff (automation/dependencies.py), its validations' freshness        *)
(* (automation/validation.py, automation/store.py) and the replays of an   *)
(* operator (automation/recovery_routes.py).  The agent that prepares the  *)
(* pull request pushes to it, and its pushes come back as deliveries.      *)
(*                                                                         *)
(* A step ends where the code commits or returns from a provider call.     *)
(* Intake, poll and jobs are tasks of the one worker and take turns.       *)
(* Budgets, leases and attempts are JobLedger's subject, automatic         *)
(* follow-ups HandoffRecovery's, evidence PrValidation's: here a failed    *)
(* step says only whether the row stays where it is or is given up, and an *)
(* operator's request is one step.  The pull request does not carry        *)
(* cognition:validate.                                                     *)
(***************************************************************************)
EXTENDS Integers, Sequences

CONSTANTS
  MaxJobs,     \* rows the ledger can hold
  Commits,     \* revisions the head may be at
  FirstHead,   \* the one it is opened with
  Deliveries,  \* webhooks of GitHub about the pull request
  MaxMoves,    \* bound on pushes, by anyone, and changes of eligibility
  MaxFaults    \* bound on worker deaths and provider calls that fail

ASSUME BoundsAssumption == MaxJobs \in Nat \ {0} /\ MaxMoves \in Nat /\ MaxFaults \in Nat
None == "none"
ASSUME CommitsAssumption == FirstHead \in Commits /\ None \notin Commits
ASSUME DeliveriesAssumption == "poll" \notin Deliveries

VARIABLES
  kind, state, sha, key, session,  \* columns of jobs
  agent,     \* provider: the session of a job
  handoff,   \* provider: the candidate it hands over, or None for a blocker
  head,      \* GitHub: the head of the pull request
  open,      \* GitHub: the pull request is eligible
  inbox,     \* github_inbox.state, or "absent"
  event,     \* its payload's revision
  recorded,  \* the deliveries table
  wpc, wjob, wdel, saw, \* the worker: place, job, delivery (or "poll"), what it read
  faults, moves,
  replayed   \* history: an operator replayed a preparation that was given up

rows   == <<kind, state, sha, key, session>>
agents == <<agent, handoff>>
github == <<head, open, moves>>
mail   == <<inbox, event, recorded>>
worker == <<wpc, wjob, wdel, saw>>
past   == <<faults, replayed>>
vars   == <<rows, agents, github, mail, worker, past>>

Jobs == 1..MaxJobs
Rows == {j \in Jobs : state[j] # "absent"}
Of(k) == {j \in Rows : kind[j] = k}

\* Mutant: a preparation whose effect is uncertain does not count as active.
ActiveCertain == {"queued", "dispatching", "running", "needs_attention"}

Active == {"queued", "dispatching", "running", "unknown_effect", "needs_attention"}

\* "dead_letter" stands for "blocked" too, "settled" for every gate but review_ready.
States == Active \cup {"absent", "stale", "dead_letter", "prepared", "review_ready", "settled"}
Boxes  == {"absent", "pending", "processing", "completed", "ignored", "dead_letter"}
Steps  == {"idle", "delivery", "read", "accept", "supersede", "revalidate", "prepare", "record",
           "completed", "ignored", "pending", "dead_letter",
           "preflight", "create", "started", "poll", "finish", "commit", "outdated"}

\* jobs.dedup: a kind, a revision and the rows it comes after.
Key(knd, c, after) == [of |-> knd, at |-> c, after |-> after]

\* Rows are told apart by their keys, and a recorded session exists.
RowsOK ==
  /\ kind \in [Jobs -> {"dependency", "validation"}]
  /\ state \in [Jobs -> States] /\ session \in [Jobs -> BOOLEAN]
  /\ sha \in [Jobs -> Commits \cup {None}] /\ key = [j \in Jobs |-> key[j]]
  /\ \A i, j \in Rows : key[i] = key[j] => i = j
  /\ \A j \in Rows : sha[j] # None /\ key[j].of = kind[j]
  /\ \A j \in Jobs : session[j] => agent[j] # "none"

TypeOK ==
  /\ RowsOK
  /\ agent \in [Jobs -> {"none", "working", "done"}]
  /\ handoff \in [Jobs -> Commits \cup {None}]
  /\ head \in Commits /\ open \in BOOLEAN
  /\ inbox \in [Deliveries -> Boxes] /\ event \in [Deliveries -> Commits \cup {None}]
  /\ recorded \subseteq Deliveries
  /\ wpc \in Steps /\ wjob \in Jobs /\ wdel \in Deliveries \cup {"poll"}
  /\ saw \in Commits \cup {None}
  /\ faults \in 0..MaxFaults /\ moves \in 0..MaxMoves /\ replayed \in BOOLEAN

Init ==
  /\ kind = [j \in Jobs |-> "dependency"] /\ state = [j \in Jobs |-> "absent"]
  /\ sha = [j \in Jobs |-> None] /\ key = [j \in Jobs |-> Key("dependency", None, <<>>)]
  /\ session = [j \in Jobs |-> FALSE]
  /\ agent = [j \in Jobs |-> "none"] /\ handoff = [j \in Jobs |-> None]
  /\ head = FirstHead /\ open = TRUE
  /\ inbox = [d \in Deliveries |-> "absent"] /\ event = [d \in Deliveries |-> None]
  /\ recorded = {}
  /\ wpc = "idle" /\ wjob = 1 /\ wdel = "poll" /\ saw = None
  /\ faults = 0 /\ moves = 0 /\ replayed = FALSE

-----------------------------------------------------------------------------
(* Rows.                                                                   *)

StaleWith(k) == {j \in Rows : key[j] = k /\ state[j] = "stale"}

\* INSERT ... ON CONFLICT DO NOTHING under k, while st and at become the states
\* and revisions of the other rows.
Insert(st, at, k, knd, c) ==
  IF \E j \in Rows : key[j] = k
  THEN state' = st /\ sha' = at /\ UNCHANGED <<kind, key>>
  ELSE \E n \in Jobs :
         /\ Rows = 1..(n - 1)
         /\ state' = [st EXCEPT ![n] = "queued"]
         /\ sha' = [at EXCEPT ![n] = c]
         /\ kind' = [kind EXCEPT ![n] = knd]
         /\ key' = [key EXCEPT ![n] = k]

\* Mutant: a revision has one key for ever.
FreshKeyOnce(knd, c) == Key(knd, c, <<>>)

\* fresh_key: the first key of the chain that no stale row holds.
FreshKey(knd, c) ==
  LET after[n \in 0..MaxJobs] ==
        IF n = 0 THEN <<>>
        ELSE LET stale == StaleWith(Key(knd, c, after[n - 1]))
             IN  IF stale = {} THEN after[n - 1] ELSE Append(after[n - 1], CHOOSE j \in stale : TRUE)
  IN  Key(knd, c, after[MaxJobs])

ReplacementKey(j, c) ==
  Key("validation", c, IF StaleWith(Key("validation", c, <<>>)) # {} THEN <<j>> ELSE <<>>)

\* supersede_validation, one transaction; None: nothing replaces it.
Supersede(j, c) ==
  LET st == [state EXCEPT ![j] = "stale"]
  IN  IF state[j] = "stale" THEN UNCHANGED <<kind, state, sha, key>>
      ELSE IF c = None THEN state' = st /\ UNCHANGED <<kind, sha, key>>
      ELSE Insert(st, sha, ReplacementKey(j, c), "validation", c)

Becomes(j, s) == state' = [state EXCEPT ![j] = s] /\ UNCHANGED <<kind, sha, key>>

-----------------------------------------------------------------------------
(* GitHub and the agents.                                                  *)

Move == moves < MaxMoves /\ moves' = moves + 1 /\ UNCHANGED <<rows, mail, worker, past>>

\* The bot rebases, a maintainer pushes, or the preparing agent does.
Push(c) ==
  /\ Move /\ c # head
  /\ head' = c
  /\ UNCHANGED <<open, agents>>

\* Closed, reopened, made a draft, retargeted.
Reclassify ==
  /\ Move
  /\ open' = ~open /\ UNCHANGED <<head, agents>>

\* An agent hands over the head it sees, or reports a blocker.
AgentEnds(j) ==
  /\ agent[j] = "working"
  /\ agent' = [agent EXCEPT ![j] = "done"]
  /\ \E c \in {head, None} : handoff' = [handoff EXCEPT ![j] = c]
  /\ UNCHANGED <<rows, github, mail, worker, past>>

\* A webhook is stored before it is acknowledged; a redelivery changes nothing.
Arrive(d) ==
  /\ inbox[d] = "absent"
  /\ inbox' = [inbox EXCEPT ![d] = "pending"]
  /\ event' = [event EXCEPT ![d] = head]
  /\ UNCHANGED <<recorded, rows, agents, github, worker, past>>

-----------------------------------------------------------------------------
(* Intake: Inbox.tick and DependencyService.poll.                          *)

\* A task forgets what it held when it ends.
At(step, j, d, c) ==
  /\ wpc' = step
  /\ wjob' = IF step = "idle" THEN 1 ELSE j
  /\ wdel' = IF step = "idle" THEN "poll" ELSE d
  /\ saw' = IF step = "idle" THEN None ELSE c
Goto(step) == At(step, wjob, wdel, saw)
Kept == UNCHANGED <<agents, github, past>>
Fault == faults < MaxFaults /\ faults' = faults + 1 /\ UNCHANGED replayed

\* Mutant: an interrupted delivery is not claimed again.
TakePending(d) ==
  /\ wpc = "idle" /\ inbox[d] = "pending"
  /\ inbox' = [inbox EXCEPT ![d] = "processing"]
  /\ At("delivery", wjob, d, None)
  /\ UNCHANGED <<rows, event, recorded>> /\ Kept

\* claim: due, or left in processing by a worker that died.
Take(d) ==
  /\ wpc = "idle" /\ inbox[d] \in {"pending", "processing"}
  /\ inbox' = [inbox EXCEPT ![d] = "processing"]
  /\ At("delivery", wjob, d, None)
  /\ UNCHANGED <<rows, event, recorded>> /\ Kept

\* has_delivery.
Delivery ==
  /\ wpc = "delivery"
  /\ Goto(IF wdel \in recorded THEN "completed" ELSE "read")
  /\ UNCHANGED <<rows, mail>> /\ Kept

Poll ==
  /\ wpc = "idle"
  /\ At("read", wjob, "poll", None)
  /\ UNCHANGED <<rows, mail>> /\ Kept

\* The pull request is read; an ineligible one is ignored.
AcceptRead ==
  /\ wpc = "read"
  /\ IF open THEN At("accept", wjob, wdel, head)
     ELSE Goto(IF wdel = "poll" THEN "idle" ELSE "ignored")
  /\ UNCHANGED <<rows, mail>> /\ Kept

\* The read fails: the delivery waits for its next attempt or is given up.
AcceptFails ==
  /\ wpc = "read"
  /\ Fault
  /\ IF wdel = "poll" THEN Goto("idle") ELSE \E s \in {"pending", "dead_letter"} : Goto(s)
  /\ UNCHANGED <<rows, mail, agents, github>>

Superseded == wdel # "poll" /\ event[wdel] # saw
Owned ==
  \/ \E j \in Rows : state[j] \in Active
  \/ \E j \in Of("validation") : sha[j] = saw /\ state[j] # "stale"
Prepared == \E j \in Rows : sha[j] = saw /\ state[j] # "stale"
Ends == IF wdel = "poll" THEN "idle" ELSE "record"

\* accept reads the ledger: current work coalesces, a validated pull request is
\* validated anew, and only a revision nobody works on is prepared.
Accept ==
  /\ wpc = "accept"
  /\ \/ (Superseded \/ Owned) /\ Goto(Ends)
     \/ /\ ~Superseded /\ ~Owned /\ Of("validation") # {}
        /\ \E latest \in Of("validation") :
             /\ \A i \in Of("validation") : i <= latest
             /\ At(IF state[latest] # "stale" THEN "supersede" ELSE "revalidate", latest, wdel, saw)
     \/ /\ ~Superseded /\ ~Owned /\ Of("validation") = {}
        /\ Goto(IF Prepared THEN Ends ELSE "prepare")
  /\ UNCHANGED <<rows, mail>> /\ Kept

\* accept writes what it decided.
Enlist ==
  /\ \/ wpc = "supersede" /\ Supersede(wjob, saw)
     \/ wpc = "revalidate" /\ Insert(state, sha, FreshKey("validation", saw), "validation", saw)
     \/ wpc = "prepare" /\ Insert(state, sha, FreshKey("dependency", saw), "dependency", saw)
  /\ Goto(Ends)
  /\ UNCHANGED <<session, mail>> /\ Kept

Record ==
  /\ wpc = "record"
  /\ recorded' = recorded \cup {wdel}
  /\ Goto(IF event[wdel] # saw THEN "ignored" ELSE "completed")
  /\ UNCHANGED <<rows, inbox, event>> /\ Kept

\* The outcome is written under the claim's token.
Close ==
  /\ wpc \in {"completed", "ignored", "pending", "dead_letter"}
  /\ inbox' = [inbox EXCEPT ![wdel] = wpc]
  /\ Goto("idle")
  /\ UNCHANGED <<rows, event, recorded>> /\ Kept

-----------------------------------------------------------------------------
(* Jobs: Engine.tick.                                                      *)

Holds(j) == state[j] \in {"running", "dispatching", "unknown_effect", "needs_attention"}
            \/ (session[j] /\ state[j] = "dead_letter")

\* Store.claim: a running job is polled, a queued one is dispatched when no
\* other one keeps the queue.
Claim(j) ==
  /\ wpc = "idle"
  /\ \/ state[j] = "running" /\ At("poll", j, wdel, None) /\ UNCHANGED <<kind, state, sha, key>>
     \/ /\ state[j] = "queued" /\ \A i \in Rows : ~Holds(i)
        /\ At("preflight", j, wdel, None) /\ Becomes(j, "dispatching")
  /\ UNCHANGED <<session, mail>> /\ Kept

\* Store.claim: the lease of a dispatch whose worker died runs out.
Expire(j) ==
  /\ wpc = "idle" /\ state[j] = "dispatching"
  /\ Becomes(j, "unknown_effect")
  /\ UNCHANGED <<session, mail, worker>> /\ Kept

\* job_failure: the job stays in the queue or is given up.
Fails ==
  /\ wpc \in {"preflight", "poll", "finish"} /\ Fault
  /\ \E s \in {IF session[wjob] THEN "running" ELSE "queued", "dead_letter"} : Becomes(wjob, s)
  /\ Goto("idle")
  /\ UNCHANGED <<session, mail, agents, github>>

\* preflight of a preparation, is_current of a validation: the pull request is read.
Preflight ==
  /\ wpc = "preflight"
  /\ IF open /\ head = sha[wjob] THEN Goto("create")
     ELSE At("outdated", wjob, wdel, IF open THEN head ELSE None)
  /\ UNCHANGED <<rows, mail>> /\ Kept

\* A preparation becomes stale; a validation is superseded by what was read.
Outdated ==
  /\ wpc = "outdated"
  /\ IF kind[wjob] = "validation" THEN Supersede(wjob, saw) ELSE Becomes(wjob, "stale")
  /\ Goto("idle")
  /\ UNCHANGED <<session, mail>> /\ Kept

\* create_session is answered, is refused, or its answer is lost.
Create ==
  /\ wpc = "create"
  /\ \/ /\ agent' = [agent EXCEPT ![wjob] = "working"]
        /\ Goto("started") /\ UNCHANGED <<kind, state, sha, key, past>>
     \/ /\ \E s \in {"queued", "dead_letter"} : Becomes(wjob, s)
        /\ Goto("idle") /\ Fault /\ UNCHANGED agent
     \/ /\ \E a \in {"none", "working"} : agent' = [agent EXCEPT ![wjob] = a]
        /\ Becomes(wjob, "unknown_effect")
        /\ Goto("idle") /\ Fault
  /\ UNCHANGED <<session, handoff, mail, github>>

Started ==
  /\ wpc = "started"
  /\ Becomes(wjob, "running")
  /\ session' = [session EXCEPT ![wjob] = TRUE]
  /\ Goto("idle")
  /\ UNCHANGED mail /\ Kept

\* The session is read: it works, it is archived for its age, or it is over; a
\* preparation may report a blocker.
PollJob ==
  /\ wpc = "poll"
  /\ \/ agent[wjob] = "working" /\ Goto("idle") /\ UNCHANGED <<kind, state, sha, key>>
     \/ Becomes(wjob, "needs_attention") /\ Goto("idle")
     \/ agent[wjob] = "done" /\ (kind[wjob] = "dependency" => handoff[wjob] # None)
        /\ Goto("finish") /\ UNCHANGED <<kind, state, sha, key>>
  /\ UNCHANGED <<session, mail>> /\ Kept

\* The candidate is read before a handoff or the evidence counts.  A preparation
\* that does not match it is invalid and given up.
FinishRead ==
  /\ wpc = "finish"
  /\ IF kind[wjob] = "validation"
     THEN /\ IF open /\ head = sha[wjob] THEN Goto("commit")
             ELSE At("outdated", wjob, wdel, IF open THEN head ELSE None)
          /\ UNCHANGED <<kind, state, sha, key>>
     ELSE IF open /\ head = handoff[wjob]
     THEN At("commit", wjob, wdel, head) /\ UNCHANGED <<kind, state, sha, key>>
     ELSE Goto("idle") /\ Becomes(wjob, "dead_letter")
  /\ UNCHANGED <<session, mail>> /\ Kept

\* Mutant: the validation of the handoff is left to a later intake.
CommitAlone ==
  /\ wpc = "commit"
  /\ IF kind[wjob] = "validation"
     THEN \E s \in {"review_ready", "settled", "needs_attention"} : Becomes(wjob, s)
     ELSE /\ state' = [state EXCEPT ![wjob] = "prepared"]
          /\ sha' = [sha EXCEPT ![wjob] = saw]
          /\ UNCHANGED <<kind, key>>
  /\ Goto("idle")
  /\ UNCHANGED <<session, mail>> /\ Kept

\* The gate, or the handoff with the validation it asks for, in one transaction.
Commit ==
  /\ wpc = "commit"
  /\ IF kind[wjob] = "validation"
     THEN \E s \in {"review_ready", "settled", "needs_attention"} : Becomes(wjob, s)
     ELSE Insert([state EXCEPT ![wjob] = "prepared"], [sha EXCEPT ![wjob] = saw],
                 Key("validation", saw, <<>>), "validation", saw)
  /\ Goto("idle")
  /\ UNCHANGED <<session, mail>> /\ Kept

\* refresh_readiness: a ready validation is read again.
Refresh(j) ==
  /\ wpc = "idle" /\ kind[j] = "validation" /\ state[j] = "review_ready"
  /\ ~(open /\ head = sha[j])
  /\ At("outdated", j, wdel, IF open THEN head ELSE None)
  /\ UNCHANGED <<rows, mail>> /\ Kept

Crash ==
  /\ wpc # "idle" /\ Fault
  /\ Goto("idle")
  /\ UNCHANGED <<rows, agents, github, mail>>

-----------------------------------------------------------------------------
(* An operator.                                                            *)

Outside == UNCHANGED <<github, worker, faults>>

\* replay of a job.
Replay(j) ==
  /\ state[j] = "dead_letter"
  /\ Becomes(j, IF session[j] THEN "running" ELSE "queued")
  /\ replayed' = (replayed \/ kind[j] = "dependency")
  /\ UNCHANGED <<session, agents, mail>> /\ Outside

\* replay of a delivery.
ReplayDelivery(d) ==
  /\ inbox[d] = "dead_letter"
  /\ inbox' = [inbox EXCEPT ![d] = "pending"]
  /\ UNCHANGED <<event, recorded, rows, agents, replayed>> /\ Outside

\* reconcile: the session of an uncertain job is found.
Reconcile(j) ==
  /\ state[j] \in {"unknown_effect", "needs_attention"} /\ agent[j] # "none"
  /\ Becomes(j, "running") /\ session' = [session EXCEPT ![j] = TRUE]
  /\ UNCHANGED <<agents, mail, replayed>> /\ Outside

\* resume: a message sends the agent back to work.
Resume(j) ==
  /\ state[j] = "needs_attention" /\ session[j]
  /\ Becomes(j, "running") /\ agent' = [agent EXCEPT ![j] = "working"]
  /\ UNCHANGED <<session, handoff, mail, replayed>> /\ Outside

-----------------------------------------------------------------------------
Intakes == Delivery \/ AcceptRead \/ AcceptFails \/ Accept \/ Enlist \/ Record \/ Close
Ticks   == Preflight \/ Outdated \/ Create \/ Started \/ PollJob \/ FinishRead \/ Commit \/ Fails
World   == \/ Reclassify \/ \E c \in Commits : Push(c)
           \/ \E j \in Rows : AgentEnds(j)
           \/ \E d \in Deliveries : Arrive(d)

Next ==
  \/ World
  \/ \E d \in Deliveries : Take(d)
  \/ Poll \/ Intakes \/ Ticks \/ Crash
  \/ \E j \in Rows : Claim(j) \/ Expire(j) \/ Refresh(j) \/ Replay(j) \/ Reconcile(j) \/ Resume(j)
  \/ \E d \in Deliveries : ReplayDelivery(d)

Spec == Init /\ [][Next]_vars

\* The worker's tasks come again and again and end, and agents come to an end.
\* That provider calls succeed at some time is the bound on faults.
FairSpec ==
  /\ Spec
  /\ WF_vars(Intakes \/ Ticks) /\ WF_vars(\E j \in Rows : AgentEnds(j))
  /\ SF_vars(\E d \in Deliveries : Take(d)) /\ SF_vars(Poll)
  /\ SF_vars(\E j \in Rows : Claim(j)) /\ SF_vars(\E j \in Rows : Expire(j) \/ Refresh(j))

-----------------------------------------------------------------------------
(* Properties.                                                             *)

\* A delivery is recorded, and never looked at again, only when its revision was
\* found replaced or work on the pull request is under way or done for the revision
\* that was read: also when a crash cut the intake and the delivery was claimed
\* again, or an operator replayed jobs meanwhile.
NoEventLost ==
  [][\A d \in recorded' \ recorded : saw # None /\ (event[d] # saw \/ Owned \/ Prepared)]_vars

\* No second paid preparation of the pull request: neither a push of the agent
\* itself nor uncertain work in flight starts one, unless an operator replays a
\* preparation that was given up.
Paid == {j \in Of("dependency") : agent[j] # "none"}
PreparedOnce == \A i, j \in Paid : i = j \/ replayed

\* Every stored delivery is decided, given up or left to the operator at last,
\* also one whose intake a worker began and did not finish.
Settles ==
  \A d \in Deliveries : inbox[d] = "pending" ~> inbox[d] \in {"completed", "ignored", "dead_letter"}

\* What the operator sees: rows that keep the queue, or are about the head.
Waits == \E j \in Rows : \/ state[j] \in {"unknown_effect", "needs_attention"}
                         \/ state[j] = "dead_letter" /\ (session[j] \/ sha[j] = head)
Covered == \E j \in Of("validation") : sha[j] = head /\ state[j] # "stale"

\* A pull request that stays eligible ends up with a validation of its head, also
\* when the head moved during preparation and back, unless rows keep waiting for
\* the operator.
Converges == <>[]~open \/ []<>Waits \/ <>[]Covered
=============================================================================
