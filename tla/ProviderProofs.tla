-------------------------- MODULE ProviderProofs --------------------------
(***************************************************************************)
(* Proofs about the two conversations with the agents' provider.           *)
(*                                                                         *)
(* The automatic follow-up of a handoff, for any number of follow-ups,     *)
(* handoffs, requests and worker deaths.                                   *)
(*                                                                         *)
(* The circuit of a provider whose callers took turns so far, as the       *)
(* worker and the requests mostly do.  Once two calls overlapped, neither  *)
(* theorem about it says anything: a call that started before a hold       *)
(* writes back the circuit it read.                                        *)
(***************************************************************************)
EXTENDS HandoffRecovery, Breaker, TLAPS

-----------------------------------------------------------------------------
(* The follow-up of a handoff.                                             *)

\* A claim is only reached below the bound, and a message is only sent on the
\* attempt that was stored for it.
Budget ==
  /\ wpc \in {"scope", "outdated", "claim"} => attempts < MaxFollowups
  /\ wpc = "send" => sent < attempts

\* h is not just the handoff the last follow-up was sent for.
New(h) == attempts = 0 \/ h # asked \/ worked

\* What the worker observed is true, and what it holds passed the freshness check.
Evidence ==
  /\ seen \/ status = "working" => worked
  /\ wpc = "finish" => New(polled)
  /\ wpc \in {"decide", "scope", "outdated", "claim"} => New(view)
  /\ wpc = "poll" /\ task = "handoff" => New(view)
  /\ wpc = "finish" /\ task = "handoff" => New(view)

IInv == TypeOK /\ Budget /\ Evidence

LEMMA NothingIsHandoff == Nothing \in Handoffs
  BY HandoffsAssumption DEF Nothing

LEMMA InitIInv == Init => IInv
<1> SUFFICES ASSUME Init PROVE IInv
  OBVIOUS
<1>1. 0 \in 0..MaxFollowups /\ 0 \in 0..0 /\ 0 \in 0..MaxFaults
  BY BoundsAssumption
<1>2. TypeOK
  BY <1>1, NothingIsHandoff DEF Init, TypeOK, States, Statuses, Steps
<1>3. Budget /\ Evidence
  BY DEF Init, Budget, Evidence, New
<1> QED
  BY <1>2, <1>3 DEF IInv

\* A step that counts a fault keeps within the bound; no step of the worker moves the branch.
LEMMA FaultBounded ==
  ASSUME IInv, Fault \/ UNCHANGED world
  PROVE  faults' \in 0..MaxFaults /\ current' = current
<1> SUFFICES ASSUME Fault PROVE faults' \in 0..MaxFaults /\ current' = current
  BY DEF IInv, TypeOK, world
<1>1. faults \in 0..MaxFaults /\ faults < MaxFaults /\ faults' = faults + 1
  BY DEF IInv, TypeOK, Fault
<1> QED
  BY <1>1, BoundsAssumption DEF Fault

LEMMA AgentStep ==
  ASSUME IInv, AgentStarts \/ AgentEnds \/ CandidateMoves
  PROVE  IInv'
<1>1. /\ status' \in Statuses /\ output' \in Handoffs
      /\ pending' \in BOOLEAN /\ current' \in BOOLEAN /\ worked' \in BOOLEAN
      /\ (status' = "working" => worked') /\ (worked => worked')
      /\ UNCHANGED <<job, worker, rpc, faults, sent>>
  BY DEF AgentStarts, AgentEnds, CandidateMoves, IInv, TypeOK, Evidence,
     agent, world, history, Statuses, AtRest
<1>2. TypeOK' /\ Budget'
  BY <1>1 DEF IInv, TypeOK, Budget, job, worker
<1>3. Evidence'
  BY <1>1 DEF IInv, Evidence, New, job, worker
<1> QED
  BY <1>2, <1>3 DEF IInv

\* What a step of the worker has to respect: the row's state and the worker's place
\* may change, the follow-up's record and the session's past do not.
LEMMA WorkerMoves ==
  ASSUME IInv, NEW step \in Steps, NEW v \in Handoffs, NEW p \in Handoffs,
         At(step, v, p), step # "send", state' \in States, status' \in Statuses, seen' \in BOOLEAN,
         seen' \/ status' = "working" => worked,
         UNCHANGED <<attempts, asked, output, pending, rpc, history>>, Fault \/ UNCHANGED world,
         step \in {"scope", "outdated", "claim"} => attempts < MaxFollowups,
         step = "finish" => New(p),
         step \in {"decide", "scope", "outdated", "claim"} => New(v),
         step \in {"poll", "finish"} /\ task = "handoff" => New(v)
  PROVE  IInv'
<1>1. /\ wpc' = step /\ task' \in {"jobs", "handoff"}
      /\ view' \in Handoffs /\ polled' \in Handoffs
      /\ step # "idle" => task' = task /\ view' = v /\ polled' = p
  BY NothingIsHandoff DEF At, IInv, TypeOK
<1>2. TypeOK'
  BY <1>1, FaultBounded DEF IInv, TypeOK, history
<1>3. Budget'
  BY <1>1 DEF IInv, Budget, history
<1>4. Evidence'
  BY <1>1 DEF IInv, Evidence, New, history
<1> QED
  BY <1>2, <1>3, <1>4 DEF IInv

\* The freshness check accepts nothing but new handoffs.
LEMMA FreshIsNew == ASSUME IInv, NEW h, Fresh(h) PROVE New(h)
  BY DEF IInv, Evidence, Fresh, New

\* A follow-up is claimed and sent.
LEMMA MessageStep ==
  ASSUME IInv, Claim \/ Send \/ Record
  PROVE  IInv'
<1>0. Nothing \in Handoffs /\ view \in Handoffs /\ polled \in Handoffs
  BY NothingIsHandoff DEF IInv, TypeOK
<1>1. CASE Claim /\ state = "needs_attention"
  <2>1. /\ wpc = "claim" /\ wpc' = "send" /\ task' = task /\ view' = view /\ polled' = polled
        /\ attempts' = attempts + 1 /\ asked' = view /\ ~seen' /\ state' = "unknown_effect"
        /\ worked' = (status = "working")
    BY <1>1 DEF Claim, Goto, At
  <2>2. attempts < MaxFollowups /\ sent \in 0..attempts
    BY <2>1 DEF IInv, Budget, TypeOK
  <2>3. attempts' \in 0..MaxFollowups /\ sent \in 0..attempts' /\ sent < attempts'
    BY <2>1, <2>2, BoundsAssumption DEF IInv, TypeOK
  <2>4. worked' \in BOOLEAN /\ (status = "working" => worked')
    BY <2>1
  <2>5. UNCHANGED <<agent, rpc, world, sent>>
    BY <1>1 DEF Claim, Outside
  <2>6. TypeOK'
    <3>1. UNCHANGED <<status, output, pending, rpc, current, faults, sent>>
      BY <2>5 DEF agent, world
    <3>2. state' \in States /\ wpc' \in Steps /\ seen' \in BOOLEAN
      BY <1>1, <2>1 DEF Claim, States, Steps
    <3> QED
      BY <1>0, <2>1, <2>3, <2>4, <3>1, <3>2 DEF IInv, TypeOK
  <2> QED
    BY <2>1, <2>3, <2>4, <2>5, <2>6 DEF IInv, Budget, Evidence, agent
<1>2. CASE Claim /\ state # "needs_attention"
  BY <1>0, <1>2, WorkerMoves DEF Claim, Goto, Outside, job, agent, history, IInv, TypeOK, Evidence, Steps
<1>3. CASE Send
  <2>1. /\ wpc = "send" /\ wpc' \in {"record", "idle"} /\ task' \in {"jobs", "handoff"}
        /\ view' \in Handoffs /\ polled' \in Handoffs
        /\ sent' \in {sent, sent + 1} /\ pending' \in {pending, TRUE}
        /\ state' \in {state, "needs_attention", "unknown_effect"}
        /\ UNCHANGED <<attempts, asked, seen, status, output, rpc, worked>>
        /\ Fault \/ UNCHANGED world
    BY <1>0, <1>3 DEF Send, Message, Goto, At, Becomes, job, IInv, TypeOK
  <2>2. sent < attempts /\ attempts \in Nat /\ sent \in Nat
    BY <2>1, BoundsAssumption DEF IInv, Budget, TypeOK
  <2>3. sent' \in 0..attempts'
    BY <2>1, <2>2
  <2> QED
    BY <2>1, <2>3, FaultBounded DEF IInv, TypeOK, Budget, Evidence, States, Steps
<1>4. CASE Record
  BY <1>0, <1>4, WorkerMoves DEF Record, Becomes, Goto, Outside, agent, history, IInv, TypeOK,
     Evidence, States, Steps
<1> QED
  BY <1>1, <1>2, <1>3, <1>4

\* The task that reads a session and decides about a follow-up.
LEMMA FollowUpStep ==
  ASSUME IInv, \/ FollowUp \/ Inspect \/ Decide \/ Scope \/ Outdated
               \/ \E step \in Steps : GivesUp(step)
  PROVE  IInv'
<1>0. /\ Nothing \in Handoffs /\ view \in Handoffs /\ polled \in Handoffs /\ output \in Handoffs
      /\ state \in States /\ status \in Statuses /\ seen \in BOOLEAN
      /\ (seen \/ status = "working" => worked)
  BY NothingIsHandoff DEF IInv, TypeOK, Evidence
<1> USE DEF Outside, job, agent
<1>1. CASE FollowUp
  BY <1>1 DEF FollowUp, IInv, TypeOK, Budget, Evidence, New, Steps, world, history
<1>2. CASE Inspect
  <2>1. PICK step \in {"idle", "poll", "decide"} :
          At(step, output, polled) /\ (step # "idle" => Fresh(output))
    BY <1>2 DEF Inspect
  <2>2. step # "idle" => New(output)
    BY <2>1, FreshIsNew
  <2> QED
    BY <1>0, <1>2, <2>1, <2>2, WorkerMoves DEF Inspect, Steps
<1>3. CASE Decide
  <2>1. PICK step \in {"idle", "scope", "claim"} :
          /\ At(step, view, polled) /\ state' \in {state, "failed"}
          /\ step # "idle" => attempts < MaxFollowups
    BY <1>3, CandidateAssumption DEF Decide, Goto
  <2>2. New(view) /\ wpc = "decide"
    BY <1>3 DEF Decide, IInv, Evidence
  <2> QED
    BY <1>0, <1>3, <2>1, <2>2, WorkerMoves DEF Decide, Steps, States
<1>4. CASE Scope
  <2>1. PICK step \in {"claim", "outdated"} : At(step, view, polled)
    BY <1>4 DEF Scope, Goto
  <2>2. New(view) /\ attempts < MaxFollowups
    BY <1>4 DEF Scope, IInv, Evidence, Budget
  <2> QED
    BY <1>0, <1>4, <2>1, <2>2, WorkerMoves DEF Scope, Steps
<1>5. CASE Outdated
  BY <1>0, <1>5, WorkerMoves DEF Outdated, Goto, States, Steps
<1>6. CASE \E step \in Steps : GivesUp(step)
  BY <1>0, <1>6, WorkerMoves DEF GivesUp, Goto, Steps
<1> QED
  BY <1>1, <1>2, <1>3, <1>4, <1>5, <1>6

\* The poll of either task.
LEMMA PollStep ==
  ASSUME IInv, \/ Tick \/ Fails \/ PollReady \/ PollStopped \/ PollWorking \/ Finish \/ Crash
  PROVE  IInv'
<1>0. /\ Nothing \in Handoffs /\ view \in Handoffs /\ polled \in Handoffs /\ output \in Handoffs
      /\ state \in States /\ status \in Statuses /\ seen \in BOOLEAN
      /\ (seen \/ status = "working" => worked)
  BY NothingIsHandoff DEF IInv, TypeOK, Evidence
<1> USE DEF Outside, agent
<1>a. ASSUME Return, wpc \in {"poll", "finish"}
      PROVE  \E step \in {"idle", "decide"} :
               At(step, view, polled) /\ (step = "decide" => New(view))
  BY <1>a DEF Return, Goto, IInv, Evidence
<1>1. CASE Tick
  BY <1>1 DEF Tick, job, IInv, TypeOK, Budget, Evidence, New, Steps, world, history
<1>2. CASE Fails
  BY <1>0, <1>2, WorkerMoves DEF Fails, Goto, States, Steps
<1>3. CASE PollReady
  <2>1. CASE Fresh(output)
    <3>1. New(output)
      BY <2>1, FreshIsNew
    <3>2. wpc = "poll" /\ At("finish", view, output)
      BY <1>3, <2>1 DEF PollReady
    <3>3. task = "handoff" => New(view)
      BY <3>2 DEF IInv, Evidence
    <3> QED
      BY <1>0, <1>3, <3>1, <3>2, <3>3, WorkerMoves DEF PollReady, Steps, job
  <2>2. CASE ~Fresh(output)
    BY <1>0, <1>3, <1>a, <2>2, WorkerMoves DEF PollReady, Steps, job
  <2> QED
    BY <2>1, <2>2
<1>4. CASE PollStopped
  BY <1>0, <1>4, <1>a, WorkerMoves DEF PollStopped, Becomes, States, Steps
<1>5. CASE PollWorking
  <2>1. PICK step \in {"idle", "decide"} :
          At(step, view, polled) /\ (step = "decide" => New(view))
    BY <1>5, <1>a DEF PollWorking, Goto
  <2>2. /\ status = "working" /\ seen' = TRUE /\ status' \in {status, "held"}
        /\ state' \in {state, "needs_attention", "unknown_effect", "running", "dead_letter"}
        /\ UNCHANGED <<attempts, asked, output, pending, rpc, history>>
        /\ Fault \/ UNCHANGED world
    BY <1>5 DEF PollWorking
  <2> QED
    BY <1>0, <2>1, <2>2, WorkerMoves DEF Steps, States, Statuses, AtRest
<1>6. CASE Finish
  <2>1. /\ state' \in {state, "settled", "needs_attention", "stale"}
        /\ UNCHANGED <<attempts, asked, seen, agent, rpc, world, history>>
        /\ wpc = "finish" /\ Return
    BY <1>6 DEF Finish, Becomes, job
  <2> QED
    BY <1>0, <1>a, <2>1, WorkerMoves DEF States, Steps
<1>7. CASE Crash
  BY <1>7, NothingIsHandoff, FaultBounded DEF Crash, Goto, At, job, IInv, TypeOK, Budget,
     Evidence, New, Steps, history
<1> QED
  BY <1>1, <1>2, <1>3, <1>4, <1>5, <1>6, <1>7

\* A request rewrites the row's state and may wake the agent, no more.
LEMMA RequestStep ==
  ASSUME IInv, NEW r \in Requests, Request(r)
  PROVE  IInv'
<1>1. /\ rpc' \in [Requests -> {"idle", "reconcile", "resume", "message", "resumed"}]
      /\ state' \in States /\ pending' \in BOOLEAN
      /\ UNCHANGED <<attempts, asked, seen, status, output, worker, world, history>>
  BY DEF Request, ReconcileRead, ReconcileWrite, ResumeRead, ResumeOutdated, ResumeClaim,
     ResumeSend, ResumeRecord, RequestEnds, Message, Moves, Becomes, Elsewhere, job,
     IInv, TypeOK, States
<1> QED
  BY <1>1 DEF IInv, TypeOK, Budget, Evidence, New, worker, world, history

LEMMA NextIInv == IInv /\ [Next]_vars => IInv'
<1> SUFFICES ASSUME IInv, [Next]_vars PROVE IInv'
  OBVIOUS
<1>1. CASE UNCHANGED vars
  BY <1>1 DEF vars, job, agent, worker, world, history, IInv, TypeOK, Budget, Evidence, New
<1>2. CASE Next
  BY <1>2, AgentStep, MessageStep, FollowUpStep, PollStep, RequestStep
  DEF Next, Reads, Works, Steps
<1> QED
  BY <1>1, <1>2

\* The row, the record of the follow-up and the messages that reached the session
\* keep their types: attempts never pass settings.max_handoff_followups, and no
\* more messages are sent than attempts were stored, through faults between the
\* claim, the message and its record.
THEOREM FollowupsBounded == Spec => []TypeOK
<1>1. IInv => TypeOK
  BY DEF IInv
<1> QED
  BY InitIInv, NextIInv, <1>1, PTL DEF Spec

\* After a follow-up no handoff is accepted that neither changed nor was preceded
\* by work, whatever operators do to the row meanwhile.
THEOREM OldHandoffNeverAccepted == Spec => NoReplay
<1>1. ASSUME IInv, [Next]_vars, state # "settled", state' = "settled"
      PROVE  New(polled)
  <2>1. wpc = "finish"
    BY <1>1 DEF Next, vars, AgentStarts, AgentEnds, CandidateMoves, FollowUp, Tick, Reads, Works,
       Inspect, PollReady, PollStopped, PollWorking, Finish, Scope, Decide, Outdated, Claim, Send,
       Record, GivesUp, Fails, Crash, Request, ReconcileRead, ReconcileWrite, ResumeRead,
       ResumeOutdated, ResumeClaim, ResumeSend, ResumeRecord, RequestEnds, Message, Becomes,
       Outside, Elsewhere, job
  <2> QED
    BY <1>1, <2>1 DEF IInv, Evidence
<1>2. IInv /\ [Next]_vars
        => [state # "settled" /\ state' = "settled" => attempts = 0 \/ polled # asked \/ worked]_vars
  BY <1>1 DEF New
<1> QED
  BY InitIInv, NextIInv, <1>2, PTL DEF Spec, NoReplay

\* No second automatic message is sent about a handoff the first was about, unless
\* the agent has worked since.
THEOREM OneMessagePerHandoff == Spec => AskedOnce
<1>1. IInv /\ [Next]_vars
        => [wpc = "claim" /\ wpc' = "send" => attempts = 0 \/ view # asked \/ worked]_vars
  BY DEF IInv, Evidence, New
<1> QED
  BY InitIInv, NextIInv, <1>1, PTL DEF Spec, AskedOnce

-----------------------------------------------------------------------------
(* The circuit of a provider.                                              *)

\* While callers take turns, one call at most is under way, it holds a copy that
\* counts the failures so far, and the circuit does not hold for authentication.
TurnsTaken ==
  /\ \A c, d \in Callers : call[c].step # "rest" /\ call[d].step # "rest" => c = d
  /\ \A c \in Callers :
       /\ call[c].step = "sent" => call[c].copy.failures >= streak
       /\ call[c].step = "suspended" => streak = 0
       /\ Hold("authentication") => call[c].step = "rest"
  /\ circuit.failures >= streak

Opens == circuit.failures = Strikes => circuit.open

CircuitIInv ==
  /\ CircuitTypeOK
  /\ Opens
  /\ overlapped \/ TurnsTaken

LEMMA ClosedIsCircuit == Closed \in Circuits /\ ~Closed.open /\ Closed.failures = 0
  BY DEF Closed, Circuits, Delays, Reasons, Strikes

LEMMA CircuitInitIInv == CircuitInit => CircuitIInv
<1> SUFFICES ASSUME CircuitInit PROVE CircuitIInv
  OBVIOUS
<1>1. circuit = Closed /\ streak = 0 /\ overlapped = FALSE
  BY DEF CircuitInit
<1>2. Resting \in [step : {"rest", "sent", "suspended"}, method : Methods, copy : Circuits]
  BY ClosedIsCircuit DEF Resting, Methods
<1>3. CircuitTypeOK /\ Opens
  <2>1. call \in [Callers -> [step : {"rest", "sent", "suspended"}, method : Methods, copy : Circuits]]
    BY <1>2 DEF CircuitInit
  <2>2. Opens /\ circuit \in Circuits /\ ~circuit.open /\ streak \in 0..Strikes
    BY <1>1, ClosedIsCircuit DEF Opens, Strikes
  <2> QED
    BY <1>1, <2>1, <2>2 DEF CircuitTypeOK
<1>4. TurnsTaken
  BY ClosedIsCircuit DEF CircuitInit, TurnsTaken, Resting
<1> QED
  BY <1>3, <1>4 DEF CircuitIInv

\* What a failure writes, from any copy.
LEMMA AfterFacts ==
  ASSUME NEW copy \in Circuits, NEW reason \in Reasons \ {"none"}
  PROVE  LET a == After(copy, reason)
         IN  /\ a \in Circuits
             /\ a.failures = Capped(copy.failures + 1)
             /\ a.failures = Strikes => a.open
             /\ a.open /\ a.retry = "none" => a.reason \in Holding
  BY DEF After, Capped, Circuits, Delays, Reasons, Immediate, Holding, Strikes

\* What a failing call writes.
LEMMA FailsFacts ==
  ASSUME CircuitTypeOK, NEW c \in Callers, CallFails(c)
  PROVE  /\ circuit' \in Circuits /\ Opens'
         /\ circuit'.failures = Capped(call[c].copy.failures + 1)
         /\ circuit'.open /\ circuit'.retry = "none" => circuit'.reason \in Holding
<1>1. PICK reason \in Reasons \ {"none"} : circuit' = After(call[c].copy, reason)
  BY DEF CallFails
<1>2. call[c].copy \in Circuits
  BY DEF CircuitTypeOK
<1> QED
  BY <1>1, <1>2, AfterFacts DEF Opens

\* A caller comes to rest.
LEMMA RestsFacts ==
  ASSUME CircuitTypeOK, NEW c \in Callers, Rests(c)
  PROVE  /\ call' \in [Callers -> [step : {"rest", "sent", "suspended"},
                                   method : Methods, copy : Circuits]]
         /\ call'[c].step = "rest"
         /\ \A d \in Callers \ {c} : call'[d] = call[d]
  BY ClosedIsCircuit DEF Rests, Resting, CircuitTypeOK, Methods

LEMMA CallTyped ==
  ASSUME CircuitTypeOK, Opens, NEW c \in Callers, Calls(c)
  PROVE  CircuitTypeOK' /\ Opens'
<1>1. CASE Ask(c)
  BY <1>1 DEF Ask, CircuitTypeOK, Opens
<1>2. CASE CallFails(c)
  <2>1. streak' \in 0..Strikes /\ overlapped' \in BOOLEAN
    BY <1>2 DEF CallFails, Capped, CircuitTypeOK, Strikes
  <2> QED
    BY <1>2, <2>1, FailsFacts, RestsFacts DEF CallFails, CircuitTypeOK
<1>3. CASE Rejected(c) \/ Dies(c)
  BY <1>3, RestsFacts DEF Rejected, Dies, CircuitTypeOK, Opens
<1>4. CASE Succeeds(c)
  <2>1. call' \in [Callers -> [step : {"rest", "sent", "suspended"},
                               method : Methods, copy : Circuits]]
    BY <1>4, RestsFacts DEF Succeeds, CircuitTypeOK
  <2>2. circuit' \in {circuit, Closed} /\ streak' \in 0..Strikes /\ overlapped' \in BOOLEAN
    BY <1>4 DEF Succeeds, CircuitTypeOK, Strikes
  <2> QED
    BY <2>1, <2>2, ClosedIsCircuit DEF CircuitTypeOK, Opens, Strikes
<1>5. CASE Suspends(c)
  <2>1. /\ circuit' \in Circuits /\ Opens'
        /\ circuit'.reason \in Holding
    BY <1>5 DEF Suspends, Opens, Circuits, Delays, Reasons, Immediate, Holding, Strikes
  <2> QED
    BY <1>5, <2>1, RestsFacts DEF Suspends, CircuitTypeOK
<1> QED
  BY <1>1, <1>2, <1>3, <1>4, <1>5 DEF Calls

LEMMA CallTurns ==
  ASSUME CircuitTypeOK, TurnsTaken, NEW c \in Callers, Calls(c), ~overlapped
  PROVE  /\ overlapped' \/ TurnsTaken'
         /\ Hold("authentication") => Hold("authentication")'
<1>1. CASE Ask(c)
  <2>1. overlapped' \/ \A d \in Callers \ {c} : call'[d].step = "rest"
    BY <1>1 DEF Ask, CircuitTypeOK
  <2>2. call'[c].copy = circuit /\ call'[c].step = "sent" /\ circuit' = circuit /\ streak' = streak
    BY <1>1 DEF Ask, CircuitTypeOK
  <2>3. ~Hold("authentication")
    BY <1>1 DEF Ask, Refuses, Hold
  <2> QED
    BY <2>1, <2>2, <2>3 DEF TurnsTaken, Hold
<1>2. CASE call[c].step # "rest"
  <2>1. \A d \in Callers \ {c} : call[d].step = "rest"
    BY <1>2 DEF TurnsTaken
  <2>2. ~Hold("authentication")
    BY <1>2 DEF TurnsTaken
  <2>3. CASE CallFails(c)
    <3>1. \A d \in Callers : call'[d].step = "rest"
      BY <2>1, <2>3, RestsFacts DEF CallFails
    <3>2. /\ call[c].copy.failures \in 0..Strikes
          /\ call[c].copy.failures >= streak /\ streak \in 0..Strikes
      BY <2>3 DEF CallFails, CircuitTypeOK, TurnsTaken, Circuits
    <3>3. circuit'.failures >= streak'
      BY <2>3, <3>2, FailsFacts DEF CallFails, Capped, Strikes
    <3> QED
      BY <2>2, <3>1, <3>3 DEF TurnsTaken
  <2>4. CASE Rejected(c) \/ Dies(c)
    <3>1. \A d \in Callers : call'[d].step = "rest"
      BY <2>1, <2>4, RestsFacts DEF Rejected, Dies
    <3> QED
      BY <2>2, <2>4, <3>1 DEF Rejected, Dies, TurnsTaken
  <2>5. CASE Succeeds(c)
    <3>1. /\ \A d \in Callers \ {c} : call'[d].step = "rest"
          /\ call'[c].step \in {"rest", "suspended"}
      BY <2>1, <2>5, RestsFacts DEF Succeeds, CircuitTypeOK
    <3>2. /\ circuit' \in {circuit, Closed} /\ streak' = 0
          /\ ~Hold("authentication")'
      BY <2>2, <2>5 DEF Succeeds, Hold, Closed
    <3>3. circuit'.failures >= streak'
      BY <3>2, ClosedIsCircuit DEF CircuitTypeOK, Circuits, Strikes
    <3> QED
      BY <2>2, <3>1, <3>2, <3>3 DEF TurnsTaken
  <2>6. CASE Suspends(c)
    <3>1. \A d \in Callers : call'[d].step = "rest"
      BY <2>1, <2>6, RestsFacts DEF Suspends
    <3>2. circuit'.failures >= streak'
      BY <2>6 DEF Suspends, TurnsTaken, CircuitTypeOK, Strikes
    <3> QED
      BY <2>2, <3>1, <3>2 DEF TurnsTaken
  <2>7. ~Ask(c)
    BY <1>2 DEF Ask
  <2> QED
    BY <2>3, <2>4, <2>5, <2>6, <2>7 DEF Calls
<1> QED
  BY <1>1, <1>2 DEF Calls, Ask, CallFails, Rejected, Succeeds, Suspends, Dies

LEMMA CallStep ==
  ASSUME CircuitIInv, NEW c \in Callers, Calls(c)
  PROVE  CircuitIInv' /\ (Hold("authentication") => Hold("authentication")' \/ overlapped)
<1>1. overlapped => overlapped'
  BY DEF Calls, Ask, CallFails, Rejected, Succeeds, Suspends, Dies
<1> QED
  BY <1>1, CallTyped, CallTurns DEF CircuitIInv

LEMMA CircuitStep ==
  ASSUME CircuitIInv, [CircuitNext]_circuitVars
  PROVE  CircuitIInv' /\ (Hold("authentication") => Hold("authentication")' \/ Probe \/ overlapped)
<1>1. CASE \E c \in Callers : Calls(c)
  BY <1>1, CallStep
<1>2. CASE RetryDue
  <2>1. CircuitTypeOK' /\ Opens'
    BY <1>2 DEF RetryDue, CircuitIInv, CircuitTypeOK, Opens, Circuits, Delays
  <2>2. (TurnsTaken => TurnsTaken') /\ ~Hold("authentication") /\ overlapped' = overlapped
    BY <1>2 DEF RetryDue, CircuitIInv, CircuitTypeOK, TurnsTaken, Hold, Circuits
  <2> QED
    BY <2>1, <2>2 DEF CircuitIInv
<1>3. CASE Probe
  <2>1. CircuitTypeOK' /\ Opens'
    BY <1>3, ClosedIsCircuit DEF Probe, CircuitIInv, CircuitTypeOK, Opens, Strikes
  <2>2. ~Hold("authentication")' /\ circuit'.failures = 0 /\ streak' = 0
    BY <1>3, ClosedIsCircuit DEF Probe, Hold
  <2>3. TurnsTaken => TurnsTaken'
    <3>1. \A c \in Callers : call[c].step = "sent" => call[c].copy.failures >= 0
      BY DEF CircuitIInv, CircuitTypeOK, Circuits, Strikes
    <3> QED
      BY <1>3, <2>2, <3>1 DEF Probe, TurnsTaken
  <2> QED
    BY <1>3, <2>1, <2>3 DEF Probe, CircuitIInv
<1>4. CASE UNCHANGED circuitVars
  <2>1. CircuitTypeOK' /\ Opens' /\ (Hold("authentication") => Hold("authentication")')
    BY <1>4 DEF circuitVars, CircuitIInv, CircuitTypeOK, Opens, Hold
  <2>2. (TurnsTaken => TurnsTaken') /\ overlapped' = overlapped
    BY <1>4 DEF circuitVars, TurnsTaken, Hold
  <2> QED
    BY <2>1, <2>2 DEF CircuitIInv
<1> QED
  BY <1>1, <1>2, <1>3, <1>4 DEF CircuitNext

\* Three failures in a row open the circuit of a provider whose callers took
\* turns (providers.py, failed), however many callers there are.
THEOREM ThreeFailuresOpen == CircuitSpec => []ThreeStrikes
<1>1. CircuitIInv /\ [CircuitNext]_circuitVars => CircuitIInv'
  BY CircuitStep
<1>2. CircuitIInv => ThreeStrikes
  BY DEF CircuitIInv, Opens, TurnsTaken, CircuitTypeOK, Circuits, ThreeStrikes, Strikes
<1> QED
  BY CircuitInitIInv, <1>1, <1>2, PTL DEF CircuitSpec

\* While callers take turns, a circuit held for authentication stays held until
\* an operator asks for a probe (providers.py, request).
THEOREM AuthenticationNeedsProbe == CircuitSpec => AuthenticationHeld
<1>1. CircuitIInv /\ [CircuitNext]_circuitVars => CircuitIInv'
  BY CircuitStep
<1>2. CircuitIInv /\ [CircuitNext]_circuitVars
        => [Hold("authentication") => Hold("authentication")' \/ Probe \/ overlapped]_circuitVars
  BY CircuitStep
<1> QED
  BY CircuitInitIInv, <1>1, <1>2, PTL DEF CircuitSpec, AuthenticationHeld

\* Every circuit and every copy of it keeps its type.
THEOREM CircuitTyped == CircuitSpec => []CircuitTypeOK
<1>1. CircuitIInv /\ [CircuitNext]_circuitVars => CircuitIInv'
  BY CircuitStep
<1>2. CircuitIInv => CircuitTypeOK
  BY DEF CircuitIInv
<1> QED
  BY CircuitInitIInv, <1>1, <1>2, PTL DEF CircuitSpec
=============================================================================
