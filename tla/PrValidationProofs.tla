------------------------- MODULE PrValidationProofs -------------------------
(***************************************************************************)
(* Proofs about the validations of a pull request, for any rows and        *)
(* revisions, any number of pushes and of worker deaths, and any number of *)
(* operators where OneRequest is not assumed.                              *)
(***************************************************************************)
EXTENDS PrValidation, TLAPS

\* What the argument needs of the types: every row has a state and the worker
\* handles a row.
Typed == state \in [Jobs -> States] /\ wjob \in Jobs

\* A step that leaves Typed and writes no gate over a superseded row.
Keeps == Typed' /\ \A j \in Jobs : state[j] = "stale" => state'[j] \notin Outcomes

LEMMA InitTyped == Init => Typed
  BY JobsAssumption DEF Init, Typed, States

\* Superseding a row keeps the other stale rows: an INSERT takes a row of its
\* own and its state is "queued".
LEMMA SupersedeKeeps ==
  ASSUME Typed, UNCHANGED wjob, NEW j \in Jobs, NEW c, Supersede(j, c)
  PROVE  Keeps
<1> DEFINE st == [state EXCEPT ![j] = "stale"]
<1>1. /\ st \in [Jobs -> States]
      /\ \A i \in Jobs : state[i] = "stale" => st[i] = "stale"
  BY DEF Typed, States
<1>2. CASE UNCHANGED state
  BY <1>2 DEF Keeps, Typed, Outcomes
<1>3. CASE state' = st
  BY <1>1, <1>3 DEF Keeps, Typed, Outcomes
<1>4. CASE state' = [st EXCEPT ![NextId] = "queued"]
  <2>1. state' \in [Jobs -> States]
    BY <1>1, <1>4 DEF States
  <2>2. ASSUME NEW i \in Jobs, state[i] = "stale" PROVE state'[i] \in {"stale", "queued"}
    BY <1>1, <1>4, <2>2
  <2> QED
    BY <2>1, <2>2 DEF Keeps, Typed, Outcomes
<1> QED
  BY <1>2, <1>3, <1>4 DEF Supersede, Insert

\* A failed step touches no settled or superseded row.
LEMMA FailsKeeps ==
  ASSUME Typed, Fails
  PROVE  Keeps
<1>1. PICK s \in FailedState : state' = [state EXCEPT ![wjob] = s]
  BY DEF Fails
<1>2. s \in States /\ (state[wjob] = "stale" => s = "stale")
  BY DEF FailedState, Typed, States, Live, Outcomes
<1> QED
  BY <1>1, <1>2 DEF Fails, Goto, Keeps, Typed, Outcomes

\* Intake: only its supersessions and its INSERT write states.
LEMMA IntakeKeeps ==
  ASSUME Typed, NEW a \in Actors, Intake(a)
  PROVE  Keeps
<1>1. CASE UNCHANGED <<state, wjob>>
  BY <1>1 DEF Keeps, Typed, Outcomes
<1>2. CASE AcceptSupersede(a)
  <2>1. CASE \E j \in Jobs : Supersede(j, None)
    BY <1>2, <2>1, SupersedeKeeps DEF AcceptSupersede
  <2>2. CASE \E j \in intake[a].todo : j \notin Jobs /\ Supersede(j, None)
    <3>1. PICK j : j \notin Jobs /\ Supersede(j, None)
      BY <2>2
    <3>2. state' = state \/ state' = [state EXCEPT ![j] = "stale"]
      BY <3>1 DEF Supersede
    <3>3. state' = state
      BY <3>1, <3>2 DEF Typed
    <3> QED
      BY <1>2, <3>3 DEF AcceptSupersede, Keeps, Typed, Outcomes
  <2>3. CASE UNCHANGED rows
    BY <1>2, <2>3 DEF AcceptSupersede, rows, Keeps, Typed, Outcomes
  <2> QED
    BY <1>2, <2>1, <2>2, <2>3 DEF AcceptSupersede
<1>3. CASE AcceptEnqueue(a)
  <2>1. state' = state \/ state' = [state EXCEPT ![NextId] = "queued"]
    BY <1>3 DEF AcceptEnqueue, Insert
  <2>2. UNCHANGED wjob
    BY <1>3 DEF AcceptEnqueue
  <2> QED
    BY <2>1, <2>2 DEF Keeps, Typed, States, Outcomes
<1> QED
  BY <1>1, <1>2, <1>3
  DEF Intake, AcceptStart, AcceptRead, AcceptFails, AcceptKey, RequestDies, rows

\* The worker's steps with a validation in hand: its gate is written in a
\* transaction that leaves a superseded row alone.
LEMMA HandlesKeeps ==
  ASSUME Typed, Handles
  PROVE  Keeps
<1>1. CASE Fails
  BY <1>1, FailsKeeps
<1>2. CASE UNCHANGED <<state, wjob>>
  BY <1>2 DEF Keeps, Typed, Outcomes
<1>3. CASE Outdated
  BY <1>3, SupersedeKeeps DEF Outdated, Goto, Typed
<1>4. ASSUME NEW next, Reads(next) PROVE Keeps
  BY <1>2, <1>4 DEF Reads, rows
<1>5. CASE Start \/ Record
  BY <1>5 DEF Start, Record, Goto, Keeps, Typed, States, Live, Outcomes
<1>6. CASE Create
  BY <1>1, <1>2, <1>6 DEF Create, Goto, rows, Keeps, Typed, States, Live, Outcomes
<1>7. CASE Poll
  BY <1>1, <1>2, <1>7 DEF Poll, Goto, rows, Keeps, Typed, States, Live, Outcomes
<1>8. CASE Dispatch \/ Finish \/ Recheck \/ RefreshRead
  BY <1>1, <1>2, <1>4, <1>8 DEF Dispatch, Finish, Recheck, RefreshRead, Goto, rows
<1>9. CASE Collect
  BY <1>1, <1>2, <1>9 DEF Collect, Goto, rows
<1>10. CASE Commit
  <2>1. CASE UNCHANGED state
    BY <1>2, <1>10, <2>1 DEF Commit, Goto
  <2>2. CASE /\ state[wjob] # "stale"
             /\ \E s \in Outcomes \cup {"needs_attention"} : state' = [state EXCEPT ![wjob] = s]
    BY <1>10, <2>2 DEF Commit, Goto, Keeps, Typed, States, Live, Outcomes
  <2> QED
    BY <1>10, <2>1, <2>2 DEF Commit
<1> QED
  BY <1>3, <1>5, <1>6, <1>7, <1>8, <1>9, <1>10 DEF Handles

LEMMA StepKeeps ==
  ASSUME Typed, [Next]_vars
  PROVE  Keeps
<1>1. CASE UNCHANGED <<state, wjob>>
  BY <1>1 DEF Keeps, Typed, Outcomes
<1>2. CASE \E c \in Commits : Push(c)
  BY <1>1, <1>2 DEF Push, rows, worker
<1>3. CASE \E s \in Standings : Reclassify(s)
  BY <1>1, <1>3 DEF Reclassify, rows, worker
<1>4. CASE \E a \in Actors : Intake(a)
  BY <1>4, IntakeKeeps
<1>5. ASSUME NEW j \in Jobs, AgentStops(j) \/ Claim(j) \/ Refresh(j) \/ Expire(j)
      PROVE  Keeps
  BY <1>5
  DEF AgentStops, Claim, Refresh, Expire, Keeps, Typed, States, Live, Outcomes, rows, worker
<1>6. CASE Handles
  BY <1>6, HandlesKeeps
<1>7. CASE Crash
  BY <1>1, <1>7 DEF Crash, Goto, rows
<1>8. CASE UNCHANGED vars
  BY <1>1, <1>8 DEF vars, system, rows, worker
<1> QED
  BY <1>2, <1>3, <1>4, <1>5, <1>6, <1>7, <1>8 DEF Next, Step

\* No gate is ever written over a superseded validation, however many
\* operators request validations while its evidence is collected.
THEOREM NoGateOverStale == Spec => StaleNeverGates
<1>1. Init => Typed
  BY InitTyped
<1>2. Typed /\ [Next]_vars => Typed'
  BY StepKeeps DEF Keeps
<1>3. Typed /\ [Next]_vars
        => [\A j \in Jobs : state[j] = "stale" => state'[j] \notin Outcomes]_vars
  BY StepKeeps DEF Keeps
<1> QED
  BY <1>1, <1>2, <1>3, PTL DEF Spec, StaleNeverGates

-----------------------------------------------------------------------------
(* Taking turns.                                                           *)

\* The rows that count: neither unborn nor superseded.
Open == {j \in Jobs : state[j] \notin {"absent", "stale"}}

\* The assumption the two theorems at the end make.
OneRequest == \A r, q \in Requests : r = q

\* An intake's record: its places and what it read.
Fits(r) ==
  /\ DOMAIN r = {"pc", "snap", "sha", "todo", "key"} /\ r.pc \in IntakeSteps
  /\ r.snap \in SUBSET (Jobs \X States) /\ r.todo \in SUBSET Jobs

\* The places of the worker and of every intake agree about the worker's.
Shaped ==
  /\ intake = [a \in Actors |-> intake[a]] /\ \A a \in Actors : Fits(intake[a])
  /\ wpc \in Steps /\ (At("worker", "idle") <=> wpc # "intake")

\* A request under way finds the worker at rest.
Alone == \A r \in Requests : At(r, "idle") \/ wpc = "idle"

\* What an intake read is still so, but that a dispatch may have been found expired;
\* what it has not superseded yet is on its list; then nothing is open.
Reading ==
  \A a \in Actors :
    /\ At(a, "read") => \A j \in Open : \E p \in intake[a].snap :
         p[1] = j /\ (p[2] = state[j] \/ {p[2], state[j]} \subseteq Live)
    /\ At(a, "supersede") => \A j \in Open : j \in intake[a].todo /\ state[j] \notin Live
    /\ At(a, "key") \/ At(a, "enqueue") => Open = {}

\* The validation the worker handles is open.
InHand == wpc \notin {"idle", "intake"} => wjob \in Open

\* Where an agent may work: not before a row is dispatched, and not when the worker
\* is about to supersede it, unless it has settled.
Agents ==
  /\ \A j \in Jobs : /\ state[j] \in {"absent", "queued"} => ~working[j]
                     /\ state[j] = "running" => session[j]
  /\ wpc \in {"dispatch", "start", "create", "finish", "collect", "recheck", "commit"}
       => ~working[wjob]
  /\ wpc = "supersede" => ~working[wjob] \/ state[wjob] \in Outcomes
  /\ wpc = "refresh" => state[wjob] \in Outcomes
  /\ wpc = "poll" => session[wjob]
  /\ wpc = "create" => state[wjob] = "dispatching"

Turns == (\A i, j \in Open : i = j) /\ Alone /\ Reading /\ InHand /\ Agents

Hosts == working \in [Jobs -> BOOLEAN] /\ session \in [Jobs -> BOOLEAN]

IInv == Typed /\ Shaped /\ Hosts /\ (~overlapped => Turns)

\* A busy intake is the only one.
LEMMA OnlyOne ==
  ASSUME OneRequest, Shaped, Alone, NEW a \in Actors, ~At(a, "idle"),
         NEW b \in Actors, ~At(b, "idle")
  PROVE  a = b
BY ActorsAssumption DEF OneRequest, Shaped, Alone, Actors

\* The row of an INSERT is a new one.
LEMMA NewRow == ASSUME Jobs # Rows PROVE NextId \in Jobs /\ state[NextId] = "absent"
<1>1. \E j \in Jobs \ Rows : TRUE
  BY DEF Rows
<1>2. NextId \in Jobs \ Rows
  BY <1>1 DEF NextId
<1> QED
  BY <1>2 DEF Rows

\* What an intake's step does to the places.
LEMMA Went ==
  ASSUME Shaped, NEW a \in Actors, NEW r, Goes(a, r)
  PROVE  /\ intake'[a] = r /\ \A b \in Actors \ {a} : intake'[b] = intake[b]
         /\ intake' = [b \in Actors |-> intake'[b]]
         /\ a # "worker" => wpc' = wpc
         /\ a = "worker" => wpc' = IF r.pc = "idle" THEN "idle" ELSE "intake"
BY DEF Shaped, Goes

LEMMA GoesShaped ==
  ASSUME Shaped, NEW a \in Actors, NEW r, Goes(a, r), Fits(r),
         a = "worker" => wpc \in {"idle", "intake"}
  PROVE  Shaped'
<1>1. wpc' \in Steps
  BY Went DEF Shaped, Steps
<1>2. intake'["worker"].pc = "idle" <=> wpc' # "intake"
  <2>1. CASE a = "worker"
    BY <2>1, Went
  <2>2. CASE a # "worker"
    BY <2>2, Went DEF Shaped, At, Actors
  <2> QED
    BY <2>1, <2>2
<1>3. \A b \in Actors : Fits(intake'[b])
  BY Went DEF Shaped
<1>4. \A b \in Actors : Fits(intake[b])'
  BY <1>3 DEF Fits
<1> QED
  BY <1>1, <1>2, <1>4, Went DEF Shaped, At

\* Rewritten fields keep an intake's record in shape.
LEMMA Rewritten ==
  ASSUME NEW r, Fits(r), NEW p \in IntakeSteps, NEW c,
         NEW S \in SUBSET (Jobs \X States), NEW T \in SUBSET Jobs
  PROVE  /\ Fits([r EXCEPT !.pc = p, !.snap = S]) /\ Fits([r EXCEPT !.pc = p])
         /\ Fits([r EXCEPT !.pc = p, !.sha = c, !.todo = T])
         /\ Fits([r EXCEPT !.pc = p, !.key = c])
<1>1. Fits([r EXCEPT !.pc = p, !.snap = S])
  BY DEF Fits
<1>2. Fits([r EXCEPT !.pc = p])
  BY DEF Fits
<1>3. Fits([r EXCEPT !.pc = p, !.sha = c, !.todo = T])
  BY DEF Fits
<1>4. Fits([r EXCEPT !.pc = p, !.key = c])
  BY DEF Fits
<1> QED
  BY <1>1, <1>2, <1>3, <1>4

LEMMA Shortened ==
  ASSUME NEW r, Fits(r), NEW j PROVE Fits([r EXCEPT !.todo = @ \ {j}])
BY DEF Fits

\* Where an intake's steps begin and go to.
LEMMA IntakeGoes ==
  ASSUME Typed, Shaped, NEW a \in Actors, Intake(a)
  PROVE  /\ \E r : Goes(a, r) /\ Fits(r)
         /\ a = "worker" => wpc \in {"idle", "intake"}
<1>1. a = "worker" => wpc \in {"idle", "intake"}
  BY DEF Shaped, Intake, AcceptStart, AcceptRead, AcceptFails, AcceptSupersede, AcceptKey,
     AcceptEnqueue, RequestDies, At
<1> SUFFICES \E r : Goes(a, r) /\ Fits(r)
  BY <1>1
<1>2. Fits(Idle) /\ Fits(intake[a])
  BY DEF Fits, Idle, IntakeSteps, Shaped
<1>3. CASE AcceptStart(a)
  <2>1. {<<j, state[j]>> : j \in Rows} \in SUBSET (Jobs \X States)
    BY DEF Rows, Typed
  <2>2. "read" \in IntakeSteps
    BY DEF IntakeSteps
  <2>3. Fits([Idle EXCEPT !.pc = "read", !.snap = {<<j, state[j]>> : j \in Rows}])
    BY <1>2, <2>1, <2>2, Rewritten
  <2> QED
    BY <1>3, <2>3 DEF AcceptStart
<1>4. CASE AcceptRead(a)
  <2>1. {p[1] : p \in {q \in intake[a].snap : q[2] # "stale"}} \in SUBSET Jobs
    BY <1>2 DEF Fits
  <2>2. "supersede" \in IntakeSteps
    BY DEF IntakeSteps
  <2>3. Fits([intake[a] EXCEPT !.pc = "supersede", !.sha = head,
                !.todo = {p[1] : p \in {q \in intake[a].snap : q[2] # "stale"}}])
    BY <1>2, <2>1, <2>2, Rewritten
  <2> QED
    BY <1>2, <1>4, <2>3 DEF AcceptRead
<1>5. CASE AcceptSupersede(a)
  <2>1. ASSUME NEW j PROVE Fits([intake[a] EXCEPT !.todo = @ \ {j}])
    BY <1>2, Shortened
  <2>2. "key" \in IntakeSteps
    BY DEF IntakeSteps
  <2>3. Fits([intake[a] EXCEPT !.pc = "key"])
    BY <1>2, <2>2, Rewritten
  <2> QED
    BY <1>5, <2>1, <2>3 DEF AcceptSupersede
<1>6. CASE AcceptKey(a)
  <2>1. "enqueue" \in IntakeSteps
    BY DEF IntakeSteps
  <2>2. Fits([intake[a] EXCEPT !.pc = "enqueue", !.key = FreshKey(intake[a].sha)])
    BY <1>2, <2>1, Rewritten
  <2> QED
    BY <1>6, <2>2 DEF AcceptKey
<1>7. CASE AcceptFails(a) \/ AcceptEnqueue(a) \/ RequestDies(a)
  BY <1>2, <1>7 DEF AcceptFails, AcceptEnqueue, RequestDies
<1> QED
  BY <1>3, <1>4, <1>5, <1>6, <1>7 DEF Intake

\* An intake that moves moves alone, and the worker has no validation in hand.
LEMMA IntakeAlone ==
  ASSUME OneRequest, Typed, Shaped, Alone, Alone', NEW a \in Actors, Intake(a)
  PROVE  /\ \A b \in Actors \ {a} : intake'[b] = intake[b] /\ intake'[b].pc = "idle"
         /\ wpc' \in {"idle", "intake"}
<1>1. PICK r : Goes(a, r)
  BY IntakeGoes
<1>2. /\ \A b \in Actors \ {a} : intake'[b] = intake[b]
      /\ a # "worker" => wpc' = wpc
      /\ a = "worker" => wpc' \in {"idle", "intake"}
  BY <1>1, Went
<1>3. CASE AcceptStart(a)
  <2>1. a \in Actors /\ intake'[a].pc = "read" /\ (a = "worker" => wpc' = "intake")
    <3> DEFINE n == [Idle EXCEPT !.pc = "read", !.snap = {<<j, state[j]>> : j \in Rows}]
    <3>1. Goes(a, n) /\ n.pc = "read"
      BY <1>3 DEF AcceptStart, Idle
    <3> QED
      BY <3>1, Went
  <2>2. a # "worker" => wpc' = "idle" /\ intake["worker"].pc = "idle"
    BY <1>2, <2>1 DEF Alone, At, Actors, Shaped
  <2>3. a = "worker" => \A b \in Requests : intake'[b].pc = "idle"
    BY <2>1 DEF Alone, At
  <2> QED
    BY <1>2, <2>2, <2>3 DEF OneRequest, Actors
<1>4. CASE ~At(a, "idle")
  <2>1. \A b \in Actors \ {a} : At(b, "idle")
    BY <1>4, OnlyOne
  <2>2. a # "worker" => wpc = "idle"
    BY <1>4 DEF Alone, Actors
  <2> QED
    BY <1>2, <2>1, <2>2 DEF At
<1> QED
  BY <1>3, <1>4
  DEF Intake, AcceptRead, AcceptFails, AcceptSupersede, AcceptKey, AcceptEnqueue, RequestDies, At

\* While they take turns, an intake supersedes what it read and leaves one row open.
LEMMA IntakeTurns ==
  ASSUME OneRequest, Typed, Shaped, Turns, Alone', NEW a \in Actors, Intake(a)
  PROVE  Turns' /\ \A j \in Jobs : state[j] \in Live => state'[j] # "stale"
<1> USE DEF At
<1>1. /\ \A b \in Actors \ {a} : intake'[b].pc = "idle"
      /\ wpc' \in {"idle", "intake"}
  BY IntakeAlone DEF Turns
<1>2. InHand'
  BY <1>1 DEF InHand
<1>3. ASSUME /\ intake'[a].pc = "read" => \A j \in Open' : \E p \in intake'[a].snap :
                  p[1] = j /\ (p[2] = state'[j] \/ {p[2], state'[j]} \subseteq Live)
             /\ intake'[a].pc = "supersede" =>
                  \A j \in Open' : j \in intake'[a].todo /\ state'[j] \notin Live
             /\ intake'[a].pc \in {"key", "enqueue"} => Open' = {}
      PROVE  Reading'
  BY <1>1, <1>3 DEF Reading
<1>4. ASSUME /\ \A i, j \in Open' : i = j
             /\ \A j \in Jobs : /\ state'[j] \in {"absent", "queued"} => ~working'[j]
                                /\ state'[j] = "running" => session'[j]
             /\ Reading'
      PROVE  Turns'
  <2>1. Agents'
    BY <1>1, <1>4 DEF Agents
  <2> QED
    BY <1>2, <1>4, <2>1 DEF Turns
<1>5. CASE UNCHANGED <<state, session, working>> /\ Reading'
  <2>1. Open' = Open
    BY <1>5 DEF Open
  <2> QED
    BY <1>4, <1>5, <2>1 DEF Turns, Agents, Live
<1>6. CASE AcceptStart(a)
  <2> DEFINE S == {<<j, state[j]>> : j \in Rows}
             n == [Idle EXCEPT !.pc = "read", !.snap = S]
  <2>1. Goes(a, n) /\ n.pc = "read" /\ n.snap = S
    BY <1>6 DEF AcceptStart, Idle
  <2>2. intake'[a].pc = "read" /\ intake'[a].snap = S
    BY <2>1, Went
  <2>3. UNCHANGED <<state, session, working>>
    BY <1>6 DEF AcceptStart, rows
  <2>4. ASSUME NEW j \in Open' PROVE \E p \in S : p[1] = j /\ p[2] = state'[j]
    <3>1. <<j, state'[j]>> \in S
      BY <2>3, <2>4 DEF Open, Rows
    <3>2. <<j, state'[j]>>[1] = j /\ <<j, state'[j]>>[2] = state'[j]
      OBVIOUS
    <3> QED
      BY <3>1, <3>2
  <2> HIDE DEF S
  <2> QED
    BY <1>3, <1>5, <2>2, <2>3, <2>4
<1>7. CASE intake'[a].pc = "idle" /\ UNCHANGED <<state, session, working>>
  BY <1>3, <1>5, <1>7
<1>8. CASE AcceptRead(a)
  <2> DEFINE T == {p[1] : p \in {q \in intake[a].snap : q[2] # "stale"}}
             n == [intake[a] EXCEPT !.pc = "supersede", !.sha = head, !.todo = T]
  <2>1. UNCHANGED <<state, session, working>>
    BY <1>8 DEF AcceptRead, rows
  <2>2. CASE Goes(a, Idle)
    BY <1>7, <2>1, <2>2, Went DEF Idle
  <2>3. CASE Goes(a, n) /\ ~Defers(a)
    <3>1. intake'[a].pc = "supersede" /\ intake'[a].todo = T
      <4>1. Fits(intake[a])
        BY DEF Shaped
      <4>2. \A X : LET m == [intake[a] EXCEPT !.pc = "supersede", !.sha = head, !.todo = X]
                   IN  m.pc = "supersede" /\ m.todo = X
        BY <4>1 DEF Fits
      <4>3. n.pc = "supersede" /\ n.todo = T
        BY <4>2
      <4>4. intake'[a] = n
        BY <2>3, Went
      <4> HIDE DEF n
      <4> QED
        BY <4>3, <4>4
    <3>2. ASSUME NEW j \in Open PROVE j \in T /\ state[j] \notin Live
      <4>1. PICK p \in intake[a].snap : p[1] = j /\ (p[2] = state[j] \/ {p[2], state[j]} \subseteq Live)
        BY <1>8, <3>2 DEF AcceptRead, Turns, Reading
      <4>2. p[2] = state[j] /\ p[2] \notin Live
        BY <2>3, <4>1 DEF Defers
      <4>3. p[2] # "stale"
        BY <3>2, <4>2 DEF Open
      <4> QED
        BY <4>1, <4>2, <4>3
    <3>3. Open' = Open
      BY <2>1 DEF Open
    <3> QED
      BY <1>3, <1>5, <2>1, <3>1, <3>2, <3>3
  <2> QED
    BY <1>8, <2>2, <2>3 DEF AcceptRead
<1>9. CASE AcceptSupersede(a)
  <2>0. \A j \in Open : j \in intake[a].todo /\ state[j] \notin Live
    BY <1>9 DEF AcceptSupersede, Turns, Reading
  <2>1. CASE intake[a].todo = {} /\ Goes(a, [intake[a] EXCEPT !.pc = "key"]) /\ UNCHANGED rows
    <3>1. intake'[a].pc = "key"
      BY <2>1, Went DEF Shaped, Fits
    <3>2. UNCHANGED <<state, session, working>> /\ Open' = {}
      BY <1>9, <2>0, <2>1 DEF AcceptSupersede, rows, Open
    <3> QED
      BY <1>3, <1>5, <3>1, <3>2
  <2>2. ASSUME NEW j \in intake[a].todo, Supersede(j, None),
               Goes(a, [intake[a] EXCEPT !.todo = @ \ {j}])
        PROVE  Turns' /\ \A i \in Jobs : state[i] \in Live => state'[i] # "stale"
    <3>1. j \in Jobs
      BY <2>2 DEF Shaped, Fits
    <3>2. intake'[a].pc = "supersede" /\ intake'[a].todo = intake[a].todo \ {j}
      BY <1>9, <2>2, Went DEF AcceptSupersede, Shaped, Fits
    <3>3. \/ state' = state /\ j \notin Open
          \/ state' = [state EXCEPT ![j] = "stale"] /\ j \in Open
      <4>1. CASE state[j] \in {"absent", "stale"}
        BY <2>2, <4>1 DEF Supersede, Open
      <4>2. CASE state[j] \notin {"absent", "stale"}
        BY <2>2, <3>1, <4>2 DEF Supersede, Open
      <4> QED
        BY <4>1, <4>2
    <3>4. UNCHANGED <<session, working>>
      BY <1>9, <2>2 DEF AcceptSupersede, Supersede
    <3>5. Open' = Open \ {j} /\ \A i \in Jobs \ {j} : state'[i] = state[i]
      BY <3>1, <3>3 DEF Typed, Open
    <3>6. state'[j] \in {state[j], "stale"}
      BY <3>1, <3>3 DEF Typed
    <3>7. Reading'
      <4>1. \A i \in Open' : i \in intake'[a].todo /\ state'[i] \notin Live
        BY <2>0, <3>2, <3>5 DEF Open
      <4> QED
        BY <1>3, <3>2, <4>1
    <3>8. Turns'
      BY <1>4, <3>4, <3>5, <3>6, <3>7 DEF Turns, Agents
    <3>9. \A i \in Jobs : state[i] \in Live => state'[i] # "stale"
      BY <2>0, <3>3, <3>5 DEF Live
    <3> QED
      BY <3>8, <3>9
  <2> QED
    BY <1>9, <2>1, <2>2 DEF AcceptSupersede
<1>10. CASE AcceptKey(a)
  <2>1. intake'[a].pc = "enqueue"
    <3>1. \A k : [intake[a] EXCEPT !.pc = "enqueue", !.key = k].pc = "enqueue"
      BY DEF Shaped, Fits
    <3>2. PICK k : Goes(a, [intake[a] EXCEPT !.pc = "enqueue", !.key = k])
      BY <1>10 DEF AcceptKey
    <3> QED
      BY <3>1, <3>2, Went
  <2>2. UNCHANGED <<state, session, working>>
    BY <1>10 DEF AcceptKey, rows
  <2>3. Open' = {}
    BY <1>10, <2>2 DEF AcceptKey, Turns, Reading, Open
  <2> QED
    BY <1>3, <1>5, <2>1, <2>2, <2>3
<1>11. CASE AcceptEnqueue(a)
  <2>1. intake'[a].pc = "idle" /\ UNCHANGED <<session, working>>
    BY <1>11, Went DEF AcceptEnqueue, Idle
  <2>2. Open = {}
    BY <1>11 DEF AcceptEnqueue, Turns, Reading
  <2>3. CASE state' = state
    BY <1>7, <2>1, <2>3
  <2>4. CASE Jobs # Rows /\ state' = [state EXCEPT ![NextId] = "queued"]
    <3>1. NextId \in Jobs /\ state[NextId] = "absent"
      BY <2>4, NewRow
    <3>2. /\ state'[NextId] = "queued" /\ \A i \in Jobs \ {NextId} : state'[i] = state[i]
      BY <2>4, <3>1 DEF Typed
    <3>3. Open' \subseteq {NextId}
      BY <2>2, <3>2 DEF Open
    <3>4. Reading'
      BY <1>3, <2>1
    <3>5. Turns'
      BY <1>4, <2>1, <3>1, <3>2, <3>3, <3>4 DEF Turns, Agents
    <3> QED
      BY <3>2, <3>5 DEF Live
  <2> QED
    BY <1>11, <2>3, <2>4 DEF AcceptEnqueue, Insert
<1>12. CASE AcceptFails(a) \/ RequestDies(a)
  <2>1. UNCHANGED <<state, session, working>> /\ intake'[a].pc = "idle"
    BY <1>12, Went DEF AcceptFails, RequestDies, rows, Idle
  <2> QED
    BY <1>7, <2>1
<1> QED
  BY <1>6, <1>8, <1>9, <1>10, <1>11, <1>12 DEF Intake

\* While the worker has a validation in hand, no intake is under way, and only what
\* it does to that row counts.
LEMMA HandTurns ==
  ASSUME Typed, Shaped, Turns, wpc \notin {"idle", "intake"}, UNCHANGED intake
  PROVE  Alone' /\ Reading' /\ Open = {wjob}
<1>1. \A b \in Actors : intake'[b].pc = "idle"
  BY DEF Turns, Alone, Shaped, At, Actors
<1> QED
  BY <1>1 DEF Turns, Alone, Reading, InHand, At, Actors

\* What a step that rewrites the row in hand has to respect.
LEMMA RowTurns ==
  ASSUME Typed, Shaped, Hosts, Turns, wpc \notin {"idle", "intake"}, UNCHANGED <<intake, wjob>>,
         NEW s \in States \ {"absent", "stale"}, state' = [state EXCEPT ![wjob] = s],
         \A j \in Jobs \ {wjob} : working'[j] = working[j] /\ session'[j] = session[j],
         s = "queued" => ~working'[wjob],
         s = "running" => session'[wjob],
         wpc' \in {"dispatch", "start", "create", "finish", "collect", "recheck", "commit"}
           => ~working'[wjob],
         wpc' = "supersede" => ~working'[wjob] \/ s \in Outcomes,
         wpc' = "refresh" => s \in Outcomes,
         wpc' = "poll" => session'[wjob],
         wpc' = "create" => s = "dispatching"
  PROVE  Turns' /\ Open' = Open
<1>1. wjob \in Jobs /\ state'[wjob] = s /\ \A j \in Jobs \ {wjob} : state'[j] = state[j]
  BY DEF Typed
<1>2. Alone' /\ Reading' /\ Open = {wjob}
  BY HandTurns
<1>3. Open' = Open
  BY <1>1, <1>2 DEF Open
<1>4. Agents'
  BY <1>1 DEF Turns, Agents
<1> QED
  BY <1>2, <1>3, <1>4 DEF Turns, InHand

\* The same for a step that leaves the row as it is.
LEMMA SameRowTurns ==
  ASSUME Typed, Shaped, Hosts, Turns, wpc \notin {"idle", "intake"},
         UNCHANGED <<intake, wjob, rows, working>>,
         wpc' \in {"dispatch", "start", "create", "finish", "collect", "recheck", "commit"}
           => ~working[wjob],
         wpc' = "supersede" => ~working[wjob] \/ state[wjob] \in Outcomes,
         wpc' \notin {"refresh", "poll", "create"}
  PROVE  Turns' /\ Open' = Open
<1>1. Alone' /\ Reading' /\ Open = {wjob}
  BY HandTurns
<1>2. Open' = Open
  BY DEF rows, Open
<1>3. Agents'
  BY DEF Turns, Agents, rows
<1> QED
  BY <1>1, <1>2, <1>3 DEF Turns, InHand

\* A failed step leaves the row open.
LEMMA FailsTurns ==
  ASSUME Typed, Shaped, Hosts, Turns, wpc \notin {"idle", "intake"}, Fails,
         ~working[wjob] \/ session[wjob]
  PROVE  Turns' /\ Open' = Open
<1>1. PICK s \in FailedState : state' = [state EXCEPT ![wjob] = s]
  BY DEF Fails
<1>2. wjob \in Open
  BY DEF Turns, InHand
<1>3. s \in States \ {"absent", "stale"}
  BY <1>2 DEF FailedState, Open, States, Live, Outcomes
<1>4. (s = "queued" => ~working[wjob]) /\ (s = "running" => session[wjob])
  BY DEF FailedState, Outcomes
<1> QED
  BY <1>1, <1>3, <1>4, RowTurns DEF Fails, Goto, Stays

\* A freshness check: the row is left, or about to be superseded.
LEMMA ReadsTurns ==
  ASSUME Typed, Shaped, Hosts, Turns, wpc \notin {"idle", "intake"}, NEW next, Reads(next),
         next \in Steps \ {"refresh", "poll", "create"}, next = "idle" \/ ~working[wjob],
         ~working[wjob] \/ state[wjob] \in Outcomes
  PROVE  Turns' /\ Open' = Open
<1>1. UNCHANGED <<intake, wjob, rows, working>> /\ wpc' \in {next, "supersede"}
  BY DEF Reads, Stays
<1> QED
  BY <1>1, SameRowTurns

\* An outdated validation makes room for its replacement.
LEMMA OutdatedTurns ==
  ASSUME Typed, Shaped, Hosts, Turns, Outdated
  PROVE  Turns' /\ \A j \in Jobs : state[j] \in Live /\ state'[j] = "stale" => ~working[j]
<1> DEFINE st == [state EXCEPT ![wjob] = "stale"]
<1>1. UNCHANGED <<intake, wjob, session, working>> /\ wpc' = "idle"
  BY DEF Outdated, Goto, Stays, Supersede
<1>2. Alone' /\ Reading' /\ Open = {wjob} /\ wjob \in Jobs
  BY <1>1, HandTurns DEF Outdated, Typed
<1>3. st[wjob] = "stale" /\ \A j \in Jobs \ {wjob} : st[j] = state[j]
  BY DEF Typed
<1>4. \/ state' = st
      \/ Jobs # Rows /\ state' = [st EXCEPT ![NextId] = "queued"]
  <2>1. state[wjob] \notin {"absent", "stale"}
    BY <1>2 DEF Open
  <2>2. Supersede(wjob, seen)
    BY DEF Outdated
  <2> QED
    BY <2>1, <2>2 DEF Supersede, Insert
<1>5. CASE state' = st
  <2>1. Open' = {}
    BY <1>2, <1>3, <1>5 DEF Open
  <2>2. Agents'
    BY <1>1, <1>3, <1>5 DEF Turns, Agents
  <2>3. \A j \in Jobs : state[j] \in Live /\ state'[j] = "stale" => j = wjob
    BY <1>3, <1>5 DEF Live
  <2>4. state[wjob] \in Live => ~working[wjob]
    BY DEF Turns, Agents, Outdated, Live, Outcomes
  <2> QED
    BY <1>1, <1>2, <2>1, <2>2, <2>3, <2>4 DEF Turns, InHand
<1>6. CASE Jobs # Rows /\ state' = [st EXCEPT ![NextId] = "queued"]
  <2>1. NextId \in Jobs /\ state[NextId] = "absent"
    BY <1>6, NewRow
  <2>2. NextId # wjob
    BY <1>2, <2>1 DEF Open
  <2>3. /\ state'[NextId] = "queued" /\ state'[wjob] = "stale"
        /\ \A j \in Jobs \ {wjob, NextId} : state'[j] = state[j]
    BY <1>2, <1>3, <1>6, <2>1, <2>2 DEF Typed
  <2>4. Open' = {NextId}
    BY <1>2, <2>1, <2>3 DEF Open
  <2>5. Agents'
    BY <1>1, <2>1, <2>3 DEF Turns, Agents
  <2>6. \A j \in Jobs : state[j] \in Live /\ state'[j] = "stale" => j = wjob
    BY <2>3 DEF Live
  <2>7. state[wjob] \in Live => ~working[wjob]
    BY DEF Turns, Agents, Outdated, Live, Outcomes
  <2> QED
    BY <1>1, <1>2, <2>4, <2>5, <2>6, <2>7 DEF Turns, InHand
<1> QED
  BY <1>4, <1>5, <1>6

\* The worker's steps with a validation in hand.
LEMMA HandlesTurns ==
  ASSUME Typed, Shaped, Hosts, Turns, Handles
  PROVE  Turns' /\ \A j \in Jobs : state[j] \in Live /\ state'[j] = "stale" => ~working[j]
<1>1. CASE Outdated
  BY <1>1, OutdatedTurns
<1> SUFFICES ASSUME ~Outdated PROVE Turns' /\ Open' = Open
  BY <1>1 DEF Open, Live
<1>2. CASE Dispatch
  <2>1. wpc = "dispatch" /\ ~working[wjob]
    BY <1>2 DEF Dispatch, Turns, Agents
  <2> QED
    BY <1>2, <2>1, FailsTurns, ReadsTurns DEF Dispatch, Steps
<1>3. CASE Start
  <2>1. wpc = "start" /\ wpc' = "create" /\ ~working[wjob] /\ UNCHANGED <<intake, wjob, session, working>>
    BY <1>3 DEF Start, Turns, Agents, Goto, Stays
  <2>2. "dispatching" \in States \ {"absent", "stale"}
    BY DEF States, Live
  <2> QED
    BY <1>3, <2>1, <2>2, RowTurns DEF Start
<1>4. CASE Create
  <2>1. wpc = "create" /\ ~working[wjob] /\ UNCHANGED <<intake, wjob>>
    BY <1>4 DEF Create, Turns, Agents, Goto, Stays, Fails
  <2>2. wjob \in Jobs /\ wjob \in Open
    BY <2>1 DEF Typed, Turns, InHand
  <2>3. ASSUME NEW b \in BOOLEAN, working' = [working EXCEPT ![wjob] = b],
               state' = [state EXCEPT ![wjob] = "unknown_effect"], wpc' = "idle", UNCHANGED session
        PROVE  Turns' /\ Open' = Open
    <3>1. "unknown_effect" \in States \ {"absent", "stale"}
      BY DEF States, Live
    <3>2. \A j \in Jobs \ {wjob} : working'[j] = working[j]
      BY <2>3 DEF Hosts
    <3> QED
      BY <2>1, <2>3, <3>1, <3>2, RowTurns
  <2>4. CASE working' = [working EXCEPT ![wjob] = TRUE] /\ wpc' = "record" /\ UNCHANGED rows
    <3>1. state[wjob] \in States \ {"absent", "stale"} /\ state' = [state EXCEPT ![wjob] = state[wjob]]
      BY <2>2, <2>4 DEF Typed, Open, rows
    <3>2. UNCHANGED session /\ \A j \in Jobs \ {wjob} : working'[j] = working[j]
      BY <2>4 DEF rows, Hosts
    <3>3. state[wjob] = "dispatching"
      BY <2>1 DEF Turns, Agents
    <3> QED
      BY <2>1, <2>4, <3>1, <3>2, <3>3, RowTurns
  <2> QED
    BY <1>4, <2>1, <2>3, <2>4, FailsTurns DEF Create, Goto
<1>5. CASE Record
  <2>1. wpc = "record" /\ UNCHANGED <<intake, wjob, working>> /\ wpc' = "idle"
    BY <1>5 DEF Record, Goto, Stays
  <2>2. "running" \in States \ {"absent", "stale"}
    BY DEF States, Live
  <2>3. session'[wjob] /\ \A j \in Jobs \ {wjob} : session'[j] = session[j]
    BY <1>5 DEF Record, Hosts, Typed
  <2> QED
    BY <1>5, <2>1, <2>2, <2>3, RowTurns DEF Record
<1>6. CASE Poll
  <2>1. wpc = "poll" /\ session[wjob]
    BY <1>6 DEF Poll, Turns, Agents
  <2>2. wjob \in Jobs
    BY DEF Typed
  <2>3. CASE working[wjob] /\ Goto("idle") /\ UNCHANGED <<rows, working>> /\ Stays
    BY <2>1, <2>3, SameRowTurns DEF Goto, Stays
  <2>4. CASE ~working[wjob] /\ Goto("finish") /\ UNCHANGED <<rows, working>> /\ Stays
    BY <2>1, <2>4, SameRowTurns DEF Goto, Stays
  <2>5. CASE /\ state' = [state EXCEPT ![wjob] = "needs_attention"]
             /\ working' = [working EXCEPT ![wjob] = FALSE]
             /\ Goto("idle")
             /\ UNCHANGED <<sha, key, tracked, session>> /\ Stays
    <3>1. "needs_attention" \in States \ {"absent", "stale"}
      BY DEF States, Live
    <3>2. \A j \in Jobs \ {wjob} : working'[j] = working[j] /\ session'[j] = session[j]
      BY <2>5 DEF Hosts
    <3> QED
      BY <2>1, <2>5, <3>1, <3>2, RowTurns DEF Goto, Stays
  <2>6. CASE /\ state' = [state EXCEPT ![wjob] = "unknown_effect"]
             /\ Goto("idle")
             /\ UNCHANGED <<sha, key, tracked, session, working>> /\ Stays
    <3>1. "unknown_effect" \in States \ {"absent", "stale"}
      BY DEF States, Live
    <3> QED
      BY <2>1, <2>6, <3>1, RowTurns DEF Goto, Stays
  <2> QED
    BY <1>6, <2>1, <2>3, <2>4, <2>5, <2>6, FailsTurns DEF Poll
<1>7. CASE Finish
  <2>1. wpc = "finish" /\ ~working[wjob]
    BY <1>7 DEF Finish, Turns, Agents
  <2> QED
    BY <1>7, <2>1, FailsTurns, ReadsTurns DEF Finish, Steps
<1>8. CASE Collect
  <2>1. wpc = "collect" /\ ~working[wjob]
    BY <1>8 DEF Collect, Turns, Agents
  <2>2. CASE \E next \in {"idle", "recheck"} : Goto(next) /\ UNCHANGED <<rows, working>> /\ Stays
    BY <2>1, <2>2, SameRowTurns DEF Goto, Stays
  <2> QED
    BY <1>8, <2>1, <2>2, FailsTurns DEF Collect
<1>9. CASE Recheck
  <2>1. wpc = "recheck" /\ ~working[wjob]
    BY <1>9 DEF Recheck, Turns, Agents
  <2> QED
    BY <1>9, <2>1, FailsTurns, ReadsTurns DEF Recheck, Steps
<1>10. CASE Commit
  <2>1. wpc = "commit" /\ wjob \in Open /\ UNCHANGED <<intake, wjob, session, working>> /\ wpc' = "idle"
    BY <1>10 DEF Commit, Goto, Stays, Turns, InHand
  <2>2. PICK s \in Outcomes \cup {"needs_attention"} : state' = [state EXCEPT ![wjob] = s]
    BY <1>10, <2>1 DEF Commit, Open
  <2>3. s \in States \ {"absent", "stale"} /\ s \notin {"queued", "running"}
    BY <2>2 DEF States, Live, Outcomes
  <2> QED
    BY <2>1, <2>2, <2>3, RowTurns
<1>11. CASE RefreshRead
  <2>1. wpc = "refresh" /\ state[wjob] \in Outcomes
    BY <1>11 DEF RefreshRead, Turns, Agents
  <2>2. CASE Reads("idle")
    BY <2>1, <2>2, ReadsTurns DEF Steps
  <2>3. CASE Goto("idle") /\ UNCHANGED <<rows, working>> /\ Stays
    BY <2>1, <2>3, SameRowTurns DEF Goto, Stays
  <2> QED
    BY <1>11, <2>2, <2>3 DEF RefreshRead
<1> QED
  BY <1>2, <1>3, <1>4, <1>5, <1>6, <1>7, <1>8, <1>9, <1>10, <1>11 DEF Handles

\* The steps of the world, and those by which the worker takes a row or dies.
LEMMA OtherTurns ==
  ASSUME Typed, Shaped, Hosts, Turns, Alone', NEW j \in Jobs,
         \/ \E c \in Commits : Push(c)
         \/ \E s \in Standings : Reclassify(s)
         \/ AgentStops(j) \/ Claim(j) \/ Refresh(j) \/ Expire(j)
         \/ Crash
         \/ UNCHANGED vars
  PROVE  Turns' /\ \A i \in Jobs : state[i] \in Live => state'[i] # "stale"
<1>1. ASSUME UNCHANGED <<state, intake, session>>, wpc' = wpc, wjob' = wjob,
             \A i \in Jobs : working'[i] => working[i]
      PROVE  Turns' /\ \A i \in Jobs : state[i] \in Live => state'[i] # "stale"
  <2>1. Open' = Open
    BY <1>1 DEF Open
  <2>2. Reading'
    BY <1>1, <2>1 DEF Turns, Reading, At
  <2>3. Agents'
    BY <1>1 DEF Turns, Agents, Typed
  <2> QED
    BY <1>1, <2>1, <2>2, <2>3 DEF Turns, InHand, Live
<1>2. ASSUME wpc = "idle", wpc' \notin {"idle", "intake"}, UNCHANGED intake PROVE Reading'
  BY <1>2 DEF Reading, Alone, Shaped, At, Actors
<1>3. CASE (\E c \in Commits : Push(c)) \/ (\E s \in Standings : Reclassify(s)) \/ UNCHANGED vars
  BY <1>1, <1>3 DEF Push, Reclassify, vars, system, rows, worker
<1>4. CASE AgentStops(j)
  <2>1. \A i \in Jobs : working'[i] => working[i]
    BY <1>4 DEF AgentStops, Hosts
  <2> QED
    BY <1>1, <1>4, <2>1 DEF AgentStops, rows, worker
<1>5. CASE Claim(j)
  <2>1. wpc = "idle" /\ wpc' \in {"poll", "dispatch"} /\ wjob' = j
        /\ UNCHANGED <<intake, session, working>>
    BY <1>5 DEF Claim, Stays
  <2>2. Reading'
    BY <1>2, <2>1
  <2>3. CASE state[j] = "running" /\ wpc' = "poll" /\ UNCHANGED state
    <3>1. Open' = Open /\ j \in Open
      BY <2>3 DEF Open
    <3>2. Agents'
      BY <2>1, <2>3 DEF Turns, Agents
    <3> QED
      BY <2>1, <2>2, <2>3, <3>1, <3>2 DEF Turns, InHand, Live
  <2>4. CASE state[j] = "queued" /\ wpc' = "dispatch" /\ state' = [state EXCEPT ![j] = "dispatching"]
    <3>1. state'[j] = "dispatching" /\ \A i \in Jobs \ {j} : state'[i] = state[i]
      BY <2>4 DEF Typed
    <3>2. Open' = Open /\ j \in Open
      BY <2>4, <3>1 DEF Open
    <3>3. Agents'
      BY <2>1, <2>4, <3>1 DEF Turns, Agents
    <3> QED
      BY <2>1, <2>2, <3>1, <3>2, <3>3 DEF Turns, InHand, Live
  <2> QED
    BY <1>5, <2>3, <2>4 DEF Claim
<1>6. CASE Refresh(j)
  <2>1. wpc = "idle" /\ wpc' = "refresh" /\ wjob' = j /\ UNCHANGED <<state, intake, session, working>>
    BY <1>6 DEF Refresh, Stays, rows
  <2>2. Open' = Open /\ j \in Open
    BY <1>6, <2>1 DEF Open, Refresh, Outcomes
  <2>3. Agents'
    BY <1>6, <2>1 DEF Turns, Agents, Refresh
  <2> QED
    BY <1>2, <2>1, <2>2, <2>3 DEF Turns, InHand, Live
<1>7. CASE Expire(j)
  <2>1. state[j] = "dispatching" /\ wpc = "idle" /\ UNCHANGED <<intake, session, working, wpc, wjob>>
    BY <1>7 DEF Expire, Stays, worker
  <2>2. state'[j] = "unknown_effect" /\ \A i \in Jobs \ {j} : state'[i] = state[i]
    BY <1>7 DEF Expire, Typed
  <2>3. Open' = Open /\ j \in Open
    BY <2>1, <2>2 DEF Open
  <2>4. Agents'
    BY <2>1, <2>2 DEF Turns, Agents
  <2>5. Reading'
    <3> SUFFICES ASSUME NEW a \in Actors
                 PROVE  /\ intake[a].pc = "read" => \A i \in Open : \E p \in intake[a].snap :
                             p[1] = i /\ (p[2] = state'[i] \/ {p[2], state'[i]} \subseteq Live)
                        /\ intake[a].pc # "supersede"
                        /\ intake[a].pc \notin {"key", "enqueue"}
      BY <2>1, <2>3 DEF Reading, At
    <3>1. intake[a].pc \notin {"supersede", "key", "enqueue"}
      BY <2>1, <2>3 DEF Turns, Reading, At, Live
    <3>2. ASSUME intake[a].pc = "read", NEW i \in Open
          PROVE  \E p \in intake[a].snap : p[1] = i /\ (p[2] = state'[i] \/ {p[2], state'[i]} \subseteq Live)
      <4>1. PICK p \in intake[a].snap : p[1] = i /\ (p[2] = state[i] \/ {p[2], state[i]} \subseteq Live)
        BY <3>2 DEF Turns, Reading, At
      <4>2. p[2] = state'[i] \/ {p[2], state'[i]} \subseteq Live
        BY <2>1, <2>2, <3>2, <4>1 DEF Live, Open
      <4> QED
        BY <4>1, <4>2
    <3> QED
      BY <3>1, <3>2
  <2> QED
    BY <2>1, <2>2, <2>3, <2>4, <2>5 DEF Turns, InHand, Live
<1>8. CASE Crash
  <2>1. wpc' = "idle" /\ wjob' = wjob /\ UNCHANGED <<state, session, working>>
        /\ wpc # "idle" /\ intake' = [intake EXCEPT !["worker"] = Idle]
    BY <1>8 DEF Crash, Goto, rows
  <2>2. \A a \in Actors : intake'[a].pc = "idle"
    BY <2>1 DEF Turns, Alone, Shaped, At, Actors, Idle
  <2>3. Open' = Open /\ Reading'
    BY <2>1, <2>2 DEF Open, Reading, At
  <2>4. Agents'
    BY <2>1 DEF Turns, Agents
  <2> QED
    BY <2>1, <2>3, <2>4 DEF Turns, InHand, Live
<1> QED
  BY <1>3, <1>4, <1>5, <1>6, <1>7, <1>8

\* A step that moves no intake keeps the places in shape.
LEMMA SameShape ==
  ASSUME Shaped, UNCHANGED intake, wpc' = wpc \/ (wpc # "intake" /\ wpc' \in Steps \ {"intake"})
  PROVE  Shaped'
BY DEF Shaped, At, Fits

\* The places keep their shape in every step.
LEMMA StepShaped ==
  ASSUME Typed, Shaped, [Next]_vars
  PROVE  Shaped'
<1>1. CASE UNCHANGED <<intake, wpc>>
  BY <1>1, SameShape
<1>2. CASE \E a \in Actors : Intake(a)
  BY <1>2, IntakeGoes, GoesShaped
<1>3. CASE Handles
  <2>1. UNCHANGED intake /\ wpc # "intake"
    BY <1>3 DEF Handles, Outdated, Dispatch, Start, Create, Record, Poll, Finish, Collect,
                Recheck, Commit, RefreshRead, Reads, Fails, Goto, Stays
  <2>2. ASSUME NEW next \in Steps \ {"intake"}, Reads(next) PROVE wpc' \in Steps \ {"intake"}
    BY <2>2 DEF Reads, Steps
  <2>3. Fails => wpc' = "idle"
    BY DEF Fails, Goto
  <2>4. wpc' \in Steps \ {"intake"}
    BY <1>3, <2>2, <2>3
    DEF Handles, Outdated, Dispatch, Start, Create, Record, Poll, Finish, Collect, Recheck,
        Commit, RefreshRead, Goto, Steps
  <2> QED
    BY <2>1, <2>4, SameShape
<1>4. ASSUME NEW j \in Jobs, Claim(j) \/ Refresh(j) PROVE Shaped'
  BY <1>4, SameShape DEF Claim, Refresh, Stays, Steps
<1>5. CASE Crash
  <2>1. wpc' = "idle" /\ intake' = [intake EXCEPT !["worker"] = Idle]
    BY <1>5 DEF Crash, Goto
  <2>2. Fits(Idle)
    BY DEF Fits, Idle, IntakeSteps
  <2>3. \A b \in Actors : Fits(intake'[b])
    BY <2>1, <2>2 DEF Shaped
  <2>4. intake' = [b \in Actors |-> intake'[b]] /\ intake'["worker"].pc = "idle"
    BY <2>1 DEF Shaped, Actors, Idle
  <2>5. \A b \in Actors : Fits(intake[b])'
    BY <2>3 DEF Fits
  <2> QED
    BY <2>1, <2>4, <2>5 DEF Shaped, At, Steps
<1>6. CASE \E c \in Commits : Push(c)
  BY <1>1, <1>6 DEF Push, worker
<1>7. CASE \E s \in Standings : Reclassify(s)
  BY <1>1, <1>7 DEF Reclassify, worker
<1>8. ASSUME NEW j \in Jobs, AgentStops(j) \/ Expire(j) PROVE Shaped'
  BY <1>1, <1>8 DEF AgentStops, Expire, Stays, worker
<1>9. CASE UNCHANGED vars
  BY <1>1, <1>9 DEF vars, system, worker
<1> QED
  BY <1>2, <1>3, <1>4, <1>5, <1>6, <1>7, <1>8, <1>9 DEF Next, Step

\* Agents and recorded sessions keep their types.
LEMMA StepHosts ==
  ASSUME Hosts, [Next]_vars
  PROVE  Hosts'
<1>1. CASE UNCHANGED <<working, session>>
  BY <1>1 DEF Hosts
<1>2. ASSUME NEW j, NEW b \in BOOLEAN, working' = [working EXCEPT ![j] = b], UNCHANGED session
      PROVE  Hosts'
  BY <1>2 DEF Hosts
<1>3. CASE Record
  BY <1>3 DEF Record, Hosts
<1>4. CASE \E a \in Actors : Intake(a)
  BY <1>1, <1>4 DEF Intake, AcceptStart, AcceptRead, AcceptFails, AcceptSupersede, AcceptKey,
                    AcceptEnqueue, RequestDies, Supersede, rows
<1>5. ASSUME NEW j \in Jobs, AgentStops(j) \/ Claim(j) \/ Refresh(j) \/ Expire(j) PROVE Hosts'
  BY <1>1, <1>2, <1>5 DEF AgentStops, Claim, Refresh, Expire, rows
<1>6. CASE Create
  BY <1>1, <1>2, <1>6 DEF Create, Fails, rows
<1>7. CASE Poll
  BY <1>1, <1>2, <1>7 DEF Poll, Fails, rows
<1>8. CASE Outdated \/ Dispatch \/ Start \/ Finish \/ Collect \/ Recheck \/ Commit \/ RefreshRead
  BY <1>1, <1>8 DEF Outdated, Dispatch, Start, Finish, Collect, Recheck, Commit, RefreshRead,
                    Supersede, Reads, Fails, rows
<1>9. CASE Crash \/ (\E c \in Commits : Push(c)) \/ (\E s \in Standings : Reclassify(s))
           \/ UNCHANGED vars
  BY <1>1, <1>9 DEF Crash, Push, Reclassify, vars, system, rows
<1> QED
  BY <1>3, <1>4, <1>5, <1>6, <1>7, <1>8, <1>9 DEF Next, Step, Handles

LEMMA InitIInv == Init => IInv
<1> SUFFICES ASSUME Init PROVE IInv
  OBVIOUS
<1>1. Typed /\ Hosts
  BY InitTyped DEF Init, Hosts
<1>2. Fits(Idle)
  BY DEF Fits, Idle, IntakeSteps
<1>3. \A a \in Actors : intake[a] = Idle
  BY DEF Init
<1>4. Shaped
  BY <1>2, <1>3 DEF Init, Shaped, Actors, Idle, Steps, At
<1>5. Open = {}
  BY DEF Init, Open
<1>6. Turns
  BY <1>3, <1>5 DEF Init, Turns, Alone, Reading, InHand, Agents, At, Idle, Actors
<1> QED
  BY <1>1, <1>4, <1>6 DEF IInv

\* Taken from a state where they take turns, a step supersedes no live row under
\* its agent, even the step that ends their turns.
LEMMA NoneAbandoned ==
  ASSUME Typed, Shaped, Hosts, Turns, [Next]_vars, NEW j \in Jobs,
         state[j] \in Live, state'[j] = "stale"
  PROVE  ~working[j]
<1> USE DEF Live
<1>1. CASE UNCHANGED state
  BY <1>1
<1>2. CASE Handles
  BY <1>2, HandlesTurns
<1>3. ASSUME NEW a \in Actors, AcceptSupersede(a) PROVE FALSE
  <2>1. \A i \in Open : state[i] \notin Live
    BY <1>3 DEF AcceptSupersede, Turns, Reading
  <2> QED
    BY <2>1 DEF Open
<1>4. ASSUME NEW a \in Actors, AcceptEnqueue(a) PROVE FALSE
  <2>1. PICK i : state' = [state EXCEPT ![i] = "queued"] \/ state' = state
    BY <1>4 DEF AcceptEnqueue, Insert
  <2>2. state'[j] \in {state[j], "queued"}
    BY <2>1 DEF Typed
  <2> QED
    BY <2>2
<1>5. CASE \E a \in Actors : Intake(a)
  BY <1>1, <1>3, <1>4, <1>5
  DEF Intake, AcceptStart, AcceptRead, AcceptFails, AcceptKey, RequestDies, rows
<1>6. ASSUME NEW i \in Jobs, Claim(i) \/ Expire(i) PROVE FALSE
  <2>1. PICK s \in {"dispatching", "unknown_effect"} :
          state' = [state EXCEPT ![i] = s] \/ state' = state
    BY <1>6 DEF Claim, Expire
  <2>2. state'[j] \in {state[j], s}
    BY <2>1 DEF Typed
  <2> QED
    BY <2>2
<1>7. CASE UNCHANGED vars \/ Crash \/ (\E c \in Commits : Push(c))
           \/ (\E s \in Standings : Reclassify(s))
  BY <1>1, <1>7 DEF vars, system, rows, Crash, Push, Reclassify
<1>8. ASSUME NEW i \in Jobs, AgentStops(i) \/ Refresh(i) PROVE UNCHANGED state
  BY <1>8 DEF AgentStops, Refresh, rows
<1> QED
  BY <1>1, <1>2, <1>5, <1>6, <1>7, <1>8 DEF Next, Step

\* A step taken in turn keeps them in turn.
LEMMA StepTurns ==
  ASSUME OneRequest, IInv, [Next]_vars
  PROVE  IInv'
<1>1. Typed' /\ Shaped' /\ Hosts'
  BY StepKeeps, StepShaped, StepHosts DEF IInv, Keeps
<1>2. ~overlapped' => ~overlapped /\ Alone'
  <2>1. CASE Next
    BY <2>1 DEF Next, Overlap, Alone
  <2>2. CASE UNCHANGED vars
    BY <2>2 DEF vars, system, worker, IInv, Turns, Alone, At
  <2> QED
    BY <2>1, <2>2
<1> SUFFICES ASSUME ~overlapped' PROVE Turns'
  BY <1>1 DEF IInv
<1>3. Typed /\ Shaped /\ Hosts /\ Turns /\ Alone'
  BY <1>2 DEF IInv
<1>4. ASSUME NEW a \in Actors, Intake(a) PROVE Turns'
  BY <1>3, <1>4, IntakeTurns
<1>5. CASE Handles
  BY <1>3, <1>5, HandlesTurns
<1>6. ASSUME NEW j \in Jobs, AgentStops(j) \/ Claim(j) \/ Refresh(j) \/ Expire(j) PROVE Turns'
  BY <1>3, <1>6, OtherTurns
<1>7. CASE Crash \/ (\E c \in Commits : Push(c)) \/ (\E s \in Standings : Reclassify(s))
           \/ UNCHANGED vars
  <2>1. wjob \in Jobs
    BY <1>3 DEF Typed
  <2> QED
    BY <1>3, <1>7, <2>1, OtherTurns
<1> QED
  BY <1>4, <1>5, <1>6, <1>7 DEF Next, Step

\* pr_validation.accept and Store.supersede_validation: with one operator at most
\* to request validations, and while he and the worker take turns, the pull
\* request has one open validation at most, whatever is pushed, returned to,
\* superseded or lost in between.
THEOREM OnlyOneOpen == ASSUME OneRequest PROVE Spec => []OneOpenValidation
<1>1. Init => IInv
  BY InitIInv
<1>2. IInv /\ [Next]_vars => IInv'
  BY StepTurns
<1>3. IInv => OneOpenValidation
  BY DEF IInv, Turns, Open, OneOpenValidation, Rows
<1> QED
  BY <1>1, <1>2, <1>3, PTL DEF Spec

\* pr_validation.accept, "Never abandon a paid/uncertain validator": while the
\* operator and the worker take turns, no validator that runs, is being started
\* or waits for an operator is superseded under its working agent, the step with
\* which a request first overlaps a task of the worker included.
THEOREM LiveKept == ASSUME OneRequest PROVE Spec => LiveNotAbandoned
<1>1. Init => IInv
  BY InitIInv
<1>2. IInv /\ [Next]_vars => IInv'
  BY StepTurns
<1>3. IInv /\ [Next]_vars
        => [\A j \in Jobs : state[j] \in Live /\ state'[j] = "stale"
                              => ~working[j] \/ overlapped]_vars
  BY NoneAbandoned DEF IInv
<1> QED
  BY <1>1, <1>2, <1>3, PTL DEF Spec, LiveNotAbandoned

-----------------------------------------------------------------------------
(* Types, for any number of operators.                                     *)

\* The table of the ledger: rows are about a revision and told apart by their keys.
Ledger ==
  /\ state \in [Jobs -> States] /\ sha \in [Jobs -> Commits \cup {None}]
  /\ key = [j \in Jobs |-> key[j]] /\ tracked \in [Jobs -> BOOLEAN]
  /\ \A j \in Jobs : sha[j] = None <=> state[j] = "absent"
  /\ \A i, j \in Rows : key[i] = key[j] => i = j

\* The worker handles a row that was inserted, and an intake that writes read a head.
Handled ==
  /\ wpc \notin {"idle", "intake"} => wjob \in Rows
  /\ seen \in Commits \cup {None}
  /\ \A a \in Actors : intake[a].pc \in {"supersede", "key", "enqueue"} => intake[a].sha \in Commits

Around ==
  /\ head \in Commits /\ standing \in Standings
  /\ moves \in Nat /\ crashes \in Nat /\ overlapped \in BOOLEAN

TInv == Ledger /\ Typed /\ Shaped /\ Hosts /\ Handled /\ Around

LEMMA InitTInv == Init => TInv
<1> SUFFICES ASSUME Init PROVE TInv
  OBVIOUS
<1>1. Typed /\ Shaped /\ Hosts
  BY InitIInv DEF IInv
<1>2. Rows = {}
  BY DEF Init, Rows
<1>3. Ledger
  BY <1>2 DEF Init, Ledger, States
<1>4. Handled /\ Around
  BY DEF Init, Handled, Around, Idle
<1> QED
  BY <1>1, <1>3, <1>4 DEF TInv

LEMMA SameLedger == ASSUME Ledger, UNCHANGED <<state, sha, key, tracked>> PROVE Ledger' /\ Rows' = Rows
BY DEF Ledger, Rows

\* A row that exists gets a new state.
LEMMA WrittenLedger ==
  ASSUME Ledger, NEW j \in Rows, NEW s \in States \ {"absent"},
         state' = [state EXCEPT ![j] = s], UNCHANGED <<sha, key, tracked>>
  PROVE  Ledger' /\ Rows' = Rows
<1>1. Rows' = Rows
  BY DEF Ledger, Rows
<1> QED
  BY <1>1 DEF Ledger, Rows

\* INSERT ... ON CONFLICT DO NOTHING keeps keys apart.
LEMMA InsertedLedger ==
  ASSUME Ledger, NEW st \in [Jobs -> States], \A j \in Jobs : st[j] = "absent" <=> state[j] = "absent",
         NEW k, NEW c \in Commits, NEW t \in BOOLEAN, Insert(st, k, c, t)
  PROVE  Ledger' /\ Rows \subseteq Rows'
<1>1. CASE Present(k)
  <2>1. state' = st /\ UNCHANGED <<sha, key, tracked>>
    BY <1>1 DEF Insert
  <2>2. Rows' = Rows
    BY <2>1 DEF Rows
  <2> QED
    BY <2>1, <2>2 DEF Ledger
<1>2. CASE ~Present(k)
  <2>1. PICK n \in Jobs : /\ state[n] = "absent"
                          /\ state' = [st EXCEPT ![n] = "queued"] /\ sha' = [sha EXCEPT ![n] = c]
                          /\ key' = [key EXCEPT ![n] = k] /\ tracked' = [tracked EXCEPT ![n] = t]
    <3>1. Jobs # Rows
      BY <1>2 DEF Insert
    <3> QED
      BY <1>2, <3>1, NewRow DEF Insert
  <2>2. Rows' = Rows \cup {n} /\ n \notin Rows /\ Rows \subseteq Jobs
    BY <2>1 DEF Rows
  <2>3. "queued" \in States
    BY DEF States
  <2>4. /\ state' \in [Jobs -> States] /\ sha' \in [Jobs -> Commits \cup {None}]
        /\ key' = [j \in Jobs |-> key'[j]] /\ tracked' \in [Jobs -> BOOLEAN]
    BY <2>1, <2>3 DEF Ledger
  <2>5. \A j \in Jobs : sha'[j] = None <=> state'[j] = "absent"
    BY <2>1, NoneAssumption DEF Ledger
  <2>6. \A i, j \in Rows' : key'[i] = key'[j] => i = j
    <3>1. key'[n] = k /\ \A j \in Rows : key'[j] = key[j] /\ key[j] # k
      BY <1>2, <2>1, <2>2 DEF Ledger, Present
    <3> QED
      BY <2>2, <3>1 DEF Ledger
  <2> QED
    BY <2>2, <2>4, <2>5, <2>6 DEF Ledger
<1> QED
  BY <1>1, <1>2

LEMMA SupersededLedger ==
  ASSUME Ledger, NEW j \in Jobs, NEW c \in Commits \cup {None}, Supersede(j, c)
  PROVE  Ledger' /\ Rows \subseteq Rows'
<1> DEFINE st == [state EXCEPT ![j] = "stale"]
<1>1. CASE UNCHANGED <<state, sha, key, tracked>>
  BY <1>1, SameLedger
<1>2. CASE state[j] # "absent" /\ state' = st /\ UNCHANGED <<sha, key, tracked>>
  BY <1>2, WrittenLedger DEF Rows, States
<1>3. CASE state[j] # "absent" /\ c \in Commits /\ Insert(st, ReplacementKey(j, c), c, tracked[j])
  <2>1. st \in [Jobs -> States] /\ tracked[j] \in BOOLEAN
    BY DEF Ledger, States
  <2>2. \A i \in Jobs : st[i] = "absent" <=> state[i] = "absent"
    BY <1>3 DEF Ledger
  <2> HIDE DEF st
  <2> QED
    BY <1>3, <2>1, <2>2, InsertedLedger
<1> QED
  BY <1>1, <1>2, <1>3 DEF Supersede

\* The worker writes the row it handles or leaves the table alone.
LEMMA HandlesLedger ==
  ASSUME TInv, Handles
  PROVE  Ledger' /\ Rows \subseteq Rows'
<1>0. Ledger /\ wpc \notin {"idle", "intake"} /\ wjob \in Rows /\ wjob \in Jobs /\ seen \in Commits \cup {None}
  BY DEF Handles, Outdated, Dispatch, Start, Create, Record, Poll, Finish, Collect,
         Recheck, Commit, RefreshRead, TInv, Typed, Handled
<1> DEFINE Kinds == States \ {"absent"}
<1>1. ASSUME Fails PROVE \E s \in Kinds : state' = [state EXCEPT ![wjob] = s]
  BY <1>1 DEF Fails, FailedState, States, Live, Outcomes
<1>2. Fails => UNCHANGED <<sha, key, tracked>>
  BY DEF Fails
<1>3. CASE \/ UNCHANGED <<state, sha, key, tracked>>
           \/ UNCHANGED <<sha, key, tracked>> /\ \E s \in Kinds : state' = [state EXCEPT ![wjob] = s]
  BY <1>0, <1>3, SameLedger, WrittenLedger
<1>4. CASE Outdated
  BY <1>0, <1>4, SupersededLedger DEF Outdated
<1>5. CASE Start \/ Record
  BY <1>3, <1>5 DEF Start, Record, States, Live
<1>6. CASE Create
  BY <1>1, <1>2, <1>3, <1>6 DEF Create, rows, States, Live
<1>7. CASE Poll
  BY <1>1, <1>2, <1>3, <1>7 DEF Poll, rows, States, Live
<1>8. CASE Dispatch \/ Finish \/ Collect \/ Recheck \/ RefreshRead
  BY <1>1, <1>2, <1>3, <1>8 DEF Dispatch, Finish, Collect, Recheck, RefreshRead, Reads, rows
<1>9. CASE Commit
  BY <1>3, <1>9 DEF Commit, States, Live, Outcomes
<1> QED
  BY <1>4, <1>5, <1>6, <1>7, <1>8, <1>9 DEF Handles

LEMMA IntakeLedger ==
  ASSUME TInv, NEW a \in Actors, Intake(a)
  PROVE  Ledger' /\ Rows \subseteq Rows'
<1>0. Ledger /\ Fits(intake[a]) /\ state \in [Jobs -> States]
  BY DEF TInv, Shaped, Ledger
<1>1. CASE UNCHANGED <<state, sha, key, tracked>>
  BY <1>0, <1>1, SameLedger
<1>2. CASE AcceptSupersede(a)
  <2>1. CASE \E j \in intake[a].todo : Supersede(j, None)
    BY <1>0, <2>1, SupersededLedger DEF Fits
  <2> QED
    BY <1>1, <1>2, <2>1 DEF AcceptSupersede, rows
<1>3. CASE AcceptEnqueue(a)
  <2>1. intake[a].sha \in Commits /\ (intake[a].snap # {}) \in BOOLEAN
    BY <1>3 DEF AcceptEnqueue, At, TInv, Handled
  <2> DEFINE t == intake[a].snap # {}
             c == intake[a].sha
             k == intake[a].key
  <2>2. Insert(state, k, c, t) /\ c \in Commits /\ t \in BOOLEAN
    BY <1>3, <2>1 DEF AcceptEnqueue
  <2> HIDE DEF t, c, k
  <2> QED
    BY <1>0, <2>2, InsertedLedger
<1> QED
  BY <1>1, <1>2, <1>3
  DEF Intake, AcceptStart, AcceptRead, AcceptFails, AcceptKey, RequestDies, rows

\* No row ever leaves the table.
LEMMA StepLedger ==
  ASSUME TInv, [Next]_vars
  PROVE  Ledger' /\ Rows \subseteq Rows'
<1>0. Ledger /\ \A j \in Jobs : state[j] # "absent" <=> j \in Rows
  BY DEF TInv, Rows
<1>1. CASE UNCHANGED <<state, sha, key, tracked>>
  BY <1>0, <1>1, SameLedger
<1>2. CASE Handles
  BY <1>2, HandlesLedger
<1>3. CASE \E a \in Actors : Intake(a)
  BY <1>3, IntakeLedger
<1>4. ASSUME NEW j \in Jobs, AgentStops(j) \/ Refresh(j) PROVE UNCHANGED <<state, sha, key, tracked>>
  BY <1>4 DEF AgentStops, Refresh, rows
<1>5. ASSUME NEW j \in Jobs, Claim(j) \/ Expire(j) PROVE Ledger' /\ Rows \subseteq Rows'
  <2>1. \/ UNCHANGED <<state, sha, key, tracked>>
        \/ /\ j \in Rows /\ UNCHANGED <<sha, key, tracked>>
           /\ \E s \in {"dispatching", "unknown_effect"} : state' = [state EXCEPT ![j] = s]
    BY <1>0, <1>5 DEF Claim, Expire
  <2>2. {"dispatching", "unknown_effect"} \subseteq States \ {"absent"}
    BY DEF States, Live
  <2> QED
    BY <1>0, <1>1, <2>1, <2>2, WrittenLedger
<1>6. CASE Crash \/ (\E c \in Commits : Push(c)) \/ (\E s \in Standings : Reclassify(s)) \/ UNCHANGED vars
  BY <1>1, <1>6 DEF Crash, Push, Reclassify, vars, system, rows
<1> QED
  BY <1>1, <1>2, <1>3, <1>4, <1>5, <1>6 DEF Next, Step

LEMMA StepAround == ASSUME TInv, [Next]_vars PROVE Around'
<1> USE DEF TInv, Around
<1>1. CASE UNCHANGED <<github, crashes>> /\ overlapped' \in BOOLEAN
  BY <1>1 DEF github
<1>2. overlapped' \in BOOLEAN
  <2>1. CASE Next
    BY <2>1, Zenon DEF Next
  <2>2. CASE UNCHANGED vars
    BY <2>2 DEF vars
  <2> QED
    BY <2>1, <2>2
<1>3. CASE \E a \in Actors : Intake(a)
  BY <1>1, <1>2, <1>3
  DEF Intake, AcceptStart, AcceptRead, AcceptFails, AcceptSupersede, AcceptKey, AcceptEnqueue, RequestDies
<1>4. CASE Handles
  <2>1. UNCHANGED <<github, crashes>>
    BY <1>4 DEF Handles, Outdated, Dispatch, Start, Create, Record, Poll, Finish, Collect,
                Recheck, Commit, RefreshRead, Reads, Fails, Stays
  <2> QED
    BY <1>1, <1>2, <2>1
<1>5. ASSUME NEW j \in Jobs, AgentStops(j) \/ Claim(j) \/ Refresh(j) \/ Expire(j) PROVE Around'
  BY <1>1, <1>2, <1>5 DEF AgentStops, Claim, Refresh, Expire, Stays
<1>6. CASE \E c \in Commits : Push(c)
  BY <1>2, <1>6 DEF Push
<1>7. CASE \E s \in Standings : Reclassify(s)
  BY <1>2, <1>7 DEF Reclassify
<1>8. CASE Crash
  BY <1>2, <1>8 DEF Crash, github
<1>9. CASE UNCHANGED vars
  BY <1>1, <1>2, <1>9 DEF vars, system
<1> QED
  BY <1>3, <1>4, <1>5, <1>6, <1>7, <1>8, <1>9 DEF Next, Step

\* What the worker and the intakes hold.
LEMMA StepHandled == ASSUME TInv, Rows \subseteq Rows', [Next]_vars PROVE Handled'
<1>0. /\ wpc \notin {"idle", "intake"} => wjob \in Rows
      /\ seen \in Commits \cup {None} /\ head \in Commits
      /\ \A a \in Actors : intake[a].pc \in {"supersede", "key", "enqueue"} => intake[a].sha \in Commits
      /\ wpc = "intake" <=> intake["worker"].pc # "idle"
      /\ "worker" \in Actors
  BY DEF TInv, Handled, Around, Shaped, At, Actors
<1>1. CASE UNCHANGED <<intake, seen>> /\ (wpc' \notin {"idle", "intake"} => wjob' \in Rows)
  BY <1>0, <1>1 DEF Handled
<1>2. ASSUME NEW a \in Actors, Intake(a) PROVE Handled'
  <2>1. UNCHANGED <<wjob, seen>>
    BY <1>2 DEF Intake, AcceptStart, AcceptRead, AcceptFails, AcceptSupersede, AcceptKey,
                AcceptEnqueue, RequestDies
  <2>2. PICK r : Goes(a, r) /\ (r.pc \in {"supersede", "key", "enqueue"} => r.sha \in Commits)
    <3>1. CASE AcceptStart(a)
      <4> DEFINE S == {<<j, state[j]>> : j \in Rows}
      <4>1. Goes(a, [Idle EXCEPT !.pc = "read", !.snap = S])
        BY <3>1 DEF AcceptStart
      <4> HIDE DEF S
      <4>2. [Idle EXCEPT !.pc = "read", !.snap = S].pc = "read"
        BY DEF Idle
      <4> QED
        BY <4>1, <4>2
    <3>2. CASE AcceptRead(a)
      <4> DEFINE T == {p[1] : p \in {q \in intake[a].snap : q[2] # "stale"}}
      <4> HIDE DEF T
      <4>1. Goes(a, Idle) \/ Goes(a, [intake[a] EXCEPT !.pc = "supersede", !.sha = head, !.todo = T])
        BY <3>2 DEF AcceptRead, T
      <4>2. Fits(intake[a])
        BY DEF TInv, Shaped
      <4>3. [intake[a] EXCEPT !.pc = "supersede", !.sha = head, !.todo = T].sha = head
        BY <4>2 DEF Fits
      <4>4. Idle.pc = "idle"
        BY DEF Idle
      <4> QED
        BY <1>0, <4>1, <4>3, <4>4
    <3>3. CASE AcceptSupersede(a) \/ AcceptKey(a)
      <4>1. PICK r : Goes(a, r) /\ r.sha = intake[a].sha
        <5>1. Fits(intake[a])
          BY DEF TInv, Shaped
        <5>2. ASSUME NEW j PROVE [intake[a] EXCEPT !.todo = @ \ {j}].sha = intake[a].sha
          BY <5>1 DEF Fits
        <5>3. [intake[a] EXCEPT !.pc = "key"].sha = intake[a].sha
          BY <5>1 DEF Fits
        <5>4. ASSUME NEW k PROVE [intake[a] EXCEPT !.pc = "enqueue", !.key = k].sha = intake[a].sha
          BY <5>1 DEF Fits
        <5>5. ASSUME NEW j, Goes(a, [intake[a] EXCEPT !.todo = @ \ {j}])
              PROVE  \E r : Goes(a, r) /\ r.sha = intake[a].sha
          BY <5>2, <5>5
        <5>6. CASE AcceptSupersede(a)
          BY <5>3, <5>5, <5>6 DEF AcceptSupersede
        <5>7. CASE AcceptKey(a)
          BY <5>4, <5>7 DEF AcceptKey
        <5> QED
          BY <3>3, <5>6, <5>7
      <4>2. intake[a].pc \in {"supersede", "key"}
        BY <3>3 DEF AcceptSupersede, AcceptKey, At
      <4> QED
        BY <1>0, <4>1, <4>2
    <3>4. CASE AcceptFails(a) \/ AcceptEnqueue(a) \/ RequestDies(a)
      BY <3>4 DEF AcceptFails, AcceptEnqueue, RequestDies, Idle
    <3> QED
      BY <1>2, <3>1, <3>2, <3>3, <3>4 DEF Intake
  <2>3. intake'[a] = r /\ \A b \in Actors \ {a} : intake'[b] = intake[b]
    BY <2>2, Went DEF TInv
  <2>4. wpc' = wpc \/ wpc' \in {"idle", "intake"}
    BY <2>2 DEF Goes
  <2> QED
    BY <1>0, <2>1, <2>2, <2>3, <2>4 DEF Handled
<1>3. CASE Handles
  <2>1. wpc \notin {"idle", "intake"}
    BY <1>3 DEF Handles, Outdated, Dispatch, Start, Create, Record, Poll, Finish, Collect,
                Recheck, Commit, RefreshRead
  <2>2. UNCHANGED <<intake, wjob>> /\ (seen' = seen \/ seen' = Observed(wjob))
    BY <1>3 DEF Handles, Outdated, Dispatch, Start, Create, Record, Poll, Finish, Collect,
                Recheck, Commit, RefreshRead, Reads, Fails, Goto, Stays
  <2>3. seen' \in Commits \cup {None}
    BY <1>0, <2>2 DEF Observed
  <2> QED
    BY <1>0, <2>1, <2>2, <2>3 DEF Handled
<1>4. ASSUME NEW j \in Jobs, AgentStops(j) \/ Claim(j) \/ Refresh(j) \/ Expire(j) PROVE Handled'
  BY <1>0, <1>1, <1>4 DEF AgentStops, Claim, Refresh, Expire, Stays, worker, Rows, Outcomes
<1>5. CASE Crash
  <2>1. UNCHANGED seen /\ wpc' = "idle"
    BY <1>5 DEF Crash, Goto
  <2>2. \A a \in Actors : intake'[a] = intake[a] \/ intake'[a].pc = "idle"
    BY <1>5 DEF Crash, TInv, Shaped, Idle
  <2> QED
    BY <1>0, <2>1, <2>2 DEF Handled
<1>6. CASE (\E c \in Commits : Push(c)) \/ (\E s \in Standings : Reclassify(s)) \/ UNCHANGED vars
  BY <1>0, <1>1, <1>6 DEF Push, Reclassify, vars, system, worker
<1> QED
  BY <1>2, <1>3, <1>4, <1>5, <1>6 DEF Next, Step

LEMMA NextTInv == TInv /\ [Next]_vars => TInv'
<1> SUFFICES ASSUME TInv, [Next]_vars PROVE TInv'
  OBVIOUS
<1>1. Typed' /\ Shaped' /\ Hosts'
  BY StepKeeps, StepShaped, StepHosts DEF TInv, Keeps
<1>2. Ledger' /\ Rows \subseteq Rows'
  BY StepLedger
<1> QED
  BY <1>1, <1>2, StepHandled, StepAround DEF TInv

\* Whatever operators, pushes and worker deaths come between the transactions of an
\* intake, the rows of the table stay told apart by their keys, each is about a
\* revision, and the worker handles a row that was inserted: a write that does not
\* look at the state of its row never makes one up.
THEOREM TypeCorrect == Spec => []TypeOK
<1>1. TInv => TypeOK
  <2> SUFFICES ASSUME TInv PROVE TypeOK
    OBVIOUS
  <2>1. \A a \in Actors : /\ intake[a].pc \in IntakeSteps
                          /\ intake[a].snap \subseteq Jobs \X States
                          /\ intake[a].todo \subseteq Jobs
    BY DEF TInv, Shaped, Fits
  <2>2. \A j \in Jobs : sha[j] = None <=> j \notin Rows
    BY DEF TInv, Ledger, Rows
  <2> QED
    BY <2>1, <2>2 DEF TInv, TypeOK, Ledger, Typed, Shaped, Hosts, Handled, Around
<1> QED
  BY <1>1, InitTInv, NextTInv, PTL DEF Spec
=============================================================================
