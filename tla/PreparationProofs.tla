-------------------------- MODULE PreparationProofs --------------------------
(***************************************************************************)
(* Proofs about the preparation of a bot's pull request, for any number of *)
(* rows, revisions, deliveries, pushes and worker deaths.                  *)
(***************************************************************************)
EXTENDS Preparation, FiniteSetTheorems, WellFoundedInduction, TLAPS

\* Which rows may own a session: a preparation that has none in the queue's way
\* has none at all.
Sessions ==
  \A j \in Jobs :
    /\ state[j] \in {"absent", "queued"} => agent[j] = "none"
    /\ state[j] = "running" => session[j]
    /\ state[j] = "dead_letter" /\ ~session[j] => agent[j] = "none"
    /\ kind[j] = "dependency" /\ state[j] = "stale" => agent[j] = "none"
    /\ kind[j] = "dependency" => state[j] \notin {"review_ready", "settled"}

\* What each step of the worker may rely on about the row in hand.
Places ==
  /\ wpc \in {"preflight", "create"} => state[wjob] = "dispatching" /\ agent[wjob] = "none"
  /\ wpc = "started" => state[wjob] = "dispatching" /\ agent[wjob] # "none"
  /\ wpc \in {"poll", "finish", "commit"} => state[wjob] = "running"
  /\ wpc = "outdated" => \/ state[wjob] = "dispatching" /\ agent[wjob] = "none"
                         \/ kind[wjob] = "validation" /\ state[wjob] \in {"running", "review_ready"}
  /\ wpc = "supersede" => kind[wjob] = "validation" /\ state[wjob] # "absent"
  /\ wpc \in {"accept", "supersede", "revalidate", "prepare"} => saw \in Commits
  /\ wpc = "commit" /\ kind[wjob] = "dependency" => saw \in Commits
  /\ wpc \in {"delivery", "record"} => wdel \in Deliveries

\* While the worker is about to prepare, nothing is validated and nothing active.
Quiet ==
  wpc = "prepare" => /\ \A j \in Jobs : state[j] # "absent" => kind[j] = "dependency"
                     /\ replayed \/ \A j \in Jobs : state[j] \notin Active

\* What is prepared is validated.
Followed ==
  \A i \in Jobs : state[i] = "prepared" =>
    \E j \in Jobs : state[j] # "absent" /\ kind[j] = "validation"

\* A preparation is under way alone, and never after another one.
Alone ==
  replayed \/ \A i, j \in Jobs :
    kind[i] = "dependency" /\ kind[j] = "dependency" /\ state[i] \in Active
      /\ state[j] \in Active \cup {"prepared"} => i = j

\* A dispatch found no abandoned session in the queue.
Clear ==
  wpc \in {"preflight", "create"} =>
    \A i \in Jobs : i # wjob => ~(session[i] /\ state[i] = "dead_letter")

IInv == TypeOK /\ Sessions /\ Places /\ Quiet /\ Followed /\ Alone /\ Clear /\ PreparedOnce

LEMMA InitIInv == Init => IInv
<1> SUFFICES ASSUME Init PROVE IInv
  OBVIOUS
<1>1. 1 \in Jobs /\ 0 \in 0..MaxMoves /\ 0 \in 0..MaxFaults
  BY BoundsAssumption DEF Jobs
<1>2. Rows = {}
  BY DEF Init, Rows
<1>3. TypeOK
  BY <1>1, <1>2, CommitsAssumption DEF Init, TypeOK, RowsOK, States, Boxes, Steps
<1>4. Sessions /\ Places /\ Quiet /\ Followed /\ Alone /\ Clear /\ PreparedOnce
  BY <1>2 DEF Init, Sessions, Places, Quiet, Followed, Alone, Clear, PreparedOnce, Paid, Of, Active
<1> QED
  BY <1>3, <1>4 DEF IInv


LEMMA FaultBounded ==
  ASSUME IInv, Fault \/ UNCHANGED faults
  PROVE  faults' \in 0..MaxFaults
<1> SUFFICES ASSUME Fault PROVE faults' \in 0..MaxFaults
  BY DEF IInv, TypeOK
<1>1. faults \in 0..MaxFaults /\ faults < MaxFaults /\ faults' = faults + 1
  BY DEF IInv, TypeOK, Fault
<1> QED
  BY <1>1, BoundsAssumption

\* Nothing the invariant says of the rows depends on more than this.
LEMMA SameRows ==
  ASSUME IInv, UNCHANGED <<rows, replayed>>,
         agent' \in [Jobs -> {"none", "working", "done"}],
         \A j \in Jobs : agent'[j] = "none" <=> agent[j] = "none"
  PROVE  RowsOK' /\ Sessions' /\ Followed' /\ Alone' /\ PreparedOnce'
<1>1. UNCHANGED <<kind, state, sha, key, session, Rows, replayed>>
  BY DEF rows, Rows
<1>2. RowsOK'
  BY <1>1 DEF IInv, TypeOK, RowsOK
<1>3. Sessions' /\ Followed' /\ Alone'
  BY <1>1 DEF IInv, Sessions, Followed, Alone
<1>4. PreparedOnce'
  BY <1>1 DEF IInv, PreparedOnce, Paid, Of, Rows
<1> QED
  BY <1>2, <1>3, <1>4

\* GitHub and the agents leave rows and worker alone.
LEMMA WorldStep == ASSUME IInv, World PROVE IInv'
<1>1. /\ UNCHANGED <<rows, worker, past, recorded>>
      /\ head' \in Commits /\ open' \in BOOLEAN /\ moves' \in 0..MaxMoves
      /\ inbox' \in [Deliveries -> Boxes] /\ event' \in [Deliveries -> Commits \cup {None}]
      /\ handoff' \in [Jobs -> Commits \cup {None}]
      /\ agent' \in [Jobs -> {"none", "working", "done"}]
      /\ \A j \in Jobs : agent'[j] = "none" <=> agent[j] = "none"
  <2> USE DEF IInv, TypeOK
  <2>1. CASE Reclassify \/ \E c \in Commits : Push(c)
    <3>1. moves' = moves + 1 /\ moves < MaxMoves /\ moves \in 0..MaxMoves
      BY <2>1 DEF Reclassify, Push, Move
    <3>2. moves' \in 0..MaxMoves
      BY <3>1, BoundsAssumption
    <3> QED
      BY <2>1, <3>2 DEF Reclassify, Push, Move, agents, mail
  <2>2. CASE \E j \in Rows : AgentEnds(j)
    BY <2>2 DEF AgentEnds, Rows, github, mail
  <2>3. CASE \E d \in Deliveries : Arrive(d)
    BY <2>3 DEF Arrive, Boxes, agents, github
  <2> QED
    BY <2>1, <2>2, <2>3 DEF World
<1>2. RowsOK' /\ Sessions' /\ Followed' /\ Alone' /\ PreparedOnce'
  BY <1>1, SameRows DEF past
<1>3. TypeOK'
  BY <1>1, <1>2 DEF IInv, TypeOK, worker, past
<1>4. Places' /\ Quiet' /\ Clear'
  BY <1>1 DEF IInv, TypeOK, Places, Quiet, Clear, rows, worker, past
<1> QED
  BY <1>2, <1>3, <1>4 DEF IInv

\* A step that only moves the worker on, or changes the inbox.
LEMMA MovesOn ==
  ASSUME IInv, NEW step \in Steps, NEW j \in Jobs, NEW d \in Deliveries \cup {"poll"},
         NEW c \in Commits \cup {None},
         At(step, j, d, c), UNCHANGED <<rows, agents, github, replayed>>, Fault \/ UNCHANGED faults,
         inbox' \in [Deliveries -> Boxes], UNCHANGED event, recorded' \subseteq Deliveries,
         step \notin {"preflight", "started", "supersede", "prepare"},
         step = "create" => wpc = "preflight" /\ j = wjob,
         step \in {"poll", "finish", "commit"} => state[j] = "running",
         step = "outdated" => \/ state[j] = "dispatching" /\ agent[j] = "none"
                              \/ kind[j] = "validation" /\ state[j] \in {"running", "review_ready"},
         step \in {"accept", "revalidate"} => c \in Commits,
         step = "commit" /\ kind[j] = "dependency" => c \in Commits,
         step \in {"delivery", "record"} => d \in Deliveries
  PROVE  IInv'
<1>1. RowsOK' /\ Sessions' /\ Followed' /\ Alone' /\ PreparedOnce'
  BY SameRows DEF IInv, TypeOK, agents
<1>2. /\ wpc' = step /\ wjob' \in Jobs /\ wdel' \in Deliveries \cup {"poll"} /\ saw' \in Commits \cup {None}
      /\ step # "idle" => wjob' = j /\ wdel' = d /\ saw' = c
  BY BoundsAssumption DEF At, Jobs
<1>3. TypeOK'
  BY <1>1, <1>2, FaultBounded DEF IInv, TypeOK, agents, github
<1>4. Places'
  BY <1>2 DEF IInv, Places, rows, agents
<1>5. Quiet' /\ Clear'
  BY <1>2 DEF IInv, Quiet, Clear, rows
<1> QED
  BY <1>1, <1>3, <1>4, <1>5 DEF IInv

LEMMA StartIsFine ==
  /\ 1 \in Jobs /\ "poll" \in Deliveries \cup {"poll"} /\ None \in Commits \cup {None}
  /\ "idle" \in Steps
  BY BoundsAssumption DEF Jobs, Steps

\* The steps of the worker that rewrite no row.
LEMMA ReadStep ==
  ASSUME IInv, \/ Delivery \/ Poll \/ AcceptRead \/ AcceptFails \/ Record \/ Close \/ Crash
               \/ \E d \in Deliveries : Take(d)
               \/ \E j \in Rows : Refresh(j)
               \/ \E j \in Rows : Claim(j) /\ state[j] = "running"
               \/ Preflight
  PROVE  IInv'
<1> USE DEF Kept, past, mail, Goto
<1>0. /\ wjob \in Jobs /\ wdel \in Deliveries \cup {"poll"} /\ saw \in Commits \cup {None}
      /\ head \in Commits /\ recorded \subseteq Deliveries /\ inbox \in [Deliveries -> Boxes]
  BY DEF IInv, TypeOK
<1>1. CASE Delivery
  BY <1>0, <1>1, MovesOn DEF Delivery, Steps, IInv, Places
<1>2. CASE Poll
  BY <1>0, <1>2, MovesOn DEF Poll, Steps
<1>3. CASE AcceptRead
  BY <1>0, <1>3, MovesOn DEF AcceptRead, Steps
<1>4. CASE AcceptFails
  <2>1. PICK step \in {"idle", "pending", "dead_letter"} : Goto(step)
    BY <1>4 DEF AcceptFails
  <2>2. step \in Steps
    BY DEF Steps
  <2> QED
    BY <1>0, <1>4, <2>1, <2>2, MovesOn DEF AcceptFails, Fault
<1>5. CASE Record
  BY <1>0, <1>5, MovesOn DEF Record, Steps, IInv, Places
<1>6. CASE Close
  <2>1. inbox' \in [Deliveries -> Boxes]
    BY <1>0, <1>6 DEF Close, Boxes
  <2> QED
    BY <1>0, <1>6, <2>1, MovesOn DEF Close, Steps
<1>7. CASE Crash
  BY <1>0, <1>7, MovesOn DEF Crash, Steps, Fault
<1>8. CASE \E d \in Deliveries : Take(d)
  <2>1. PICK d \in Deliveries : Take(d)
    BY <1>8
  <2>2. inbox' \in [Deliveries -> Boxes]
    BY <1>0, <2>1 DEF Take, Boxes
  <2> QED
    BY <1>0, <2>1, <2>2, MovesOn DEF Take, Steps
<1>9. CASE \E j \in Rows : Refresh(j)
  BY <1>0, <1>9, MovesOn DEF Refresh, Steps, Rows
<1>10. CASE \E j \in Rows : Claim(j) /\ state[j] = "running"
  BY <1>0, <1>10, MovesOn DEF Claim, Steps, Rows, rows
<1>11. CASE Preflight
  BY <1>0, <1>11, MovesOn DEF Preflight, Steps, IInv, Places
<1> QED
  BY <1>1, <1>2, <1>3, <1>4, <1>5, <1>6, <1>7, <1>8, <1>9, <1>10, <1>11

\* One row gets a new state.
LEMMA RowBecomes ==
  ASSUME IInv, NEW j \in Jobs, NEW s \in States \ {"absent"}, state[j] # "absent", Becomes(j, s),
         NEW q \in {FALSE, TRUE}, NEW a \in {"none", "working", "done"},
         session' = [session EXCEPT ![j] = q], agent' = [agent EXCEPT ![j] = a],
         replayed' \in BOOLEAN, replayed => replayed',
         q => a # "none",
         s = "queued" => a = "none",
         s = "running" => q,
         s = "dead_letter" /\ ~q => a = "none",
         kind[j] = "dependency" /\ s = "stale" => a = "none",
         kind[j] = "dependency" => s \notin {"review_ready", "settled"},
         s # "prepared",
         kind[j] = "dependency" /\ s \in Active => state[j] \in Active \/ replayed',
         a # "none" => agent[j] # "none" \/ kind[j] = "validation" \/ (state[j] = "dispatching" /\ wpc = "create" /\ wjob = j)
  PROVE  RowsOK' /\ Sessions' /\ Followed' /\ Alone' /\ PreparedOnce'
<1>1. /\ state' = [state EXCEPT ![j] = s] /\ UNCHANGED <<kind, sha, key>>
      /\ Rows' = Rows
  BY DEF Becomes, Rows, IInv, TypeOK, RowsOK
<1>2. RowsOK'
  BY <1>1 DEF IInv, TypeOK, RowsOK
<1>3. Sessions'
  BY <1>1 DEF IInv, TypeOK, RowsOK, Sessions
<1>4. Followed'
  BY <1>1 DEF IInv, TypeOK, RowsOK, Followed
<1>5. Alone'
  BY <1>1 DEF IInv, TypeOK, RowsOK, Alone, Active
<1>6. ASSUME a # "none", agent[j] = "none", kind[j] = "dependency", ~replayed,
             NEW i \in Paid, i # j
      PROVE  FALSE
  <2>1. state[j] = "dispatching" /\ wpc = "create" /\ wjob = j
    BY <1>6
  <2>2. i \in Jobs /\ kind[i] = "dependency" /\ agent[i] # "none"
    BY DEF Paid, Of, Rows
  <2>3. state[i] \in Active \cup {"prepared"} \/ (state[i] = "dead_letter" /\ session[i])
    BY <2>2 DEF IInv, TypeOK, RowsOK, Sessions, States
  <2>4. state[j] \in Active
    BY <2>1 DEF Active
  <2> QED
    BY <1>6, <2>1, <2>2, <2>3, <2>4 DEF IInv, Alone, Clear
<1>7. PreparedOnce'
  <2>1. Paid' \subseteq Paid \cup {j} /\ (kind[j] # "dependency" => Paid' \subseteq Paid)
        /\ (a = "none" \/ agent[j] # "none" => Paid' \subseteq Paid)
    BY <1>1 DEF Paid, Of, Rows, IInv, TypeOK
  <2> QED
    BY <1>6, <2>1 DEF IInv, PreparedOnce, TypeOK
<1> QED
  BY <1>2, <1>3, <1>4, <1>5, <1>7

\* The worker lets go of what it held.
LEMMA GoesIdle ==
  ASSUME IInv, RowsOK', Sessions', Followed', Alone', PreparedOnce', Goto("idle"),
         UNCHANGED <<handoff, mail, github>>, agent' \in [Jobs -> {"none", "working", "done"}],
         Fault \/ UNCHANGED faults, replayed' \in BOOLEAN
  PROVE  IInv'
<1>1. wpc' = "idle" /\ wjob' \in Jobs /\ wdel' \in Deliveries \cup {"poll"} /\ saw' \in Commits \cup {None}
  BY StartIsFine DEF Goto, At
<1>2. TypeOK'
  BY <1>1, FaultBounded, StartIsFine DEF IInv, TypeOK, mail, github
<1>3. Places' /\ Quiet' /\ Clear'
  BY <1>1 DEF Places, Quiet, Clear
<1> QED
  BY <1>2, <1>3 DEF IInv

\* A dispatch is claimed.
LEMMA ClaimStep ==
  ASSUME IInv, NEW j \in Rows, Claim(j), state[j] # "running"
  PROVE  IInv'
<1>1. /\ j \in Jobs /\ state[j] = "queued" /\ agent[j] = "none" /\ wpc = "idle"
      /\ ~session[j] /\ session \in [Jobs -> BOOLEAN] /\ agent \in [Jobs -> {"none", "working", "done"}]
      /\ wdel \in Deliveries \cup {"poll"} /\ replayed \in BOOLEAN
  BY DEF Claim, Rows, IInv, Sessions, TypeOK, RowsOK
<1>2. /\ Becomes(j, "dispatching") /\ wpc' = "preflight" /\ wjob' = j /\ wdel' = wdel /\ saw' = None
      /\ UNCHANGED <<session, agent, handoff, mail, github, faults, replayed>>
      /\ \A i \in Rows : ~Holds(i)
  BY <1>1 DEF Claim, At, Kept, agents, past
<1>3. session' = [session EXCEPT ![j] = FALSE] /\ agent' = [agent EXCEPT ![j] = "none"]
  BY <1>1, <1>2
<1>4. RowsOK' /\ Sessions' /\ Followed' /\ Alone' /\ PreparedOnce'
  <2>1. "dispatching" \in States \ {"absent"} /\ state[j] \in Active
    BY <1>1 DEF States, Active
  <2> QED
    BY <1>1, <1>2, <1>3, <2>1, RowBecomes
<1>5. TypeOK'
  BY <1>1, <1>2, <1>4, StartIsFine DEF IInv, TypeOK, Steps, mail, github
<1>6. Places' /\ Quiet'
  BY <1>1, <1>2 DEF Places, Quiet, Becomes, IInv, TypeOK, RowsOK
<1>7. Clear'
  BY <1>1, <1>2 DEF Clear, Becomes, Holds, Rows, IInv, TypeOK, RowsOK
<1> QED
  BY <1>4, <1>5, <1>6, <1>7 DEF IInv

\* A row the worker has in hand gets its next state, and the worker is done.
LEMMA OutcomeStep ==
  ASSUME IInv, \/ Fails \/ PollJob \/ FinishRead
               \/ Outdated /\ kind[wjob] = "dependency"
               \/ Commit /\ kind[wjob] = "validation"
  PROVE  IInv'
<1>0. /\ wjob \in Jobs /\ wdel \in Deliveries \cup {"poll"} /\ saw \in Commits \cup {None}
      /\ head \in Commits /\ session \in [Jobs -> BOOLEAN] /\ session[wjob] \in BOOLEAN
      /\ agent \in [Jobs -> {"none", "working", "done"}] /\ agent[wjob] \in {"none", "working", "done"}
      /\ replayed \in BOOLEAN /\ kind[wjob] \in {"dependency", "validation"}
      /\ (session[wjob] => agent[wjob] # "none")
  BY DEF IInv, TypeOK, RowsOK
<1>1. session = [session EXCEPT ![wjob] = session[wjob]] /\ agent = [agent EXCEPT ![wjob] = agent[wjob]]
  BY <1>0
<1> DEFINE Rewrites(s) ==
      /\ Becomes(wjob, s) /\ Goto("idle")
      /\ s \in States \ {"absent"}
      /\ s = "queued" => agent[wjob] = "none"
      /\ s = "running" => session[wjob]
      /\ s = "dead_letter" /\ ~session[wjob] => agent[wjob] = "none"
      /\ kind[wjob] = "dependency" /\ s = "stale" => agent[wjob] = "none"
      /\ kind[wjob] = "dependency" => s \notin {"review_ready", "settled"}
      /\ s # "prepared" /\ state[wjob] # "absent"
      /\ kind[wjob] = "dependency" /\ s \in Active => state[wjob] \in Active
<1>2. ASSUME NEW s, Rewrites(s), UNCHANGED <<session, agents, mail, github, replayed>>,
             Fault \/ UNCHANGED faults
      PROVE  IInv'
  <2>1. session' = [session EXCEPT ![wjob] = session[wjob]] /\ agent' = [agent EXCEPT ![wjob] = agent[wjob]]
    BY <1>1, <1>2 DEF agents
  <2>2. RowsOK' /\ Sessions' /\ Followed' /\ Alone' /\ PreparedOnce'
    BY <1>0, <1>2, <2>1, RowBecomes
  <2> QED
    BY <1>0, <1>2, <2>2, GoesIdle DEF agents
<1> HIDE DEF Rewrites
<1>3. CASE Fails
  <2>1. PICK s \in {IF session[wjob] THEN "running" ELSE "queued", "dead_letter"} : Becomes(wjob, s)
    BY <1>3 DEF Fails
  <2>2. \/ state[wjob] = "dispatching" /\ agent[wjob] = "none"
        \/ state[wjob] = "running" /\ session[wjob]
    BY <1>0, <1>3 DEF Fails, IInv, Places, Sessions
  <2>3. Rewrites(s)
    BY <1>0, <1>3, <2>1, <2>2 DEF Rewrites, Fails, States, Active
  <2> QED
    BY <1>2, <1>3, <2>3 DEF Fails, Fault
<1>4. CASE PollJob
  <2>0. state[wjob] = "running"
    BY <1>4 DEF PollJob, IInv, Places
  <2>1. CASE Becomes(wjob, "needs_attention") /\ Goto("idle")
    <3>1. Rewrites("needs_attention")
      BY <2>0, <2>1 DEF Rewrites, States, Active
    <3> QED
      BY <1>2, <1>4, <3>1 DEF PollJob, Kept, past
  <2>2. CASE UNCHANGED <<kind, state, sha, key>>
    <3>1. PICK step \in {"idle", "finish"} : Goto(step)
      BY <1>4, <2>2 DEF PollJob
    <3> QED
      BY <1>0, <1>4, <2>0, <2>2, <3>1, MovesOn DEF PollJob, Kept, past, mail, rows, Goto, Steps, IInv, TypeOK
  <2> QED
    BY <1>4, <2>1, <2>2 DEF PollJob
<1>5. CASE FinishRead
  <2>0. state[wjob] = "running" /\ session[wjob]
    BY <1>0, <1>5 DEF FinishRead, IInv, Places, Sessions
  <2>1. CASE Goto("idle") /\ Becomes(wjob, "dead_letter")
    <3>1. Rewrites("dead_letter")
      BY <2>0, <2>1 DEF Rewrites, States, Active
    <3> QED
      BY <1>2, <1>5, <3>1 DEF FinishRead, Kept, past
  <2>2. CASE UNCHANGED <<kind, state, sha, key>>
    <3>1. PICK step \in {"commit", "outdated"}, c \in Commits \cup {None} :
            /\ At(step, wjob, wdel, c)
            /\ step = "commit" /\ kind[wjob] = "dependency" => c \in Commits
            /\ step = "outdated" => kind[wjob] = "validation"
      BY <1>0, <1>5, <2>0, <2>2 DEF FinishRead, Goto, Becomes, IInv, TypeOK, RowsOK
    <3> QED
      BY <1>0, <1>5, <2>0, <2>2, <3>1, MovesOn DEF FinishRead, Kept, past, mail, rows, Steps, IInv, TypeOK
  <2> QED
    BY <1>5, <2>1, <2>2 DEF FinishRead
<1>6. CASE Outdated /\ kind[wjob] = "dependency"
  <2>1. state[wjob] = "dispatching" /\ agent[wjob] = "none"
    BY <1>6 DEF Outdated, IInv, Places
  <2>2. Rewrites("stale")
    BY <1>6, <2>1 DEF Outdated, Rewrites, States, Active
  <2> QED
    BY <1>2, <1>6, <2>2 DEF Outdated, Kept, past
<1>7. CASE Commit /\ kind[wjob] = "validation"
  <2>1. PICK s \in {"review_ready", "settled", "needs_attention"} : Becomes(wjob, s)
    BY <1>7 DEF Commit
  <2>2. Rewrites(s)
    BY <1>7, <2>1 DEF Rewrites, Commit, States, Active, IInv, Places
  <2> QED
    BY <1>2, <1>7, <2>2 DEF Commit, Kept, past
<1> QED
  BY <1>3, <1>4, <1>5, <1>6, <1>7

\* A dispatch reaches the provider, and its session is recorded.
LEMMA SessionStep ==
  ASSUME IInv, Create \/ Started
  PROVE  IInv'
<1>0. /\ wjob \in Jobs /\ session \in [Jobs -> BOOLEAN] /\ replayed \in BOOLEAN
      /\ agent \in [Jobs -> {"none", "working", "done"}] /\ agent[wjob] \in {"none", "working", "done"}
      /\ state[wjob] = "dispatching" /\ session[wjob] \in BOOLEAN
      /\ (session[wjob] => agent[wjob] # "none")
  BY DEF Create, Started, IInv, TypeOK, RowsOK, Places
<1>1. session = [session EXCEPT ![wjob] = session[wjob]]
  BY <1>0
<1>2. /\ \A s \in {"dispatching", "queued", "dead_letter", "unknown_effect", "running"} : s \in States \ {"absent"}
      /\ state[wjob] \in Active
  BY <1>0 DEF States, Active
<1>3. CASE Create
  <2>0. wpc = "create" /\ agent[wjob] = "none" /\ ~session[wjob]
    BY <1>0, <1>3 DEF Create, IInv, Places
  <2>1. /\ UNCHANGED <<session, handoff, mail, github, replayed>>
        /\ session' = [session EXCEPT ![wjob] = FALSE]
    BY <1>1, <1>3, <2>0 DEF Create, past, Fault
  <2>2. CASE /\ agent' = [agent EXCEPT ![wjob] = "working"] /\ Goto("started")
             /\ UNCHANGED <<kind, state, sha, key, past>>
    <3>1. state = [state EXCEPT ![wjob] = "dispatching"]
      BY <1>0 DEF IInv, TypeOK, RowsOK
    <3>2. Becomes(wjob, "dispatching")
      BY <2>2, <3>1 DEF Becomes
    <3>3. RowsOK' /\ Sessions' /\ Followed' /\ Alone' /\ PreparedOnce'
      <4>1. agent' = [agent EXCEPT ![wjob] = "working"]
        BY <2>2
      <4>2. state[wjob] # "absent" /\ "dispatching" \in States \ {"absent"} /\ "dispatching" \notin {"review_ready", "settled"}
        BY <1>0, <1>2
      <4> QED
        BY <1>0, <1>2, <2>0, <2>1, <3>2, <4>1, <4>2, RowBecomes
    <3>4. wpc' = "started" /\ UNCHANGED <<wjob, wdel, saw>>
      BY <2>2 DEF Goto, At
    <3>5. agent' \in [Jobs -> {"none", "working", "done"}] /\ agent'[wjob] # "none"
      BY <1>0, <2>2
    <3>6. TypeOK'
      BY <2>1, <2>2, <3>3, <3>4, <3>5 DEF IInv, TypeOK, mail, github, past, Steps
    <3>7. Places' /\ Quiet' /\ Clear'
      BY <1>0, <2>2, <3>4, <3>5 DEF Places, Quiet, Clear
    <3> QED
      BY <3>3, <3>6, <3>7 DEF IInv
  <2>3. CASE UNCHANGED agent /\ Goto("idle") /\ Fault /\ \E s \in {"queued", "dead_letter"} : Becomes(wjob, s)
    <3>1. agent' = [agent EXCEPT ![wjob] = "none"]
      BY <1>0, <2>0, <2>3
    <3>2. PICK s \in {"queued", "dead_letter"} : Becomes(wjob, s)
      BY <2>3
    <3>3. RowsOK' /\ Sessions' /\ Followed' /\ Alone' /\ PreparedOnce'
      BY <1>0, <1>2, <2>0, <2>1, <3>1, <3>2, RowBecomes
    <3> QED
      BY <1>0, <2>1, <2>3, <3>3, GoesIdle
  <2>4. CASE /\ \E a \in {"none", "working"} : agent' = [agent EXCEPT ![wjob] = a]
             /\ Becomes(wjob, "unknown_effect") /\ Goto("idle") /\ Fault
    <3>1. PICK a \in {"none", "working"} : agent' = [agent EXCEPT ![wjob] = a]
      BY <2>4
    <3>2. RowsOK' /\ Sessions' /\ Followed' /\ Alone' /\ PreparedOnce'
      BY <1>0, <1>2, <2>0, <2>1, <2>4, <3>1, RowBecomes
    <3>3. agent' \in [Jobs -> {"none", "working", "done"}]
      BY <1>0, <3>1
    <3> QED
      BY <1>0, <2>1, <2>4, <3>2, <3>3, GoesIdle
  <2> QED
    BY <1>3, <2>2, <2>3, <2>4 DEF Create
<1>4. CASE Started
  <2>1. /\ agent[wjob] # "none" /\ UNCHANGED <<agents, github, past, mail>> /\ Goto("idle")
        /\ Becomes(wjob, "running") /\ session' = [session EXCEPT ![wjob] = TRUE]
    BY <1>4 DEF Started, Kept, IInv, Places
  <2>2. agent' = [agent EXCEPT ![wjob] = agent[wjob]]
    BY <1>0, <2>1 DEF agents
  <2>3. UNCHANGED replayed
    BY <2>1 DEF past
  <2>4. RowsOK' /\ Sessions' /\ Followed' /\ Alone' /\ PreparedOnce'
    BY <1>0, <1>2, <2>1, <2>2, <2>3, RowBecomes
  <2> QED
    BY <1>0, <2>1, <2>4, GoesIdle DEF agents, past
<1> QED
  BY <1>3, <1>4

\* Time and operators rewrite rows the worker has not in hand.
LEMMA BesideStep ==
  ASSUME IInv, NEW j \in Rows, Expire(j) \/ Replay(j) \/ Reconcile(j) \/ Resume(j)
  PROVE  IInv'
<1>0. /\ j \in Jobs /\ session \in [Jobs -> BOOLEAN] /\ session[j] \in BOOLEAN /\ replayed \in BOOLEAN
      /\ agent \in [Jobs -> {"none", "working", "done"}] /\ agent[j] \in {"none", "working", "done"}
      /\ (session[j] => agent[j] # "none") /\ state[j] # "absent"
  BY DEF Rows, IInv, TypeOK, RowsOK
<1>1. session = [session EXCEPT ![j] = session[j]] /\ agent = [agent EXCEPT ![j] = agent[j]]
  BY <1>0
<1>2. PICK s \in {"unknown_effect", "running", "queued"},
           q \in {session[j], TRUE}, a \in {agent[j], "working"} :
        /\ Becomes(j, s) /\ session' = [session EXCEPT ![j] = q] /\ agent' = [agent EXCEPT ![j] = a]
        /\ (q => a # "none") /\ (s = "queued" => a = "none") /\ (s = "running" => q)
        /\ (a # "none" => agent[j] # "none")
        /\ state[j] \in {"dispatching", "dead_letter", "unknown_effect", "needs_attention"}
        /\ state[j] = "dispatching" => wpc = "idle"
        /\ state[j] = "dead_letter" => (replayed' = (replayed \/ kind[j] = "dependency"))
        /\ state[j] # "dead_letter" => UNCHANGED replayed
        /\ UNCHANGED <<handoff, mail, github, worker, faults>>
  <2>1. CASE Expire(j)
    BY <1>0, <1>1, <2>1 DEF Expire, Kept, agents, past
  <2>2. CASE Replay(j)
    <3>1. ~session[j] => agent[j] = "none"
      BY <1>0, <2>2 DEF Replay, IInv, Sessions
    <3> QED
      BY <1>0, <1>1, <2>2, <3>1 DEF Replay, Outside, agents
  <2>3. CASE Reconcile(j)
    BY <1>0, <1>1, <2>3 DEF Reconcile, Outside, agents
  <2>4. CASE Resume(j)
    BY <1>0, <1>1, <2>4 DEF Resume, Outside
  <2> QED
    BY <2>1, <2>2, <2>3, <2>4
<1>3. s \in States \ {"absent"} /\ s \in Active /\ q \in BOOLEAN /\ a \in {"none", "working", "done"}
      /\ replayed' \in BOOLEAN /\ (replayed => replayed')
      /\ (kind[j] = "dependency" => state[j] \in Active \/ replayed')
  <2>1. s \in States \ {"absent"} /\ s \in Active
    BY <1>2 DEF States, Active
  <2>2. state[j] # "dead_letter" => state[j] \in Active
    BY <1>2 DEF Active
  <2>3. CASE state[j] = "dead_letter"
    <3>1. replayed' = (replayed \/ kind[j] = "dependency")
      BY <1>2, <2>3
    <3>2. replayed' \in BOOLEAN /\ (replayed => replayed') /\ (kind[j] = "dependency" => replayed')
      BY <1>0, <3>1, Zenon
    <3> QED
      BY <1>0, <1>2, <2>1, <3>2
  <2>4. CASE state[j] # "dead_letter"
    <3>1. replayed' = replayed
      BY <1>2, <2>4
    <3>2. replayed' \in BOOLEAN /\ (replayed => replayed')
      BY <1>0, <3>1, Zenon
    <3> QED
      BY <1>0, <1>2, <2>1, <2>2, <2>4, <3>2
  <2> QED
    BY <2>3, <2>4
<1>4. RowsOK' /\ Sessions' /\ Followed' /\ Alone' /\ PreparedOnce'
  BY <1>0, <1>2, <1>3, RowBecomes
<1>5. /\ state' = [state EXCEPT ![j] = s] /\ UNCHANGED <<kind, wpc, wjob, wdel, saw>>
      /\ agent' \in [Jobs -> {"none", "working", "done"}]
  BY <1>0, <1>2, <1>3 DEF Becomes, worker
<1>6. TypeOK'
  BY <1>2, <1>3, <1>4, <1>5 DEF IInv, TypeOK, mail, github
<1>7. Places'
  BY <1>0, <1>2, <1>5 DEF IInv, TypeOK, RowsOK, Places
<1>8. Quiet'
  <2>1. wpc = "prepare" => kind[j] = "dependency"
    BY <1>0 DEF IInv, Quiet
  <2> QED
    BY <1>0, <1>2, <1>3, <1>5, <2>1 DEF IInv, TypeOK, RowsOK, Quiet, Active
<1>9. Clear'
  BY <1>0, <1>2, <1>5 DEF IInv, TypeOK, RowsOK, Clear
<1> QED
  BY <1>4, <1>6, <1>7, <1>8, <1>9 DEF IInv

\* INSERT ... ON CONFLICT DO NOTHING adds one row under a key of its own, or none.
LEMMA Inserted ==
  ASSUME IInv, NEW st \in [Jobs -> States], NEW at \in [Jobs -> Commits \cup {None}],
         NEW k, NEW knd \in {"dependency", "validation"}, NEW c \in Commits, k.of = knd,
         \A j \in Jobs : st[j] = "absent" <=> state[j] = "absent",
         \A j \in Rows : at[j] # None,
         Insert(st, at, k, knd, c), UNCHANGED <<session, agent>>
  PROVE  /\ RowsOK'
         /\ \/ /\ \E j \in Rows : kind[j] = knd
               /\ state' = st /\ kind' = kind
            \/ \E n \in Jobs : /\ state[n] = "absent"
                               /\ state' = [st EXCEPT ![n] = "queued"]
                               /\ kind' = [kind EXCEPT ![n] = knd]
<1>0. RowsOK
  BY DEF IInv, TypeOK
<1>1. CASE \E j \in Rows : key[j] = k
  <2>1. state' = st /\ sha' = at /\ UNCHANGED <<kind, key>> /\ Rows' = Rows
    BY <1>1 DEF Insert, Rows
  <2>2. RowsOK'
    BY <1>0, <2>1 DEF RowsOK
  <2> QED
    BY <1>0, <1>1, <2>1, <2>2 DEF RowsOK
<1>2. CASE ~\E j \in Rows : key[j] = k
  <2>1. PICK n \in Jobs :
          /\ Rows = 1..(n - 1)
          /\ state' = [st EXCEPT ![n] = "queued"] /\ sha' = [at EXCEPT ![n] = c]
          /\ kind' = [kind EXCEPT ![n] = knd] /\ key' = [key EXCEPT ![n] = k]
    BY <1>2 DEF Insert
  <2>2. n \notin Rows /\ state[n] = "absent"
    BY <2>1, BoundsAssumption DEF Rows, Jobs
  <2>3. Rows' = Rows \cup {n}
    BY <2>1 DEF Rows
  <2>4. key' = [j \in Jobs |-> key'[j]] /\ key'[n] = k /\ \A j \in Rows : key'[j] = key[j]
    BY <1>0, <2>1, <2>2 DEF RowsOK, Rows
  <2>5. kind' \in [Jobs -> {"dependency", "validation"}] /\ state' \in [Jobs -> States]
        /\ sha' \in [Jobs -> Commits \cup {None}]
    BY <1>0, <2>1 DEF RowsOK, States, Active
  <2>6. \A i, j \in Rows' : key'[i] = key'[j] => i = j
    <3> SUFFICES ASSUME NEW i \in Rows \cup {n}, NEW j \in Rows \cup {n}, key'[i] = key'[j] PROVE i = j
      BY <2>3
    <3>1. \A r \in Rows : key[r] # k
      BY <1>2
    <3>2. i \in Rows /\ j \in Rows => i = j
      BY <1>0, <2>4 DEF RowsOK
    <3> QED
      BY <2>4, <3>1, <3>2
  <2>7. \A j \in Rows' : sha'[j] # None /\ key'[j].of = kind'[j]
    BY <1>0, <2>1, <2>2, <2>3, <2>4, CommitsAssumption DEF RowsOK, Rows
  <2>8. RowsOK'
    BY <1>0, <2>4, <2>5, <2>6, <2>7 DEF RowsOK
  <2> QED
    BY <2>1, <2>2, <2>8
<1> QED
  BY <1>1, <1>2

\* What insertion does to the invariant, when other rows only settle.
LEMMA InsertedRows ==
  ASSUME IInv, NEW st \in [Jobs -> States], NEW at \in [Jobs -> Commits \cup {None}],
         NEW k, NEW knd \in {"dependency", "validation"}, NEW c \in Commits, k.of = knd,
         \A j \in Jobs : \/ st[j] = state[j]
                         \/ kind[j] = "validation" /\ st[j] = "stale" /\ state[j] # "absent"
                         \/ /\ kind[j] = "dependency" /\ knd = "validation"
                            /\ state[j] = "running" /\ st[j] = "prepared",
         knd = "dependency" => wpc = "prepare",
         \A j \in Rows : at[j] # None,
         Insert(st, at, k, knd, c), UNCHANGED <<session, agent, replayed>>
  PROVE  RowsOK' /\ Sessions' /\ Followed' /\ Alone' /\ PreparedOnce'
<1>0. /\ state \in [Jobs -> States] /\ kind \in [Jobs -> {"dependency", "validation"}]
      /\ \A j \in Jobs : st[j] = "absent" <=> state[j] = "absent"
  BY DEF IInv, TypeOK, RowsOK
<1>1. /\ RowsOK'
      /\ \/ /\ \E j \in Rows : kind[j] = knd
            /\ state' = st /\ kind' = kind
         \/ \E n \in Jobs : /\ state[n] = "absent"
                            /\ state' = [st EXCEPT ![n] = "queued"]
                            /\ kind' = [kind EXCEPT ![n] = knd]
  BY <1>0, Inserted
<1>2. ASSUME knd = "dependency"
      PROVE  /\ \A j \in Jobs : state[j] # "absent" => kind[j] = "dependency"
             /\ \A j \in Jobs : st[j] = state[j] /\ state[j] # "prepared"
             /\ replayed \/ \A j \in Jobs : state[j] \notin Active
  BY <1>0, <1>2 DEF IInv, Quiet, Followed
<1>3. CASE state' = st /\ kind' = kind /\ \E j \in Rows : kind[j] = knd
  <2>1. Sessions'
    BY <1>0, <1>3 DEF IInv, Sessions
  <2>2. Followed'
    BY <1>0, <1>2, <1>3 DEF IInv, Followed, Rows
  <2>3. Alone'
    BY <1>0, <1>3 DEF IInv, Alone, Active
  <2>4. Paid' = Paid
    BY <1>0, <1>3 DEF Paid, Of, Rows
  <2> QED
    BY <1>1, <2>1, <2>2, <2>3, <2>4 DEF IInv, PreparedOnce
<1>4. ASSUME NEW n \in Jobs, state[n] = "absent", state' = [st EXCEPT ![n] = "queued"],
             kind' = [kind EXCEPT ![n] = knd]
      PROVE  Sessions' /\ Followed' /\ Alone' /\ PreparedOnce'
  <2>1. /\ agent[n] = "none" /\ state'[n] = "queued" /\ kind'[n] = knd
        /\ \A j \in Jobs \ {n} : state'[j] = st[j] /\ kind'[j] = kind[j]
    BY <1>0, <1>4 DEF IInv, Sessions
  <2>2. Sessions'
    BY <1>0, <2>1 DEF IInv, Sessions
  <2>3. Followed'
    <3>1. CASE knd = "validation"
      BY <2>1, <3>1, <1>4 DEF Followed
    <3>2. CASE knd = "dependency"
      BY <1>2, <2>1, <3>2 DEF Followed
    <3> QED
      BY <3>1, <3>2
  <2>4. Alone'
    <3>1. CASE knd = "validation"
      BY <1>0, <2>1, <3>1 DEF IInv, Alone, Active
    <3>2. CASE knd = "dependency"
      BY <1>2, <2>1, <3>2 DEF Alone, Active
    <3> QED
      BY <3>1, <3>2
  <2>5. Paid' = Paid
    BY <1>0, <1>4, <2>1 DEF Paid, Of, Rows
  <2> QED
    BY <2>2, <2>3, <2>4, <2>5 DEF IInv, PreparedOnce
<1> QED
  BY <1>1, <1>3, <1>4

\* supersede_validation, whoever calls it.
LEMMA SupersedeRows ==
  ASSUME IInv, NEW j \in Jobs, kind[j] = "validation", state[j] # "absent",
         NEW c \in Commits \cup {None}, Supersede(j, c), UNCHANGED <<session, agent, replayed>>
  PROVE  RowsOK' /\ Sessions' /\ Followed' /\ Alone' /\ PreparedOnce'
<1>0. /\ state \in [Jobs -> States] /\ sha \in [Jobs -> Commits \cup {None}]
      /\ session \in [Jobs -> BOOLEAN] /\ session[j] \in BOOLEAN
      /\ agent \in [Jobs -> {"none", "working", "done"}] /\ agent[j] \in {"none", "working", "done"}
      /\ (session[j] => agent[j] # "none") /\ \A i \in Rows : sha[i] # None
      /\ replayed \in BOOLEAN /\ "stale" \in States \ {"absent"} /\ "stale" \notin Active
  BY DEF IInv, TypeOK, RowsOK, States, Active
<1>1. CASE UNCHANGED <<kind, state, sha, key>>
  BY <1>0, <1>1, SameRows DEF rows
<1>2. CASE state' = [state EXCEPT ![j] = "stale"] /\ UNCHANGED <<kind, sha, key>>
  <2>1. Becomes(j, "stale") /\ session' = [session EXCEPT ![j] = session[j]]
        /\ agent' = [agent EXCEPT ![j] = agent[j]]
    BY <1>0, <1>2 DEF Becomes
  <2>2. replayed' \in BOOLEAN /\ (replayed => replayed')
    BY <1>0, Zenon
  <2> QED
    BY <1>0, <2>1, <2>2, RowBecomes
<1>3. CASE /\ c \in Commits
           /\ Insert([state EXCEPT ![j] = "stale"], sha, ReplacementKey(j, c), "validation", c)
  <2>1. ReplacementKey(j, c).of = "validation"
    BY DEF ReplacementKey, Key
  <2> DEFINE st == [state EXCEPT ![j] = "stale"]
  <2>2. st \in [Jobs -> States]
    BY <1>0
  <2>3. \A i \in Jobs : st[i] = state[i] \/ (kind[i] = "validation" /\ st[i] = "stale" /\ state[i] # "absent")
    BY <1>0
  <2>4. Insert(st, sha, ReplacementKey(j, c), "validation", c)
    BY <1>3
  <2> HIDE DEF st
  <2> QED
    BY <1>0, <1>3, <2>1, <2>2, <2>3, <2>4, InsertedRows
<1> QED
  BY <1>1, <1>2, <1>3 DEF Supersede

LEMMA FreshKeyOf == ASSUME NEW knd, NEW c PROVE FreshKey(knd, c).of = knd
  BY DEF FreshKey, Key

\* The worker adds a row, or replaces one.
LEMMA AddStep ==
  ASSUME IInv, \/ Enlist
               \/ Outdated /\ kind[wjob] = "validation"
               \/ Commit /\ kind[wjob] = "dependency"
  PROVE  IInv'
<1>0. /\ wjob \in Jobs /\ saw \in Commits \cup {None} /\ wdel \in Deliveries \cup {"poll"}
      /\ state \in [Jobs -> States] /\ sha \in [Jobs -> Commits \cup {None}]
      /\ agent \in [Jobs -> {"none", "working", "done"}] /\ \A i \in Rows : sha[i] # None
      /\ replayed \in BOOLEAN /\ "prepared" \in States
  BY DEF IInv, TypeOK, RowsOK, States
<1>1. UNCHANGED <<session, agent, handoff, mail, github, faults, replayed>>
  BY DEF Enlist, Outdated, Commit, Kept, agents, past
<1>2. CASE Enlist
  <2>0. wpc \in {"supersede", "revalidate", "prepare"} /\ saw \in Commits
    BY <1>2 DEF Enlist, IInv, Places
  <2>1. RowsOK' /\ Sessions' /\ Followed' /\ Alone' /\ PreparedOnce'
    <3>1. CASE wpc = "supersede" /\ Supersede(wjob, saw)
      <4>1. kind[wjob] = "validation" /\ state[wjob] # "absent"
        BY <3>1 DEF IInv, Places
      <4> QED
        BY <1>0, <1>1, <3>1, <4>1, SupersedeRows
    <3>2. CASE \E knd \in {"dependency", "validation"} :
                 /\ knd = "dependency" => wpc = "prepare"
                 /\ Insert(state, sha, FreshKey(knd, saw), knd, saw)
      BY <1>0, <1>1, <2>0, <3>2, FreshKeyOf, InsertedRows
    <3> QED
      BY <1>2, <3>1, <3>2 DEF Enlist
  <2>2. PICK step \in {"idle", "record"} : Goto(step) /\ (step = "record" => wdel \in Deliveries)
    BY <1>0, <1>2 DEF Enlist, Ends
  <2>3. CASE step = "idle"
    BY <1>0, <1>1, <2>1, <2>2, <2>3, GoesIdle
  <2>4. CASE step = "record"
    <3>1. wpc' = "record" /\ UNCHANGED <<wjob, wdel, saw>>
      BY <2>2, <2>4 DEF Goto, At
    <3>2. TypeOK'
      BY <1>0, <1>1, <2>1, <3>1 DEF IInv, TypeOK, Steps, mail, github
    <3>3. Places' /\ Quiet' /\ Clear'
      BY <2>2, <2>4, <3>1 DEF Places, Quiet, Clear
    <3> QED
      BY <2>1, <3>2, <3>3 DEF IInv
  <2> QED
    BY <2>2, <2>3, <2>4
<1>3. CASE Outdated /\ kind[wjob] = "validation"
  <2>1. state[wjob] # "absent" /\ Supersede(wjob, saw) /\ Goto("idle")
    BY <1>3 DEF Outdated, IInv, Places
  <2>2. RowsOK' /\ Sessions' /\ Followed' /\ Alone' /\ PreparedOnce'
    BY <1>0, <1>1, <1>3, <2>1, SupersedeRows
  <2> QED
    BY <1>0, <1>1, <2>1, <2>2, GoesIdle
<1>4. CASE Commit /\ kind[wjob] = "dependency"
  <2>1. /\ state[wjob] = "running" /\ saw \in Commits /\ saw # None /\ Goto("idle")
        /\ Insert([state EXCEPT ![wjob] = "prepared"], [sha EXCEPT ![wjob] = saw],
                  Key("validation", saw, <<>>), "validation", saw)
    BY <1>4, CommitsAssumption DEF Commit, IInv, Places
  <2>2. /\ [state EXCEPT ![wjob] = "prepared"] \in [Jobs -> States]
        /\ [sha EXCEPT ![wjob] = saw] \in [Jobs -> Commits \cup {None}]
        /\ \A i \in Rows : [sha EXCEPT ![wjob] = saw][i] # None
        /\ \A i \in Jobs : \/ [state EXCEPT ![wjob] = "prepared"][i] = state[i]
                           \/ /\ kind[i] = "dependency" /\ state[i] = "running"
                              /\ [state EXCEPT ![wjob] = "prepared"][i] = "prepared"
        /\ Key("validation", saw, <<>>).of = "validation"
    BY <1>0, <1>4, <2>1 DEF Key, Rows
  <2>3. RowsOK' /\ Sessions' /\ Followed' /\ Alone' /\ PreparedOnce'
    BY <1>1, <2>1, <2>2, InsertedRows
  <2> QED
    BY <1>0, <1>1, <2>1, <2>3, GoesIdle
<1> QED
  BY <1>2, <1>3, <1>4

\* accept decides on the ledger it read.
LEMMA AcceptStep == ASSUME IInv, Accept PROVE IInv'
<1>0. /\ wjob \in Jobs /\ saw \in Commits /\ wdel \in Deliveries \cup {"poll"} /\ wpc = "accept"
      /\ UNCHANGED <<rows, agents, github, mail, faults, replayed>>
      /\ recorded \subseteq Deliveries /\ inbox \in [Deliveries -> Boxes]
      /\ agent \in [Jobs -> {"none", "working", "done"}]
  BY DEF Accept, Kept, past, IInv, TypeOK, Places
<1>1. RowsOK' /\ Sessions' /\ Followed' /\ Alone' /\ PreparedOnce'
  BY <1>0, SameRows DEF agents
<1>2. CASE \E step \in {"idle", "record"} : Goto(step) /\ (step = "record" => wdel \in Deliveries)
  BY <1>0, <1>2, MovesOn DEF Goto, Steps, mail
<1>3. CASE /\ wpc' \in {"supersede", "revalidate", "prepare"} /\ wjob' \in Jobs /\ UNCHANGED <<wdel, saw>>
           /\ wpc' = "supersede" => wjob' \in Of("validation")
           /\ wpc' = "prepare" => Of("validation") = {} /\ ~Owned
  <2>1. TypeOK'
    BY <1>0, <1>1, <1>3 DEF IInv, TypeOK, Steps, agents, github, mail
  <2>2. Places' /\ Clear'
    BY <1>0, <1>3 DEF Places, Clear, Of, Rows, rows
  <2>3. Quiet'
    BY <1>0, <1>3 DEF Quiet, Of, Owned, Rows, Active, rows, IInv, TypeOK, RowsOK
  <2> QED
    BY <1>1, <2>1, <2>2, <2>3 DEF IInv
<1> QED
  BY <1>0, <1>2, <1>3 DEF Accept, Ends, Goto, At, Of, Rows

LEMMA NextIInv == IInv /\ [Next]_vars => IInv'
<1> SUFFICES ASSUME IInv, [Next]_vars PROVE IInv'
  OBVIOUS
<1>1. CASE UNCHANGED vars
  <2>1. /\ UNCHANGED <<rows, agents, github, mail, wpc, wjob, wdel, saw, faults, replayed>>
        /\ agent' \in [Jobs -> {"none", "working", "done"}]
    BY <1>1 DEF vars, worker, past, agents, IInv, TypeOK
  <2>2. RowsOK' /\ Sessions' /\ Followed' /\ Alone' /\ PreparedOnce'
    BY <2>1, SameRows DEF agents
  <2>3. TypeOK' /\ Places' /\ Quiet' /\ Clear'
    BY <2>1, <2>2 DEF IInv, TypeOK, Places, Quiet, Clear, rows, agents, github, mail
  <2> QED
    BY <2>2, <2>3 DEF IInv
<1>2. CASE World
  BY <1>2, WorldStep
<1>3. CASE \/ Delivery \/ Poll \/ AcceptRead \/ AcceptFails \/ Record \/ Close \/ Crash \/ Preflight
           \/ \E d \in Deliveries : Take(d)
           \/ \E j \in Rows : Refresh(j)
  BY <1>3, ReadStep
<1>4. CASE \E j \in Rows : Claim(j)
  BY <1>4, ReadStep, ClaimStep
<1>5. CASE Accept
  BY <1>5, AcceptStep
<1>6. CASE Enlist
  BY <1>6, AddStep
<1>7. CASE Outdated \/ Commit
  <2>1. kind[wjob] \in {"dependency", "validation"}
    BY DEF IInv, TypeOK, RowsOK
  <2> QED
    BY <1>7, <2>1, AddStep, OutcomeStep
<1>8. CASE Fails \/ PollJob \/ FinishRead
  BY <1>8, OutcomeStep
<1>9. CASE Create \/ Started
  BY <1>9, SessionStep
<1>10. CASE \E j \in Rows : Expire(j) \/ Replay(j) \/ Reconcile(j) \/ Resume(j)
  BY <1>10, BesideStep
<1>11. CASE \E d \in Deliveries : ReplayDelivery(d)
  <2>1. /\ UNCHANGED <<rows, agents, github, worker, faults, replayed, event, recorded>>
        /\ inbox' \in [Deliveries -> Boxes] /\ agent' \in [Jobs -> {"none", "working", "done"}]
    BY <1>11 DEF ReplayDelivery, Outside, Boxes, IInv, TypeOK, agents
  <2>2. RowsOK' /\ Sessions' /\ Followed' /\ Alone' /\ PreparedOnce'
    BY <2>1, SameRows DEF agents
  <2>3. TypeOK' /\ Places' /\ Quiet' /\ Clear'
    BY <2>1, <2>2 DEF IInv, TypeOK, Places, Quiet, Clear, rows, agents, github, worker
  <2> QED
    BY <2>2, <2>3 DEF IInv
<1> QED
  BY <1>1, <1>2, <1>3, <1>4, <1>5, <1>6, <1>7, <1>8, <1>9, <1>10, <1>11 DEF Next, Intakes, Ticks

\* Rows stay told apart by their keys, a recorded session exists, and what the
\* worker holds is what the code passes along.
THEOREM TypeCorrect == Spec => []TypeOK
<1>1. IInv => TypeOK
  BY DEF IInv
<1> QED
  BY InitIInv, NextIInv, <1>1, PTL DEF Spec

\* A pull request is never prepared by two paid sessions, whatever moves, fails,
\* dies or is delivered again, unless an operator replays a preparation.
THEOREM OnePaidPreparation == Spec => []PreparedOnce
<1>1. IInv => PreparedOnce
  BY DEF IInv
<1> QED
  BY InitIInv, NextIInv, <1>1, PTL DEF Spec

-----------------------------------------------------------------------------
(* No event is lost.                                                        *)

\* One row further down the chain of keys.
Further(knd, c, a) ==
  LET stale == StaleWith(Key(knd, c, a)) IN IF stale = {} THEN a ELSE Append(a, CHOOSE j \in stale : TRUE)

\* fresh_key's loop is defined for every row it may pass: a smallest bound for which
\* it is not would be one more than a bound for which it is.
LEMMA ChainExists ==
  ASSUME NEW knd, NEW c
  PROVE  \E f : f = [n \in 0..MaxJobs |-> IF n = 0 THEN <<>> ELSE Further(knd, c, f[n - 1])]
<1> DEFINE Chain(m, f) == f = [n \in 0..m |-> IF n = 0 THEN <<>> ELSE Further(knd, c, f[n - 1])]
           Bad == {m \in Nat : ~ \E f : Chain(m, f)}
<1>1. Chain(0, [n \in 0..0 |-> <<>>])
  OBVIOUS
<1>2. ASSUME NEW m \in Nat, NEW f, Chain(m, f) PROVE \E g : Chain(m + 1, g)
  <2> DEFINE g == [n \in 0..(m + 1) |-> IF n <= m THEN f[n] ELSE Further(knd, c, f[m])]
  <2>1. \A n \in 0..(m + 1) : g[n] = IF n = 0 THEN <<>> ELSE Further(knd, c, g[n - 1])
    <3> SUFFICES ASSUME NEW n \in 0..(m + 1) PROVE g[n] = IF n = 0 THEN <<>> ELSE Further(knd, c, g[n - 1])
      OBVIOUS
    <3> HIDE DEF Further
    <3>1. CASE n = 0
      BY <1>2, <3>1
    <3>2. CASE n # 0 /\ n <= m
      <4>1. g[n] = f[n] /\ g[n - 1] = f[n - 1]
        BY <3>2
      <4>2. f[n] = Further(knd, c, f[n - 1])
        BY <1>2, <3>2
      <4> QED
        BY <3>2, <4>1, <4>2
    <3>3. CASE n = m + 1
      <4>1. g[n] = Further(knd, c, f[m]) /\ g[n - 1] = f[m] /\ n # 0
        BY <3>3
      <4> QED
        BY <4>1
    <3> QED
      BY <3>1, <3>2, <3>3
  <2>2. Chain(m + 1, g)
    BY <2>1
  <2> QED
    BY <2>2
<1> HIDE DEF Chain
<1>3. Bad = {}
  <2> SUFFICES ASSUME Bad # {} PROVE FALSE
    OBVIOUS
  <2>1. PICK m \in Bad : \A k \in Bad : ~ (<<k, m>> \in OpToRel(<, Nat))
    BY NatLessThanWellFounded, WFMin
  <2>2. m # 0 /\ m - 1 \in Nat /\ m - 1 \notin Bad
    BY <1>1, <2>1 DEF OpToRel
  <2>3. PICK f : Chain(m - 1, f)
    BY <2>2
  <2>4. \E g : Chain((m - 1) + 1, g)
    BY <1>2, <2>2, <2>3
  <2>5. ~ \E g : Chain(m, g)
    BY <2>1
  <2>6. m \in Nat /\ (m - 1) + 1 = m
    OBVIOUS
  <2> QED
    BY <2>4, <2>5, <2>6
<1>4. MaxJobs \in Nat
  BY BoundsAssumption
<1>5. \E f : Chain(MaxJobs, f)
  BY <1>3, <1>4
<1> QED
  BY <1>5 DEF Chain

\* fresh_key stops at the end of that chain.
LEMMA ChainSteps ==
  ASSUME NEW knd, NEW c
  PROVE  \E f : /\ f = [n \in 0..MaxJobs |-> IF n = 0 THEN <<>> ELSE Further(knd, c, f[n - 1])]
                /\ FreshKey(knd, c) = Key(knd, c, f[MaxJobs])
<1> DEFINE after[n \in 0..MaxJobs] ==
        IF n = 0 THEN <<>>
        ELSE LET stale == StaleWith(Key(knd, c, after[n - 1]))
             IN  IF stale = {} THEN after[n - 1] ELSE Append(after[n - 1], CHOOSE j \in stale : TRUE)
<1>1. FreshKey(knd, c) = Key(knd, c, after[MaxJobs])
  BY DEF FreshKey
<1>2. \E f : f = [n \in 0..MaxJobs |-> IF n = 0 THEN <<>>
        ELSE LET stale == StaleWith(Key(knd, c, f[n - 1]))
             IN  IF stale = {} THEN f[n - 1] ELSE Append(f[n - 1], CHOOSE j \in stale : TRUE)]
  <2>1. PICK f : f = [n \in 0..MaxJobs |-> IF n = 0 THEN <<>> ELSE Further(knd, c, f[n - 1])]
    BY ChainExists
  <2>2. f = [n \in 0..MaxJobs |-> IF n = 0 THEN <<>>
        ELSE LET stale == StaleWith(Key(knd, c, f[n - 1]))
             IN  IF stale = {} THEN f[n - 1] ELSE Append(f[n - 1], CHOOSE j \in stale : TRUE)]
    BY <2>1 DEF Further
  <2> QED
    BY <2>2
<1>3. after = [n \in 0..MaxJobs |-> IF n = 0 THEN <<>>
        ELSE LET stale == StaleWith(Key(knd, c, after[n - 1]))
             IN  IF stale = {} THEN after[n - 1] ELSE Append(after[n - 1], CHOOSE j \in stale : TRUE)]
  BY <1>2
<1> HIDE DEF after
<1> QED
  BY <1>1, <1>3 DEF Further

\* fresh_key finds a key no stale row holds: each key of the chain that one holds
\* is longer than the one before, and there are no more rows than MaxJobs.
LEMMA FreshKeyIsFresh ==
  ASSUME NEW knd, NEW c
  PROVE  /\ StaleWith(FreshKey(knd, c)) = {}
         /\ \E a \in Seq(Jobs) : /\ FreshKey(knd, c) = Key(knd, c, a)
                                 /\ \A k \in 1..Len(a) : state[a[k]] = "stale"
<1>1. PICK f : /\ f = [n \in 0..MaxJobs |-> IF n = 0 THEN <<>> ELSE Further(knd, c, f[n - 1])]
               /\ FreshKey(knd, c) = Key(knd, c, f[MaxJobs])
  BY ChainSteps
<1> DEFINE Held(n) == StaleWith(Key(knd, c, f[n]))
           Good(n) == /\ f[n] \in Seq(Jobs)
                      /\ \A k \in 1..Len(f[n]) : state[f[n][k]] = "stale"
                      /\ Held(n) = {} \/ (Len(f[n]) = n /\ \A k \in 0..(n - 1) : Held(k) # {} /\ Len(f[k]) = k)
           Bad == {n \in 0..MaxJobs : ~Good(n)}
<1>2. Good(0)
  <2>1. f[0] = <<>>
    BY <1>1, BoundsAssumption
  <2> QED
    BY <2>1
<1>3. ASSUME NEW n \in 0..MaxJobs, n # 0, Good(n - 1)
      PROVE  Good(n)
  <2>1. n - 1 \in 0..MaxJobs /\ n \in Nat /\ n - 1 \in Nat
    BY <1>3, BoundsAssumption
  <2>2. f[n] = IF Held(n - 1) = {} THEN f[n - 1] ELSE Append(f[n - 1], CHOOSE j \in Held(n - 1) : TRUE)
    BY <1>1, <1>3 DEF Further
  <2>3. CASE Held(n - 1) = {}
    <3>1. f[n] = f[n - 1]
      BY <2>2, <2>3
    <3>2. Held(n) = {}
      BY <2>3, <3>1
    <3> QED
      BY <1>3, <3>1, <3>2
  <2>4. CASE Held(n - 1) # {}
    <3>1. PICK j \in Held(n - 1) : f[n] = Append(f[n - 1], j)
      BY <2>2, <2>4
    <3>2. j \in Jobs /\ state[j] = "stale"
      BY <3>1 DEF StaleWith, Rows
    <3>3. Len(f[n]) = Len(f[n - 1]) + 1 /\ f[n] \in Seq(Jobs)
      BY <1>3, <3>1, <3>2
    <3>4. \A k \in 1..Len(f[n]) : state[f[n][k]] = "stale"
      <4> SUFFICES ASSUME NEW k \in 1..Len(f[n]) PROVE state[f[n][k]] = "stale"
        OBVIOUS
      <4>1. CASE k = Len(f[n - 1]) + 1
        BY <1>3, <3>1, <3>2, <4>1
      <4>2. CASE k \in 1..Len(f[n - 1])
        BY <1>3, <3>1, <3>2, <4>2
      <4> QED
        BY <1>3, <3>3, <4>1, <4>2
    <3>5. Len(f[n]) = n /\ \A k \in 0..(n - 1) : Held(k) # {} /\ Len(f[k]) = k
      <4>1. Len(f[n - 1]) = n - 1 /\ \A k \in 0..((n - 1) - 1) : Held(k) # {} /\ Len(f[k]) = k
        BY <1>3, <2>4
      <4> HIDE DEF Held
      <4> QED
        BY <2>1, <2>4, <3>3, <4>1
    <3> QED
      BY <3>3, <3>4, <3>5
  <2> QED
    BY <2>3, <2>4
<1>4. Bad = {}
  <2> HIDE DEF Good
  <2> SUFFICES ASSUME Bad # {} PROVE FALSE
    OBVIOUS
  <2>1. Bad \subseteq Nat
    BY BoundsAssumption
  <2>2. PICK n \in Bad : \A k \in Bad : ~ (<<k, n>> \in OpToRel(<, Nat))
    BY <2>1, NatLessThanWellFounded, WFMin
  <2>3. n # 0 /\ n \in 0..MaxJobs
    BY <1>2, <2>2
  <2>4. n - 1 \in 0..MaxJobs /\ n - 1 \in Nat /\ n \in Nat /\ n - 1 < n
    BY <2>3, BoundsAssumption
  <2>5. n - 1 \notin Bad
    BY <2>2, <2>4 DEF OpToRel
  <2> QED
    BY <1>3, <2>2, <2>3, <2>4, <2>5
<1>5. MaxJobs \in Nat /\ MaxJobs \in 0..MaxJobs
  BY BoundsAssumption
<1>6. Good(MaxJobs)
  BY <1>4, <1>5
<1>7. ASSUME Held(MaxJobs) # {}
      PROVE  FALSE
  <2> DEFINE h == [k \in 0..MaxJobs |-> CHOOSE j \in Held(k) : TRUE]
  <2>1. \A k \in 0..MaxJobs : Held(k) # {} /\ Len(f[k]) = k
    <3>1. Len(f[MaxJobs]) = MaxJobs /\ \A k \in 0..(MaxJobs - 1) : Held(k) # {} /\ Len(f[k]) = k
      BY <1>6, <1>7
    <3> HIDE DEF Held
    <3> QED
      BY <1>5, <1>7, <3>1
  <2>2. \A k \in 0..MaxJobs : h[k] \in Held(k)
    BY <2>1
  <2>3. \A k \in 0..MaxJobs : h[k] \in Jobs /\ key[h[k]] = Key(knd, c, f[k])
    BY <2>2 DEF StaleWith, Rows
  <2> HIDE DEF h, Held
  <2>4. h \in [0..MaxJobs -> Jobs]
    BY <2>3 DEF h
  <2>5. IsFiniteSet(0..MaxJobs) /\ IsFiniteSet(Jobs) /\ Cardinality(0..MaxJobs) = MaxJobs + 1 /\ Cardinality(Jobs) = MaxJobs
    BY <1>5, FS_Interval DEF Jobs
  <2>6. \E x, y \in 0..MaxJobs : x # y /\ h[x] = h[y]
    BY <1>5, <2>4, <2>5, FS_PigeonHole
  <2>7. PICK x \in 0..MaxJobs, y \in 0..MaxJobs : x # y /\ Key(knd, c, f[x]) = Key(knd, c, f[y])
    BY <2>3, <2>6
  <2>8. f[x] = f[y]
    BY <2>7 DEF Key
  <2> QED
    BY <2>1, <2>7, <2>8
<1> QED
  BY <1>1, <1>6, <1>7

\* A row is about the revision of its key, but for a preparation that handed over.
Keyed == \A j \in Rows : sha[j] = key[j].at \/ (kind[j] = "dependency" /\ state[j] = "prepared")

\* A row that comes after another one comes after a stale one.
AfterStale == \A i \in Jobs, j \in Rows : key[j].after = <<i>> => state[i] = "stale"

\* The worker holds a delivery that was stored.
Mailed == wdel \in Deliveries => inbox[wdel] # "absent"

\* What is about to be superseded counts, and is about another revision.
Replaceable == wpc = "supersede" => sha[wjob] # saw /\ state[wjob] # "stale"

\* What is about to be recorded is decided.
Answered == wpc = "record" => saw # None /\ (event[wdel] # saw \/ Owned \/ Prepared)

EventInv == Keyed /\ AfterStale /\ Mailed /\ Replaceable /\ Answered

LEMMA InitEventInv == Init => EventInv
<1> SUFFICES ASSUME Init PROVE EventInv
  OBVIOUS
<1>1. Rows = {}
  BY DEF Init, Rows
<1> QED
  BY <1>1, DeliveriesAssumption DEF Init, EventInv, Keyed, AfterStale, Mailed, Replaceable, Answered

\* A step that rewrites no row.
LEMMA EventsMoveOn ==
  ASSUME IInv, EventInv, UNCHANGED <<kind, state, sha, key>>,
         \A d \in Deliveries : inbox[d] # "absent" => inbox'[d] # "absent" /\ event'[d] = event[d],
         wdel' \in Deliveries => inbox'[wdel'] # "absent",
         wpc' = "supersede" => \/ UNCHANGED worker
                               \/ sha[wjob'] # saw' /\ state[wjob'] # "stale",
         wpc' = "record" => \/ UNCHANGED worker
                            \/ /\ UNCHANGED <<wdel, saw, event>>
                               /\ saw # None /\ (event[wdel] # saw \/ Owned \/ Prepared)
  PROVE  EventInv'
<1>1. Rows' = Rows /\ Of("validation")' = Of("validation")
  BY DEF Rows, Of
<1>2. Keyed' /\ AfterStale' /\ Mailed'
  BY <1>1 DEF EventInv, Keyed, AfterStale, Mailed
<1>3. Replaceable'
  BY DEF EventInv, Replaceable, worker
<1>4. Answered'
  <2> SUFFICES ASSUME wpc' = "record" PROVE saw' # None /\ (event'[wdel'] # saw' \/ Owned' \/ Prepared')
    BY DEF Answered
  <2>1. CASE UNCHANGED worker
    <3>1. wpc = "record" /\ wdel' = wdel /\ saw' = saw
      BY <2>1 DEF worker
    <3>2. event'[wdel] = event[wdel]
      BY <3>1 DEF EventInv, Mailed, IInv, Places
    <3>3. Owned' = Owned /\ Prepared' = Prepared
      BY <1>1, <3>1 DEF Owned, Prepared
    <3> QED
      BY <3>1, <3>2, <3>3 DEF EventInv, Answered
  <2>2. CASE /\ UNCHANGED <<wdel, saw, event>>
             /\ saw # None /\ (event[wdel] # saw \/ Owned \/ Prepared)
    <3>1. Owned' = Owned /\ Prepared' = Prepared
      BY <1>1, <2>2 DEF Owned, Prepared
    <3> QED
      BY <2>2, <3>1
  <2> QED
    BY <2>1, <2>2
<1> QED
  BY <1>2, <1>3, <1>4 DEF EventInv

\* A row that counts gets a new state.
LEMMA EventsBecome ==
  ASSUME IInv, EventInv, NEW j \in Jobs, NEW s \in States \ {"absent"}, Becomes(j, s),
         state[j] \notin {"absent", "stale"}, state[j] = "prepared" => kind[j] = "validation",
         \A d \in Deliveries : inbox[d] # "absent" => inbox'[d] # "absent",
         wdel' \in {wdel, "poll"},
         wpc' \in {"supersede", "record"} => UNCHANGED <<worker, event>> /\ s \in Active
  PROVE  EventInv'
<1>1. /\ state \in [Jobs -> States] /\ state' = [state EXCEPT ![j] = s] /\ UNCHANGED <<kind, sha, key>>
      /\ state'[j] = s /\ \A i \in Jobs \ {j} : state'[i] = state[i]
  BY DEF Becomes, IInv, TypeOK, RowsOK
<1>2. Rows' = Rows /\ j \in Rows
  BY <1>1 DEF Rows
<1>3. Keyed' /\ AfterStale'
  BY <1>1, <1>2 DEF EventInv, Keyed, AfterStale, Rows
<1>4. Mailed'
  BY DeliveriesAssumption DEF EventInv, Mailed
<1>5. s \in Active => s # "stale"
  BY DEF Active
<1>6. Replaceable'
  BY <1>1, <1>5 DEF EventInv, Replaceable, worker
<1>7. Answered'
  <2> SUFFICES ASSUME wpc' = "record" PROVE saw' # None /\ Owned'
    BY DEF Answered
  <2>1. wpc = "record" /\ saw' = saw /\ state'[j] \in Active
    BY <1>1 DEF worker
  <2> QED
    BY <1>2, <2>1 DEF EventInv, Answered, Owned
<1> QED
  BY <1>3, <1>4, <1>6, <1>7 DEF EventInv

\* INSERT ... ON CONFLICT DO NOTHING: the row that holds the key, or a new one.
LEMMA EventsInsert ==
  ASSUME IInv, EventInv, NEW st \in [Jobs -> States], NEW at \in [Jobs -> Commits \cup {None}],
         NEW k, NEW knd \in {"dependency", "validation"}, NEW c \in Commits, NEW a,
         k = Key(knd, c, a),
         \A j \in Jobs : \/ st[j] = state[j] /\ at[j] = sha[j]
                         \/ /\ kind[j] = "validation" /\ state[j] # "absent"
                            /\ st[j] = "stale" /\ at[j] = sha[j]
                         \/ kind[j] = "dependency" /\ state[j] = "running" /\ st[j] = "prepared",
         \A i \in Jobs : a = <<i>> => st[i] = "stale",
         Insert(st, at, k, knd, c)
  PROVE  /\ Keyed' /\ AfterStale'
         /\ \/ Rows' = Rows /\ state' = st /\ sha' = at /\ kind' = kind /\ \E j \in Rows : key[j] = k
            \/ \E n \in Rows' : state'[n] \in Active
<1>0. RowsOK
  BY DEF IInv, TypeOK
<1>1. CASE \E j \in Rows : key[j] = k
  <2>1. state' = st /\ sha' = at /\ UNCHANGED <<kind, key>>
    BY <1>1 DEF Insert
  <2>2. Rows' = Rows
    BY <1>0, <2>1 DEF Rows
  <2>3. Keyed'
    BY <2>1, <2>2 DEF EventInv, Keyed, Rows
  <2>4. AfterStale'
    BY <2>1, <2>2 DEF EventInv, AfterStale
  <2> QED
    BY <1>1, <2>1, <2>2, <2>3, <2>4
<1>2. CASE ~\E j \in Rows : key[j] = k
  <2>1. PICK n \in Jobs :
          /\ Rows = 1..(n - 1)
          /\ state' = [st EXCEPT ![n] = "queued"] /\ sha' = [at EXCEPT ![n] = c]
          /\ kind' = [kind EXCEPT ![n] = knd] /\ key' = [key EXCEPT ![n] = k]
    BY <1>2 DEF Insert
  <2>2. n \notin Rows /\ state[n] = "absent" /\ st[n] = "absent"
    BY <2>1, BoundsAssumption DEF Rows, Jobs
  <2>3. Rows' = Rows \cup {n} /\ Rows \subseteq Jobs
    BY <2>1 DEF Rows
  <2>4. /\ key'[n] = k /\ state'[n] = "queued" /\ sha'[n] = c
        /\ \A j \in Jobs \ {n} : key'[j] = key[j] /\ state'[j] = st[j] /\ sha'[j] = at[j] /\ kind'[j] = kind[j]
    BY <1>0, <2>1 DEF RowsOK
  <2>5. k.at = c /\ k.after = a
    BY DEF Key
  <2>6. Keyed'
    <3> SUFFICES ASSUME NEW j \in Rows'
                 PROVE  sha'[j] = key'[j].at \/ (kind'[j] = "dependency" /\ state'[j] = "prepared")
      BY DEF Keyed
    <3>1. CASE j = n
      BY <2>4, <2>5, <3>1
    <3>2. CASE j # n
      <4>1. j \in Rows /\ j \in Jobs
        BY <2>3, <3>2
      <4> QED
        BY <2>4, <3>2, <4>1 DEF EventInv, Keyed
    <3> QED
      BY <3>1, <3>2
  <2>7. AfterStale'
    <3> SUFFICES ASSUME NEW i \in Jobs, NEW j \in Rows', key'[j].after = <<i>> PROVE state'[i] = "stale"
      BY DEF AfterStale
    <3>1. st[i] = "stale"
      <4>1. CASE j = n
        BY <2>4, <2>5, <4>1
      <4>2. CASE j # n
        <5>1. j \in Rows /\ key[j].after = <<i>>
          BY <2>3, <2>4, <4>2
        <5> QED
          BY <5>1 DEF EventInv, AfterStale
      <4> QED
        BY <4>1, <4>2
    <3> QED
      BY <2>2, <2>4, <3>1
  <2>8. state'[n] \in Active /\ n \in Rows'
    BY <2>3, <2>4 DEF Active
  <2> QED
    BY <2>6, <2>7, <2>8
<1> QED
  BY <1>1, <1>2

\* supersede_validation leaves the revision it is given with work that counts.
LEMMA EventsSupersede ==
  ASSUME IInv, EventInv, NEW j \in Jobs, kind[j] = "validation", state[j] \notin {"absent", "stale"},
         NEW c \in Commits \cup {None}, Supersede(j, c)
  PROVE  /\ Keyed' /\ AfterStale'
         /\ c # None /\ sha[j] # c =>
              \/ \E n \in Rows' : state'[n] \in Active
              \/ \E n \in Rows' : kind'[n] = "validation" /\ sha'[n] = c /\ state'[n] # "stale"
<1> DEFINE st == [state EXCEPT ![j] = "stale"]
<1>0. /\ state \in [Jobs -> States] /\ sha \in [Jobs -> Commits \cup {None}] /\ st \in [Jobs -> States]
      /\ RowsOK
  BY DEF IInv, TypeOK, RowsOK, States
<1>1. st[j] = "stale" /\ \A i \in Jobs \ {j} : st[i] = state[i]
  BY <1>0
<1>2. CASE c = None
  <2>1. state' = st /\ UNCHANGED <<kind, sha, key>>
    BY <1>2 DEF Supersede
  <2>2. Rows' = Rows
    BY <1>1, <2>1 DEF Rows
  <2> QED
    BY <1>1, <1>2, <2>1, <2>2 DEF EventInv, Keyed, AfterStale, Rows
<1>3. CASE c \in Commits /\ c # None
  <2> DEFINE a == IF StaleWith(Key("validation", c, <<>>)) # {} THEN <<j>> ELSE <<>>
             k == Key("validation", c, a)
  <2>1. Insert(st, sha, k, "validation", c)
    BY <1>3 DEF Supersede, ReplacementKey
  <2>2. \A i \in Jobs : a = <<i>> => st[i] = "stale"
    BY <1>1
  <2>3. \A i \in Jobs : \/ st[i] = state[i] /\ sha[i] = sha[i]
                        \/ /\ kind[i] = "validation" /\ state[i] # "absent"
                           /\ st[i] = "stale" /\ sha[i] = sha[i]
    BY <1>1
  <2>4. k.of = "validation" /\ k.at = c /\ k.after = a
    BY DEF Key
  <2> HIDE DEF st
  <2>5. /\ Keyed' /\ AfterStale'
        /\ \/ Rows' = Rows /\ state' = st /\ sha' = sha /\ kind' = kind /\ \E i \in Rows : key[i] = k
           \/ \E n \in Rows' : state'[n] \in Active
    <3>1. k = Key("validation", c, a) /\ c \in Commits
      BY <1>3
    <3> HIDE DEF k, a
    <3> QED
      BY <1>0, <2>1, <2>2, <2>3, <3>1, EventsInsert
  <2>6. ASSUME sha[j] # c, Rows' = Rows, state' = st, sha' = sha, kind' = kind, NEW i \in Rows, key[i] = k
        PROVE  \E n \in Rows' : kind'[n] = "validation" /\ sha'[n] = c /\ state'[n] # "stale"
    <3>1. i \in Jobs /\ kind[i] = "validation" /\ sha[i] = c /\ i # j
      <4>1. i \in Jobs /\ key[i].of = kind[i] /\ key[i].at = c
        BY <1>0, <2>4, <2>6 DEF RowsOK, Rows
      <4> QED
        BY <2>4, <2>6, <4>1 DEF EventInv, Keyed
    <3>2. state[i] # "stale"
      <4>1. CASE a = <<j>>
        <5>1. key[i].after = <<j>>
          BY <2>4, <2>6, <4>1
        <5> QED
          BY <5>1 DEF EventInv, AfterStale
      <4>2. CASE StaleWith(Key("validation", c, <<>>)) = {} /\ k = Key("validation", c, <<>>)
        BY <2>6, <4>2 DEF StaleWith
      <4> QED
        BY <4>1, <4>2
    <3> QED
      BY <1>1, <2>6, <3>1, <3>2
  <2> QED
    BY <2>5, <2>6
<1> QED
  BY <1>2, <1>3

\* accept leaves the revision it read with work that counts.
LEMMA EventsEnlist == ASSUME IInv, EventInv, Enlist PROVE EventInv'
<1>0. /\ wjob \in Jobs /\ saw \in Commits /\ saw # None /\ RowsOK
      /\ wpc \in {"supersede", "revalidate", "prepare"}
      /\ state \in [Jobs -> States] /\ sha \in [Jobs -> Commits \cup {None}]
  BY CommitsAssumption DEF Enlist, IInv, TypeOK, RowsOK, Places
<1>1. /\ Keyed' /\ AfterStale'
      /\ \/ \E n \in Rows' : state'[n] \in Active
         \/ \E n \in Rows' : kind'[n] = "validation" /\ sha'[n] = saw /\ state'[n] # "stale"
         \/ \E n \in Rows' : sha'[n] = saw /\ state'[n] # "stale"
  <2>1. CASE wpc = "supersede" /\ Supersede(wjob, saw)
    <3>1. kind[wjob] = "validation" /\ state[wjob] \notin {"absent", "stale"} /\ sha[wjob] # saw
      BY <2>1 DEF EventInv, Replaceable, IInv, Places
    <3> QED
      BY <1>0, <2>1, <3>1, EventsSupersede
  <2>2. ASSUME NEW knd \in {"dependency", "validation"}, knd = "dependency" => wpc = "prepare",
               Insert(state, sha, FreshKey(knd, saw), knd, saw)
        PROVE  /\ Keyed' /\ AfterStale'
               /\ \/ \E n \in Rows' : state'[n] \in Active
                  \/ \E n \in Rows' : sha'[n] = saw /\ state'[n] # "stale"
    <3>1. PICK a : /\ FreshKey(knd, saw) = Key(knd, saw, a)
                   /\ \A i \in Jobs : a = <<i>> => state[i] = "stale"
      <4>1. PICK a \in Seq(Jobs) : /\ FreshKey(knd, saw) = Key(knd, saw, a)
                                   /\ \A i \in 1..Len(a) : state[a[i]] = "stale"
        BY FreshKeyIsFresh
      <4>2. \A i \in Jobs : a = <<i>> => state[i] = "stale"
        BY <4>1
      <4> QED
        BY <4>1, <4>2
    <3>2. StaleWith(FreshKey(knd, saw)) = {}
      BY FreshKeyIsFresh
    <3> DEFINE k == FreshKey(knd, saw)
    <3>4. k = Key(knd, saw, a) /\ Insert(state, sha, k, knd, saw) /\ StaleWith(k) = {}
      BY <2>2, <3>1, <3>2
    <3> HIDE DEF k
    <3>5. /\ Keyed' /\ AfterStale'
          /\ \/ Rows' = Rows /\ state' = state /\ sha' = sha /\ kind' = kind /\ \E i \in Rows : key[i] = k
             \/ \E n \in Rows' : state'[n] \in Active
      BY <1>0, <3>1, <3>4, EventsInsert
    <3>6. ASSUME Rows' = Rows, state' = state, sha' = sha, NEW i \in Rows, key[i] = k
          PROVE  sha'[i] = saw /\ state'[i] # "stale"
      <4>1. state[i] # "stale"
        BY <3>4, <3>6 DEF StaleWith
      <4>2. key[i].at = saw /\ kind[i] = knd /\ i \in Jobs
        BY <1>0, <3>4, <3>6 DEF Key, RowsOK, Rows
      <4>3. ~(kind[i] = "dependency" /\ state[i] = "prepared")
        BY <2>2, <4>2 DEF IInv, Quiet, Followed
      <4> QED
        BY <3>6, <4>1, <4>2, <4>3 DEF EventInv, Keyed
    <3> QED
      BY <3>5, <3>6
  <2> QED
    BY <1>0, <2>1, <2>2 DEF Enlist
<1>2. UNCHANGED <<inbox, event>> /\ wpc' \in {"idle", "record"} /\ (wpc' = "record" => UNCHANGED <<wdel, saw>>)
      /\ wdel' \in {wdel, "poll"}
  BY DEF Enlist, Ends, Goto, At, mail
<1>3. Mailed' /\ Replaceable'
  BY <1>2, DeliveriesAssumption DEF EventInv, Mailed, Replaceable
<1>4. Answered'
  <2> SUFFICES ASSUME wpc' = "record" PROVE saw' # None /\ (Owned' \/ Prepared')
    BY DEF Answered
  <2> QED
    BY <1>0, <1>1, <1>2 DEF Owned, Prepared, Of
<1> QED
  BY <1>1, <1>3, <1>4 DEF EventInv

\* The worker lets go of its delivery, or goes on to a step that decides nothing.
LEMMA EventsRest ==
  ASSUME IInv, EventInv, Keyed', AfterStale', UNCHANGED mail, wpc' \notin {"supersede", "record"},
         wdel' \in {wdel, "poll"}
  PROVE  EventInv'
<1> QED
  BY DeliveriesAssumption DEF EventInv, Mailed, Replaceable, Answered, mail

\* The steps that rewrite no row.
LEMMA EventsReadStep ==
  ASSUME IInv, EventInv,
         \/ World \/ UNCHANGED vars
         \/ Delivery \/ Poll \/ AcceptRead \/ AcceptFails \/ Record \/ Close \/ Crash \/ Preflight
         \/ \E d \in Deliveries : Take(d) \/ ReplayDelivery(d)
         \/ \E j \in Rows : Refresh(j) \/ (Claim(j) /\ state[j] = "running")
  PROVE  EventInv'
<1> USE DEF rows, mail, worker, Goto, At
<1>0. /\ inbox \in [Deliveries -> Boxes] /\ "poll" \notin Deliveries /\ wdel \in Deliveries \cup {"poll"}
      /\ wdel \in Deliveries => inbox[wdel] # "absent"
  BY DeliveriesAssumption DEF IInv, TypeOK, EventInv, Mailed
<1>1. CASE Reclassify \/ (\E c \in Commits : Push(c)) \/ (\E j \in Rows : AgentEnds(j)) \/ UNCHANGED vars
  <2>1. UNCHANGED <<rows, mail, worker>>
    BY <1>1 DEF Reclassify, Push, Move, AgentEnds, vars
  <2> QED
    BY <1>0, <2>1, EventsMoveOn
<1>2. CASE \E d \in Deliveries : Arrive(d) \/ ReplayDelivery(d)
  <2>1. PICK d \in Deliveries : Arrive(d) \/ ReplayDelivery(d)
    BY <1>2
  <2>2. UNCHANGED <<rows, worker>> /\ inbox' = [inbox EXCEPT ![d] = "pending"]
    BY <2>1 DEF Arrive, ReplayDelivery, Outside
  <2>3. \A e \in Deliveries : inbox[e] # "absent" => inbox'[e] # "absent" /\ event'[e] = event[e]
    BY <1>0, <2>1, <2>2 DEF Arrive, ReplayDelivery, IInv, TypeOK
  <2> QED
    BY <1>0, <2>2, <2>3, EventsMoveOn
<1>3. CASE \E d \in Deliveries : Take(d)
  <2>1. PICK d \in Deliveries : Take(d)
    BY <1>3
  <2>2. \A e \in Deliveries : inbox[e] # "absent" => inbox'[e] # "absent" /\ event'[e] = event[e]
    BY <1>0, <2>1 DEF Take
  <2>3. wdel' = d /\ inbox'[d] # "absent" /\ wpc' = "delivery" /\ UNCHANGED rows
    BY <1>0, <2>1 DEF Take
  <2> QED
    BY <2>2, <2>3, EventsMoveOn
<1>4. CASE Close
  <2>1. \A e \in Deliveries : inbox[e] # "absent" => inbox'[e] # "absent" /\ event'[e] = event[e]
    BY <1>0, <1>4 DEF Close
  <2>2. wpc' = "idle" /\ wdel' = "poll" /\ UNCHANGED rows
    BY <1>4 DEF Close
  <2> QED
    BY <1>0, <2>1, <2>2, EventsMoveOn
<1>5. CASE \/ Delivery \/ Poll \/ AcceptRead \/ AcceptFails \/ Record \/ Crash \/ Preflight
           \/ \E j \in Rows : Refresh(j) \/ (Claim(j) /\ state[j] = "running")
  <2>1. /\ UNCHANGED <<rows, inbox, event>> /\ wdel' \in {wdel, "poll"}
        /\ wpc' \notin {"supersede", "record"}
    <3>1. CASE Delivery \/ Poll \/ AcceptRead \/ AcceptFails
      BY <3>1 DEF Delivery, Poll, AcceptRead, AcceptFails
    <3>2. CASE Record \/ Crash \/ Preflight
      BY <3>2 DEF Record, Crash, Preflight
    <3>3. CASE \E j \in Rows : Refresh(j) \/ (Claim(j) /\ state[j] = "running")
      BY <3>3 DEF Refresh, Claim
    <3> QED
      BY <1>5, <3>1, <3>2, <3>3
  <2> QED
    BY <1>0, <2>1, EventsMoveOn
<1> QED
  BY <1>1, <1>2, <1>3, <1>4, <1>5 DEF World

\* accept decides on the ledger it read.
LEMMA EventsAccept == ASSUME IInv, EventInv, Accept PROVE EventInv'
<1>0. /\ saw \in Commits /\ saw # None /\ wdel \in Deliveries \cup {"poll"} /\ "poll" \notin Deliveries
      /\ UNCHANGED <<kind, state, sha, key, inbox, event>> /\ (wdel \in Deliveries => inbox[wdel] # "absent")
      /\ wpc = "accept"
  BY CommitsAssumption, DeliveriesAssumption
     DEF Accept, IInv, TypeOK, Places, rows, mail, EventInv, Mailed
<1>1. wdel' \in {wdel, "poll"}
  BY DEF Accept, Goto, At
<1>2. ASSUME wpc' = "supersede" PROVE sha[wjob'] # saw' /\ state[wjob'] # "stale"
  BY <1>2 DEF Accept, Goto, At, Ends, Owned
<1>3. ASSUME wpc' = "record" PROVE UNCHANGED <<wdel, saw, event>> /\ (event[wdel] # saw \/ Owned \/ Prepared)
  BY <1>0, <1>3 DEF Accept, Goto, At, Ends, Superseded
<1> QED
  BY <1>0, <1>1, <1>2, <1>3, EventsMoveOn

\* A row the worker holds, or an operator rewrites.
LEMMA EventsRowStep ==
  ASSUME IInv, EventInv,
         \/ Fails \/ PollJob \/ FinishRead \/ Create \/ Started
         \/ Outdated /\ kind[wjob] = "dependency"
         \/ Commit /\ kind[wjob] = "validation"
         \/ \E j \in Rows : \/ Claim(j) /\ state[j] # "running"
                            \/ Expire(j) \/ Replay(j) \/ Reconcile(j) \/ Resume(j)
  PROVE  EventInv'
<1>0. wjob \in Jobs /\ (wdel \in Deliveries => inbox[wdel] # "absent") /\ "poll" \notin Deliveries
  BY DeliveriesAssumption DEF IInv, TypeOK, EventInv, Mailed
<1> DEFINE Kinds == {"queued", "running", "dispatching", "unknown_effect", "needs_attention", "dead_letter",
                     "review_ready", "settled", "stale"}
<1>1. Kinds \subseteq States \ {"absent"}
  BY DEF States, Active
<1>2. CASE \/ Fails \/ PollJob \/ FinishRead \/ Create \/ Started
           \/ Outdated /\ kind[wjob] = "dependency"
           \/ Commit /\ kind[wjob] = "validation"
  <2>1. state[wjob] \in {"dispatching", "running"}
    BY <1>2 DEF Fails, PollJob, FinishRead, Create, Started, Outdated, Commit, IInv, Places
  <2>2. UNCHANGED mail /\ wpc' \notin {"supersede", "record"} /\ wdel' \in {wdel, "poll"}
    <3>1. CASE Fails \/ PollJob \/ FinishRead
      BY <3>1 DEF Fails, PollJob, FinishRead, Goto, At
    <3>2. CASE Create \/ Started \/ Outdated \/ Commit
      BY <3>2 DEF Create, Started, Outdated, Commit, Goto, At
    <3> QED
      BY <1>2, <3>1, <3>2
  <2>3. UNCHANGED <<kind, state, sha, key>> \/ \E s \in Kinds : Becomes(wjob, s)
    <3>1. CASE Fails \/ PollJob \/ FinishRead
      BY <3>1 DEF Fails, PollJob, FinishRead
    <3>2. CASE Create \/ Started
      BY <3>2 DEF Create, Started
    <3>3. CASE (Outdated /\ kind[wjob] = "dependency") \/ (Commit /\ kind[wjob] = "validation")
      BY <3>3 DEF Outdated, Commit
    <3> QED
      BY <1>2, <3>1, <3>2, <3>3
  <2>4. CASE UNCHANGED <<kind, state, sha, key>>
    BY <1>0, <2>2, <2>4, EventsMoveOn DEF mail
  <2>5. CASE \E s \in Kinds : Becomes(wjob, s)
    BY <1>0, <1>1, <2>1, <2>2, <2>5, EventsBecome DEF mail
  <2> QED
    BY <2>3, <2>4, <2>5
<1>3. CASE \E j \in Rows : \/ Claim(j) /\ state[j] # "running"
                           \/ Expire(j) \/ Replay(j) \/ Reconcile(j) \/ Resume(j)
  <2>1. PICK j \in Rows : \/ Claim(j) /\ state[j] # "running"
                          \/ Expire(j) \/ Replay(j) \/ Reconcile(j) \/ Resume(j)
    BY <1>3
  <2>2. j \in Jobs /\ state[j] \in {"queued", "dispatching", "dead_letter", "unknown_effect", "needs_attention"}
    BY <2>1 DEF Rows, Claim, Expire, Replay, Reconcile, Resume
  <2>3. UNCHANGED mail /\ wdel' \in {wdel, "poll"}
    BY <2>1 DEF Claim, Expire, Replay, Reconcile, Resume, At, worker, Outside
  <2>4. \E s \in Kinds : Becomes(j, s) /\ (wpc' \in {"supersede", "record"} => UNCHANGED worker /\ s \in Active)
    <3>1. CASE Claim(j) /\ state[j] # "running"
      BY <3>1 DEF Claim, At
    <3>2. CASE Expire(j)
      BY <3>2 DEF Expire, worker
    <3>3. CASE Replay(j) \/ Reconcile(j) \/ Resume(j)
      BY <3>3 DEF Replay, Reconcile, Resume, Outside, Active
    <3> QED
      BY <2>1, <3>1, <3>2, <3>3
  <2> QED
    BY <1>1, <2>2, <2>3, <2>4, EventsBecome DEF mail
<1> QED
  BY <1>2, <1>3

\* A row is replaced, or a handoff asks for its validation.
LEMMA EventsAddStep ==
  ASSUME IInv, EventInv, \/ Outdated /\ kind[wjob] = "validation"
                         \/ Commit /\ kind[wjob] = "dependency"
  PROVE  EventInv'
<1>0. /\ wjob \in Jobs /\ saw \in Commits \cup {None}
      /\ state \in [Jobs -> States] /\ sha \in [Jobs -> Commits \cup {None}] /\ "prepared" \in States
  BY DEF IInv, TypeOK, RowsOK, States
<1>1. UNCHANGED mail /\ wpc' = "idle" /\ wdel' = "poll"
  BY DEF Outdated, Commit, Goto, At
<1>2. CASE Outdated /\ kind[wjob] = "validation"
  <2>1. Supersede(wjob, saw) /\ state[wjob] \notin {"absent", "stale"}
    BY <1>2 DEF Outdated, IInv, Places
  <2>2. Keyed' /\ AfterStale'
    BY <1>0, <1>2, <2>1, EventsSupersede
  <2> QED
    BY <1>1, <2>2, EventsRest
<1>3. CASE Commit /\ kind[wjob] = "dependency"
  <2> DEFINE st == [state EXCEPT ![wjob] = "prepared"]
             at == [sha EXCEPT ![wjob] = saw]
             k == Key("validation", saw, <<>>)
  <2>1. saw \in Commits /\ state[wjob] = "running" /\ Insert(st, at, k, "validation", saw)
    BY <1>3 DEF Commit, IInv, Places
  <2>2. st \in [Jobs -> States] /\ at \in [Jobs -> Commits \cup {None}]
    BY <1>0
  <2>3. \A j \in Jobs : \/ st[j] = state[j] /\ at[j] = sha[j]
                        \/ kind[j] = "dependency" /\ state[j] = "running" /\ st[j] = "prepared"
    BY <1>0, <1>3, <2>1
  <2>4. \E a : k = Key("validation", saw, a) /\ \A i \in Jobs : a = <<i>> => st[i] = "stale"
    OBVIOUS
  <2> HIDE DEF st, at, k
  <2>5. Keyed' /\ AfterStale'
    BY <2>1, <2>2, <2>3, <2>4, EventsInsert
  <2> QED
    BY <1>1, <2>5, EventsRest
<1> QED
  BY <1>2, <1>3

LEMMA NextEventInv == IInv /\ EventInv /\ [Next]_vars => EventInv'
<1> SUFFICES ASSUME IInv, EventInv, [Next]_vars PROVE EventInv'
  OBVIOUS
<1>1. CASE \/ World \/ UNCHANGED vars
           \/ Delivery \/ Poll \/ AcceptRead \/ AcceptFails \/ Record \/ Close \/ Crash \/ Preflight
           \/ \E d \in Deliveries : Take(d) \/ ReplayDelivery(d)
           \/ \E j \in Rows : Refresh(j) \/ (Claim(j) /\ state[j] = "running")
  BY <1>1, EventsReadStep
<1>2. CASE Accept
  BY <1>2, EventsAccept
<1>3. CASE Enlist
  BY <1>3, EventsEnlist
<1>4. CASE Outdated \/ Commit
  <2>1. kind[wjob] \in {"dependency", "validation"}
    BY DEF IInv, TypeOK, RowsOK
  <2> QED
    BY <1>4, <2>1, EventsRowStep, EventsAddStep
<1>5. CASE \/ Fails \/ PollJob \/ FinishRead \/ Create \/ Started
           \/ \E j \in Rows : \/ Claim(j) /\ state[j] # "running"
                              \/ Expire(j) \/ Replay(j) \/ Reconcile(j) \/ Resume(j)
  BY <1>5, EventsRowStep
<1> QED
  BY <1>1, <1>2, <1>3, <1>4, <1>5 DEF Next, Intakes, Ticks

\* Only Record records.
LEMMA OnlyRecord == ASSUME [Next]_vars PROVE Record \/ UNCHANGED recorded
<1> USE DEF mail
<1>1. ASSUME World \/ UNCHANGED vars PROVE UNCHANGED recorded
  BY <1>1 DEF World, Reclassify, Push, Move, AgentEnds, Arrive, vars
<1>2. ASSUME Delivery \/ AcceptRead \/ AcceptFails \/ Accept \/ Enlist \/ Close \/ Poll \/ Crash
      PROVE  UNCHANGED recorded
  BY <1>2 DEF Delivery, AcceptRead, AcceptFails, Accept, Enlist, Close, Poll, Crash
<1>3. ASSUME Ticks PROVE UNCHANGED recorded
  BY <1>3 DEF Ticks, Preflight, Outdated, Create, Started, PollJob, FinishRead, Commit, Fails
<1>4. ASSUME NEW j \in Rows, Claim(j) \/ Expire(j) \/ Refresh(j) \/ Replay(j) \/ Reconcile(j) \/ Resume(j)
      PROVE  UNCHANGED recorded
  BY <1>4 DEF Claim, Expire, Refresh, Replay, Reconcile, Resume
<1>5. ASSUME NEW d \in Deliveries, Take(d) \/ ReplayDelivery(d) PROVE UNCHANGED recorded
  BY <1>5 DEF Take, ReplayDelivery
<1> QED
  BY <1>1, <1>2, <1>3, <1>4, <1>5 DEF Next, Intakes

\* A delivery is recorded, and not looked at again, only when its revision was found
\* replaced or work on the pull request is under way or done for the revision that
\* was read, however often a worker dies or an operator steps in between: fresh_key
\* and the unique keys never let an insertion find a stale row in its way.
THEOREM NothingDropped == Spec => NoEventLost
<1>1. IInv /\ EventInv /\ [Next]_vars =>
        [\A d \in recorded' \ recorded : saw # None /\ (event[d] # saw \/ Owned \/ Prepared)]_vars
  <2> SUFFICES ASSUME IInv, EventInv, [Next]_vars, NEW d \in recorded' \ recorded
               PROVE  saw # None /\ (event[d] # saw \/ Owned \/ Prepared)
    OBVIOUS
  <2>1. Record
    BY OnlyRecord
  <2>2. wpc = "record" /\ d = wdel
    BY <2>1 DEF Record
  <2> QED
    BY <2>2 DEF EventInv, Answered
<1> QED
  BY InitIInv, NextIInv, InitEventInv, NextEventInv, <1>1, PTL DEF Spec, NoEventLost
=============================================================================
