-------------------------- MODULE JobLedgerProofs --------------------------
(***************************************************************************)
(* Proofs about JobLedger for every set of jobs, every assignment of kinds *)
(* and every number of concurrent operator requests, crashes and attempts: *)
(* the state predicate IInv is inductive, and with it every job has at     *)
(* most one paid session, no paid session is lost from the ledger, and the *)
(* lifetime budget of sessions is never exceeded.  When operators' requests*)
(* come one at a time, FInv is inductive beside IInv: one job at most keeps*)
(* the queue closed, and agents work only for that job.                    *)
(***************************************************************************)
EXTENDS JobLedger, FiniteSetTheorems, TLAPS

USE JobsAssumption, KindAssumption, BudgetAssumption, AttemptsAssumption,
    SwitchAssumption, BoundsAssumption

-----------------------------------------------------------------------------
(* The helpers of the ledger.                                              *)

\* Store._enqueue changes nothing but one absent row, which it queues.
LEMMA InsertedStep ==
  ASSUME NEW s \in [Jobs -> States], NEW kinds, NEW t \in Inserted(s, kinds)
  PROVE  /\ t \in [Jobs -> States]
         /\ \A i \in Jobs : t[i] = s[i] \/ (s[i] = "absent" /\ t[i] = "queued")
BY DEF Inserted, States

\* A handoff writes the state of its own job and may queue an absent one.
LEMMA CommittedStep ==
  ASSUME NEW s \in [Jobs -> States], NEW j \in Jobs,
         NEW new \in States \ {"absent"}, NEW kinds,
         NEW t \in Committed(s, j, new, kinds)
  PROVE  /\ t \in [Jobs -> States]
         /\ t[j] = new \/ (t[j] = "stale" /\ s[j] = "stale")
         /\ \A i \in Jobs \ {j} : t[i] = s[i] \/ (s[i] = "absent" /\ t[i] = "queued")
<1>1. CASE s[j] = "stale"
  BY <1>1 DEF Committed
<1>2. CASE s[j] # "stale"
  <2> DEFINE u == [s EXCEPT ![j] = new]
  <2>1. u \in [Jobs -> States] /\ u[j] = new /\ \A i \in Jobs \ {j} : u[i] = s[i]
    OBVIOUS
  <2>2. t \in Inserted(u, kinds)
    BY <1>2 DEF Committed
  <2> HIDE DEF u
  <2>3. /\ t \in [Jobs -> States]
        /\ \A i \in Jobs : t[i] = u[i] \/ (u[i] = "absent" /\ t[i] = "queued")
    BY <2>1, <2>2, InsertedStep
  <2>4. QED
    BY <2>1, <2>3
<1>3. QED
  BY <1>1, <1>2

\* A remediation only retires settled validations of other jobs.
LEMMA SupersededStep ==
  ASSUME state \in [Jobs -> States], wjob \in Jobs,
         NEW t \in Superseded(Kind[wjob])
  PROVE  /\ t \in [Jobs -> States]
         /\ t[wjob] = state[wjob]
         /\ \A i \in Jobs : \/ t[i] = state[i]
                            \/ t[i] = "stale" /\ state[i] \in Gated
BY DEF Superseded, States, Gated, Settled

\* Store.claim quarantines dispatches whose worker is gone and nothing else.
LEMMA ExpiredStep ==
  ASSUME state \in [Jobs -> States]
  PROVE  /\ Expired \in [Jobs -> States]
         /\ \A i \in Jobs : \/ Expired[i] = state[i]
                            \/ state[i] = "dispatching" /\ Expired[i] = "unknown_effect"
BY DEF Expired, States

\* A claimed job was running or queued before the claim.
LEMMA ClaimableStep ==
  ASSUME state \in [Jobs -> States], NEW allow, NEW j \in Claimable(Expired, allow)
  PROVE  /\ j \in Jobs
         /\ state[j] \in {"running", "queued"}
         /\ Expired[j] = state[j]
BY DEF Claimable, Ready, Expired

\* The budget is a bound on the cardinality of finite sets.
LEMMA SmallerSet ==
  ASSUME NEW S \in SUBSET Jobs, NEW T \in SUBSET S
  PROVE  /\ IsFiniteSet(S) /\ IsFiniteSet(T)
         /\ Cardinality(S) \in Nat /\ Cardinality(T) \in Nat
         /\ Cardinality(T) <= Cardinality(S)
<1>1. IsFiniteSet(S)
  BY FS_Subset
<1>2. QED
  BY <1>1, FS_Subset, FS_CardinalityType

\* The slot stays reserved while no other job becomes counted.
LEMMA SlotKept ==
  ASSUME SlotReserved, wpc' \in {"context", "create"} => wpc \in {"context", "create"},
         wjob' = wjob, Counted' \ {wjob} \subseteq Counted \ {wjob}
  PROVE  SlotReserved'
<1> SUFFICES ASSUME wpc' \in {"context", "create"}
             PROVE  Cardinality(Counted' \ {wjob}) + 1 <= MaxSessions
  BY DEF SlotReserved
<1>1. Counted \ {wjob} \in SUBSET Jobs
  BY DEF Counted
<1>2. Cardinality(Counted \ {wjob}) + 1 <= MaxSessions
  BY DEF SlotReserved
<1>3. QED
  BY <1>1, <1>2, SmallerSet

\* While no session is created the budget cannot be passed.
LEMMA BudgetKept ==
  ASSUME SessionBudget, created' = created
  PROVE  SessionBudget'
BY DEF SessionBudget

-----------------------------------------------------------------------------
(* One lemma per action: IInv is preserved.                                *)

\* Actions that leave alone everything the invariant relates.
LEMMA Frame ==
  ASSUME IInv, TypeOK',
         UNCHANGED <<state, session, created, wpc, wjob, wout, req>>
  PROVE  IInv'
<1>1. SessionBudget'
  BY BudgetKept DEF IInv
<1>2. SlotReserved'
  BY SlotKept DEF IInv, Counted
<1>3. QED
  BY <1>1, <1>2 DEF IInv, AtMostOneSession, NoSessionForgotten, RowsAgree,
     TickAgrees, RequestsAgree

\* Intake, time and the provider's progress preserve the agreement.
LEMMA EnvironmentStep ==
  ASSUME IInv, Environment
  PROVE  IInv'
<1>1. CASE Enqueue
  <2>1. /\ state' \in [Jobs -> States]
        /\ \A i \in Jobs : state'[i] = state[i] \/ (state[i] = "absent" /\ state'[i] = "queued")
    BY <1>1, InsertedStep DEF Enqueue, IInv, TypeOK
  <2>2. TypeOK'
    BY <1>1, <2>1 DEF Enqueue, IInv, TypeOK, worker, provider
  <2>3. (AtMostOneSession /\ NoSessionForgotten /\ RowsAgree)'
    BY <1>1, <2>1 DEF Enqueue, IInv, TypeOK, AtMostOneSession, NoSessionForgotten, RowsAgree,
       worker, provider
  <2>4. (TickAgrees /\ RequestsAgree)'
    BY <1>1, <2>1 DEF Enqueue, IInv, TypeOK, RowsAgree, TickAgrees, RequestsAgree, worker, provider
  <2>5. SessionBudget'
    BY <1>1, BudgetKept DEF Enqueue, IInv, provider
  <2>6. SlotReserved'
    BY <1>1, <2>1, SlotKept DEF Enqueue, IInv, Counted, worker
  <2>7. QED
    BY <2>2, <2>3, <2>4, <2>5, <2>6 DEF IInv
<1>2. ASSUME NEW j \in Jobs, LeaseExpires(j) \/ PollDue(j) \/ AgentStops(j)
      PROVE  IInv'
  BY <1>2, Frame DEF LeaseExpires, PollDue, AgentStops, IInv, TypeOK, worker, provider, ledger
<1>3. QED
  BY <1>1, <1>2 DEF Environment

\* Store.claim: quarantine first, then one lease on one job.
LEMMA ClaimStep ==
  ASSUME IInv, Claim
  PROVE  IInv'
<1>1. /\ state \in [Jobs -> States] /\ wpc = "idle" /\ wout' = wout
      /\ created' = created /\ session' = session /\ req' = req
      /\ due' = due /\ attempts' = attempts /\ working' = working /\ crashes' = crashes
  BY DEF Claim, IInv, TypeOK, provider, At
<1>2. err' \in [Jobs -> BOOLEAN]
  BY DEF Claim, IInv, TypeOK
<1>3. CASE \E allow \in AllowDispatch : \E j \in Claimable(Expired, allow) :
             /\ state' = [Expired EXCEPT ![j] = IF @ = "queued" THEN "dispatching" ELSE @]
             /\ lease' = [lease EXCEPT ![j] = TRUE]
             /\ wpc' = IF state[j] = "queued" THEN "dispatch" ELSE "poll"
             /\ wjob' = j
  <2>1. PICK j \in Jobs :
          /\ state' = [Expired EXCEPT ![j] = IF @ = "queued" THEN "dispatching" ELSE @]
          /\ lease' = [lease EXCEPT ![j] = TRUE]
          /\ wpc' = IF state[j] = "queued" THEN "dispatch" ELSE "poll"
          /\ wjob' = j
          /\ state[j] \in {"running", "queued"}
          /\ Expired[j] = state[j]
    BY <1>1, <1>3, ClaimableStep
  <2>2. /\ state' \in [Jobs -> States]
        /\ state'[j] = IF state[j] = "queued" THEN "dispatching" ELSE "running"
        /\ \A i \in Jobs \ {j} :
             \/ state'[i] = state[i]
             \/ state[i] = "dispatching" /\ state'[i] = "unknown_effect"
    BY <1>1, <2>1, ExpiredStep DEF States
  <2>3. TypeOK'
    BY <1>1, <1>2, <2>1, <2>2 DEF IInv, TypeOK, WorkerSteps
  <2>4. (AtMostOneSession /\ NoSessionForgotten /\ RowsAgree)'
    BY <1>1, <2>1, <2>2 DEF IInv, TypeOK, AtMostOneSession, NoSessionForgotten, RowsAgree
  <2>5. (TickAgrees /\ RequestsAgree)'
    BY <1>1, <2>1, <2>2 DEF IInv, TypeOK, RowsAgree, TickAgrees, RequestsAgree
  <2>6. SessionBudget' /\ SlotReserved'
    BY <1>1, <2>1, BudgetKept DEF IInv, SlotReserved
  <2>7. QED
    BY <2>3, <2>4, <2>5, <2>6 DEF IInv
<1>4. CASE state' = Expired /\ UNCHANGED <<lease, wpc, wjob>>
  <2>1. /\ state' \in [Jobs -> States]
        /\ \A i \in Jobs : \/ state'[i] = state[i]
                           \/ state[i] = "dispatching" /\ state'[i] = "unknown_effect"
    BY <1>1, <1>4, ExpiredStep
  <2>2. TypeOK'
    BY <1>1, <1>2, <1>4, <2>1 DEF IInv, TypeOK
  <2>3. (AtMostOneSession /\ NoSessionForgotten /\ RowsAgree)'
    BY <1>1, <2>1 DEF IInv, TypeOK, AtMostOneSession, NoSessionForgotten, RowsAgree
  <2>4. (TickAgrees /\ RequestsAgree /\ SlotReserved /\ SessionBudget)'
    BY <1>1, <1>4, <2>1, BudgetKept DEF IInv, TypeOK, TickAgrees, RequestsAgree, SlotReserved
  <2>5. QED
    BY <2>2, <2>3, <2>4 DEF IInv
<1>5. QED
  BY <1>3, <1>4 DEF Claim

-----------------------------------------------------------------------------
(* The worker's steps.                                                     *)

\* An integration never pays for a session.
LEMMA AssembleStep ==
  ASSUME IInv, Assemble
  PROVE  IInv'
<1>1. /\ state' \in [Jobs -> States]
      /\ wpc' # "release" => state' = state
      /\ \A i \in Jobs \ {wjob} : state'[i] = state[i] \/ (state[i] = "absent" /\ state'[i] = "queued")
      /\ wpc' = "release" => state'[wjob] \in {"integrated", "stale"}
  BY CommittedStep DEF Assemble, IInv, TypeOK, Goto, Fails, States, Settled
<1>2. TypeOK'
  BY <1>1 DEF Assemble, IInv, TypeOK, Goto, Fails, WorkerSteps, provider
<1>3. /\ wpc = "dispatch" /\ wpc' \in {"release", "uncertain", "fail"} /\ wjob' = wjob
      /\ wpc' = "fail" => wout' \in Classes
      /\ created' = created /\ session' = session /\ req' = req
      /\ Kind[wjob] = "integration"
  BY DEF Assemble, At, Goto, Fails, provider
<1>4. (AtMostOneSession /\ NoSessionForgotten /\ RowsAgree)'
  BY <1>1, <1>3 DEF IInv, TypeOK, AtMostOneSession, NoSessionForgotten, RowsAgree
<1>5. (TickAgrees /\ RequestsAgree /\ SlotReserved)'
  BY <1>1, <1>3 DEF IInv, TypeOK, RowsAgree, TickAgrees, RequestsAgree, SlotReserved
<1>6. QED
  BY <1>2, <1>3, <1>4, <1>5, BudgetKept DEF IInv

\* A refused dispatch leaves a job that has no session.
LEMMA PreflightStep ==
  ASSUME IInv, Preflight
  PROVE  IInv'
<1>1. /\ wpc = "dispatch" /\ wpc' \in {"reserve", "release", "fail"} /\ wjob' = wjob
      /\ wpc' = "fail" => wout' \in Classes
      /\ wpc' # "fail" => wout' = wout
      /\ UNCHANGED <<session, lease, due, attempts, req, created, working, crashes>>
      /\ Kind[wjob] # "integration"
  BY DEF Preflight, At, Goto, Fails, provider
<1>2. /\ state' \in [Jobs -> States]
      /\ state'[wjob] \in {state[wjob], "stale", "blocked", "validation_failed"}
      /\ \A i \in Jobs \ {wjob} : state'[i] = state[i] \/ (state[i] = "absent" /\ state'[i] = "queued")
  BY CommittedStep DEF Preflight, IInv, TypeOK, States, Settled, Held
<1>3. err' \in [Jobs -> BOOLEAN]
  BY DEF Preflight, IInv, TypeOK
<1>4. TypeOK'
  BY <1>1, <1>2, <1>3 DEF IInv, TypeOK, WorkerSteps
<1>5. (AtMostOneSession /\ NoSessionForgotten /\ RowsAgree)'
  BY <1>1, <1>2 DEF IInv, TypeOK, AtMostOneSession, NoSessionForgotten, RowsAgree, TickAgrees
<1>6. (TickAgrees /\ RequestsAgree /\ SlotReserved)'
  BY <1>1, <1>2 DEF IInv, TypeOK, RowsAgree, TickAgrees, RequestsAgree, SlotReserved
<1>7. QED
  BY <1>1, <1>4, <1>5, <1>6, BudgetKept DEF IInv

\* The budget check leaves room for the job's own session.
LEMMA ReserveStep ==
  ASSUME IInv, Reserve
  PROVE  IInv'
<1>1. /\ wpc = "reserve" /\ wpc' \in {"context", "fail"} /\ wjob' = wjob
      /\ wpc' = "fail" => wout' \in Classes
      /\ wpc' # "fail" => wout' = wout
      /\ UNCHANGED <<ledger, req, created, working, crashes>>
  BY DEF Reserve, At, Goto, Fails, provider, Classes
<1>2. TypeOK'
  BY <1>1 DEF IInv, TypeOK, WorkerSteps, ledger
<1>3. (AtMostOneSession /\ NoSessionForgotten /\ RowsAgree /\ TickAgrees /\ RequestsAgree)'
  BY <1>1 DEF IInv, TypeOK, AtMostOneSession, NoSessionForgotten, RowsAgree, TickAgrees,
     RequestsAgree, ledger
<1>4. SlotReserved'
  <2>1. SUFFICES ASSUME wpc' = "context"
                 PROVE  Cardinality(Counted \ {wjob}) + 1 <= MaxSessions
    BY <1>1 DEF SlotReserved, Counted, ledger
  <2>2. Cardinality(Counted \ {wjob}) + Reserved[Kind[wjob]] <= MaxSessions
    <3>1. ~(Cardinality(Counted \ {wjob}) + Reserved[Kind[wjob]] > MaxSessions)
      BY <2>1 DEF Reserve, Fails
    <3>2. Cardinality(Counted \ {wjob}) \in Nat
      BY SmallerSet DEF Counted
    <3>3. Reserved[Kind[wjob]] \in Nat
      BY DEF Reserved, IInv, TypeOK
    <3>4. QED
      BY <3>1, <3>2, <3>3
  <2>3. Kind[wjob] \in Kinds \ {"integration"}
    BY <1>1 DEF IInv, TypeOK, TickAgrees
  <2>4. Reserved[Kind[wjob]] \in Nat /\ Reserved[Kind[wjob]] >= 1
    BY <2>3 DEF Reserved, Kinds, SessionKinds
  <2>5. Cardinality(Counted \ {wjob}) \in Nat
    BY SmallerSet DEF Counted
  <2>6. QED
    BY <2>2, <2>4, <2>5
<1>5. QED
  BY <1>1, <1>2, <1>3, <1>4, BudgetKept DEF IInv

\* The recorded intent keeps the slot the budget check found.
LEMMA ContextStep ==
  ASSUME IInv, Context
  PROVE  IInv'
<1>1. /\ wpc = "context" /\ wpc' \in {"create", "fail"} /\ wjob' = wjob
      /\ wpc' = "fail" => wout' \in Classes /\ state' = state
      /\ wpc' # "fail" => wout' = wout /\ state' = [state EXCEPT ![wjob] = "dispatching"]
      /\ UNCHANGED <<session, lease, due, err, attempts, req, created, working, crashes>>
  BY DEF Context, At, Goto, Fails, provider, Classes
<1>2. TypeOK'
  BY <1>1 DEF IInv, TypeOK, WorkerSteps, States
<1>3. (AtMostOneSession /\ NoSessionForgotten /\ RowsAgree)'
  BY <1>1 DEF IInv, TypeOK, AtMostOneSession, NoSessionForgotten, RowsAgree, TickAgrees
<1>4. (TickAgrees /\ RequestsAgree)'
  BY <1>1 DEF IInv, TypeOK, RowsAgree, TickAgrees, RequestsAgree
<1>5. SlotReserved'
  BY <1>1, SlotKept DEF IInv, TypeOK, Counted
<1>6. QED
  BY <1>1, <1>2, <1>3, <1>4, <1>5, BudgetKept DEF IInv

\* The only step that adds a session: the job had none, and its slot is free.
LEMMA CreateStep ==
  ASSUME IInv, Create
  PROVE  IInv'
<1>1. /\ wpc = "create" /\ wpc' \in {"record", "uncertain", "fail"} /\ wjob' = wjob
      /\ wpc' = "fail" => wout' \in Classes /\ created' = created
      /\ wpc' # "fail" => wout' = wout
      /\ wpc' = "record" => created' = [created EXCEPT ![wjob] = @ + 1]
      /\ created' = created \/ created' = [created EXCEPT ![wjob] = @ + 1]
      /\ UNCHANGED <<ledger, req, crashes>>
  BY DEF Create, At, Goto, Fails, provider
<1>2. working' \in [Jobs -> BOOLEAN]
  BY DEF Create, IInv, TypeOK, provider
<1>3. TypeOK'
  BY <1>1, <1>2 DEF IInv, TypeOK, WorkerSteps, ledger
<1>4. (AtMostOneSession /\ NoSessionForgotten /\ RowsAgree)'
  BY <1>1 DEF IInv, TypeOK, AtMostOneSession, NoSessionForgotten, RowsAgree, TickAgrees, ledger
<1>5. (TickAgrees /\ RequestsAgree /\ SlotReserved)'
  <2>1. created[wjob] = 0 /\ state'[wjob] = "dispatching"
    BY <1>1 DEF IInv, TickAgrees, ledger
  <2>2. /\ created' \in [Jobs -> Nat]
        /\ \A j \in Jobs : created[j] > 0 => created'[j] > 0
        /\ wpc' = "record" => created'[wjob] > 0
        /\ wpc' = "fail" => created'[wjob] = 0
    BY <1>1, <2>1 DEF IInv, TypeOK
  <2>3. TickAgrees'
    BY <1>1, <2>1, <2>2 DEF IInv, TickAgrees, ledger
  <2>4. RequestsAgree'
    BY <1>1, <2>2 DEF IInv, TypeOK, RequestsAgree, ledger
  <2>5. QED
    BY <1>1, <2>3, <2>4 DEF SlotReserved
<1>6. SessionBudget'
  <2> DEFINE Paid == {j \in Jobs : created'[j] > 0}
  <2>1. Counted \in SUBSET Jobs /\ Counted \ {wjob} \in SUBSET Jobs
    BY DEF Counted
  <2>2. Paid \in SUBSET ((Counted \ {wjob}) \cup {wjob})
    BY <1>1 DEF IInv, TypeOK, NoSessionForgotten, RowsAgree, Counted
  <2>3. /\ IsFiniteSet(Counted \ {wjob})
        /\ Cardinality(Counted \ {wjob}) \in Nat
    BY <2>1, SmallerSet
  <2>4. /\ IsFiniteSet((Counted \ {wjob}) \cup {wjob})
        /\ Cardinality((Counted \ {wjob}) \cup {wjob}) = Cardinality(Counted \ {wjob}) + 1
    BY <2>3, FS_AddElement
  <2>5. Cardinality(Paid) <= Cardinality(Counted \ {wjob}) + 1
    BY <2>2, <2>4, FS_Subset
  <2>6. Cardinality(Counted \ {wjob}) + 1 <= MaxSessions
    BY <1>1 DEF IInv, SlotReserved
  <2>7. Cardinality(Paid) \in Nat
    BY <2>2, <2>4, FS_Subset, FS_CardinalityType
  <2>8. QED
    BY <2>3, <2>5, <2>6, <2>7 DEF SessionBudget
<1>7. QED
  BY <1>3, <1>4, <1>5, <1>6 DEF IInv

\* The acknowledged session is recorded on its job.
LEMMA RecordStep ==
  ASSUME IInv, Record
  PROVE  IInv'
<1>1. /\ wpc = "record" /\ wpc' = "release" /\ wjob' = wjob /\ wout' = wout
      /\ state' = [state EXCEPT ![wjob] = "running"]
      /\ session' = [session EXCEPT ![wjob] = TRUE]
      /\ due' = [due EXCEPT ![wjob] = FALSE]
      /\ UNCHANGED <<lease, err, attempts, req, created, working, crashes>>
  BY DEF Record, At, Goto, provider
<1>2. TypeOK'
  BY <1>1 DEF IInv, TypeOK, WorkerSteps, States
<1>3. (AtMostOneSession /\ NoSessionForgotten /\ RowsAgree)'
  BY <1>1 DEF IInv, TypeOK, AtMostOneSession, NoSessionForgotten, RowsAgree, TickAgrees
<1>4. (TickAgrees /\ RequestsAgree /\ SlotReserved)'
  BY <1>1 DEF IInv, TypeOK, TickAgrees, RequestsAgree, SlotReserved
<1>5. QED
  BY <1>1, <1>2, <1>3, <1>4, BudgetKept DEF IInv

\* A lost response leaves the job quarantined.
LEMMA UncertainStep ==
  ASSUME IInv, Uncertain
  PROVE  IInv'
<1>1. /\ wpc = "uncertain" /\ wpc' = "release" /\ wjob' = wjob /\ wout' = wout
      /\ state' = [state EXCEPT ![wjob] = "unknown_effect"]
      /\ err' = [err EXCEPT ![wjob] = TRUE]
      /\ UNCHANGED <<session, lease, due, attempts, req, created, working, crashes>>
  BY DEF Uncertain, At, Goto, provider
<1>2. TypeOK'
  BY <1>1 DEF IInv, TypeOK, WorkerSteps, States
<1>3. (AtMostOneSession /\ NoSessionForgotten /\ RowsAgree)'
  BY <1>1 DEF IInv, TypeOK, AtMostOneSession, NoSessionForgotten, RowsAgree
<1>4. (TickAgrees /\ RequestsAgree /\ SlotReserved)'
  BY <1>1 DEF IInv, TypeOK, TickAgrees, RequestsAgree, SlotReserved
<1>5. QED
  BY <1>1, <1>2, <1>3, <1>4, BudgetKept DEF IInv

\* Observing a session never hides it.
LEMMA PollStep ==
  ASSUME IInv, Poll
  PROVE  IInv'
<1>1. /\ wpc = "poll" /\ wpc' \in {"fail", "release", "finish", "uncertain"} /\ wjob' = wjob
      /\ wpc' = "fail" => wout' \in Classes
      /\ wpc' # "fail" => wout' = wout
      /\ state' = state \/ state' = [state EXCEPT ![wjob] = "needs_attention"]
      /\ UNCHANGED <<session, lease, attempts, req, created, crashes>>
  BY DEF Poll, At, Goto, Fails
<1>2. /\ due' \in [Jobs -> BOOLEAN]
      /\ err' \in [Jobs -> BOOLEAN]
      /\ working' \in [Jobs -> BOOLEAN]
  BY DEF Poll, IInv, TypeOK
<1>3. session[wjob] /\ wjob \in Jobs
  BY <1>1 DEF IInv, TypeOK, TickAgrees
<1>4. TypeOK'
  BY <1>1, <1>2 DEF IInv, TypeOK, WorkerSteps, States
<1>5. (AtMostOneSession /\ NoSessionForgotten /\ RowsAgree)'
  BY <1>1, <1>3 DEF IInv, TypeOK, AtMostOneSession, NoSessionForgotten, RowsAgree
<1>6. (TickAgrees /\ RequestsAgree /\ SlotReserved)'
  BY <1>1, <1>3 DEF IInv, TypeOK, TickAgrees, RequestsAgree, SlotReserved
<1>7. QED
  BY <1>1, <1>4, <1>5, <1>6, BudgetKept DEF IInv

\* A handoff settles its own row, queues absent ones and retires settled validations.
LEMMA FinishRows ==
  ASSUME IInv, Finish
  PROVE  /\ state' \in [Jobs -> States]
         /\ state'[wjob] \in {state[wjob], "needs_attention"} \cup Settled \cup {"stale"}
         /\ \A i \in Jobs \ {wjob} :
              \/ state'[i] = state[i]
              \/ state[i] = "absent" /\ state'[i] = "queued"
              \/ state[i] \in Gated /\ state'[i] = "stale"
<1>1. session[wjob] /\ wjob \in Jobs /\ state \in [Jobs -> States]
  BY DEF Finish, At, IInv, TypeOK, TickAgrees
<1>2. CASE \E new \in Outcomes(Kind[wjob]) : \E t \in Superseded(Kind[wjob]) :
             state' \in Committed(t, wjob, new, FollowUps(Kind[wjob]))
  <2>1. PICK new \in Outcomes(Kind[wjob]), t \in Superseded(Kind[wjob]) :
          state' \in Committed(t, wjob, new, FollowUps(Kind[wjob]))
    BY <1>2
  <2>2. new \in Settled \cup {"stale"} /\ new \in States \ {"absent"}
    <3>1. Kind[wjob] \in SessionKinds
      BY <1>1 DEF IInv, RowsAgree, TypeOK, Kinds
    <3>2. QED
      BY <3>1 DEF Outcomes, Settled, States, SessionKinds
  <2>3. /\ t \in [Jobs -> States]
        /\ t[wjob] = state[wjob]
        /\ \A i \in Jobs : t[i] = state[i] \/ (t[i] = "stale" /\ state[i] \in Gated)
    BY <1>1, SupersededStep
  <2>4. /\ state' \in [Jobs -> States]
        /\ state'[wjob] = new \/ (state'[wjob] = "stale" /\ t[wjob] = "stale")
        /\ \A i \in Jobs \ {wjob} :
             state'[i] = t[i] \/ (t[i] = "absent" /\ state'[i] = "queued")
    BY <1>1, <2>1, <2>2, <2>3, CommittedStep
  <2>5. QED
    BY <2>2, <2>3, <2>4
<1>3. CASE state' \in Committed(state, wjob, "needs_attention", {})
  <2>1. "needs_attention" \in States \ {"absent"}
    BY DEF States
  <2>2. /\ state' \in [Jobs -> States]
        /\ \/ state'[wjob] = "needs_attention"
           \/ state'[wjob] = "stale" /\ state[wjob] = "stale"
        /\ \A i \in Jobs \ {wjob} :
             state'[i] = state[i] \/ (state[i] = "absent" /\ state'[i] = "queued")
    BY <1>1, <1>3, <2>1, CommittedStep
  <2>3. QED
    BY <2>2
<1>4. CASE state' = [state EXCEPT ![wjob] = "needs_attention"]
  BY <1>1, <1>4 DEF States
<1>5. CASE state' = state
  BY <1>1, <1>5
<1>6. QED
  BY <1>2, <1>3, <1>4, <1>5 DEF Finish

\* A handoff commits with its follow-ups, and its session stays recorded.
LEMMA FinishStep ==
  ASSUME IInv, Finish
  PROVE  IInv'
<1>1. /\ wpc = "finish" /\ wpc' \in {"release", "uncertain", "fail"} /\ wjob' = wjob
      /\ wpc' = "fail" => wout' \in Classes
      /\ wpc' # "fail" => wout' = wout
      /\ UNCHANGED <<session, lease, due, attempts, req, created, working, crashes>>
  BY DEF Finish, At, Goto, Fails, provider
<1>2. session[wjob] /\ wjob \in Jobs /\ state \in [Jobs -> States]
  BY <1>1 DEF IInv, TypeOK, TickAgrees
<1>3. err' \in [Jobs -> BOOLEAN]
  <2>1. err \in [Jobs -> BOOLEAN]
    BY DEF IInv, TypeOK
  <2>2. CASE \E new \in Outcomes(Kind[wjob]) :
               err' = [j \in Jobs |->
                        \/ j = wjob /\ new \in {"validation_failed", "stale"}
                        \/ j # wjob /\ (err[j] \/ (state[j] # state'[j] /\ state'[j] = "stale"))]
    BY <2>2, Zenon
  <2>3. CASE err' = [err EXCEPT ![wjob] = TRUE] \/ err' = err
    BY <2>1, <2>3
  <2>4. QED
    BY <2>2, <2>3 DEF Finish
<1>4. /\ state' \in [Jobs -> States]
      /\ state'[wjob] \in {state[wjob], "needs_attention"} \cup Settled \cup {"stale"}
      /\ \A i \in Jobs \ {wjob} :
           \/ state'[i] = state[i]
           \/ state[i] = "absent" /\ state'[i] = "queued"
           \/ state[i] \in Gated /\ state'[i] = "stale"
  BY FinishRows
<1>5. TypeOK'
  BY <1>1, <1>3, <1>4 DEF IInv, TypeOK, WorkerSteps
<1>6. (AtMostOneSession /\ NoSessionForgotten /\ RowsAgree)'
  BY <1>1, <1>2, <1>4 DEF IInv, TypeOK, AtMostOneSession, NoSessionForgotten, RowsAgree,
     Gated, Settled
<1>7. (TickAgrees /\ RequestsAgree /\ SlotReserved)'
  BY <1>1, <1>2 DEF IInv, TypeOK, TickAgrees, RequestsAgree, SlotReserved
<1>8. QED
  BY <1>1, <1>5, <1>6, <1>7, BudgetKept DEF IInv

\* The recovery policy requeues only a job without a session.
LEMMA FailStep ==
  ASSUME IInv, Fail
  PROVE  IInv'
<1>1. /\ wpc = "fail" /\ wpc' \in {"release", "settle"} /\ wjob' = wjob
      /\ wpc' = "settle" =>
           wout' = FailureState(wout, attempts[wjob] + (IF wout \in {"hold", "circuit"} THEN 0 ELSE 1),
                                IF session[wjob] THEN "running" ELSE "queued")
      /\ wpc' = "release" => wout' = wout
      /\ UNCHANGED <<state, session, lease, due, err, req, created, working, crashes>>
  BY DEF Fail, At, provider
<1>2. /\ wjob \in Jobs /\ wout \in Classes
      /\ session[wjob] \/ created[wjob] = 0
  BY <1>1 DEF IInv, TypeOK, TickAgrees
<1>3. attempts' \in [Jobs -> Nat]
  BY DEF Fail, IInv, TypeOK
<1>4. wpc' = "settle" => /\ wout' \in {"queued", "running"} \cup Held
                         /\ wout' = "queued" => ~session[wjob]
                         /\ wout' = "running" => session[wjob]
  BY <1>1, <1>2 DEF FailureState, Classes, Held
<1>5. TypeOK'
  BY <1>1, <1>2, <1>3, <1>4 DEF IInv, TypeOK, WorkerSteps, States
<1>6. (AtMostOneSession /\ NoSessionForgotten /\ RowsAgree)'
  BY <1>1 DEF IInv, AtMostOneSession, NoSessionForgotten, RowsAgree
<1>7. (TickAgrees /\ RequestsAgree /\ SlotReserved)'
  BY <1>1, <1>2, <1>4 DEF IInv, TypeOK, TickAgrees, RequestsAgree, SlotReserved
<1>8. QED
  BY <1>1, <1>5, <1>6, <1>7, BudgetKept DEF IInv

\* The state the policy chose is written after the attempt was saved.
LEMMA SettleStep ==
  ASSUME IInv, Settle
  PROVE  IInv'
<1>1. /\ wpc = "settle" /\ wpc' = "release" /\ wjob' = wjob /\ wout' = wout
      /\ state' = [state EXCEPT ![wjob] = wout]
      /\ due' = [due EXCEPT ![wjob] = FALSE]
      /\ err' = [err EXCEPT ![wjob] = TRUE]
      /\ UNCHANGED <<session, lease, attempts, req, created, working, crashes>>
  BY DEF Settle, At, Goto, provider
<1>2. TypeOK'
  BY <1>1 DEF IInv, TypeOK, TickAgrees, WorkerSteps, States
<1>3. (AtMostOneSession /\ NoSessionForgotten /\ RowsAgree)'
  BY <1>1 DEF IInv, TypeOK, AtMostOneSession, NoSessionForgotten, RowsAgree, TickAgrees, Held
<1>4. (TickAgrees /\ RequestsAgree /\ SlotReserved)'
  BY <1>1 DEF IInv, TypeOK, TickAgrees, RequestsAgree, SlotReserved
<1>5. QED
  BY <1>1, <1>2, <1>3, <1>4, BudgetKept DEF IInv

\* The tick ends or dies: nothing but the lease and the attempts change.
LEMMA StopStep ==
  ASSUME IInv, Release \/ Crash
  PROVE  IInv'
<1>1. /\ wpc' = "idle" /\ wjob' \in Jobs /\ wout' = "none"
      /\ UNCHANGED <<state, session, due, err, req, created, working>>
  BY DEF Release, Crash, Stop, NoJob, ledger, provider
<1>2. lease' \in [Jobs -> BOOLEAN] /\ attempts' \in [Jobs -> Nat] /\ crashes' \in Nat
  <2>1. CASE Release
    BY <2>1 DEF Release, IInv, TypeOK
  <2>2. CASE Crash
    BY <2>2 DEF Crash, IInv, TypeOK, ledger
  <2>3. QED
    BY <2>1, <2>2
<1>3. TypeOK'
  BY <1>1, <1>2 DEF IInv, TypeOK, WorkerSteps
<1>4. (AtMostOneSession /\ NoSessionForgotten /\ RowsAgree /\ TickAgrees)'
  BY <1>1 DEF IInv, AtMostOneSession, NoSessionForgotten, RowsAgree, TickAgrees
<1>5. (RequestsAgree /\ SlotReserved)'
  BY <1>1 DEF IInv, RequestsAgree, SlotReserved
<1>6. QED
  BY <1>1, <1>3, <1>4, <1>5, BudgetKept DEF IInv

-----------------------------------------------------------------------------
(* The operator's steps.                                                   *)

\* A request between its read and its write changes no row.
LEMMA RequestStep ==
  ASSUME IInv, NEW r \in Requests, NEW step \in RequestSteps, NEW j \in Jobs,
         Serve(r, step, j),
         UNCHANGED <<ledger, worker, created, crashes>>, working' \in [Jobs -> BOOLEAN],
         step = "reconcile" => created[j] > 0,
         step = "requeue" => Kind[j] = "integration",
         step \in {"claim", "send", "sent", "refused", "doubt"} => session[j]
  PROVE  IInv'
<1>1. TypeOK'
  BY DEF Serve, IInv, TypeOK, ledger, worker
<1>2. (AtMostOneSession /\ NoSessionForgotten /\ RowsAgree /\ TickAgrees)'
  BY DEF IInv, AtMostOneSession, NoSessionForgotten, RowsAgree, TickAgrees, ledger, worker
<1>3. RequestsAgree'
  BY DEF Serve, IInv, TypeOK, RequestsAgree, ledger
<1>4. SlotReserved'
  BY SlotKept DEF IInv, Counted, ledger, worker
<1>5. QED
  BY <1>1, <1>2, <1>3, <1>4, BudgetKept DEF IInv

\* What a request may write to the row of job j and still preserve IInv.
LEMMA WriteStep ==
  ASSUME IInv, NEW r \in Requests, NEW step \in RequestSteps, NEW j \in Jobs,
         NEW h \in Jobs, Serve(r, step, h),
         step \in {"idle", "send"}, step = "send" => session'[h],
         state' \in [Jobs -> States], session' \in [Jobs -> BOOLEAN],
         lease' \in [Jobs -> BOOLEAN], due' \in [Jobs -> BOOLEAN],
         err' \in [Jobs -> BOOLEAN], attempts' \in [Jobs -> Nat],
         UNCHANGED <<worker, created, working, crashes>>,
         \A i \in Jobs \ {j} : /\ session'[i] = session[i]
                               /\ \/ state'[i] = state[i]
                                  \/ state[i] = "absent" /\ state'[i] = "queued",
         session[j] => session'[j],
         session'[j] => created[j] > 0,
         created[j] > 0 => session'[j],
         state'[j] \in {"absent", "queued"} => created[j] = 0,
         state'[j] = "running" => session'[j],
         state'[j] \in {"dispatching", "unknown_effect"} => session'[j],
         wpc = "create" => j # wjob \/ Kind[j] = "integration" \/ session'[j]
  PROVE  IInv'
<1>1. TypeOK'
  BY DEF Serve, IInv, TypeOK, worker
<1>2. (AtMostOneSession /\ NoSessionForgotten /\ RowsAgree)'
  BY DEF IInv, TypeOK, AtMostOneSession, NoSessionForgotten, RowsAgree
<1>3. TickAgrees'
  BY DEF IInv, TypeOK, RowsAgree, TickAgrees, worker
<1>4. RequestsAgree'
  BY DEF Serve, IInv, TypeOK, RequestsAgree
<1>5. SlotReserved'
  <2>1. Counted' \ {wjob} \subseteq Counted \ {wjob}
    BY DEF Counted, IInv, TypeOK, NoSessionForgotten, RowsAgree
  <2>2. QED
    BY <2>1, SlotKept DEF IInv, worker
<1>6. QED
  BY <1>1, <1>2, <1>3, <1>4, <1>5, BudgetKept DEF IInv

\* The read half of the operator's requests.
LEMMA ReadStep ==
  ASSUME IInv, NEW r \in Requests, NEW j \in Jobs,
         ReconcileRead(r, j) \/ ResumeIntegrationRead(r, j) \/ ResumeRead(r, j)
  PROVE  IInv'
<1>1. UNCHANGED <<ledger, worker, created, crashes>> /\ working' \in [Jobs -> BOOLEAN]
  BY DEF ReconcileRead, ResumeIntegrationRead, ResumeRead, IInv, TypeOK, provider
<1>2. CASE ReconcileRead(r, j)
  BY <1>1, <1>2, RequestStep DEF ReconcileRead, RequestSteps
<1>3. CASE ResumeIntegrationRead(r, j)
  BY <1>1, <1>3, RequestStep DEF ResumeIntegrationRead, RequestSteps
<1>4. CASE ResumeRead(r, j)
  BY <1>1, <1>4, RequestStep DEF ResumeRead, RequestSteps
<1>5. QED
  BY <1>2, <1>3, <1>4

\* recovery_routes.replay observes a paid session again and requeues an unpaid job.
LEMMA ReplayStep ==
  ASSUME IInv, NEW r \in Requests, NEW j \in Jobs, Replay(r, j)
  PROVE  IInv'
<1>1. /\ state[j] \in Held /\ session' = session
      /\ state' = [state EXCEPT ![j] = IF session[j] THEN "running" ELSE "queued"]
      /\ UNCHANGED <<worker, req, created, working, crashes>>
  BY DEF Replay, provider
<1>2. /\ state' \in [Jobs -> States] /\ lease' \in [Jobs -> BOOLEAN]
      /\ due' \in [Jobs -> BOOLEAN] /\ err' \in [Jobs -> BOOLEAN]
      /\ attempts' \in [Jobs -> Nat]
  BY DEF Replay, IInv, TypeOK, States
<1>3. created[j] > 0 => session[j]
  BY <1>1 DEF IInv, NoSessionForgotten, Held
<1>4. TypeOK'
  BY <1>1, <1>2 DEF IInv, TypeOK, worker
<1>5. (AtMostOneSession /\ NoSessionForgotten /\ RowsAgree)'
  BY <1>1, <1>2, <1>3 DEF IInv, TypeOK, AtMostOneSession, NoSessionForgotten, RowsAgree
<1>6. (TickAgrees /\ RequestsAgree)'
  BY <1>1, <1>2, <1>3 DEF IInv, TypeOK, TickAgrees, RequestsAgree, Held, worker
<1>7. SlotReserved'
  BY <1>1, SlotKept DEF IInv, TypeOK, Counted, Held, worker
<1>8. QED
  BY <1>1, <1>4, <1>5, <1>6, <1>7, BudgetKept DEF IInv

\* routes.reconcile binds the session that carries the job's tag.
LEMMA ReconcileWriteStep ==
  ASSUME IInv, NEW r \in Requests, ReconcileWrite(r)
  PROVE  IInv'
<1> DEFINE j == req[r].job
<1>1. j \in Jobs /\ created[j] > 0
  BY DEF ReconcileWrite, Serving, IInv, TypeOK, RequestsAgree
<1>2. /\ state' = [state EXCEPT ![j] = "running"]
      /\ session' = [session EXCEPT ![j] = TRUE]
      /\ due' = [due EXCEPT ![j] = TRUE]
      /\ err' = [err EXCEPT ![j] = FALSE]
      /\ Serve(r, "idle", NoJob)
      /\ UNCHANGED <<lease, attempts, worker, created, working, crashes>>
  BY DEF ReconcileWrite, Answer, provider
<1>3. NoJob \in Jobs
  BY DEF NoJob
<1> HIDE DEF j
<1>4. /\ state' \in [Jobs -> States] /\ session' \in [Jobs -> BOOLEAN]
      /\ due' \in [Jobs -> BOOLEAN] /\ err' \in [Jobs -> BOOLEAN]
      /\ lease' \in [Jobs -> BOOLEAN] /\ attempts' \in [Jobs -> Nat]
  BY <1>1, <1>2 DEF IInv, TypeOK, States
<1>5. /\ state'[j] = "running" /\ session'[j]
      /\ \A i \in Jobs \ {j} : session'[i] = session[i] /\ state'[i] = state[i]
  BY <1>1, <1>2 DEF IInv, TypeOK
<1>6. QED
  BY <1>1, <1>2, <1>3, <1>4, <1>5, WriteStep DEF RequestSteps

\* routes.resume_integration requeues a job that never pays.
LEMMA ResumeIntegrationWriteStep ==
  ASSUME IInv, NEW r \in Requests, ResumeIntegrationWrite(r)
  PROVE  IInv'
<1> DEFINE j == req[r].job
<1>1. j \in Jobs /\ Kind[j] = "integration"
  BY DEF ResumeIntegrationWrite, Serving, IInv, TypeOK, RequestsAgree
<1>2. /\ state' = [state EXCEPT ![j] = "queued"]
      /\ lease' = [lease EXCEPT ![j] = FALSE]
      /\ err' = [err EXCEPT ![j] = FALSE]
      /\ Serve(r, "idle", NoJob)
      /\ UNCHANGED <<session, due, attempts, worker, created, working, crashes>>
  BY DEF ResumeIntegrationWrite, Answer, provider
<1>3. NoJob \in Jobs
  BY DEF NoJob
<1> HIDE DEF j
<1>4. /\ state' \in [Jobs -> States] /\ session' \in [Jobs -> BOOLEAN]
      /\ due' \in [Jobs -> BOOLEAN] /\ err' \in [Jobs -> BOOLEAN]
      /\ lease' \in [Jobs -> BOOLEAN] /\ attempts' \in [Jobs -> Nat]
  BY <1>1, <1>2 DEF IInv, TypeOK, States
<1>5. created[j] = 0 /\ ~session[j]
  BY <1>1 DEF IInv, TypeOK, RowsAgree
<1>6. /\ state'[j] = "queued" /\ ~session'[j] /\ ~(created[j] > 0)
      /\ \A i \in Jobs \ {j} : session'[i] = session[i] /\ state'[i] = state[i]
  BY <1>1, <1>2, <1>5 DEF IInv, TypeOK
<1>7. QED
  BY <1>1, <1>2, <1>3, <1>4, <1>5, <1>6, WriteStep DEF RequestSteps

\* controls.resume_job claims the intent, or finds the candidate moved.
LEMMA ResumeClaimStep ==
  ASSUME IInv, NEW r \in Requests, ResumeClaim(r)
  PROVE  IInv'
<1> DEFINE j == req[r].job
<1>1. j \in Jobs /\ session[j] /\ created[j] > 0 /\ NoJob \in Jobs
  BY DEF ResumeClaim, Serving, IInv, TypeOK, RequestsAgree, RowsAgree, NoJob
<1>2. /\ session' = session
      /\ UNCHANGED <<lease, due, attempts, worker, created, working, crashes>>
  BY DEF ResumeClaim, provider
<1>3. CASE /\ state' \in Committed(state, j, "stale", {"validation"})
           /\ err' = [err EXCEPT ![j] = TRUE]
           /\ Answer(r)
  <2>1. "stale" \in States \ {"absent"} /\ state \in [Jobs -> States]
    BY DEF States, IInv, TypeOK
  <2>2. /\ state' \in [Jobs -> States]
        /\ state'[j] = "stale"
        /\ \A i \in Jobs \ {j} :
             state'[i] = state[i] \/ (state[i] = "absent" /\ state'[i] = "queued")
    BY <1>1, <1>3, <2>1, CommittedStep
  <2>3. err' \in [Jobs -> BOOLEAN]
    BY <1>3 DEF IInv, TypeOK
  <2> HIDE DEF j
  <2>4. QED
    BY <1>1, <1>2, <1>3, <2>2, <2>3, WriteStep DEF RequestSteps, Answer, IInv, TypeOK
<1>4. CASE /\ state' = [state EXCEPT ![j] = "unknown_effect"]
           /\ err' = [err EXCEPT ![j] = TRUE]
           /\ Serve(r, "send", j)
  <2> HIDE DEF j
  <2>1. /\ state' \in [Jobs -> States] /\ err' \in [Jobs -> BOOLEAN]
        /\ state'[j] = "unknown_effect"
        /\ \A i \in Jobs \ {j} : state'[i] = state[i]
    BY <1>1, <1>4 DEF IInv, TypeOK, States
  <2>2. QED
    BY <1>1, <1>2, <1>4, <2>1, WriteStep DEF RequestSteps, IInv, TypeOK
<1>5. CASE Answer(r) /\ UNCHANGED <<state, err>>
  BY <1>1, <1>2, <1>5, RequestStep DEF Answer, RequestSteps, IInv, TypeOK, ledger
<1>6. QED
  BY <1>3, <1>4, <1>5 DEF ResumeClaim

\* The message of a resume creates no session.
LEMMA ResumeSendStep ==
  ASSUME IInv, NEW r \in Requests, ResumeSend(r)
  PROVE  IInv'
<1> DEFINE j == req[r].job
<1>1. j \in Jobs /\ session[j]
  BY DEF ResumeSend, Serving, IInv, TypeOK, RequestsAgree
<1>2. UNCHANGED <<ledger, worker, created, crashes>> /\ working' \in [Jobs -> BOOLEAN]
  BY DEF ResumeSend, IInv, TypeOK
<1>3. PICK step \in {"sent", "refused", "doubt"} : Serve(r, step, j)
  BY DEF ResumeSend
<1> HIDE DEF j
<1>4. QED
  BY <1>1, <1>2, <1>3, RequestStep DEF RequestSteps

\* The outcome of a resume is written to a job whose session is recorded.
LEMMA ResumeRecordStep ==
  ASSUME IInv, NEW r \in Requests, ResumeRecord(r)
  PROVE  IInv'
<1> DEFINE j == req[r].job
<1>1. j \in Jobs /\ session[j] /\ created[j] > 0 /\ NoJob \in Jobs
  BY DEF ResumeRecord, Serving, IInv, TypeOK, RequestsAgree, RowsAgree, NoJob
<1>2. /\ \E new \in {"running", "needs_attention", "unknown_effect"} :
           state' = [state EXCEPT ![j] = new]
      /\ due' \in [Jobs -> BOOLEAN] /\ err' \in [Jobs -> BOOLEAN]
      /\ Serve(r, "idle", NoJob) /\ session' = session
      /\ UNCHANGED <<lease, attempts, worker, created, working, crashes>>
  BY DEF ResumeRecord, Answer, IInv, TypeOK, provider
<1> HIDE DEF j
<1>3. /\ state' \in [Jobs -> States]
      /\ state'[j] \in {"running", "needs_attention", "unknown_effect"}
      /\ \A i \in Jobs \ {j} : state'[i] = state[i]
  BY <1>1, <1>2 DEF IInv, TypeOK, States
<1>4. QED
  BY <1>1, <1>2, <1>3, WriteStep DEF RequestSteps, IInv, TypeOK

\* Any operator request, dying ones included.
LEMMA OperatorStep ==
  ASSUME IInv, Operator
  PROVE  IInv'
<1>1. ASSUME NEW r \in Requests, RequestDies(r)
      PROVE  IInv'
  <2>1. NoJob \in Jobs
    BY DEF NoJob
  <2>2. QED
    BY <1>1, <2>1, RequestStep DEF RequestDies, Answer, RequestSteps, IInv, TypeOK, provider
<1>2. QED
  BY <1>1, ReadStep, ReplayStep, ReconcileWriteStep, ResumeIntegrationWriteStep,
     ResumeClaimStep, ResumeSendStep, ResumeRecordStep DEF Operator

-----------------------------------------------------------------------------
(* The theorems.                                                           *)

\* The empty ledger satisfies the invariant.
LEMMA InitIInv == Init => IInv
<1> SUFFICES ASSUME Init PROVE IInv
  OBVIOUS
<1>1. TypeOK
  BY DEF Init, TypeOK, States, WorkerSteps, RequestSteps, NoJob
<1>2. AtMostOneSession /\ NoSessionForgotten /\ RowsAgree
  BY DEF Init, AtMostOneSession, NoSessionForgotten, RowsAgree
<1>3. TickAgrees /\ RequestsAgree /\ SlotReserved
  BY DEF Init, TickAgrees, RequestsAgree, SlotReserved
<1>4. SessionBudget
  <2>1. {j \in Jobs : created[j] > 0} = {}
    BY DEF Init
  <2>2. QED
    BY <2>1, FS_EmptySet DEF SessionBudget
<1>5. QED
  BY <1>1, <1>2, <1>3, <1>4 DEF IInv

\* Every step preserves the invariant.
LEMMA NextIInv == IInv /\ [Next]_vars => IInv'
<1> SUFFICES ASSUME IInv, [Next]_vars PROVE IInv'
  OBVIOUS
<1>1. CASE UNCHANGED vars
  BY <1>1, Frame DEF vars, ledger, worker, provider, IInv, TypeOK
<1>2. CASE Tick
  BY <1>2, AssembleStep, PreflightStep, ReserveStep, ContextStep, CreateStep, RecordStep,
     UncertainStep, PollStep, FinishStep, FailStep, SettleStep, StopStep DEF Tick
<1>3. QED
  BY <1>1, <1>2, ClaimStep, StopStep, EnvironmentStep, OperatorStep DEF Next

\* The ledger, the worker, the requests in flight and the provider agree at
\* every step, however requests, crashes and lost responses interleave.
THEOREM Agreement == Spec => []IInv
BY InitIInv, NextIInv, PTL DEF Spec

\* Every variable keeps its type.
THEOREM TypeCorrect == Spec => []TypeOK
<1>1. IInv => TypeOK
  BY DEF IInv
<1>2. QED
  BY <1>1, Agreement, PTL

\* No job ever owns two paid sessions (store.py:51-78, engine.py:187-225,
\* routes.py:186-206).
THEOREM OneSessionPerJob == Spec => []AtMostOneSession
<1>1. IInv => AtMostOneSession
  BY DEF IInv
<1>2. QED
  BY <1>1, Agreement, PTL

\* A paid session stays known to the ledger (docs/RESILIENCE.md:51).
THEOREM NothingForgotten == Spec => []NoSessionForgotten
<1>1. IInv => NoSessionForgotten
  BY DEF IInv
<1>2. QED
  BY <1>1, Agreement, PTL

\* The lifetime budget bounds the sessions at the provider, the uncertain ones
\* included (engine.py:171-183, store.py:193-198).
THEOREM BudgetRespected == Spec => []SessionBudget
<1>1. IInv => SessionBudget
  BY DEF IInv
<1>2. QED
  BY <1>1, Agreement, PTL

-----------------------------------------------------------------------------
(* One request at a time: FInv is inductive beside IInv.                   *)

\* Which jobs keep the queue closed depends on their rows alone.
LEMMA SameLive ==
  ASSUME NEW j \in Jobs, state'[j] = state[j], session'[j] = session[j]
  PROVE  Live(state, j)' <=> Live(state, j)
BY DEF Live

\* While no job begins to keep the queue closed, one does at most.
LEMMA OneStaysLive ==
  ASSUME OneLive, \A j \in Jobs : Live(state, j)' => Live(state, j)
  PROVE  OneLive'
BY DEF OneLive

\* Steps that leave alone everything FInv relates; agents may stop.
LEMMA FlightFrame ==
  ASSUME IInv, FInv, UNCHANGED <<state, session, created, req>>,
         \A j \in Jobs : working'[j] => working[j],
         wpc' = wpc \/ wpc' \in {"idle", "release"}
                    \/ (wpc = "dispatch" /\ wpc' \in {"reserve", "uncertain", "fail"})
                    \/ (wpc = "reserve" /\ wpc' \in {"context", "fail"})
                    \/ (wpc \in {"context", "create"} /\ wpc' = "fail")
                    \/ (wpc = "create" /\ wpc' = "uncertain")
                    \/ (wpc = "poll" /\ wpc' \in {"uncertain", "fail"})
                    \/ (wpc = "poll" /\ wpc' = "finish" /\ ~working[wjob])
                    \/ (wpc = "finish" /\ wpc' \in {"uncertain", "fail"})
                    \/ (wpc = "fail" /\ wpc' = "settle"),
         wjob' = wjob \/ wpc' = "idle"
  PROVE  FInv'
<1>1. \A j \in Jobs : Live(state, j)' <=> Live(state, j)
  BY DEF Live
<1>2. OneLive'
  BY <1>1, OneStaysLive DEF FInv
<1>3. RowInHand'
  BY DEF FInv, RowInHand
<1>4. RowAsked'
  BY DEF FInv, RowAsked, IInv, TypeOK
<1>5. AgentsKnown'
  BY <1>1 DEF FInv, AgentsKnown, NoAgentAbandoned, IInv, TypeOK
<1> QED
  BY <1>2, <1>3, <1>4, <1>5 DEF FInv

\* A tick writes the row in hand: no request is concerned, and the other rows keep
\* what FInv relates.
LEMMA FlightTick ==
  ASSUME IInv, IInv', FInv, state[wjob] \in {"dispatching", "running"},
         UNCHANGED <<wjob, req>>,
         \A j \in Jobs \ {wjob} :
           /\ session'[j] = session[j] /\ working'[j] = working[j] /\ created'[j] = created[j]
           /\ \/ state'[j] = state[j]
              \/ state[j] = "absent" /\ state'[j] = "queued"
              \/ state[j] \in Gated /\ state'[j] = "stale",
         working'[wjob] => created'[wjob] > 0 /\ Live(state, wjob)',
         state'[wjob] = "needs_attention" => ~working'[wjob],
         wpc' = "finish" => ~working'[wjob],
         RowInHand'
  PROVE  FInv'
<1>1. wjob \in Jobs /\ Live(state, wjob)
  BY DEF IInv, TypeOK, Live
<1>2. ASSUME NEW j \in Jobs \ {wjob} PROVE Live(state, j)' <=> Live(state, j)
  BY <1>2 DEF Live, Gated, Held, IInv, TypeOK, RowsAgree
<1>3. OneLive'
  BY <1>1, <1>2, OneStaysLive DEF FInv
<1>4. RowAsked'
  <2>1. ASSUME NEW r \in Requests, req[r].pc # "idle" PROVE req[r].job \in Jobs \ {wjob}
    BY <2>1 DEF FInv, RowAsked, IInv, TypeOK, RequestSteps
  <2>2. ASSUME NEW j \in Jobs, state[j] \in {"unknown_effect", "needs_attention", "blocked"}
        PROVE  j # wjob /\ state'[j] = state[j]
    BY <2>2 DEF Gated
  <2> QED
    BY <2>1, <2>2 DEF FInv, RowAsked
<1>5. AgentsKnown'
  BY <1>1, <1>2 DEF FInv, AgentsKnown, NoAgentAbandoned, Gated
<1> QED
  BY <1>3, <1>4, <1>5 DEF FInv

\* Store.claim starts a queued job only when nothing keeps the queue closed.
LEMMA FlightClaim ==
  ASSUME IInv, FInv, Claim
  PROVE  FInv'
<1>1. /\ state \in [Jobs -> States] /\ session \in [Jobs -> BOOLEAN] /\ wpc = "idle"
      /\ UNCHANGED <<session, created, working, req>>
  BY DEF Claim, IInv, TypeOK, provider, At
<1>2. \A j \in Jobs : Live(Expired, j) <=> Live(state, j)
  BY <1>1, ExpiredStep DEF Live, Held
<1>3. ASSUME \A j \in Jobs : state'[j] = Expired[j], RowInHand', wpc' # "finish"
      PROVE  FInv'
  <2>1. \A j \in Jobs : Live(state, j)' <=> Live(state, j)
    BY <1>1, <1>2, <1>3 DEF Live
  <2>2. OneLive'
    BY <2>1, OneStaysLive DEF FInv
  <2>3. RowAsked'
    BY <1>1, <1>3, ExpiredStep DEF FInv, RowAsked, IInv, TypeOK
  <2>4. NoAgentAbandoned'
    BY <1>1, <2>1 DEF FInv, AgentsKnown, NoAgentAbandoned
  <2>5. AgentsKnown'
    BY <1>1, <1>3, <2>4, ExpiredStep DEF FInv, AgentsKnown
  <2> QED
    BY <1>3, <2>2, <2>3, <2>5 DEF FInv
<1>4. ASSUME NEW allow \in AllowDispatch, Claimable(Expired, allow) = {}, state' = Expired,
             wpc' = wpc
      PROVE  FInv'
  BY <1>1, <1>3, <1>4 DEF RowInHand
<1>5. ASSUME NEW allow \in AllowDispatch, NEW j \in Claimable(Expired, allow),
             state' = [Expired EXCEPT ![j] = IF @ = "queued" THEN "dispatching" ELSE @],
             wpc' = IF state[j] = "queued" THEN "dispatch" ELSE "poll",
             wjob' = j
      PROVE  FInv'
  <2>1. /\ j \in Jobs /\ state[j] \in {"running", "queued"} /\ Expired[j] = state[j]
        /\ Expired \in [Jobs -> States]
    BY <1>1, ClaimableStep, ExpiredStep
  <2>2. CASE state[j] = "running"
    BY <1>3, <1>5, <2>1, <2>2 DEF RowInHand
  <2>3. CASE state[j] = "queued"
    <3>1. \A i \in Jobs : ~Live(state, i)
      BY <1>2, <1>5, <2>1, <2>3 DEF Claimable
    <3>2. /\ state'[j] = "dispatching"
          /\ \A i \in Jobs \ {j} : state'[i] = state[i]
      BY <1>1, <1>5, <2>1, <2>3, <3>1, ExpiredStep DEF Live
    <3>3. \A i \in Jobs \ {j} : ~Live(state, i)'
      BY <1>1, <3>1, <3>2 DEF Live
    <3>4. OneLive'
      BY <3>3 DEF OneLive
    <3>5. RowInHand'
      BY <1>5, <2>3, <3>2 DEF RowInHand
    <3>6. RowAsked'
      BY <1>1, <2>3, <3>2 DEF FInv, RowAsked, IInv, TypeOK
    <3>7. \A i \in Jobs : ~working[i]
      BY <3>1 DEF FInv, AgentsKnown, NoAgentAbandoned
    <3>8. AgentsKnown'
      BY <1>1, <1>5, <2>1, <2>3, <3>7 DEF AgentsKnown, NoAgentAbandoned
    <3> QED
      BY <3>4, <3>5, <3>6, <3>8 DEF FInv
  <2> QED
    BY <2>1, <2>2, <2>3
<1> QED
  BY <1>4, <1>5 DEF Claim

\* Engine.tick: assembling a batch creates no session.
LEMMA FlightAssemble ==
  ASSUME IInv, IInv', FInv, Assemble
  PROVE  FInv'
<1>1. /\ state \in [Jobs -> States] /\ wjob \in Jobs /\ state[wjob] = "dispatching"
      /\ UNCHANGED <<session, created, working, req, wjob>>
  BY DEF Assemble, IInv, TypeOK, provider, FInv, RowInHand, At, Goto, Fails
<1>2. CASE UNCHANGED state
  BY <1>1, <1>2, FlightFrame DEF Assemble, At, Goto, Fails
<1>3. CASE state' \in Committed(state, wjob, "integrated", {"validation"}) /\ Goto("release")
  <2>1. /\ state'[wjob] = "integrated"
        /\ \A i \in Jobs \ {wjob} :
             state'[i] = state[i] \/ (state[i] = "absent" /\ state'[i] = "queued")
    BY <1>1, <1>3, CommittedStep DEF States, Settled
  <2>2. ~working[wjob]
    BY <1>1 DEF IInv, RowsAgree, FInv, AgentsKnown, Assemble
  <2> QED
    BY <1>1, <1>3, <2>1, <2>2, FlightTick DEF Goto, RowInHand
<1> QED
  BY <1>2, <1>3 DEF Assemble

\* The checks before a session leave a job to the next step or refuse it; it has
\* no agent yet.
LEMMA FlightPreflight ==
  ASSUME IInv, IInv', FInv, Preflight
  PROVE  FInv'
<1>1. /\ state \in [Jobs -> States] /\ wjob \in Jobs /\ state[wjob] = "dispatching"
      /\ UNCHANGED <<session, created, working, req, wjob>>
      /\ wpc = "dispatch" /\ ~working[wjob]
  BY DEF Preflight, IInv, TypeOK, TickAgrees, provider, FInv, RowInHand, AgentsKnown, At, Goto, Fails
<1>2. CASE UNCHANGED state /\ wpc' \in {"reserve", "fail", "release"}
  BY <1>1, <1>2, FlightFrame
<1>3. CASE wpc' = "release" /\ state' = [state EXCEPT ![wjob] = "stale"]
  BY <1>1, <1>3, FlightTick DEF RowInHand
<1>4. CASE wpc' = "release" /\ state' = [state EXCEPT ![wjob] = "blocked"]
  BY <1>1, <1>4, FlightTick DEF RowInHand
<1>5. ASSUME NEW new \in {"stale", "validation_failed"}, NEW kinds, wpc' = "release",
             state' \in Committed(state, wjob, new, kinds)
      PROVE  FInv'
  <2>1. /\ state'[wjob] = new
        /\ \A i \in Jobs \ {wjob} :
             state'[i] = state[i] \/ (state[i] = "absent" /\ state'[i] = "queued")
    BY <1>1, <1>5, CommittedStep DEF States, Settled
  <2> QED
    BY <1>1, <1>5, <2>1, FlightTick DEF RowInHand
<1> QED
  BY <1>2, <1>3, <1>4, <1>5 DEF Preflight, Goto, Fails

\* The budget check writes nothing.
LEMMA FlightReserve ==
  ASSUME IInv, FInv, Reserve
  PROVE  FInv'
BY FlightFrame DEF Reserve, At, Goto, Fails, ledger, provider

\* The intent to create is written on a row that says so already.
LEMMA FlightContext ==
  ASSUME IInv, IInv', FInv, Context
  PROVE  FInv'
<1>1. /\ wjob \in Jobs /\ state \in [Jobs -> States] /\ state[wjob] = "dispatching"
      /\ ~working[wjob] /\ wpc' \in {"create", "fail"}
      /\ UNCHANGED <<session, created, working, req, wjob>>
  BY DEF Context, IInv, TypeOK, TickAgrees, provider, FInv, RowInHand, AgentsKnown, At, Goto, Fails
<1>2. state' = state
  BY <1>1 DEF Context
<1> QED
  BY <1>1, <1>2, FlightTick DEF RowInHand

\* An agent begins to work on the one job that is live.
LEMMA FlightCreate ==
  ASSUME IInv, IInv', FInv, Create
  PROVE  FInv'
<1>1. /\ wjob \in Jobs /\ state[wjob] = "dispatching" /\ ~working[wjob]
      /\ wpc' \in {"record", "uncertain", "fail"}
      /\ UNCHANGED <<state, session, req, wjob>>
      /\ created \in [Jobs -> Nat] /\ working \in [Jobs -> BOOLEAN]
  BY DEF Create, IInv, TypeOK, TickAgrees, ledger, FInv, RowInHand, AgentsKnown, At, Goto, Fails
<1>2. \/ UNCHANGED provider
      \/ /\ created' = [created EXCEPT ![wjob] = @ + 1]
         /\ working' = [working EXCEPT ![wjob] = TRUE]
  BY DEF Create
<1>3. working'[wjob] => created'[wjob] > 0
  BY <1>1, <1>2 DEF provider
<1>4. \A j \in Jobs \ {wjob} : working'[j] = working[j] /\ created'[j] = created[j]
  BY <1>1, <1>2 DEF provider
<1>5. Live(state, wjob)' /\ RowInHand'
  BY <1>1 DEF Live, RowInHand
<1> QED
  BY <1>1, <1>3, <1>4, <1>5, FlightTick

\* The row of the created session is live before and after it is recorded.
LEMMA FlightRecord ==
  ASSUME IInv, IInv', FInv, Record
  PROVE  FInv'
<1>1. /\ wjob \in Jobs /\ state[wjob] = "dispatching" /\ created[wjob] > 0 /\ wpc' = "release"
      /\ state \in [Jobs -> States] /\ session \in [Jobs -> BOOLEAN]
      /\ state' = [state EXCEPT ![wjob] = "running"]
      /\ session' = [session EXCEPT ![wjob] = TRUE]
      /\ UNCHANGED <<created, working, req, wjob>>
  BY DEF Record, IInv, TypeOK, TickAgrees, provider, FInv, RowInHand, At, Goto
<1>2. Live(state, wjob)' /\ RowInHand'
  BY <1>1 DEF Live, RowInHand
<1> QED
  BY <1>1, <1>2, FlightTick

\* A quarantined row keeps the queue closed.
LEMMA FlightUncertain ==
  ASSUME IInv, IInv', FInv, Uncertain
  PROVE  FInv'
<1>1. /\ wjob \in Jobs /\ state[wjob] \in {"dispatching", "running"} /\ wpc' = "release"
      /\ state \in [Jobs -> States]
      /\ state' = [state EXCEPT ![wjob] = "unknown_effect"]
      /\ UNCHANGED <<session, created, working, req, wjob>>
  BY DEF Uncertain, IInv, TypeOK, provider, FInv, RowInHand, At, Goto
<1>2. Live(state, wjob)' /\ RowInHand'
  BY <1>1 DEF Live, RowInHand
<1>3. working'[wjob] => created'[wjob] > 0
  BY <1>1 DEF FInv, AgentsKnown
<1> QED
  BY <1>1, <1>2, <1>3, FlightTick

\* An observed job stays live, and asks for attention only when its agent stopped.
LEMMA FlightPoll ==
  ASSUME IInv, IInv', FInv, Poll
  PROVE  FInv'
<1>1. /\ wjob \in Jobs /\ state[wjob] = "running" /\ wpc = "poll"
      /\ state \in [Jobs -> States] /\ working \in [Jobs -> BOOLEAN]
      /\ UNCHANGED <<session, created, req, wjob>>
  BY DEF Poll, IInv, TypeOK, FInv, RowInHand, At, Goto, Fails
<1>2. /\ wpc' \in {"fail", "release", "uncertain"} \/ (wpc' = "finish" /\ ~working[wjob])
      /\ working' \in {working, [working EXCEPT ![wjob] = FALSE]}
      /\ \/ state' = state
         \/ /\ state' = [state EXCEPT ![wjob] = "needs_attention"]
            /\ ~working'[wjob] /\ wpc' = "release"
  BY <1>1 DEF Poll, Goto, Fails
<1>3. CASE state' = state
  BY <1>1, <1>2, <1>3, FlightFrame
<1>4. CASE /\ state' = [state EXCEPT ![wjob] = "needs_attention"]
           /\ ~working'[wjob] /\ wpc' = "release"
  BY <1>1, <1>2, <1>4, FlightTick DEF RowInHand
<1> QED
  BY <1>2, <1>3, <1>4

\* A handoff settles a row whose agent has stopped.
LEMMA FlightFinish ==
  ASSUME IInv, IInv', FInv, Finish
  PROVE  FInv'
<1>1. /\ wjob \in Jobs /\ state[wjob] = "running" /\ wpc = "finish" /\ ~working[wjob]
      /\ wpc' \in {"release", "uncertain", "fail"}
      /\ wpc' # "release" => state' = state
      /\ UNCHANGED <<session, created, working, req, wjob>>
  BY DEF Finish, IInv, TypeOK, FInv, RowInHand, AgentsKnown, At, Goto, Fails, provider
<1>2. RowInHand'
  BY <1>1 DEF RowInHand
<1> QED
  BY <1>1, <1>2, FinishRows, FlightTick

\* The state a failed job will get is chosen before it is written.
LEMMA FlightFail ==
  ASSUME IInv, FInv, Fail
  PROVE  FInv'
<1>1. wpc = "fail" /\ wpc' \in {"settle", "release"} /\ wjob' = wjob
  BY DEF Fail, At
<1> QED
  BY <1>1, FlightFrame DEF Fail, provider

\* A failed job with a session stays live, under each state the policy chooses.
LEMMA FlightSettle ==
  ASSUME IInv, IInv', FInv, Settle
  PROVE  FInv'
<1>1. /\ wjob \in Jobs /\ state[wjob] \in {"dispatching", "running"} /\ wpc' = "release"
      /\ state \in [Jobs -> States] /\ created \in [Jobs -> Nat]
      /\ state' = [state EXCEPT ![wjob] = wout]
      /\ wout \in {"queued", "running"} \cup Held
      /\ session[wjob] \/ created[wjob] = 0
      /\ wout = "queued" => created[wjob] = 0
      /\ UNCHANGED <<session, created, working, req, wjob>>
  BY DEF Settle, IInv, TypeOK, TickAgrees, provider, FInv, RowInHand, At, Goto
<1>2. working[wjob] => created[wjob] > 0
  BY <1>1 DEF FInv, AgentsKnown
<1>3. created[wjob] > 0 => Live(state, wjob)'
  BY <1>1 DEF Live
<1>4. state'[wjob] # "needs_attention" /\ RowInHand'
  BY <1>1 DEF RowInHand, Held
<1> QED
  BY <1>1, <1>2, <1>3, <1>4, FlightTick

\* The tick ends or dies.
LEMMA FlightStop ==
  ASSUME IInv, FInv, Release \/ Crash
  PROVE  FInv'
BY FlightFrame DEF Release, Crash, Stop, ledger, provider

\* New rows are queued without a session; agents only stop.
LEMMA FlightEnvironment ==
  ASSUME IInv, IInv', FInv, Environment
  PROVE  FInv'
<1>1. CASE Enqueue
  <2>1. /\ \A i \in Jobs : state'[i] = state[i] \/ (state[i] = "absent" /\ state'[i] = "queued")
        /\ UNCHANGED <<session, created, working, req, wjob, wpc>>
    BY <1>1, InsertedStep DEF Enqueue, IInv, TypeOK, worker, provider
  <2>2. \A j \in Jobs : Live(state, j)' <=> Live(state, j)
    BY <2>1 DEF Live, Held
  <2>3. OneLive'
    BY <2>2, OneStaysLive DEF FInv
  <2>4. RowInHand'
    BY <2>1 DEF FInv, RowInHand, IInv, TypeOK
  <2>5. RowAsked'
    BY <2>1 DEF FInv, RowAsked, IInv, TypeOK
  <2>6. AgentsKnown'
    BY <2>1, <2>2 DEF FInv, AgentsKnown, NoAgentAbandoned
  <2> QED
    BY <2>3, <2>4, <2>5, <2>6 DEF FInv
<1>2. ASSUME NEW j \in Jobs, LeaseExpires(j) \/ PollDue(j) \/ AgentStops(j)
      PROVE  FInv'
  <2>1. /\ UNCHANGED <<state, session, created, req, wpc, wjob>>
        /\ \A i \in Jobs : working'[i] => working[i]
    BY <1>2 DEF LeaseExpires, PollDue, AgentStops, IInv, TypeOK, ledger, worker, provider
  <2> QED
    BY <2>1, FlightFrame
<1> QED
  BY <1>1, <1>2 DEF Environment

\* With one request at a time, RowAsked is about that request.
LEMMA FlightAsked ==
  ASSUME IInv, OneRequest, NEW r \in Requests, NEW step, NEW j,
         Serve(r, step, j),
         step = "reconcile" => state'[j] \in {"unknown_effect", "needs_attention"},
         step = "requeue" => state'[j] \in {"unknown_effect", "needs_attention", "blocked"},
         step = "claim" => state'[j] = "needs_attention",
         step \in {"send", "sent", "refused", "doubt"} => state'[j] = "unknown_effect",
         step \in {"claim", "send", "refused"} => ~working'[j]
  PROVE  RowAsked'
<1>1. \A q \in Requests : req'[q] = [pc |-> step, job |-> j]
  BY DEF Serve, IInv, TypeOK, OneRequest
<1> QED
  BY <1>1 DEF RowAsked

\* A request writes a row that no tick has in hand.
LEMMA FlightWrite ==
  ASSUME IInv, FInv, NEW j \in Jobs, UNCHANGED <<wpc, wjob, created>>,
         state[j] \in {"unknown_effect", "needs_attention"} \cup Held,
         \A i \in Jobs \ {j} :
           /\ session'[i] = session[i] /\ working'[i] = working[i]
           /\ state'[i] = state[i] \/ (state[i] = "absent" /\ state'[i] = "queued"),
         Live(state, j)' => Live(state, j),
         working'[j] => created[j] > 0 /\ Live(state, j)',
         state'[j] = "needs_attention" => ~working'[j],
         RowAsked'
  PROVE  FInv'
<1>1. ASSUME NEW i \in Jobs \ {j} PROVE Live(state, i)' <=> Live(state, i)
  BY <1>1 DEF Live, Held
<1>2. OneLive'
  BY <1>1, OneStaysLive DEF FInv
<1>3. wpc \in {"dispatch", "reserve", "context", "create", "record", "poll", "finish",
               "uncertain", "fail", "settle"} => wjob \in Jobs \ {j} /\ state'[wjob] = state[wjob]
  BY DEF FInv, RowInHand, Held, IInv, TypeOK
<1>4. RowInHand'
  BY <1>3 DEF FInv, RowInHand
<1>5. AgentsKnown'
  BY <1>1, <1>3 DEF FInv, AgentsKnown, NoAgentAbandoned
<1> QED
  BY <1>2, <1>4, <1>5 DEF FInv

\* A step of a request that writes no row starts or answers it.
LEMMA FlightRead ==
  ASSUME IInv, FInv, OneRequest, NEW r \in Requests, NEW j \in Jobs,
         ReconcileRead(r, j) \/ ResumeIntegrationRead(r, j) \/ ResumeRead(r, j) \/ RequestDies(r)
  PROVE  FInv'
<1>1. RowAsked'
  BY FlightAsked DEF ReconcileRead, ResumeIntegrationRead, ResumeRead, RequestDies, Answer,
     ledger, provider, FInv, AgentsKnown
<1>2. UNCHANGED <<state, session, working, created, wpc, wjob>>
  BY DEF ReconcileRead, ResumeIntegrationRead, ResumeRead, RequestDies, ledger, provider, worker
<1>3. \A i \in Jobs : Live(state, i)' <=> Live(state, i)
  BY <1>2 DEF Live
<1>4. OneLive' /\ RowInHand' /\ AgentsKnown'
  BY <1>2, <1>3, OneStaysLive DEF FInv, RowInHand, AgentsKnown, NoAgentAbandoned
<1> QED
  BY <1>1, <1>4 DEF FInv

\* The row a reconciliation writes was live when it was read, and is still.
LEMMA FlightReconcileWrite ==
  ASSUME IInv, FInv, OneRequest, NEW r \in Requests, ReconcileWrite(r)
  PROVE  FInv'
<1>0. PICK j \in Jobs : j = req[r].job
  BY DEF IInv, TypeOK
<1>1. /\ j \in Jobs /\ state[j] \in {"unknown_effect", "needs_attention"} /\ created[j] > 0
      /\ state \in [Jobs -> States] /\ session \in [Jobs -> BOOLEAN]
      /\ state' = [state EXCEPT ![j] = "running"]
      /\ session' = [session EXCEPT ![j] = TRUE]
      /\ UNCHANGED <<created, working, wpc, wjob>>
  BY <1>0 DEF ReconcileWrite, Serving, provider, worker, FInv, RowAsked, IInv, TypeOK, RequestsAgree
<1>2. RowAsked'
  BY <1>0, FlightAsked DEF ReconcileWrite, Answer
<1>3. Live(state, j) /\ Live(state, j)' /\ state'[j] # "needs_attention"
  BY <1>1 DEF Live
<1> QED
  BY <1>1, <1>2, <1>3, FlightWrite

\* A batch has no session, so its row is free when it is queued again.
LEMMA FlightResumeIntegrationWrite ==
  ASSUME IInv, FInv, OneRequest, NEW r \in Requests, ResumeIntegrationWrite(r)
  PROVE  FInv'
<1>0. PICK j \in Jobs : j = req[r].job
  BY DEF IInv, TypeOK
<1>1. /\ j \in Jobs /\ state[j] \in {"unknown_effect", "needs_attention", "blocked"}
      /\ state \in [Jobs -> States] /\ Kind[j] = "integration"
      /\ state' = [state EXCEPT ![j] = "queued"]
      /\ UNCHANGED <<session, created, working, wpc, wjob>>
  BY <1>0 DEF ResumeIntegrationWrite, Serving, provider, worker, FInv, RowAsked, IInv, TypeOK,
     RequestsAgree
<1>2. RowAsked'
  BY <1>0, FlightAsked DEF ResumeIntegrationWrite, Answer
<1>3. ~working[j]
  BY <1>1 DEF FInv, AgentsKnown, IInv, RowsAgree
<1>4. ~Live(state, j)' /\ state'[j] # "needs_attention"
  BY <1>1 DEF Live, Held
<1> QED
  BY <1>1, <1>2, <1>3, <1>4, FlightWrite DEF Held

\* A resumption claims a row that waits for attention, or retires a validation.
LEMMA FlightResumeClaim ==
  ASSUME IInv, FInv, OneRequest, NEW r \in Requests, ResumeClaim(r)
  PROVE  FInv'
<1>0. PICK j \in Jobs : j = req[r].job
  BY DEF IInv, TypeOK
<1>1. /\ j \in Jobs /\ state[j] = "needs_attention" /\ ~working[j]
      /\ state \in [Jobs -> States]
      /\ UNCHANGED <<session, created, working, wpc, wjob>>
  BY <1>0 DEF ResumeClaim, Serving, provider, worker, FInv, RowAsked, IInv, TypeOK
<1>2. Live(state, j)
  BY <1>1 DEF Live
<1>3. CASE state' \in Committed(state, j, "stale", {"validation"}) /\ Answer(r)
  <2>1. /\ state'[j] = "stale"
        /\ \A i \in Jobs \ {j} : state'[i] = state[i] \/ (state[i] = "absent" /\ state'[i] = "queued")
    BY <1>1, <1>3, CommittedStep DEF States
  <2>2. RowAsked'
    BY <1>0, <1>3, FlightAsked DEF Answer
  <2> QED
    BY <1>1, <1>2, <2>1, <2>2, FlightWrite
<1>4. CASE state' = [state EXCEPT ![j] = "unknown_effect"] /\ Serve(r, "send", j)
  <2>1. state'[j] = "unknown_effect" /\ ~working'[j]
    BY <1>1, <1>4
  <2>2. RowAsked'
    BY <1>0, <1>4, <2>1, FlightAsked
  <2> QED
    BY <1>1, <1>2, <1>4, <2>1, <2>2, FlightWrite
<1> QED
  BY <1>0, <1>1, <1>3, <1>4 DEF ResumeClaim

\* The message sent starts the agent of the row the request has claimed.
LEMMA FlightResumeSend ==
  ASSUME IInv, FInv, OneRequest, NEW r \in Requests, ResumeSend(r)
  PROVE  FInv'
<1>0. PICK j \in Jobs : j = req[r].job
  BY DEF IInv, TypeOK
<1>1. /\ j \in Jobs /\ state[j] = "unknown_effect" /\ created[j] > 0 /\ ~working[j]
      /\ working \in [Jobs -> BOOLEAN]
      /\ working' = working \/ working' = [working EXCEPT ![j] = TRUE]
      /\ UNCHANGED <<state, session, created, wpc, wjob>>
  BY <1>0 DEF ResumeSend, Serving, ledger, worker, FInv, RowAsked, IInv, TypeOK, RequestsAgree, RowsAgree
<1>2. RowAsked'
  <2>1. CASE Serve(r, "sent", j) \/ Serve(r, "doubt", j)
    BY <1>0, <1>1, <2>1, FlightAsked
  <2>2. CASE Serve(r, "refused", j) /\ UNCHANGED working
    BY <1>1, <2>2, FlightAsked
  <2> QED
    BY <1>0, <2>1, <2>2 DEF ResumeSend
<1>3. Live(state, j) /\ Live(state, j)'
  BY <1>1 DEF Live
<1> QED
  BY <1>1, <1>2, <1>3, FlightWrite

\* What the answer of the provider decided is recorded on the claimed row.
LEMMA FlightResumeRecord ==
  ASSUME IInv, FInv, OneRequest, NEW r \in Requests, ResumeRecord(r)
  PROVE  FInv'
<1>0. PICK j \in Jobs : j = req[r].job
  BY DEF IInv, TypeOK
<1>1. /\ j \in Jobs /\ state[j] = "unknown_effect" /\ created[j] > 0
      /\ state \in [Jobs -> States]
      /\ \/ state' = [state EXCEPT ![j] = "running"]
         \/ state' = [state EXCEPT ![j] = "needs_attention"] /\ ~working[j]
         \/ state' = [state EXCEPT ![j] = "unknown_effect"]
      /\ UNCHANGED <<session, created, working, wpc, wjob>>
  BY <1>0 DEF ResumeRecord, Serving, provider, worker, FInv, RowAsked, IInv, TypeOK, RequestsAgree,
     RowsAgree
<1>2. RowAsked'
  BY <1>0, FlightAsked DEF ResumeRecord, Answer
<1>3. Live(state, j) /\ Live(state, j)'
  BY <1>1 DEF Live
<1>4. state'[j] = "needs_attention" => ~working[j]
  BY <1>1
<1> QED
  BY <1>1, <1>2, <1>3, <1>4, FlightWrite

\* A replay continues a session that held the queue, or queues a job without one.
LEMMA FlightReplay ==
  ASSUME IInv, FInv, OneRequest, NEW r \in Requests, NEW j \in Jobs, Replay(r, j)
  PROVE  FInv'
<1>1. /\ state[j] \in Held /\ state \in [Jobs -> States]
      /\ state' = [state EXCEPT ![j] = IF session[j] THEN "running" ELSE "queued"]
      /\ UNCHANGED <<session, created, working, wpc, wjob, req>>
  BY DEF Replay, provider, worker, IInv, TypeOK
<1>2. \A q \in Requests : req[q].pc = "idle"
  BY DEF Replay, Serving, OneRequest
<1>3. RowAsked'
  BY <1>1, <1>2 DEF RowAsked
<1>4. Live(state, j)' <=> Live(state, j)
  BY <1>1 DEF Live, Held
<1>5. working[j] => created[j] > 0 /\ Live(state, j)
  BY DEF FInv, AgentsKnown, NoAgentAbandoned
<1> QED
  BY <1>1, <1>3, <1>4, <1>5, FlightWrite

LEMMA FlightOperator ==
  ASSUME IInv, FInv, OneRequest, Operator
  PROVE  FInv'
BY FlightReplay, FlightRead, FlightReconcileWrite, FlightResumeIntegrationWrite,
   FlightResumeClaim, FlightResumeSend, FlightResumeRecord, JobsAssumption DEF Operator

LEMMA InitFInv == Init => FInv
<1> SUFFICES ASSUME Init PROVE FInv
  OBVIOUS
<1>1. OneLive
  BY DEF Init, OneLive, Live, Held
<1>2. RowInHand /\ RowAsked
  BY DEF Init, RowInHand, RowAsked
<1>3. AgentsKnown
  BY DEF Init, AgentsKnown, NoAgentAbandoned
<1> QED
  BY <1>1, <1>2, <1>3 DEF FInv

LEMMA NextFInv ==
  ASSUME OneRequest, IInv, FInv, [Next]_vars
  PROVE  FInv'
<1>1. IInv'
  BY NextIInv
<1>2. CASE Tick
  BY <1>1, <1>2, FlightAssemble, FlightPreflight, FlightReserve, FlightContext, FlightCreate,
     FlightRecord, FlightUncertain, FlightPoll, FlightFinish, FlightFail, FlightSettle,
     FlightStop DEF Tick
<1>3. CASE UNCHANGED vars
  <2>1. UNCHANGED <<state, session, created, working, req, wpc, wjob>>
    BY <1>3 DEF vars, ledger, worker, provider
  <2> QED
    BY <2>1, FlightFrame
<1> QED
  BY <1>1, <1>2, <1>3, FlightClaim, FlightStop, FlightEnvironment, FlightOperator DEF Next

\* When operators' requests are served one at a time, every reachable state satisfies FInv.
LEMMA Flight == ASSUME OneRequest PROVE Spec => []FInv
<1>1. Init => FInv
  BY InitFInv
<1>2. IInv /\ FInv /\ [Next]_vars => FInv'
  BY NextFInv
<1> QED
  BY <1>1, <1>2, Agreement, PTL DEF Spec

\* A set of jobs without two different members has at most one.
LEMMA AtMostOneMember ==
  ASSUME NEW S \in SUBSET Jobs, \A i, j \in S : i = j
  PROVE  Cardinality(S) <= 1
<1>1. CASE S = {}
  BY <1>1, FS_EmptySet
<1>2. ASSUME NEW j \in S PROVE Cardinality(S) <= 1
  <2>1. S = {j}
    BY <1>2
  <2> QED
    BY <2>1, FS_Singleton
<1> QED
  BY <1>1, <1>2

\* Single flight (store.py:66-73): whatever fails, crashes, expires or is replayed,
\* one job at most keeps the queue closed, while operators act one at a time.
THEOREM OneInFlight == ASSUME OneRequest PROVE Spec => []SingleFlight
<1>1. FInv => SingleFlight
  BY AtMostOneMember DEF FInv, OneLive, SingleFlight
<1> QED
  BY <1>1, Flight, PTL

\* An agent that works belongs to a job that keeps the queue closed (engine.py:187-300),
\* under the same condition.
THEOREM AgentsAttended == ASSUME OneRequest PROVE Spec => []NoAgentAbandoned
<1>1. FInv => NoAgentAbandoned
  BY DEF FInv, AgentsKnown
<1> QED
  BY <1>1, Flight, PTL

\* So agents never work side by side at the provider.
THEOREM AgentsAlone == ASSUME OneRequest PROVE Spec => []OneAgentWorking
<1>1. FInv => OneAgentWorking
  BY AtMostOneMember DEF FInv, OneLive, AgentsKnown, NoAgentAbandoned, OneAgentWorking
<1> QED
  BY <1>1, Flight, PTL
=============================================================================
