------------------------------- MODULE Outbox -------------------------------
(***************************************************************************)
(* The publication outbox (automation/outbox.py, the publications table of *)
(* automation/store.py) with the recovery policy of a failed delivery      *)
(* (automation/resilience.py), the operator's replay of a record           *)
(* (automation/recovery_routes.py) and the destinations behind the network *)
(* (automation/providers.py).                                              *)
(*                                                                         *)
(* The worker delivers one publication at a time; each of its steps ends   *)
(* at a commit or at a provider's answer.  A publication is a plain report *)
(* (no validation metadata), a report about one candidate revision, or the *)
(* promotion of a draft pull request.  Clocks are abstracted to what they  *)
(* decide: old[k] says that publications.updated is more than 180 seconds  *)
(* ago, hold[k] that recovery.next_retry is in the future.                 *)
(***************************************************************************)
EXTENDS Integers, FiniteSets

CONSTANTS
  Keys,            \* publication keys
  Kind,            \* what each key publishes
  MaxAttempts,     \* resilience.MAX_ATTEMPTS
  Operator,        \* BOOLEAN: the operator may replay records
  MaxCrashes       \* bound on worker deaths

Kinds == {"plain", "report", "ready"}

ASSUME KeysAssumption == IsFiniteSet(Keys) /\ Keys # {}
ASSUME KindAssumption == Kind \in [Keys -> Kinds]
ASSUME AttemptsAssumption == MaxAttempts \in Nat \ {0}
ASSUME BoundsAssumption == Operator \in BOOLEAN /\ MaxCrashes \in Nat

VARIABLES
  pub,        \* publications.state, or "absent" before the row exists
  receipt,    \* publications.receipt IS NOT NULL
  old,        \* publications.updated < now - 180
  before,     \* <<x, y>>: publications.updated of x is smaller than of y
  attempts,   \* recovery.attempts, 0 without a row
  hold,       \* recovery.next_retry > now
  wpc,        \* where the worker stands in flush_publication
  wkey,       \* the publication it claimed
  wout,       \* the class of the failure it is recording
  candidate,  \* the pull request revision the key speaks about
  draft,      \* GitHub: the pull request is a draft
  posted,     \* writes that took effect: none, one, or more than one (2)
  crashes

rows   == <<pub, receipt, old, before, attempts, hold>>
worker == <<wpc, wkey, wout>>
world  == <<candidate, draft, posted>>
vars   == <<rows, worker, world, crashes>>

States == {"absent", "pending", "sending", "confirming", "delivered", "sent",
           "unknown_effect", "stale", "dead_letter", "blocked"}

\* Provider errors by what resilience.failure does with them.
Classes == {"hold", "circuit", "transient", "permanent"}

Steps == {"idle", "check", "ci", "look", "send", "readback", "ack", "doubt",
          "confirm", "clear", "fail", "settle"}

\* current: the gate's job is settled and its revision is the head of the pull
\* request; busy: the job runs again; moved: another revision replaced it.
Candidates == {"current", "busy", "moved"}

TypeOK ==
  /\ pub \in [Keys -> States]
  /\ receipt \in [Keys -> BOOLEAN]
  /\ old \in [Keys -> BOOLEAN]
  /\ before \subseteq Keys \X Keys
  /\ attempts \in [Keys -> Nat]
  /\ hold \in [Keys -> BOOLEAN]
  /\ wpc \in Steps
  /\ wkey \in Keys
  /\ wout \in {"none"} \cup Classes
  /\ candidate \in [Keys -> Candidates]
  /\ draft \in [Keys -> BOOLEAN]
  /\ posted \in [Keys -> 0..2]
  /\ crashes \in Nat

Init ==
  /\ pub = [k \in Keys |-> "absent"]
  /\ receipt = [k \in Keys |-> FALSE]
  /\ old = [k \in Keys |-> FALSE]
  /\ before = {}
  /\ attempts = [k \in Keys |-> 0]
  /\ hold = [k \in Keys |-> FALSE]
  /\ wpc = "idle"
  /\ wkey = CHOOSE k \in Keys : TRUE
  /\ wout = "none"
  /\ candidate = [k \in Keys |-> "current"]
  /\ draft = [k \in Keys |-> TRUE]
  /\ posted = [k \in Keys |-> 0]
  /\ crashes = 0

-----------------------------------------------------------------------------
(* Writing a row.                                                          *)

\* Mutant: a write leaves the row at its old place in the delivery order.
TouchInPlace(k) ==
  /\ old' = [old EXCEPT ![k] = FALSE]
  /\ before' = before \cup {<<x, k>> : x \in {y \in Keys \ {k} : <<k, y>> \notin before}}

\* updated = now: the row becomes the youngest.
Touch(k) ==
  /\ old' = [old EXCEPT ![k] = FALSE]
  /\ before' = {p \in before : p[1] # k /\ p[2] # k} \cup {<<x, k>> : x \in Keys \ {k}}

\* Store.finish_publication without a receipt: the stored one stays.
Finish(k, s) ==
  /\ pub' = [pub EXCEPT ![k] = s]
  /\ Touch(k)
  /\ UNCHANGED receipt

\* A publication is queued with the transaction that settles its job.
Queue(k) ==
  /\ pub[k] = "absent"
  /\ Finish(k, "pending")
  /\ UNCHANGED <<attempts, hold, worker, world, crashes>>

-----------------------------------------------------------------------------
(* Time and the people around the pull request.                            *)

\* old[k] is read in these two states only.
Ages(k) ==
  /\ pub[k] \in {"sending", "confirming"} /\ ~old[k]
  /\ old' = [old EXCEPT ![k] = TRUE]
  /\ UNCHANGED <<pub, receipt, before, attempts, hold, worker, world, crashes>>

RetryDue(k) ==
  /\ hold[k]
  /\ hold' = [hold EXCEPT ![k] = FALSE]
  /\ UNCHANGED <<pub, receipt, old, before, attempts, worker, world, crashes>>

\* The validation is resumed or gated again, or a push replaces its revision;
\* a stale job is never revived.
Moves(k) ==
  /\ Kind[k] # "plain" /\ pub[k] # "absent" /\ candidate[k] # "moved"
  /\ \E c \in Candidates \ {candidate[k]} : candidate' = [candidate EXCEPT ![k] = c]
  /\ UNCHANGED <<rows, worker, draft, posted, crashes>>

\* A maintainer promotes the pull request or converts it back to a draft.
Toggles(k) ==
  /\ Kind[k] = "ready" /\ pub[k] # "absent"
  /\ draft' = [draft EXCEPT ![k] = ~@]
  /\ UNCHANGED <<rows, worker, candidate, posted, crashes>>

-----------------------------------------------------------------------------
(* The worker: flush_publication.                                          *)

\* Mutant: a send whose worker is gone is taken for one that never happened.
ExpiredRetried ==
  [k \in Keys |-> IF ~old[k] THEN pub[k]
                  ELSE IF pub[k] = "sending" THEN "pending"
                  ELSE IF pub[k] = "confirming" /\ receipt[k] THEN "delivered"
                  ELSE pub[k]]

\* Mutant: nothing looks for a confirmation whose worker is gone.
ExpiredConfirmationKept ==
  [k \in Keys |-> IF old[k] /\ pub[k] = "sending" THEN "unknown_effect" ELSE pub[k]]

\* The first two statements of Store.claim_publication.
Expired ==
  [k \in Keys |-> IF ~old[k] THEN pub[k]
                  ELSE IF pub[k] = "sending" THEN "unknown_effect"
                  ELSE IF pub[k] = "confirming" /\ receipt[k] THEN "delivered"
                  ELSE pub[k]]

Ready(k) == Expired[k] \in {"pending", "delivered"} /\ ~hold[k]

\* Mutant: the check is skipped for a publication that was tried before.
FirstStepCheckedOnce(k) ==
  IF receipt[k] THEN "confirm"
  ELSE IF Kind[k] = "plain" \/ attempts[k] > 0 THEN "send" ELSE "check"

FirstStep(k) == IF receipt[k] THEN "confirm"
                ELSE IF Kind[k] = "plain" THEN "send" ELSE "check"

\* The oldest row that is due.
Claim(k) ==
  /\ wpc = "idle"
  /\ Ready(k) /\ \A x \in Keys : Ready(x) => <<x, k>> \notin before
  /\ pub' = [Expired EXCEPT ![k] = IF receipt[k] THEN "confirming" ELSE "sending"]
  /\ Touch(k)
  /\ wkey' = k /\ wpc' = FirstStep(k)
  /\ UNCHANGED <<receipt, attempts, hold, wout, world, crashes>>

\* Nothing is due: the two repairs are committed all the same.
ClaimNothing ==
  /\ wpc = "idle"
  /\ \A k \in Keys : ~Ready(k)
  /\ pub' = Expired
  /\ UNCHANGED <<receipt, old, before, attempts, hold, worker, world, crashes>>

\* A provider call fails with an error that proves nothing was written.
Fails(c) ==
  /\ wpc' = "fail" /\ wout' = c
  /\ UNCHANGED <<rows, wkey, world, crashes>>

GoesTo(step) ==
  /\ wpc' = step
  /\ UNCHANGED <<rows, wkey, wout, world, crashes>>

\* The row is closed and the worker goes on to the next task.
Closes(s) ==
  /\ Finish(wkey, s)
  /\ wpc' = "idle"
  /\ UNCHANGED <<attempts, hold, wkey, wout, world, crashes>>

\* current_report: the job, then the pull request.
Check(c) ==
  /\ wpc = "check"
  /\ \/ candidate[wkey] = "busy" /\ Fails("transient")
     \/ candidate[wkey] # "busy" /\ Fails(c)
     \/ candidate[wkey] = "moved" /\ Closes("stale")
     \/ /\ candidate[wkey] = "current"
        /\ GoesTo(IF Kind[wkey] = "ready" THEN "ci" ELSE "send")

\* ci_status of a promotion: a revision that moved meanwhile is a ValueError,
\* which flush_publication files as an uncertain effect.
Ci(c) ==
  /\ wpc = "ci"
  /\ \/ candidate[wkey] = "busy" /\ Closes("stale")
     \/ Fails(c)
     \/ candidate[wkey] = "moved" /\ GoesTo("doubt")
     \/ candidate[wkey] # "moved" /\ Closes("stale")
     \/ candidate[wkey] = "current" /\ GoesTo("look")

\* mark_ready reads the pull request before it writes.
Look(c) ==
  /\ wpc = "look"
  /\ \/ Fails(c)
     \/ candidate[wkey] = "moved" /\ Fails("permanent")
     \/ candidate[wkey] # "moved" /\ GoesTo(IF draft[wkey] THEN "send" ELSE "ack")

\* The write takes effect; its answer arrives or is lost.
Applied ==
  /\ posted' = [posted EXCEPT ![wkey] = IF @ < 2 THEN @ + 1 ELSE @]
  /\ draft' = [draft EXCEPT ![wkey] = IF Kind[wkey] = "ready" THEN FALSE ELSE @]
  /\ \/ wpc' = "doubt"
     \/ wpc' = IF Kind[wkey] = "ready" THEN "readback" ELSE "ack"
  /\ UNCHANGED <<rows, wkey, wout, candidate, crashes>>

Send(c) ==
  /\ wpc = "send"
  /\ \/ Applied
     \/ GoesTo("doubt")
     \/ Fails(c)

\* mark_ready reads its own write.
Readback(c) ==
  /\ wpc = "readback"
  /\ \/ Fails(c)
     \/ candidate[wkey] = "moved" /\ Fails("permanent")
     \/ candidate[wkey] # "moved" /\ GoesTo(IF draft[wkey] THEN "doubt" ELSE "ack")

\* The acknowledged write is stored before any readback.
Ack ==
  /\ wpc = "ack"
  /\ pub' = [pub EXCEPT ![wkey] = "confirming"]
  /\ receipt' = [receipt EXCEPT ![wkey] = TRUE]
  /\ Touch(wkey)
  /\ wpc' = "confirm"
  /\ UNCHANGED <<attempts, hold, wkey, wout, world, crashes>>

Uncertain == wpc = "doubt" /\ Closes("unknown_effect")

\* The destination is read back; only a promotion's answer depends on us.
Confirm(c) ==
  /\ wpc = "confirm"
  /\ \/ Fails(c)
     \/ Kind[wkey] = "ready" /\ candidate[wkey] = "moved" /\ Fails("permanent")
     \/ Kind[wkey] = "ready" /\ draft[wkey] /\ Fails("transient")
     \/ /\ Kind[wkey] = "ready" => candidate[wkey] # "moved" /\ ~draft[wkey]
        /\ Finish(wkey, "sent")
        /\ wpc' = "clear"
        /\ UNCHANGED <<attempts, hold, wkey, wout, world, crashes>>

\* Recovery.clear.
Clear ==
  /\ wpc = "clear"
  /\ attempts' = [attempts EXCEPT ![wkey] = 0]
  /\ hold' = [hold EXCEPT ![wkey] = FALSE]
  /\ wpc' = "idle"
  /\ UNCHANGED <<pub, receipt, old, before, wkey, wout, world, crashes>>

Counts(c) == c \in {"transient", "permanent"}

\* The state Recovery.failure returns, once the attempt is saved.
FailureState(k) ==
  CASE wout = "hold" -> "blocked"
    [] wout = "permanent" -> "dead_letter"
    [] wout = "transient" /\ attempts[k] >= MaxAttempts -> "dead_letter"
    [] OTHER -> IF receipt[k] THEN "delivered" ELSE "pending"

\* Recovery.failure saves the attempt in one transaction ...
Fail ==
  /\ wpc = "fail"
  /\ attempts' = [attempts EXCEPT ![wkey] = @ + (IF Counts(wout) THEN 1 ELSE 0)]
  /\ hold' = [hold EXCEPT ![wkey] = TRUE]
  /\ wpc' = "settle"
  /\ UNCHANGED <<pub, receipt, old, before, wkey, wout, world, crashes>>

\* ... and publication_failure the state it chose in a second one.
Settle ==
  /\ wpc = "settle"
  /\ Finish(wkey, FailureState(wkey))
  /\ wpc' = "idle" /\ wout' = "none"
  /\ UNCHANGED <<attempts, hold, wkey, world, crashes>>

\* The worker dies, or an error flush_publication does not catch ends its turn.
Crash ==
  /\ wpc # "idle" /\ crashes < MaxCrashes
  /\ wpc' = "idle" /\ wout' = "none" /\ crashes' = crashes + 1
  /\ UNCHANGED <<rows, wkey, world>>

\* reconcile_readiness: an uncertain promotion is settled from what GitHub
\* shows and from the gate, or left as it is.
ReconcileReady(k) ==
  /\ wpc = "idle" /\ Kind[k] = "ready" /\ pub[k] = "unknown_effect"
  /\ \/ candidate[k] = "moved" /\ Finish(k, "stale")
     \/ /\ candidate[k] = "current" /\ ~draft[k]
        /\ pub' = [pub EXCEPT ![k] = "sent"]
        /\ receipt' = [receipt EXCEPT ![k] = TRUE]
        /\ Touch(k)
  /\ UNCHANGED <<attempts, hold, worker, world, crashes>>

\* Mutant: a replay starts the delivery over although a receipt is stored.
ReplayFromStart(k) ==
  /\ Operator /\ pub[k] \in {"dead_letter", "blocked", "delivered"}
  /\ pub' = [pub EXCEPT ![k] = "pending"]
  /\ receipt' = [receipt EXCEPT ![k] = FALSE]
  /\ Touch(k)
  /\ attempts' = [attempts EXCEPT ![k] = 0]
  /\ hold' = [hold EXCEPT ![k] = FALSE]
  /\ UNCHANGED <<worker, world, crashes>>

\* recovery_routes.replay of a publication, with a new request id.
Replay(k) ==
  /\ Operator /\ pub[k] \in {"dead_letter", "blocked", "delivered"}
  /\ Finish(k, IF receipt[k] THEN "delivered" ELSE "pending")
  /\ attempts' = [attempts EXCEPT ![k] = 0]
  /\ hold' = [hold EXCEPT ![k] = FALSE]
  /\ UNCHANGED <<worker, world, crashes>>

-----------------------------------------------------------------------------
Asks(c) == Check(c) \/ Ci(c) \/ Look(c) \/ Send(c) \/ Readback(c) \/ Confirm(c)

Records == Ack \/ Uncertain \/ Clear \/ Fail \/ Settle

Next ==
  \/ \E k \in Keys : \/ Queue(k) \/ Ages(k) \/ RetryDue(k) \/ Moves(k) \/ Toggles(k)
                     \/ Claim(k) \/ ReconcileReady(k) \/ Replay(k)
  \/ ClaimNothing
  \/ \E c \in Classes : Asks(c)
  \/ Records
  \/ Crash

Spec == Init /\ [][Next]_vars

\* The outbox task runs in every cycle of the worker, clocks advance, and
\* nothing more: providers may fail for ever.
WorkerStep == \/ \E k \in Keys : Claim(k)
              \/ ClaimNothing \/ Records
              \/ \E c \in Classes : Asks(c)

Fairness == /\ WF_vars(WorkerStep)
            /\ \A k \in Keys : WF_vars(Ages(k)) /\ WF_vars(RetryDue(k))

WorkSpec == Spec /\ Fairness

-----------------------------------------------------------------------------
(* Properties.                                                             *)

Comments == {k \in Keys : Kind[k] # "ready"}

\* No report is written twice at its destination, whatever crashes, lost
\* answers, retries and replays happen (RESILIENCE.md: no assumption that an
\* ambiguous write failed).
AtMostOnce == \A k \in Comments : posted[k] <= 1

\* A publication in unknown_effect is never written again, by the worker, the
\* readiness reconciliation or the operator; this covers promotions too, whose
\* mutation may otherwise be repeated after its acknowledgement was lost.
UncertainNeverResent ==
  \A k \in Keys : \A n \in 0..1 :
    [](pub[k] = "unknown_effect" /\ posted[k] = n => [](posted[k] = n))

\* Evidence about a revision that was replaced while its publication waited in
\* the queue is never written, however often the delivery is retried.
StaleNeverPosted ==
  \A k \in Keys : \A n \in 0..1 :
    [](pub[k] = "pending" /\ candidate[k] = "moved" /\ posted[k] = n
         => [](posted[k] = n))

\* The attempts of one recovery cycle stay within the limit, except that a
\* crash between the two transactions of a failed confirmation grants one more.
RetriesBounded == \A k \in Keys : attempts[k] <= MaxAttempts + crashes

\* A publication whose provider keeps failing does not keep the others from
\* being claimed: the queue is served oldest first.
NoStarvation ==
  \A k \in Keys : pub[k] = "pending" /\ ~hold[k]
                    ~> pub[k] # "pending" \/ hold[k]

Final == {"sent", "stale", "unknown_effect", "dead_letter", "blocked"}

\* From some time on no open circuit refuses a request.
CircuitsClose == <>[](wpc = "fail" => wout # "circuit")

\* Unless circuits keep opening for ever, every queued publication is delivered
\* or comes to rest in a state that is shown to the operator.
Settles ==
  CircuitsClose =>
    \A k \in Keys : pub[k] \notin Final \cup {"absent"} ~> pub[k] \in Final

\* What is known of a report, for the abstract specification.
Outcome(k) ==
  CASE pub[k] = "absent" -> "absent"
    [] receipt[k] /\ pub[k] = "sent" -> "confirmed"
    [] receipt[k] /\ pub[k] # "sent" -> "acknowledged"
    [] ~receipt[k] /\ (posted[k] > 0 \/ pub[k] = "unknown_effect") -> "doubtful"
    [] ~receipt[k] /\ posted[k] = 0 /\ pub[k] = "stale" -> "withdrawn"
    [] ~receipt[k] /\ posted[k] = 0 /\ pub[k] \in {"dead_letter", "blocked"} -> "held"
    [] OTHER -> "open"

D == INSTANCE Delivery WITH Reports <- Comments,
                            outcome <- [k \in Comments |-> Outcome(k)],
                            posted <- [k \in Comments |-> posted[k]]

\* The outbox keeps the promise of Delivery for every report that is written
\* as a comment or a message.
Implements == D!Spec

-----------------------------------------------------------------------------
(* The inductive invariant.                                                *)

Unsent  == {"check", "ci", "look", "send", "readback", "ack", "doubt"}
Failing == {"fail", "settle"}

\* The row of the publication being delivered says which half is under way.
InHand ==
  /\ wpc \in Unsent => pub[wkey] = "sending"
  /\ wpc = "confirm" => pub[wkey] = "confirming"
  /\ wpc \in Failing => pub[wkey] \in {"sending", "confirming"}
  /\ wpc = "clear" => pub[wkey] = "sent"

\* A receipt is stored exactly in the second half.
ReceiptPlaced ==
  \A k \in Keys :
    /\ receipt[k] => pub[k] \in {"confirming", "delivered", "sent", "dead_letter", "blocked"}
    /\ pub[k] \in {"confirming", "delivered", "sent"} => receipt[k]

\* A report that may have been written without an answer is not in the queue.
LostAckIsHeld ==
  \A k \in Comments :
    /\ receipt[k] => posted[k] = 1
    /\ posted[k] > 0 /\ ~receipt[k] => pub[k] \in {"sending", "unknown_effect"}

\* The worker sends, or fails a delivery, only when nothing was written yet.
NothingWrittenYet ==
  wkey \in Comments =>
    /\ wpc \in {"check", "ci", "look", "send"} => posted[wkey] = 0
    /\ wpc = "ack" => posted[wkey] = 1
    /\ wpc \in Failing /\ ~receipt[wkey] => posted[wkey] = 0
    /\ wpc \notin {"ci", "look", "readback"}

\* An attempt is spent only between its two transactions or in a closed row.
AttemptLeft ==
  /\ RetriesBounded
  /\ \A k \in Keys :
       /\ pub[k] \in {"absent", "pending", "sending", "confirming", "delivered"}
       /\ ~(wpc = "settle" /\ wkey = k /\ Counts(wout))
       => attempts[k] < MaxAttempts + crashes

\* A plain report has no candidate that could move.
PlainStays == \A k \in Keys : Kind[k] = "plain" => candidate[k] = "current"

\* The inductive invariant behind AtMostOnce, RetriesBounded, Implements,
\* UncertainNeverResent and StaleNeverPosted.
IInv == /\ TypeOK /\ InHand /\ ReceiptPlaced /\ AtMostOnce /\ LostAckIsHeld
        /\ NothingWrittenYet /\ AttemptLeft /\ PlainStays
=============================================================================
