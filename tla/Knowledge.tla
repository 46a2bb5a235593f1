------------------------------ MODULE Knowledge ------------------------------
(***************************************************************************)
(* What past runs taught, and the notes at the provider that repeat it     *)
(* (automation/learning.py): observations captured from finished runs and  *)
(* corrections an operator saves (automation/feedback.py), the note of     *)
(* each, created at most once and enabled or retired by read and readback, *)
(* the lease that keeps corrections out while they are reconciled          *)
(* (automation/learning_lock.py), and the dispatch of a session under it   *)
(* (automation/engine.py).                                                 *)
(*                                                                         *)
(* The worker is one process; its tasks are the periodic "sync" and the    *)
(* "context" of a dispatch.  A provider call is one step: the lease is     *)
(* renewed before it and checked after it.  A lost creation may take       *)
(* effect later, a lost update at once or never.  The ten most recent      *)
(* lessons are all lessons here, and every observation is about another    *)
(* run than the one dispatched.                                            *)
(***************************************************************************)
EXTENDS Integers, FiniteSets

CONSTANTS
  MaxLessons, \* rows of lessons
  Runs,       \* jobs that leave observations
  Groups,     \* chains of corrections
  About,      \* group -> the run whose observation it corrects, or None
  Settings,   \* values LEARNING_ENABLED may have after a restart
  MaxFaults   \* bound on failed calls, leases that run out in use and restarts

None == "none"
ASSUME BoundsAssumption == MaxLessons \in Nat \ {0} /\ MaxFaults \in Nat
ASSUME StreamsAssumption ==
  /\ Runs \cap Groups = {} /\ None \notin Runs \cup Groups
  /\ About \in [Groups -> Runs \cup {None}]
ASSUME SettingsAssumption == Settings \subseteq BOOLEAN /\ Settings # {}

VARIABLES
  stream,  \* lessons.job_id: a run, a group, or None for no row yet
  inert,   \* the lesson says "stale" or "retired"
  native,  \* lessons.native_state
  noted,   \* lessons.note_id is known
  made,    \* provider: notes ever created for the lesson
  on,      \* provider: its note is enabled
  late,    \* provider: lost creations that may still take effect
  lease,   \* learning_guard: "none", "held" by the worker, "left" by a dead one
  live,    \* it has not expired
  ctx,     \* learning_contexts of the job to dispatch: its lessons and notes
  enabled, \* settings.learning_enabled
  pc, task, todo, cur, want, \* the worker
  faults

lessons  == <<stream, inert>>
receipts == <<native, noted>>
provider == <<made, on, late>>
guard    == <<lease, live>>
worker   == <<pc, task, todo, cur, want>>
vars     == <<lessons, receipts, provider, guard, ctx, enabled, worker, faults>>

Lessons  == 1..MaxLessons
Recorded == {l \in Lessons : stream[l] # None}
NoContext == [of |-> {0}, notes |-> {}]
Natives  == {"pending", "writing", "receipt", "updating", "confirmed", "retired", "unknown_effect"}
Steps    == {"idle", "pass", "read", "find", "fix", "put", "readback", "post", "record",
             "supply", "create"}

TypeOK ==
  /\ stream \in [Lessons -> Runs \cup Groups \cup {None}] /\ inert \in [Lessons -> BOOLEAN]
  /\ native \in [Lessons -> Natives] /\ noted \in [Lessons -> BOOLEAN]
  /\ made \in [Lessons -> Nat] /\ on \in [Lessons -> BOOLEAN]
  /\ late \subseteq Lessons
  /\ lease \in {"none", "held", "left"} /\ live \in BOOLEAN
  /\ ctx \in [of : SUBSET (Lessons \cup {0}), notes : SUBSET Lessons]
  /\ enabled \in BOOLEAN
  /\ pc \in Steps /\ task \in {"sync", "context"} /\ todo \subseteq Lessons
  /\ cur \in Lessons /\ want \in BOOLEAN
  /\ faults \in 0..MaxFaults

Init ==
  /\ stream = [l \in Lessons |-> None] /\ inert = [l \in Lessons |-> FALSE]
  /\ native = [l \in Lessons |-> "pending"] /\ noted = [l \in Lessons |-> FALSE]
  /\ made = [l \in Lessons |-> 0] /\ on = [l \in Lessons |-> FALSE]
  /\ late = {}
  /\ lease = "none" /\ live = FALSE
  /\ ctx = NoContext
  /\ enabled \in Settings
  /\ pc = "idle" /\ task = "sync" /\ todo = {} /\ cur = 1 /\ want = FALSE
  /\ faults = 0

-----------------------------------------------------------------------------
(* Lessons.                                                                *)

\* active_ids: the latest of a stream, unless it says stale or retired or a
\* correction of the run exists, be it retired itself.
Active(l) ==
  /\ l \in Recorded /\ ~inert[l]
  /\ \A k \in Recorded : /\ stream[k] = stream[l] => k <= l
                         /\ stream[k] \in Groups => About[stream[k]] # stream[l]
Wanted(l) == enabled /\ Active(l)

\* The next row: of a run by capture, of a group by save.
Add(s, i) ==
  \E l \in Lessons :
    /\ Recorded = 1..(l - 1)
    /\ stream' = [stream EXCEPT ![l] = s]
    /\ inert' = [inert EXCEPT ![l] = i]

\* Mutant: an edit does not look at the lease.
SaveAnyTime(g, retired) ==
  /\ (\E k \in Recorded : stream[k] = g) \/ (~retired /\ About[g] \in {None} \cup {stream[k] : k \in Recorded})
  /\ Add(g, retired)
  /\ UNCHANGED <<receipts, provider, guard, ctx, enabled, worker, faults>>

\* FeedbackService.save, one transaction: a correction of its group's latest
\* revision, refused while a lease is live.  A first one retires nothing.
Save(g, retired) ==
  /\ ~live
  /\ (\E k \in Recorded : stream[k] = g) \/ (~retired /\ About[g] \in {None} \cup {stream[k] : k \in Recorded})
  /\ Add(g, retired)
  /\ UNCHANGED <<receipts, provider, guard, ctx, enabled, worker, faults>>

-----------------------------------------------------------------------------
(* The lease and the tasks under it.                                       *)

Fault == faults < MaxFaults /\ faults' = faults + 1
Goto(step) == pc' = step /\ UNCHANGED <<task, todo, cur, want>>

\* The task ends, done or not: the lease is deleted if it is its own.
End == /\ lease' = "none" /\ live' = FALSE
       /\ pc' = "idle" /\ task' = "sync" /\ todo' = {} /\ cur' = 1 /\ want' = FALSE

Capture == UNCHANGED lessons \/ \E r \in Runs, i \in BOOLEAN : Add(r, i)

\* learning_lease and the capture that opens both tasks.
Begin(t) ==
  /\ pc = "idle" /\ ~live
  /\ lease' = "held" /\ live' = TRUE
  /\ Capture
  /\ pc' = "pass" /\ task' = t /\ todo' = {l \in Lessons : stream'[l] # None}
  /\ UNCHANGED <<cur, want, receipts, provider, ctx, enabled, faults>>

\* A call or a whole run outlasts the two minutes; a dead worker's lease does too.
Expire ==
  /\ lease = "held" /\ live /\ Fault
  /\ live' = FALSE
  /\ UNCHANGED <<lessons, receipts, provider, lease, ctx, enabled, worker>>

ExpireLeft ==
  /\ lease = "left" /\ live
  /\ live' = FALSE
  /\ UNCHANGED <<lessons, receipts, provider, lease, ctx, enabled, worker, faults>>

\* renew finds the lease expired before a call, or the call is refused, or it
\* fails after it was sent: the task stops and says "attention".
Refused == End /\ IF live THEN Fault ELSE UNCHANGED faults

\* Retire before publishing.
InOrder(l) == task = "sync" /\ Wanted(l) => \A k \in todo : Wanted(k)

\* Mutant: only active lessons are reconciled.
ConcernsActive(l) == IF task = "sync" THEN Wanted(l) ELSE ~Wanted(l) /\ native[l] # "pending"

\* What the loop does not pass over: sync, also the uncertain creation of a lesson
\* since superseded; the dispatch, what must be retired.
Concerns(l) == IF task = "sync" THEN Wanted(l) \/ native[l] # "pending"
                                ELSE ~Wanted(l) /\ native[l] # "pending"

NextLesson(l) ==
  /\ pc = "pass" /\ l \in todo /\ live /\ InOrder(l)
  /\ todo' = todo \ {l}
  /\ IF Concerns(l)
     THEN pc' = (IF noted[l] THEN "read" ELSE "find") /\ cur' = l /\ want' = Wanted(l)
     ELSE UNCHANGED <<pc, cur, want>>
  /\ UNCHANGED <<task, lessons, receipts, provider, guard, ctx, enabled, faults>>

Done ==
  /\ pc = "pass" /\ todo = {}
  /\ IF task = "sync" THEN End ELSE Goto("supply") /\ UNCHANGED guard
  /\ UNCHANGED <<lessons, receipts, provider, ctx, enabled, faults>>

-----------------------------------------------------------------------------
(* One note.                                                               *)

Native(s, known) ==
  /\ native' = [native EXCEPT ![cur] = s]
  /\ noted' = [noted EXCEPT ![cur] = known]
Settled == Native(IF want THEN "confirmed" ELSE "retired", TRUE)
Held == UNCHANGED <<lessons, ctx, enabled, guard>>

\* The note is read, owned by this lesson, and compared.
Read ==
  /\ pc = "read" /\ live
  /\ Goto("fix")
  /\ UNCHANGED <<receipts, provider, faults>> /\ Held

\* _reconcile_note decides on what was read.
Fix ==
  /\ pc = "fix"
  /\ IF on[cur] = want THEN Settled /\ Goto("pass") ELSE Native("updating", TRUE) /\ Goto("put")
  /\ UNCHANGED <<provider, faults>> /\ Held

\* _find_note, by the lesson's marker.  sync keeps the receipt of what it finds,
\* creates a note for what was never sent, and leaves an uncertain one alone.
Find ==
  /\ pc = "find" /\ live
  /\ IF made[cur] > 0
     THEN /\ IF task = "sync" THEN Native("receipt", TRUE) ELSE UNCHANGED receipts
          /\ Goto("fix")
     ELSE /\ task = "sync"
          /\ IF want /\ native[cur] = "pending"
             THEN Native("writing", FALSE) /\ Goto("post")
             ELSE UNCHANGED receipts /\ Goto("pass")
  /\ UNCHANGED <<provider, faults>> /\ Held

\* The dispatch cannot retire what it does not find.
FindNothing ==
  /\ pc = "find" /\ made[cur] = 0 /\ task = "context"
  /\ End
  /\ UNCHANGED <<lessons, receipts, provider, ctx, enabled, faults>>

\* PUT with the whole note, then GET.
Put ==
  /\ pc = "put" /\ live
  /\ on' = [on EXCEPT ![cur] = want]
  /\ Goto("readback")
  /\ UNCHANGED <<made, late, receipts, faults>> /\ Held

PutLost ==
  /\ pc = "put" /\ live /\ Fault
  /\ \E e \in {on[cur], want} : on' = [on EXCEPT ![cur] = e]
  /\ End
  /\ UNCHANGED <<made, late, lessons, receipts, ctx, enabled>>

Readback ==
  /\ pc = "readback" /\ live
  /\ Settled /\ Goto("pass")
  /\ UNCHANGED <<provider, faults>> /\ Held

\* POST: the note, enabled.
Creates(l) == made' = [made EXCEPT ![l] = @ + 1] /\ on' = [on EXCEPT ![l] = TRUE]

Post ==
  /\ pc = "post" /\ live
  /\ Creates(cur) /\ UNCHANGED late
  /\ Goto("record")
  /\ UNCHANGED <<receipts, faults>> /\ Held

Lands(l) ==
  /\ l \in late
  /\ Creates(l) /\ late' = late \ {l}
  /\ UNCHANGED <<lessons, receipts, guard, ctx, enabled, worker, faults>>

PostRefused ==
  /\ pc = "post"
  /\ Native("pending", FALSE)
  /\ Refused
  /\ UNCHANGED <<lessons, provider, ctx, enabled>>

Lost == \/ Creates(cur) /\ UNCHANGED late
        \/ late' = late \cup {cur} /\ UNCHANGED <<made, on>>

\* Mutant: a lost answer counts as a refusal.
PostLostForgotten ==
  /\ pc = "post" /\ live /\ Fault
  /\ Lost
  /\ Native("pending", FALSE)
  /\ End
  /\ UNCHANGED <<lessons, ctx, enabled>>

\* The answer is lost, or it comes after the lease has expired.
PostLost ==
  /\ pc = "post" /\ live /\ Fault
  /\ Lost
  /\ Native("unknown_effect", FALSE)
  /\ End
  /\ UNCHANGED <<lessons, ctx, enabled>>

Record ==
  /\ pc = "record"
  /\ Native("receipt", TRUE)
  /\ Goto("read")
  /\ UNCHANGED <<provider, faults>> /\ Held

\* A read or an update that fails, or an answer without identity.
Fails ==
  /\ pc \in {"read", "find", "put", "readback", "record", "pass"}
  /\ Refused
  /\ UNCHANGED <<lessons, receipts, provider, ctx, enabled>>

-----------------------------------------------------------------------------
(* The context of a dispatch, and the session.                             *)

Supplied == {l \in Recorded : Active(l)}
Current  == ctx.of = Supplied

\* _context: a snapshot of the same lessons is kept; otherwise it is rebuilt with
\* those of their notes that a read finds enabled.  The last read may come back
\* after the lease; the snapshot is stored all the same.
Supply ==
  /\ pc = "supply"
  /\ IF Current THEN UNCHANGED ctx
     ELSE /\ live \/ Supplied = {}
          /\ \E notes \in SUBSET {l \in Supplied : enabled /\ native[l] = "confirmed" /\ on[l]} :
               ctx' = [of |-> Supplied, notes |-> notes]
  /\ Goto("create")
  /\ UNCHANGED <<lessons, receipts, provider, guard, enabled, faults>>

\* The old snapshot is gone before the first renewal of the new one.
SupplyFails ==
  /\ pc = "supply" /\ ~live /\ ~Current
  /\ ctx' = NoContext
  /\ End
  /\ UNCHANGED <<lessons, receipts, provider, enabled, faults>>

\* The session is created, or nobody knows: the next dispatch is another job's.
CreateSession ==
  /\ pc = "create" /\ live
  /\ ctx' = NoContext
  /\ End
  /\ UNCHANGED <<lessons, receipts, provider, enabled, faults>>

\* Refused, or the lease is lost: the job keeps its snapshot and is tried again.
CreateRefused ==
  /\ pc = "create"
  /\ Refused
  /\ UNCHANGED <<lessons, receipts, provider, ctx, enabled>>

\* The worker dies and starts again, perhaps with another setting.
Restart ==
  /\ Fault
  /\ lease' = (IF lease = "held" THEN "left" ELSE lease) /\ UNCHANGED live
  /\ enabled' \in Settings
  /\ pc' = "idle" /\ task' = "sync" /\ todo' = {} /\ cur' = 1 /\ want' = FALSE
  /\ UNCHANGED <<lessons, receipts, provider, ctx>>

-----------------------------------------------------------------------------
Reconcile == \/ \E l \in Lessons : NextLesson(l)
             \/ Done \/ Read \/ Fix \/ Find \/ FindNothing \/ Put \/ PutLost \/ Readback
             \/ Post \/ PostRefused \/ PostLost \/ Record \/ Fails
Dispatch  == Supply \/ SupplyFails \/ CreateSession \/ CreateRefused

Next ==
  \/ \E g \in Groups, retired \in BOOLEAN : Save(g, retired)
  \/ \E t \in {"sync", "context"} : Begin(t)
  \/ Expire \/ ExpireLeft \/ Restart
  \/ \E l \in Lessons : Lands(l)
  \/ Reconcile \/ Dispatch

Spec == Init /\ [][Next]_vars

\* A task runs to its end, sync is due every five minutes, and a dead worker's
\* lease runs out.  Calls succeed in the end by the bound on faults.
FairSpec == /\ Spec
            /\ WF_vars(Reconcile \/ Dispatch) /\ WF_vars(ExpireLeft) /\ SF_vars(Begin("sync"))

-----------------------------------------------------------------------------
(* Properties.                                                             *)

\* No lesson gets a second note: not when the answer to its creation is lost, the
\* worker dies before it keeps the receipt, or the lease runs out around it.
OneNotePerLesson == \A l \in Lessons : made[l] <= 1

\* When a session may be created, no superseded, corrected, stale or retired lesson
\* has an enabled note for it to retrieve, and its context is what is active now.
NoStaleGuidance ==
  pc = "create" /\ live => /\ \A l \in Lessons : on[l] => Wanted(l)
                           /\ Current

\* A note is created or enabled only when every known note of guidance it may
\* replace has been retired.
ReplacedFirst ==
  live /\ (pc = "post" \/ (pc = "put" /\ want))
    => \A l \in Lessons : on[l] /\ noted[l] => Wanted(l)

\* The notes at the provider end up saying what is active, also after lost answers,
\* expired leases and restarts with another setting; only a lesson whose creation
\* is in doubt may stay without a note.
Agrees(l) == IF made[l] > 0 THEN on[l] = Wanted(l)
             ELSE Wanted(l) => native[l] \in {"writing", "unknown_effect"}
Converges == <>[](\A l \in Lessons : Agrees(l))

=============================================================================
