--------------------------- MODULE KnowledgeProofs ---------------------------
(***************************************************************************)
(* Proofs about Knowledge: types, one note per lesson, and what is retired *)
(* before anything is published or a session is created.                   *)
(***************************************************************************)
EXTENDS Knowledge, TLAPS

\* Steps on the note of cur; those that know it exists; those before it is fixed.
Noting  == {"read", "find", "fix", "put", "readback", "post", "record"}
Seen    == {"read", "fix", "put", "readback", "record"}
Unfixed == {"read", "find", "fix", "put"}

\* What the receipts say of the notes.
Receipts ==
  /\ \A l \in Lessons :
       /\ made[l] <= 1 /\ (l \in late => made[l] = 0)
       /\ made[l] > 0 \/ l \in late => native[l] # "pending" /\ l \in Recorded
       /\ on[l] \/ noted[l] => made[l] > 0
  /\ todo \subseteq Recorded
  /\ pc \in Noting => cur \in Recorded
  /\ pc \in Seen => made[cur] > 0
  /\ pc \in {"put", "readback"} => noted[cur]
  /\ pc = "post" => made[cur] = 0 /\ cur \notin late /\ native[cur] = "writing"

\* A lesson the task has yet to come to, or to finish.
Pending(l) == l \in todo \/ (l = cur /\ pc \in Unfixed)

\* What the task has done, while its lease lives.
Progress ==
  live /\ pc # "idle" =>
    /\ \A l \in Lessons : on[l] /\ noted[l] /\ ~Wanted(l) => Pending(l)
    /\ task = "context" => \A l \in Lessons : (on[l] \/ l \in late) /\ ~Wanted(l) => Pending(l)
    /\ pc \in Noting => want = Wanted(cur)
    /\ pc \in Noting /\ task = "context" => ~want
    /\ pc \in Noting /\ want => \A l \in todo : Wanted(l)
    /\ pc \in {"post", "record"} => task = "sync" /\ want
    /\ pc \in {"supply", "create"} => todo = {} /\ task = "context"
    /\ pc = "create" => Current

IInv == TypeOK /\ Receipts /\ Progress

\* Its bound holds after a fault, and the worker's types after the end of a task.
LEMMA FaultTypeOK == TypeOK /\ Fault => faults' \in 0..MaxFaults
BY BoundsAssumption DEF TypeOK, Fault

LEMMA EndTypeOK ==
  End => /\ lease' \in {"none", "held", "left"} /\ live' \in BOOLEAN
         /\ pc' \in Steps /\ task' \in {"sync", "context"} /\ todo' \subseteq Lessons
         /\ cur' \in Lessons /\ want' \in BOOLEAN
<1>1. 1 \in Lessons
  BY BoundsAssumption DEF Lessons
<1> QED
  BY <1>1 DEF End, Steps

\* Every step keeps the types.
LEMMA NextTypeOK == TypeOK /\ [Next]_vars => TypeOK'
<1> SUFFICES ASSUME TypeOK, [Next]_vars PROVE TypeOK'
  OBVIOUS
<1> USE SettingsAssumption
        DEF TypeOK, Natives, Steps, lessons, receipts, provider, guard, worker
<1>0. 1 \in Lessons
  BY BoundsAssumption DEF Lessons
<1>1. CASE \E g \in Groups, retired \in BOOLEAN : Save(g, retired)
  BY <1>1 DEF Save, Add
<1>2. CASE \E t \in {"sync", "context"} : Begin(t)
  <2>1. stream' \in [Lessons -> Runs \cup Groups \cup {None}] /\ inert' \in [Lessons -> BOOLEAN]
    <3>1. CASE UNCHANGED lessons
      BY <3>1
    <3>2. CASE \E r \in Runs, i \in BOOLEAN : Add(r, i)
      BY <3>2 DEF Add
    <3> QED
      BY <1>2, <3>1, <3>2 DEF Begin, Capture
  <2> QED
    BY <1>2, <2>1 DEF Begin
<1>3. CASE Expire
  BY FaultTypeOK, <1>3 DEF Expire
<1>4. CASE ExpireLeft
  BY <1>4 DEF ExpireLeft
<1>5. CASE Restart
  BY <1>0, FaultTypeOK, <1>5 DEF Restart
<1>6. CASE \E l \in Lessons : Lands(l)
  BY <1>6 DEF Lands, Creates
<1>7. CASE \E l \in Lessons : NextLesson(l)
  BY <1>7 DEF NextLesson, Wanted, Active
<1>8. CASE Done
  BY EndTypeOK, <1>8 DEF Done, Goto
<1>9. CASE Read
  BY <1>9 DEF Read, Goto, Held
<1>10. CASE Fix
  BY <1>10 DEF Fix, Settled, Native, Goto, Held
<1>11. CASE Find
  BY <1>11 DEF Find, Native, Goto, Held
<1>12. CASE FindNothing
  BY EndTypeOK, <1>12 DEF FindNothing
<1>13. CASE Put
  BY <1>13 DEF Put, Goto, Held
<1>14. CASE PutLost
  BY EndTypeOK, FaultTypeOK, <1>14 DEF PutLost
<1>15. CASE Readback
  BY <1>15 DEF Readback, Settled, Native, Goto, Held
<1>16. CASE Post
  BY <1>16 DEF Post, Creates, Goto, Held
<1>17. CASE PostRefused
  BY EndTypeOK, FaultTypeOK, <1>17 DEF PostRefused, Native, Refused
<1>18. CASE PostLost
  <2>1. made' \in [Lessons -> Nat] /\ on' \in [Lessons -> BOOLEAN] /\ late' \subseteq Lessons
    <3>1. CASE Creates(cur) /\ UNCHANGED late
      BY <3>1 DEF Creates
    <3>2. CASE late' = late \cup {cur} /\ UNCHANGED <<made, on>>
      BY <3>2
    <3> QED
      BY <1>18, <3>1, <3>2 DEF PostLost, Lost
  <2>2. native' \in [Lessons -> Natives] /\ noted' \in [Lessons -> BOOLEAN]
    BY <1>18 DEF PostLost, Native
  <2> QED
    BY EndTypeOK, FaultTypeOK, <1>18, <2>1, <2>2 DEF PostLost
<1>19. CASE Record
  BY <1>19 DEF Record, Native, Goto, Held
<1>20. CASE Fails
  BY EndTypeOK, FaultTypeOK, <1>20 DEF Fails, Refused
<1>21. CASE Supply
  BY <1>21 DEF Supply, Supplied, Current, Goto, Recorded
<1>22. CASE SupplyFails
  BY EndTypeOK, <1>22 DEF SupplyFails, NoContext
<1>23. CASE CreateSession
  BY EndTypeOK, <1>23 DEF CreateSession, NoContext
<1>24. CASE CreateRefused
  BY EndTypeOK, FaultTypeOK, <1>24 DEF CreateRefused, Refused
<1>25. CASE UNCHANGED vars
  BY <1>25 DEF vars
<1> QED
  BY <1>1, <1>2, <1>3, <1>4, <1>5, <1>6, <1>7, <1>8, <1>9, <1>10, <1>11, <1>12, <1>13, <1>14, <1>15, <1>16, <1>17, <1>18, <1>19, <1>20, <1>21, <1>22, <1>23, <1>24, <1>25 DEF Next, Reconcile, Dispatch

\* A new row takes no place of an old one.
LEMMA AddKeeps ==
  ASSUME TypeOK, NEW s \in Runs \cup Groups, NEW i \in BOOLEAN, Add(s, i)
  PROVE  Recorded \subseteq Recorded'
BY StreamsAssumption DEF TypeOK, Add, Recorded

\* A note is created when none was, and what is known of it is kept.
LEMMA NextReceipts == TypeOK /\ Receipts /\ [Next]_vars => Receipts'
<1> SUFFICES ASSUME TypeOK, Receipts, [Next]_vars PROVE Receipts'
  OBVIOUS
<1> USE DEF TypeOK, Receipts, Recorded, Noting, Seen, lessons, receipts, provider, worker
<1>1. CASE \E g \in Groups, retired \in BOOLEAN : Save(g, retired)
  <2>1. Recorded \subseteq Recorded'
    BY <1>1, AddKeeps DEF Save
  <2> QED
    BY <1>1, <2>1 DEF Save
<1>2. CASE \E t \in {"sync", "context"} : Begin(t)
  <2>1. Recorded \subseteq Recorded'
    BY <1>2, AddKeeps DEF Begin, Capture
  <2> QED
    BY <1>2, <2>1 DEF Begin
<1>3. CASE Expire
  BY <1>3 DEF Expire
<1>4. CASE ExpireLeft
  BY <1>4 DEF ExpireLeft
<1>5. CASE Restart
  BY <1>5 DEF Restart
<1>6. CASE \E l \in Lessons : Lands(l)
  BY <1>6 DEF Lands, Creates
<1>7. CASE \E l \in Lessons : NextLesson(l)
  BY <1>7 DEF NextLesson
<1>8. CASE Done
  BY <1>8 DEF Done, End, Goto
<1>9. CASE Read
  BY <1>9 DEF Read, Goto, Held
<1>10. CASE Fix
  BY <1>10 DEF Fix, Settled, Native, Goto, Held
<1>11. CASE Find
  BY <1>11 DEF Find, Native, Goto, Held
<1>12. CASE FindNothing
  BY <1>12 DEF FindNothing, End
<1>13. CASE Put
  BY <1>13 DEF Put, Goto, Held
<1>14. CASE PutLost
  BY <1>14 DEF PutLost, End
<1>15. CASE Readback
  BY <1>15 DEF Readback, Settled, Native, Goto, Held
<1>16. CASE Post
  <2>1. made' = [made EXCEPT ![cur] = 1] /\ on' = [on EXCEPT ![cur] = TRUE]
    BY <1>16 DEF Post, Creates
  <2> QED
    BY <1>16, <2>1 DEF Post, Goto, Held
<1>17. CASE PostRefused
  BY <1>17 DEF PostRefused, Native, Refused, End
<1>18. CASE PostLost
  BY <1>18 DEF PostLost, Lost, Creates, Native, End
<1>19. CASE Record
  BY <1>19 DEF Record, Native, Goto, Held
<1>20. CASE Fails
  BY <1>20 DEF Fails, Refused, End
<1>21. CASE Supply
  BY <1>21 DEF Supply, Goto
<1>22. CASE SupplyFails
  BY <1>22 DEF SupplyFails, End
<1>23. CASE CreateSession
  BY <1>23 DEF CreateSession, End
<1>24. CASE CreateRefused
  BY <1>24 DEF CreateRefused, Refused, End
<1>25. CASE UNCHANGED vars
  BY <1>25 DEF vars
<1> QED
  BY <1>1, <1>2, <1>3, <1>4, <1>5, <1>6, <1>7, <1>8, <1>9, <1>10, <1>11, <1>12, <1>13, <1>14, <1>15, <1>16, <1>17, <1>18, <1>19, <1>20, <1>21, <1>22, <1>23, <1>24, <1>25 DEF Next, Reconcile, Dispatch

\* What is wanted changes with the rows and the setting only.
LEMMA SameWanted ==
  ASSUME UNCHANGED <<lessons, enabled>>
  PROVE  Supplied' = Supplied /\ \A l \in Lessons : Wanted(l)' = Wanted(l)
BY DEF lessons, Supplied, Wanted, Active, Recorded

\* While the lease lives, what the task has passed stays retired.
LEMMA NextProgress == TypeOK /\ Receipts /\ Receipts' /\ Progress /\ [Next]_vars => Progress'
<1> SUFFICES ASSUME TypeOK, Receipts, Receipts', Progress, [Next]_vars PROVE Progress'
  OBVIOUS
<1> USE DEF TypeOK, Receipts, Progress, Pending, Noting, Unfixed, receipts, provider, worker, guard
<1>1. CASE \E g \in Groups, retired \in BOOLEAN : Save(g, retired)
  BY <1>1 DEF Save
<1>2. CASE \E t \in {"sync", "context"} : Begin(t)
  BY <1>2 DEF Begin, Recorded
<1>3. CASE Expire
  BY <1>3 DEF Expire, Fault
<1>4. CASE ExpireLeft
  BY <1>4 DEF ExpireLeft
<1>5. CASE Restart
  BY <1>5 DEF Restart
<1>6. CASE \E l \in Lessons : Lands(l)
  <2>1. PICK l \in late : Lands(l)
    BY <1>6 DEF Lands
  <2>2. made[l] = 0 /\ ~noted[l] /\ on' = [on EXCEPT ![l] = TRUE] /\ late' \subseteq late
    BY <2>1 DEF Lands, Creates
  <2> QED
    BY SameWanted, <2>1, <2>2 DEF Lands, Current
<1>7. CASE \E l \in Lessons : NextLesson(l)
  BY SameWanted, <1>7 DEF NextLesson, Concerns, InOrder
<1>8. CASE Done
  BY SameWanted, <1>8 DEF Done, End, Goto
<1>9. CASE Read
  BY SameWanted, <1>9 DEF Read, Goto, Held
<1>10. CASE Fix
  BY SameWanted, <1>10 DEF Fix, Settled, Native, Goto, Held
<1>11. CASE Find
  BY SameWanted, <1>11 DEF Find, Native, Goto, Held
<1>12. CASE FindNothing
  BY <1>12 DEF FindNothing, End
<1>13. CASE Put
  BY SameWanted, <1>13 DEF Put, Goto, Held
<1>14. CASE PutLost
  BY <1>14 DEF PutLost, End
<1>15. CASE Readback
  BY SameWanted, <1>15 DEF Readback, Settled, Native, Goto, Held
<1>16. CASE Post
  BY SameWanted, <1>16 DEF Post, Creates, Goto, Held
<1>17. CASE PostRefused
  BY <1>17 DEF PostRefused, Native, Refused, End
<1>18. CASE PostLost
  BY <1>18 DEF PostLost, Lost, Creates, Native, End
<1>19. CASE Record
  BY SameWanted, <1>19 DEF Record, Native, Goto, Held
<1>20. CASE Fails
  BY <1>20 DEF Fails, Refused, End
<1>21. CASE Supply
  BY SameWanted, <1>21 DEF Supply, Goto, Current
<1>22. CASE SupplyFails
  BY <1>22 DEF SupplyFails, End
<1>23. CASE CreateSession
  BY <1>23 DEF CreateSession, End
<1>24. CASE CreateRefused
  BY <1>24 DEF CreateRefused, Refused, End
<1>25. CASE UNCHANGED vars
  BY SameWanted, <1>25 DEF vars, Current
<1> QED
  BY <1>1, <1>2, <1>3, <1>4, <1>5, <1>6, <1>7, <1>8, <1>9, <1>10, <1>11, <1>12, <1>13, <1>14, <1>15, <1>16, <1>17, <1>18, <1>19, <1>20, <1>21, <1>22, <1>23, <1>24, <1>25 DEF Next, Reconcile, Dispatch

LEMMA InitIInv == Init => IInv
<1> SUFFICES ASSUME Init PROVE IInv
  OBVIOUS
<1>1. 1 \in Lessons /\ 0 \in 0..MaxFaults
  BY BoundsAssumption DEF Lessons
<1>2. TypeOK
  BY <1>1, SettingsAssumption DEF Init, TypeOK, NoContext, Natives, Steps
<1>3. Receipts
  BY DEF Init, Receipts, Noting, Seen
<1>4. Progress
  BY DEF Init, Progress
<1> QED
  BY <1>2, <1>3, <1>4 DEF IInv

LEMMA NextIInv == IInv /\ [Next]_vars => IInv'
BY NextTypeOK, NextReceipts, NextProgress DEF IInv

LEMMA Invariance == Spec => []IInv
BY InitIInv, NextIInv, PTL DEF Spec

\* The model's types, for any lessons, groups, settings and faults.
THEOREM TypeCorrect == Spec => []TypeOK
<1>1. IInv => TypeOK
  BY DEF IInv
<1> QED
  BY Invariance, <1>1, PTL

\* No lesson ever gets a second note, however many answers are lost, leases run out
\* and workers die around its creation.
THEOREM OneNote == Spec => []OneNotePerLesson
<1>1. IInv => OneNotePerLesson
  BY DEF IInv, Receipts, OneNotePerLesson
<1> QED
  BY Invariance, <1>1, PTL

\* A session is created only while every note of superseded guidance is retired and
\* its context is what is active.
THEOREM NoStaleNotes == Spec => []NoStaleGuidance
<1>1. IInv => NoStaleGuidance
  BY DEF IInv, TypeOK, Progress, Pending, Unfixed, NoStaleGuidance
<1> QED
  BY Invariance, <1>1, PTL

\* Retire before publishing, under an operator's edits and restarts.
THEOREM RetiredFirst == Spec => []ReplacedFirst
<1>1. IInv => ReplacedFirst
  BY DEF IInv, TypeOK, Progress, Pending, Unfixed, Noting, ReplacedFirst
<1> QED
  BY Invariance, <1>1, PTL
=============================================================================
