---------------------------- MODULE OutboxProofs ----------------------------
(***************************************************************************)
(* Proofs about the publication outbox, for any set of publications of any *)
(* kinds, any limit of attempts and any number of worker deaths.           *)
(***************************************************************************)
EXTENDS Outbox, TLAPS

\* The two repairs of Store.claim_publication touch expired rows only: an
\* expired send becomes uncertain, an expired confirmation is due again.
LEMMA ExpiredCases ==
  ASSUME TypeOK
  PROVE  /\ Expired \in [Keys -> States]
         /\ \A k \in Keys :
              \/ Expired[k] = pub[k]
              \/ pub[k] = "sending" /\ Expired[k] = "unknown_effect"
              \/ pub[k] = "confirming" /\ Expired[k] = "delivered" /\ receipt[k]
  BY DEF TypeOK, Expired, States

\* A write that makes a row the youngest keeps the order a relation on keys.
LEMMA TouchType ==
  ASSUME TypeOK, NEW k \in Keys, Touch(k)
  PROVE  old' \in [Keys -> BOOLEAN] /\ before' \subseteq Keys \X Keys
  BY DEF TypeOK, Touch

\* Before the first publication is queued nothing was written.
LEMMA InitIInv == Init => IInv
  BY KeysAssumption, KindAssumption, AttemptsAssumption
  DEF Init, IInv, TypeOK, States, Steps, Candidates, Classes, InHand, ReceiptPlaced,
      AtMostOnce, LostAckIsHeld, NothingWrittenYet, AttemptLeft, RetriesBounded,
      PlainStays, Comments, Unsent, Failing, Counts

\* Steps outside the worker and the operator's replay.
LEMMA WorldStep ==
  ASSUME IInv, NEW k \in Keys,
         Queue(k) \/ Ages(k) \/ RetryDue(k) \/ Moves(k) \/ Toggles(k)
         \/ ReconcileReady(k) \/ Replay(k)
  PROVE  IInv'
<1> USE KindAssumption, AttemptsAssumption, TouchType
        DEF IInv, TypeOK, States, Steps, Candidates, Classes, InHand, ReceiptPlaced,
            AtMostOnce, LostAckIsHeld, NothingWrittenYet, AttemptLeft, RetriesBounded,
            PlainStays, Comments, Unsent, Failing, Counts, Kinds,
            rows, worker, world
<1>1. CASE Queue(k)
  BY <1>1 DEF Queue, Finish
<1>2. CASE Ages(k)
  BY <1>2 DEF Ages
<1>3. CASE RetryDue(k)
  BY <1>3 DEF RetryDue
<1>4. CASE Moves(k)
  BY <1>4 DEF Moves
<1>5. CASE Toggles(k)
  BY <1>5 DEF Toggles
<1>6. CASE ReconcileReady(k)
  <2>1. CASE Finish(k, "stale")
    BY <1>6, <2>1 DEF ReconcileReady, Finish
  <2>2. CASE /\ pub' = [pub EXCEPT ![k] = "sent"]
             /\ receipt' = [receipt EXCEPT ![k] = TRUE]
             /\ Touch(k)
    <3>1. Kind[k] = "ready" /\ pub[k] = "unknown_effect" /\ wpc = "idle"
      BY <1>6 DEF ReconcileReady
    <3>2. UNCHANGED <<attempts, hold, wpc, wkey, wout, candidate, draft, posted, crashes>>
      BY <1>6 DEF ReconcileReady
    <3>3. TypeOK'
      BY <2>2, <3>2
    <3>4. InHand' /\ ReceiptPlaced' /\ AttemptLeft' /\ PlainStays'
      BY <2>2, <3>1, <3>2
    <3>5. AtMostOnce' /\ LostAckIsHeld' /\ NothingWrittenYet'
      BY <2>2, <3>1, <3>2
    <3> QED
      BY <3>3, <3>4, <3>5
  <2> QED
    BY <1>6, <2>1, <2>2 DEF ReconcileReady
<1>7. CASE Replay(k)
  BY <1>7 DEF Replay, Finish
<1> QED
  BY <1>1, <1>2, <1>3, <1>4, <1>5, <1>6, <1>7

\* Claiming a publication, or finding none that is due.
LEMMA ClaimStep ==
  ASSUME IInv, (\E k \in Keys : Claim(k)) \/ ClaimNothing
  PROVE  IInv'
<1> USE KindAssumption, AttemptsAssumption, ExpiredCases
        DEF IInv, TypeOK, States, Steps, Candidates, Classes, InHand, ReceiptPlaced,
            AtMostOnce, LostAckIsHeld, NothingWrittenYet, AttemptLeft, RetriesBounded,
            PlainStays, Comments, Unsent, Failing, Counts, Kinds,
            rows, worker, world
<1>1. CASE ClaimNothing
  BY <1>1 DEF ClaimNothing
<1>2. ASSUME NEW k \in Keys, Claim(k) PROVE IInv'
  <2>1. /\ pub' = [Expired EXCEPT ![k] = IF receipt[k] THEN "confirming" ELSE "sending"]
        /\ wkey' = k /\ wpc' = FirstStep(k)
        /\ Expired[k] \in {"pending", "delivered"}
        /\ UNCHANGED <<receipt, attempts, hold, wout, candidate, draft, posted, crashes>>
    BY <1>2 DEF Claim, Ready
  <2>2. TypeOK'
    BY <1>2, <2>1, TouchType DEF Claim, FirstStep
  <2>3. \/ pub[k] \in {"pending", "delivered"}
        \/ pub[k] = "confirming" /\ receipt[k]
    BY <2>1 DEF Expired
  <2>4. /\ pub'[k] = IF receipt[k] THEN "confirming" ELSE "sending"
        /\ \A x \in Keys \ {k} : pub'[x] = Expired[x]
    BY <2>1
  <2>5. receipt[k] => FirstStep(k) = "confirm"
    BY DEF FirstStep
  <2>6. ~receipt[k] => FirstStep(k) \in {"check", "send"}
    BY DEF FirstStep
  <2>7. InHand'
    BY <2>1, <2>4, <2>5, <2>6
  <2>8. ReceiptPlaced'
    BY <2>1, <2>3, <2>4
  <2>9. AtMostOnce' /\ LostAckIsHeld'
    BY <2>1, <2>3, <2>4
  <2>10. NothingWrittenYet'
    BY <2>1, <2>3, <2>4, <2>5, <2>6
  <2>11. AttemptLeft' /\ PlainStays'
    <3>1. \A x \in Keys : /\ pub'[x] \in {"absent", "pending", "sending", "confirming", "delivered"}
                         => pub[x] \in {"absent", "pending", "sending", "confirming", "delivered"}
      BY <2>3, <2>4
    <3>2. \A x \in Keys : attempts'[x] = attempts[x] /\ crashes' = crashes
      BY <2>1
    <3>3. wpc = "idle" /\ wpc' # "settle"
      BY <1>2, <2>1, <2>5, <2>6 DEF Claim
    <3> QED
      BY <2>1, <3>1, <3>2, <3>3
  <2> QED
    BY <2>2, <2>7, <2>8, <2>9, <2>10, <2>11
<1> QED
  BY <1>1, <1>2

\* Steps that ask a destination and record nothing: the worker moves on.
LEMMA AskStep ==
  ASSUME IInv, NEW c \in Classes, Asks(c)
  PROVE  IInv'
<1> USE KindAssumption, AttemptsAssumption, TouchType
        DEF IInv, TypeOK, States, Steps, Candidates, Classes, InHand, ReceiptPlaced,
            AtMostOnce, LostAckIsHeld, NothingWrittenYet, AttemptLeft, RetriesBounded,
            PlainStays, Comments, Unsent, Failing, Counts, Kinds,
            rows, worker, world
<1>1. ASSUME NEW d \in Classes, Fails(d),
             wpc \in {"check", "ci", "look", "send", "confirm"}
             \/ wpc = "readback"
      PROVE  IInv'
  BY <1>1 DEF Fails
<1>2. ASSUME NEW s \in Steps, GoesTo(s),
             \/ wpc = "check" /\ s = "send" /\ Kind[wkey] # "ready"
             \/ wpc = "check" /\ s = "ci" /\ Kind[wkey] = "ready"
             \/ wpc = "send" /\ s = "doubt"
             \/ /\ wpc \in {"ci", "look", "readback"}
                /\ s \in {"doubt", "look", "send", "ack"}
      PROVE  IInv'
  BY <1>2 DEF GoesTo
<1>3. ASSUME Closes("stale"), wpc \in {"check", "ci"}
      PROVE  IInv'
  BY <1>3 DEF Closes, Finish
<1>4. CASE Check(c)
  BY <1>4, <1>1, <1>2, <1>3 DEF Check
<1>5. CASE Ci(c)
  BY <1>5, <1>1, <1>2, <1>3 DEF Ci
<1>6. CASE Look(c)
  BY <1>6, <1>1, <1>2 DEF Look
<1>7. CASE Send(c)
  <2>1. CASE Applied /\ wpc = "send"
    <3>1. /\ posted' = [posted EXCEPT ![wkey] = IF @ < 2 THEN @ + 1 ELSE @]
          /\ wpc' = "doubt" \/ wpc' = IF Kind[wkey] = "ready" THEN "readback" ELSE "ack"
          /\ UNCHANGED <<rows, wkey, wout, candidate, crashes>>
      BY <2>1 DEF Applied
    <3>2. TypeOK'
      <4>1. posted' \in [Keys -> 0..2]
        BY <3>1
      <4>2. draft' \in [Keys -> BOOLEAN]
        BY <2>1 DEF Applied
      <4>3. wpc' \in Steps
        BY <3>1
      <4> QED
        BY <3>1, <4>1, <4>2, <4>3
    <3>3. InHand' /\ ReceiptPlaced' /\ AttemptLeft' /\ PlainStays'
      BY <2>1, <3>1
    <3>4. ~receipt[wkey] /\ pub[wkey] = "sending"
      BY <2>1
    <3>5. wkey \in Comments => posted[wkey] = 0 /\ posted'[wkey] = 1
      BY <2>1, <3>1
    <3>6. \A k \in Keys : k # wkey => posted'[k] = posted[k]
      BY <3>1
    <3>7. AtMostOnce' /\ LostAckIsHeld'
      BY <3>1, <3>4, <3>5, <3>6
    <3>8. NothingWrittenYet'
      BY <2>1, <3>1, <3>4, <3>5
    <3> QED
      BY <3>2, <3>3, <3>7, <3>8
  <2> QED
    BY <1>7, <1>1, <1>2, <2>1 DEF Send
<1>8. CASE Readback(c)
  BY <1>8, <1>1, <1>2 DEF Readback
<1>9. CASE Confirm(c)
  <2>1. CASE /\ wpc = "confirm" /\ Finish(wkey, "sent") /\ wpc' = "clear"
             /\ UNCHANGED <<attempts, hold, wkey, wout, world, crashes>>
    BY <2>1 DEF Finish
  <2> QED
    BY <1>9, <1>1, <2>1 DEF Confirm
<1> QED
  BY <1>4, <1>5, <1>6, <1>7, <1>8, <1>9 DEF Asks

\* Steps that record an answer or a failure, and the worker's death.
LEMMA RecordStep ==
  ASSUME IInv, Records \/ Crash
  PROVE  IInv'
<1> USE KindAssumption, AttemptsAssumption, BoundsAssumption, TouchType
        DEF IInv, TypeOK, States, Steps, Candidates, Classes, InHand, ReceiptPlaced,
            AtMostOnce, LostAckIsHeld, NothingWrittenYet, AttemptLeft, RetriesBounded,
            PlainStays, Comments, Unsent, Failing, Counts, Kinds,
            rows, worker, world
<1>1. CASE Ack
  BY <1>1 DEF Ack
<1>2. CASE Uncertain
  BY <1>2 DEF Uncertain, Closes, Finish
<1>3. CASE Clear
  BY <1>3 DEF Clear
<1>4. CASE Fail
  BY <1>4 DEF Fail
<1>5. CASE Settle
  BY <1>5 DEF Settle, Finish, FailureState
<1>6. CASE Crash
  BY <1>6 DEF Crash
<1> QED
  BY <1>1, <1>2, <1>3, <1>4, <1>5, <1>6 DEF Records

\* The invariant is inductive.
LEMMA NextIInv == IInv /\ [Next]_vars => IInv'
<1> SUFFICES ASSUME IInv, [Next]_vars PROVE IInv'
  OBVIOUS
<1>1. CASE UNCHANGED vars
  BY <1>1 DEF vars, rows, worker, world, IInv, TypeOK, InHand, ReceiptPlaced,
     AtMostOnce, LostAckIsHeld, NothingWrittenYet, AttemptLeft, RetriesBounded, PlainStays
<1>2. CASE Next
  BY <1>2, WorldStep, ClaimStep, AskStep, RecordStep DEF Next
<1> QED
  BY <1>1, <1>2

\* What is known of every publication agrees with what was written, in every
\* reachable state, whatever the number of publications and of crashes.
THEOREM Agreement == Spec => []IInv
  BY InitIInv, NextIInv, PTL DEF Spec

\* No report is written twice at its destination.
THEOREM NeverTwice == Spec => []AtMostOnce
<1>1. IInv => AtMostOnce
  BY DEF IInv
<1> QED
  BY <1>1, Agreement, PTL

\* A recovery cycle makes at most MaxAttempts failed attempts, and one more
\* for every crash.
THEOREM BoundedRetries == Spec => []RetriesBounded
<1>1. IInv => RetriesBounded
  BY DEF IInv, AttemptLeft
<1> QED
  BY <1>1, Agreement, PTL

-----------------------------------------------------------------------------
(* The outbox implements Delivery.                                         *)

\* Queueing nothing yet is the abstract initial state.
LEMMA InitMaps == Init => D!Init
  BY DEF Init, D!Init, Outcome, Comments

\* A step that changes what is known of one report takes one of the abstract
\* actions on it.
LEMMA OneReport ==
  ASSUME NEW k \in Comments,
         \A x \in Comments \ {k} : Outcome(x)' = Outcome(x) /\ posted'[x] = posted[x],
         \/ posted'[k] = posted[k] /\ Outcome(k)' = Outcome(k)
         \/ /\ posted'[k] = posted[k]
            /\ \/ Outcome(k) = "absent" /\ Outcome(k)' = "open"
               \/ Outcome(k) = "open" /\ Outcome(k)' \in {"withdrawn", "held"}
               \/ Outcome(k) = "held" /\ Outcome(k)' = "open"
               \/ posted[k] = 1 /\ Outcome(k) = "doubtful" /\ Outcome(k)' = "acknowledged"
               \/ Outcome(k) = "acknowledged" /\ Outcome(k)' = "confirmed"
         \/ /\ posted'[k] = posted[k] + 1
            /\ Outcome(k) = "open" /\ Outcome(k)' = "doubtful"
  PROVE  [D!Next]_<<[x \in Comments |-> Outcome(x)], [x \in Comments |-> posted[x]]>>
<1> DEFINE o == [x \in Comments |-> Outcome(x)]
           p == [x \in Comments |-> posted[x]]
<1>1. /\ o' = [x \in Comments |-> Outcome(x)']
      /\ p' = [x \in Comments |-> posted'[x]]
  BY DEF Comments
<1>2. o' = [o EXCEPT ![k] = Outcome(k)']
  BY <1>1
<1>3. posted'[k] = posted[k] => p' = p
  BY <1>1
<1>4. posted'[k] = posted[k] + 1 => p' = [p EXCEPT ![k] = @ + 1]
  BY <1>1
<1>5. o[k] = Outcome(k) /\ p[k] = posted[k]
  OBVIOUS
<1>6. CASE posted'[k] = posted[k] /\ Outcome(k)' = Outcome(k)
  BY <1>1, <1>6
<1>7. CASE /\ posted'[k] = posted[k]
           /\ Outcome(k) = "absent" /\ Outcome(k)' = "open"
  BY <1>2, <1>3, <1>5, <1>7 DEF D!Next, D!Queue, D!Becomes
<1>8. CASE /\ posted'[k] = posted[k]
           /\ Outcome(k) = "open" /\ Outcome(k)' \in {"withdrawn", "held"}
  BY <1>2, <1>3, <1>5, <1>8 DEF D!Next, D!Withdraw, D!Suspend, D!Becomes
<1>9. CASE /\ posted'[k] = posted[k]
           /\ Outcome(k) = "held" /\ Outcome(k)' = "open"
  BY <1>2, <1>3, <1>5, <1>9 DEF D!Next, D!Reopen, D!Becomes
<1>10. CASE /\ posted'[k] = posted[k] /\ posted[k] = 1
            /\ Outcome(k) = "doubtful" /\ Outcome(k)' = "acknowledged"
  BY <1>2, <1>3, <1>5, <1>10 DEF D!Next, D!Acknowledge, D!Becomes
<1>11. CASE /\ posted'[k] = posted[k]
            /\ Outcome(k) = "acknowledged" /\ Outcome(k)' = "confirmed"
  BY <1>2, <1>3, <1>5, <1>11 DEF D!Next, D!Confirm, D!Becomes
<1>12. CASE /\ posted'[k] = posted[k] + 1
            /\ Outcome(k) = "open" /\ Outcome(k)' = "doubtful"
  BY <1>2, <1>4, <1>5, <1>12 DEF D!Next, D!Post, D!Becomes
<1> QED
  BY <1>6, <1>7, <1>8, <1>9, <1>10, <1>11, <1>12

\* A step that only loses track of open reports is an abstract Doubt.
LEMMA ManyReports ==
  ASSUME \A x \in Comments :
           /\ posted'[x] = posted[x]
           /\ \/ Outcome(x)' = Outcome(x)
              \/ Outcome(x) = "open" /\ Outcome(x)' = "doubtful"
  PROVE  [D!Next]_<<[x \in Comments |-> Outcome(x)], [x \in Comments |-> posted[x]]>>
<1> DEFINE o == [x \in Comments |-> Outcome(x)]
           p == [x \in Comments |-> posted[x]]
           lost == {x \in Comments : Outcome(x) = "open" /\ Outcome(x)' = "doubtful"}
<1>1. /\ o' = [x \in Comments |-> Outcome(x)']
      /\ p' = [x \in Comments |-> posted'[x]]
  BY DEF Comments
<1>2. o' = [x \in Comments |-> IF x \in lost THEN "doubtful" ELSE o[x]]
  BY <1>1
<1>3. p' = p
  BY <1>1
<1>4. \A x \in lost : o[x] = "open"
  OBVIOUS
<1>5. D!Doubt(lost)
  BY <1>2, <1>3, <1>4 DEF D!Doubt
<1> QED
  BY <1>5 DEF D!Next

\* Neither queueing, time, pushes, reconciliation nor replay breaks the promise.
LEMMA WorldMaps ==
  ASSUME IInv, IInv', NEW k \in Keys,
         Queue(k) \/ Ages(k) \/ RetryDue(k) \/ Moves(k) \/ Toggles(k)
         \/ ReconcileReady(k) \/ Replay(k)
  PROVE  [D!Next]_<<[x \in Comments |-> Outcome(x)], [x \in Comments |-> posted[x]]>>
<1>1. CASE k \in Comments
  <2> SUFFICES
        /\ posted' = posted
        /\ \A x \in Comments \ {k} : Outcome(x)' = Outcome(x)
        /\ \/ Outcome(k)' = Outcome(k)
           \/ Outcome(k) = "absent" /\ Outcome(k)' = "open"
           \/ Outcome(k) = "held" /\ Outcome(k)' = "open"
    BY <1>1, OneReport
  <2> USE DEF Comments, Outcome, IInv, TypeOK, ReceiptPlaced, LostAckIsHeld, rows, world, Finish
  <2>1. CASE Queue(k)
    BY <1>1, <2>1 DEF Queue
  <2>2. CASE Ages(k)
    BY <2>2 DEF Ages
  <2>3. CASE RetryDue(k)
    BY <2>3 DEF RetryDue
  <2>4. CASE Moves(k)
    BY <2>4 DEF Moves
  <2>5. CASE Toggles(k)
    BY <2>5 DEF Toggles
  <2>6. CASE ReconcileReady(k)
    BY <1>1, <2>6 DEF ReconcileReady
  <2>7. CASE Replay(k)
    BY <1>1, <2>7 DEF Replay
  <2> QED
    BY <2>1, <2>2, <2>3, <2>4, <2>5, <2>6, <2>7
<1>2. CASE k \notin Comments
  <2> SUFFICES \A x \in Comments : Outcome(x)' = Outcome(x) /\ posted'[x] = posted[x]
    BY ManyReports
  <2>1. /\ posted' = posted
        /\ \A x \in Keys \ {k} : pub'[x] = pub[x] /\ receipt'[x] = receipt[x]
    BY DEF Queue, Ages, RetryDue, Moves, Toggles, ReconcileReady, Replay, Finish,
           IInv, TypeOK, rows, world
  <2> QED
    BY <1>2, <2>1 DEF Comments, Outcome
<1> QED
  BY <1>1, <1>2

\* Claiming moves no report except those whose sender is gone.
LEMMA ClaimMaps ==
  ASSUME IInv, IInv', (\E k \in Keys : Claim(k)) \/ ClaimNothing
  PROVE  [D!Next]_<<[x \in Comments |-> Outcome(x)], [x \in Comments |-> posted[x]]>>
<1> SUFFICES ASSUME NEW x \in Comments
             PROVE  /\ posted'[x] = posted[x]
                    /\ \/ Outcome(x)' = Outcome(x)
                       \/ Outcome(x) = "open" /\ Outcome(x)' = "doubtful"
  BY ManyReports
<1>1. posted' = posted /\ receipt' = receipt
  BY DEF Claim, ClaimNothing, world
<1>2. \/ pub'[x] = pub[x]
      \/ pub[x] = "sending" /\ pub'[x] = "unknown_effect"
      \/ /\ pub[x] \in {"pending", "delivered", "confirming"}
         /\ pub'[x] \in {"sending", "confirming", "delivered"}
         /\ receipt[x] <=> pub'[x] # "sending"
  <2>1. CASE ClaimNothing
    BY <2>1 DEF ClaimNothing, Comments, Expired, IInv, TypeOK, ReceiptPlaced
  <2>2. ASSUME NEW k \in Keys, Claim(k)
        PROVE  \/ pub'[x] = pub[x]
               \/ pub[x] = "sending" /\ pub'[x] = "unknown_effect"
               \/ /\ pub[x] \in {"pending", "delivered", "confirming"}
                  /\ pub'[x] \in {"sending", "confirming", "delivered"}
                  /\ receipt[x] <=> pub'[x] # "sending"
    <3>1. CASE x = k
      BY <2>2, <3>1 DEF Claim, Ready, Expired, Comments, IInv, TypeOK, ReceiptPlaced
    <3>2. CASE x # k
      BY <2>2, <3>2 DEF Claim, Expired, Comments, IInv, TypeOK, ReceiptPlaced
    <3> QED
      BY <3>1, <3>2
  <2> QED
    BY <2>1, <2>2
<1> QED
  BY <1>1, <1>2 DEF Outcome, Comments, IInv, TypeOK, ReceiptPlaced, LostAckIsHeld

\* A provider's answer posts, withdraws or confirms the claimed report, or
\* leaves what is known unchanged.
LEMMA AskMaps ==
  ASSUME IInv, IInv', NEW c \in Classes, Asks(c)
  PROVE  [D!Next]_<<[x \in Comments |-> Outcome(x)], [x \in Comments |-> posted[x]]>>
<1> USE DEF Comments, IInv, TypeOK, rows, world
<1>1. CASE UNCHANGED <<pub, receipt, posted>>
  BY <1>1, ManyReports DEF Outcome
<1>2. CASE Closes("stale") /\ wpc \in {"check", "ci"}
  <2> PICK k \in Keys : k = wkey
    OBVIOUS
  <2>1. \A x \in Comments \ {k} : Outcome(x)' = Outcome(x) /\ posted'[x] = posted[x]
    BY <1>2 DEF Closes, Finish, Outcome
  <2>2. CASE k \in Comments
    <3>1. Outcome(k) = "open" /\ Outcome(k)' = "withdrawn" /\ posted'[k] = posted[k]
      BY <1>2, <2>2 DEF Closes, Finish, Outcome, InHand, Unsent, NothingWrittenYet, ReceiptPlaced
    <3> QED
      BY <2>1, <2>2, <3>1, OneReport
  <2>3. CASE k \notin Comments
    BY <2>1, <2>3, ManyReports
  <2> QED
    BY <2>2, <2>3
<1>3. CASE Applied /\ wpc = "send"
  <2> PICK k \in Keys : k = wkey
    OBVIOUS
  <2>1. \A x \in Comments \ {k} : Outcome(x)' = Outcome(x) /\ posted'[x] = posted[x]
    BY <1>3 DEF Applied, Outcome
  <2>2. CASE k \in Comments
    <3>1. /\ posted[k] = 0 /\ posted'[k] = 1
          /\ pub[k] = "sending" /\ pub' = pub /\ receipt' = receipt /\ ~receipt[k]
      BY <1>3, <2>2 DEF Applied, InHand, Unsent, NothingWrittenYet, ReceiptPlaced
    <3>2. Outcome(k) = "open" /\ Outcome(k)' = "doubtful"
      BY <3>1 DEF Outcome
    <3> QED
      BY <2>1, <2>2, <3>1, <3>2, OneReport
  <2>3. CASE k \notin Comments
    BY <2>1, <2>3, ManyReports
  <2> QED
    BY <2>2, <2>3
<1>4. CASE Finish(wkey, "sent") /\ wpc = "confirm" /\ UNCHANGED posted
  <2> PICK k \in Keys : k = wkey
    OBVIOUS
  <2>1. \A x \in Comments \ {k} : Outcome(x)' = Outcome(x) /\ posted'[x] = posted[x]
    BY <1>4 DEF Finish, Outcome
  <2>2. CASE k \in Comments
    <3>1. Outcome(k) = "acknowledged" /\ Outcome(k)' = "confirmed"
      BY <1>4, <2>2 DEF Finish, Outcome, InHand, ReceiptPlaced
    <3> QED
      BY <1>4, <2>1, <2>2, <3>1, OneReport
  <2>3. CASE k \notin Comments
    BY <2>1, <2>3, ManyReports
  <2> QED
    BY <2>2, <2>3
<1> QED
  <2>1. CASE Check(c)
    BY <2>1, <1>1, <1>2 DEF Check, Fails, GoesTo
  <2>2. CASE Ci(c)
    BY <2>2, <1>1, <1>2 DEF Ci, Fails, GoesTo
  <2>3. CASE Look(c)
    BY <2>3, <1>1 DEF Look, Fails, GoesTo
  <2>4. CASE Send(c)
    BY <2>4, <1>1, <1>3 DEF Send, Fails, GoesTo
  <2>5. CASE Readback(c)
    BY <2>5, <1>1 DEF Readback, Fails, GoesTo
  <2>6. CASE Confirm(c)
    BY <2>6, <1>1, <1>4 DEF Confirm, Fails
  <2> QED
    BY <2>1, <2>2, <2>3, <2>4, <2>5, <2>6 DEF Asks

\* Recording an answer or a failure moves the claimed report at most.
LEMMA RecordMaps ==
  ASSUME IInv, IInv', Records \/ Crash
  PROVE  [D!Next]_<<[x \in Comments |-> Outcome(x)], [x \in Comments |-> posted[x]]>>
<1> USE DEF Comments, IInv, TypeOK, rows, world
<1>1. CASE UNCHANGED <<pub, receipt, posted>>
  BY <1>1, ManyReports DEF Outcome
<1>2. CASE wpc # "idle" /\ Ack
  <2> PICK k \in Keys : k = wkey
    OBVIOUS
  <2>1. \A x \in Comments \ {k} : Outcome(x)' = Outcome(x) /\ posted'[x] = posted[x]
    BY <1>2 DEF Ack, Outcome
  <2>2. CASE k \in Comments
    <3>1. /\ posted'[k] = posted[k] /\ posted[k] = 1
          /\ Outcome(k) = "doubtful" /\ Outcome(k)' = "acknowledged"
      BY <1>2, <2>2 DEF Ack, Outcome, InHand, Unsent, NothingWrittenYet, ReceiptPlaced
    <3> QED
      BY <2>1, <2>2, <3>1, OneReport
  <2>3. CASE k \notin Comments
    BY <2>1, <2>3, ManyReports
  <2> QED
    BY <2>2, <2>3
<1>3. CASE Uncertain
  <2> SUFFICES ASSUME NEW x \in Comments
               PROVE  /\ posted'[x] = posted[x]
                      /\ \/ Outcome(x)' = Outcome(x)
                         \/ Outcome(x) = "open" /\ Outcome(x)' = "doubtful"
    BY ManyReports
  <2>1. posted' = posted /\ receipt' = receipt
    BY <1>3 DEF Uncertain, Closes, Finish
  <2>2. CASE x = wkey
    BY <1>3, <2>1, <2>2 DEF Uncertain, Closes, Finish, Outcome, InHand, Unsent, ReceiptPlaced
  <2>3. CASE x # wkey
    BY <1>3, <2>1, <2>3 DEF Uncertain, Closes, Finish, Outcome
  <2> QED
    BY <2>2, <2>3
<1>4. CASE Settle
  <2> PICK k \in Keys : k = wkey
    OBVIOUS
  <2>1. \A x \in Comments \ {k} : Outcome(x)' = Outcome(x) /\ posted'[x] = posted[x]
    BY <1>4 DEF Settle, Finish, Outcome
  <2>2. CASE k \in Comments
    <3>1. /\ posted' = posted /\ receipt' = receipt
          /\ pub'[k] = FailureState(k)
          /\ pub[k] \in {"sending", "confirming"}
          /\ pub[k] = "confirming" <=> receipt[k]
          /\ ~receipt[k] => posted[k] = 0
      BY <1>4, <2>2 DEF Settle, Finish, InHand, Failing, ReceiptPlaced, NothingWrittenYet
    <3>2. \/ pub'[k] \in {"blocked", "dead_letter"}
          \/ pub'[k] = "delivered" /\ receipt[k]
          \/ pub'[k] = "pending" /\ ~receipt[k]
      BY <3>1 DEF FailureState
    <3>3. \/ Outcome(k)' = Outcome(k)
          \/ Outcome(k) = "open" /\ Outcome(k)' = "held"
      BY <3>1, <3>2 DEF Outcome
    <3> QED
      BY <2>1, <2>2, <3>1, <3>3, OneReport
  <2>3. CASE k \notin Comments
    BY <2>1, <2>3, ManyReports
  <2> QED
    BY <2>2, <2>3
<1>5. CASE Clear
  BY <1>1, <1>5 DEF Clear
<1>6. CASE Fail
  BY <1>1, <1>6 DEF Fail
<1>7. CASE Crash
  BY <1>1, <1>7 DEF Crash
<1>8. CASE Ack
  BY <1>2, <1>8 DEF Ack
<1> QED
  BY <1>3, <1>4, <1>5, <1>6, <1>7, <1>8 DEF Records

\* Every step of the outbox is a step of Delivery or leaves it unchanged.
LEMMA NextMaps ==
  ASSUME IInv, IInv', [Next]_vars
  PROVE  [D!Next]_<<[x \in Comments |-> Outcome(x)], [x \in Comments |-> posted[x]]>>
<1>1. CASE UNCHANGED vars
  BY <1>1, ManyReports DEF vars, rows, world, Outcome, Comments
<1>2. CASE Next
  BY <1>2, WorldMaps, ClaimMaps, AskMaps, RecordMaps DEF Next
<1> QED
  BY <1>1, <1>2

\* The outbox keeps the promise of Delivery: every report is written at most
\* once, a doubtful one is never written again, and one is confirmed only
\* after its acknowledgement was stored.
THEOREM Refinement == Spec => Implements
<1>1. Init => D!Init
  BY InitMaps
<1>2. IInv /\ IInv' /\ [Next]_vars
        => [D!Next]_(D!vars)
  BY NextMaps DEF D!vars
<1> QED
  BY <1>1, <1>2, Agreement, PTL DEF Implements, Spec, D!Spec

-----------------------------------------------------------------------------
(* What Delivery promises holds for the outbox.                            *)

\* The promise, and a step of Delivery, of outcomes o and numbers of writes p.
Kept(o, p) ==
  /\ o \in [Comments -> D!Outcomes] /\ p \in [Comments -> Nat]
  /\ \A r \in Comments :
       /\ p[r] <= 1
       /\ o[r] \in {"absent", "open", "held", "withdrawn"} => p[r] = 0
       /\ o[r] \in {"acknowledged", "confirmed"} => p[r] = 1

Moved(o, p, oo, pp) ==
  \/ oo = o /\ pp = p
  \/ \E r \in Comments :
       \/ /\ pp = p
          /\ \/ o[r] = "absent" /\ oo = [o EXCEPT ![r] = "open"]
             \/ o[r] = "open" /\ oo = [o EXCEPT ![r] = "withdrawn"]
             \/ o[r] = "open" /\ oo = [o EXCEPT ![r] = "held"]
             \/ o[r] = "held" /\ oo = [o EXCEPT ![r] = "open"]
             \/ p[r] = 1 /\ o[r] = "doubtful" /\ oo = [o EXCEPT ![r] = "acknowledged"]
             \/ o[r] = "acknowledged" /\ oo = [o EXCEPT ![r] = "confirmed"]
       \/ o[r] = "open" /\ oo = [o EXCEPT ![r] = "doubtful"] /\ pp = [p EXCEPT ![r] = @ + 1]
  \/ \E lost \in SUBSET Comments :
       /\ \A r \in lost : o[r] = "open"
       /\ oo = [r \in Comments |-> IF r \in lost THEN "doubtful" ELSE o[r]]
       /\ pp = p

LEMMA MovedKeeps ==
  ASSUME NEW o, NEW p, NEW oo, NEW pp, Kept(o, p), Moved(o, p, oo, pp)
  PROVE  Kept(oo, pp)
BY DEF Kept, Moved, D!Outcomes

\* The abstract specification keeps its promise.
LEMMA DeliveryPromises == D!Spec => [](D!TypeOK /\ D!Promise)
<1>1. D!Init => D!TypeOK /\ D!Promise
  BY DEF D!Init, D!TypeOK, D!Promise, D!Outcomes
<1>2. D!TypeOK /\ D!Promise /\ [D!Next]_(D!vars) => D!TypeOK' /\ D!Promise'
  <2> DEFINE o == [x \in Comments |-> Outcome(x)]
             p == [x \in Comments |-> posted[x]]
  <2> SUFFICES ASSUME D!TypeOK, D!Promise, [D!Next]_(D!vars) PROVE D!TypeOK' /\ D!Promise'
    OBVIOUS
  <2>1. Kept(o, p)
    BY DEF D!TypeOK, D!Promise, Kept
  <2>2. Moved(o, p, o', p')
    BY Zenon DEF Moved, D!Next, D!vars, D!Queue, D!Withdraw, D!Suspend, D!Reopen, D!Post, D!Doubt,
           D!Acknowledge, D!Confirm, D!Becomes
  <2>3. Kept(o', p')
    BY <2>1, <2>2, MovedKeeps
  <2> QED
    BY <2>3 DEF D!TypeOK, D!Promise, Kept
<1> QED
  BY <1>1, <1>2, PTL DEF D!Spec

\* Whatever is lost, retried or replayed: a report that is known to wait, to be held
\* or to be withdrawn was never written, one that is known to have arrived was
\* written once, and one in doubt at most once.  It follows from what Delivery
\* promises, because the outbox implements it.
THEOREM KnownIsTrue == Spec => [](D!TypeOK /\ D!Promise)
  BY Refinement, DeliveryPromises, PTL DEF Implements

-----------------------------------------------------------------------------
(* What is never written again.                                            *)

\* Nothing but the worker's send writes at a destination.
LEMMA OnlySendWrites ==
  ASSUME IInv, [Next]_vars, NEW k \in Keys, posted'[k] # posted[k]
  PROVE  wpc = "send" /\ wkey = k
<1>1. CASE UNCHANGED vars
  BY <1>1 DEF vars, world
<1>2. CASE \E x \in Keys : \/ Queue(x) \/ Ages(x) \/ RetryDue(x) \/ Moves(x) \/ Toggles(x)
                          \/ Claim(x) \/ ReconcileReady(x) \/ Replay(x)
  BY <1>2 DEF Queue, Ages, RetryDue, Moves, Toggles, Claim, ReconcileReady, Replay, world
<1>3. CASE ClaimNothing \/ Records \/ Crash
  BY <1>3 DEF ClaimNothing, Records, Crash, Ack, Uncertain, Closes, Clear, Fail, Settle, world
<1>4. ASSUME NEW c \in Classes, Asks(c) PROVE wpc = "send" /\ wkey = k
  <2>1. CASE Check(c) \/ Ci(c) \/ Look(c) \/ Readback(c) \/ Confirm(c)
    BY <2>1 DEF Check, Ci, Look, Readback, Confirm, Fails, GoesTo, Closes, world
  <2>2. CASE Send(c)
    BY <2>2 DEF Send, Applied, Fails, GoesTo, world, IInv, TypeOK
  <2> QED
    BY <1>4, <2>1, <2>2 DEF Asks
<1> QED
  BY <1>1, <1>2, <1>3, <1>4 DEF Next

Resting(k, n) == pub[k] \in {"unknown_effect", "sent", "stale"} /\ posted[k] = n

\* An uncertain publication, a confirmed one and a stale one stay what they
\* are, or the readiness reconciliation settles the uncertain one.
LEMMA RestingStays ==
  ASSUME NEW k \in Keys, NEW n \in 0..1, IInv, Resting(k, n), [Next]_vars
  PROVE  Resting(k, n)'
<1> USE DEF Resting
<1>1. posted'[k] = posted[k]
  BY OnlySendWrites DEF IInv, InHand, Unsent
<1>2. pub'[k] \in {"unknown_effect", "sent", "stale"}
  <2> USE DEF IInv, TypeOK, Finish, rows
  <2>1. CASE UNCHANGED vars
    BY <2>1 DEF vars
  <2>2. ASSUME NEW x \in Keys,
               \/ Queue(x) \/ Ages(x) \/ RetryDue(x) \/ Moves(x) \/ Toggles(x)
               \/ ReconcileReady(x) \/ Replay(x)
        PROVE  pub'[k] \in {"unknown_effect", "sent", "stale"}
    BY <2>2 DEF Queue, Ages, RetryDue, Moves, Toggles, ReconcileReady, Replay
  <2>3. CASE ClaimNothing
    BY <2>3 DEF ClaimNothing, Expired
  <2>4. ASSUME NEW x \in Keys, Claim(x)
        PROVE  pub'[k] \in {"unknown_effect", "sent", "stale"}
    BY <2>4 DEF Claim, Ready, Expired
  <2>5. CASE Records \/ Crash
    BY <2>5 DEF Records, Crash, Ack, Uncertain, Closes, Clear, Fail, Settle,
                InHand, Unsent, Failing
  <2>6. ASSUME NEW c \in Classes, Asks(c)
        PROVE  pub'[k] \in {"unknown_effect", "sent", "stale"}
    BY <2>6 DEF Asks, Check, Ci, Look, Send, Readback, Confirm, Applied, Fails, GoesTo,
                Closes, InHand, Unsent
  <2> QED
    BY <2>1, <2>2, <2>3, <2>4, <2>5, <2>6 DEF Next
<1> QED
  BY <1>1, <1>2

\* A publication in unknown_effect is never written again by anyone.
THEOREM NeverResent == Spec => UncertainNeverResent
<1> SUFFICES ASSUME NEW k \in Keys, NEW n \in 0..1
             PROVE  Spec => [](pub[k] = "unknown_effect" /\ posted[k] = n
                                 => [](posted[k] = n))
  BY DEF UncertainNeverResent
<1>1. IInv /\ Resting(k, n) /\ [Next]_vars => Resting(k, n)'
  BY RestingStays
<1>2. pub[k] = "unknown_effect" /\ posted[k] = n => Resting(k, n)
  BY DEF Resting
<1>3. Resting(k, n) => posted[k] = n
  BY DEF Resting
<1> QED
  BY <1>1, <1>2, <1>3, Agreement, PTL DEF Spec

\* The revision of k was replaced and no write of it is under way.
Outdated(k, n) ==
  /\ candidate[k] = "moved" /\ posted[k] = n
  /\ wkey = k => wpc \notin {"ci", "look", "send"}

\* Every delivery of an outdated publication stops at the check.
LEMMA OutdatedStays ==
  ASSUME NEW k \in Keys, NEW n \in 0..1, IInv, Outdated(k, n), [Next]_vars
  PROVE  Outdated(k, n)'
<1> USE DEF Outdated
<1>1. posted'[k] = posted[k]
  BY OnlySendWrites
<1>2. candidate'[k] = "moved"
  <2>1. ASSUME NEW x \in Keys, Moves(x) PROVE candidate'[k] = "moved"
    BY <2>1 DEF Moves, IInv, TypeOK
  <2> QED
    BY <2>1 DEF Next, vars, world, Queue, Ages, RetryDue, Toggles, Claim, ReconcileReady,
       Replay, ClaimNothing, Records, Ack, Uncertain, Closes, Clear, Fail, Settle, Crash,
       Asks, Check, Ci, Look, Send, Readback, Confirm, Applied, Fails, GoesTo
<1>3. wkey' = k => wpc' \notin {"ci", "look", "send"}
  <2>1. CASE wkey' = wkey /\ wpc' = wpc
    BY <2>1
  <2>2. ASSUME NEW x \in Keys, Claim(x)
        PROVE  wkey' = k => wpc' \notin {"ci", "look", "send"}
    BY <2>2, KindAssumption DEF Claim, FirstStep, IInv, PlainStays
  <2>3. CASE Records \/ Crash
    BY <2>3 DEF Records, Crash, Ack, Uncertain, Closes, Clear, Fail, Settle
  <2>4. ASSUME NEW c \in Classes, Asks(c)
        PROVE  wkey' = k => wpc' \notin {"ci", "look", "send"}
    BY <2>4 DEF Asks, Check, Ci, Look, Send, Readback, Confirm, Applied, Fails, GoesTo, Closes
  <2> QED
    BY <2>1, <2>2, <2>3, <2>4 DEF Next, vars, worker, Queue, Ages, RetryDue, Moves, Toggles,
       ReconcileReady, Replay, ClaimNothing
<1> QED
  BY <1>1, <1>2, <1>3

\* Evidence about a revision that was replaced while it waited in the queue is
\* never written.
THEOREM StaleStaysUnwritten == Spec => StaleNeverPosted
<1> SUFFICES ASSUME NEW k \in Keys, NEW n \in 0..1
             PROVE  Spec => [](pub[k] = "pending" /\ candidate[k] = "moved" /\ posted[k] = n
                                 => [](posted[k] = n))
  BY DEF StaleNeverPosted
<1>1. IInv /\ Outdated(k, n) /\ [Next]_vars => Outdated(k, n)'
  BY OutdatedStays
<1>2. IInv /\ pub[k] = "pending" /\ candidate[k] = "moved" /\ posted[k] = n => Outdated(k, n)
  BY DEF Outdated, IInv, InHand, Unsent
<1>3. Outdated(k, n) => posted[k] = n
  BY DEF Outdated
<1> QED
  BY <1>1, <1>2, <1>3, Agreement, PTL DEF Spec
=============================================================================
