----------------------------- MODULE MonthImport -----------------------------
(***************************************************************************)
(* The import of one month of merged pull requests                         *)
(* (analytics/backfill.py): a selection asks for the month up to a day, an *)
(* importer claims it under a lease and a token, searches it page by page, *)
(* halves a range that has too many results, reads and stores each pull    *)
(* request (analytics/store.py), and keeps its cursor after every request. *)
(*                                                                         *)
(* A step is a request to GitHub with what is done to its answer, or one   *)
(* transaction.  Only completed days are asked for, so what was merged on  *)
(* them does not change.  A token belongs to a claim, and an importer has  *)
(* one claim at a time: the importer stands for it.  The ranges that are   *)
(* left lie apart and are kept in order of their days.                     *)
(***************************************************************************)
EXTENDS Integers, FiniteSets

CONSTANTS
  N,           \* pull requests, in the order of their creation
  LastDay,     \* of the month
  Ceiling,     \* results a search can have
  PageSize,
  Importers,
  MaxAttempts, \* failures after which the next one gives up
  MaxFaults    \* bound on failed requests, dead importers and leases run out in use

Prs  == 1..N
Days == 1..LastDay
None == "none"
ASSUME BoundsAssumption == /\ N \in Nat /\ LastDay \in Nat \ {0} /\ Ceiling \in Nat
                           /\ PageSize \in Nat \ {0} /\ MaxAttempts \in Nat /\ MaxFaults \in Nat
ASSUME ImportersAssumption == None \notin Importers

VARIABLES
  day,       \* GitHub: when a pull request was merged
  stored,    \* pull_requests
  state, requested, coveredTo, token, live, waiting, attempts, progress, \* analytics_months
  at,        \* an importer: "idle", at the next "request", at the "save" after it
  cursor,    \* its progress
  tries,     \* the attempts of the row it claimed
  faults

row   == <<state, requested, coveredTo, token, live, waiting, attempts, progress>>
local == <<at, cursor, tries>>
vars  == <<day, stored, row, local, faults>>

Ranges   == Days \X Days
Progress == [ranges : SUBSET Ranges, page : Nat \ {0}, pending : SUBSET Prs]
From(a, b) == [ranges |-> {<<a, b>>}, page |-> 1, pending |-> {}]

TypeOK ==
  /\ day \in [Prs -> Days] /\ stored \subseteq Prs
  /\ state \in {"absent", "queued", "running", "retry", "blocked", "dead_letter", "ready"}
  /\ requested \in Days \cup {0} /\ coveredTo \in Days \cup {0}
  /\ token \in Importers \cup {None} /\ live \in BOOLEAN /\ waiting \in BOOLEAN
  /\ attempts \in Nat /\ progress \in Progress
  /\ at \in [Importers -> {"idle", "request", "save"}]
  /\ cursor \in [Importers -> Progress] /\ tries \in [Importers -> Nat]
  /\ faults \in 0..MaxFaults

Init ==
  /\ day \in [Prs -> Days] /\ stored = {}
  /\ state = "absent" /\ requested = 0 /\ coveredTo = 0
  /\ token = None /\ live = FALSE /\ waiting = FALSE /\ attempts = 0 /\ progress = From(1, 1)
  /\ at = [i \in Importers |-> "idle"] /\ cursor = [i \in Importers |-> From(1, 1)]
  /\ tries = [i \in Importers |-> 0]
  /\ faults = 0

Fault == faults < MaxFaults /\ faults' = faults + 1

-----------------------------------------------------------------------------
(* The row.                                                                *)

\* Mutant: a wider request leaves the claim under way its token.
RequestKeepsClaim(d) ==
  /\ d > requested
  /\ requested' = d /\ state' = "queued" /\ progress' = From(1, d)
  /\ attempts' = 0 /\ waiting' = FALSE /\ live' = FALSE
  /\ UNCHANGED <<day, stored, coveredTo, token, local, faults>>

\* request_selection: a wider range starts over, and whoever holds the month
\* loses it.
Request(d) ==
  /\ d > requested
  /\ requested' = d /\ state' = "queued" /\ progress' = From(1, d)
  /\ attempts' = 0 /\ waiting' = FALSE /\ token' = None /\ live' = FALSE
  /\ UNCHANGED <<day, stored, coveredTo, local, faults>>

\* Mutant: a month whose importer died is not taken over.
ClaimWaiting(i) ==
  /\ at[i] = "idle" /\ state \in {"queued", "retry"} /\ ~waiting /\ ~live
  /\ state' = "running" /\ token' = i /\ live' = TRUE
  /\ at' = [at EXCEPT ![i] = "request"] /\ cursor' = [cursor EXCEPT ![i] = progress]
  /\ tries' = [tries EXCEPT ![i] = attempts]
  /\ UNCHANGED <<day, stored, requested, coveredTo, waiting, attempts, progress, faults>>

\* _claim: due, and not under somebody's lease.
Claim(i) ==
  /\ at[i] = "idle" /\ state \in {"queued", "retry", "running"} /\ ~waiting /\ ~live
  /\ state' = "running" /\ token' = i /\ live' = TRUE
  /\ at' = [at EXCEPT ![i] = "request"] /\ cursor' = [cursor EXCEPT ![i] = progress]
  /\ tries' = [tries EXCEPT ![i] = attempts]
  /\ UNCHANGED <<day, stored, requested, coveredTo, waiting, attempts, progress, faults>>

\* _save, under the token: the cursor, the state and, unless it goes on, the end of
\* the lease; the run goes to step or is over.
Save(i, s, failed, step) ==
  /\ IF token = i
     THEN /\ progress' = cursor[i] /\ state' = s /\ live' = (s = "running")
          /\ attempts' = (IF failed THEN tries[i] + 1 ELSE 0)
          /\ waiting' \in (IF s \in {"running", "ready"} THEN {FALSE} ELSE BOOLEAN)
          /\ coveredTo' = (IF s = "ready" THEN requested ELSE coveredTo)
     ELSE UNCHANGED <<progress, state, live, attempts, waiting, coveredTo>>
  /\ at' = [at EXCEPT ![i] = IF token = i THEN step ELSE "idle"]
  /\ UNCHANGED <<day, stored, requested, token, cursor, tries>>

\* The retry comes due.
RetryDue ==
  /\ waiting
  /\ waiting' = FALSE
  /\ UNCHANGED <<day, stored, state, requested, coveredTo, token, live, attempts, progress,
                 local, faults>>

\* A lease runs out: its holder is dead, or slow.
Held == \E i \in Importers : token = i /\ at[i] # "idle"

Expire ==
  /\ live /\ ~Held
  /\ live' = FALSE
  /\ UNCHANGED <<day, stored, state, requested, coveredTo, token, waiting, attempts, progress,
                 local, faults>>

ExpireHeld ==
  /\ live /\ Held /\ Fault
  /\ live' = FALSE
  /\ UNCHANGED <<day, stored, state, requested, coveredTo, token, waiting, attempts, progress, local>>

-----------------------------------------------------------------------------
(* An importer: run_once.                                                  *)

Matches(r)  == {p \in Prs : r[1] <= day[p] /\ day[p] <= r[2]}
Rank(r, p)  == Cardinality({q \in Matches(r) : q <= p})
Page(r, k)  == {p \in Matches(r) : Rank(r, p) > (k - 1) * PageSize /\ Rank(r, p) <= k * PageSize}
FirstRange(R)     == CHOOSE r \in R : \A q \in R : r[1] <= q[1]

Advance(i, c) == /\ cursor' = [cursor EXCEPT ![i] = c]
                 /\ at' = [at EXCEPT ![i] = "save"]
                 /\ UNCHANGED <<day, row, tries, faults>>

\* A pull request is read and stored if the claim still holds.
Upsert(i) ==
  /\ at[i] = "request"
  /\ \E p \in cursor[i].pending :
       IF token = i /\ live /\ state = "running"
       THEN /\ stored' = stored \cup {p}
            /\ Advance(i, [cursor[i] EXCEPT !.pending = @ \ {p}])
       ELSE /\ at' = [at EXCEPT ![i] = "idle"]
            /\ UNCHANGED <<day, stored, row, cursor, tries, faults>>

Halves(r, mid) == {<<r[1], mid>>, <<mid + 1, r[2]>>}

\* One page of the first range, or its halves when it has too many results.
Search(i) ==
  /\ at[i] = "request" /\ cursor[i].pending = {} /\ cursor[i].ranges # {}
  /\ LET c == cursor[i]
         r == FirstRange(c.ranges)
         total == Cardinality(Matches(r))
     IN  IF total > Ceiling
         THEN /\ r[1] # r[2]
              /\ LET rest == c.ranges \ {r} IN
                 Advance(i, [c EXCEPT !.ranges = rest \cup Halves(r, r[1] + (r[2] - r[1]) \div 2),
                                      !.page = 1])
         ELSE IF c.page * PageSize >= total
         THEN Advance(i, [ranges |-> c.ranges \ {r}, page |-> 1, pending |-> Page(r, c.page)])
         ELSE Advance(i, [c EXCEPT !.page = @ + 1, !.pending = Page(r, c.page)])
  /\ UNCHANGED stored

\* Nothing is left: the month is covered.
Ready(i) ==
  /\ at[i] = "request" /\ cursor[i].pending = {} /\ cursor[i].ranges = {}
  /\ Save(i, "ready", FALSE, "idle")
  /\ UNCHANGED faults

\* The cursor is kept, and the run goes on, or stops for its budget or GitHub's.
Keep(i) ==
  /\ at[i] = "save"
  /\ \/ Save(i, "running", FALSE, "request")
     \/ Save(i, "queued", FALSE, "idle")
  /\ UNCHANGED faults

Overflows(i) ==
  /\ cursor[i].pending = {} /\ cursor[i].ranges # {}
  /\ LET r == FirstRange(cursor[i].ranges) IN r[1] = r[2] /\ Cardinality(Matches(r)) > Ceiling

\* The request fails, or one day has more results than a search can show.
Fails(i) ==
  /\ at[i] = "request"
  /\ \E s \in {"retry", "blocked"} :
       /\ IF Overflows(i) /\ s = "blocked" THEN UNCHANGED faults
          ELSE Fault /\ (cursor[i].pending # {} \/ cursor[i].ranges # {})
       /\ Save(i, IF tries[i] >= MaxAttempts THEN "dead_letter" ELSE s, TRUE, "idle")

Dies(i) ==
  /\ at[i] # "idle" /\ Fault
  /\ at' = [at EXCEPT ![i] = "idle"]
  /\ UNCHANGED <<day, stored, row, cursor, tries>>

-----------------------------------------------------------------------------
Work(i) == Upsert(i) \/ Search(i) \/ Ready(i) \/ Keep(i) \/ Fails(i)

Next ==
  \/ \E d \in Days : Request(d)
  \/ RetryDue \/ Expire \/ ExpireHeld
  \/ \E i \in Importers : Claim(i) \/ Work(i) \/ Dies(i)

Spec == Init /\ [][Next]_vars

\* An importer's loop comes back every few seconds; retries come due and leases of
\* the dead run out.  Requests succeed at last by the bound on faults.
Fairness ==
  /\ WF_vars(RetryDue) /\ WF_vars(Expire)
  /\ \A i \in Importers : WF_vars(Work(i)) /\ WF_vars(Claim(i))

FairSpec == Spec /\ Fairness

-----------------------------------------------------------------------------
(* Properties.                                                             *)

\* A month said to be covered up to a day has every pull request merged up to it:
\* pages, halves, two importers with one month and a wider request in between
\* lose none.
CoveredMeansStored == \A p \in Prs : day[p] <= coveredTo => p \in stored

\* A month that was asked for is imported, blocked or given up at last, also when
\* the importer that held it died.
MonthSettles == state \in {"queued", "running", "retry"} ~> state \in {"ready", "blocked", "dead_letter"}
=============================================================================
