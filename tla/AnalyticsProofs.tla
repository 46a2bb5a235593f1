--------------------------- MODULE AnalyticsProofs ---------------------------
(***************************************************************************)
(* Proofs about the three analytics components.                            *)
(*                                                                         *)
(* MonthImport: a month said to be covered has all its pull requests.      *)
(* HistorySync: an import said to be complete leaves no gap, and details   *)
(* go with the version they were read of.  ReadCache: an answer has all    *)
(* that was stored when it was asked for.  The components share no         *)
(* variable, and their names do not clash.                                 *)
(***************************************************************************)
EXTENDS MonthImport, HistorySync, ReadCache, FiniteSetTheorems, SequenceTheorems,
        WellFoundedInduction, TLAPS

(***************************************************************************)
(* The import of a month (MonthImport).                                    *)
(***************************************************************************)

\* What a cursor has not lost of the pull requests merged up to a day: it is
\* stored, about to be read, or on a page of a range that is still to come.
ToCome(d, c, p) == \E r \in c.ranges :
  LET found == {q \in Prs : r[1] <= d[q] /\ d[q] <= r[2]} IN
  /\ p \in found
  /\ r = FirstRange(c.ranges) => Cardinality({q \in found : q <= p}) > (c.page - 1) * PageSize

Accounted(d, S, c, t) ==
  \A p \in Prs : d[p] <= t => p \in S \/ p \in c.pending \/ ToCome(d, c, p)

MonthIInv ==
  /\ TypeOK
  /\ Accounted(day, stored, progress, requested)
  /\ \A i \in Importers : token = i /\ at[i] # "idle" => Accounted(day, stored, cursor[i], requested)
  /\ CoveredMeansStored

-----------------------------------------------------------------------------
(* Ranges and pages.                                                       *)

\* A set of ranges that is not empty has a first one.
LEMMA FirstIsMember == ASSUME NEW R \in SUBSET Ranges, R # {} PROVE FirstRange(R) \in R
<1> DEFINE T == {r[1] : r \in R}
<1>1. T \subseteq Nat /\ T # {}
  BY BoundsAssumption DEF Ranges, Days
<1>2. \E x \in T : \A y \in T : ~ (<<y, x>> \in OpToRel(<, Nat))
  BY <1>1, NatLessThanWellFounded, WFMin
<1>3. PICK x \in T : \A y \in T : ~ (y < x)
  BY <1>1, <1>2 DEF OpToRel
<1>4. PICK r \in R : r[1] = x
  BY <1>3
<1>5. \A q \in R : r[1] <= q[1]
  BY <1>1, <1>3, <1>4
<1> QED
  BY <1>5 DEF FirstRange

\* The results of a search are finitely many, and ranked from one to their number.
LEMMA MatchesFinite ==
  ASSUME NEW r PROVE IsFiniteSet(Matches(r)) /\ Cardinality(Matches(r)) \in Nat
<1>1. IsFiniteSet(Prs)
  BY BoundsAssumption, FS_Interval DEF Prs
<1>2. Matches(r) \in SUBSET Prs
  BY DEF Matches
<1> QED
  BY <1>1, <1>2, FS_Subset, FS_CardinalityType

LEMMA RankInRange ==
  ASSUME NEW r, NEW p \in Matches(r)
  PROVE  Rank(r, p) \in Nat /\ 1 <= Rank(r, p) /\ Rank(r, p) <= Cardinality(Matches(r))
<1> DEFINE S == {q \in Matches(r) : q <= p}
<1>1. S \in SUBSET Matches(r) /\ p \in S
  BY BoundsAssumption DEF Matches, Prs
<1>2. IsFiniteSet(Matches(r)) /\ Cardinality(Matches(r)) \in Nat
  BY MatchesFinite
<1>3. IsFiniteSet(S) /\ Cardinality(S) <= Cardinality(Matches(r))
  BY <1>1, <1>2, FS_Subset
<1>4. Cardinality(S) \in Nat
  BY <1>3, FS_CardinalityType
<1>5. Cardinality(S) # 0
  BY <1>1, <1>3, FS_EmptySet
<1>6. Rank(r, p) = Cardinality(S)
  BY DEF Rank
<1> QED
  BY <1>2, <1>3, <1>4, <1>5, <1>6

\* A result beyond a page is on the next one or beyond that.
LEMMA PageOrLater ==
  ASSUME NEW r, NEW p \in Matches(r), NEW k \in Nat \ {0}, Rank(r, p) > (k - 1) * PageSize
  PROVE  p \in Page(r, k) \/ Rank(r, p) > ((k + 1) - 1) * PageSize
<1>1. (k + 1) - 1 = k
  OBVIOUS
<1>2. Rank(r, p) \in Nat /\ k * PageSize \in Nat
  BY RankInRange, BoundsAssumption
<1>3. Rank(r, p) <= k * PageSize => p \in Page(r, k)
  BY DEF Page
<1> QED
  BY <1>1, <1>2, <1>3

\* A range with more results than the ceiling can be cut in two, and neither its
\* days nor its results get lost.
LEMMA HalvesMatch ==
  ASSUME TypeOK, NEW r \in Ranges, Cardinality(Matches(r)) > Ceiling, r[1] # r[2]
  PROVE  LET H == Halves(r, r[1] + (r[2] - r[1]) \div 2) IN
         H \subseteq Ranges /\ \A p \in Matches(r) : \E h \in H : p \in Matches(h)
<1> DEFINE mid == r[1] + (r[2] - r[1]) \div 2
<1>1. PICK p \in Matches(r) : TRUE
  BY MatchesFinite, FS_EmptySet, BoundsAssumption
<1>2. r[1] \in Nat /\ r[2] \in Nat /\ r[1] < r[2] /\ r[1] >= 1 /\ r[2] <= LastDay
  BY <1>1, BoundsAssumption DEF TypeOK, Matches, Ranges, Days
<1>3. mid \in Nat /\ r[1] <= mid /\ mid < r[2]
  BY <1>2
<1>4. <<r[1], mid>> \in Ranges /\ <<mid + 1, r[2]>> \in Ranges
  BY <1>2, <1>3, BoundsAssumption DEF Ranges, Days
<1>5. ASSUME NEW q \in Matches(r) PROVE q \in Matches(<<r[1], mid>>) \/ q \in Matches(<<mid + 1, r[2]>>)
  BY <1>2, <1>3 DEF TypeOK, Matches, Days
<1> QED
  BY <1>4, <1>5 DEF Halves

-----------------------------------------------------------------------------
(* Cursors.                                                                *)

\* Still to come, in the words of the model.
LEMMA ToComeNow ==
  ASSUME NEW c, NEW p
  PROVE  ToCome(day, c, p) <=> \E r \in c.ranges :
           p \in Matches(r) /\ (r = FirstRange(c.ranges) => Rank(r, p) > (c.page - 1) * PageSize)
BY DEF ToCome, Matches, Rank

\* At its first page a range has all its results to come.
LEMMA FirstPage ==
  ASSUME NEW c, c.page = 1, NEW p, NEW r \in c.ranges, p \in Matches(r)
  PROVE  ToCome(day, c, p)
<1>1. Rank(r, p) > (c.page - 1) * PageSize
  BY RankInRange, BoundsAssumption
<1> QED
  BY <1>1, ToComeNow

\* What is stored later does not hurt.
LEMMA StoredGrows ==
  ASSUME NEW d, NEW S, NEW T, S \subseteq T, NEW c, NEW t, Accounted(d, S, c, t)
  PROVE  Accounted(d, T, c, t)
BY DEF Accounted

\* A request starts over with all of it to come.
LEMMA AllToCome == ASSUME TypeOK, NEW d \in Days PROVE Accounted(day, stored, From(1, d), d)
<1> SUFFICES ASSUME NEW p \in Prs, day[p] <= d PROVE ToCome(day, From(1, d), p)
  BY DEF Accounted
<1>1. From(1, d).page = 1 /\ <<1, d>> \in From(1, d).ranges
  BY DEF From
<1>2. p \in Matches(<<1, d>>)
  BY DEF Matches, TypeOK, Days
<1> QED
  BY <1>1, <1>2, FirstPage

\* What a search does to its cursor: halves, last page, next page.
LEMMA SearchSteps ==
  ASSUME TypeOK, NEW i \in Importers, Search(i)
  PROVE  \E c \in Progress, n \in Progress, r \in Ranges :
    /\ c = cursor[i] /\ n = cursor'[i] /\ c.pending = {}
    /\ r \in c.ranges /\ r = FirstRange(c.ranges)
    /\ \/ /\ Cardinality(Matches(r)) > Ceiling /\ r[1] # r[2]
          /\ n.ranges = (c.ranges \ {r}) \cup Halves(r, r[1] + (r[2] - r[1]) \div 2)
          /\ n.page = 1
       \/ /\ Cardinality(Matches(r)) <= c.page * PageSize
          /\ n.ranges = c.ranges \ {r} /\ n.page = 1 /\ n.pending = Page(r, c.page)
       \/ /\ n.ranges = c.ranges /\ n.page = c.page + 1 /\ n.pending = Page(r, c.page)
<1> DEFINE c == cursor[i]
           r == FirstRange(c.ranges)
           total == Cardinality(Matches(r))
           H == Halves(r, r[1] + (r[2] - r[1]) \div 2)
<1>1. c \in Progress /\ c.ranges # {} /\ c.pending = {} /\ r \in c.ranges /\ r \in Ranges
  BY FirstIsMember DEF Search, TypeOK, Progress
<1>2. Page(r, c.page) \subseteq Prs
  BY DEF Page, Matches
<1>3. total > Ceiling /\ r[1] # r[2] => H \subseteq Ranges
  BY <1>1, HalvesMatch
<1>4. total \in Nat /\ c.page \in Nat \ {0} /\ c.page * PageSize \in Nat
  BY <1>1, MatchesFinite, BoundsAssumption DEF Progress
<1>5. \/ /\ total > Ceiling /\ r[1] # r[2]
         /\ cursor'[i] = [c EXCEPT !.ranges = (c.ranges \ {r}) \cup H, !.page = 1]
      \/ /\ c.page * PageSize >= total
         /\ cursor'[i] = [ranges |-> c.ranges \ {r}, page |-> 1, pending |-> Page(r, c.page)]
      \/ cursor'[i] = [c EXCEPT !.page = c.page + 1, !.pending = Page(r, c.page)]
  BY DEF Search, Advance, TypeOK
<1>6. total <= c.page * PageSize <=> c.page * PageSize >= total
  BY <1>4
<1> HIDE DEF c, r, total, H
<1>7. CASE total > Ceiling /\ r[1] # r[2] /\ cursor'[i] = [c EXCEPT !.ranges = (c.ranges \ {r}) \cup H, !.page = 1]
  <2>1. cursor'[i].ranges = (c.ranges \ {r}) \cup H /\ cursor'[i].page = 1 /\ cursor'[i] \in Progress
    <3>1. (c.ranges \ {r}) \cup H \in SUBSET Ranges
      BY <1>1, <1>3, <1>7 DEF Progress
    <3> QED
      <4> DEFINE R == (c.ranges \ {r}) \cup H
                 n == cursor'[i]
      <4>1. n = [c EXCEPT !.ranges = R, !.page = 1]
        BY <1>7
      <4>2. c \in Progress /\ R \in SUBSET Ranges
        BY <1>1, <3>1
      <4> HIDE DEF R, n
      <4>3. n \in Progress /\ n.ranges = R /\ n.page = 1
        <5>1. c = [ranges |-> c.ranges, page |-> c.page, pending |-> c.pending] /\ c.pending \in SUBSET Prs
          BY <4>2 DEF Progress
        <5>2. n = [ranges |-> R, page |-> 1, pending |-> c.pending]
          BY <4>1, <5>1
        <5> QED
          BY <4>2, <5>1, <5>2 DEF Progress
      <4> QED
        BY <4>3 DEF R, n
  <2> QED
    BY <1>1, <1>7, <2>1 DEF c, r, total, H
<1>8. CASE c.page * PageSize >= total
           /\ cursor'[i] = [ranges |-> c.ranges \ {r}, page |-> 1, pending |-> Page(r, c.page)]
  <2>1. cursor'[i].ranges = c.ranges \ {r} /\ cursor'[i].page = 1 /\ cursor'[i].pending = Page(r, c.page)
        /\ cursor'[i] \in Progress
    BY <1>1, <1>2, <1>8 DEF Progress
  <2> QED
    BY <1>1, <1>6, <1>8, <2>1 DEF c, r, total
<1>9. CASE cursor'[i] = [c EXCEPT !.page = c.page + 1, !.pending = Page(r, c.page)]
  <2>1. cursor'[i].ranges = c.ranges /\ cursor'[i].page = c.page + 1 /\ cursor'[i].pending = Page(r, c.page)
        /\ cursor'[i] \in Progress
    <3>1. c.page + 1 \in Nat \ {0}
      BY <1>4
    <3> QED
      <4> DEFINE P == Page(r, c.page)
                 k == c.page + 1
                 n == cursor'[i]
      <4>1. n = [c EXCEPT !.page = k, !.pending = P]
        BY <1>9
      <4>2. c \in Progress /\ P \in SUBSET Prs /\ k \in Nat \ {0}
        BY <1>1, <1>2, <3>1
      <4> HIDE DEF P, k, n
      <4>3. n \in Progress /\ n.ranges = c.ranges /\ n.page = k /\ n.pending = P
        BY <4>1, <4>2 DEF Progress
      <4> QED
        BY <4>3 DEF P, k, n
  <2> QED
    BY <1>1, <2>1 DEF c, r
<1> QED
  BY <1>5, <1>7, <1>8, <1>9

\* A search loses nothing: the halves of its range, the next page, the ranges after it.
LEMMA SearchAccounted ==
  ASSUME TypeOK, NEW i \in Importers, Search(i), NEW t, Accounted(day, stored, cursor[i], t)
  PROVE  Accounted(day, stored, cursor'[i], t)
<1>1. PICK c \in Progress, n \in Progress, r \in Ranges :
    /\ c = cursor[i] /\ n = cursor'[i] /\ c.pending = {}
    /\ r \in c.ranges /\ r = FirstRange(c.ranges)
    /\ \/ /\ Cardinality(Matches(r)) > Ceiling /\ r[1] # r[2]
          /\ n.ranges = (c.ranges \ {r}) \cup Halves(r, r[1] + (r[2] - r[1]) \div 2)
          /\ n.page = 1
       \/ /\ Cardinality(Matches(r)) <= c.page * PageSize
          /\ n.ranges = c.ranges \ {r} /\ n.page = 1 /\ n.pending = Page(r, c.page)
       \/ /\ n.ranges = c.ranges /\ n.page = c.page + 1 /\ n.pending = Page(r, c.page)
  BY SearchSteps
<1>2. Accounted(day, stored, c, t) /\ Cardinality(Matches(r)) \in Nat
  BY <1>1, MatchesFinite
<1>3. SUFFICES ASSUME NEW p \in Prs, day[p] <= t, p \notin stored
      PROVE  p \in n.pending \/ ToCome(day, n, p)
  BY <1>1 DEF Accounted
<1>4. PICK q \in c.ranges : p \in Matches(q) /\ (q = r => Rank(q, p) > (c.page - 1) * PageSize)
  <2>1. ToCome(day, c, p)
    BY <1>1, <1>2, <1>3 DEF Accounted
  <2> QED
    BY <1>1, <2>1, ToComeNow
<1>5. CASE n.page = 1 /\ \E h \in n.ranges : p \in Matches(h)
  BY <1>5, FirstPage
<1>6. CASE q # r
  <2>1. CASE n.page = 1 /\ q \in n.ranges
    BY <1>4, <1>5, <2>1
  <2>2. CASE n.ranges = c.ranges
    <3>1. q \in n.ranges /\ q # FirstRange(n.ranges)
      BY <1>1, <1>6, <2>2
    <3> QED
      BY <1>4, <3>1, ToComeNow
  <2> QED
    BY <1>1, <1>6, <2>1, <2>2
<1>7. CASE q = r
  <2>1. CASE Cardinality(Matches(r)) > Ceiling /\ r[1] # r[2] /\ n.page = 1
             /\ n.ranges = (c.ranges \ {r}) \cup Halves(r, r[1] + (r[2] - r[1]) \div 2)
    <3>1. \E h \in Halves(r, r[1] + (r[2] - r[1]) \div 2) : p \in Matches(h)
      BY <1>4, <1>7, <2>1, HalvesMatch
    <3> QED
      BY <1>5, <2>1, <3>1
  <2>2. CASE Cardinality(Matches(r)) <= c.page * PageSize /\ n.pending = Page(r, c.page)
    <3>1. Rank(r, p) \in Nat /\ Rank(r, p) <= Cardinality(Matches(r)) /\ c.page * PageSize \in Nat
      BY <1>4, <1>7, RankInRange, BoundsAssumption DEF Progress
    <3>2. Rank(r, p) <= c.page * PageSize
      BY <1>2, <2>2, <3>1
    <3>3. p \in Page(r, c.page)
      BY <1>4, <1>7, <3>2 DEF Page
    <3> QED
      BY <2>2, <3>3
  <2>3. CASE n.ranges = c.ranges /\ n.page = c.page + 1 /\ n.pending = Page(r, c.page)
    <3>1. c.page \in Nat \ {0}
      BY DEF Progress
    <3>2. p \in Page(r, c.page) \/ Rank(r, p) > ((c.page + 1) - 1) * PageSize
      BY <1>4, <1>7, <3>1, PageOrLater
    <3>3. CASE Rank(r, p) > (n.page - 1) * PageSize
      BY <1>1, <1>4, <1>7, <2>3, <3>3, ToComeNow
    <3> QED
      BY <2>3, <3>2, <3>3
  <2> QED
    BY <1>1, <2>1, <2>2, <2>3
<1> QED
  BY <1>6, <1>7

-----------------------------------------------------------------------------
(* Types.                                                                  *)

LEMMA FaultTypeOK == TypeOK /\ Fault => faults' \in 0..MaxFaults
BY BoundsAssumption DEF TypeOK, Fault

LEMMA FromTypeOK == \A d \in Days : From(1, d) \in Progress
BY BoundsAssumption DEF From, Progress, Ranges, Days

LEMMA SaveTypeOK ==
  ASSUME TypeOK, NEW i \in Importers, NEW f \in BOOLEAN,
         NEW s \in {"queued", "running", "retry", "blocked", "dead_letter", "ready"},
         NEW step \in {"idle", "request"},
         Save(i, s, f, step), faults' \in 0..MaxFaults
  PROVE  TypeOK'
<1> USE DEF TypeOK
<1>1. day' = day /\ stored' = stored /\ requested' = requested /\ token' = token
      /\ cursor' = cursor /\ tries' = tries
  BY DEF Save
<1>2. at' \in [Importers -> {"idle", "request", "save"}]
  BY DEF Save
<1>3. CASE token = i
  <2>1. tries[i] + 1 \in Nat
    OBVIOUS
  <2>2. attempts' \in Nat
    BY <1>3, <2>1 DEF Save
  <2>3. live' \in BOOLEAN /\ waiting' \in BOOLEAN
    BY <1>3 DEF Save
  <2>4. progress' \in Progress /\ state' = s /\ coveredTo' \in Days \cup {0}
    BY <1>3 DEF Save
  <2> QED
    BY <1>1, <1>2, <2>2, <2>3, <2>4
<1>4. CASE token # i
  BY <1>1, <1>2, <1>4 DEF Save
<1> QED
  BY <1>3, <1>4

LEMMA SearchTypeOK == ASSUME TypeOK, NEW i \in Importers, Search(i) PROVE TypeOK'
<1>1. cursor'[i] \in Progress
  BY SearchSteps
<1>2. cursor' = [cursor EXCEPT ![i] = cursor'[i]] /\ at' = [at EXCEPT ![i] = "save"]
      /\ UNCHANGED <<day, row, tries, faults, stored>>
  BY DEF Search, Advance, TypeOK
<1>3. cursor' \in [Importers -> Progress]
  BY <1>1, <1>2 DEF TypeOK
<1> QED
  BY <1>2, <1>3 DEF TypeOK, row

LEMMA NextMonthTypeOK == TypeOK /\ [Next]_vars => TypeOK'
<1> SUFFICES ASSUME TypeOK, [Next]_vars PROVE TypeOK'
  OBVIOUS
<1> USE DEF TypeOK
<1>1. ASSUME NEW d \in Days, Request(d) PROVE TypeOK'
  <2>1. From(1, d) \in Progress
    BY FromTypeOK
  <2> QED
    BY <1>1, <2>1 DEF Request, local
<1>2. CASE RetryDue
  BY <1>2 DEF RetryDue, local
<1>3. CASE Expire
  BY <1>3 DEF Expire, local
<1>4. CASE ExpireHeld
  BY <1>4, FaultTypeOK DEF ExpireHeld, local
<1>5. ASSUME NEW i \in Importers, Claim(i) PROVE TypeOK'
  BY <1>5 DEF Claim
<1>6. ASSUME NEW i \in Importers, Upsert(i) PROVE TypeOK'
  <2>1. PICK p \in cursor[i].pending :
          \/ /\ stored' = stored \cup {p}
             /\ Advance(i, [cursor[i] EXCEPT !.pending = @ \ {p}])
          \/ /\ at' = [at EXCEPT ![i] = "idle"]
             /\ UNCHANGED <<day, stored, row, cursor, tries, faults>>
    BY <1>6 DEF Upsert
  <2>2. p \in Prs /\ [cursor[i] EXCEPT !.pending = @ \ {p}] \in Progress
    BY <2>1 DEF Progress
  <2> QED
    BY <2>1, <2>2 DEF Advance, row
<1>7. ASSUME NEW i \in Importers, Search(i) PROVE TypeOK'
  BY <1>7, SearchTypeOK
<1>8. ASSUME NEW i \in Importers, Ready(i) PROVE TypeOK'
  BY <1>8, SaveTypeOK DEF Ready
<1>9. ASSUME NEW i \in Importers, Keep(i) PROVE TypeOK'
  BY <1>9, SaveTypeOK DEF Keep
<1>10. ASSUME NEW i \in Importers, Fails(i) PROVE TypeOK'
  <2>1. PICK s \in {"retry", "blocked"} :
          /\ UNCHANGED faults \/ Fault
          /\ Save(i, IF tries[i] >= MaxAttempts THEN "dead_letter" ELSE s, TRUE, "idle")
    BY <1>10 DEF Fails
  <2>2. faults' \in 0..MaxFaults
    BY <2>1, FaultTypeOK
  <2> QED
    BY <2>1, <2>2, SaveTypeOK
<1>11. ASSUME NEW i \in Importers, Dies(i) PROVE TypeOK'
  BY <1>11, FaultTypeOK DEF Dies, row
<1>12. CASE UNCHANGED vars
  BY <1>12 DEF vars, row, local
<1> QED
  BY <1>1, <1>2, <1>3, <1>4, <1>5, <1>6, <1>7, <1>8, <1>9, <1>10, <1>11, <1>12 DEF Next, Work

-----------------------------------------------------------------------------
(* Nothing is lost.                                                        *)

LEMMA InitMonthIInv == Init => MonthIInv
<1> SUFFICES ASSUME Init PROVE MonthIInv
  OBVIOUS
<1>1. TypeOK
  <2>1. 1 \in Days /\ 0 \in 0..MaxFaults
    BY BoundsAssumption DEF Days
  <2>2. From(1, 1) \in Progress
    BY <2>1, FromTypeOK
  <2> QED
    BY <2>1, <2>2 DEF Init, TypeOK
<1> QED
  BY <1>1 DEF Init, MonthIInv, Accounted, CoveredMeansStored, TypeOK, Days

\* An importer that saves puts its own cursor on the row.
LEMMA SaveIInv ==
  ASSUME MonthIInv, NEW i \in Importers, NEW s, NEW f, NEW step, Save(i, s, f, step), TypeOK',
         at[i] # "idle",
         s = "ready" => cursor[i].pending = {} /\ cursor[i].ranges = {}
  PROVE  MonthIInv'
<1>1. day' = day /\ stored' = stored /\ requested' = requested /\ token' = token /\ cursor' = cursor
  BY DEF Save
<1>2. \A j \in Importers : token = j /\ at'[j] # "idle" => at[j] # "idle"
  BY DEF Save, MonthIInv, TypeOK
<1>3. progress' = progress \/ (token = i /\ progress' = cursor[i])
  BY DEF Save
<1>4. Accounted(day, stored, progress, requested)'
  BY <1>1, <1>3, StoredGrows DEF MonthIInv
<1>5. \A j \in Importers : token' = j /\ at'[j] # "idle" => Accounted(day, stored, cursor[j], requested)'
  BY <1>1, <1>2 DEF MonthIInv
<1>6. CoveredMeansStored'
  <2>1. CASE coveredTo' = coveredTo
    BY <1>1, <2>1 DEF MonthIInv, CoveredMeansStored
  <2>2. CASE s = "ready" /\ token = i /\ coveredTo' = requested
    BY <1>1, <2>2 DEF MonthIInv, Accounted, ToCome, CoveredMeansStored
  <2> QED
    BY <2>1, <2>2 DEF Save
<1> QED
  BY <1>4, <1>5, <1>6 DEF MonthIInv

LEMMA NextMonthIInv == MonthIInv /\ [Next]_vars => MonthIInv'
<1> SUFFICES ASSUME MonthIInv, [Next]_vars PROVE MonthIInv'
  OBVIOUS
<1>0. TypeOK /\ TypeOK'
  BY NextMonthTypeOK DEF MonthIInv
<1>1. ASSUME NEW d \in Days, Request(d) PROVE MonthIInv'
  <2>1. requested' = d /\ progress' = From(1, d) /\ token' = None /\ day' = day /\ stored' = stored
        /\ coveredTo' = coveredTo
    BY <1>1 DEF Request
  <2>2. Accounted(day, stored, progress, requested)'
    BY <1>0, <2>1, AllToCome DEF row
  <2> QED
    BY <1>0, <2>1, <2>2, ImportersAssumption DEF MonthIInv, CoveredMeansStored
<1>2. ASSUME UNCHANGED <<day, stored, requested, coveredTo, progress, token, cursor>>,
             \A i \in Importers : at'[i] # "idle" => at[i] # "idle"
      PROVE  MonthIInv'
  BY <1>0, <1>2 DEF MonthIInv, CoveredMeansStored
<1>3. CASE RetryDue \/ Expire \/ ExpireHeld \/ UNCHANGED vars
  BY <1>2, <1>3 DEF RetryDue, Expire, ExpireHeld, local, vars, row
<1>4. ASSUME NEW i \in Importers, Claim(i) PROVE MonthIInv'
  <2>1. UNCHANGED <<day, stored, requested, coveredTo, progress>> /\ token' = i /\ cursor'[i] = progress
    BY <1>0, <1>4 DEF Claim, TypeOK
  <2>2. Accounted(day, stored, progress, requested)'
    BY <2>1 DEF MonthIInv
  <2> QED
    BY <1>0, <2>1, <2>2 DEF MonthIInv, CoveredMeansStored
<1>5. ASSUME NEW i \in Importers, Upsert(i) PROVE MonthIInv'
  <2>1. CASE at' = [at EXCEPT ![i] = "idle"] /\ UNCHANGED <<day, stored, row, cursor, tries, faults>>
    BY <1>0, <1>2, <2>1 DEF TypeOK, row
  <2>2. ASSUME NEW p \in cursor[i].pending, stored' = stored \cup {p},
               Advance(i, [cursor[i] EXCEPT !.pending = @ \ {p}])
        PROVE  MonthIInv'
    <3>1. day' = day /\ stored \subseteq stored' /\ UNCHANGED row
      BY <2>2 DEF Advance
    <3>2. cursor'[i] = [cursor[i] EXCEPT !.pending = cursor[i].pending \ {p}]
          /\ \A j \in Importers \ {i} : cursor'[j] = cursor[j] /\ at'[j] = at[j]
      BY <1>0, <2>2 DEF Advance, TypeOK
    <3>3. cursor'[i].ranges = cursor[i].ranges /\ cursor'[i].page = cursor[i].page
          /\ cursor'[i].pending = cursor[i].pending \ {p}
      BY <1>0, <3>2 DEF TypeOK, Progress
    <3>4. Accounted(day, stored, progress, requested)'
      BY <3>1, StoredGrows DEF MonthIInv, row
    <3>5. ASSUME NEW j \in Importers, token' = j, at'[j] # "idle" PROVE Accounted(day, stored, cursor[j], requested)'
      <4>1. CASE j = i
        <5>1. Accounted(day, stored, cursor[i], requested)
          BY <1>5, <3>1, <3>5, <4>1 DEF MonthIInv, Upsert, row
        <5> QED
          BY <2>2, <3>1, <3>3, <4>1, <5>1 DEF Accounted, ToCome, row
      <4>2. CASE j # i
        <5>1. Accounted(day, stored, cursor[j], requested)
          BY <3>1, <3>2, <3>5, <4>2 DEF MonthIInv, row
        <5> QED
          BY <3>1, <3>2, <4>2, <5>1, StoredGrows DEF row
      <4> QED
        BY <4>1, <4>2
    <3>6. CoveredMeansStored'
      BY <3>1 DEF MonthIInv, CoveredMeansStored, row
    <3> QED
      BY <1>0, <3>4, <3>5, <3>6 DEF MonthIInv
  <2> QED
    BY <1>5, <2>1, <2>2 DEF Upsert
<1>6. ASSUME NEW i \in Importers, Search(i) PROVE MonthIInv'
  <2>1. UNCHANGED <<day, stored, row>> /\ \A j \in Importers \ {i} : cursor'[j] = cursor[j] /\ at'[j] = at[j]
    BY <1>0, <1>6 DEF Search, Advance, TypeOK
  <2>2. ASSUME NEW j \in Importers, token' = j, at'[j] # "idle" PROVE Accounted(day, stored, cursor[j], requested)'
    <3>1. CASE j = i
      <4>1. Accounted(day, stored, cursor[i], requested)
        BY <1>6, <2>1, <2>2, <3>1 DEF MonthIInv, Search, row
      <4>2. Accounted(day, stored, cursor'[i], requested)
        BY <1>0, <1>6, <4>1, SearchAccounted
      <4> QED
        BY <2>1, <3>1, <4>2 DEF row
    <3>2. CASE j # i
      BY <2>1, <2>2, <3>2 DEF MonthIInv, row
    <3> QED
      BY <3>1, <3>2
  <2>3. Accounted(day, stored, progress, requested)' /\ CoveredMeansStored'
    BY <2>1 DEF MonthIInv, CoveredMeansStored, row
  <2> QED
    BY <1>0, <2>2, <2>3 DEF MonthIInv
<1>7. ASSUME NEW i \in Importers, Ready(i) PROVE MonthIInv'
  BY <1>0, <1>7, SaveIInv DEF Ready
<1>8. ASSUME NEW i \in Importers, Keep(i) PROVE MonthIInv'
  BY <1>0, <1>8, SaveIInv DEF Keep
<1>9. ASSUME NEW i \in Importers, Fails(i) PROVE MonthIInv'
  <2>1. PICK s \in {"retry", "blocked", "dead_letter"} : Save(i, s, TRUE, "idle")
    BY <1>9 DEF Fails
  <2> QED
    BY <1>0, <1>9, <2>1, SaveIInv DEF Fails
<1>10. ASSUME NEW i \in Importers, Dies(i) PROVE MonthIInv'
  BY <1>0, <1>2, <1>10 DEF Dies, TypeOK, row
<1> QED
  BY <1>1, <1>3, <1>4, <1>5, <1>6, <1>7, <1>8, <1>9, <1>10 DEF Next, Work

\* The row and the importers keep to their values, for any month, any number of
\* pull requests and importers.
THEOREM TypeCorrect == Spec => []TypeOK
<1>1. Init => TypeOK
  BY InitMonthIInv DEF MonthIInv
<1>2. TypeOK /\ [Next]_vars => TypeOK'
  BY NextMonthTypeOK
<1> QED
  BY <1>1, <1>2, PTL DEF Spec

\* A month is said to be covered only when every pull request merged up to that
\* day is stored (_save writes covered_through, upsert checks the claim).
THEOREM Covered == Spec => []CoveredMeansStored
<1>1. MonthIInv => CoveredMeansStored
  BY DEF MonthIInv
<1> QED
  BY InitMonthIInv, NextMonthIInv, <1>1, PTL DEF Spec

-----------------------------------------------------------------------------
(***************************************************************************)
(* The hourly import and the measurement of details (HistorySync).         *)
(***************************************************************************)

\* Two versions are of two times, and none is of a time to come; what is recorded
\* and what is got were versions once.
TimesApart ==
  /\ \A p \in Listed : recorded[p] <= updated[p] /\ updated[p] <= now /\ import.got[p] <= updated[p]
  /\ \A p, q \in Listed : updated[p] = updated[q] /\ updated[p] # 0 => p = q

\* Details are of the version of their record or of a later one.
Measured ==
  /\ \A p \in Listed : measured[p] # 0 =>
       0 < recorded[p] /\ recorded[p] <= measured[p] /\ measured[p] <= updated[p]
  /\ \A x \in Readers :
       LET r == reader[x] IN
       /\ r.step \in {"detail", "rest", "publish"} => 0 < r.expected /\ r.expected <= updated[r.pr]
       /\ r.step = "detail" => r.read = 0
       /\ r.step = "publish" /\ r.read # 0 => r.expected <= r.read /\ r.read <= updated[r.pr]

MeasureIInv == HistoryTypeOK /\ TimesApart /\ Measured

\* A status that is written, or held to be written later, tells the truth, and no
\* import under way began before it.
Holds(s) == s.complete => \A p \in Listed : updated[p] <= s.last => recorded[p] = updated[p]
Known(s) ==
  /\ Holds(s) /\ s.last <= now
  /\ import.step # "idle" => s.last <= import.start

StatusesKnown == Known(status) /\ Known(import.previous) /\ \A x \in Readers : Known(reader[x].copy)

\* A pull request of the time before the import, which is not recorded as it is, is
\* on the page that was got or further down the list than the pages so far; and then
\* the page is full, of later updates than this.
Old(p)    == 0 < updated[p] /\ updated[p] <= import.start
Missed(p) == Old(p) /\ recorded[p] # updated[p]
Ahead(p)  ==
  \/ import.step = "get" /\ Later(p) >= (import.page - 1) * PerPage
  \/ import.step = "upsert" /\ import.got[p] = updated[p]
  \/ import.step \in {"upsert", "status"} /\ Later(p) >= import.page * PerPage
Full(p)   ==
  /\ Cardinality({q \in Listed : import.got[q] > 0}) >= PerPage
  /\ \A q \in Listed : import.got[q] > 0 => import.got[q] > updated[p]

Pages ==
  import.step # "idle" =>
    /\ import.start <= now
    /\ \A p \in Listed : Old(p) /\ import.got[p] > 0 => import.got[p] = updated[p]
    /\ \A p \in Listed : Missed(p) => Ahead(p)
    /\ import.step \in {"upsert", "status"} =>
         \A p \in Listed :
           Missed(p) /\ (import.step = "upsert" => import.got[p] # updated[p]) => Full(p)

HistoryIInv == HistoryTypeOK /\ TimesApart /\ StatusesKnown /\ Pages

-----------------------------------------------------------------------------
(* Types.                                                                  *)

LEMMA InitHistoryTypeOK == HistoryInit => HistoryTypeOK
<1> SUFFICES ASSUME HistoryInit PROVE HistoryTypeOK
  OBVIOUS
<1> USE HistoryAssumption
<1>1. 0 \in Times /\ 1 \in Listed /\ 1 \in 1..MaxPages /\ Nothing \in Versions /\ Never \in Statuses
  BY DEF Times, Listed, Nothing, Versions, Never, Statuses
<1>2. IdleImport \in [step : {"idle", "get", "upsert", "status"}, previous : Statuses,
                      start : Times, page : 1..MaxPages, got : Versions]
  BY <1>1 DEF IdleImport
<1>3. IdleReader \in [step : {"idle", "detail", "rest", "publish", "report", "write"},
                      pr : Listed, expected : Times, read : Times, copy : Statuses]
  BY <1>1 DEF IdleReader
<1>4. breaks \in 0..MaxBreaks
  BY DEF HistoryInit
<1> QED
  BY <1>1, <1>2, <1>3, <1>4 DEF HistoryInit, HistoryTypeOK

LEMMA NextHistoryTypeOK == HistoryTypeOK /\ [HistoryNext]_historyVars => HistoryTypeOK'
<1> SUFFICES ASSUME HistoryTypeOK, [HistoryNext]_historyVars PROVE HistoryTypeOK'
  OBVIOUS
<1> USE HistoryAssumption
<1> DEFINE Import0 == [step : {"idle", "get", "upsert", "status"}, previous : Statuses,
                       start : Times, page : 1..MaxPages, got : Versions]
           Reader0 == [step : {"idle", "detail", "rest", "publish", "report", "write"},
                       pr : Listed, expected : Times, read : Times, copy : Statuses]
<1>1. 0 \in Times /\ 1 \in Listed /\ 1 \in 1..MaxPages /\ Nothing \in Versions /\ Never \in Statuses
  BY DEF Times, Listed, Nothing, Versions, Never, Statuses
<1>2. IdleImport \in Import0 /\ IdleReader \in Reader0
  BY <1>1 DEF IdleImport, IdleReader
<1>3. Breaks => breaks' \in 0..MaxBreaks
  BY DEF Breaks, HistoryTypeOK
<1>4. CASE UNCHANGED historyVars
  BY <1>4 DEF historyVars, github, HistoryTypeOK
<1>5. CASE Pass
  BY <1>5 DEF Pass, HistoryTypeOK, Times
<1>6. ASSUME NEW p \in Listed, Update(p) PROVE HistoryTypeOK'
  <2>1. now' \in Times
    BY <1>6 DEF Update, HistoryTypeOK, Times
  <2> QED
    BY <1>6, <2>1 DEF Update, HistoryTypeOK, Versions
<1>7. CASE Begin
  <2>1. [IdleImport EXCEPT !.step = "get", !.previous = status, !.start = now] \in Import0
    BY <1>2 DEF HistoryTypeOK
  <2> QED
    BY <1>7, <2>1 DEF Begin, github, HistoryTypeOK
<1>8. CASE Get
  <2>1. [p \in Listed |-> IF OnPage(p) THEN updated[p] ELSE 0] \in Versions
    BY <1>1 DEF HistoryTypeOK, Versions
  <2>2. import' \in Import0
    BY <1>8, <2>1 DEF Get, HistoryTypeOK
  <2>3. status' \in Statuses
    BY <1>8 DEF Get, HistoryTypeOK
  <2> QED
    BY <1>8, <2>2, <2>3 DEF Get, github, HistoryTypeOK
<1>9. CASE Record
  <2>1. measured' \in Versions /\ recorded' \in Versions
    BY <1>1, <1>9 DEF Record, HistoryTypeOK, Versions
  <2>2. import' \in Import0 /\ whole' \subseteq Listed
    BY <1>9 DEF Record, HistoryTypeOK
  <2> QED
    BY <1>9, <2>1, <2>2 DEF Record, github, HistoryTypeOK
<1>10. CASE Mark
  <2>1. Success \in Statuses
    BY DEF Success, Statuses, HistoryTypeOK
  <2>2. import.page # MaxPages => import.page + 1 \in 1..MaxPages
    BY DEF HistoryTypeOK
  <2>3. import' \in Import0
    BY <1>1, <1>2, <1>10, <2>2 DEF Mark, HistoryTypeOK
  <2>4. status' \in Statuses
    BY <1>10, <2>1 DEF Mark, HistoryTypeOK
  <2> QED
    BY <1>10, <2>3, <2>4 DEF Mark, github, HistoryTypeOK
<1>11. CASE PageFails
  BY <1>2, <1>3, <1>11 DEF PageFails, github, HistoryTypeOK
<1>12. CASE Crash
  BY <1>2, <1>3, <1>12 DEF Crash, github, HistoryTypeOK
<1>13. ASSUME NEW x \in Readers, Measure(x) PROVE HistoryTypeOK'
  <2>1. ASSUME NEW m \in Reader0, Goto(x, m) PROVE /\ reader' \in [Readers -> Reader0]
                                                  /\ UNCHANGED <<updated, now, recorded, import>>
    BY <2>1 DEF Goto, github, HistoryTypeOK
  <2>2. reader[x] \in Reader0
    BY DEF HistoryTypeOK
  <2>3. CASE Pick(x)
    <3>1. PICK p \in Listed : Goto(x, [IdleReader EXCEPT !.step = "detail", !.pr = p, !.expected = recorded[p]])
      BY <2>3 DEF Pick
    <3>2. [IdleReader EXCEPT !.step = "detail", !.pr = p, !.expected = recorded[p]] \in Reader0
      BY <1>2 DEF HistoryTypeOK, Versions
    <3> QED
      BY <2>1, <2>3, <3>1, <3>2 DEF Pick, HistoryTypeOK
  <2>4. CASE Detail(x)
    <3>1. [reader[x] EXCEPT !.step = "rest"] \in Reader0 /\ [reader[x] EXCEPT !.step = "publish"] \in Reader0
      BY <2>2
    <3> QED
      BY <2>1, <2>4, <3>1 DEF Detail, HistoryTypeOK
  <2>5. CASE Rest(x)
    <3>1. [reader[x] EXCEPT !.step = "publish", !.read = updated[reader[x].pr]] \in Reader0
      BY <2>2 DEF HistoryTypeOK, Versions
    <3> QED
      BY <2>1, <2>5, <3>1 DEF Rest, HistoryTypeOK
  <2>6. CASE Publish(x)
    <3>1. [IdleReader EXCEPT !.step = "report"] \in Reader0
      BY <1>2
    <3>2. measured' \in Versions /\ whole' \subseteq Listed
      BY <2>2, <2>6 DEF Publish, HistoryTypeOK, Versions
    <3> QED
      BY <2>1, <2>6, <3>1, <3>2 DEF Publish, HistoryTypeOK
  <2>7. CASE DetailFails(x)
    <3>1. [IdleReader EXCEPT !.step = "report"] \in Reader0
      BY <1>2
    <3>2. whole' \subseteq Listed
      BY <2>7 DEF DetailFails, HistoryTypeOK
    <3> QED
      BY <1>3, <2>1, <2>7, <3>1, <3>2 DEF DetailFails, HistoryTypeOK
  <2>8. CASE Report(x)
    <3>1. [reader[x] EXCEPT !.step = "write", !.copy = status] \in Reader0
      BY <2>2 DEF HistoryTypeOK
    <3> QED
      BY <2>1, <2>8, <3>1 DEF Report, HistoryTypeOK
  <2>9. CASE Write(x)
    <3>1. status' \in Statuses
      BY <2>2, <2>9 DEF Write
    <3> QED
      BY <1>2, <2>1, <2>9, <3>1 DEF Write, HistoryTypeOK
  <2> QED
    BY <1>13, <2>3, <2>4, <2>5, <2>6, <2>7, <2>8, <2>9 DEF Measure
<1> QED
  BY <1>4, <1>5, <1>6, <1>7, <1>8, <1>9, <1>10, <1>11, <1>12, <1>13 DEF HistoryNext, Import

-----------------------------------------------------------------------------
(* Times, and the details.                                                 *)

\* Time only goes on, so that a new version is later than every other.
LEMMA NextTimesApart ==
  HistoryTypeOK /\ TimesApart /\ HistoryNext => TimesApart'
<1> SUFFICES ASSUME HistoryTypeOK, TimesApart, HistoryNext PROVE TimesApart'
  OBVIOUS
<1>1. /\ updated \in [Listed -> Nat] /\ recorded \in [Listed -> Nat] /\ import.got \in [Listed -> Nat]
      /\ now \in Nat /\ \A p \in Listed : updated[p] >= 0
  BY HistoryAssumption DEF HistoryTypeOK, Versions, Times
<1>2. Nothing = [p \in Listed |-> 0] /\ IdleImport.got = Nothing
  BY DEF Nothing, IdleImport
<1>3. CASE Pass
  BY <1>1, <1>3 DEF Pass, TimesApart
<1>4. ASSUME NEW p \in Listed, Update(p) PROVE TimesApart'
  <2>1. /\ now' = now + 1 /\ updated' = [updated EXCEPT ![p] = now + 1]
        /\ UNCHANGED <<recorded, import>>
    BY <1>4 DEF Update
  <2> QED
    BY <1>1, <2>1 DEF TimesApart
<1>5. CASE Begin \/ PageFails \/ Crash
  <2>1. UNCHANGED <<updated, now, recorded>> /\ (import' = import \/ import'.got = Nothing)
    BY <1>2, <1>5 DEF Begin, PageFails, Crash, github, IdleImport
  <2> QED
    BY <1>1, <1>2, <2>1 DEF TimesApart
<1>6. CASE Get
  <2>1. /\ UNCHANGED <<updated, now, recorded>>
        /\ import'.got = [p \in Listed |-> IF OnPage(p) THEN updated[p] ELSE 0]
    BY <1>6 DEF Get, github, HistoryTypeOK
  <2> QED
    BY <1>1, <2>1 DEF TimesApart
<1>7. CASE Record
  <2>1. /\ UNCHANGED <<updated, now>> /\ import'.got = import.got
        /\ recorded' = [p \in Listed |-> IF import.got[p] > 0 THEN import.got[p] ELSE recorded[p]]
    BY <1>7 DEF Record, github, HistoryTypeOK
  <2> QED
    BY <1>1, <2>1 DEF TimesApart
<1>8. CASE Mark
  <2>1. UNCHANGED <<updated, now, recorded>> /\ import'.got = Nothing
    BY <1>2, <1>8 DEF Mark, github, HistoryTypeOK
  <2> QED
    BY <1>1, <1>2, <2>1 DEF TimesApart
<1>9. ASSUME NEW x \in Readers, Measure(x) PROVE TimesApart'
  <2>1. UNCHANGED <<updated, now, recorded, import>>
    BY <1>9 DEF Measure, Pick, Detail, Rest, Publish, DetailFails, Report, Write, Goto, github
  <2> QED
    BY <2>1 DEF TimesApart
<1> QED
  BY <1>3, <1>4, <1>5, <1>6, <1>7, <1>8, <1>9 DEF HistoryNext, Import

\* A measurement is published for the version it was read of, or for none.
LEMMA NextMeasured ==
  MeasureIInv /\ [HistoryNext]_historyVars => MeasureIInv'
<1> SUFFICES ASSUME MeasureIInv, [HistoryNext]_historyVars PROVE MeasureIInv'
  OBVIOUS
<1>1. HistoryTypeOK'
  BY NextHistoryTypeOK DEF MeasureIInv
<1>2. CASE UNCHANGED historyVars
  BY <1>1, <1>2 DEF MeasureIInv, TimesApart, Measured, historyVars, github
<1>3. CASE HistoryNext
  <2>1. TimesApart'
    BY <1>3, NextTimesApart DEF MeasureIInv
  <2>2. /\ updated \in [Listed -> Nat] /\ recorded \in [Listed -> Nat] /\ measured \in [Listed -> Nat]
        /\ now \in Nat /\ import.got \in [Listed -> Nat]
        /\ \A x \in Readers : reader[x].pr \in Listed /\ reader[x].expected \in Nat /\ reader[x].read \in Nat
    BY HistoryAssumption DEF MeasureIInv, HistoryTypeOK, Versions, Times
  <2>3. ASSUME \A p \in Listed : updated'[p] >= updated[p], recorded' = recorded, measured' = measured,
               \A x \in Readers : reader'[x] = reader[x] \/ reader'[x] = IdleReader
        PROVE  Measured'
    <3>1. IdleReader.step = "idle"
      BY DEF IdleReader
    <3>2. \A p \in Listed : updated'[p] \in Nat
      BY <1>1 DEF HistoryTypeOK, Versions, Times
    <3> QED
      BY <2>2, <2>3, <3>1, <3>2 DEF Measured, MeasureIInv
  <2>4. CASE Pass \/ Begin \/ Get \/ Mark \/ PageFails \/ Crash
    <3>1. updated' = updated /\ recorded' = recorded /\ measured' = measured
      BY <2>4 DEF Pass, Begin, Get, Mark, PageFails, Crash, github
    <3>2. \A x \in Readers : reader'[x] = reader[x] \/ reader'[x] = IdleReader
      BY <2>4 DEF Pass, Begin, Get, Mark, PageFails, Crash, github
    <3>3. \A p \in Listed : updated'[p] >= updated[p]
      BY <2>2, <3>1
    <3> QED
      BY <1>1, <2>1, <2>3, <3>1, <3>2, <3>3 DEF MeasureIInv
  <2>5. ASSUME NEW p \in Listed, Update(p) PROVE Measured'
    <3>1. /\ updated' = [updated EXCEPT ![p] = now + 1] /\ UNCHANGED <<recorded, measured, reader>>
      BY <2>5 DEF Update
    <3>2. \A q \in Listed : updated'[q] >= updated[q]
      BY <2>2, <3>1 DEF MeasureIInv, TimesApart
    <3> QED
      BY <2>3, <3>1, <3>2
  <2>6. CASE Record
    <3>1. /\ UNCHANGED <<updated, reader>>
          /\ measured' = [p \in Listed |-> IF Changed(p) THEN 0 ELSE measured[p]]
          /\ recorded' = [p \in Listed |-> IF import.got[p] > 0 THEN import.got[p] ELSE recorded[p]]
      BY <2>6 DEF Record, github
    <3>2. ASSUME NEW p \in Listed, measured'[p] # 0
          PROVE  measured'[p] = measured[p] /\ recorded'[p] = recorded[p]
      BY <2>2, <3>1, <3>2 DEF Changed, MeasureIInv, Measured
    <3>3. \A p \in Listed : measured'[p] # 0 =>
            0 < recorded'[p] /\ recorded'[p] <= measured'[p] /\ measured'[p] <= updated'[p]
      BY <3>1, <3>2 DEF MeasureIInv, Measured
    <3> QED
      BY <1>1, <2>1, <3>1, <3>3 DEF MeasureIInv, Measured
  <2>7. ASSUME NEW x \in Readers, Measure(x) PROVE Measured'
    <3>1. UNCHANGED <<updated, recorded>>
      BY <2>7 DEF Measure, Pick, Detail, Rest, Publish, DetailFails, Report, Write, Goto, github
    <3>2. \A y \in Readers : y # x => UNCHANGED reader[y]
      BY <2>7 DEF Measure, Pick, Detail, Rest, Publish, DetailFails, Report, Write, Goto,
                  MeasureIInv, HistoryTypeOK
    <3>3. /\ reader[x].pr \in Listed
          /\ \A r : reader' = [reader EXCEPT ![x] = r] => reader'[x] = r
      BY <2>2 DEF MeasureIInv, HistoryTypeOK
    <3>4. ASSUME \A p \in Listed : measured'[p] # 0 =>
                   0 < recorded[p] /\ recorded[p] <= measured'[p] /\ measured'[p] <= updated[p],
                 LET r == reader'[x] IN
                 /\ r.step \in {"detail", "rest", "publish"} => 0 < r.expected /\ r.expected <= updated[r.pr]
                 /\ r.step = "detail" => r.read = 0
                 /\ r.step = "publish" /\ r.read # 0 => r.expected <= r.read /\ r.read <= updated[r.pr]
          PROVE  Measured'
      BY <3>1, <3>2, <3>4 DEF Measured, MeasureIInv
    <3>5. CASE Pick(x)
      <4>1. PICK p \in Listed :
               /\ recorded[p] > 0
               /\ reader'[x] = [IdleReader EXCEPT !.step = "detail", !.pr = p, !.expected = recorded[p]]
        BY <3>3, <3>5 DEF Pick, Goto
      <4>2. /\ reader'[x].step = "detail" /\ reader'[x].pr = p /\ reader'[x].expected = recorded[p]
            /\ reader'[x].read = 0
        BY <4>1 DEF IdleReader
      <4>3. 0 < recorded[p] /\ recorded[p] <= updated[p]
        BY <2>2, <4>1 DEF MeasureIInv, TimesApart
      <4> QED
        BY <3>4, <3>5, <4>2, <4>3 DEF Pick, MeasureIInv, Measured
    <3>6. CASE Detail(x)
      <4>1. /\ reader'[x].step \in {"rest", "publish"} /\ reader'[x].pr = reader[x].pr
            /\ reader'[x].expected = reader[x].expected /\ reader'[x].read = reader[x].read
        BY <3>3, <3>6 DEF Detail, Goto, MeasureIInv, HistoryTypeOK
      <4>2. reader'[x].read = 0
        BY <3>6, <4>1 DEF Detail, MeasureIInv, Measured
      <4> QED
        BY <3>4, <3>6, <4>1, <4>2 DEF Detail, MeasureIInv, Measured
    <3>7. CASE Rest(x)
      <4>1. /\ reader'[x].step = "publish" /\ reader'[x].pr = reader[x].pr
            /\ reader'[x].expected = reader[x].expected /\ reader'[x].read = updated[reader[x].pr]
        BY <3>3, <3>7 DEF Rest, Goto, MeasureIInv, HistoryTypeOK
      <4> QED
        BY <2>2, <3>4, <3>7, <4>1 DEF Rest, MeasureIInv, Measured
    <3>8. CASE Publish(x)
      <4>1. reader'[x].step = "report"
        BY <3>3, <3>8 DEF Publish, Goto, IdleReader
      <4>2. CASE ~Unchanged(x)
        BY <3>4, <3>8, <4>1, <4>2 DEF Publish, MeasureIInv, Measured
      <4>3. CASE Unchanged(x)
        <5>1. measured' = [measured EXCEPT ![reader[x].pr] = reader[x].read]
          BY <3>8, <4>3 DEF Publish
        <5>2. /\ recorded[reader[x].pr] = reader[x].expected /\ 0 < reader[x].expected
              /\ reader[x].read # 0 => /\ reader[x].expected <= reader[x].read
                                       /\ reader[x].read <= updated[reader[x].pr]
          BY <3>8, <4>3 DEF Publish, Unchanged, MeasureIInv, Measured
        <5> QED
          BY <2>2, <3>4, <4>1, <5>1, <5>2 DEF MeasureIInv, Measured
      <4> QED
        BY <4>2, <4>3
    <3>9. CASE DetailFails(x) \/ Report(x) \/ Write(x)
      <4>1. DetailFails(x) => reader'[x].step = "report" /\ UNCHANGED measured
        BY <3>3 DEF DetailFails, Goto, IdleReader
      <4>2. Report(x) => reader'[x].step = "write" /\ UNCHANGED measured
        BY <3>3 DEF Report, Goto, MeasureIInv, HistoryTypeOK
      <4>3. Write(x) => reader'[x].step = "idle" /\ UNCHANGED measured
        <5>1. Write(x) => reader'[x] = IdleReader /\ measured' = measured
          BY <3>3 DEF Write, Goto
        <5>2. IdleReader.step = "idle"
          BY DEF IdleReader
        <5> QED
          BY <5>1, <5>2
      <4> QED
        BY <3>4, <3>9, <4>1, <4>2, <4>3 DEF MeasureIInv, Measured
    <3> QED
      BY <2>7, <3>5, <3>6, <3>7, <3>8, <3>9 DEF Measure
  <2> QED
    BY <1>1, <1>3, <2>1, <2>4, <2>5, <2>6, <2>7 DEF MeasureIInv, HistoryNext, Import
<1> QED
  BY <1>2, <1>3

-----------------------------------------------------------------------------
(* The list and its pages.                                                 *)

Above(p) == {q \in Listed : updated[q] > updated[p]}
Opened   == {q \in Listed : updated[q] > 0}

LEMMA ListedFinite ==
  ASSUME NEW S \in SUBSET Listed PROVE IsFiniteSet(S) /\ Cardinality(S) \in Nat
<1>1. IsFiniteSet(Listed)
  BY HistoryAssumption, FS_Interval DEF Listed
<1> QED
  BY <1>1, FS_Subset, FS_CardinalityType

\* A later update is further up the list.
LEMMA LaterIsAbove ==
  ASSUME HistoryTypeOK, NEW p \in Listed, NEW q \in Listed
  PROVE  /\ Later(p) \in Nat
         /\ updated[q] <= updated[p] => Later(p) <= Later(q)
         /\ updated[q] < updated[p] => Later(p) < Later(q)
<1>1. updated \in [Listed -> Nat]
  BY HistoryAssumption DEF HistoryTypeOK, Versions, Times
<1>2. Later(p) = Cardinality(Above(p)) /\ Later(q) = Cardinality(Above(q))
  BY DEF Later, Above
<1>3. /\ IsFiniteSet(Above(q)) /\ Cardinality(Above(q)) \in Nat
      /\ IsFiniteSet(Above(p)) /\ Cardinality(Above(p)) \in Nat
  BY ListedFinite DEF Above
<1>4. ASSUME updated[q] <= updated[p] PROVE Above(p) \in SUBSET Above(q)
  BY <1>1, <1>4 DEF Above
<1>5. ASSUME updated[q] <= updated[p] PROVE Cardinality(Above(p)) <= Cardinality(Above(q))
  BY <1>3, <1>4, <1>5, FS_Subset
<1>6. ASSUME updated[q] < updated[p] PROVE Cardinality(Above(p)) < Cardinality(Above(q))
  <2>1. updated[q] <= updated[p]
    BY <1>1, <1>6
  <2>2. p \in Above(q) /\ p \notin Above(p)
    BY <1>1, <1>6 DEF Above
  <2>3. Cardinality(Above(p)) # Cardinality(Above(q))
    BY <1>3, <1>4, <2>1, <2>2, FS_Subset
  <2> QED
    BY <1>3, <1>5, <2>1, <2>3
<1> QED
  BY <1>2, <1>3, <1>5, <1>6

\* No place of the list is empty, and none has two pull requests.
LEMMA Places ==
  ASSUME HistoryTypeOK, TimesApart
  PROVE  LET n == Cardinality(Opened) IN
         /\ n \in Nat
         /\ \A p \in Opened : Later(p) \in 0..(n - 1)
         /\ \A p, q \in Opened : Later(p) = Later(q) => p = q
         /\ \A k \in 0..(n - 1) : \E p \in Opened : Later(p) = k
<1> DEFINE n == Cardinality(Opened)
           f == [p \in Opened |-> Later(p)]
<1>1. Opened \in SUBSET Listed /\ IsFiniteSet(Opened) /\ n \in Nat
  BY ListedFinite DEF Opened
<1>2. updated \in [Listed -> Nat]
  BY HistoryAssumption DEF HistoryTypeOK, Versions, Times
<1>3. ASSUME NEW p \in Opened PROVE Later(p) \in 0..(n - 1)
  <2>1. p \in Listed /\ Later(p) = Cardinality(Above(p)) /\ Later(p) \in Nat
    BY <1>1, LaterIsAbove DEF Later, Above
  <2>2. Above(p) \in SUBSET (Opened \ {p})
    BY <1>2, <2>1 DEF Above, Opened
  <2>3. IsFiniteSet(Opened \ {p}) /\ Cardinality(Opened \ {p}) = n - 1
    BY <1>1, FS_RemoveElement
  <2>4. Cardinality(Above(p)) <= n - 1
    BY <2>2, <2>3, FS_Subset
  <2> QED
    BY <1>1, <2>1, <2>4
<1>4. ASSUME NEW p \in Opened, NEW q \in Opened, Later(p) = Later(q) PROVE p = q
  <2>1. p \in Listed /\ q \in Listed /\ updated[p] # 0
    BY <1>2 DEF Opened
  <2>2. ~(updated[p] < updated[q]) /\ ~(updated[q] < updated[p])
    BY <1>2, <1>4, <2>1, LaterIsAbove
  <2>3. updated[p] = updated[q]
    BY <1>2, <2>1, <2>2
  <2> QED
    BY <2>1, <2>3 DEF TimesApart
<1>5. f \in Injection(Opened, 0..(n - 1))
  BY <1>3, <1>4 DEF Injection, IsInjective
<1>6. IsFiniteSet(0..(n - 1)) /\ Cardinality(0..(n - 1)) = n
  BY <1>1, FS_Interval
<1>7. f \in Surjection(Opened, 0..(n - 1))
  BY <1>5, <1>6, FS_Injection
<1>8. \A k \in 0..(n - 1) : \E p \in Opened : Later(p) = k
  BY <1>7 DEF Surjection
<1> QED
  BY <1>1, <1>3, <1>4, <1>8

\* A page with something after it is full.
LEMMA PageIsFull ==
  ASSUME HistoryTypeOK, TimesApart, NEW low \in Nat, NEW size \in Nat,
         NEW p \in Opened, low + size <= Later(p)
  PROVE  Cardinality({q \in Opened : low <= Later(q) /\ Later(q) < low + size}) = size
<1> DEFINE page  == {q \in Opened : low <= Later(q) /\ Later(q) < low + size}
           slots == low..(low + size - 1)
           n     == Cardinality(Opened)
           g     == [q \in page |-> Later(q)]
<1>1. /\ n \in Nat
      /\ \A q \in Opened : Later(q) \in 0..(n - 1)
      /\ \A q, r \in Opened : Later(q) = Later(r) => q = r
      /\ \A k \in 0..(n - 1) : \E q \in Opened : Later(q) = k
  BY Places
<1>2. page \subseteq Opened /\ \A q \in page : Later(q) \in slots
  BY <1>1
<1>3. g \in Injection(page, slots)
  BY <1>1, <1>2 DEF Injection, IsInjective
<1>4. ASSUME NEW k \in slots PROVE \E q \in page : g[q] = k
  <2>1. k \in 0..(n - 1) /\ low <= k /\ k < low + size
    BY <1>1
  <2> QED
    BY <1>1, <2>1
<1>5. g \in Surjection(page, slots)
  BY <1>3, <1>4 DEF Surjection, Injection
<1>6. IsFiniteSet(slots) /\ Cardinality(slots) = size
  <2>1. low \in Int /\ low + size - 1 \in Int
    OBVIOUS
  <2> QED
    BY <2>1, FS_Interval
<1>7. Cardinality(page) = Cardinality(slots)
  BY <1>3, <1>5, <1>6, FS_Injection
<1> QED
  BY <1>6, <1>7

\* While others are updated, a pull request only moves down the list.
LEMMA UpdatesPushDown ==
  ASSUME HistoryTypeOK, HistoryTypeOK', TimesApart, NEW p \in Listed, Update(p),
         NEW q \in Listed, q # p
  PROVE  updated'[q] = updated[q] /\ Later(q) <= Later(q)' /\ Later(q) \in Nat /\ Later(q)' \in Nat
<1>1. /\ updated \in [Listed -> Nat] /\ now \in Nat
      /\ updated' = [updated EXCEPT ![p] = now + 1]
  BY HistoryAssumption DEF HistoryTypeOK, Versions, Times, Update
<1>2. updated'[q] = updated[q] /\ updated[q] <= now
  BY <1>1 DEF TimesApart
<1>3. Above(q) \in SUBSET Above(q)'
  BY <1>1, <1>2 DEF Above
<1>4. IsFiniteSet(Above(q)) /\ Cardinality(Above(q)) \in Nat
  BY ListedFinite DEF Above
<1>5. IsFiniteSet(Above(q)') /\ Cardinality(Above(q)') \in Nat
  BY ListedFinite DEF Above
<1>6. Cardinality(Above(q)) <= Cardinality(Above(q)')
  BY <1>3, <1>5, FS_Subset
<1> QED
  BY <1>2, <1>4, <1>5, <1>6 DEF Later, Above

-----------------------------------------------------------------------------
(* What is known stays so.                                                 *)

LEMMA HistoryTypes ==
  ASSUME HistoryTypeOK
  PROVE  /\ updated \in [Listed -> Nat] /\ recorded \in [Listed -> Nat] /\ now \in Nat
         /\ import.got \in [Listed -> Nat] /\ import.start \in Nat
         /\ import.page \in Nat \ {0} /\ PerPage \in Nat \ {0} /\ Overlap \in Nat
         /\ import.previous \in Statuses /\ status \in Statuses
         /\ \A x \in Readers : reader[x].copy \in Statuses
         /\ \A s \in Statuses : s.last \in Nat
BY HistoryAssumption DEF HistoryTypeOK, Versions, Times, Statuses

\* One record for another: an import leaves what an earlier one had right.
LEMMA RecordKeepsOld ==
  ASSUME HistoryIInv, Record, NEW p \in Listed, recorded[p] = updated[p], updated[p] <= import.start
  PROVE  recorded'[p] = updated'[p]
<1>1. /\ updated' = updated /\ import.step = "upsert"
      /\ recorded'[p] = IF import.got[p] > 0 THEN import.got[p] ELSE recorded[p]
  BY DEF Record, github
<1>2. ASSUME import.got[p] > 0 PROVE import.got[p] = updated[p]
  <2>1. 0 < updated[p]
    BY <1>2, HistoryTypes DEF HistoryIInv, TimesApart
  <2> QED
    BY <1>1, <1>2, <2>1 DEF HistoryIInv, Pages, Old
<1> QED
  BY <1>1, <1>2

LEMMA KnownStays ==
  ASSUME HistoryIInv, HistoryTypeOK', HistoryNext, NEW s \in Statuses, Known(s)
  PROVE  Known(s)'
<1>1. now \in Nat /\ now' \in Nat /\ s.last \in Nat /\ now <= now'
  <2>1. now \in Nat /\ now' \in Nat /\ s.last \in Nat
    BY HistoryTypes, HistoryAssumption DEF HistoryIInv, HistoryTypeOK, Times
  <2>2. now' = now \/ now' = now + 1
    BY DEF HistoryNext, Import, Measure, Pass, Update, Begin, Get, Record, Mark, PageFails, Crash,
           Pick, Detail, Rest, Publish, DetailFails, Report, Write, Goto, github
  <2> QED
    BY <2>1, <2>2
<1>2. \/ import' = import
      \/ import'.step = "idle"
      \/ import'.start = now
      \/ import.step # "idle" /\ import'.start = import.start
  <2>1. ASSUME NEW x \in Readers, Measure(x) PROVE import' = import
    BY <2>1 DEF Measure, Pick, Detail, Rest, Publish, DetailFails, Report, Write, Goto
  <2>2. (\E p \in Listed : Update(p)) \/ Pass => import' = import
    BY DEF Pass, Update
  <2>3. Begin => import'.start = now
    BY DEF Begin, IdleImport
  <2>4. Get \/ Record => import.step # "idle" /\ import'.start = import.start
    BY DEF Get, Record, HistoryIInv, HistoryTypeOK
  <2>5. IdleImport.step = "idle"
    BY DEF IdleImport
  <2>6. Mark => import'.step = "idle" \/ (import.step # "idle" /\ import'.start = import.start)
    BY <2>5 DEF Mark, HistoryIInv, HistoryTypeOK
  <2>7. PageFails \/ Crash => import'.step = "idle"
    BY <2>5 DEF PageFails, Crash
  <2> QED
    BY <2>1, <2>2, <2>3, <2>4, <2>6, <2>7 DEF HistoryNext, Import
<1>3. s.last <= now' /\ (import'.step # "idle" => s.last <= import'.start)
  BY <1>1, <1>2 DEF Known
<1>4. Holds(s)'
  <2>1. CASE updated' = updated /\ recorded' = recorded
    BY <2>1 DEF Known, Holds
  <2>2. ASSUME NEW p \in Listed, Update(p) PROVE Holds(s)'
    <3>1. /\ updated' = [updated EXCEPT ![p] = now + 1] /\ recorded' = recorded
          /\ updated \in [Listed -> Nat]
      BY <2>2, HistoryTypes DEF Update, HistoryIInv
    <3>2. ~(updated'[p] <= s.last)
      BY <1>1, <3>1 DEF Known
    <3> QED
      BY <3>1, <3>2 DEF Known, Holds
  <2>3. CASE Record
    <3>1. updated' = updated /\ import.step # "idle"
      BY <2>3 DEF Record, github
    <3>2. ASSUME s.complete, NEW p \in Listed, updated'[p] <= s.last PROVE recorded'[p] = updated'[p]
      <4>1. recorded[p] = updated[p] /\ updated[p] <= import.start
        BY <1>1, <3>1, <3>2, HistoryTypes DEF Known, Holds, HistoryIInv
      <4> QED
        BY <2>3, <4>1, RecordKeepsOld
    <3> QED
      BY <3>2 DEF Holds
  <2>4. ASSUME NEW x \in Readers, Measure(x) PROVE updated' = updated /\ recorded' = recorded
    BY <2>4 DEF Measure, Pick, Detail, Rest, Publish, DetailFails, Report, Write, Goto, github
  <2>5. Pass \/ Begin \/ Get \/ Mark \/ PageFails \/ Crash => updated' = updated /\ recorded' = recorded
    BY DEF Pass, Begin, Get, Mark, PageFails, Crash, github
  <2> QED
    BY <2>1, <2>2, <2>3, <2>4, <2>5 DEF HistoryNext, Import
<1> QED
  BY <1>3, <1>4 DEF Known

\* The last page leaves nothing out: it is not full, or it meets what was had.
LEMMA LastPageIsLast ==
  ASSUME HistoryIInv, import.step = "status", LastPage
  PROVE  \A p \in Listed : updated[p] <= import.start => recorded[p] = updated[p]
<1> SUFFICES ASSUME NEW p \in Listed, updated[p] <= import.start, recorded[p] # updated[p]
             PROVE  FALSE
  OBVIOUS
<1>1. Missed(p) /\ updated[p] \in Nat
  BY HistoryTypes DEF HistoryIInv, TimesApart, Missed, Old
<1>2. Full(p)
  BY <1>1 DEF HistoryIInv, Pages
<1>3. Cardinality({q \in Listed : import.got[q] > 0}) \in Nat
  BY ListedFinite
<1>4. Crossed
  BY <1>2, <1>3, HistoryTypes DEF LastPage, Full, HistoryIInv
<1>5. PICK q \in Listed : import.got[q] > 0 /\ import.got[q] < import.previous.last - Overlap
  BY <1>4 DEF Crossed
<1>6. updated[p] <= import.previous.last
  <2>1. /\ import.got[q] \in Nat /\ import.previous.last \in Nat /\ Overlap \in Nat
        /\ import.got[q] > updated[p]
    BY <1>2, <1>5, HistoryTypes DEF Full, HistoryIInv
  <2> QED
    BY <1>1, <1>5, <2>1
<1>7. import.previous.complete /\ Holds(import.previous)
  BY <1>4 DEF Crossed, HistoryIInv, StatusesKnown, Known
<1> QED
  BY <1>1, <1>6, <1>7 DEF Holds, Missed

\* No step writes, or takes to write later, a status that is not true.
LEMMA NextStatusesKnown ==
  ASSUME HistoryIInv, HistoryTypeOK', HistoryNext
  PROVE  StatusesKnown'
<1>1. /\ status \in Statuses /\ import.previous \in Statuses /\ \A x \in Readers : reader[x].copy \in Statuses
      /\ Never \in Statuses
  BY HistoryTypes, HistoryAssumption DEF HistoryIInv, Never, Statuses, Times
<1>2. Known(Never)
  BY HistoryTypes DEF HistoryIInv, Known, Holds, Never
<1>3. /\ Known(status) /\ Known(import.previous) /\ \A x \in Readers : Known(reader[x].copy)
  BY DEF HistoryIInv, StatusesKnown
<1>4. \A s \in Statuses : Known(s) => Known(s)'
  BY KnownStays
<1> HIDE DEF Known
<1> DEFINE Old0 == {status, import.previous, Never} \cup {reader[x].copy : x \in Readers}
<1>5. \A s \in Old0 : Known(s)'
  BY <1>1, <1>2, <1>3, <1>4
<1>6. IdleImport.previous = Never /\ IdleReader.copy = Never
  BY DEF IdleImport, IdleReader
<1>7. import'.previous \in Old0
  <2>1. ASSUME NEW x \in Readers, Measure(x) PROVE import' = import
    BY <2>1 DEF Measure, Pick, Detail, Rest, Publish, DetailFails, Report, Write, Goto
  <2>2. (\E p \in Listed : Update(p)) \/ Pass => import' = import
    BY DEF Pass, Update
  <2>3. Begin => import'.previous = status
    BY DEF Begin, IdleImport
  <2>4. Get \/ Record => import'.previous = import.previous
    BY DEF Get, Record, HistoryIInv, HistoryTypeOK
  <2>5. Mark => import'.previous \in {import.previous, Never}
    BY <1>6 DEF Mark, HistoryIInv, HistoryTypeOK
  <2>6. PageFails \/ Crash => import'.previous \in {import.previous, Never}
    BY <1>6 DEF PageFails, Crash
  <2> QED
    BY <2>1, <2>2, <2>3, <2>4, <2>5, <2>6 DEF HistoryNext, Import
<1>8. \A x \in Readers : reader'[x].copy \in Old0
  <2>1. ASSUME NEW x \in Readers, Measure(x) PROVE \A y \in Readers : reader'[y].copy \in Old0
    <3>1. /\ \A m : Goto(x, m) => reader'[x] = m
          /\ \A y \in Readers : y # x => reader'[y] = reader[y]
      BY <2>1 DEF Measure, Pick, Detail, Rest, Publish, DetailFails, Report, Write, Goto,
                  HistoryIInv, HistoryTypeOK
    <3>2. \A p, v : [IdleReader EXCEPT !.step = "detail", !.pr = p, !.expected = v].copy = Never
      BY DEF IdleReader
    <3>3. [IdleReader EXCEPT !.step = "report"].copy = Never
      BY DEF IdleReader
    <3>4. /\ [reader[x] EXCEPT !.step = "rest"].copy = reader[x].copy
          /\ [reader[x] EXCEPT !.step = "publish"].copy = reader[x].copy
          /\ [reader[x] EXCEPT !.step = "publish", !.read = updated[reader[x].pr]].copy = reader[x].copy
          /\ [reader[x] EXCEPT !.step = "write", !.copy = status].copy = status
      BY DEF HistoryIInv, HistoryTypeOK
    <3>5. ASSUME Pick(x) PROVE reader'[x].copy = Never
      <4>1. PICK p \in Listed :
              Goto(x, [IdleReader EXCEPT !.step = "detail", !.pr = p, !.expected = recorded[p]])
        BY <3>5 DEF Pick
      <4>2. reader'[x] = [IdleReader EXCEPT !.step = "detail", !.pr = p, !.expected = recorded[p]]
        BY <3>1, <4>1
      <4> QED
        BY <3>2, <4>2
    <3>6. ASSUME Detail(x) \/ Rest(x) PROVE reader'[x].copy = reader[x].copy
      <4>1. \/ Goto(x, [reader[x] EXCEPT !.step = "rest"])
            \/ Goto(x, [reader[x] EXCEPT !.step = "publish"])
            \/ Goto(x, [reader[x] EXCEPT !.step = "publish", !.read = updated[reader[x].pr]])
        BY <3>6 DEF Detail, Rest
      <4>2. \/ reader'[x] = [reader[x] EXCEPT !.step = "rest"]
            \/ reader'[x] = [reader[x] EXCEPT !.step = "publish"]
            \/ reader'[x] = [reader[x] EXCEPT !.step = "publish", !.read = updated[reader[x].pr]]
        BY <3>1, <4>1
      <4> QED
        BY <3>4, <4>2
    <3>7. Publish(x) \/ DetailFails(x) \/ Write(x) => reader'[x].copy = Never
      BY <1>6, <3>1, <3>3 DEF Publish, DetailFails, Write
    <3>8. Report(x) => reader'[x].copy = status
      BY <3>1, <3>4 DEF Report
    <3>9. reader'[x].copy \in Old0
      BY <2>1, <3>5, <3>6, <3>7, <3>8 DEF Measure
    <3> QED
      BY <3>1, <3>9
  <2>2. Crash => \A y \in Readers : reader'[y].copy \in Old0
    BY <1>6 DEF Crash
  <2>3. Pass \/ (\E p \in Listed : Update(p)) \/ Import => reader' = reader
    BY DEF Pass, Update, Import, Begin, Get, Record, Mark, PageFails
  <2> QED
    BY <2>1, <2>2, <2>3 DEF HistoryNext
<1>9. status' \in Old0 \/ (Mark /\ LastPage /\ status' = Success)
  <2>1. ASSUME NEW x \in Readers, Measure(x) PROVE status' \in Old0
    BY <2>1 DEF Measure, Pick, Detail, Rest, Publish, DetailFails, Report, Write, Goto
  <2>2. Pass \/ (\E p \in Listed : Update(p)) \/ Begin \/ Record \/ Crash => status' = status
    BY DEF Pass, Update, Begin, Record, Crash
  <2>3. Get \/ PageFails => status' \in {status, import.previous}
    BY DEF Get, PageFails
  <2>4. Mark => status' = import.previous \/ (LastPage /\ status' = Success)
    BY DEF Mark
  <2> QED
    BY <2>1, <2>2, <2>3, <2>4 DEF HistoryNext, Import
<1>10. ASSUME Mark, LastPage, status' = Success PROVE Known(status)'
  <2>1. /\ import.step = "status" /\ import' = IdleImport
        /\ updated' = updated /\ recorded' = recorded /\ now' = now
    BY <1>10 DEF Mark, github
  <2>2. \A p \in Listed : updated[p] <= import.start => recorded[p] = updated[p]
    BY <1>10, <2>1, LastPageIsLast
  <2>3. status'.last = import.start /\ import.start <= now /\ import'.step = "idle"
    BY <1>10, <2>1 DEF Success, HistoryIInv, Pages, IdleImport
  <2> QED
    BY <2>1, <2>2, <2>3 DEF Known, Holds
<1> HIDE DEF Old0
<1>11. Known(status)'
  <2>1. CASE status' \in Old0
    <3>1. \A s \in Old0 : s = status' => Known(status)'
      BY <1>5 DEF Known, Holds
    <3> QED
      BY <2>1, <3>1
  <2> QED
    BY <1>9, <1>10, <2>1
<1>12. Known(import.previous)'
  BY <1>5, <1>7 DEF Known, Holds
<1>13. \A x \in Readers : Known(reader[x].copy)'
  BY <1>5, <1>8 DEF Known, Holds
<1> QED
  BY <1>11, <1>12, <1>13 DEF StatusesKnown

-----------------------------------------------------------------------------
(* The pages of an import.                                                 *)

\* What is missed is on the page or further down, and then the page is full.
LEMMA GetPages == ASSUME HistoryIInv, HistoryTypeOK', Get PROVE Pages'
<1> DEFINE a == (import.page - 1) * PerPage
           b == import.page * PerPage
<1>1. /\ import.step = "get" /\ import'.step = "upsert" /\ import'.start = import.start
      /\ import'.page = import.page
      /\ import'.got = [p \in Listed |-> IF OnPage(p) THEN updated[p] ELSE 0]
      /\ updated' = updated /\ recorded' = recorded /\ now' = now
  BY DEF Get, github, HistoryIInv, HistoryTypeOK
<1>2. /\ updated \in [Listed -> Nat] /\ import.page \in Nat \ {0} /\ PerPage \in Nat \ {0}
      /\ HistoryTypeOK /\ TimesApart
  BY HistoryTypes DEF HistoryIInv
<1>3. a \in Nat /\ b \in Nat /\ b = a + PerPage
  <2>1. \A k, z \in Nat : (k + 1) * z = k * z + z
    OBVIOUS
  <2>2. import.page - 1 \in Nat /\ (import.page - 1) + 1 = import.page
    BY <1>2
  <2>3. a \in Nat
    BY <1>2, <2>2
  <2> QED
    BY <1>2, <2>1, <2>2, <2>3
<1>4. \A p \in Listed : OnPage(p) <=> a <= Later(p) /\ Later(p) < b
  BY DEF OnPage
<1>5. \A p \in Listed : Later(p) \in Nat /\ Later(p)' = Later(p)
  BY <1>1, <1>2, LaterIsAbove DEF Later
<1>6. \A p \in Listed : Old(p)' = Old(p) /\ Missed(p)' = Missed(p)
  BY <1>1 DEF Old, Missed
<1>7. \A p \in Listed : Old(p) /\ OnPage(p) => import'.got[p] = updated[p]
  BY <1>1
<1> HIDE DEF a, b
<1>8. ASSUME NEW p \in Listed, Missed(p) PROVE OnPage(p) \/ Later(p) >= b
  <2>1. Later(p) >= a
    BY <1>1, <1>8 DEF HistoryIInv, Pages, Ahead, a
  <2> QED
    BY <1>3, <1>4, <1>5, <2>1
<1>9. ASSUME NEW p \in Listed, Missed(p) PROVE Ahead(p)'
  <2>1. CASE OnPage(p)
    BY <1>1, <1>7, <1>9, <2>1 DEF Ahead, Missed
  <2>2. CASE Later(p) >= b
    <3>1. Later(p)' >= (import.page * PerPage)'
      BY <1>1, <1>5, <2>2 DEF b
    <3> QED
      BY <1>1, <3>1 DEF Ahead
  <2> QED
    BY <1>8, <1>9, <2>1, <2>2
<1>10. ASSUME NEW p \in Listed, Missed(p), import'.got[p] # updated[p] PROVE Full(p)'
  <2>1. Later(p) >= b /\ p \in Opened
    BY <1>7, <1>8, <1>10 DEF Missed, Old, Opened
  <2>2. a \in Nat /\ PerPage \in Nat /\ a + PerPage <= Later(p)
    BY <1>2, <1>3, <1>5, <2>1
  <2>3. Cardinality({q \in Opened : a <= Later(q) /\ Later(q) < a + PerPage}) = PerPage
    BY <1>2, <2>1, <2>2, PageIsFull
  <2>4. {q \in Opened : a <= Later(q) /\ Later(q) < a + PerPage} = {q \in Listed : import'.got[q] > 0}
    <3>1. \A q \in Listed : import'.got[q] > 0 <=> updated[q] > 0 /\ OnPage(q)
      BY <1>1, <1>2
    <3> QED
      BY <1>3, <1>4, <3>1 DEF Opened
  <2>5. ASSUME NEW q \in Listed, import'.got[q] > 0 PROVE import'.got[q] > updated[p]
    <3>1. OnPage(q) /\ import'.got[q] = updated[q]
      BY <1>1, <2>5
    <3>2. Later(q) < Later(p)
      BY <1>3, <1>4, <1>5, <2>1, <3>1
    <3>3. ~(updated[q] <= updated[p])
      BY <1>2, <1>5, <3>2, LaterIsAbove
    <3> QED
      BY <1>2, <3>1, <3>3
  <2>6. Cardinality({q \in Listed : import'.got[q] > 0}) >= PerPage
    BY <1>2, <2>3, <2>4
  <2> QED
    BY <1>1, <2>5, <2>6 DEF Full
<1>11. \A p \in Listed : Old(p) /\ import'.got[p] > 0 => import'.got[p] = updated[p]
  BY <1>1
<1> QED
  BY <1>1, <1>6, <1>9, <1>10, <1>11 DEF Pages, HistoryIInv, Old

\* What was on the page is recorded; what was missed stays further down.
LEMMA RecordPages == ASSUME HistoryIInv, HistoryTypeOK', Record PROVE Pages'
<1>1. /\ import.step = "upsert" /\ import'.step = "status" /\ import'.start = import.start
      /\ import'.page = import.page /\ import'.got = import.got
      /\ updated' = updated /\ now' = now
      /\ recorded' = [p \in Listed |-> IF import.got[p] > 0 THEN import.got[p] ELSE recorded[p]]
  BY DEF Record, github, HistoryIInv, HistoryTypeOK
<1>2. \A p \in Listed : Later(p)' = Later(p) /\ Old(p)' = Old(p) /\ (Full(p) => Full(p)')
  BY <1>1 DEF Later, Old, Full
<1>3. ASSUME NEW p \in Listed, Missed(p)' PROVE Missed(p) /\ import.got[p] # updated[p]
  <2>1. Old(p) /\ recorded'[p] # updated[p]
    BY <1>1, <1>2, <1>3 DEF Missed
  <2>2. Old(p) /\ import.got[p] > 0 => import.got[p] = updated[p]
    BY <1>1 DEF HistoryIInv, Pages
  <2>3. ~(import.got[p] > 0) /\ recorded'[p] = recorded[p]
    BY <1>1, <2>1, <2>2
  <2>4. 0 < updated[p]
    BY <2>1 DEF Old
  <2> QED
    BY <2>1, <2>3, <2>4 DEF Missed
<1>4. ASSUME NEW p \in Listed, Missed(p)' PROVE Ahead(p)' /\ Full(p)'
  <2>1. Missed(p) /\ import.got[p] # updated[p]
    BY <1>3, <1>4
  <2>2. Ahead(p) /\ Full(p)
    BY <1>1, <2>1 DEF HistoryIInv, Pages
  <2>3. Later(p) >= import.page * PerPage
    BY <1>1, <2>1, <2>2 DEF Ahead
  <2>4. Later(p)' >= (import.page * PerPage)'
    BY <1>1, <1>2, <2>3
  <2> QED
    BY <1>1, <1>2, <2>2, <2>4 DEF Ahead
<1> QED
  BY <1>1, <1>2, <1>4 DEF Pages, HistoryIInv

\* The next page starts where this one ended.
LEMMA MarkPages == ASSUME HistoryIInv, HistoryTypeOK', Mark PROVE Pages'
<1>1. CASE import' = IdleImport
  BY <1>1 DEF Pages, IdleImport
<1>2. CASE import' # IdleImport
  <2>1. /\ import.step = "status" /\ import'.step = "get" /\ import'.start = import.start
        /\ import'.page = import.page + 1 /\ import'.got = Nothing
        /\ updated' = updated /\ recorded' = recorded /\ now' = now
    BY <1>2 DEF Mark, github, HistoryIInv, HistoryTypeOK
  <2>2. \A p \in Listed : Later(p)' = Later(p) /\ Old(p)' = Old(p) /\ Missed(p)' = Missed(p)
    BY <2>1 DEF Later, Old, Missed
  <2>3. (import.page - 1)' = import.page
    BY <2>1, HistoryTypes DEF HistoryIInv
  <2>4. ASSUME NEW p \in Listed, Missed(p) PROVE Ahead(p)'
    <3>1. Later(p) >= import.page * PerPage
      BY <2>1, <2>4 DEF HistoryIInv, Pages, Ahead
    <3>2. Later(p)' >= ((import.page - 1) * PerPage)'
      BY <2>2, <2>3, <3>1
    <3> QED
      BY <2>1, <3>2 DEF Ahead
  <2>5. \A p \in Listed : import'.got[p] = 0
    BY <2>1 DEF Nothing
  <2> QED
    BY <2>1, <2>2, <2>4, <2>5 DEF Pages, HistoryIInv
<1> QED
  BY <1>1, <1>2

\* An import begins with the whole list to come.
LEMMA BeginPages == ASSUME HistoryIInv, HistoryTypeOK', Begin PROVE Pages'
<1>1. /\ import'.step = "get" /\ import'.start = now /\ import'.page = 1 /\ import'.got = Nothing
      /\ updated' = updated /\ now' = now
  BY DEF Begin, IdleImport, github
<1>2. \A p \in Listed : Later(p)' \in Nat
  BY LaterIsAbove, <1>1 DEF HistoryIInv, Later
<1>3. ((import.page - 1) * PerPage)' = 0
  BY <1>1, HistoryAssumption
<1>4. \A p \in Listed : Ahead(p)'
  BY <1>1, <1>2, <1>3 DEF Ahead
<1>5. \A p \in Listed : import'.got[p] = 0
  BY <1>1 DEF Nothing
<1>6. now \in Nat
  BY HistoryTypes DEF HistoryIInv
<1> QED
  BY <1>1, <1>4, <1>5, <1>6 DEF Pages

\* An update moves others down, and is itself later than the import.
LEMMA UpdatePages ==
  ASSUME HistoryIInv, HistoryTypeOK', NEW p \in Listed, Update(p) PROVE Pages'
<1>1. /\ updated' = [updated EXCEPT ![p] = now + 1] /\ now' = now + 1
      /\ recorded' = recorded /\ import' = import
  BY DEF Update
<1>2. /\ updated \in [Listed -> Nat] /\ now \in Nat /\ import.start \in Nat
      /\ import.page \in Nat \ {0} /\ PerPage \in Nat \ {0}
  BY HistoryTypes DEF HistoryIInv
<1> SUFFICES ASSUME import.step # "idle" PROVE Pages'
  BY <1>1 DEF Pages
<1>3. import.start <= now
  BY DEF HistoryIInv, Pages
<1>4. ~Old(p)'
  BY <1>1, <1>2, <1>3 DEF Old
<1>5. ASSUME NEW q \in Listed, q # p
      PROVE  /\ Later(q) <= Later(q)' /\ Later(q) \in Nat /\ Later(q)' \in Nat
             /\ updated'[q] = updated[q] /\ Old(q)' = Old(q) /\ Missed(q)' = Missed(q)
  <2>1. Later(q) <= Later(q)' /\ Later(q) \in Nat /\ Later(q)' \in Nat /\ updated'[q] = updated[q]
    BY <1>5, UpdatesPushDown DEF HistoryIInv
  <2> QED
    BY <1>1, <2>1 DEF Old, Missed
<1>6. ASSUME NEW q \in Listed, Missed(q)'
      PROVE  /\ Ahead(q)'
             /\ import.step \in {"upsert", "status"} /\ (import.step = "upsert" => import.got[q] # updated'[q])
                  => Full(q)'
  <2>1. q # p
    BY <1>4, <1>6 DEF Missed
  <2>2. Missed(q) /\ Ahead(q)
    BY <1>5, <1>6, <2>1 DEF HistoryIInv, Pages
  <2>3. Ahead(q)'
    <3>1. /\ import.page * PerPage \in Nat /\ (import.page - 1) * PerPage \in Nat
      BY <1>2
    <3> QED
      BY <1>1, <1>5, <2>1, <2>2, <3>1 DEF Ahead
  <2>4. Full(q) => Full(q)'
    BY <1>1, <1>5, <2>1 DEF Full
  <2> QED
    BY <1>5, <2>1, <2>2, <2>3, <2>4 DEF HistoryIInv, Pages
<1>7. \A q \in Listed : Old(q)' /\ import'.got[q] > 0 => import'.got[q] = updated'[q]
  BY <1>1, <1>4, <1>5 DEF HistoryIInv, Pages
<1>8. import'.start <= now'
  BY <1>1, <1>2, <1>3
<1> QED
  BY <1>1, <1>6, <1>7, <1>8 DEF Pages

LEMMA NextHistoryIInv == HistoryIInv /\ [HistoryNext]_historyVars => HistoryIInv'
<1> SUFFICES ASSUME HistoryIInv, [HistoryNext]_historyVars PROVE HistoryIInv'
  OBVIOUS
<1>1. HistoryTypeOK'
  BY NextHistoryTypeOK DEF HistoryIInv
<1>2. CASE UNCHANGED historyVars
  BY <1>1, <1>2 DEF HistoryIInv, TimesApart, StatusesKnown, Known, Holds, Pages, Old, Missed, Ahead, Full,
                    Later, historyVars, github
<1>3. CASE HistoryNext
  <2>1. TimesApart' /\ StatusesKnown'
    BY <1>1, <1>3, NextTimesApart, NextStatusesKnown DEF HistoryIInv
  <2>2. ASSUME import' = import, updated' = updated, recorded' = recorded, now' \in Nat, now <= now'
        PROVE  Pages'
    <3>1. \A p \in Listed : /\ Old(p)' = Old(p) /\ Missed(p)' = Missed(p) /\ Ahead(p)' = Ahead(p)
                            /\ Full(p)' = Full(p)
      BY <2>2 DEF Old, Missed, Ahead, Full, Later
    <3>2. import.start \in Nat /\ now \in Nat
      BY HistoryTypes DEF HistoryIInv
    <3>3. import'.step # "idle" => import'.start <= now'
      BY <2>2, <3>2 DEF HistoryIInv, Pages
    <3> QED
      BY <2>2, <3>1, <3>3 DEF Pages, HistoryIInv
  <2>3. CASE Pass
    <3>1. now \in Nat /\ now' = now + 1 /\ UNCHANGED <<import, updated, recorded>>
      BY <2>3, HistoryTypes DEF Pass, HistoryIInv
    <3> QED
      BY <1>1, <2>1, <2>2, <3>1 DEF HistoryIInv
  <2>4. ASSUME NEW x \in Readers, Measure(x) PROVE Pages'
    <3>1. now \in Nat /\ now' = now /\ UNCHANGED <<import, updated, recorded>>
      BY <2>4, HistoryTypes DEF Measure, Pick, Detail, Rest, Publish, DetailFails, Report, Write, Goto,
                                github, HistoryIInv
    <3> QED
      BY <2>2, <3>1
  <2>5. CASE PageFails \/ Crash
    BY <1>1, <2>1, <2>5 DEF PageFails, Crash, IdleImport, Pages, HistoryIInv
  <2>6. ASSUME NEW p \in Listed, Update(p) PROVE Pages'
    BY <1>1, <2>6, UpdatePages
  <2>7. CASE Begin \/ Get \/ Record \/ Mark
    BY <1>1, <2>1, <2>7, BeginPages, GetPages, RecordPages, MarkPages DEF HistoryIInv
  <2> QED
    BY <1>1, <1>3, <2>1, <2>3, <2>4, <2>5, <2>6, <2>7 DEF HistoryNext, Import, HistoryIInv
<1> QED
  BY <1>2, <1>3

LEMMA InitHistoryIInv == HistoryInit => HistoryIInv /\ MeasureIInv
<1> SUFFICES ASSUME HistoryInit PROVE HistoryIInv /\ MeasureIInv
  OBVIOUS
<1>1. HistoryTypeOK
  BY InitHistoryTypeOK
<1>2. /\ \A p \in Listed : updated[p] = 0 /\ recorded[p] = 0 /\ measured[p] = 0 /\ import.got[p] = 0
      /\ now = 0 /\ status = Never /\ import.previous = Never /\ import.step = "idle"
      /\ \A x \in Readers : reader[x].copy = Never /\ reader[x].step = "idle"
  BY DEF HistoryInit, Nothing, IdleImport, IdleReader
<1>3. Never.complete = FALSE /\ Never.last = 0
  BY DEF Never
<1>4. TimesApart
  BY <1>2 DEF TimesApart
<1>5. Measured
  BY <1>2 DEF Measured
<1>6. Known(Never)
  BY <1>2, <1>3 DEF Known, Holds
<1>7. StatusesKnown
  BY <1>2, <1>6 DEF StatusesKnown
<1>8. Pages
  BY <1>2 DEF Pages
<1> QED
  BY <1>1, <1>4, <1>5, <1>7, <1>8 DEF HistoryIInv, MeasureIInv

\* The status, the import and the measurements keep to their values, whatever the number
\* of pull requests, of pages and of measurements (sync.py, enrichment.py).
THEOREM HistoryTyped == HistorySpec => []HistoryTypeOK
BY InitHistoryTypeOK, NextHistoryTypeOK, PTL DEF HistorySpec

\* An import that is said to be complete has every pull request as it was at its start,
\* whatever is updated while its pages are read, wherever it is cut short, and whoever
\* writes an old status back (sync_repository; the versions in upsert).
THEOREM NoneMissed == HistorySpec => []NoGap
<1>1. HistoryIInv => NoGap
  BY DEF HistoryIInv, StatusesKnown, Known, Holds, NoGap
<1> QED
  BY InitHistoryIInv, NextHistoryIInv, <1>1, PTL DEF HistorySpec

\* The details of a record of the current version were read of that version: enrich
\* publishes under the version it picked, and upsert drops them when it changes.
THEOREM DetailsMatch == HistorySpec => []MeasuresMatch
<1>1. MeasureIInv => MeasuresMatch
  <2> SUFFICES ASSUME MeasureIInv, NEW p \in Listed, recorded[p] = updated[p], measured[p] # 0
               PROVE  measured[p] = recorded[p]
    BY DEF MeasuresMatch
  <2>1. recorded[p] \in Nat /\ measured[p] \in Nat
    BY HistoryAssumption DEF MeasureIInv, HistoryTypeOK, Versions, Times
  <2> QED
    BY <2>1 DEF MeasureIInv, Measured
<1> QED
  BY InitHistoryIInv, NextMeasured, <1>1, PTL DEF HistorySpec

-----------------------------------------------------------------------------
(***************************************************************************)
(* The answers and their cache (ReadCache).                                *)
(***************************************************************************)

\* The answers that are kept or in the making, of which the rows are read.
Making == {"select", "latest", "status", "put"}
Made   == {cache[n] : n \in DOMAIN cache} \cup {request[y] : y \in {z \in Requests : request[z].at \in Making}}

\* A request that may still be given an answer of its key.
Asking(x) == request[x].at \in {"look", "wait", "lookAgain"}


\* What is kept under the revision of now shows what is stored now, and what is kept
\* under an earlier one all that was stored when somebody came at that revision.
Fits(e) ==
  /\ e.key <= revision
  /\ e.key = revision => held \subseteq e.rows
  /\ \A x \in Requests : Asking(x) /\ request[x].key = e.key => since[x] \subseteq e.rows

CacheIInv ==
  /\ CacheTypeOK
  /\ \A x \in Requests : request[x].key <= revision /\ since[x] \subseteq held
  /\ \A x \in Requests : request[x].at \in Making \cup {"answered"} => since[x] \subseteq request[x].rows
  /\ \A e \in Made : Fits(e)

-----------------------------------------------------------------------------
(* What the cache keeps.                                                   *)


\* An entry is taken out, or moved to the end: no other comes in.
LEMMA WithoutOne ==
  ASSUME NEW s \in Seq(Entry), NEW n \in DOMAIN s
  PROVE  /\ RemoveAt(s, n) \in Seq(Entry) /\ Len(RemoveAt(s, n)) = Len(s) - 1
         /\ \A m \in DOMAIN RemoveAt(s, n) : \E k \in DOMAIN s : RemoveAt(s, n)[m] = s[k]
<1> DEFINE front == SubSeq(s, 1, n - 1)
           back  == SubSeq(s, n + 1, Len(s))
           both  == front \o back
<1>1. Len(s) \in Nat /\ DOMAIN s = 1..Len(s) /\ n \in 1..Len(s) /\ \A i \in 1..Len(s) : s[i] \in Entry
  BY LenProperties, ElementOfSeq
<1>2. /\ front \in Seq(Entry) /\ Len(front) = n - 1
      /\ \A i \in 1..(n - 1) : front[i] = s[i]
  <2>1. 1 \in Int /\ n - 1 \in Int /\ \A i \in 1..(n - 1) : s[i] \in Entry
    BY <1>1
  <2>2. /\ SubSeq(s, 1, n - 1) \in Seq(Entry)
        /\ Len(SubSeq(s, 1, n - 1)) = IF 1 <= n - 1 THEN n - 1 - 1 + 1 ELSE 0
        /\ \A i \in 1..(n - 1 - 1 + 1) : SubSeq(s, 1, n - 1)[i] = s[1 + i - 1]
    BY <2>1, SubSeqProperties
  <2> QED
    BY <1>1, <2>2
<1>3. /\ back \in Seq(Entry) /\ Len(back) = Len(s) - n
      /\ \A i \in 1..(Len(s) - n) : back[i] = s[n + i]
  <2>1. n + 1 \in Int /\ Len(s) \in Int /\ \A i \in (n + 1)..Len(s) : s[i] \in Entry
    BY <1>1
  <2>2. /\ SubSeq(s, n + 1, Len(s)) \in Seq(Entry)
        /\ Len(SubSeq(s, n + 1, Len(s))) = IF n + 1 <= Len(s) THEN Len(s) - (n + 1) + 1 ELSE 0
        /\ \A i \in 1..(Len(s) - (n + 1) + 1) : SubSeq(s, n + 1, Len(s))[i] = s[n + 1 + i - 1]
    BY <2>1, SubSeqProperties
  <2> QED
    BY <1>1, <2>2
<1> HIDE DEF front, back
<1>4. /\ both \in Seq(Entry) /\ Len(both) = Len(front) + Len(back)
      /\ \A i \in 1..(Len(front) + Len(back)) :
           both[i] = IF i <= Len(front) THEN front[i] ELSE back[i - Len(front)]
  BY <1>2, <1>3, ConcatProperties
<1> HIDE DEF both
<1>5. Len(both) = Len(s) - 1 /\ DOMAIN both = 1..(Len(s) - 1)
  <2>1. Len(both) = Len(s) - 1
    BY <1>1, <1>2, <1>3, <1>4
  <2>2. DOMAIN both = 1..Len(both)
    BY <1>4, LenProperties
  <2> QED
    BY <2>1, <2>2
<1>6. ASSUME NEW m \in 1..(Len(s) - 1) PROVE \E k \in DOMAIN s : both[m] = s[k]
  <2>1. CASE m <= n - 1
    <3>1. both[m] = front[m] /\ m \in 1..(n - 1)
      BY <1>1, <1>2, <1>3, <1>4, <2>1
    <3> QED
      BY <1>1, <1>2, <3>1
  <2>2. CASE ~ (m <= n - 1)
    <3>1. both[m] = back[m - (n - 1)] /\ m - (n - 1) \in 1..(Len(s) - n)
      BY <1>1, <1>2, <1>3, <1>4, <2>2
    <3>2. both[m] = s[n + (m - (n - 1))] /\ n + (m - (n - 1)) \in DOMAIN s
      BY <1>1, <1>3, <3>1
    <3> QED
      BY <3>2
  <2> QED
    BY <2>1, <2>2
<1>7. RemoveAt(s, n) = both
  BY DEF RemoveAt, both, front, back
<1> QED
  BY <1>4, <1>5, <1>6, <1>7

\* An entry is added.
LEMMA WithOneMore ==
  ASSUME NEW s \in Seq(Entry), NEW e \in Entry
  PROVE  /\ Append(s, e) \in Seq(Entry) /\ Len(Append(s, e)) = Len(s) + 1
         /\ \A m \in DOMAIN Append(s, e) : Append(s, e)[m] = e \/ \E k \in DOMAIN s : Append(s, e)[m] = s[k]
<1>1. Append(s, e) \in Seq(Entry) /\ Len(Append(s, e)) = Len(s) + 1
  BY LenProperties
<1>2. DOMAIN Append(s, e) = 1..(Len(s) + 1) /\ DOMAIN s = 1..Len(s) /\ Len(s) \in Nat
  BY <1>1, LenProperties
<1>3. \A m \in 1..(Len(s) + 1) : Append(s, e)[m] = IF m = Len(s) + 1 THEN e ELSE s[m]
  BY <1>2
<1> QED
  BY <1>1, <1>2, <1>3

\* What is put is kept, with others that were, in the room there is.
LEMMA KeptEntries ==
  ASSUME CacheTypeOK, NEW e \in Entry
  PROVE  /\ Kept(e) \in Seq(Entry) /\ Len(Kept(e)) <= MaxKept
         /\ \A m \in DOMAIN Kept(e) : Kept(e)[m] = e \/ \E k \in DOMAIN cache : Kept(e)[m] = cache[k]
<1> DEFINE mine   == Entries(e.key)
           others == IF mine = {} THEN cache ELSE RemoveAt(cache, CHOOSE n \in mine : TRUE)
           all    == Append(others, e)
<1>1. cache \in Seq(Entry) /\ MaxKept \in Nat /\ MaxKept > 0
  BY CacheAssumption DEF CacheTypeOK
<1>2. /\ others \in Seq(Entry)
      /\ \A m \in DOMAIN others : \E k \in DOMAIN cache : others[m] = cache[k]
  <2>1. CASE mine = {}
    BY <1>1, <2>1
  <2>2. CASE mine # {}
    <3>1. (CHOOSE n \in mine : TRUE) \in DOMAIN cache
      BY <2>2 DEF Entries
    <3> QED
      BY <1>1, <2>2, <3>1, WithoutOne
  <2> QED
    BY <2>1, <2>2
<1> HIDE DEF others
<1>3. /\ all \in Seq(Entry)
      /\ \A m \in DOMAIN all : all[m] = e \/ \E k \in DOMAIN others : all[m] = others[k]
  BY <1>2, WithOneMore
<1>4. \A m \in DOMAIN all : all[m] = e \/ \E k \in DOMAIN cache : all[m] = cache[k]
  BY <1>2, <1>3
<1>5. Kept(e) = IF Len(all) <= MaxKept THEN all ELSE SubSeq(all, Len(all) - MaxKept + 1, Len(all))
  BY DEF Kept, others
<1> HIDE DEF all
<1>6. CASE Len(all) <= MaxKept
  BY <1>3, <1>4, <1>5, <1>6
<1>7. CASE ~ (Len(all) <= MaxKept)
  <2> DEFINE low  == Len(all) - MaxKept + 1
             tail == SubSeq(all, low, Len(all))
  <2>1. Len(all) \in Nat /\ DOMAIN all = 1..Len(all) /\ low \in 1..Len(all)
    BY <1>1, <1>3, <1>7, LenProperties
  <2>2. low \in Int /\ Len(all) \in Int /\ \A i \in low..Len(all) : all[i] \in Entry
    BY <1>3, <2>1, ElementOfSeq
  <2>3. /\ tail \in Seq(Entry)
        /\ Len(tail) = IF low <= Len(all) THEN Len(all) - low + 1 ELSE 0
        /\ \A i \in 1..(Len(all) - low + 1) : tail[i] = all[low + i - 1]
    BY <2>2, SubSeqProperties
  <2>4. Len(tail) = MaxKept /\ DOMAIN tail = 1..MaxKept
    BY <1>1, <2>1, <2>3, LenProperties
  <2>5. \A i \in 1..MaxKept : tail[i] = all[low + i - 1] /\ low + i - 1 \in DOMAIN all
    BY <1>1, <1>7, <2>1, <2>3
  <2>6. Kept(e) = tail
    BY <1>5, <1>7
  <2> HIDE DEF tail, low
  <2> QED
    BY <1>1, <1>4, <2>3, <2>4, <2>5, <2>6
<1> QED
  BY <1>6, <1>7

-----------------------------------------------------------------------------
(* The steps of the cache.                                                 *)

\* A look moves an entry to the end, and none comes in.
LEMMA LookKeeps ==
  ASSUME CacheTypeOK, NEW n \in DOMAIN cache
  PROVE  LET moved == Append(RemoveAt(cache, n), cache[n]) IN
         /\ moved \in Seq(Entry) /\ Len(moved) <= MaxKept
         /\ \A m \in DOMAIN moved : \E k \in DOMAIN cache : moved[m] = cache[k]
<1> DEFINE rest  == RemoveAt(cache, n)
           moved == Append(rest, cache[n])
<1>1. cache \in Seq(Entry) /\ Len(cache) <= MaxKept
  BY DEF CacheTypeOK
<1>2. cache[n] \in Entry /\ Len(cache) \in Nat
  BY <1>1, LenProperties, ElementOfSeq
<1>3. /\ rest \in Seq(Entry) /\ Len(rest) = Len(cache) - 1
      /\ \A m \in DOMAIN rest : \E k \in DOMAIN cache : rest[m] = cache[k]
  BY <1>1, WithoutOne
<1> HIDE DEF rest
<1>4. /\ moved \in Seq(Entry) /\ Len(moved) = Len(rest) + 1
      /\ \A m \in DOMAIN moved : moved[m] = cache[n] \/ \E k \in DOMAIN rest : moved[m] = rest[k]
  BY <1>2, <1>3, WithOneMore
<1>5. \A m \in DOMAIN moved : \E k \in DOMAIN cache : moved[m] = cache[k]
  BY <1>3, <1>4
<1>6. Len(moved) <= MaxKept
  BY <1>1, <1>2, <1>3, <1>4
<1> HIDE DEF moved
<1>7. moved = Append(RemoveAt(cache, n), cache[n])
  BY DEF moved, rest
<1> QED
  BY <1>4, <1>5, <1>6, <1>7

\* A step of the cache leaves it a cache, with nothing new but what is put.
LEMMA CacheSteps ==
  ASSUME CacheTypeOK, CacheNext
  PROVE  /\ cache' \in Seq(Entry) /\ Len(cache') <= MaxKept
         /\ \A m \in DOMAIN cache' :
              \/ \E k \in DOMAIN cache : cache'[m] = cache[k]
              \/ \E x \in Requests : Put(x) /\ cache'[m] = request[x]
<1>1. cache \in Seq(Entry) /\ Len(cache) <= MaxKept /\ \A x \in Requests : request[x] \in Entry
  BY DEF CacheTypeOK
<1>2. CASE UNCHANGED cache
  BY <1>1, <1>2
<1>3. CASE Drop
  <2>1. PICK n \in DOMAIN cache : cache' = RemoveAt(cache, n)
    BY <1>3 DEF Drop
  <2>2. Len(cache) \in Nat /\ MaxKept \in Nat
    BY <1>1, LenProperties, CacheAssumption
  <2> QED
    BY <1>1, <2>1, <2>2, WithoutOne
<1>4. ASSUME NEW x \in Requests, NEW step, NEW missed, Look(x, step, missed)
      PROVE  /\ cache' \in Seq(Entry) /\ Len(cache') <= MaxKept
             /\ \A m \in DOMAIN cache' : \E k \in DOMAIN cache : cache'[m] = cache[k]
  <2>1. CASE UNCHANGED cache
    BY <1>1, <2>1
  <2>2. CASE \E n \in Entries(request[x].key) : cache' = Append(RemoveAt(cache, n), cache[n])
    BY <2>2, LookKeeps DEF Entries
  <2> QED
    BY <1>4, <2>1, <2>2 DEF Look
<1>5. ASSUME NEW x \in Requests, Put(x)
      PROVE  /\ cache' \in Seq(Entry) /\ Len(cache') <= MaxKept
             /\ \A m \in DOMAIN cache' :
                  cache'[m] = request[x] \/ \E k \in DOMAIN cache : cache'[m] = cache[k]
  BY <1>1, <1>5, KeptEntries DEF Put
<1>6. ASSUME NEW x \in Requests, Serve(x), cache' # cache
      PROVE  Look(x, "look", "wait") \/ Look(x, "lookAgain", "rows") \/ Put(x)
  BY <1>6 DEF Serve, Arrive, Enter, Rows, Select, Latest, Reread, Status, Again
<1>7. ASSUME NEW p \in Pulls, Store(p) PROVE UNCHANGED cache
  BY <1>7 DEF Store, Bump
<1>8. Cover \/ Touch => UNCHANGED cache
  BY DEF Cover, Touch, Bump
<1>9. ASSUME NEW x \in Requests, Serve(x), cache' # cache
      PROVE  /\ cache' \in Seq(Entry) /\ Len(cache') <= MaxKept
             /\ \A m \in DOMAIN cache' :
                  \/ \E k \in DOMAIN cache : cache'[m] = cache[k]
                  \/ \E y \in Requests : Put(y) /\ cache'[m] = request[y]
  BY <1>4, <1>5, <1>6, <1>9
<1> QED
  BY <1>2, <1>3, <1>7, <1>8, <1>9 DEF CacheNext

LEMMA CacheNextTypeOK == CacheTypeOK /\ [CacheNext]_cacheVars => CacheTypeOK'
<1> SUFFICES ASSUME CacheTypeOK, [CacheNext]_cacheVars PROVE CacheTypeOK'
  OBVIOUS
<1>1. CASE UNCHANGED cacheVars
  BY <1>1 DEF cacheVars, CacheTypeOK
<1>2. CASE CacheNext
  <2>1. cache' \in Seq(Entry) /\ Len(cache') <= MaxKept
    BY <1>2, CacheSteps
  <2>2. ASSUME NEW p \in Pulls, Store(p) PROVE CacheTypeOK'
    BY <2>1, <2>2 DEF Store, Bump, CacheTypeOK
  <2>3. CASE Cover
    BY <2>1, <2>3 DEF Cover, Bump, CacheTypeOK
  <2>4. CASE Touch
    BY <2>1, <2>4, CacheAssumption DEF Touch, Bump, CacheTypeOK
  <2>5. CASE Drop
    BY <2>1, <2>5 DEF Drop, CacheTypeOK
  <2>6. ASSUME NEW x \in Requests, Serve(x) PROVE CacheTypeOK'
    <3> USE <2>1 DEF CacheTypeOK
    <3>0. Fresh \in Entry
      BY DEF Fresh, Entry, Steps
    <3>1. CASE Arrive(x)
      <4>1. [Fresh EXCEPT !.at = "look", !.key = revision] \in Entry
        BY DEF Fresh, Entry, Steps
      <4> QED
        BY <3>1, <4>1 DEF Arrive, Reply, Same
    <3>2. ASSUME NEW step, NEW missed \in Steps, Look(x, step, missed) PROVE CacheTypeOK'
      <4>1. \A n \in DOMAIN cache : cache[n] \in Entry
        BY LenProperties, ElementOfSeq
      <4>2. \A n \in DOMAIN cache : [cache[n] EXCEPT !.at = "answered"] \in Entry
        BY <4>1 DEF Entry, Steps
      <4>3. [request[x] EXCEPT !.at = missed] \in Entry
        BY <3>2 DEF Entry
      <4>4. \E r \in Entry : request' = [request EXCEPT ![x] = r]
        BY <3>2, <4>2, <4>3 DEF Look, Reply, Entries
      <4>5. busy' \in BOOLEAN
        BY <3>2 DEF Look
      <4> QED
        BY <3>2, <4>4, <4>5 DEF Look, Same
    <3>3. CASE Look(x, "look", "wait")
      BY <3>2, <3>3 DEF Steps
    <3>4. CASE Look(x, "lookAgain", "rows")
      BY <3>2, <3>4 DEF Steps
    <3>5. CASE Enter(x)
      <4>1. [request[x] EXCEPT !.at = IF busy THEN "refused" ELSE "lookAgain"] \in Entry
        BY DEF Entry, Steps
      <4> QED
        BY <3>5, <4>1 DEF Enter, Reply, Same
    <3>6. CASE Rows(x)
      <4>1. [request[x] EXCEPT !.at = "select", !.rows = held] \in Entry
        BY DEF Entry, Steps
      <4> QED
        BY <3>6, <4>1 DEF Rows, Reply, Same
    <3>7. CASE Select(x)
      <4>1. [request[x] EXCEPT !.at = "latest"] \in Entry
        BY DEF Entry, Steps
      <4>2. asked' \in BOOLEAN
        BY <3>7, Zenon DEF Select
      <4>3. revision' \in Nat
        BY <3>7, SMT DEF Select
      <4> QED
        BY <3>7, <4>1, <4>2, <4>3 DEF Select, Reply
    <3>8. CASE Latest(x)
      <4>1. /\ [request[x] EXCEPT !.at = "status"] \in Entry
            /\ [request[x] EXCEPT !.at = "reread", !.key = revision] \in Entry
        BY DEF Entry, Steps
      <4> QED
        BY <3>8, <4>1 DEF Latest, Reply, Same
    <3>9. CASE Reread(x)
      <4>1. [request[x] EXCEPT !.at = "status", !.rows = held] \in Entry
        BY DEF Entry, Steps
      <4> QED
        BY <3>9, <4>1 DEF Reread, Reply, Same
    <3>10. CASE Status(x)
      <4>1. [request[x] EXCEPT !.at = "put", !.covered = covered] \in Entry
        BY DEF Entry, Steps
      <4> QED
        BY <3>10, <4>1 DEF Status, Reply, Same
    <3>11. CASE Put(x)
      <4>1. [request[x] EXCEPT !.at = "answered"] \in Entry
        BY DEF Entry, Steps
      <4> QED
        BY <3>11, <4>1 DEF Put, Reply, Same
    <3>12. CASE Again(x)
      BY <3>0, <3>12 DEF Again, Reply, Same
    <3> QED
      BY <2>6, <3>1, <3>3, <3>4, <3>5, <3>6, <3>7, <3>8, <3>9, <3>10, <3>11, <3>12 DEF Serve
  <2> QED
    BY <1>2, <2>2, <2>3, <2>4, <2>5, <2>6 DEF CacheNext
<1> QED
  BY <1>1, <1>2

-----------------------------------------------------------------------------
(* No step makes an answer old.                                            *)

\* A write of the importer moves the revision away from all that is kept.
LEMMA WritesMoveOn ==
  ASSUME CacheIInv, CacheTypeOK', revision' = revision + 1, held \subseteq held',
         UNCHANGED <<cache, request, since>>
  PROVE  CacheIInv'
<1>1. Made' = Made
  BY DEF Made
<1>2. \A x \in Requests : request[x].key \in Nat
  BY DEF CacheIInv, CacheTypeOK, Entry
<1>3. \A e \in Made : e.key \in Nat
  <2>1. \A n \in DOMAIN cache : cache[n] \in Entry
    BY LenProperties, ElementOfSeq DEF CacheIInv, CacheTypeOK
  <2> QED
    BY <1>2, <2>1 DEF Made, Entry
<1>4. revision \in Nat
  BY DEF CacheIInv, CacheTypeOK
<1>5. \A x \in Requests : (request[x].key <= revision /\ since[x] \subseteq held)'
  BY <1>2, <1>4 DEF CacheIInv
<1>6. \A e \in Made' : Fits(e)'
  BY <1>1, <1>3, <1>4 DEF CacheIInv, Fits, Asking
<1> QED
  BY <1>5, <1>6 DEF CacheIInv

\* A step of a request: what it makes fits, it asks from then on only what it asked
\* before or of the revision of now, and the cache keeps nothing else.
LEMMA RequestMoves ==
  ASSUME CacheIInv, CacheTypeOK', UNCHANGED held, revision' \in {revision, revision + 1},
         NEW x \in Requests, NEW r \in Entry, NEW S,
         request' = [request EXCEPT ![x] = r], since' = [since EXCEPT ![x] = S],
         \A m \in DOMAIN cache' : \/ \E k \in DOMAIN cache : cache'[m] = cache[k]
                                  \/ request[x].at \in Making /\ cache'[m] = request[x],
         r.key <= revision', S \subseteq held,
         r.at \in Making \cup {"answered"} => S \subseteq r.rows,
         r.at \in Making =>
           /\ r.key = revision' => held \subseteq r.rows
           /\ \A y \in Requests : Asking(y) /\ request[y].key = r.key => since[y] \subseteq r.rows,
         r.at \in {"look", "wait", "lookAgain"} =>
           \/ Asking(x) /\ r.key = request[x].key /\ S = since[x]
           \/ r.key = revision /\ S \subseteq held
  PROVE  CacheIInv'
<1>1. request \in [Requests -> Entry] /\ since \in [Requests -> SUBSET Pulls] /\ revision \in Nat
  BY DEF CacheIInv, CacheTypeOK
<1>2. /\ request'[x] = r /\ since'[x] = S
      /\ \A y \in Requests : y # x => request'[y] = request[y] /\ since'[y] = since[y]
  BY <1>1
<1>3. \A y \in Requests : request[y].key \in Nat
  BY <1>1 DEF Entry
<1>4. \A y \in Requests : (request[y].key <= revision /\ since[y] \subseteq held)'
  BY <1>1, <1>2, <1>3 DEF CacheIInv
<1>5. \A y \in Requests :
        (request[y].at \in Making \cup {"answered"} => since[y] \subseteq request[y].rows)'
  BY <1>2 DEF CacheIInv, Making
<1>6. \A n \in DOMAIN cache : cache[n] \in Entry
  BY LenProperties, ElementOfSeq DEF CacheIInv, CacheTypeOK
<1>7. Made \subseteq Entry
  BY <1>1, <1>6 DEF Made
<1>8. \A e \in Made' : e \in Made \/ (e = r /\ r.at \in Making)
  BY <1>2 DEF Made, Making
<1>9. \A y \in Requests : Asking(y)' =>
        \/ Asking(y) /\ request'[y].key = request[y].key /\ since'[y] = since[y]
        \/ y = x /\ request'[y].key = revision /\ since'[y] \subseteq held
  BY <1>2 DEF Asking
<1>10. ASSUME NEW e \in Made PROVE Fits(e)'
  <2>1. e.key \in Nat /\ Fits(e)
    BY <1>7 DEF Entry, CacheIInv
  <2>2. e.key <= revision' /\ (e.key = revision' => held' \subseteq e.rows)
    BY <1>1, <2>1 DEF Fits
  <2>3. \A y \in Requests : Asking(y)' /\ request'[y].key = e.key => since'[y] \subseteq e.rows
    BY <1>9, <2>1 DEF Fits
  <2> QED
    BY <2>2, <2>3 DEF Fits
<1>11. ASSUME r.at \in Making PROVE Fits(r)'
  <2>1. ~Asking(x)'
    BY <1>2, <1>11 DEF Asking, Making
  <2>2. \A y \in Requests : Asking(y)' /\ request'[y].key = r.key => since'[y] \subseteq r.rows
    BY <1>9, <1>11, <2>1
  <2> QED
    BY <1>11, <2>2 DEF Fits
<1> QED
  BY <1>4, <1>5, <1>8, <1>10, <1>11 DEF CacheIInv

\* A look takes an answer that was kept for its key, or none.
LEMMA LookIInv ==
  ASSUME CacheIInv, CacheTypeOK', CacheNext, NEW x \in Requests, NEW step, NEW missed,
         Look(x, step, missed),
         <<step, missed>> \in {<<"look", "wait">>, <<"lookAgain", "rows">>}
  PROVE  CacheIInv'
<1>0. request \in [Requests -> Entry] /\ since \in [Requests -> SUBSET Pulls]
  BY DEF CacheIInv, CacheTypeOK
<1>1. CASE \E n \in Entries(request[x].key) :
             /\ request' = [request EXCEPT ![x] = [cache[n] EXCEPT !.at = "answered"]]
             /\ cache' = Append(RemoveAt(cache, n), cache[n])
  <2>1. PICK n \in DOMAIN cache :
               /\ cache[n].key = request[x].key
               /\ request' = [request EXCEPT ![x] = [cache[n] EXCEPT !.at = "answered"]]
               /\ cache' = Append(RemoveAt(cache, n), cache[n])
    BY <1>1 DEF Entries
  <2> DEFINE r == [cache[n] EXCEPT !.at = "answered"]
  <2>2. cache[n] \in Entry /\ cache[n] \in Made /\ Fits(cache[n])
    BY LenProperties, ElementOfSeq DEF CacheIInv, CacheTypeOK, Made
  <2>3. r \in Entry /\ r.key = request[x].key /\ r.rows = cache[n].rows /\ r.at = "answered"
    BY <2>1, <2>2 DEF Entry, Steps
  <2>4. Asking(x)
    BY DEF Look, Asking
  <2>5. since[x] \subseteq r.rows
    BY <2>1, <2>2, <2>3, <2>4 DEF Fits
  <2>6. \A m \in DOMAIN cache' : \E k \in DOMAIN cache : cache'[m] = cache[k]
    BY <2>1, LookKeeps DEF CacheIInv
  <2>7. UNCHANGED <<held, revision>> /\ since' = [since EXCEPT ![x] = since[x]]
    BY <1>0 DEF Look, Same
  <2>8. r.key <= revision' /\ since[x] \subseteq held
    BY <2>3, <2>7 DEF CacheIInv
  <2>9. r.at \notin Making /\ r.at \notin {"look", "wait", "lookAgain"}
    BY <2>3 DEF Making
  <2>10. request' = [request EXCEPT ![x] = r]
    BY <2>1
  <2> HIDE DEF r
  <2> QED
    BY <2>3, <2>5, <2>6, <2>7, <2>8, <2>9, <2>10, RequestMoves
<1>2. CASE request' = [request EXCEPT ![x] = [request[x] EXCEPT !.at = missed]] /\ UNCHANGED cache
  <2> DEFINE r == [request[x] EXCEPT !.at = missed]
  <2>1. r \in Entry /\ r.key = request[x].key /\ r.at = missed
    BY <1>0 DEF Entry, Steps
  <2>2. UNCHANGED <<held, revision>> /\ since' = [since EXCEPT ![x] = since[x]] /\ Asking(x)
    BY <1>0 DEF Look, Same, Asking
  <2>3. r.key <= revision' /\ since[x] \subseteq held
    BY <2>1, <2>2 DEF CacheIInv
  <2>4. r.at \notin Making \cup {"answered"}
    BY <2>1 DEF Making
  <2>5. request' = [request EXCEPT ![x] = r]
    BY <1>2
  <2> HIDE DEF r
  <2> QED
    BY <1>2, <2>1, <2>2, <2>3, <2>4, <2>5, RequestMoves
<1> QED
  BY <1>1, <1>2 DEF Look, Reply

\* Each step of a request gives it no more than it may have.
LEMMA ServeIInv ==
  ASSUME CacheIInv, CacheTypeOK', CacheNext, NEW x \in Requests, Serve(x)
  PROVE  CacheIInv'
<1>0. /\ request \in [Requests -> Entry] /\ since \in [Requests -> SUBSET Pulls]
      /\ held \in SUBSET Pulls /\ revision \in Nat
  BY DEF CacheIInv, CacheTypeOK
<1>1. request[x] \in Entry /\ request[x].key <= revision /\ since[x] \subseteq held
  BY <1>0 DEF CacheIInv
<1>2. \A y \in Requests : since[y] \subseteq held
  BY DEF CacheIInv
<1>3. request[x].at \in Making \cup {"answered"} => since[x] \subseteq request[x].rows
  BY DEF CacheIInv
<1>4. request[x].at \in Making => Fits(request[x])
  BY DEF CacheIInv, Made
<1>5. since = [since EXCEPT ![x] = since[x]]
  BY <1>0
<1>6. CASE Arrive(x)
  <2> DEFINE r == [Fresh EXCEPT !.at = "look", !.key = revision]
  <2>1. r \in Entry /\ r.key = revision /\ r.at = "look"
    BY <1>0 DEF Fresh, Entry, Steps
  <2>2. UNCHANGED <<held, revision, cache>> /\ since' = [since EXCEPT ![x] = held]
        /\ request' = [request EXCEPT ![x] = r]
    BY <1>6 DEF Arrive, Reply, Same
  <2>3. r.at \notin Making \cup {"answered"}
    BY <2>1 DEF Making
  <2>4. r.key <= revision'
    BY <1>0, <2>1, <2>2
  <2> HIDE DEF r
  <2> QED
    BY <2>1, <2>2, <2>3, <2>4, RequestMoves
<1>7. CASE Look(x, "look", "wait") \/ Look(x, "lookAgain", "rows")
  BY <1>7, LookIInv
<1>8. CASE Enter(x)
  <2> DEFINE r == [request[x] EXCEPT !.at = IF busy THEN "refused" ELSE "lookAgain"]
  <2>1. r \in Entry /\ r.key = request[x].key /\ r.at \in {"refused", "lookAgain"}
    BY <1>1 DEF Entry, Steps
  <2>2. UNCHANGED <<held, revision, cache, since>> /\ request' = [request EXCEPT ![x] = r] /\ Asking(x)
    BY <1>8 DEF Enter, Reply, Same, Asking
  <2>3. r.at \notin Making \cup {"answered"}
    BY <2>1 DEF Making
  <2>4. r.key <= revision' /\ since' = [since EXCEPT ![x] = since[x]]
    BY <1>1, <1>5, <2>1, <2>2
  <2> HIDE DEF r
  <2> QED
    BY <1>1, <2>1, <2>2, <2>3, <2>4, RequestMoves
<1>9. CASE Rows(x) \/ Reread(x)
  <2> DEFINE r == [request[x] EXCEPT !.at = IF Rows(x) THEN "select" ELSE "status", !.rows = held]
  <2>1. r \in Entry /\ r.key = request[x].key /\ r.at \in {"select", "status"} /\ r.rows = held
    BY <1>0, <1>1 DEF Entry, Steps
  <2>2. Rows(x) => request' = [request EXCEPT ![x] = r]
    BY DEF Rows, Reply
  <2>3. Reread(x) => request' = [request EXCEPT ![x] = r]
    BY DEF Reread, Rows, Reply
  <2>4. UNCHANGED <<held, revision, cache, since>> /\ request' = [request EXCEPT ![x] = r]
    BY <1>9, <2>2, <2>3 DEF Rows, Reread, Same
  <2>5. r.at \notin {"look", "wait", "lookAgain"}
    BY <2>1
  <2>6. r.key <= revision' /\ since' = [since EXCEPT ![x] = since[x]]
    BY <1>1, <1>5, <2>1, <2>4
  <2> HIDE DEF r
  <2> QED
    BY <1>1, <1>2, <2>1, <2>4, <2>5, <2>6, RequestMoves
<1>10. CASE Select(x) \/ Status(x)
  <2> DEFINE r == IF Select(x) THEN [request[x] EXCEPT !.at = "latest"]
                  ELSE [request[x] EXCEPT !.at = "put", !.covered = covered]
  <2>1. r \in Entry /\ r.key = request[x].key /\ r.at \in {"latest", "put"} /\ r.rows = request[x].rows
    BY <1>0, <1>1 DEF Entry, Steps, CacheIInv, CacheTypeOK
  <2>2. Select(x) => request' = [request EXCEPT ![x] = r]
    BY DEF Select, Reply
  <2>3. Status(x) => request' = [request EXCEPT ![x] = r]
    BY DEF Select, Status, Reply
  <2>4. UNCHANGED <<held, cache, since>> /\ request' = [request EXCEPT ![x] = r]
    BY <1>10, <2>2, <2>3 DEF Select, Status, Same
  <2>5. revision' \in {revision, revision + 1}
    BY <1>10 DEF Select, Status, Same
  <2>6. r.at \notin {"look", "wait", "lookAgain"}
    BY <2>1
  <2>7. r.key <= revision' /\ (r.key = revision' => r.key = revision)
    BY <1>0, <1>1, <2>1, <2>5 DEF Entry
  <2>8. since' = [since EXCEPT ![x] = since[x]]
    BY <1>5, <2>4
  <2>9. request[x].at \in Making
    BY <1>10 DEF Select, Status, Making
  <2> HIDE DEF r
  <2> QED
    BY <1>1, <1>3, <1>4, <2>1, <2>4, <2>5, <2>6, <2>7, <2>8, <2>9, RequestMoves DEF Fits
<1>11. CASE Latest(x)
  <2> DEFINE r == IF revision = request[x].key THEN [request[x] EXCEPT !.at = "status"]
                  ELSE [request[x] EXCEPT !.at = "reread", !.key = revision]
  <2>1. /\ r \in Entry /\ r.rows = request[x].rows /\ r.key = revision /\ r.at \in {"status", "reread"}
        /\ r.at = "status" => r.key = request[x].key
    BY <1>0, <1>1 DEF Entry, Steps
  <2>2. UNCHANGED <<held, revision, cache, since>> /\ request' = [request EXCEPT ![x] = r]
    BY <1>11 DEF Latest, Reply, Same
  <2>3. r.at \notin {"look", "wait", "lookAgain"}
    BY <2>1
  <2>4. r.key <= revision' /\ since' = [since EXCEPT ![x] = since[x]]
    BY <1>0, <1>5, <2>1, <2>2
  <2>5. request[x].at \in Making
    BY <1>11 DEF Latest, Making
  <2>6. r.at \in Making \cup {"answered"} => r.at = "status"
    BY <2>1 DEF Making
  <2> HIDE DEF r
  <2>7. r.at \in Making =>
          /\ r.key = revision' => held \subseteq r.rows
          /\ \A y \in Requests : Asking(y) /\ request[y].key = r.key => since[y] \subseteq r.rows
    BY <1>4, <2>1, <2>2, <2>5, <2>6 DEF Fits
  <2>8. r.at \in Making \cup {"answered"} => since[x] \subseteq r.rows
    BY <1>3, <2>1, <2>5
  <2> QED
    BY <1>1, <2>1, <2>2, <2>3, <2>4, <2>7, <2>8, RequestMoves
<1>12. CASE Put(x)
  <2> DEFINE r == [request[x] EXCEPT !.at = "answered"]
  <2>1. r \in Entry /\ r.key = request[x].key /\ r.at = "answered" /\ r.rows = request[x].rows
    BY <1>1 DEF Entry, Steps
  <2>2. UNCHANGED <<held, revision, since>> /\ request' = [request EXCEPT ![x] = r] /\ request[x].at = "put"
    BY <1>12 DEF Put, Reply, Same
  <2>3. \A m \in DOMAIN cache' : cache'[m] = request[x] \/ \E k \in DOMAIN cache : cache'[m] = cache[k]
    BY <1>1, <1>12, KeptEntries DEF Put, CacheIInv
  <2>4. request[x].at \in Making /\ r.at \notin Making /\ r.at \notin {"look", "wait", "lookAgain"}
    BY <2>1, <2>2 DEF Making
  <2>5. r.key <= revision' /\ since' = [since EXCEPT ![x] = since[x]] /\ since[x] \subseteq r.rows
    BY <1>1, <1>3, <1>5, <2>1, <2>2, <2>4
  <2> HIDE DEF r
  <2> QED
    BY <1>1, <2>1, <2>2, <2>3, <2>4, <2>5, RequestMoves
<1>13. CASE Again(x)
  <2>1. Fresh \in Entry /\ Fresh.key = 0 /\ Fresh.at = "new"
    BY DEF Fresh, Entry, Steps
  <2>2. UNCHANGED <<held, revision, cache>> /\ request' = [request EXCEPT ![x] = Fresh]
        /\ since' = [since EXCEPT ![x] = {}]
    BY <1>13 DEF Again, Reply, Same
  <2>3. Fresh.at \notin Making \cup {"answered"} /\ Fresh.key <= revision'
    BY <1>0, <2>1, <2>2 DEF Making
  <2> QED
    BY <2>1, <2>2, <2>3, RequestMoves
<1> QED
  BY <1>6, <1>7, <1>8, <1>9, <1>10, <1>11, <1>12, <1>13 DEF Serve

LEMMA CacheNextIInv == CacheIInv /\ [CacheNext]_cacheVars => CacheIInv'
<1> SUFFICES ASSUME CacheIInv, [CacheNext]_cacheVars PROVE CacheIInv'
  OBVIOUS
<1>1. CacheTypeOK'
  BY CacheNextTypeOK DEF CacheIInv
<1>2. CASE UNCHANGED cacheVars
  <2>1. Made' = Made
    BY <1>2 DEF Made, cacheVars
  <2> QED
    BY <1>1, <1>2, <2>1 DEF CacheIInv, Fits, Asking, cacheVars
<1>3. ASSUME NEW p \in Pulls, Store(p) PROVE CacheIInv'
  BY <1>1, <1>3, WritesMoveOn DEF Store, Bump
<1>4. CASE Cover \/ Touch
  BY <1>1, <1>4, WritesMoveOn DEF Cover, Touch, Bump
<1>5. CASE Drop
  <2>1. \A m \in DOMAIN cache' : \E k \in DOMAIN cache : cache'[m] = cache[k]
    BY <1>5, WithoutOne DEF Drop, CacheIInv, CacheTypeOK
  <2>2. UNCHANGED <<revision, held, request, since>>
    BY <1>5 DEF Drop
  <2>3. \A e \in Made' : e \in Made
    BY <2>1, <2>2 DEF Made
  <2> QED
    BY <1>1, <2>2, <2>3 DEF CacheIInv, Fits, Asking
<1>6. ASSUME CacheNext, NEW x \in Requests, Serve(x) PROVE CacheIInv'
  BY <1>1, <1>6, ServeIInv
<1> QED
  BY <1>2, <1>3, <1>4, <1>5, <1>6 DEF CacheNext

LEMMA CacheInitIInv == CacheInit => CacheIInv
<1> SUFFICES ASSUME CacheInit PROVE CacheIInv
  OBVIOUS
<1>1. Fresh \in Entry /\ Fresh.at = "new" /\ Fresh.key = 0
  BY DEF Fresh, Entry, Steps
<1>2. cache = <<>> /\ DOMAIN cache = {}
  BY DEF CacheInit
<1>3. CacheTypeOK
  <2>1. cache \in Seq(Entry) /\ Len(cache) = 0
    BY <1>2, EmptySeq
  <2>2. Len(cache) <= MaxKept /\ writes \in 0..MaxWrites
    BY <2>1, CacheAssumption DEF CacheInit
  <2>3. request \in [Requests -> Entry] /\ since \in [Requests -> SUBSET Pulls]
    BY <1>1 DEF CacheInit
  <2>4. revision \in Nat /\ held \in SUBSET Pulls
    BY DEF CacheInit
  <2>5. asked \in BOOLEAN /\ covered \in BOOLEAN /\ busy \in BOOLEAN
    BY Zenon DEF CacheInit
  <2> QED
    BY <2>1, <2>2, <2>3, <2>4, <2>5 DEF CacheTypeOK
<1>4. Made = {}
  BY <1>1, <1>2 DEF Made, Making, CacheInit
<1> QED
  BY <1>1, <1>3, <1>4 DEF CacheIInv, CacheInit, Making

\* The cache keeps within its room, and requests to their steps (cache.py).
THEOREM CacheTyped == CacheSpec => []CacheTypeOK
<1>1. CacheInit => CacheTypeOK
  BY CacheInitIInv DEF CacheIInv
<1> QED
  BY <1>1, CacheNextTypeOK, PTL DEF CacheSpec

\* An answer shows what was stored when it was asked for, be it kept or new, whatever is
\* stored meanwhile and whichever other request put it into the cache (routes.py).
THEOREM CurrentAnswers == CacheSpec => []AnswersAreCurrent
<1>1. CacheIInv => AnswersAreCurrent
  BY DEF CacheIInv, AnswersAreCurrent
<1> QED
  BY CacheInitIInv, CacheNextIInv, <1>1, PTL DEF CacheSpec
=============================================================================
