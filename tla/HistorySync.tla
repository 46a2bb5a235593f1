----------------------------- MODULE HistorySync -----------------------------
(***************************************************************************)
(* The hourly import of pull requests (analytics/sync.py), the measurement *)
(* of their details (analytics/enrichment.py), and the store both write    *)
(* (analytics/store.py).                                                   *)
(*                                                                         *)
(* The worker imports, then measures; an operator may run the measurement  *)
(* from the command line meanwhile.  GitHub lists the pull requests from   *)
(* the latest update on, and goes on changing them between two pages and   *)
(* between two reads of one of them.  A version is the time of the update  *)
(* that made it, 0 standing for none.                                      *)
(***************************************************************************)
EXTENDS Integers, FiniteSets

CONSTANTS
  Total,      \* pull requests
  PerPage,    \* of the list
  MaxPages,   \* of an import
  Overlap,    \* how far before the last success an import starts
  Readers,    \* that measure: the worker, the command line
  Worker,
  MaxTime,    \* bound on the time, which a version is of
  MaxBreaks   \* bound on failed requests and crashes

ASSUME HistoryAssumption ==
  /\ Total \in Nat \ {0} /\ PerPage \in Nat \ {0} /\ MaxPages \in Nat \ {0}
  /\ Overlap \in Nat /\ MaxTime \in Nat /\ MaxBreaks \in Nat

Listed == 1..Total
Times  == 0..MaxTime

VARIABLES
  updated,    \* GitHub: the version of a pull request
  now,
  recorded,   \* the version a record has
  measured,   \* the version its details are of
  whole,      \* those whose enrichment_state is complete
  status,     \* sync_status: complete, last (success)
  import,     \* the import: its step, the status and the time at its start, its page
  reader,     \* a measurement: its step, pull request, versions expected and read, status
  breaks

github      == <<updated, now>>
historyVars == <<github, recorded, measured, whole, status, import, reader, breaks>>

Statuses == [complete : BOOLEAN, last : Times]
Versions == [Listed -> Times]
Nothing  == [p \in Listed |-> 0]
Never    == [complete |-> FALSE, last |-> 0]

IdleImport == [step |-> "idle", previous |-> Never, start |-> 0, page |-> 1, got |-> Nothing]
IdleReader == [step |-> "idle", pr |-> 1, expected |-> 0, read |-> 0, copy |-> Never]

HistoryTypeOK ==
  /\ updated \in Versions /\ now \in Times /\ recorded \in Versions /\ measured \in Versions
  /\ whole \subseteq Listed
  /\ status \in Statuses
  /\ import \in [step : {"idle", "get", "upsert", "status"}, previous : Statuses,
                 start : Times, page : 1..MaxPages, got : Versions]
  /\ reader \in [Readers -> [step : {"idle", "detail", "rest", "publish", "report", "write"},
                             pr : Listed, expected : Times, read : Times, copy : Statuses]]
  /\ breaks \in 0..MaxBreaks

HistoryInit ==
  /\ updated = Nothing /\ now = 0 /\ recorded = Nothing /\ measured = Nothing
  /\ whole = {} /\ status = Never
  /\ import = IdleImport /\ reader = [x \in Readers |-> IdleReader]
  /\ breaks = 0

Breaks == breaks < MaxBreaks /\ breaks' = breaks + 1

\* Time passes; somebody opens or updates a pull request.
Pass ==
  /\ now < MaxTime
  /\ now' = now + 1
  /\ UNCHANGED <<updated, recorded, measured, whole, status, import, reader, breaks>>

Update(p) ==
  /\ now < MaxTime
  /\ now' = now + 1 /\ updated' = [updated EXCEPT ![p] = now']
  /\ UNCHANGED <<recorded, measured, whole, status, import, reader, breaks>>

-----------------------------------------------------------------------------
(* The import: sync_repository.                                            *)

\* Mutant: a success is dated by what GitHub shows at its end.
DatedByEnd == [complete |-> TRUE, last |-> now]

Success == [complete |-> TRUE, last |-> import.start]

Begin ==
  /\ import.step = "idle" /\ \A x \in Readers : x = Worker => reader[x].step = "idle"
  /\ import' = [IdleImport EXCEPT !.step = "get", !.previous = status, !.start = now]
  /\ UNCHANGED <<github, recorded, measured, whole, status, reader, breaks>>

\* A page of the list, from the latest update on.
Later(p)   == Cardinality({q \in Listed : updated[q] > updated[p]})
OnPage(p)  == (import.page - 1) * PerPage <= Later(p) /\ Later(p) < import.page * PerPage

\* Before the first page the status is written as it was read.
Get ==
  /\ import.step = "get"
  /\ import' = [import EXCEPT !.step = "upsert",
                             !.got = [p \in Listed |-> IF OnPage(p) THEN updated[p] ELSE 0]]
  /\ status' = IF import.page = 1 THEN import.previous ELSE status
  /\ UNCHANGED <<github, recorded, measured, whole, reader, breaks>>

\* A record whose version changed loses its details (upsert).
Changed(p) == recorded[p] > 0 /\ import.got[p] > 0 /\ import.got[p] # recorded[p]

Record ==
  /\ import.step = "upsert"
  /\ measured' = [p \in Listed |-> IF Changed(p) THEN 0 ELSE measured[p]]
  /\ whole'    = {p \in whole : ~Changed(p)}
  /\ recorded'   = [p \in Listed |-> IF import.got[p] > 0 THEN import.got[p] ELSE recorded[p]]
  /\ import'   = [import EXCEPT !.step = "status"]
  /\ UNCHANGED <<github, status, reader, breaks>>

\* A first import reads the whole list, a later one until it meets what it had.
Crossed == /\ import.previous.complete
           /\ \E p \in Listed : import.got[p] > 0 /\ import.got[p] < import.previous.last - Overlap

LastPage == Cardinality({p \in Listed : import.got[p] > 0}) < PerPage \/ Crossed

\* The status after a page: the next one, the end, or the limit of pages; but for the
\* end it is written as it was at the start.
Mark ==
  /\ import.step = "status"
  /\ status' = IF LastPage THEN Success ELSE import.previous
  /\ import' = IF LastPage \/ import.page = MaxPages THEN IdleImport
               ELSE [import EXCEPT !.step = "get", !.page = @ + 1, !.got = Nothing]
  /\ UNCHANGED <<github, recorded, measured, whole, reader, breaks>>

\* A page cannot be read.
PageFails ==
  /\ import.step = "get" /\ Breaks
  /\ status' = import.previous /\ import' = IdleImport
  /\ UNCHANGED <<github, recorded, measured, whole, reader>>

\* The worker dies, importing or measuring.
Crash ==
  /\ Breaks
  /\ import' = IdleImport
  /\ reader' = [x \in Readers |-> IF x = Worker THEN IdleReader ELSE reader[x]]
  /\ <<import, reader>>' # <<import, reader>>
  /\ UNCHANGED <<github, recorded, measured, whole, status>>

-----------------------------------------------------------------------------
(* The measurement: enrich_repository.                                     *)

Goto(x, m) == reader' = [reader EXCEPT ![x] = m] /\ UNCHANGED <<github, recorded, import>>

\* candidates: the records that are not measured completely.
Pick(x) ==
  /\ reader[x].step = "idle" /\ (x = Worker => import.step = "idle")
  /\ \E p \in Listed :
       /\ recorded[p] > 0 /\ p \notin whole
       /\ Goto(x, [IdleReader EXCEPT !.step = "detail", !.pr = p, !.expected = recorded[p]])
  /\ UNCHANGED <<measured, whole, status, breaks>>

\* measure: the details, if they are still of that version; 0 when they are not.
Detail(x) ==
  /\ reader[x].step = "detail"
  /\ IF updated[reader[x].pr] = reader[x].expected
     THEN Goto(x, [reader[x] EXCEPT !.step = "rest"])
     ELSE Goto(x, [reader[x] EXCEPT !.step = "publish"])
  /\ UNCHANGED <<measured, whole, status, breaks>>

\* Its reviews and commits, by now perhaps of a later one.
Rest(x) ==
  /\ reader[x].step = "rest"
  /\ Goto(x, [reader[x] EXCEPT !.step = "publish", !.read = updated[reader[x].pr]])
  /\ UNCHANGED <<measured, whole, status, breaks>>

\* Mutant: a measurement is published over a record that changed.
ExistsStill(x) == recorded[reader[x].pr] > 0

\* enrich, under the lock: the record is still the one that was measured.
Unchanged(x) == recorded[reader[x].pr] = reader[x].expected

Publish(x) ==
  /\ reader[x].step = "publish"
  /\ LET p == reader[x].pr IN
     IF Unchanged(x)
     THEN /\ measured' = [measured EXCEPT ![p] = reader[x].read]
          /\ \/ reader[x].read # 0 /\ whole' = whole \cup {p}
             \/ whole' = whole \ {p}
     ELSE UNCHANGED <<measured, whole>>
  /\ Goto(x, [IdleReader EXCEPT !.step = "report"])
  /\ UNCHANGED <<status, breaks>>

\* The details cannot be read: what is measured stays.
DetailFails(x) ==
  /\ reader[x].step = "detail" /\ Breaks
  /\ whole' = IF Unchanged(x) THEN whole \ {reader[x].pr} ELSE whole
  /\ Goto(x, [IdleReader EXCEPT !.step = "report"])
  /\ UNCHANGED <<measured, status>>

\* The progress is added to the status: it is read, then written back whole.
Report(x) ==
  /\ reader[x].step = "report"
  /\ Goto(x, [reader[x] EXCEPT !.step = "write", !.copy = status])
  /\ UNCHANGED <<measured, whole, status, breaks>>

Write(x) ==
  /\ reader[x].step = "write"
  /\ status' = reader[x].copy
  /\ Goto(x, IdleReader)
  /\ UNCHANGED <<measured, whole, breaks>>

-----------------------------------------------------------------------------
Import  == Begin \/ Get \/ Record \/ Mark \/ PageFails
Measure(x) ==
  Pick(x) \/ Detail(x) \/ Rest(x) \/ Publish(x) \/ DetailFails(x) \/ Report(x) \/ Write(x)

HistoryNext ==
  \/ Pass \/ \E p \in Listed : Update(p)
  \/ Import \/ Crash
  \/ \E x \in Readers : Measure(x)

HistorySpec == HistoryInit /\ [][HistoryNext]_historyVars

-----------------------------------------------------------------------------
(* Properties.                                                             *)

\* An import said to be complete has every pull request as it was at its start:
\* pages that shift between two reads, imports cut short, and the command line
\* writing an old status back over a newer one leave no gap.
NoGap ==
  status.complete => \A p \in Listed : updated[p] <= status.last => recorded[p] = updated[p]

\* When a record is of the current version, the details with it are: those that were
\* read while the pull request changed go with the version they were published for.
MeasuresMatch ==
  \A p \in Listed : recorded[p] = updated[p] /\ measured[p] # 0 => measured[p] = recorded[p]
=============================================================================
