----------------------------- MODULE MCAnalytics -----------------------------
(***************************************************************************)
(* The analytics components in one run: the import of a month, the hourly  *)
(* import with the measurement of details, and the answers with their      *)
(* cache.  They share no variable (each module has its own view of the     *)
(* store); `part` says which of them moves, from the start on.             *)
(***************************************************************************)
EXTENDS MonthImport, HistorySync, ReadCache

VARIABLE part

\* The import that does not move starts in one of its states only.
AnalyticsInit ==
  /\ Init /\ HistoryInit /\ CacheInit
  /\ part \in {"month", "history", "answers"}
  /\ part = "month" \/ day = [p \in Prs |-> 1]

AnalyticsNext ==
  /\ UNCHANGED part
  /\ \/ part = "month"   /\ Next        /\ UNCHANGED <<historyVars, cacheVars>>
     \/ part = "history" /\ HistoryNext /\ UNCHANGED <<vars, cacheVars>>
     \/ part = "answers" /\ CacheNext   /\ UNCHANGED <<vars, historyVars>>

AnalyticsSpec ==
  /\ AnalyticsInit /\ [][AnalyticsNext]_<<part, vars, historyVars, cacheVars>>
  /\ part = "month" => Fairness

\* A month that is asked for (backfill.py) comes to rest.
MonthComesToRest == part = "month" => MonthSettles
=============================================================================
