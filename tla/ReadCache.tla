------------------------------ MODULE ReadCache ------------------------------
(***************************************************************************)
(* The analytics answers and their cache (analytics/routes.py, cache.py):  *)
(* an answer is kept under the revision of the data it was made from,      *)
(* while the importer adds pull requests and marks a month as covered      *)
(* (analytics/store.py, analytics/backfill.py).                            *)
(*                                                                         *)
(* Every transaction that writes moves the revision.  All requests here    *)
(* ask the same question, one of which the whole history is read; what     *)
(* differs between questions is part of the key and keeps them apart.      *)
(***************************************************************************)
EXTENDS Integers, Sequences, SequencesExt

CONSTANTS
  Pulls,     \* merged in the month that is asked for
  Requests,
  MaxKept,   \* entries of the cache
  MaxWrites  \* bound on writes that add no pull request

ASSUME CacheAssumption == MaxKept \in Nat \ {0} /\ MaxWrites \in Nat

VARIABLES
  revision, held,    \* the store: its revision, the pull requests in it
  asked, covered,    \* the month: asked for, covered
  cache,             \* entries, the one used last at the end
  busy,              \* analysis_slots is taken
  request,           \* its step, the revision of its key, the rows it read, its answer
  since,             \* what was held when it came
  writes

cacheVars == <<revision, held, asked, covered, cache, busy, request, since, writes>>

Fresh   == [at |-> "new", key |-> 0, rows |-> {}, covered |-> FALSE]
Steps   == {"new", "look", "wait", "lookAgain", "rows", "select", "latest", "reread", "status",
            "put", "answered", "refused"}
Entry   == [at : Steps, key : Nat, rows : SUBSET Pulls, covered : BOOLEAN]

CacheTypeOK ==
  /\ revision \in Nat /\ held \subseteq Pulls /\ asked \in BOOLEAN /\ covered \in BOOLEAN
  /\ cache \in Seq(Entry)
  /\ Len(cache) <= MaxKept /\ busy \in BOOLEAN
  /\ request \in [Requests -> Entry]
  /\ since \in [Requests -> SUBSET Pulls] /\ writes \in 0..MaxWrites

CacheInit ==
  /\ revision = 0 /\ held = {} /\ asked = FALSE /\ covered = FALSE
  /\ cache = <<>> /\ busy = FALSE
  /\ request = [x \in Requests |-> Fresh] /\ since = [x \in Requests |-> {}]
  /\ writes = 0

-----------------------------------------------------------------------------
(* The importer, one transaction a step, each of which moves the revision. *)

Bump == revision' = revision + 1 /\ UNCHANGED <<cache, busy, request, since>>

Store(p) ==
  /\ p \notin held
  /\ held' = held \cup {p} /\ Bump
  /\ UNCHANGED <<asked, covered, writes>>

\* The month is covered when its last pull request is in; a cursor or a status is
\* saved, or details, which an answer also shows.
Cover ==
  /\ asked /\ held = Pulls /\ ~covered
  /\ covered' = TRUE /\ Bump
  /\ UNCHANGED <<held, asked, writes>>

Touch ==
  /\ writes < MaxWrites
  /\ writes' = writes + 1 /\ Bump
  /\ UNCHANGED <<held, asked, covered>>

-----------------------------------------------------------------------------
(* The cache.                                                              *)

Entries(k) == {n \in DOMAIN cache : cache[n].key = k}

\* An entry that has outlived its time is dropped when it is met.
Drop ==
  /\ \E n \in DOMAIN cache : cache' = RemoveAt(cache, n)
  /\ UNCHANGED <<revision, held, asked, covered, busy, request, since, writes>>

\* put: it replaces the entry of its key, and the ones used longest ago make room.
Kept(e) ==
  LET mine   == Entries(e.key)
      others == IF mine = {} THEN cache ELSE RemoveAt(cache, CHOOSE n \in mine : TRUE)
      all    == Append(others, e)
  IN  IF Len(all) <= MaxKept THEN all ELSE SubSeq(all, Len(all) - MaxKept + 1, Len(all))

-----------------------------------------------------------------------------
(* A request.                                                              *)

Reply(x, r) == request' = [request EXCEPT ![x] = r]
Same == UNCHANGED <<revision, held, asked, covered, writes>>

Arrive(x) ==
  /\ request[x].at = "new"
  /\ since' = [since EXCEPT ![x] = held]
  /\ Reply(x, [Fresh EXCEPT !.at = "look", !.key = revision])
  /\ Same /\ UNCHANGED <<cache, busy>>

\* A look into the cache, without the slot and again with it.
Look(x, step, missed) ==
  /\ request[x].at = step
  /\ \/ \E n \in Entries(request[x].key) :
          /\ Reply(x, [cache[n] EXCEPT !.at = "answered"])
          /\ cache' = Append(RemoveAt(cache, n), cache[n])
          /\ busy' = (busy /\ step = "look")
     \/ /\ Entries(request[x].key) = {}
        /\ Reply(x, [request[x] EXCEPT !.at = missed])
        /\ UNCHANGED <<cache, busy>>
  /\ Same /\ UNCHANGED since

\* analysis_capacity: one analysis at a time, the others are turned away.
Enter(x) ==
  /\ request[x].at = "wait"
  /\ busy' = TRUE
  /\ Reply(x, [request[x] EXCEPT !.at = IF busy THEN "refused" ELSE "lookAgain"])
  /\ Same /\ UNCHANGED <<cache, since>>

Rows(x) ==
  /\ request[x].at = "rows"
  /\ Reply(x, [request[x] EXCEPT !.at = "select", !.rows = held])
  /\ Same /\ UNCHANGED <<cache, busy, since>>

\* request_selection: a month that is not covered is asked for.
Select(x) ==
  /\ request[x].at = "select"
  /\ IF covered \/ asked THEN UNCHANGED <<asked, revision>>
     ELSE asked' = TRUE /\ revision' = revision + 1
  /\ Reply(x, [request[x] EXCEPT !.at = "latest"])
  /\ UNCHANGED <<held, covered, writes, cache, busy, since>>

\* Mutant: the rows read before go under the revision read after.
LatestKeepsRows(x) ==
  /\ request[x].at = "latest"
  /\ Reply(x, [request[x] EXCEPT !.at = "status", !.key = revision])
  /\ Same /\ UNCHANGED <<cache, busy, since>>

\* The revision moved: it is taken first, then the rows are read again.
Latest(x) ==
  /\ request[x].at = "latest"
  /\ IF revision = request[x].key THEN Reply(x, [request[x] EXCEPT !.at = "status"])
     ELSE Reply(x, [request[x] EXCEPT !.at = "reread", !.key = revision])
  /\ Same /\ UNCHANGED <<cache, busy, since>>

Reread(x) ==
  /\ request[x].at = "reread"
  /\ Reply(x, [request[x] EXCEPT !.at = "status", !.rows = held])
  /\ Same /\ UNCHANGED <<cache, busy, since>>

\* The status comes last.
Status(x) ==
  /\ request[x].at = "status"
  /\ Reply(x, [request[x] EXCEPT !.at = "put", !.covered = covered])
  /\ Same /\ UNCHANGED <<cache, busy, since>>

Put(x) ==
  /\ request[x].at = "put"
  /\ cache' = Kept(request[x]) /\ busy' = FALSE
  /\ Reply(x, [request[x] EXCEPT !.at = "answered"])
  /\ Same /\ UNCHANGED since

\* The next one comes.
Again(x) ==
  /\ request[x].at \in {"answered", "refused"}
  /\ Reply(x, Fresh) /\ since' = [since EXCEPT ![x] = {}]
  /\ Same /\ UNCHANGED <<cache, busy>>

-----------------------------------------------------------------------------
Serve(x) ==
  \/ Arrive(x) \/ Look(x, "look", "wait") \/ Enter(x) \/ Look(x, "lookAgain", "rows")
  \/ Rows(x) \/ Select(x) \/ Latest(x) \/ Reread(x) \/ Status(x) \/ Put(x) \/ Again(x)

CacheNext ==
  \/ \E p \in Pulls : Store(p)
  \/ Cover \/ Touch \/ Drop
  \/ \E x \in Requests : Serve(x)

CacheSpec == CacheInit /\ [][CacheNext]_cacheVars

-----------------------------------------------------------------------------
(* Properties.                                                             *)

\* An answer, kept or new, has every pull request that was stored when it was asked
\* for: what is kept under a revision is not older than it.
AnswersAreCurrent ==
  \A x \in Requests : request[x].at = "answered" => since[x] \subseteq request[x].rows

=============================================================================
