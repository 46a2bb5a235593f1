------------------------------ MODULE Breaker ------------------------------
(***************************************************************************)
(* The durable circuit of one provider (automation/providers.py, request): *)
(* the worker and the API's request threads read it before a call and      *)
(* write it back after the answer, from the copy they read.                *)
(*                                                                         *)
(* Time is a flag: a delay that was announced is "later" until it passed.  *)
(* Counts above Strikes behave alike and are not told apart.  Names that   *)
(* HandoffRecovery has too say "circuit": one module proves about both.    *)
(***************************************************************************)
EXTENDS Integers

CONSTANT Callers    \* tasks that call the provider at the same time

ASSUME CallersAssumption == Callers # {}

VARIABLES
  circuit,   \* memory["breaker:<provider>"]
  call,      \* for every caller: the step, method and copy of the circuit
  streak,    \* history: failures since a success or a probe, up to Strikes
  overlapped \* history: two calls were under way at the same time

circuitVars == <<circuit, call, streak, overlapped>>

Strikes   == 3
Methods   == {"GET", "POST"}
Immediate == {"credits", "authentication", "rate_limit"}
Holding   == {"credits", "authentication"}
Reasons   == Immediate \cup {"unavailable", "none"}

\* No retry_at: the circuit waits for somebody, not for a time.
Delays == {"none", "later", "passed"}

Circuits == [open : BOOLEAN, reason : Reasons, failures : 0..Strikes, retry : Delays]
Closed   == [open |-> FALSE, reason |-> "none", failures |-> 0, retry |-> "none"]
Resting  == [step |-> "rest", method |-> "GET", copy |-> Closed]

CircuitTypeOK ==
  /\ circuit \in Circuits
  /\ circuit.open /\ circuit.retry = "none" => circuit.reason \in Holding
  /\ call \in [Callers -> [step : {"rest", "sent", "suspended"},
                           method : Methods, copy : Circuits]]
  /\ streak \in 0..Strikes
  /\ overlapped \in BOOLEAN

CircuitInit ==
  /\ circuit = Closed
  /\ call = [c \in Callers |-> Resting]
  /\ streak = 0
  /\ overlapped = FALSE

Capped(n) == IF n > Strikes THEN Strikes ELSE n
Rests(c) == call' = [call EXCEPT ![c] = Resting]

-----------------------------------------------------------------------------
\* Mutant: a hold without a time counts as a delay that passed.
RefusesUntilPassed(method) ==
  /\ circuit.open
  /\ circuit.reason # "credits" \/ method # "GET"
  /\ circuit.retry = "later"

\* A credit hold stops paid writes and keeps observations alive.
Refuses(method) ==
  /\ circuit.open
  /\ circuit.reason # "credits" \/ method # "GET"
  /\ circuit.retry # "passed"

\* request: the circuit is read, then the provider is called.
Ask(c) ==
  /\ call[c].step = "rest"
  /\ \E m \in Methods :
       /\ ~Refuses(m)
       /\ call' = [call EXCEPT ![c] = [step |-> "sent", method |-> m, copy |-> circuit]]
  /\ overlapped' = (overlapped \/ \E d \in Callers \ {c} : call[d].step # "rest")
  /\ UNCHANGED <<circuit, streak>>

\* Mutant: the third failure is not counted yet.
AfterLate(copy, reason) ==
  LET n == Capped(copy.failures + 1)
  IN  IF reason \in Immediate \/ copy.failures = Strikes
      THEN [open |-> TRUE, reason |-> reason, failures |-> n,
            retry |-> IF reason \in Holding THEN "none" ELSE "later"]
      ELSE [open |-> FALSE, reason |-> reason, failures |-> n, retry |-> "none"]

\* failed: what a failure for this reason makes of the copy.
After(copy, reason) ==
  LET n == Capped(copy.failures + 1)
  IN  IF reason \in Immediate \/ n = Strikes
      THEN [open |-> TRUE, reason |-> reason, failures |-> n,
            retry |-> IF reason \in Holding THEN "none" ELSE "later"]
      ELSE [open |-> FALSE, reason |-> reason, failures |-> n, retry |-> "none"]

\* An error that speaks about the provider, whatever becomes of its effect.
CallFails(c) ==
  /\ call[c].step = "sent"
  /\ \E reason \in Reasons \ {"none"} : circuit' = After(call[c].copy, reason)
  /\ streak' = Capped(streak + 1)
  /\ Rests(c)
  /\ UNCHANGED overlapped

\* A request the provider rejects for what it says.
Rejected(c) ==
  /\ call[c].step = "sent"
  /\ Rests(c)
  /\ UNCHANGED <<circuit, streak, overlapped>>

\* Mutant: a success closes nothing.
SucceedsQuietly(c) ==
  /\ call[c].step = "sent"
  /\ circuit' = [circuit EXCEPT !.failures = 0]
  /\ streak' = 0
  /\ \/ Rests(c)
     \/ call[c].method = "GET" /\ call' = [call EXCEPT ![c].step = "suspended"]
  /\ UNCHANGED overlapped

\* A success closes the circuit, unless the copy holds for credits.  The answer
\* may be a session the provider suspended for credits.
Succeeds(c) ==
  /\ call[c].step = "sent"
  /\ circuit' = IF call[c].copy.reason = "credits" THEN circuit ELSE Closed
  /\ streak' = 0
  /\ \/ Rests(c)
     \/ call[c].method = "GET" /\ call' = [call EXCEPT ![c].step = "suspended"]
  /\ UNCHANGED overlapped

\* Engine.poll: a session suspended for credits holds the provider's circuit.
Suspends(c) ==
  /\ call[c].step = "suspended"
  /\ circuit' = [open |-> TRUE, reason |-> "credits", failures |-> 1, retry |-> "none"]
  /\ Rests(c)
  /\ UNCHANGED <<streak, overlapped>>

\* The process of the caller stops.
Dies(c) ==
  /\ call[c].step # "rest"
  /\ Rests(c)
  /\ UNCHANGED <<circuit, streak, overlapped>>

RetryDue ==
  /\ circuit.retry = "later"
  /\ circuit' = [circuit EXCEPT !.retry = "passed"]
  /\ UNCHANGED <<call, streak, overlapped>>

\* "Check provider again": the operator deletes the record.
Probe ==
  /\ circuit' = Closed /\ streak' = 0
  /\ UNCHANGED <<call, overlapped>>

-----------------------------------------------------------------------------
Calls(c) == Ask(c) \/ CallFails(c) \/ Rejected(c) \/ Succeeds(c) \/ Suspends(c) \/ Dies(c)

CircuitNext == (\E c \in Callers : Calls(c)) \/ RetryDue \/ Probe

CircuitSpec == CircuitInit /\ [][CircuitNext]_circuitVars

\* Providers are called again and again, and answer well at some time.
FairCircuitSpec ==
  /\ CircuitSpec /\ WF_circuitVars(RetryDue)
  /\ \A c \in Callers :
       SF_circuitVars(Ask(c)) /\ SF_circuitVars(Succeeds(c)) /\ WF_circuitVars(Suspends(c))

-----------------------------------------------------------------------------
(* Properties.                                                             *)

Hold(reason) == circuit.open /\ circuit.retry = "none" /\ circuit.reason = reason

\* Three failures in a row open the circuit, also when a hold, a probe or a
\* suspended session came between (RESILIENCE.md, "after three failures"), as
\* long as the worker's calls and the requests' have taken turns.
ThreeStrikes == streak = Strikes => circuit.open \/ overlapped

\* What stopped for expired credentials goes on after an operator's probe only
\* (RESILIENCE.md, "require an operator probe after repair"), as long as no two
\* calls overlapped: a call writes back the circuit it read before.
AuthenticationHeld ==
  [][Hold("authentication") => Hold("authentication")' \/ Probe \/ overlapped]_circuitVars

\* Exhausted credits, too, hold until an operator's probe or a reason that holds as
\* much (RESILIENCE.md, the same sentence).
CreditHeld ==
  [][Hold("credits") => Hold("credits")' \/ Hold("authentication")' \/ Probe \/ overlapped]_circuitVars

\* A circuit opened by an outage or a rate limit does not need anybody: a later
\* call finds the provider well and closes it, or finds a reason to hold.
RecoversByItself ==
  circuit.open /\ circuit.retry # "none" ~> ~circuit.open \/ circuit.retry = "none"
=============================================================================
