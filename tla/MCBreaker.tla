----------------------------- MODULE MCBreaker -----------------------------
(***************************************************************************)
(* The callers of the runs: the worker alone, or with an API request.      *)
(***************************************************************************)
EXTENDS Breaker

CONSTANTS worker, request

WorkerOnly == {worker}
Overlapping == {worker, request}
=============================================================================
