--------------------------- MODULE MCApiKeyAdmission ---------------------------
(* Small instances of ApiKeyAdmission. *)
EXTENDS ApiKeyAdmission, TLC

CONSTANTS r1, r2, r3

RequestSymmetry == Permutations(Requests)

Limit(rpm, tpm, conc, cap) ==
  [requestsPerMinute |-> rpm, tokensPerMinute |-> tpm, maxConcurrency |-> conc,
   queueCapacity |-> cap]

(* A queue for two under a rate limit and a token budget, and an operator   *)
(* who raises the concurrency, shortens the queue or removes every limit.  *)
QueueLimits ==
  {Limit(2, 2, 1, 2), Limit(0, 2, 2, 1), Limit(0, 0, 0, 0)}
=============================================================================
