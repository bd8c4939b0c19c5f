---------------------------- MODULE WorkerBackoff ----------------------------
(***************************************************************************)
(* retryBackoffAt of the worker failure policy: exponential backoff with   *)
(* a floor of one second under the configured delays.                      *)
(***************************************************************************)
EXTENDS Integers

LOCAL Larger(a, b) == IF a >= b THEN a ELSE b
LOCAL Smaller(a, b) == IF a <= b THEN a ELSE b

\* The delay after an attempt, for the configured base and maximum delay (in seconds).
BackoffDelay(base, max, attemptCount) ==
  LET baseSeconds == Larger(1, base)
      maxSeconds == Larger(baseSeconds, max)
  IN  Smaller(maxSeconds, baseSeconds * 2 ^ Larger(0, attemptCount - 1))
==============================================================================
