----------------------------- MODULE CircuitBreaker ------------------------------
(***************************************************************************)
(* The circuit breaker of diagnosis/llm.py as operators on its state: the  *)
(* failures in a row, whether it is open, and the calls skipped since.  It *)
(* is open until a cool-down has run out or enough calls were skipped for  *)
(* one to be let through as a probe.                                       *)
(***************************************************************************)
EXTENDS Naturals

CONSTANTS
  Threshold,         \* threshold: failures in a row that open a breaker
  ProbeAfterSkips    \* probe_after_skips

ASSUME BreakerAssumption == {Threshold, ProbeAfterSkips} \subseteq Nat \ {0}

\* opened says whether opened_at is set, and whether the cool-down has run out since.
Breaker ==
  [failures : Nat, opened : {"no", "yes", "cooled"}, skipped : 0..(ProbeAfterSkips - 1)]

Closed == [failures |-> 0, opened |-> "no", skipped |-> 0]

\* Mutant of Skips: only the clock ends an open state.
Skips_by_clock(b) == b.opened = "yes"

\* is_open, a property that counts: what it answers ...
Skips(b) == b.opened = "yes" /\ b.skipped + 1 < ProbeAfterSkips

\* Mutant of AfterAsking: a probe does not start the count again.
AfterAsking_counts_on(b) ==
  IF b.opened = "cooled" THEN Closed ELSE [b EXCEPT !.skipped = @ + 1]

\* Mutant of AfterAsking: a probe leaves the count where it is.
AfterAsking_counted_out(b) ==
  IF b.opened = "cooled" THEN Closed
  ELSE [b EXCEPT !.skipped = IF Skips(b) THEN @ + 1 ELSE @]

\* ... and the breaker after it.
AfterAsking(b) ==
  IF b.opened = "cooled" THEN Closed
  ELSE [b EXCEPT !.skipped = IF Skips(b) THEN @ + 1 ELSE 0]

record_failure(b) ==
  [b EXCEPT !.failures = @ + 1,
            !.opened   = IF b.failures + 1 >= Threshold /\ @ = "no" THEN "yes" ELSE @]
==================================================================================
