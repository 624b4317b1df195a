------------------------------- MODULE AuditTrail --------------------------------
(***************************************************************************)
(* What the write-ahead ledger promises, with no process, no network and   *)
(* no crash in sight.  A decision is recorded before it can take effect,   *)
(* takes effect at most once, and is reported as executed only after it    *)
(* has taken effect.  Executor.tla is shown to implement this.             *)
(***************************************************************************)
CONSTANT Keys                 \* the idempotency keys a decision can carry

VARIABLES
  recorded,                   \* keys the ledger holds an intent for
  done,                       \* keys that took effect at the provider
  reported                    \* keys the ledger reports as executed

vars == <<recorded, done, reported>>

TypeOK == /\ recorded \subseteq Keys
          /\ done \subseteq Keys
          /\ reported \subseteq Keys

Init == recorded = {} /\ done = {} /\ reported = {}

\* Intents reach the ledger, and none ever leaves it.
Record == /\ recorded \subseteq recorded'
          /\ recorded' \subseteq Keys
          /\ UNCHANGED <<done, reported>>

\* The provider performs a decision; only a recorded one can get there.
Perform == /\ \E k \in recorded \ done : done' = done \union {k}
           /\ UNCHANGED <<recorded, reported>>

\* The ledger says a decision was executed, which must already be true.
Report == /\ \E k \in done \ reported : reported' = reported \union {k}
          /\ UNCHANGED <<recorded, done>>

Next == Record \/ Perform \/ Report

Spec == Init /\ [][Next]_vars
==================================================================================
