--------------------------------- MODULE Backend ---------------------------------
(***************************************************************************)
(* What executor/backend.py promises the executor of a payments backend,   *)
(* whatever lies behind it.  There is one call at a time: a settlement     *)
(* read, a write under an idempotency key, or the question what a key did. *)
(* A write may take effect at any time after it has been sent, also after  *)
(* its call has returned; money and effects never go away again.           *)
(***************************************************************************)
EXTENDS Naturals

CONSTANT Keys        \* the idempotency keys

VARIABLES
  effects,           \* keys that have taken effect
  settled,           \* the order is paid
  pending,           \* writes that may still take effect: [call, key]
  performed,         \* the calls whose own write took effect
  call,              \* the call in progress, or the last one: [op, number, key]
  before,            \* what was true when it began: [settled, landed]
  result             \* what it returned or raised; "none" while in progress

vars == <<effects, settled, pending, performed, call, before, result>>

Operation == {"is_settled", "execute", "reconcile"}

Init ==
  /\ effects = {} /\ pending = {} /\ performed = {}
  /\ settled = FALSE
  /\ call.op = "none" /\ call.number = 0
  /\ before = [settled |-> FALSE, landed |-> FALSE]
  /\ result = "none"

Begin(op, key) ==
  /\ call.op = "none"
  /\ call' = [op |-> op, number |-> call.number + 1, key |-> key]
  /\ before' = [settled |-> settled, landed |-> key \in effects]
  /\ result' = "none"
  /\ UNCHANGED <<effects, settled, pending, performed>>

\* The write of an execute leaves.
Write ==
  /\ call.op = "execute"
  /\ pending' = pending \union {[call |-> call.number, key |-> call.key]}
  /\ UNCHANGED <<effects, settled, performed, call, before, result>>

\* A write takes effect, once for a key.
Perform(w) ==
  /\ w.key \notin effects
  /\ effects' = effects \union {w.key}
  /\ performed' = performed \union {w.call}
  /\ pending' = pending \ {w}
  /\ UNCHANGED <<settled, call, before, result>>

\* Writes are refused or lost.
Lose ==
  /\ pending' \in SUBSET pending
  /\ UNCHANGED <<effects, settled, performed, call, before, result>>

\* The order is paid, through a link or by another route.
Pay ==
  /\ settled' = TRUE
  /\ UNCHANGED <<effects, pending, performed, call, before, result>>

----------------------------------------------------------------------------------
(* What an operation may say, and what it means when it says it.  What was *)
(* absent when a call began was absent at some moment of the call.         *)

\* "It must never return False to mean 'could not tell'."
MayAnswer_is_settled(r) ==
  \/ r = "settled" /\ settled
  \/ r = "unsettled" /\ ~before.settled
  \/ r = "SettlementUnknown"

\* ProviderError: "A write definitively failed. Safe to treat as a non-event."
\* UnknownOutcome: "The action may have taken effect."
MayAnswer_execute(r) ==
  \/ r = "executed" /\ call.key \in effects
  \/ /\ r \in {"ProviderError", "noaction"}
     /\ call.number \notin performed
     /\ \A w \in pending : w.call # call.number
  \/ r \in {"UnknownOutcome", "ReconciliationUnknown"}

\* "None: it provably did not land."
MayAnswer_reconcile(r) ==
  \/ r = "executed" /\ call.key \in effects
  \/ r = "absent" /\ ~before.landed
  \/ r = "ReconciliationUnknown"

Return ==
  /\ call.op # "none"
  /\ call' = [call EXCEPT !.op = "none"]
  /\ CASE call.op = "is_settled" -> MayAnswer_is_settled(result')
       [] call.op = "execute"    -> MayAnswer_execute(result')
       [] call.op = "reconcile"  -> MayAnswer_reconcile(result')
  /\ UNCHANGED <<effects, settled, pending, performed, before>>

Next ==
  \/ \E op \in Operation, key \in Keys : Begin(op, key)
  \/ Write
  \/ \E w \in pending : Perform(w)
  \/ Lose \/ Pay \/ Return

Spec == Init /\ [][Next]_vars
==================================================================================
