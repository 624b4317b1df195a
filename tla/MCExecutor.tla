-------------------------------- MODULE MCExecutor -------------------------------
(***************************************************************************)
(* Executor.tla on a small instance: a retry, a link and a handoff, caps   *)
(* of one or two, and enough intents and crashes to reuse a key, to exceed *)
(* a cap if one were lost, and to crash in flight and come back.           *)
(***************************************************************************)
EXTENDS Executor

MCActions ==
  {[intervention |-> "RETRY_SAME_RAIL", amount |-> 2],
   [intervention |-> "PAYMENT_LINK",    amount |-> 2],
   [intervention |-> "HANDOFF_HUMAN",   amount |-> 2]}
==================================================================================
