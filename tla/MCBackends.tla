------------------------------- MODULE MCBackends --------------------------------
(***************************************************************************)
(* Backends.tla on a small instance: a link, and a retry and a handoff,    *)
(* which neither backend carries out.                                      *)
(***************************************************************************)
EXTENDS Backends

Link == [intervention |-> "PAYMENT_LINK", ordinal |-> 0]

MCKeys == {Link,
           [intervention |-> "RETRY_SAME_RAIL", ordinal |-> 0],
           [intervention |-> "HANDOFF_HUMAN", ordinal |-> 0]}
==================================================================================
