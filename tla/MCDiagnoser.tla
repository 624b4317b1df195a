------------------------------- MODULE MCDiagnoser -------------------------------
(***************************************************************************)
(* Diagnoser.tla on a small instance: a case whose code is believed, one   *)
(* whose code and prose disagree, and one reason for a repair.             *)
(***************************************************************************)
EXTENDS Diagnoser

MCCases == {[code |-> "AUTH_FAILED", message |-> "AUTH_FAILED"],
            [code |-> "ISSUER_DOWN", message |-> "INSUFFICIENT_FUNDS"]}
==================================================================================
