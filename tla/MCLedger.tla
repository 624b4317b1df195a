--------------------------------- MODULE MCLedger --------------------------------
(***************************************************************************)
(* Ledger.tla with two payloads and three lines: enough to reorder, splice *)
(* and rewrite a chain in its middle, with a crash before and after.       *)
(***************************************************************************)
EXTENDS Ledger

CONSTANTS a, b

MCPayloads == {a, b}
==================================================================================
