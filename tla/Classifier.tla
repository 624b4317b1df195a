------------------------------- MODULE Classifier --------------------------------
(***************************************************************************)
(* Who says what a failure was: the reason code, the issuer's prose, the   *)
(* two together, or a model.  The rules of diagnosis/fallback.py, the      *)
(* routing of diagnosis/router.py, and the evidence bench/generator.py     *)
(* makes up for a cause it knows.                                          *)
(*                                                                         *)
(* Of an error the modules see what the tables of fallback.py make of it:  *)
(* the class its reason code stands for and the class its message matches, *)
(* "UNKNOWN" where there is none.                                          *)
(***************************************************************************)
EXTENDS VasoolTypes

\* The class UNKNOWN of a code or a message is the None of the two classifiers.
Silent == "UNKNOWN"

Evidence == [code : FailureClass, message : FailureClass]

classify_from_code(e) == e.code
classify_from_message(e) == e.message

\* The reason code where it is unambiguous, then the prose, then UNKNOWN.
classify(e) == IF e.code # Silent THEN e.code ELSE e.message

confidence_of(e) ==
  IF e.code # Silent THEN 90 ELSE IF e.message # Silent THEN 84 ELSE 30

\* Where the two disagree, the prose.
classify_adjudicated(e) ==
  IF classify_from_code(e) = Silent
    THEN IF classify_from_message(e) # Silent THEN classify_from_message(e) ELSE classify(e)
  ELSE IF classify_from_message(e) \in {Silent, classify_from_code(e)}
    THEN classify_from_code(e)
  ELSE classify_from_message(e)

----------------------------------------------------------------------------------
(* The router.                                                             *)

Route == {"code", "conflict", "prose", "neither"}

decide_route(e) ==
  IF classify_from_code(e) = Silent
    THEN IF classify_from_message(e) # Silent THEN "prose" ELSE "neither"
  ELSE IF classify_from_message(e) \in {Silent, classify_from_code(e)} THEN "code"
  ELSE "conflict"

\* The routes on which the model is asked.
ESCALATION_MODES ==
  [conflict_and_prose |-> {"conflict", "prose", "neither"},
   conflict_only      |-> {"conflict"}]

----------------------------------------------------------------------------------
(* The benchmark's evidence.                                               *)

\* The ten causes a case can have.
CLEAN_REASON == FailureClass \ {Silent}

\* _build_error: the evidence for a cause in one of three styles.  What the tables
\* make of the message is a choice: "do not honour" says nothing, and a phrase may
\* match the needle of another class first.
build_error(cause, style, wrong, message) ==
  [code |-> IF style = "clean_code" THEN cause
            ELSE IF style = "generic_with_prose" THEN Silent
            ELSE wrong,
   message |-> message]

\* The style read back from the evidence and the true cause.
evidence_style(e, cause) ==
  IF e.code = Silent THEN "generic_prose"
  ELSE IF e.code = cause THEN "clean_code"
  ELSE "misleading"
==================================================================================
