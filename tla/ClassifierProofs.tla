----------------------------- MODULE ClassifierProofs ----------------------------
(***************************************************************************)
(* What the classifiers and the router are to each other, for every        *)
(* evidence the benchmark can make up, and for every evidence at all.      *)
(***************************************************************************)
EXTENDS Classifier, TLAPS

\* The router's conflicts are exactly the cases in which believing the prose gives
\* another class than believing the code.  router.py:46-52, fallback.py:182-199.
LEMMA ConflictIsDisagreement ==
  ASSUME NEW e \in Evidence
  PROVE  decide_route(e) = "conflict" <=> classify(e) # classify_adjudicated(e)
BY DEF decide_route, classify, classify_adjudicated, classify_from_code,
       classify_from_message, Silent

\* A model call the router saves costs nothing against the adjudicating rules: in
\* either mode, a case it does not escalate has the class the rules with
\* adjudication give it.  router.py:112-122.
THEOREM UnaskedIsAdjudicated ==
  \A e \in Evidence : \A mode \in DOMAIN ESCALATION_MODES :
    decide_route(e) \notin ESCALATION_MODES[mode] => classify(e) = classify_adjudicated(e)
<1> SUFFICES ASSUME NEW e \in Evidence, NEW mode \in DOMAIN ESCALATION_MODES,
                    decide_route(e) \notin ESCALATION_MODES[mode]
             PROVE  classify(e) = classify_adjudicated(e)
  OBVIOUS
<1>1. "conflict" \in ESCALATION_MODES[mode]
  BY DEF ESCALATION_MODES
<1>2. decide_route(e) # "conflict"
  BY <1>1
<1> QED
  BY <1>2, ConflictIsDisagreement

\* classify.py sorts its scores by the style it reads back from the evidence; for
\* every cause, style and message that is the style the generator chose.
\* generator.py:105-120, classify.py:46-54.
LEMMA StyleIsReadBack ==
  ASSUME NEW cause \in CLEAN_REASON, NEW wrong \in CLEAN_REASON \ {cause},
         NEW message \in FailureClass
  PROVE  /\ evidence_style(build_error(cause, "clean_code", wrong, message), cause)
              = "clean_code"
         /\ evidence_style(build_error(cause, "generic_with_prose", wrong, message), cause)
              = "generic_prose"
         /\ evidence_style(build_error(cause, "misleading", wrong, message), cause)
              = "misleading"
BY DEF evidence_style, build_error, CLEAN_REASON, Silent

\* router.py:4-7: the rules are perfect where the code states the cause and score
\* zero where it contradicts the message; the adjudicating rules score there exactly
\* where the message is read right.  Such a case is a conflict to the router, unless
\* the message says nothing or matches the class of the wrong code: then the route is
\* "code", on which the lookup table is called perfect.
THEOREM BenchmarkFacts ==
  \A cause \in CLEAN_REASON : \A wrong \in CLEAN_REASON \ {cause} :
    \A message \in FailureClass :
      LET clean == build_error(cause, "clean_code", wrong, message)
          misleading == build_error(cause, "misleading", wrong, message)
      IN  /\ classify(clean) = cause
          /\ classify(misleading) # cause
          /\ classify_adjudicated(misleading) = cause <=> message = cause
          /\ message = cause => decide_route(misleading) = "conflict"
          /\ decide_route(misleading) = "code" <=> message \in {Silent, wrong}
<1> TAKE cause \in CLEAN_REASON
<1> TAKE wrong \in CLEAN_REASON \ {cause}
<1> TAKE message \in FailureClass
<1> DEFINE clean == build_error(cause, "clean_code", wrong, message)
           misleading == build_error(cause, "misleading", wrong, message)
<1>1. clean.code = cause /\ misleading.code = wrong /\ misleading.message = message
  BY DEF build_error
<1>2. cause # Silent /\ wrong # Silent /\ wrong # cause
  BY DEF CLEAN_REASON
<1>3. classify(clean) = cause /\ classify(misleading) = wrong
  BY <1>1, <1>2 DEF classify
<1> HIDE DEF clean, misleading
<1>4. classify_adjudicated(misleading) = IF message \in {Silent, wrong} THEN wrong ELSE message
  BY <1>1, <1>2 DEF classify_adjudicated, classify_from_code, classify_from_message
<1>5. decide_route(misleading) = IF message \in {Silent, wrong} THEN "code" ELSE "conflict"
  BY <1>1, <1>2 DEF decide_route, classify_from_code, classify_from_message
<1> QED
  BY <1>2, <1>3, <1>4, <1>5 DEF clean, misleading
==================================================================================
