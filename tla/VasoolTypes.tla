------------------------------- MODULE VasoolTypes -------------------------------
(***************************************************************************)
(* The closed vocabularies of src/vasool/core/types.py that every other    *)
(* module speaks: interventions and the three sets the kernel sorts them   *)
(* into, channels, failure classes, denial codes and case statuses.        *)
(*                                                                         *)
(* An enum member is the string the code serialises.  The sets are written *)
(* the way the source builds them, so that HANDOFF_HUMAN is a contact, is  *)
(* gated and moves no money because the source says so.                    *)
(***************************************************************************)

RETRY_INTERVENTIONS == {"RETRY_SAME_RAIL", "RETRY_ALT_RAIL"}

\* The interventions that end in a hosted link the customer pays through.
LINK_INTERVENTIONS ==
  {"PAYMENT_LINK", "PART_PAYMENT_LINK", "INSTRUMENT_REFRESH", "MANDATE_REREGISTER"}

CONTACT_INTERVENTIONS == LINK_INTERVENTIONS \union {"HANDOFF_HUMAN"}

MONEY_MOVING == RETRY_INTERVENTIONS \union LINK_INTERVENTIONS

GATED_INTERVENTIONS == MONEY_MOVING \union {"HANDOFF_HUMAN"}

Intervention == GATED_INTERVENTIONS \union {"WAIT", "STOP"}

Channel == {"NONE", "SMS", "EMAIL", "WHATSAPP", "VOICE"}

FailureClass ==
  {"INSUFFICIENT_FUNDS", "ISSUER_DOWN", "RAIL_TIMEOUT", "INSTRUMENT_DEAD",
   "AUTH_ABANDONED", "AUTH_FAILED", "RISK_DECLINED", "LIMIT_EXCEEDED",
   "MANDATE_INVALID", "RESTRICTION", "UNKNOWN"}

CaseStatus ==
  {"OPEN", "RECOVERED", "STOPPED", "ABANDONED", "LOST", "DOUBLE_CHARGED"}

Denial ==
  {"ALREADY_COLLECTED", "SETTLEMENT_UNKNOWN", "DUPLICATE_ACTION",
   "AMOUNT_MISMATCH", "AMOUNT_EXCEEDS_ORDER", "AMOUNT_BELOW_FLOOR",
   "PART_PAYMENT_NOT_ALLOWED", "CURRENCY_MISMATCH", "CONSENT_WITHDRAWN",
   "CONTACT_BUDGET_EXCEEDED", "COOLING_OFF", "QUIET_HOURS", "FUTILE_RETRY",
   "HARMFUL_RETRY", "ATTEMPT_CAP_REACHED", "BELOW_STOPPING_THRESHOLD",
   "CHANNEL_NOT_PERMITTED", "HORIZON_EXCEEDED", "UNAUDITED"}
==================================================================================
