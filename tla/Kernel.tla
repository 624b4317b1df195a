---------------------------------- MODULE Kernel ---------------------------------
(***************************************************************************)
(* The Gate of src/vasool/kernel: the seven pure checks I1..I7, each the   *)
(* set of denials it returns (at most one), and the review that merges     *)
(* them.  The policy of config/policy.yaml, the costs and the priors are   *)
(* constants.                                                              *)
(*                                                                         *)
(* Time is in ticks of five minutes.  Tick 0 is five minutes after the     *)
(* payment failed, which is when the runner starts a case, so that "more   *)
(* than h hours after the failure" is t >= h * Hour.  Amounts are in whole *)
(* rupees, costs in paise, ratios in percent, and a decayed prior in parts *)
(* per million, rounded down where the code keeps a float.                 *)
(*                                                                         *)
(* p is a proposal, c a case, e the failure event, t the tick of review.   *)
(***************************************************************************)
EXTENDS VasoolTypes, Integers, FiniteSets, Sequences

CONSTANTS
  MaxContacts,        \* max_contacts_per_window
  WindowHours,        \* contact_window_hours
  GapHours,           \* min_hours_between_contacts
  QuietStart,         \* quiet_hours_start_local
  QuietEnd,           \* quiet_hours_end_local
  PermittedChannels,  \* permitted_channels
  MaxMoneyActions,    \* max_money_actions
  MaxAutoRetries,     \* max_auto_retries
  HorizonHours,       \* horizon_days, in hours
  AllowPart,          \* allow_part_payment
  FloorPercent,       \* absolute_part_payment_floor_ratio
  Currencies,         \* permitted_currencies
  MinProbPercent,     \* min_success_probability
  MinEvRatio,         \* min_ev_to_cost_ratio
  Prior,              \* priors.yaml: [class -> [intervention -> percent]]
  Decay,              \* _attempt_decay, <<numerator, denominator>>
  ActionCost,         \* costs.yaml: [intervention -> paise]
  ChannelCost         \* costs.yaml: [channel -> paise]

ASSUME PolicyAssumption ==
  /\ MaxContacts \in Nat /\ WindowHours \in Nat /\ GapHours \in Nat
  /\ QuietStart \in 0..23 /\ QuietEnd \in 0..23
  /\ PermittedChannels \subseteq Channel
  /\ MaxMoneyActions \in Nat \ {0} /\ MaxAutoRetries \in Nat /\ HorizonHours \in Nat
  /\ AllowPart \in BOOLEAN /\ FloorPercent \in 1..100
  /\ MinProbPercent \in Nat /\ MinEvRatio \in Nat \ {0}
  /\ Prior \in [FailureClass -> [GATED_INTERVENTIONS -> 0..100]]
  /\ Decay \in (Nat \X (Nat \ {0}))
  /\ ActionCost \in [GATED_INTERVENTIONS -> Nat] /\ ChannelCost \in [Channel -> Nat]

----------------------------------------------------------------------------------
(* The documents the checks read.                                          *)

Hour == 12

\* A failed payment.  code is the class the provider's reason code stands for and
\* message the class the issuer's prose speaks of, UNKNOWN if they say nothing.
Event ==
  [amount : Nat, currency : STRING, code : FailureClass, message : FailureClass,
   altRail : BOOLEAN, optedOut : BOOLEAN, dnd : BOOLEAN, allowsPart : BOOLEAN,
   floorPercent : 0..100, preferred : Seq(Channel),
   localHour : 0..23]             \* the customer's local hour at tick 0

\* A proposal; delay is the time to wait before it is due.
Proposal ==
  [intervention : Intervention, channel : Channel, amount : Int, currency : STRING,
   class : FailureClass, confidence : Int, source : {"llm", "fallback", "rules", "none"},
   delay : Nat, ordinal : Nat]

\* idempotency_seed: the case is the same for every key here.
action_key(p) == [intervention |-> p.intervention, amount |-> p.amount,
                  currency |-> p.currency, ordinal |-> p.ordinal]

----------------------------------------------------------------------------------
\* Mutant of I1: the case's own belief is all that is consulted.
I1_cached(p, c, live) ==
  IF p.intervention \in GATED_INTERVENTIONS /\ c.collected > 0
    THEN {"ALREADY_COLLECTED"} ELSE {}

\* I1, on a fresh read of the provider and on the case's own belief.
I1(p, c, live) ==
  IF p.intervention \in GATED_INTERVENTIONS /\ (live \/ c.collected > 0)
    THEN {"ALREADY_COLLECTED"} ELSE {}

I2(p, c) ==
  IF p.intervention \in GATED_INTERVENTIONS /\ action_key(p) \in c.keys
    THEN {"DUPLICATE_ACTION"} ELSE {}

\* The least part payment: a fraction of the order, rounded down.
floor_percent(e) == IF e.floorPercent > FloorPercent THEN e.floorPercent ELSE FloorPercent

PartFloor(e) == (e.amount * floor_percent(e)) \div 100

I3(p, e) ==
  IF p.currency # e.currency \/ p.currency \notin Currencies
    THEN {"CURRENCY_MISMATCH"}
  ELSE IF p.amount > e.amount
    THEN {"AMOUNT_EXCEEDS_ORDER"}
  ELSE IF p.amount < 0
    THEN {"AMOUNT_MISMATCH"}
  ELSE IF p.intervention = "PART_PAYMENT_LINK"
    THEN IF ~(AllowPart /\ e.allowsPart) THEN {"PART_PAYMENT_NOT_ALLOWED"}
         ELSE IF p.amount < PartFloor(e) THEN {"AMOUNT_BELOW_FLOOR"}
         ELSE {}
  ELSE IF p.intervention \in GATED_INTERVENTIONS /\ p.amount # e.amount
    THEN {"AMOUNT_MISMATCH"}
  ELSE {}

local_hour(e, t) == (e.localHour + t \div Hour) % 24

\* Quiet hours that wrap midnight, and quiet hours that do not.
quiet(hour) ==
  IF QuietStart > QuietEnd
    THEN hour >= QuietStart \/ hour < QuietEnd
    ELSE QuietStart <= hour /\ hour < QuietEnd

in_quiet_hours(e, t) == quiet(local_hour(e, t))

\* The contacts of the case, oldest first, are the ticks they were made at.
contacts_since(c, since) == {i \in 1..Len(c.contacts) : c.contacts[i] >= since}

I4(p, c, e, t) ==
  IF p.intervention \notin CONTACT_INTERVENTIONS
    THEN {}
  ELSE IF p.channel \notin PermittedChannels
    THEN {"CHANNEL_NOT_PERMITTED"}
  ELSE IF Cardinality(contacts_since(c, t - WindowHours * Hour)) >= MaxContacts
    THEN {"CONTACT_BUDGET_EXCEEDED"}
  ELSE IF c.contacts # <<>> /\ t - c.contacts[Len(c.contacts)] < GapHours * Hour
    THEN {"COOLING_OFF"}
  ELSE IF in_quiet_hours(e, t)
    THEN {"QUIET_HOURS"}
  ELSE {}

I5(p, e) ==
  IF /\ p.intervention \in CONTACT_INTERVENTIONS
     /\ e.optedOut \/ (e.dnd /\ p.channel \in {"SMS", "VOICE"})
    THEN {"CONSENT_WITHDRAWN"} ELSE {}

\* raw_evidence.read: the provider's code, never the model's diagnosis.
retry_is_futile(e) == e.code \in {"INSTRUMENT_DEAD", "MANDATE_INVALID", "RESTRICTION"}
retry_is_harmful(e) == e.code = "RISK_DECLINED"

I6(p, c, e) ==
  IF p.intervention \notin RETRY_INTERVENTIONS
    THEN {}
  ELSE IF retry_is_harmful(e)
    THEN {"HARMFUL_RETRY"}
  ELSE IF \/ p.intervention = "RETRY_SAME_RAIL" /\ retry_is_futile(e)
          \/ p.intervention = "RETRY_ALT_RAIL" /\ ~e.altRail
    THEN {"FUTILE_RETRY"}
  ELSE IF c.retries >= MaxAutoRetries
    THEN {"ATTEMPT_CAP_REACHED"}
  ELSE {}

\* Stated confidence only attenuates.
Clamped(confidence) ==
  IF confidence < 0 THEN 0 ELSE IF confidence > 100 THEN 100 ELSE confidence

\* The prior of the class, decayed once for each attempt spent.
success_prior(p, attempts) ==
  LET decayed[n \in 0..attempts] ==
        IF n = 0 THEN Prior[p.class][p.intervention] * 10000
                 ELSE (decayed[n - 1] * Decay[1]) \div Decay[2]
  IN  (decayed[attempts] * (IF p.source = "llm" THEN Clamped(p.confidence) ELSE 100))
        \div 100

\* In paise.
expected_value(p, attempts) == (success_prior(p, attempts) * p.amount) \div 10000

cost_of(p) == ActionCost[p.intervention] + ChannelCost[p.channel]

\* Mutant of PastHorizon: nothing is ever too late.
PastHorizon_never(t) == FALSE

PastHorizon(t) == t >= HorizonHours * Hour

I7(p, c, t) ==
  LET n == c.attempts
  IN  IF PastHorizon(t)
        THEN {"HORIZON_EXCEEDED"}
      ELSE IF p.intervention \notin GATED_INTERVENTIONS
        THEN {}
      ELSE IF n >= MaxMoneyActions
        THEN {"ATTEMPT_CAP_REACHED"}
      ELSE IF \/ success_prior(p, n) < MinProbPercent * 10000
              \/ cost_of(p) > 0 /\ expected_value(p, n) < cost_of(p) * MinEvRatio
        THEN {"BELOW_STOPPING_THRESHOLD"}
      ELSE {}

----------------------------------------------------------------------------------
\* Mutant of denials: an order whose settlement cannot be read is taken for unpaid.
denials_default_unsettled(p, c, e, t, readable, settled) ==
  UNION {I1(p, c, readable /\ settled), I2(p, c), I3(p, e), I4(p, c, e, t),
         I5(p, e), I6(p, c, e), I7(p, c, t)}

\* Gate.review: every denial, not just the first.  settled is the live read; a
\* read that failed denies whatever moves money and is taken for "not settled"
\* otherwise.
denials(p, c, e, t, readable, settled) ==
  IF ~readable /\ p.intervention \in MONEY_MOVING
    THEN {"SETTLEMENT_UNKNOWN"}
    ELSE UNION {I1(p, c, readable /\ settled), I2(p, c), I3(p, e), I4(p, c, e, t),
                I5(p, e), I6(p, c, e), I7(p, c, t)}

\* gate.repairable: only what a different proposal could fix.
repairable(ds) ==
  /\ ds # {}
  /\ ds \intersect {"ALREADY_COLLECTED", "SETTLEMENT_UNKNOWN", "CONSENT_WITHDRAWN",
                    "CONTACT_BUDGET_EXCEEDED", "ATTEMPT_CAP_REACHED",
                    "HORIZON_EXCEEDED", "DUPLICATE_ACTION"} = {}
==================================================================================
