--------------------------------- MODULE Planner --------------------------------
(***************************************************************************)
(* The deterministic diagnosers: the cron schedule of bench/arms/base.py   *)
(* and the rules of diagnosis/fallback.py, which are both a baseline of    *)
(* their own and what a model's failure degrades to.  The planner has its  *)
(* own versions of the kernel's checks; whether they agree with the kernel *)
(* is a question for Runner.                                               *)
(***************************************************************************)
EXTENDS Kernel, Classifier

CONSTANT HandoffFloor   \* HANDOFF_FLOOR_PAISE, in rupees

ASSUME PlannerAssumption == HandoffFloor \in Nat

----------------------------------------------------------------------------------
\* Mutant of dnd_blocked: the do-not-disturb register stops calls only.
dnd_blocked_calls(e) == IF e.dnd THEN {"VOICE"} ELSE {}

dnd_blocked(e) == IF e.dnd THEN {"SMS", "VOICE"} ELSE {}

\* The least of a set of numbers.
First(S) == CHOOSE i \in S : \A j \in S : i <= j

\* The merchant's preference first, then ours, then EMAIL whatever the policy says.
pick_channel(e) ==
  LET order == e.preferred \o <<"WHATSAPP", "EMAIL", "SMS">>
      usable == {i \in 1..Len(order) : order[i] \in PermittedChannels \ dnd_blocked(e)}
  IN  IF usable = {} THEN "EMAIL" ELSE order[First(usable)]

\* Mutant of outreach_permitted: the cooling-off, without the budget of the window.
outreach_permitted_any_number(c, e, t) ==
  /\ ~e.optedOut
  /\ c.contacts # <<>> => t - c.contacts[Len(c.contacts)] >= GapHours * Hour

outreach_permitted(c, e, t) ==
  /\ ~e.optedOut
  /\ Cardinality(contacts_since(c, t - WindowHours * Hour)) < MaxContacts
  /\ c.contacts # <<>> => t - c.contacts[Len(c.contacts)] >= GapHours * Hour

\* The first of fourteen tries that falls between ten and twenty, local time; the
\* fifteenth hour is taken unseen.
next_sane_send_time(e, t) ==
  LET sane == {k \in 0..13 : local_hour(e, t + k * Hour) \in 10..19}
  IN  t + Hour * (IF sane = {} THEN 14 ELSE First(sane))

part_amount(e) ==
  (e.amount * (IF floor_percent(e) > 50 THEN floor_percent(e) ELSE 50)) \div 100

----------------------------------------------------------------------------------
(* plan: cause determines cure.                                            *)

\* Minutes in ticks.
Minutes(n) == n \div 5

\* The step of the ladder for a class after n executed actions: what to do, and
\* how long to wait before.
cure(class, n, e) ==
  CASE class = "RISK_DECLINED" -> <<"STOP", 0>>
    [] class = "INSUFFICIENT_FUNDS" ->
         IF n = 0 THEN <<"RETRY_SAME_RAIL", 72 * Hour>>
         ELSE IF n = 1 THEN <<"RETRY_SAME_RAIL", 96 * Hour>>
         ELSE IF n = 2 /\ e.allowsPart THEN <<"PART_PAYMENT_LINK", 6 * Hour>>
         ELSE <<"PAYMENT_LINK", 12 * Hour>>
    [] class \in {"ISSUER_DOWN", "RAIL_TIMEOUT"} ->
         IF e.altRail /\ n = 0 THEN <<"RETRY_ALT_RAIL", Minutes(45)>>
         ELSE IF n = 0 THEN <<"RETRY_SAME_RAIL", 2 * Hour>>
         ELSE IF n <= 2 THEN <<"RETRY_SAME_RAIL", 14 * Hour>>
         ELSE <<"PAYMENT_LINK", 6 * Hour>>
    [] class = "INSTRUMENT_DEAD" ->
         IF e.altRail /\ n = 0 THEN <<"RETRY_ALT_RAIL", Minutes(30)>>
         ELSE <<"INSTRUMENT_REFRESH", Hour>>
    [] class = "AUTH_ABANDONED" ->
         <<"PAYMENT_LINK", IF n = 0 THEN Minutes(40) ELSE 20 * Hour>>
    [] class = "AUTH_FAILED" ->
         IF n >= 2 /\ e.altRail THEN <<"RETRY_ALT_RAIL", 6 * Hour>>
         ELSE <<"PAYMENT_LINK", 2 * Hour>>
    [] class = "LIMIT_EXCEEDED" ->
         IF e.altRail /\ n = 0 THEN <<"RETRY_ALT_RAIL", Hour>>
         ELSE IF e.allowsPart THEN <<"PART_PAYMENT_LINK", 4 * Hour>>
         ELSE <<"RETRY_SAME_RAIL", 26 * Hour>>
    [] class = "MANDATE_INVALID" -> <<"MANDATE_REREGISTER", Hour>>
    [] class = "RESTRICTION" ->
         IF e.altRail THEN <<"RETRY_ALT_RAIL", Minutes(30)>>
         ELSE <<"INSTRUMENT_REFRESH", 2 * Hour>>
    [] class = "UNKNOWN" -> <<"PAYMENT_LINK", 8 * Hour>>

plan(source, c, e, t) ==
  LET contact(do) == do \in CONTACT_INTERVENTIONS
      proposal(do, amount, delay) ==
        [intervention |-> do, amount |-> amount, currency |-> e.currency,
         channel |-> IF contact(do) THEN pick_channel(e) ELSE "NONE",
         class |-> classify(e), confidence |-> confidence_of(e), source |-> source,
         delay |-> delay, ordinal |-> c.ordinal]
      stop == proposal("STOP", 0, 0)
      step == cure(classify(e), c.attempts, e)
      due  == IF contact(step[1]) THEN next_sane_send_time(e, t + step[2])
                                  ELSE t + step[2]
  IN  IF c.attempts >= MaxMoneyActions
        \* The ladder is exhausted: a person, at once, if the balance is worth it.
        THEN IF e.amount >= HandoffFloor /\ outreach_permitted(c, e, t)
               THEN proposal("HANDOFF_HUMAN", e.amount, 0)
               ELSE stop
      ELSE IF step[1] = "STOP" \/ (contact(step[1]) /\ ~outreach_permitted(c, e, due))
        THEN stop
      ELSE proposal(step[1],
                    IF step[1] = "PART_PAYMENT_LINK" THEN part_amount(e) ELSE e.amount,
                    due - t)

----------------------------------------------------------------------------------
SCHEDULE_HOURS == <<24, 72, 120>>

\* Arm A: a fixed schedule, counted from the failure; the error is never read.
cron(c, e, t) ==
  LET n == c.attempts
      late == SCHEDULE_HOURS[n + 1] * Hour - (t + 1)
      proposal(do, amount, delay) ==
        [intervention |-> do, amount |-> amount, currency |-> e.currency,
         channel |-> "NONE", class |-> "UNKNOWN", confidence |-> 0, source |-> "none",
         delay |-> delay, ordinal |-> c.ordinal]
  IN  IF n >= Len(SCHEDULE_HOURS)
        THEN proposal("STOP", 0, 0)
        ELSE proposal("RETRY_SAME_RAIL", e.amount, IF late < 0 THEN 0 ELSE late)
==================================================================================
