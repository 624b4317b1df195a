---------------------------------- MODULE Runner ---------------------------------
(***************************************************************************)
(* bench/runner.py's run_arm on one case: propose, review, repair once,    *)
(* execute, account, until the case closes.  The arm decides who proposes  *)
(* and whether the gate is asked; a model may propose anything in          *)
(* Proposals.  The backend is the simulator of bench/environment.py, which *)
(* settles an order out of band at its own time, behind the fault wrappers *)
(* of faults/inject.py.                                                    *)
(*                                                                         *)
(* One process runs cases one after the other and shares nothing between   *)
(* them but sums, so one case is enough, and one iteration of the loop is  *)
(* one step.  What happens inside Executor.execute is Executor.tla; here   *)
(* it is one of the Fates a write can have.                                *)
(***************************************************************************)
EXTENDS Planner

CONSTANTS
  Events,       \* the failure events a case can be about
  Arms,         \* the arms to run, by their keys in the catalogue
  Proposals,    \* what a model may propose, the ordinal apart; its schema has no
                \* negative amount
  OobHours,     \* when the customer may pay out of band (HorizonHours: never)
  Reads,        \* {TRUE}, or BOOLEAN if the settlement read can fail
  Fates,        \* of a write: "answered", "failed", "unseen"
  MaxSteps      \* MAX_STEPS_PER_CASE

\* build_arms.
catalogue ==
  [A |-> [diagnoser |-> "cron",  use_gate |-> FALSE, allow_repair |-> FALSE],
   B |-> [diagnoser |-> "rules", use_gate |-> FALSE, allow_repair |-> FALSE],
   C |-> [diagnoser |-> "llm",   use_gate |-> FALSE, allow_repair |-> FALSE],
   D |-> [diagnoser |-> "llm",   use_gate |-> TRUE,  allow_repair |-> TRUE],
   E |-> [diagnoser |-> "rules", use_gate |-> TRUE,  allow_repair |-> FALSE]]

ASSUME RunAssumption ==
  /\ Arms \subseteq DOMAIN catalogue
  /\ Events \subseteq Event
  /\ \A p \in Proposals : p \in Proposal /\ p.amount \in Nat /\ p.ordinal = 0
  /\ OobHours \subseteq 0..HorizonHours
  /\ Reads \subseteq BOOLEAN /\ Fates \subseteq {"answered", "failed", "unseen"}
  /\ MaxSteps \in Nat

VARIABLES
  arm,        \* the key of the arm that works the case
  event,      \* the case's failure event
  oob_at,     \* the tick the customer pays by some other route
  clock,      \* now
  steps,      \* iterations done
  case,       \* the CaseState
  closed,     \* the loop was left and the case accounted for
  received,   \* provider: the paise env.settled holds for the order, 0 if none
  oob,        \* provider: the out-of-band payment is among them
  landed,     \* provider: the actions that took effect, oldest first
  result      \* the case's contribution to ArmResult

world == <<arm, event, oob_at>>
vars  == <<world, clock, steps, case, closed, received, oob, landed, result>>

----------------------------------------------------------------------------------
TERMINAL_DENIALS ==
  {"ALREADY_COLLECTED", "CONSENT_WITHDRAWN", "CONTACT_BUDGET_EXCEEDED",
   "ATTEMPT_CAP_REACHED", "HORIZON_EXCEEDED", "BELOW_STOPPING_THRESHOLD",
   "HARMFUL_RETRY", "DUPLICATE_ACTION"}

Opened ==
  [status |-> "OPEN", collected |-> 0, attempts |-> 0, ordinal |-> 0, keys |-> {},
   contacts |-> <<>>, retries |-> 0]

NoResult ==
  [recovered |-> 0, double |-> 0, elsewhere |-> 0, stopped |-> 0, abandoned |-> 0]

use_gate == catalogue[arm].use_gate
allow_repair == catalogue[arm].allow_repair

\* What the diagnoser may propose at tick t.  It stamps the case's ordinal; a model
\* that cannot be had, or understood, is replaced by the rules.
Proposed(t) ==
  LET diagnoser == catalogue[arm].diagnoser
  IN  IF diagnoser = "cron"
        THEN {cron(case, event, t)}
      ELSE IF diagnoser = "rules"
        THEN {plan("rules", case, event, t)}
      ELSE {[p EXCEPT !.ordinal = case.ordinal] : p \in Proposals}
             \union {plan("fallback", case, event, t)}

\* _maybe_settle_out_of_band at tick t: what env.settled holds afterwards.
PaidElsewhere(t) == received = 0 /\ oob_at <= t /\ oob_at < HorizonHours * Hour

Settled(t) == IF PaidElsewhere(t) THEN event.amount ELSE received

Init ==
  /\ arm \in Arms /\ event \in Events /\ oob_at \in {h * Hour : h \in OobHours}
  /\ clock = 0 /\ steps = 0 /\ case = Opened /\ closed = FALSE
  /\ received = 0 /\ oob = FALSE /\ landed = <<>>
  /\ result = NoResult

----------------------------------------------------------------------------------
(* The two ways an iteration ends.                                         *)

Continue(c, t) ==
  /\ case' = c /\ clock' = t /\ steps' = steps + 1
  /\ UNCHANGED <<world, closed, result>>

\* Leaving the loop: an open case is abandoned, and the case is counted.
Leave(c, r) ==
  LET status == IF c.status = "OPEN" THEN "ABANDONED" ELSE c.status
      one(s) == IF status = s THEN 1 ELSE 0
  IN  /\ case' = [c EXCEPT !.status = status]
      /\ result' = [r EXCEPT !.stopped   = @ + one("STOPPED"),
                             !.abandoned = @ + one("ABANDONED")]
      /\ closed' = TRUE
      /\ UNCHANGED <<world, clock, steps>>

Provider == <<received, oob, landed>>

\* The gate's settlement read, which materialises what is due by tick t; readable says
\* that a read of this turn of the loop succeeded.
GateRead(t, readable) ==
  /\ IF use_gate /\ readable
       THEN received' = Settled(t) /\ oob' = (oob \/ PaidElsewhere(t))
       ELSE UNCHANGED <<received, oob>>
  /\ UNCHANGED landed

Looping ==
  /\ ~closed
  /\ case.status = "OPEN"
  /\ ~PastHorizon(clock)
  /\ steps < MaxSteps

Due(p) == clock + p.delay

Actionable(p) ==
  /\ p.intervention \notin {"STOP", "WAIT"}
  /\ ~PastHorizon(Due(p))

Denials(p, t, readable) == denials(p, case, event, t, readable, Settled(t) > 0)

\* The denials of the first review; without a gate there are none.
Refusals(p, t, readable) == IF use_gate THEN Denials(p, t, readable) ELSE {}

----------------------------------------------------------------------------------
(* The executor, in one step.                                              *)

\* Mutant of Applied: an action that collected nothing is no attempt.
Applied_attempts_if_paid(p, t, succeeded) ==
  LET collects == succeeded /\ p.amount > 0
  IN  [case EXCEPT
         !.attempts  = IF collects THEN @ + 1 ELSE @,
         !.ordinal   = @ + 1,
         !.keys      = @ \union {action_key(p)},
         !.contacts  = IF p.intervention \in CONTACT_INTERVENTIONS
                         THEN Append(@, t) ELSE @,
         !.retries   = IF p.intervention \in RETRY_INTERVENTIONS THEN @ + 1 ELSE @,
         !.collected = IF collects THEN @ + p.amount ELSE @,
         !.status    = IF collects THEN "RECOVERED" ELSE @]

\* Executor._apply for an executed action.
Applied(p, t, succeeded) ==
  LET collects == succeeded /\ p.amount > 0
  IN  [case EXCEPT
         !.attempts  = @ + 1,
         !.ordinal   = @ + 1,
         !.keys      = @ \union {action_key(p)},
         !.contacts  = IF p.intervention \in CONTACT_INTERVENTIONS
                         THEN Append(@, t) ELSE @,
         !.retries   = IF p.intervention \in RETRY_INTERVENTIONS THEN @ + 1 ELSE @,
         !.collected = IF collects THEN @ + p.amount ELSE @,
         !.status    = IF collects THEN "RECOVERED" ELSE @]

\* After an executed action: account for the money, or carry on in a day.
Account(p, t, succeeded, wasSettled) ==
  LET c == Applied(p, t, succeeded)
  IN  IF ~(succeeded /\ p.amount > 0)
        THEN Continue(c, t + 24 * Hour)
      ELSE IF wasSettled
        THEN Leave([c EXCEPT !.collected = @ - p.amount, !.status = "DOUBLE_CHARGED"],
                   [result EXCEPT !.double = 1])
      ELSE Leave(c, [result EXCEPT !.recovered = 1])

\* The write takes effect at the provider at tick t; the executor is told, or not.
Lands(p, t, succeeded, told) ==
  /\ landed' = Append(landed, [key |-> action_key(p), channel |-> p.channel, at |-> t,
                               succeeded |-> succeeded, told |-> told])
  /\ received' = Settled(t) + (IF succeeded THEN p.amount ELSE 0)
  /\ oob' = (oob \/ PaidElsewhere(t))

\* A handoff collects in the simulator only, where every read succeeds.
CanSucceed(p) ==
  IF p.intervention = "HANDOFF_HUMAN" /\ FALSE \in Reads THEN {FALSE} ELSE BOOLEAN

Copies(p) == {i \in 1..Len(landed) : landed[i].key = action_key(p)}

\* The backend answers, possibly after a timeout that reconcile resolved.
Answered(p, t, wasSettled) ==
  /\ "answered" \in Fates
  /\ Copies(p) = {}
  /\ \E succeeded \in CanSucceed(p) :
       /\ Lands(p, t, succeeded, TRUE)
       /\ Account(p, t, succeeded, wasSettled)

\* A key that took effect before is answered from what it did.
AnsweredAgain(p, t, readable, wasSettled) ==
  \E i \in Copies(p) :
    /\ GateRead(t, readable)
    /\ Account(p, t, landed[i].succeeded, wasSettled)

\* The write took effect, but neither its answer nor the reconciling read came
\* back: not executed, as far as the case is told.
Unseen(p, t) ==
  /\ "unseen" \in Fates
  /\ Copies(p) = {}
  /\ \E succeeded \in CanSucceed(p) : Lands(p, t, succeeded, FALSE)
  /\ Continue(case, t + 24 * Hour)

\* Mutant of Failed: a write that failed is tried again at once.
Failed_at_once(p, t, readable) ==
  /\ "failed" \in Fates
  /\ GateRead(t, readable)
  /\ Continue(case, t)

\* The write failed, or timed out without effect and was not replayed.
Failed(p, t, readable) ==
  /\ "failed" \in Fates
  /\ GateRead(t, readable)
  /\ Continue(case, t + 24 * Hour)

\* was_settled_before is what env.settled holds once the gate has read it, at either
\* review.
Execute(p, t, readable) ==
  LET wasSettled == (IF use_gate /\ readable THEN Settled(t) ELSE received) > 0
  IN  IF p.intervention = "WAIT"
        THEN GateRead(t, readable) /\ Continue(case, t + 24 * Hour)   \* a repair may wait
        ELSE \/ Answered(p, t, wasSettled)
             \/ AnsweredAgain(p, t, readable, wasSettled)
             \/ Unseen(p, t)
             \/ Failed(p, t, readable)

----------------------------------------------------------------------------------
(* One iteration of the loop.                                              *)

Stop(p) ==
  /\ p.intervention = "STOP"
  /\ Leave([case EXCEPT !.status = "STOPPED"], result)
  /\ UNCHANGED Provider

DueTooLate(p) ==
  /\ p.intervention # "STOP"
  /\ PastHorizon(Due(p))
  /\ Leave(case, result)
  /\ UNCHANGED Provider

Wait(p) ==
  /\ p.intervention = "WAIT"
  /\ ~PastHorizon(Due(p))
  /\ Continue(case, Due(p) + Hour)
  /\ UNCHANGED Provider

Act(p, readable) ==
  /\ Actionable(p)
  /\ Refusals(p, Due(p), readable) = {}
  /\ Execute(p, Due(p), readable)

\* The gate refused p and the diagnoser is asked once more, at the time it was due.
MayRepair(p, readable) ==
  /\ Actionable(p)
  /\ allow_repair
  /\ repairable(Refusals(p, Due(p), readable))

RepairByStopping(p, alt, readable) ==
  /\ alt.intervention = "STOP"
  /\ Leave([case EXCEPT !.status = "STOPPED"], result)
  /\ GateRead(Due(p), readable)

\* Mutant of RepairAccepted: the repaired proposal is not reviewed again.
RepairAccepted_unreviewed(p, alt, readable, again) ==
  /\ alt.intervention # "STOP"
  /\ Execute(alt, Due(p), readable \/ again)

\* The second review reads the settlement anew: it may succeed where the first read
\* failed, or fail where it succeeded.
RepairAccepted(p, alt, readable, again) ==
  /\ alt.intervention # "STOP"
  /\ Denials(alt, Due(p), again) = {}
  /\ Execute(alt, Due(p), readable \/ again)

\* Mutants of GivesUp: money that arrived elsewhere is credited to the arm; the
\* case it closes stays open; and the next hour to try is this one.
GivesUp_takes_credit(p, readable) ==
  LET refusals == Refusals(p, Due(p), readable)
  IN  IF refusals \intersect TERMINAL_DENIALS = {}
        THEN Continue(case, Due(p) + 6 * Hour)
      ELSE IF "ALREADY_COLLECTED" \in refusals
        THEN Leave([case EXCEPT !.status = "RECOVERED"], [result EXCEPT !.recovered = 1])
      ELSE Leave([case EXCEPT !.status = "STOPPED"], result)

GivesUp_leaves_open(p, readable) ==
  LET refusals == Refusals(p, Due(p), readable)
  IN  IF refusals \intersect TERMINAL_DENIALS = {}
        THEN Continue(case, Due(p) + 6 * Hour)
      ELSE IF "ALREADY_COLLECTED" \in refusals
        THEN Leave(case, [result EXCEPT !.elsewhere = 1])
      ELSE Leave([case EXCEPT !.status = "STOPPED"], result)

GivesUp_at_once(p, readable) ==
  LET refusals == Refusals(p, Due(p), readable)
  IN  IF refusals \intersect TERMINAL_DENIALS = {}
        THEN Continue(case, clock)
      ELSE IF "ALREADY_COLLECTED" \in refusals
        THEN Leave([case EXCEPT !.status = "RECOVERED"], [result EXCEPT !.elsewhere = 1])
      ELSE Leave([case EXCEPT !.status = "STOPPED"], result)

\* Refused, and not repaired: the denials of the first review decide, also when the
\* repair was refused in its turn.
GivesUp(p, readable) ==
  LET refusals == Refusals(p, Due(p), readable)
  IN  IF refusals \intersect TERMINAL_DENIALS = {}
        THEN Continue(case, Due(p) + 6 * Hour)
      ELSE IF "ALREADY_COLLECTED" \in refusals
        THEN Leave([case EXCEPT !.status = "RECOVERED"], [result EXCEPT !.elsewhere = 1])
      ELSE Leave([case EXCEPT !.status = "STOPPED"], result)

Refused(p, readable) ==
  /\ Actionable(p)
  /\ Refusals(p, Due(p), readable) # {}
  /\ ~MayRepair(p, readable)
  /\ GivesUp(p, readable)
  /\ GateRead(Due(p), readable)

RepairRefused(p, alt, readable, again) ==
  /\ alt.intervention # "STOP"
  /\ Denials(alt, Due(p), again) # {}
  /\ GivesUp(p, readable)
  /\ GateRead(Due(p), readable \/ again)

\* One repair is asked for, at the hour the refused proposal was due.
Repair(p, readable) ==
  /\ MayRepair(p, readable)
  /\ \E alt \in Proposed(Due(p)) :
       \/ RepairByStopping(p, alt, readable)
       \/ \E again \in Reads :
            RepairAccepted(p, alt, readable, again) \/ RepairRefused(p, alt, readable, again)

\* Mutant of Over: a case that has used up its steps is not closed.
Over_at_horizon_only ==
  /\ ~closed
  /\ case.status # "OPEN" \/ PastHorizon(clock)
  /\ Leave(case, result)
  /\ UNCHANGED Provider

\* The loop's guard fails.
Over ==
  /\ ~closed
  /\ ~Looping
  /\ Leave(case, result)
  /\ UNCHANGED Provider

Step ==
  \/ /\ Looping
     /\ \E p \in Proposed(clock), readable \in Reads :
          \/ Stop(p) \/ DueTooLate(p) \/ Wait(p)
          \/ Act(p, readable) \/ Refused(p, readable) \/ Repair(p, readable)
  \/ Over

Spec == Init /\ [][Step]_vars /\ WF_vars(Step)
----------------------------------------------------------------------------------
(* What a run of a case promises.                                          *)

Landing ==
  [key : [intervention : GATED_INTERVENTIONS, amount : Int, currency : STRING,
          ordinal : Nat],
   channel : Channel, at : 0..(HorizonHours * Hour), succeeded : BOOLEAN, told : BOOLEAN]

\* Every tick worked is within a day of the horizon, and every sum is a sum.
TypeOK ==
  /\ arm \in Arms /\ event \in Events /\ oob_at \in 0..(HorizonHours * Hour)
  /\ clock \in 0..((HorizonHours + 24) * Hour)
  /\ steps \in 0..MaxSteps
  /\ case.status \in CaseStatus /\ case.collected \in Nat
  /\ case.attempts \in Nat /\ case.ordinal \in Nat /\ case.retries \in Nat
  /\ \A i \in 1..Len(case.contacts) : case.contacts[i] \in 0..(HorizonHours * Hour)
  /\ closed \in BOOLEAN /\ oob \in BOOLEAN /\ received \in Nat
  /\ \A i \in 1..Len(landed) : landed[i] \in Landing
  /\ \A bucket \in DOMAIN result : result[bucket] \in {0, 1}

\* What the customer saw: the landed actions that reached a person.
Contacts == {i \in 1..Len(landed) : landed[i].key.intervention \in CONTACT_INTERVENTIONS}

\* Nothing took effect that the case was not told of.  A write whose fate stays
\* unresolved counts for nothing in the case, although executor.py:170-172 says to
\* "leave it for a human": the next decision may send it again.
AllTold == \A i \in 1..Len(landed) : landed[i].told

\* In no window more contacts than the budget, none within the cooling-off of
\* another, none in quiet hours, on a channel not permitted, without consent, or by
\* SMS or voice to a number on the do-not-disturb register.
ContactAllowed(i) ==
  LET at == landed[i].at
      earlier == {j \in Contacts : j < i}
  IN  /\ Cardinality({j \in earlier : landed[j].at >= at - WindowHours * Hour}) < MaxContacts
      /\ \A j \in earlier : at - landed[j].at >= GapHours * Hour
      /\ ~in_quiet_hours(event, at)
      /\ landed[i].channel \in PermittedChannels
      /\ ~event.optedOut
      /\ ~(event.dnd /\ landed[i].channel \in {"SMS", "VOICE"})

\* I4 and I5 as the customer experiences them, over every window and through every
\* repair, as long as the case is told of what took effect.
ContactsRespectPolicy == AllTold => \A i \in Contacts : ContactAllowed(i)

\* I1 and I3 together: through every route, the order is paid at most once and
\* never beyond its amount.
PaidAtMostOnce == received <= event.amount /\ result.double = 0

\* An action that chases an order on which the money had already arrived.
Chases(i) ==
  \/ oob_at < HorizonHours * Hour /\ oob_at <= landed[i].at
  \/ \E j \in 1..(i - 1) : landed[j].succeeded

\* I1 with a provider that cannot always be read: no action that moves money
\* lands once the order is paid.  Of a handoff types.py:101-107 promises the same, but
\* gate.py:87 spares it when the settlement cannot be read.
NeverChasesMoney ==
  \A i \in 1..Len(landed) : landed[i].key.intervention \in MONEY_MOVING => ~Chases(i)

\* I6 and I7 as the provider sees them: the actions that took effect stay within
\* the attempt cap, the replays among them within theirs, as long as the case is
\* told of them; and none is too late.
WorkIsBounded ==
  /\ AllTold =>
       /\ Len(landed) <= MaxMoneyActions
       /\ Cardinality({i \in 1..Len(landed) :
                         landed[i].key.intervention \in RETRY_INTERVENTIONS})
            <= MaxAutoRetries
  /\ \A i \in 1..Len(landed) : ~PastHorizon(landed[i].at)

\* ArmResult.closed_cases: a closed case is in exactly one of the five buckets,
\* an open one in none.
OneBucket ==
  result.recovered + result.double + result.elsewhere + result.stopped + result.abandoned
    = IF closed THEN 1 ELSE 0

\* A recovery is money this arm brought in, on an order nobody else had paid.
CreditIsOurs == result.recovered = 1 => ~oob /\ received > 0

\* The buckets tell the truth about whose money it was: a recovery is ours, what
\* settled elsewhere was paid out of band (as long as the case is told of its own
\* effects), and a double charge is more than the order.
HonestCredit ==
  /\ CreditIsOurs
  /\ AllTold /\ result.elsewhere = 1 => oob
  /\ result.double = 1 => received > event.amount

\* Termination does not rest on the step limit: each turn of the loop that does not
\* close the case moves its clock, so the horizon ends it.
TimeMovesOn == [][~closed' => clock' > clock]_vars

\* I7: "Every case terminates".  The loop is one thread and always takes its next
\* turn, which is the fairness of Spec.
Terminates == <>closed

----------------------------------------------------------------------------------
(* What the rules promise, with a gate (arm E) and without one (arm B).    *)

\* fallback.py and the kernel each have their own consent, frequency, quiet-hours,
\* channel, amount and futility logic.  Where the planner would act, the kernel finds
\* nothing to refuse but money that is already there and work that is not worth it;
\* so the rules never meet a refusal that sends them around the loop again.
PlanPassesReview ==
  Looping /\ catalogue[arm].diagnoser = "rules" =>
    \A p \in Proposed(clock) :
      Actionable(p) /\ p.intervention # "HANDOFF_HUMAN" =>
        Denials(p, Due(p), TRUE)
          \subseteq {"ALREADY_COLLECTED", "BELOW_STOPPING_THRESHOLD", "ATTEMPT_CAP_REACHED"}

\* The baseline without a kernel treats people as the kernel would have it, as
\* long as it is told of what took effect; a handoff is the exception, because it
\* is planned for the hour at which the ladder is found exhausted.
BaselineIsCivil ==
  catalogue[arm].diagnoser = "rules" /\ AllTold =>
    \A i \in Contacts :
      landed[i].key.intervention # "HANDOFF_HUMAN" => ContactAllowed(i)

\* Without a model every case ends by its own ladder or by the horizon: the limit
\* on steps is never what ends it.
StepsSuffice ==
  catalogue[arm].diagnoser # "llm" /\ ~closed /\ case.status = "OPEN"
    => steps < MaxSteps \/ PastHorizon(clock)
==================================================================================
