------------------------------- MODULE RunnerProofs ------------------------------
(***************************************************************************)
(* Runner, for every arm, event, set of proposals, policy and bound: what  *)
(* a case promises the customer, the merchant and the report holds in      *)
(* every reachable state, whatever a model proposes, whatever becomes of a *)
(* write and whenever the customer pays by another route.                  *)
(*                                                                         *)
(* Every turn of the loop is of one of seven kinds (Turns), which is what  *)
(* the invariants are then proved over.                                    *)
(***************************************************************************)
EXTENDS Runner, PlannerProofs, SequenceTheorems

\* The arms that ask the kernel, which are D and E.
Gated == \A a \in Arms : catalogue[a].use_gate

\* No order is so small that the least part of it is nothing.  config/generator.yaml:38
\* starts at 99 rupees.
SizedOrders == \A e \in Events : PartFloor(e) > 0

----------------------------------------------------------------------------------
(* Types.                                                                  *)

Key ==
  [intervention : GATED_INTERVENTIONS, amount : Int, currency : STRING, ordinal : Nat]

CaseState ==
  [status : CaseStatus, collected : Nat, attempts : Nat, ordinal : Nat,
   keys : SUBSET Key, contacts : Seq(0..(HorizonHours * Hour)), retries : Nat]

Result ==
  [recovered : {0, 1}, double : {0, 1}, elsewhere : {0, 1}, stopped : {0, 1},
   abandoned : {0, 1}]

Typed ==
  /\ arm \in Arms /\ event \in Events /\ oob_at \in 0..(HorizonHours * Hour)
  /\ clock \in 0..((HorizonHours + 24) * Hour) /\ steps \in 0..MaxSteps
  /\ case \in CaseState /\ closed \in BOOLEAN
  /\ received \in Nat /\ oob \in BOOLEAN /\ landed \in Seq(Landing)
  /\ result \in Result

\* What is true while the loop runs: nothing is collected and nothing counted.
OpenBooks ==
  ~closed => case.status = "OPEN" /\ case.collected = 0 /\ result = NoResult

\* A part of an amount is at most the amount, and a greater part is more.
LEMMA PartIsPart ==
  ASSUME NEW a \in Nat, NEW x \in 0..100
  PROVE  (a * x) \div 100 \in 0..a
<1>1. a * x \in Nat /\ a * (100 - x) \in Nat
  OBVIOUS
<1>2. a * (100 - x) = a * 100 - a * x
  OBVIOUS
<1>3. a * x <= a * 100
  BY <1>1, <1>2
<1> QED
  BY <1>1, <1>3

LEMMA PartsGrow ==
  ASSUME NEW a \in Nat, NEW x \in 0..100, NEW y \in 0..100, x <= y
  PROVE  (a * x) \div 100 <= (a * y) \div 100
<1>1. a * x \in Nat /\ a * y \in Nat /\ a * (y - x) \in Nat
  OBVIOUS
<1>2. a * (y - x) = a * y - a * x
  OBVIOUS
<1>3. a * x <= a * y
  BY <1>1, <1>2
<1> QED
  BY <1>1, <1>3

\* Whatever the preferences and the policy, what is picked is a channel.
LEMMA ChannelIsOne ==
  ASSUME NEW e \in Event
  PROVE  pick_channel(e) \in Channel
<1> DEFINE ours   == <<"WHATSAPP", "EMAIL", "SMS">>
           order  == e.preferred \o ours
           usable == {i \in 1..Len(order) : order[i] \in PermittedChannels \ dnd_blocked(e)}
<1>1. order \in Seq(Channel)
  BY DEF Event, Channel
<1> HIDE DEF order
<1>2. usable \in SUBSET Nat
  BY <1>1
<1>3. CASE usable # {}
  <2>1. First(usable) \in usable
    BY <1>2, <1>3, FirstIsLeast
  <2>2. First(usable) \in 1..Len(order)
    BY <2>1
  <2>3. order[First(usable)] \in Channel
    BY <1>1, <2>2
  <2> QED
    BY <1>3, <2>3 DEF pick_channel, order
<1>4. CASE usable = {}
  BY <1>4 DEF pick_channel, order, Channel
<1> QED
  BY <1>3, <1>4

\* What a planner asks for is the order or a part of it, to the rupee.
LEMMA PartAmounts ==
  ASSUME NEW e \in Event
  PROVE  /\ part_amount(e) \in 0..e.amount
         /\ PartFloor(e) \in 0..part_amount(e)
<1>1. e.amount \in Nat /\ floor_percent(e) \in 0..100
  BY PolicyAssumption DEF Event, floor_percent
<1> DEFINE more == IF floor_percent(e) > 50 THEN floor_percent(e) ELSE 50
<1>2. more \in 0..100 /\ floor_percent(e) <= more
  BY <1>1
<1>3. part_amount(e) = (e.amount * more) \div 100
  BY DEF part_amount
<1> HIDE DEF more
<1>4. PartFloor(e) = (e.amount * floor_percent(e)) \div 100
  BY DEF PartFloor
<1>5. (e.amount * more) \div 100 \in 0..e.amount
  BY <1>1, <1>2, PartIsPart
<1>6. (e.amount * floor_percent(e)) \div 100 \in 0..e.amount
  BY <1>1, PartIsPart
<1>7. (e.amount * floor_percent(e)) \div 100 <= (e.amount * more) \div 100
  BY <1>1, <1>2, PartsGrow
<1> QED
  BY <1>3, <1>4, <1>5, <1>6, <1>7

----------------------------------------------------------------------------------
(* What can be proposed.                                                   *)

\* The send hour is not before the hour asked for.
LEMMA SendTimeIsLater ==
  ASSUME NEW e \in Event, NEW t \in Nat
  PROVE  next_sane_send_time(e, t) \in Nat /\ t <= next_sane_send_time(e, t)
<1> DEFINE sane == {k \in 0..13 : local_hour(e, t + k * Hour) \in 10..19}
           k == IF sane = {} THEN 14 ELSE First(sane)
<1>1. sane # {} => First(sane) \in sane
  BY FirstIsLeast
<1>2. k \in 0..14
  BY <1>1
<1>3. next_sane_send_time(e, t) = t + Hour * k
  BY DEF next_sane_send_time
<1> HIDE DEF k
<1> QED
  BY <1>2, <1>3 DEF Hour

\* A step of the ladder, the channel apart.
Draft(source, c, e, do, amount, delay) ==
  [intervention |-> do, amount |-> amount, currency |-> e.currency,
   channel |-> IF do \in CONTACT_INTERVENTIONS THEN pick_channel(e) ELSE "NONE",
   class |-> classify(e), confidence |-> confidence_of(e), source |-> source,
   delay |-> delay, ordinal |-> c.ordinal]

LEMMA DraftTyped ==
  ASSUME NEW e \in Event, NEW c, c.ordinal \in Nat,
         NEW source \in {"llm", "fallback", "rules", "none"},
         NEW do \in Intervention, NEW amount \in Nat, NEW delay \in Nat
  PROVE  Draft(source, c, e, do, amount, delay) \in Proposal
<1>1. classify(e) \in FailureClass /\ confidence_of(e) \in Int /\ e.currency \in STRING
  BY DEF classify, confidence_of, Event
<1>2. (IF do \in CONTACT_INTERVENTIONS THEN pick_channel(e) ELSE "NONE") \in Channel
  BY ChannelIsOne DEF Channel
<1> QED
  BY <1>1, <1>2 DEF Draft, Proposal

\* The ladder never waits, and asks for a part only where the merchant takes one.
LEMMA CureActs ==
  ASSUME NEW class \in FailureClass, NEW n \in Nat, NEW e \in Event
  PROVE  /\ cure(class, n, e)[1] # "WAIT"
         /\ cure(class, n, e)[1] = "PART_PAYMENT_LINK" => e.allowsPart
         /\ cure(class, n, e)[1] = "RETRY_ALT_RAIL" => e.altRail
         /\ cure(class, n, e)[1] = "RETRY_SAME_RAIL" =>
              class \notin {"INSTRUMENT_DEAD", "MANDATE_INVALID", "RESTRICTION"}
         /\ class = "RISK_DECLINED" => cure(class, n, e)[1] = "STOP"
<1>1. CASE class = "RISK_DECLINED"       BY <1>1 DEF cure
<1>2. CASE class = "INSUFFICIENT_FUNDS"  BY <1>2 DEF cure
<1>3. CASE class = "ISSUER_DOWN"         BY <1>3 DEF cure
<1>4. CASE class = "RAIL_TIMEOUT"        BY <1>4 DEF cure
<1>5. CASE class = "INSTRUMENT_DEAD"     BY <1>5 DEF cure
<1>6. CASE class = "AUTH_ABANDONED"      BY <1>6 DEF cure
<1>7. CASE class = "AUTH_FAILED"         BY <1>7 DEF cure
<1>8. CASE class = "LIMIT_EXCEEDED"      BY <1>8 DEF cure
<1>9. CASE class = "MANDATE_INVALID"     BY <1>9 DEF cure
<1>10. CASE class = "RESTRICTION"        BY <1>10 DEF cure
<1>11. CASE class = "UNKNOWN"            BY <1>11 DEF cure
<1> QED
  BY <1>1, <1>2, <1>3, <1>4, <1>5, <1>6, <1>7, <1>8, <1>9, <1>10, <1>11
     DEF FailureClass

\* What the rules ask for of an order.
Ask(e, do) == IF do = "PART_PAYMENT_LINK" THEN part_amount(e) ELSE e.amount

\* The rules stop, hand over at once, or take a step of the ladder.
LEMMA PlanIsADraft ==
  ASSUME NEW e \in Event, NEW c, PlannedCase(c), NEW t \in Nat, NEW source
  PROVE  LET p  == plan(source, c, e, t)
             do == cure(classify(e), c.attempts, e)[1]
         IN  \/ p = Draft(source, c, e, "STOP", 0, 0)
             \/ p = Draft(source, c, e, "HANDOFF_HUMAN", e.amount, 0)
             \/ /\ do \in Intervention \ {"STOP", "WAIT", "HANDOFF_HUMAN"}
                /\ \E delay \in Nat : p = Draft(source, c, e, do, Ask(e, do), delay)
<1> DEFINE step == cure(classify(e), c.attempts, e)
           due == IF step[1] \in CONTACT_INTERVENTIONS
                    THEN next_sane_send_time(e, t + step[2])
                    ELSE t + step[2]
           p == plan(source, c, e, t)
<1>1. classify(e) \in FailureClass /\ c.attempts \in Nat
  BY DEF classify, Event, PlannedCase
<1>2. step[1] \in Intervention \ {"WAIT", "HANDOFF_HUMAN"} /\ step[2] \in Nat
  BY <1>1, CureIsAStep, CureActs
<1> HIDE DEF step
<1>3. due - t \in Nat
  <2>1. t + step[2] \in Nat /\ t <= t + step[2]
    BY <1>2
  <2>2. due \in Nat /\ t + step[2] <= due
    BY <2>1, SendTimeIsLater
  <2> QED
    BY <2>1, <2>2
<1>4. \/ p = Draft(source, c, e, "STOP", 0, 0)
      \/ p = Draft(source, c, e, "HANDOFF_HUMAN", e.amount, 0)
      \/ step[1] # "STOP" /\ p = Draft(source, c, e, step[1], Ask(e, step[1]), due - t)
  BY DEF plan, Draft, Ask, step
<1> QED
  BY <1>2, <1>3, <1>4 DEF step

\* A proposal of the rules is one, and carries the ordinal of its case.
LEMMA PlanTyped ==
  ASSUME NEW e \in Event, NEW c \in CaseState, NEW t \in Nat,
         NEW source \in {"rules", "fallback"}
  PROVE  LET p == plan(source, c, e, t)
         IN  p \in Proposal /\ p.amount \in Nat /\ p.ordinal = c.ordinal
<1>1. PlannedCase(c) /\ c.ordinal \in Nat
  <2>1. 0..(HorizonHours * Hour) \subseteq Nat
    OBVIOUS
  <2>2. c.contacts \in Seq(0..(HorizonHours * Hour))
    BY DEF CaseState
  <2>3. c.contacts \in Seq(Nat)
    BY <2>1, <2>2, SeqMonotonic
  <2> QED
    BY <2>3 DEF CaseState, PlannedCase
<1>2. e.amount \in Nat /\ part_amount(e) \in Nat
  BY PartAmounts DEF Event
<1>3. {"STOP", "HANDOFF_HUMAN"} \subseteq Intervention
  BY DEF Intervention, GATED_INTERVENTIONS
<1>4. ASSUME NEW do \in Intervention, NEW amount \in Nat, NEW delay \in Nat
      PROVE  LET p == Draft(source, c, e, do, amount, delay)
             IN  p \in Proposal /\ p.amount \in Nat /\ p.ordinal = c.ordinal
  BY <1>1, DraftTyped DEF Draft
<1> DEFINE p == plan(source, c, e, t)
<1>5. \E do \in Intervention, amount \in Nat, delay \in Nat :
        p = Draft(source, c, e, do, amount, delay)
  BY <1>1, <1>2, <1>3, PlanIsADraft DEF Ask
<1> QED
  BY <1>4, <1>5

\* The cron schedule proposes a replay of the order, or to stop.
LEMMA CronTyped ==
  ASSUME NEW e \in Event, NEW c \in CaseState, NEW t \in Nat
  PROVE  LET p == cron(c, e, t)
         IN  /\ p \in Proposal /\ p.amount \in Nat /\ p.ordinal = c.ordinal
             /\ p.intervention \in {"STOP", "RETRY_SAME_RAIL"}
<1> DEFINE late  == SCHEDULE_HOURS[c.attempts + 1] * Hour - (t + 1)
           delay == IF late < 0 THEN 0 ELSE late
           proposal(do, amount, wait) ==
             [intervention |-> do, amount |-> amount, currency |-> e.currency,
              channel |-> "NONE", class |-> "UNKNOWN", confidence |-> 0, source |-> "none",
              delay |-> wait, ordinal |-> c.ordinal]
<1>1. e.amount \in Nat /\ e.currency \in STRING /\ c.ordinal \in Nat /\ c.attempts \in Nat
  BY DEF Event, CaseState
<1>2. ASSUME NEW do \in {"STOP", "RETRY_SAME_RAIL"}, NEW amount \in Nat, NEW wait \in Nat
      PROVE  proposal(do, amount, wait) \in Proposal
  BY <1>1, <1>2 DEF Proposal, Intervention, GATED_INTERVENTIONS, MONEY_MOVING,
                    RETRY_INTERVENTIONS, Channel, FailureClass
<1>3. CASE c.attempts < 3
  <2>1. c.attempts \in 0..2
    BY <1>1, <1>3
  <2>2. late \in Int
    BY <2>1 DEF SCHEDULE_HOURS, Hour
  <2>3. delay \in Nat
    BY <2>2
  <2>4. cron(c, e, t) = proposal("RETRY_SAME_RAIL", e.amount, delay)
    BY <1>1, <1>3 DEF cron, SCHEDULE_HOURS
  <2> QED
    BY <1>1, <1>2, <2>3, <2>4
<1>4. CASE c.attempts >= 3
  <2>1. cron(c, e, t) = proposal("STOP", 0, 0)
    BY <1>1, <1>4 DEF cron, SCHEDULE_HOURS
  <2> QED
    BY <1>2, <2>1
<1> QED
  BY <1>1, <1>3, <1>4

LEMMA ProposedTyped ==
  ASSUME Typed, NEW t \in Nat, NEW p \in Proposed(t)
  PROVE  /\ p \in Proposal /\ p.amount \in Nat /\ p.ordinal = case.ordinal
         /\ catalogue[arm].diagnoser = "rules" => p = plan("rules", case, event, t)
         /\ catalogue[arm].diagnoser = "cron" => p = cron(case, event, t)
<1>1. event \in Event /\ case \in CaseState
  BY RunAssumption DEF Typed
<1>2. ASSUME NEW q \in Proposals
      PROVE  LET p2 == [q EXCEPT !.ordinal = case.ordinal]
             IN  p2 \in Proposal /\ p2.amount \in Nat /\ p2.ordinal = case.ordinal
  BY <1>1, RunAssumption DEF Proposal, CaseState
<1>3. CASE catalogue[arm].diagnoser = "cron"
  BY <1>1, <1>3, CronTyped DEF Proposed
<1>4. CASE catalogue[arm].diagnoser = "rules"
  BY <1>1, <1>4, PlanTyped DEF Proposed
<1>5. CASE catalogue[arm].diagnoser \notin {"cron", "rules"}
  <2>1. CASE \E q \in Proposals : p = [q EXCEPT !.ordinal = case.ordinal]
    BY <1>2, <1>5, <2>1
  <2>2. CASE p = plan("fallback", case, event, t)
    BY <1>1, <1>5, <2>2, PlanTyped
  <2> QED
    BY <1>5, <2>1, <2>2 DEF Proposed
<1> QED
  BY <1>3, <1>4, <1>5

----------------------------------------------------------------------------------
(* The turns of the loop.                                                  *)

\* A proposal that is due at tick t, before the horizon, and that the gate, if the
\* arm has one, has nothing against.  The rules are only ever asked once.
Cleared(p, t, readable) ==
  /\ p \in Proposal /\ p.amount \in Nat /\ p.ordinal = case.ordinal
  /\ p.intervention \in GATED_INTERVENTIONS
  /\ t \in 0..(HorizonHours * Hour) /\ clock <= t /\ ~PastHorizon(t)
  /\ readable \in Reads
  /\ use_gate => Denials(p, t, readable) = {}
  /\ catalogue[arm].diagnoser = "rules" =>
       p = plan("rules", case, event, clock) /\ t = clock + p.delay

WasSettled(t, readable) == (IF use_gate /\ readable THEN Settled(t) ELSE received) > 0

\* No write: the provider is at most read, which settles what is due.
NoWrite ==
  /\ UNCHANGED landed
  /\ \/ UNCHANGED <<received, oob>>
     \/ \E t \in Nat : received' = Settled(t) /\ oob' = (oob \/ PaidElsewhere(t))

\* The seven kinds of turn: to wait or to fail, by less than a day and a bit ...
Pauses ==
  /\ NoWrite
  /\ \E t \in 0..((HorizonHours + 24) * Hour) : clock < t /\ Continue(case, t)

\* ... to stop or to run out ...
Closes ==
  /\ NoWrite
  /\ \E status \in {"OPEN", "STOPPED"} : Leave([case EXCEPT !.status = status], result)

\* ... to find the money there ...
FindsMoney ==
  /\ NoWrite /\ received' > 0
  /\ Leave([case EXCEPT !.status = "RECOVERED"], [result EXCEPT !.elsewhere = 1])

\* ... and to write, with or without an answer, or to be answered from an earlier write.
Writes(p, t, readable) ==
  \/ Answered(p, t, WasSettled(t, readable))
  \/ AnsweredAgain(p, t, readable, WasSettled(t, readable))
  \/ Unseen(p, t)

Turn ==
  \/ Closes
  \/ FindsMoney
  \/ Looping /\ Pauses
  \/ /\ Looping
     /\ \E p \in Proposal, t \in Nat, readable \in Reads :
          Cleared(p, t, readable) /\ Writes(p, t, readable)

\* The gate's read, done or not, is no write.
LEMMA ReadsDoNotWrite ==
  ASSUME NEW t \in Nat, NEW readable, GateRead(t, readable)
  PROVE  NoWrite
  BY DEF GateRead, NoWrite

\* Before the horizon there is a day left for a tick.
LEMMA DueTicks ==
  ASSUME Typed, NEW t \in Nat, ~PastHorizon(t)
  PROVE  /\ t \in 0..(HorizonHours * Hour) /\ t < HorizonHours * Hour
         /\ \A wait \in 0..(24 * Hour) : t + wait \in 0..((HorizonHours + 24) * Hour)
<1>1. HorizonHours \in Nat
  BY PolicyAssumption
<1> QED
  BY <1>1 DEF PastHorizon, Hour

\* What the executor is given either pauses the case or is a write.
LEMMA ExecuteTurns ==
  ASSUME Typed, Looping, NEW p \in Proposal, NEW t \in Nat, NEW readable \in Reads,
         p.amount \in Nat, p.ordinal = case.ordinal, p.intervention # "STOP",
         clock <= t, ~PastHorizon(t),
         use_gate => Denials(p, t, readable) = {},
         catalogue[arm].diagnoser = "rules" =>
           p = plan("rules", case, event, clock) /\ t = clock + p.delay,
         Execute(p, t, readable)
  PROVE  Turn
<1>1. 24 * Hour \in 0..(24 * Hour) /\ t + 24 * Hour \in 0..((HorizonHours + 24) * Hour)
  BY DueTicks DEF Hour
<1>2. clock < t + 24 * Hour
  BY DEF Typed, Hour
<1>3. GateRead(t, readable) /\ Continue(case, t + 24 * Hour) => Pauses
  BY <1>1, <1>2, ReadsDoNotWrite DEF Pauses
<1>4. CASE p.intervention = "WAIT" \/ Failed(p, t, readable)
  BY <1>3, <1>4 DEF Execute, Failed, Turn
<1>5. CASE p.intervention # "WAIT" /\ ~Failed(p, t, readable)
  <2>1. p.intervention \in GATED_INTERVENTIONS
    BY <1>5 DEF Proposal, Intervention
  <2>2. Cleared(p, t, readable)
    BY <2>1, DueTicks DEF Cleared
  <2>3. Writes(p, t, readable)
    BY <1>5 DEF Execute, Writes, WasSettled
  <2> QED
    BY <2>2, <2>3 DEF Turn
<1> QED
  BY <1>4, <1>5

\* Only the rules' own arms run them, and none of those repairs.
LEMMA RulesDoNotRepair ==
  ASSUME Typed, catalogue[arm].diagnoser = "rules"
  PROVE  ~allow_repair
<1>1. arm \in {"A", "B", "C", "D", "E"}
  BY RunAssumption DEF Typed, catalogue
<1> QED
  BY <1>1 DEF allow_repair, catalogue

\* The two reviews of a repair may read the settlement differently, but what the second
\* lets through is cleared on whatever either of them could read: a first read that shows
\* the order paid leaves nothing to repair.
LEMMA RepairsAreCleared ==
  ASSUME Typed, NEW p \in Proposal, NEW alt, NEW readable \in Reads, NEW again \in Reads,
         MayRepair(p, readable), RepairAccepted(p, alt, readable, again)
  PROVE  /\ (readable \/ again) \in Reads
         /\ Denials(alt, Due(p), readable \/ again) = {}
<1>1. /\ Actionable(p) /\ Denials(alt, Due(p), again) = {}
      /\ repairable(Refusals(p, Due(p), readable))
  BY DEF RepairAccepted, MayRepair
<1>2. readable \in BOOLEAN /\ again \in BOOLEAN
  BY RunAssumption
<1>3. CASE readable = TRUE /\ again = FALSE
  <2>1. p.intervention \in GATED_INTERVENTIONS
    BY <1>1 DEF Actionable, Proposal, Intervention
  <2>2. use_gate /\ "ALREADY_COLLECTED" \notin Denials(p, Due(p), readable)
    BY <1>1 DEF repairable, Refusals
  <2> DEFINE settled == Settled(Due(p)) > 0
  <2>3. Denials(p, Due(p), readable) =
          UNION {I1(p, case, settled), I2(p, case), I3(p, event),
                 I4(p, case, event, Due(p)), I5(p, event), I6(p, case, event),
                 I7(p, case, Due(p))}
    BY <1>3 DEF Denials, denials
  <2>4. "ALREADY_COLLECTED" \notin I1(p, case, settled)
    BY <2>2, <2>3
  <2>5. settled = FALSE
    BY <2>1, <2>4 DEF I1
  <2> DEFINE checks(s) == UNION {I1(alt, case, s), I2(alt, case), I3(alt, event),
                                 I4(alt, case, event, Due(p)), I5(alt, event),
                                 I6(alt, case, event), I7(alt, case, Due(p))}
  <2>6. Denials(alt, Due(p), FALSE) = {}
    BY <1>1, <1>3
  <2>7. checks(FALSE) = {}
    BY <2>6 DEF Denials, denials
  <2>8. Denials(alt, Due(p), TRUE) = checks(settled)
    BY DEF Denials, denials
  <2>9. Denials(alt, Due(p), TRUE) = {}
    BY <2>5, <2>7, <2>8
  <2> QED
    BY <1>3, <2>9
<1>4. CASE ~(readable = TRUE /\ again = FALSE)
  BY <1>1, <1>2, <1>4
<1> QED
  BY <1>3, <1>4

\* Every turn of the loop is of one of the kinds.
LEMMA Turns ==
  ASSUME Typed, OpenBooks, Step
  PROVE  ~closed /\ Turn
<1> USE DEF Turn
<1>1. ~closed
  BY DEF Step, Looping, Over
<1>2. case.status = "OPEN" /\ case = [case EXCEPT !.status = "OPEN"]
  BY <1>1 DEF OpenBooks, Typed, CaseState
<1>3. clock \in Nat
  BY DEF Typed
<1>4. UNCHANGED Provider => NoWrite
  BY DEF Provider, NoWrite
<1>5. CASE Over
  BY <1>2, <1>4, <1>5 DEF Over, Closes
<1>6. ASSUME Looping, NEW p \in Proposed(clock), NEW readable \in Reads,
             \/ Stop(p) \/ DueTooLate(p) \/ Wait(p)
             \/ Act(p, readable) \/ Refused(p, readable) \/ Repair(p, readable)
      PROVE  Turn
  <2>1. /\ p \in Proposal /\ p.amount \in Nat /\ p.ordinal = case.ordinal
        /\ catalogue[arm].diagnoser = "rules" => p = plan("rules", case, event, clock)
    BY <1>3, ProposedTyped
  <2>2. Due(p) \in Nat /\ clock <= Due(p) /\ Due(p) = clock + p.delay
    BY <1>3, <2>1 DEF Due, Proposal
  <2>3. ~PastHorizon(Due(p)) =>
          \A wait \in 0..(24 * Hour) : Due(p) + wait \in 0..((HorizonHours + 24) * Hour)
    BY <2>2, DueTicks
  <2>4. CASE Stop(p)
    BY <1>4, <2>4 DEF Stop, Closes
  <2>5. CASE DueTooLate(p)
    BY <1>2, <1>4, <2>5 DEF DueTooLate, Closes
  <2>6. CASE Wait(p)
    <3>1. Due(p) + Hour \in 0..((HorizonHours + 24) * Hour) /\ clock < Due(p) + Hour
      BY <1>3, <2>2, <2>3, <2>6 DEF Wait, Hour
    <3> QED
      BY <1>4, <1>6, <2>6, <3>1 DEF Wait, Pauses
  <2>7. CASE Act(p, readable)
    <3>1. /\ p.intervention # "STOP" /\ ~PastHorizon(Due(p)) /\ Execute(p, Due(p), readable)
          /\ use_gate => Denials(p, Due(p), readable) = {}
      BY <2>7 DEF Act, Actionable, Refusals
    <3> QED
      BY <1>6, <2>1, <2>2, <3>1, ExecuteTurns
  <2>8. ASSUME Actionable(p), GivesUp(p, readable), NEW read,
               GateRead(Due(p), read), readable => read
        PROVE  Turn
    <3>1. NoWrite
      BY <2>2, <2>8, ReadsDoNotWrite
    <3>2. ~PastHorizon(Due(p))
      BY <2>8 DEF Actionable
    <3>3. CASE Refusals(p, Due(p), readable) \intersect TERMINAL_DENIALS = {}
      <4>1. Due(p) + 6 * Hour \in 0..((HorizonHours + 24) * Hour) /\ clock < Due(p) + 6 * Hour
        BY <1>3, <2>2, <2>3, <3>2 DEF Hour
      <4>2. Continue(case, Due(p) + 6 * Hour)
        BY <2>8, <3>3 DEF GivesUp
      <4> QED
        BY <1>6, <3>1, <4>1, <4>2 DEF Pauses
    <3>4. CASE "ALREADY_COLLECTED" \in Refusals(p, Due(p), readable)
      <4>1. use_gate /\ "ALREADY_COLLECTED" \in Denials(p, Due(p), readable)
        BY <3>4 DEF Refusals
      <4>2. readable /\ Settled(Due(p)) > 0
        <5>1. case.collected = 0
          BY <1>1 DEF OpenBooks
        <5>2. "ALREADY_COLLECTED" \in I1(p, case, readable /\ Settled(Due(p)) > 0)
          BY <4>1 DEF Denials, denials, I2, I3, I4, I5, I6, I7
        <5> QED
          BY <5>1, <5>2 DEF I1
      <4>3. received' = Settled(Due(p))
        BY <2>8, <4>1, <4>2 DEF GateRead
      <4>4. Leave([case EXCEPT !.status = "RECOVERED"], [result EXCEPT !.elsewhere = 1])
        BY <2>8, <3>4 DEF GivesUp, TERMINAL_DENIALS
      <4> QED
        BY <3>1, <4>2, <4>3, <4>4 DEF FindsMoney
    <3>5. CASE /\ Refusals(p, Due(p), readable) \intersect TERMINAL_DENIALS # {}
               /\ "ALREADY_COLLECTED" \notin Refusals(p, Due(p), readable)
      BY <2>8, <3>1, <3>5 DEF GivesUp, Closes
    <3> QED
      BY <3>3, <3>4, <3>5
  <2>11. CASE Refused(p, readable)
    BY <2>8, <2>11 DEF Refused
  <2>9. ASSUME NEW alt \in Proposed(Due(p)), RepairByStopping(p, alt, readable)
        PROVE  Turn
    BY <2>2, <2>9, ReadsDoNotWrite DEF RepairByStopping, Closes
  <2>10. ASSUME NEW alt \in Proposed(Due(p)), NEW again \in Reads,
                MayRepair(p, readable), RepairAccepted(p, alt, readable, again)
         PROVE  Turn
    <3>1. alt \in Proposal /\ alt.amount \in Nat /\ alt.ordinal = case.ordinal
      BY <2>2, ProposedTyped
    <3>2. /\ alt.intervention # "STOP" /\ ~PastHorizon(Due(p))
          /\ Execute(alt, Due(p), readable \/ again) /\ allow_repair
      BY <2>10 DEF RepairAccepted, MayRepair, Actionable
    <3>3. catalogue[arm].diagnoser # "rules"
      BY <3>2, RulesDoNotRepair
    <3>4. (readable \/ again) \in Reads /\ Denials(alt, Due(p), readable \/ again) = {}
      BY <1>6, <2>1, <2>10, RepairsAreCleared
    <3> QED
      BY <1>6, <2>2, <3>1, <3>2, <3>3, <3>4, ExecuteTurns
  <2>12. ASSUME NEW alt, NEW again,
                MayRepair(p, readable), RepairRefused(p, alt, readable, again)
         PROVE  Turn
    BY <2>8, <2>12 DEF RepairRefused, MayRepair
  <2> QED
    BY <1>6, <2>4, <2>5, <2>6, <2>7, <2>9, <2>10, <2>11, <2>12 DEF Repair
<1> QED
  BY <1>1, <1>5, <1>6 DEF Step

----------------------------------------------------------------------------------
(* What a turn does to the case and to the count.                          *)

\* What the invariants say of a case does not depend on its status or its sum.
SameBooks(c, d) ==
  /\ c.attempts = d.attempts /\ c.ordinal = d.ordinal /\ c.keys = d.keys
  /\ c.contacts = d.contacts /\ c.retries = d.retries

\* Leaving the loop counts the case as stopped or abandoned unless its status says
\* that it was counted already.
LEMMA Leaving ==
  ASSUME NEW c \in CaseState, NEW r \in Result, r.stopped = 0, r.abandoned = 0,
         Leave(c, r)
  PROVE  /\ closed' = TRUE /\ UNCHANGED <<arm, event, oob_at, clock, steps>>
         /\ case' \in CaseState /\ SameBooks(case', c)
         /\ result' \in Result
         /\ result'.recovered = r.recovered /\ result'.double = r.double
         /\ result'.elsewhere = r.elsewhere
         /\ result'.stopped + result'.abandoned =
              IF c.status \in {"OPEN", "STOPPED", "ABANDONED"} THEN 1 ELSE 0
<1> DEFINE status == IF c.status = "OPEN" THEN "ABANDONED" ELSE c.status
           stopped == IF status = "STOPPED" THEN 1 ELSE 0
           abandoned == IF status = "ABANDONED" THEN 1 ELSE 0
<1>1. status \in CaseStatus
  BY DEF CaseState, CaseStatus
<1>2. /\ case' = [c EXCEPT !.status = status]
      /\ result' = [r EXCEPT !.stopped = @ + stopped, !.abandoned = @ + abandoned]
      /\ closed' = TRUE /\ UNCHANGED <<arm, event, oob_at, clock, steps>>
  BY DEF Leave, world
<1>3. case' \in CaseState /\ SameBooks(case', c)
  BY <1>1, <1>2 DEF CaseState, SameBooks
<1>4. /\ stopped \in {0, 1} /\ abandoned \in {0, 1}
      /\ stopped + abandoned = IF c.status \in {"OPEN", "STOPPED", "ABANDONED"} THEN 1 ELSE 0
  OBVIOUS
<1> HIDE DEF stopped, abandoned, status
<1>5. /\ result'.stopped = stopped /\ result'.abandoned = abandoned
      /\ result'.recovered = r.recovered /\ result'.double = r.double
      /\ result'.elsewhere = r.elsewhere
      /\ result' \in Result
  <2>1. result' = [recovered |-> r.recovered, double |-> r.double,
                   elsewhere |-> r.elsewhere, stopped |-> 0 + stopped,
                   abandoned |-> 0 + abandoned]
    BY <1>2 DEF Result
  <2>2. /\ r.recovered \in {0, 1} /\ r.double \in {0, 1} /\ r.elsewhere \in {0, 1}
        /\ 0 + stopped = stopped /\ 0 + abandoned = abandoned
    BY <1>4 DEF Result
  <2> QED
    BY <1>4, <2>1, <2>2 DEF Result
<1> QED
  BY <1>2, <1>3, <1>4, <1>5

Grown(p, t) ==
  [keys     |-> case.keys \union {action_key(p)},
   contacts |-> IF p.intervention \in CONTACT_INTERVENTIONS THEN Append(case.contacts, t)
                                                            ELSE case.contacts,
   retries  |-> IF p.intervention \in RETRY_INTERVENTIONS THEN case.retries + 1
                                                          ELSE case.retries,
   attempts |-> case.attempts + 1,
   ordinal  |-> case.ordinal + 1]

\* An executed action adds to all the books of the case.
LEMMA AppliedFields ==
  ASSUME Typed, NEW p, NEW t, NEW readable, Cleared(p, t, readable), NEW s \in BOOLEAN
  PROVE  LET c == Applied(p, t, s)
         IN  /\ c \in CaseState /\ SameBooks(c, Grown(p, t))
             /\ ~(s /\ p.amount > 0) => /\ c.status = case.status
                                        /\ c.collected = case.collected
             /\ s /\ p.amount > 0 => /\ c.status = "RECOVERED"
                                     /\ c.collected = case.collected + p.amount
<1> DEFINE c == Applied(p, t, s)
           g == Grown(p, t)
<1>1. /\ case \in CaseState /\ p \in Proposal /\ p.amount \in Nat
      /\ p.intervention \in GATED_INTERVENTIONS /\ t \in 0..(HorizonHours * Hour)
  BY DEF Typed, Cleared
<1>2. action_key(p) \in Key
  BY <1>1 DEF action_key, Key, Proposal
<1>3. Append(case.contacts, t) \in Seq(0..(HorizonHours * Hour))
  BY <1>1, AppendProperties DEF CaseState
<1>4. /\ g.attempts \in Nat /\ g.ordinal \in Nat /\ g.retries \in Nat
      /\ g.keys \in SUBSET Key /\ g.contacts \in Seq(0..(HorizonHours * Hour))
  <2>1. /\ case.attempts \in Nat /\ case.ordinal \in Nat /\ case.retries \in Nat
        /\ case.keys \in SUBSET Key /\ case.contacts \in Seq(0..(HorizonHours * Hour))
    BY <1>1 DEF CaseState
  <2>2. g.attempts \in Nat /\ g.ordinal \in Nat /\ g.retries \in Nat
    BY <2>1 DEF Grown
  <2>3. g.keys \in SUBSET Key
    BY <1>2, <2>1 DEF Grown
  <2>4. g.contacts \in Seq(0..(HorizonHours * Hour))
    BY <1>3, <2>1 DEF Grown
  <2> QED
    BY <2>2, <2>3, <2>4
<1>5. c = [case EXCEPT
             !.attempts = g.attempts, !.ordinal = g.ordinal, !.keys = g.keys,
             !.contacts = g.contacts, !.retries = g.retries,
             !.collected = IF s /\ p.amount > 0 THEN case.collected + p.amount
                                                ELSE case.collected,
             !.status = IF s /\ p.amount > 0 THEN "RECOVERED" ELSE case.status]
  BY <1>1 DEF Applied, Grown, CaseState
<1> HIDE DEF c, g
<1>6. /\ c.attempts = g.attempts /\ c.ordinal = g.ordinal /\ c.keys = g.keys
      /\ c.contacts = g.contacts /\ c.retries = g.retries
      /\ c.collected = (IF s /\ p.amount > 0 THEN case.collected + p.amount
                                             ELSE case.collected)
      /\ c.status = (IF s /\ p.amount > 0 THEN "RECOVERED" ELSE case.status)
  BY <1>1, <1>5 DEF CaseState
<1>7. c \in CaseState
  <2>1. c.collected \in Nat /\ c.status \in CaseStatus
    BY <1>1, <1>6 DEF CaseState, CaseStatus
  <2>2. c = [status |-> c.status, collected |-> c.collected, attempts |-> c.attempts,
             ordinal |-> c.ordinal, keys |-> c.keys, contacts |-> c.contacts,
             retries |-> c.retries]
    BY <1>1, <1>5 DEF CaseState
  <2>3. c.attempts \in Nat /\ c.ordinal \in Nat /\ c.retries \in Nat
        /\ c.keys \in SUBSET Key /\ c.contacts \in Seq(0..(HorizonHours * Hour))
    BY <1>4, <1>6
  <2> QED
    BY <2>1, <2>2, <2>3 DEF CaseState
<1> QED
  BY <1>6, <1>7 DEF SameBooks, c, g

\* An executed action that brought nothing in leaves the case open for a day; one
\* that brought money in closes it, in one of two buckets.
LEMMA Accounting ==
  ASSUME Typed, OpenBooks, ~closed,
         NEW p, NEW t, NEW readable, Cleared(p, t, readable),
         NEW s \in BOOLEAN, NEW was \in BOOLEAN, Account(p, t, s, was)
  PROVE  /\ UNCHANGED <<arm, event, oob_at>>
         /\ case' \in CaseState /\ SameBooks(case', Grown(p, t))
         /\ result' \in Result
         /\ ~(s /\ p.amount > 0) =>
              /\ Continue(Applied(p, t, s), t + 24 * Hour)
              /\ case'.status = "OPEN" /\ case'.collected = 0 /\ result' = NoResult
         /\ s /\ p.amount > 0 =>
              /\ closed' = TRUE /\ UNCHANGED <<clock, steps>>
              /\ result'.recovered = (IF was THEN 0 ELSE 1)
              /\ result'.double = (IF was THEN 1 ELSE 0)
              /\ result'.elsewhere = 0 /\ result'.stopped + result'.abandoned = 0
<1> DEFINE c == Applied(p, t, s)
<1>1. /\ case.status = "OPEN" /\ case.collected = 0 /\ result = NoResult /\ p.amount \in Nat
      /\ NoResult \in Result
  BY DEF OpenBooks, Cleared, NoResult, Result
<1>2. /\ c \in CaseState /\ SameBooks(c, Grown(p, t))
      /\ ~(s /\ p.amount > 0) => c.status = "OPEN" /\ c.collected = 0
      /\ s /\ p.amount > 0 => c.status = "RECOVERED" /\ c.collected = p.amount
  BY <1>1, AppliedFields
<1> HIDE DEF c
<1>3. CASE ~(s /\ p.amount > 0)
  <2>1. Continue(c, t + 24 * Hour)
    BY <1>3 DEF Account, c
  <2> QED
    BY <1>1, <1>2, <1>3, <2>1 DEF Continue, world, c
<1>4. CASE s /\ p.amount > 0 /\ was
  <2> DEFINE d == [c EXCEPT !.collected = @ - p.amount, !.status = "DOUBLE_CHARGED"]
             r == [result EXCEPT !.double = 1]
  <2>1. Leave(d, r)
    BY <1>4 DEF Account, c
  <2>2. d \in CaseState /\ SameBooks(d, c) /\ d.status = "DOUBLE_CHARGED"
    <3>1. c \in CaseState /\ c.collected - p.amount = 0
      BY <1>1, <1>2, <1>4
    <3>2. d = [c EXCEPT !.collected = 0, !.status = "DOUBLE_CHARGED"]
      BY <3>1
    <3> HIDE DEF d
    <3>3. d.status = "DOUBLE_CHARGED" /\ SameBooks(d, c)
      BY <3>1, <3>2 DEF CaseState, SameBooks
    <3>4. d \in CaseState
      BY <3>1, <3>2 DEF CaseState, CaseStatus
    <3> QED
      BY <3>3, <3>4
  <2>3. /\ r \in Result /\ r.stopped = 0 /\ r.abandoned = 0
        /\ r.recovered = 0 /\ r.double = 1 /\ r.elsewhere = 0
    BY <1>1 DEF Result, NoResult
  <2> HIDE DEF d, r
  <2>4. /\ closed' = TRUE /\ UNCHANGED <<arm, event, oob_at, clock, steps>>
        /\ case' \in CaseState /\ SameBooks(case', d) /\ result' \in Result
        /\ result'.recovered = 0 /\ result'.double = 1 /\ result'.elsewhere = 0
        /\ result'.stopped + result'.abandoned = 0
    BY <2>1, <2>2, <2>3, Leaving
  <2> QED
    BY <1>2, <1>4, <2>2, <2>4 DEF SameBooks
<1>5. CASE s /\ p.amount > 0 /\ ~was
  <2> DEFINE r == [result EXCEPT !.recovered = 1]
  <2>1. Leave(c, r)
    BY <1>5 DEF Account, c
  <2>2. /\ r \in Result /\ r.stopped = 0 /\ r.abandoned = 0
        /\ r.recovered = 1 /\ r.double = 0 /\ r.elsewhere = 0
    BY <1>1 DEF Result, NoResult
  <2> HIDE DEF r
  <2>3. /\ closed' = TRUE /\ UNCHANGED <<arm, event, oob_at, clock, steps>>
        /\ case' \in CaseState /\ SameBooks(case', c) /\ result' \in Result
        /\ result'.recovered = 1 /\ result'.double = 0 /\ result'.elsewhere = 0
        /\ result'.stopped + result'.abandoned = 0
    BY <1>2, <1>5, <2>1, <2>2, Leaving
  <2> QED
    BY <1>2, <1>5, <2>3 DEF SameBooks
<1> QED
  BY <1>3, <1>4, <1>5

\* The turns that write nothing and end the case.
LEMMA Closing ==
  ASSUME Typed, OpenBooks, ~closed, Closes \/ FindsMoney
  PROVE  /\ closed' = TRUE /\ UNCHANGED <<arm, event, oob_at, clock, steps, landed>>
         /\ case' \in CaseState /\ SameBooks(case', case) /\ result' \in Result
         /\ result'.recovered = 0 /\ result'.double = 0
         /\ result'.elsewhere + (result'.stopped + result'.abandoned) = 1
         /\ result'.elsewhere = 1 => received' > 0
<1>1. /\ case \in CaseState /\ result = NoResult /\ NoResult \in Result
      /\ UNCHANGED landed
  BY DEF Typed, OpenBooks, NoResult, Result, Closes, FindsMoney, NoWrite
<1>2. ASSUME NEW status \in CaseStatus
      PROVE  LET c == [case EXCEPT !.status = status]
             IN  c \in CaseState /\ c.status = status /\ SameBooks(c, case)
  BY <1>1 DEF CaseState, SameBooks
<1>3. CASE Closes
  <2>1. PICK status \in {"OPEN", "STOPPED"} : Leave([case EXCEPT !.status = status], result)
    BY <1>3 DEF Closes
  <2> DEFINE c == [case EXCEPT !.status = status]
  <2>2. c \in CaseState /\ c.status = status /\ SameBooks(c, case)
    BY <1>2, <2>1 DEF CaseStatus
  <2> HIDE DEF c
  <2>3. /\ NoResult.stopped = 0 /\ NoResult.abandoned = 0 /\ NoResult.recovered = 0
        /\ NoResult.double = 0 /\ NoResult.elsewhere = 0
    BY DEF NoResult
  <2>4. Leave(c, NoResult)
    BY <1>1, <2>1 DEF c
  <2>5. /\ closed' = TRUE /\ UNCHANGED <<arm, event, oob_at, clock, steps>>
        /\ case' \in CaseState /\ SameBooks(case', c) /\ result' \in Result
        /\ result'.recovered = 0 /\ result'.double = 0 /\ result'.elsewhere = 0
        /\ result'.stopped + result'.abandoned = 1
    BY <1>1, <2>1, <2>2, <2>3, <2>4, Leaving
  <2> QED
    BY <1>1, <2>2, <2>5 DEF SameBooks
<1>4. CASE FindsMoney
  <2> DEFINE c == [case EXCEPT !.status = "RECOVERED"]
             r == [result EXCEPT !.elsewhere = 1]
  <2>1. Leave(c, r) /\ received' > 0
    BY <1>4 DEF FindsMoney
  <2>2. c \in CaseState /\ c.status = "RECOVERED" /\ SameBooks(c, case)
    BY <1>2 DEF CaseStatus
  <2>3. /\ r \in Result /\ r.stopped = 0 /\ r.abandoned = 0
        /\ r.recovered = 0 /\ r.double = 0 /\ r.elsewhere = 1
    BY <1>1 DEF Result, NoResult
  <2> HIDE DEF c, r
  <2>4. /\ closed' = TRUE /\ UNCHANGED <<arm, event, oob_at, clock, steps>>
        /\ case' \in CaseState /\ SameBooks(case', c) /\ result' \in Result
        /\ result'.recovered = 0 /\ result'.double = 0 /\ result'.elsewhere = 1
        /\ result'.stopped + result'.abandoned = 0
    BY <2>1, <2>2, <2>3, Leaving
  <2> QED
    BY <1>1, <2>1, <2>2, <2>4 DEF SameBooks
<1> QED
  BY <1>3, <1>4

\* What lands is a landing, and what is settled is a sum.
Landed(p, t, s, told) ==
  [key |-> action_key(p), channel |-> p.channel, at |-> t, succeeded |-> s, told |-> told]

LEMMA LandedTyped ==
  ASSUME Typed, NEW p, NEW t, NEW readable, Cleared(p, t, readable),
         NEW s \in BOOLEAN, NEW told \in BOOLEAN
  PROVE  Landed(p, t, s, told) \in Landing
  BY DEF Cleared, Landed, Landing, Proposal, action_key

LEMMA SettledTyped ==
  ASSUME Typed, NEW t \in Nat
  PROVE  Settled(t) \in Nat /\ PaidElsewhere(t) \in BOOLEAN /\ received <= Settled(t)
<1>1. event.amount \in Nat /\ received \in Nat
  BY RunAssumption DEF Typed, Event
<1> QED
  BY <1>1 DEF Settled, PaidElsewhere

LEMMA NoWriteTyped ==
  ASSUME Typed, NoWrite
  PROVE  received' \in Nat /\ oob' \in BOOLEAN /\ landed' = landed
<1>1. received \in Nat /\ oob \in BOOLEAN /\ landed' = landed
  BY DEF Typed, NoWrite
<1>2. CASE UNCHANGED <<received, oob>>
  BY <1>1, <1>2
<1>3. ASSUME NEW t \in Nat, received' = Settled(t), oob' = (oob \/ PaidElsewhere(t))
      PROVE  received' \in Nat /\ oob' \in BOOLEAN
  BY <1>1, <1>3, SettledTyped
<1> QED
  BY <1>1, <1>2, <1>3 DEF NoWrite

LEMMA LandsTyped ==
  ASSUME Typed, NEW p, NEW t, NEW readable, Cleared(p, t, readable),
         NEW s \in BOOLEAN, NEW told \in BOOLEAN, Lands(p, t, s, told)
  PROVE  /\ landed' = Append(landed, Landed(p, t, s, told)) /\ landed' \in Seq(Landing)
         /\ Len(landed) \in Nat /\ Len(landed') = Len(landed) + 1
         /\ \A i \in 1..Len(landed) : landed'[i] = landed[i]
         /\ landed'[Len(landed) + 1] = Landed(p, t, s, told)
         /\ received' = Settled(t) + (IF s THEN p.amount ELSE 0)
         /\ received' \in Nat /\ oob' \in BOOLEAN
<1>1. landed' = Append(landed, Landed(p, t, s, told))
  BY DEF Lands, Landed
<1>2. Landed(p, t, s, told) \in Landing /\ landed \in Seq(Landing)
  BY LandedTyped DEF Typed
<1>3. Settled(t) \in Nat /\ p.amount \in Nat /\ oob \in BOOLEAN /\ PaidElsewhere(t) \in BOOLEAN
  BY SettledTyped DEF Cleared, Typed
<1>4. received' = Settled(t) + (IF s THEN p.amount ELSE 0) /\ oob' = (oob \/ PaidElsewhere(t))
  BY DEF Lands
<1> QED
  BY <1>1, <1>2, <1>3, <1>4, AppendProperties

----------------------------------------------------------------------------------
(* The first inductive invariant: types, one bucket, keys of the past.     *)

\* No key of the case carries the ordinal of its next decision.
KeysPast == \A k \in case.keys : k.ordinal < case.ordinal

Base == Typed /\ OpenBooks /\ OneBucket /\ KeysPast

LEMMA InitBase == Init => Base
<1> SUFFICES ASSUME Init  PROVE Base
  OBVIOUS
<1> USE DEF Init
<1>1. case \in CaseState
  BY DEF Opened, CaseState, CaseStatus
<1>2. result \in Result
  BY DEF NoResult, Result
<1>3. oob_at \in 0..(HorizonHours * Hour)
  <2>1. PICK h \in OobHours : oob_at = h * Hour
    OBVIOUS
  <2>2. h \in 0..HorizonHours /\ HorizonHours \in Nat
    BY RunAssumption, PolicyAssumption
  <2> QED
    BY <2>1, <2>2 DEF Hour
<1>4. clock \in 0..((HorizonHours + 24) * Hour) /\ steps \in 0..MaxSteps
  BY RunAssumption, PolicyAssumption DEF Hour
<1>5. landed \in Seq(Landing)
  OBVIOUS
<1>6. OpenBooks /\ KeysPast
  BY DEF OpenBooks, KeysPast, Opened
<1>7. OneBucket
  BY DEF OneBucket, NoResult
<1> QED
  BY <1>1, <1>2, <1>3, <1>4, <1>5, <1>6, <1>7 DEF Base, Typed

\* An executed action takes its own ordinal with it.
LEMMA GrownKeysPast ==
  ASSUME Typed, KeysPast, NEW p, NEW t, NEW readable, Cleared(p, t, readable),
         case' \in CaseState, SameBooks(case', Grown(p, t))
  PROVE  KeysPast'
<1>1. case'.keys = case.keys \union {action_key(p)} /\ case'.ordinal = case.ordinal + 1
  BY DEF SameBooks, Grown
<1>2. action_key(p).ordinal = case.ordinal /\ case.ordinal \in Nat
  BY DEF action_key, Cleared, Typed, CaseState
<1>3. \A k \in case.keys : k.ordinal \in Nat
  BY DEF Typed, CaseState, Key
<1> QED
  BY <1>1, <1>2, <1>3 DEF KeysPast

LEMMA AccountedBase ==
  ASSUME Base, ~closed, NEW p, NEW t, NEW readable, Cleared(p, t, readable),
         NEW s \in BOOLEAN, NEW was \in BOOLEAN, Account(p, t, s, was),
         received' \in Nat, oob' \in BOOLEAN, landed' \in Seq(Landing),
         steps < MaxSteps
  PROVE  Base'
<1>1. /\ UNCHANGED <<arm, event, oob_at>>
      /\ case' \in CaseState /\ SameBooks(case', Grown(p, t))
      /\ result' \in Result
  BY Accounting DEF Base
<1>2. KeysPast'
  BY <1>1, GrownKeysPast DEF Base
<1>3. CASE ~(s /\ p.amount > 0)
  <2>1. /\ Continue(Applied(p, t, s), t + 24 * Hour)
        /\ case'.status = "OPEN" /\ case'.collected = 0 /\ result' = NoResult
    BY <1>3, Accounting DEF Base
  <2>2. clock' = t + 24 * Hour /\ steps' = steps + 1 /\ closed' = closed
    BY <2>1 DEF Continue
  <2>3. clock' \in 0..((HorizonHours + 24) * Hour)
    <3>1. t \in Nat /\ ~PastHorizon(t) /\ 24 * Hour \in 0..(24 * Hour)
      BY DEF Cleared, Hour
    <3> QED
      BY <2>2, <3>1, DueTicks DEF Base
  <2>4. steps' \in 0..MaxSteps
    BY <2>2, RunAssumption DEF Base, Typed
  <2>5. Typed'
    BY <1>1, <2>2, <2>3, <2>4 DEF Base, Typed
  <2>6. OpenBooks' /\ OneBucket'
    BY <2>1, <2>2 DEF OpenBooks, OneBucket, NoResult
  <2> QED
    BY <1>2, <2>5, <2>6 DEF Base
<1>4. CASE s /\ p.amount > 0
  <2>1. /\ closed' = TRUE /\ UNCHANGED <<clock, steps>>
        /\ result'.recovered = (IF was THEN 0 ELSE 1)
        /\ result'.double = (IF was THEN 1 ELSE 0)
        /\ result'.elsewhere = 0 /\ result'.stopped + result'.abandoned = 0
    BY <1>4, Accounting DEF Base
  <2>2. OneBucket'
    BY <1>1, <2>1 DEF OneBucket, Result
  <2>3. Typed'
    BY <1>1, <2>1 DEF Base, Typed
  <2> QED
    BY <1>2, <2>1, <2>2, <2>3 DEF Base, OpenBooks
<1> QED
  BY <1>3, <1>4

LEMMA StepBase == Base /\ [Step]_vars => Base'
<1> SUFFICES ASSUME Base, [Step]_vars  PROVE Base'
  OBVIOUS
<1>1. CASE UNCHANGED vars
  BY <1>1 DEF Base, Typed, OpenBooks, OneBucket, KeysPast, vars, world
<1>2. CASE Step
  <2>1. ~closed /\ Turn
    BY <1>2, Turns DEF Base
  <2>2. CASE Closes \/ FindsMoney
    <3>1. /\ closed' = TRUE /\ UNCHANGED <<arm, event, oob_at, clock, steps, landed>>
          /\ case' \in CaseState /\ SameBooks(case', case) /\ result' \in Result
          /\ result'.recovered = 0 /\ result'.double = 0
          /\ result'.elsewhere + (result'.stopped + result'.abandoned) = 1
      BY <2>1, <2>2, Closing DEF Base
    <3>2. received' \in Nat /\ oob' \in BOOLEAN
      BY <2>2, NoWriteTyped DEF Base, Closes, FindsMoney
    <3>3. Typed'
      BY <3>1, <3>2 DEF Base, Typed
    <3>4. OneBucket'
      BY <3>1 DEF OneBucket, Result
    <3>5. OpenBooks' /\ KeysPast'
      BY <3>1 DEF Base, OpenBooks, KeysPast, SameBooks
    <3> QED
      BY <3>3, <3>4, <3>5 DEF Base
  <2>3. CASE Looping /\ Pauses
    <3>1. PICK t \in 0..((HorizonHours + 24) * Hour) : Continue(case, t)
      BY <2>3 DEF Pauses
    <3>2. received' \in Nat /\ oob' \in BOOLEAN /\ landed' = landed
      BY <2>3, NoWriteTyped DEF Base, Pauses
    <3>3. /\ UNCHANGED <<arm, event, oob_at, case, closed, result>>
          /\ clock' = t /\ steps' = steps + 1
      BY <3>1 DEF Continue, world
    <3>4. steps' \in 0..MaxSteps
      BY <2>3, <3>3, RunAssumption DEF Base, Typed, Looping
    <3> QED
      BY <3>1, <3>2, <3>3, <3>4 DEF Base, Typed, OpenBooks, OneBucket, KeysPast
  <2>4. ASSUME Looping, NEW p \in Proposal, NEW t \in Nat, NEW readable \in Reads,
               Cleared(p, t, readable), Writes(p, t, readable)
        PROVE  Base'
    <3> DEFINE was == WasSettled(t, readable)
    <3>1. was \in BOOLEAN /\ steps < MaxSteps
      BY <2>4 DEF WasSettled, Looping
    <3> HIDE DEF was
    <3>2. CASE Answered(p, t, was)
      <4>1. PICK s \in BOOLEAN : Lands(p, t, s, TRUE) /\ Account(p, t, s, was)
        BY <3>2 DEF Answered, CanSucceed
      <4>2. received' \in Nat /\ oob' \in BOOLEAN /\ landed' \in Seq(Landing)
        BY <2>4, <4>1, LandsTyped DEF Base
      <4> QED
        BY <2>1, <2>4, <3>1, <4>1, <4>2, AccountedBase
    <3>3. CASE AnsweredAgain(p, t, readable, was)
      <4>1. PICK i \in Copies(p) :
              GateRead(t, readable) /\ Account(p, t, landed[i].succeeded, was)
        BY <3>3 DEF AnsweredAgain
      <4>2. landed[i].succeeded \in BOOLEAN /\ landed \in Seq(Landing)
        <5>1. i \in 1..Len(landed) /\ landed \in Seq(Landing)
          BY <4>1 DEF Base, Typed, Copies
        <5>2. landed[i] \in Landing
          BY <5>1
        <5> QED
          BY <5>1, <5>2 DEF Landing
      <4>3. received' \in Nat /\ oob' \in BOOLEAN /\ landed' \in Seq(Landing)
        BY <4>1, <4>2, ReadsDoNotWrite, NoWriteTyped DEF Base
      <4> QED
        BY <2>1, <2>4, <3>1, <4>1, <4>2, <4>3, AccountedBase
    <3>4. CASE Unseen(p, t)
      <4>1. PICK s \in BOOLEAN : Lands(p, t, s, FALSE)
        BY <3>4 DEF Unseen, CanSucceed
      <4>2. received' \in Nat /\ oob' \in BOOLEAN /\ landed' \in Seq(Landing)
        BY <2>4, <4>1, LandsTyped DEF Base
      <4>3. /\ UNCHANGED <<arm, event, oob_at, case, closed, result>>
            /\ clock' = t + 24 * Hour /\ steps' = steps + 1
        BY <3>4 DEF Unseen, Continue, world
      <4>4. clock' \in 0..((HorizonHours + 24) * Hour) /\ steps' \in 0..MaxSteps
        <5>1. ~PastHorizon(t) /\ 24 * Hour \in 0..(24 * Hour)
          BY <2>4 DEF Cleared, Hour
        <5> QED
          BY <3>1, <4>3, <5>1, DueTicks, RunAssumption DEF Base, Typed
      <4> QED
        BY <4>2, <4>3, <4>4 DEF Base, Typed, OpenBooks, OneBucket, KeysPast
    <3> QED
      BY <2>4, <3>2, <3>3, <3>4 DEF Writes, was
  <2> QED
    BY <2>1, <2>2, <2>3, <2>4 DEF Turn
<1> QED
  BY <1>1, <1>2

\* In every reachable state every variable has its type: every tick worked is within a
\* day of the horizon, every sum is a sum, and no bucket counts a case twice, for
\* every arm, policy and model.  runner.py:163-276.
THEOREM TypeCorrect == Spec => []TypeOK
<1>1. Base => TypeOK
  <2> SUFFICES ASSUME Base  PROVE TypeOK
    OBVIOUS
  <2>1. \A i \in 1..Len(case.contacts) : case.contacts[i] \in 0..(HorizonHours * Hour)
    <3>1. case.contacts \in Seq(0..(HorizonHours * Hour))
      BY DEF Base, Typed, CaseState
    <3> QED
      BY <3>1, ElementOfSeq
  <2>2. \A i \in 1..Len(landed) : landed[i] \in Landing
    BY DEF Base, Typed
  <2>3. \A bucket \in DOMAIN result : result[bucket] \in {0, 1}
    BY DEF Base, Typed, Result
  <2> QED
    BY <2>1, <2>2, <2>3 DEF Base, Typed, TypeOK, CaseState
<1> QED
  BY <1>1, InitBase, StepBase, PTL DEF Spec

\* A closed case is in exactly one of the five buckets of the report, an open one in
\* none: the arms' totals add up.  runner.py:87-92, 270-276.
THEOREM CasesAreCountedOnce == Spec => []OneBucket
<1>1. Base => OneBucket
  BY DEF Base
<1> QED
  BY <1>1, InitBase, StepBase, PTL DEF Spec

\* Each turn that does not close the case moves its clock, by more than nothing, so the
\* horizon ends every case whatever a model proposes and however often the gate or the
\* provider refuses.  runner.py:173-268.
THEOREM ClockMovesOn == Spec => TimeMovesOn
<1>1. Base /\ [Step]_vars => [~closed' => clock' > clock]_vars
  <2> SUFFICES ASSUME Base, Step, ~closed'  PROVE clock' > clock
    BY DEF vars
  <2>1. clock \in Nat
    BY DEF Base, Typed
  <2>2. ~closed /\ Turn
    BY Turns DEF Base
  <2>3. ~(Closes \/ FindsMoney)
    BY <2>2, Closing DEF Base
  <2>4. CASE Pauses
    BY <2>1, <2>4 DEF Pauses, Continue
  <2>5. ASSUME NEW p \in Proposal, NEW t \in Nat, NEW readable \in Reads,
               Cleared(p, t, readable), Writes(p, t, readable)
        PROVE  clock' > clock
    <3>1. clock < t + 24 * Hour
      BY <2>1, <2>5 DEF Cleared, Hour
    <3>2. \A c : Continue(c, t + 24 * Hour) => clock' > clock
      BY <2>1, <3>1 DEF Continue, Hour
    <3>3. \A s, was : Account(p, t, s, was) => clock' > clock
      BY <3>2 DEF Account, Leave
    <3> QED
      BY <2>5, <3>2, <3>3 DEF Writes, Answered, AnsweredAgain, Unseen
  <2> QED
    BY <2>2, <2>3, <2>4, <2>5 DEF Turn
<1> QED
  BY <1>1, InitBase, StepBase, PTL DEF Spec, TimeMovesOn
----------------------------------------------------------------------------------
(* What a turn leaves behind, in the terms of the promises.                *)

\* Nothing is written, whether the case is closed or waits.
Idle ==
  /\ NoWrite
  /\ SameBooks(case', case)
  /\ closed' \/ clock < clock'
  /\ result'.recovered = 0 /\ result'.double = 0
  /\ result'.elsewhere = 1 => received' > 0

\* An executed action is booked, and counted if it brought money in.
Booked(p, t, s, was) ==
  /\ SameBooks(case', Grown(p, t))
  /\ closed' \/ t < clock'
  /\ result'.elsewhere = 0
  /\ result'.recovered = (IF s /\ p.amount > 0 /\ ~was THEN 1 ELSE 0)
  /\ result'.double = (IF s /\ p.amount > 0 /\ was THEN 1 ELSE 0)

\* It lands and the case is told; it landed before and the case is told now; it lands
\* and the case is not told.
Told(p, t, readable, s) ==
  /\ s \in CanSucceed(p)
  /\ Lands(p, t, s, TRUE)
  /\ Booked(p, t, s, WasSettled(t, readable))

ToldLate(p, t, readable, s) ==
  /\ \E i \in Copies(p) : s = landed[i].succeeded
  /\ NoWrite
  /\ Booked(p, t, s, WasSettled(t, readable))

Untold(p, t, s) ==
  /\ s \in CanSucceed(p)
  /\ Lands(p, t, s, FALSE)
  /\ SameBooks(case', case)
  /\ closed' \/ t < clock'
  /\ result' = NoResult

LEMMA Booking ==
  ASSUME Base, ~closed, NEW p, NEW t, NEW readable, Cleared(p, t, readable),
         NEW s \in BOOLEAN, NEW was \in BOOLEAN, Account(p, t, s, was)
  PROVE  Booked(p, t, s, was) /\ UNCHANGED <<arm, event, oob_at>>
<1>1. /\ UNCHANGED <<arm, event, oob_at>> /\ SameBooks(case', Grown(p, t))
  BY Accounting DEF Base
<1>2. CASE ~(s /\ p.amount > 0)
  <2>1. Continue(Applied(p, t, s), t + 24 * Hour) /\ result' = NoResult
    BY <1>2, Accounting DEF Base
  <2>2. clock' = t + 24 * Hour /\ t \in Nat
    BY <2>1 DEF Continue, Cleared
  <2>3. t < clock'
    BY <2>2 DEF Hour
  <2> QED
    BY <1>1, <1>2, <2>1, <2>3 DEF Booked, NoResult
<1>3. CASE s /\ p.amount > 0
  <2>1. /\ closed' = TRUE
        /\ result'.recovered = (IF was THEN 0 ELSE 1)
        /\ result'.double = (IF was THEN 1 ELSE 0) /\ result'.elsewhere = 0
    BY <1>3, Accounting DEF Base
  <2> QED
    BY <1>1, <1>3, <2>1 DEF Booked
<1> QED
  BY <1>2, <1>3

\* Every turn of the loop is of one of four kinds.
LEMMA Effects ==
  ASSUME Base, Step
  PROVE  /\ ~closed /\ UNCHANGED <<arm, event, oob_at>>
         /\ \/ Idle
            \/ \E p \in Proposal, t \in Nat, readable \in Reads, s \in BOOLEAN :
                 /\ Cleared(p, t, readable)
                 /\ \/ Told(p, t, readable, s)
                    \/ ToldLate(p, t, readable, s)
                    \/ Untold(p, t, s)
<1> DEFINE Kind(p, t, readable, s) ==
             \/ Told(p, t, readable, s) \/ ToldLate(p, t, readable, s) \/ Untold(p, t, s)
<1>1. ~closed /\ Turn
  BY Turns DEF Base
<1>2. case.status = "OPEN" /\ case.collected = 0 /\ result = NoResult
  BY <1>1 DEF Base, OpenBooks
<1>3. CASE Closes \/ FindsMoney
  <2>1. NoWrite
    BY <1>3 DEF Closes, FindsMoney
  <2> QED
    BY <1>1, <1>3, <2>1, Closing DEF Idle, Base
<1>4. CASE Looping /\ Pauses
  <2>1. /\ NoWrite /\ clock < clock' /\ case' = case /\ result' = NoResult
        /\ UNCHANGED <<arm, event, oob_at>>
    BY <1>2, <1>4 DEF Pauses, Continue, world
  <2> QED
    BY <1>1, <2>1 DEF Idle, SameBooks, NoResult
<1>5. ASSUME NEW p \in Proposal, NEW t \in Nat, NEW readable \in Reads,
             Cleared(p, t, readable), Writes(p, t, readable)
      PROVE  UNCHANGED <<arm, event, oob_at>> /\ \E s \in BOOLEAN : Kind(p, t, readable, s)
  <2> DEFINE was == WasSettled(t, readable)
  <2>1. was \in BOOLEAN
    BY DEF WasSettled
  <2> HIDE DEF was
  <2>2. CASE Answered(p, t, was)
    <3>1. PICK s \in CanSucceed(p) : Lands(p, t, s, TRUE) /\ Account(p, t, s, was)
      BY <2>2 DEF Answered
    <3>2. s \in BOOLEAN
      BY <3>1 DEF CanSucceed
    <3>3. Booked(p, t, s, was) /\ UNCHANGED <<arm, event, oob_at>>
      BY <1>1, <1>5, <2>1, <3>1, <3>2, Booking
    <3> QED
      BY <3>1, <3>2, <3>3 DEF Told, was
  <2>3. CASE AnsweredAgain(p, t, readable, was)
    <3>1. PICK i \in Copies(p) :
            GateRead(t, readable) /\ Account(p, t, landed[i].succeeded, was)
      BY <2>3 DEF AnsweredAgain
    <3>2. landed[i].succeeded \in BOOLEAN
      <4>1. i \in 1..Len(landed) /\ landed \in Seq(Landing)
        BY <3>1 DEF Base, Typed, Copies
      <4>2. landed[i] \in Landing
        BY <4>1
      <4> QED
        BY <4>2 DEF Landing
    <3>3. /\ Booked(p, t, landed[i].succeeded, was)
          /\ UNCHANGED <<arm, event, oob_at>> /\ NoWrite
      BY <1>1, <1>5, <2>1, <3>1, <3>2, Booking, ReadsDoNotWrite
    <3> QED
      BY <3>1, <3>2, <3>3 DEF ToldLate, was
  <2>4. CASE Unseen(p, t)
    <3>1. PICK s \in CanSucceed(p) : Lands(p, t, s, FALSE)
      BY <2>4 DEF Unseen
    <3>2. /\ s \in BOOLEAN /\ case' = case /\ clock' = t + 24 * Hour /\ result' = NoResult
          /\ UNCHANGED <<arm, event, oob_at>>
      BY <1>2, <2>4, <3>1 DEF Unseen, CanSucceed, Continue, world
    <3>3. t < clock'
      BY <3>2 DEF Hour
    <3> QED
      BY <3>1, <3>2, <3>3 DEF Untold, SameBooks
  <2> QED
    BY <1>5, <2>2, <2>3, <2>4 DEF Writes, was
<1> QED
  BY <1>1, <1>3, <1>4, <1>5 DEF Turn

\* What a landing does to what is said of the landings before it.
LEMMA Landings ==
  ASSUME Typed, NEW p, NEW t, NEW readable, Cleared(p, t, readable),
         NEW s \in BOOLEAN, NEW told \in BOOLEAN, Lands(p, t, s, told)
  PROVE  /\ 1..Len(landed') = 1..Len(landed) \union {Len(landed) + 1}
         /\ Len(landed) + 1 \notin 1..Len(landed)
         /\ landed'[Len(landed) + 1].key.intervention = p.intervention
         /\ landed'[Len(landed) + 1].key = action_key(p)
         /\ landed'[Len(landed) + 1].at = t
         /\ landed'[Len(landed) + 1].channel = p.channel
         /\ landed'[Len(landed) + 1].succeeded = s
         /\ landed'[Len(landed) + 1].told = told
         /\ AllTold' <=> AllTold /\ told
<1>1. /\ Len(landed) \in Nat /\ Len(landed') = Len(landed) + 1
      /\ \A i \in 1..Len(landed) : landed'[i] = landed[i]
      /\ landed'[Len(landed) + 1] = Landed(p, t, s, told)
  BY LandsTyped
<1>2. /\ 1..Len(landed') = 1..Len(landed) \union {Len(landed) + 1}
      /\ Len(landed) + 1 \notin 1..Len(landed)
  BY <1>1
<1>3. /\ landed'[Len(landed) + 1].key.intervention = p.intervention
      /\ landed'[Len(landed) + 1].key = action_key(p)
      /\ landed'[Len(landed) + 1].at = t
      /\ landed'[Len(landed) + 1].channel = p.channel
      /\ landed'[Len(landed) + 1].succeeded = s
      /\ landed'[Len(landed) + 1].told = told
  BY <1>1 DEF Landed, action_key
<1>4. AllTold' <=> AllTold /\ told
  BY <1>1, <1>2, <1>3 DEF AllTold
<1> QED
  BY <1>2, <1>3, <1>4

----------------------------------------------------------------------------------
(* The money, under the kernel: I1 and I3.                                 *)

\* What the kernel found nothing against.
LEMMA Passed ==
  ASSUME Typed, Gated, NEW p, NEW t, NEW readable, Cleared(p, t, readable)
  PROVE  /\ I3(p, event) = {} /\ I4(p, case, event, t) = {} /\ I5(p, event) = {}
         /\ I6(p, case, event) = {} /\ I7(p, case, t) = {}
         /\ readable \/ p.intervention = "HANDOFF_HUMAN"
         /\ readable => Settled(t) = 0
<1>1. Denials(p, t, readable) = {} /\ p.intervention \in GATED_INTERVENTIONS /\ t \in Nat
  BY DEF Gated, Typed, use_gate, Cleared
<1>2. readable \/ p.intervention \notin MONEY_MOVING
  BY <1>1 DEF Denials, denials
<1> DEFINE checks == {I1(p, case, readable /\ Settled(t) > 0), I2(p, case), I3(p, event),
                      I4(p, case, event, t), I5(p, event), I6(p, case, event),
                      I7(p, case, t)}
<1>3. UNION checks = {}
  BY <1>1, <1>2 DEF Denials, denials
<1>4. \A check \in checks : check = {}
  BY <1>3
<1>5. /\ I1(p, case, readable /\ Settled(t) > 0) = {}
      /\ I3(p, event) = {} /\ I4(p, case, event, t) = {} /\ I5(p, event) = {}
      /\ I6(p, case, event) = {} /\ I7(p, case, t) = {}
  BY <1>4
<1>6. ~(readable /\ Settled(t) > 0)
  BY <1>1, <1>5 DEF I1
<1>7. Settled(t) \in Nat
  BY <1>1, SettledTyped
<1>8. p.intervention \notin MONEY_MOVING => p.intervention = "HANDOFF_HUMAN"
  BY <1>1 DEF GATED_INTERVENTIONS
<1> QED
  BY <1>2, <1>5, <1>6, <1>7, <1>8

\* No order is for nothing.
LEMMA OrdersAreSized ==
  ASSUME Typed, SizedOrders
  PROVE  /\ event.amount \in Nat /\ event.amount > 0
         /\ PartFloor(event) \in Int /\ PartFloor(event) > 0
<1>1. event \in Events /\ event \in Event
  BY RunAssumption DEF Typed
<1>2. event.amount \in Nat
  BY <1>1 DEF Event
<1>3. part_amount(event) \in 0..event.amount /\ PartFloor(event) \in 0..part_amount(event)
  BY <1>1, PartAmounts
<1>4. PartFloor(event) > 0
  BY <1>1 DEF SizedOrders
<1> QED
  BY <1>2, <1>3, <1>4

\* What may be asked for is something, and no more than the order.
LEMMA AskedIsOwed ==
  ASSUME Typed, SizedOrders, NEW p, p.intervention \in GATED_INTERVENTIONS,
         p.amount \in Nat, I3(p, event) = {}
  PROVE  p.amount > 0 /\ p.amount <= event.amount
<1>1. /\ event.amount \in Nat /\ event.amount > 0
      /\ PartFloor(event) \in Int /\ PartFloor(event) > 0
  BY OrdersAreSized
<1>2. p.amount <= event.amount
  BY <1>1 DEF I3
<1>3. CASE p.intervention = "PART_PAYMENT_LINK"
  <2>1. ~(p.amount < PartFloor(event))
    BY <1>3 DEF I3
  <2> QED
    BY <1>1, <1>2, <2>1
<1>4. CASE p.intervention # "PART_PAYMENT_LINK"
  BY <1>1, <1>4 DEF I3
<1> QED
  BY <1>2, <1>3, <1>4

\* What is settled out of band is the order.
LEMMA SettledIsOwed ==
  ASSUME Typed, SizedOrders, NEW t \in Nat, received <= event.amount
  PROVE  /\ event.amount > 0 /\ Settled(t) <= event.amount
         /\ PaidElsewhere(t) => received = 0 /\ Settled(t) = event.amount
         /\ ~PaidElsewhere(t) => Settled(t) = received
<1>1. event \in Events /\ event \in Event /\ event.amount \in Nat /\ received \in Nat
  BY RunAssumption DEF Typed, Event
<1>2. event.amount > 0
  BY OrdersAreSized
<1> QED
  BY <1>1, <1>2 DEF Settled, PaidElsewhere

Paid ==
  /\ received <= event.amount
  /\ oob => received > 0

Counted ==
  /\ result.double = 0
  /\ result.recovered = 1 => ~oob /\ received > 0
  /\ result.elsewhere = 1 => received > 0

\* What succeeded brought its money, and a handoff needs reads to succeed.
Earned ==
  \A i \in 1..Len(landed) :
    landed[i].succeeded =>
      /\ received > 0
      /\ landed[i].key.intervention = "HANDOFF_HUMAN" => FALSE \notin Reads

\* Money that no arm is credited with was paid out of band.
Explained == AllTold /\ received > 0 /\ result.recovered = 0 => oob

Money == Base /\ Paid /\ Counted /\ Earned /\ Explained /\ NeverChasesMoney

\* A success of what the kernel cleared is the order's first money.
LEMMA FirstMoney ==
  ASSUME Typed, Paid, Earned, Gated, SizedOrders,
         NEW p, NEW t, NEW readable \in BOOLEAN, Cleared(p, t, readable)
  PROVE  /\ p.amount > 0 /\ p.amount <= event.amount
         /\ readable => /\ received = 0 /\ ~PaidElsewhere(t) /\ Settled(t) = 0 /\ ~oob
                        /\ ~WasSettled(t, readable)
         /\ TRUE \in CanSucceed(p) => readable
         /\ \A i \in Copies(p) : ~landed[i].succeeded
<1>1. /\ p.intervention \in GATED_INTERVENTIONS /\ p.amount \in Nat /\ t \in Nat
      /\ readable \in Reads /\ received \in Nat /\ oob \in BOOLEAN
  BY DEF Cleared, Typed
<1>2. p.amount > 0 /\ p.amount <= event.amount
  BY <1>1, Passed, AskedIsOwed
<1>3. ASSUME readable
      PROVE  received = 0 /\ ~PaidElsewhere(t) /\ Settled(t) = 0 /\ ~oob
  <2>1. Settled(t) = 0 /\ event.amount > 0 /\ received <= Settled(t)
    BY <1>1, <1>3, Passed, SettledIsOwed, SettledTyped DEF Paid
  <2>2. received = 0 /\ ~PaidElsewhere(t)
    BY <1>1, <2>1, SettledIsOwed DEF Paid
  <2> QED
    BY <2>1, <2>2 DEF Paid
<1>4. readable => ~WasSettled(t, readable)
  BY <1>1, <1>3 DEF WasSettled
<1>5. TRUE \in CanSucceed(p) => readable
  BY <1>1, Passed DEF CanSucceed
<1>6. ASSUME NEW i \in Copies(p), landed[i].succeeded  PROVE FALSE
  <2>1. i \in 1..Len(landed) /\ landed[i].key.intervention = p.intervention
    BY <1>6 DEF Copies, action_key
  <2>2. received > 0
    BY <1>6, <2>1 DEF Earned
  <2>3. ~readable
    BY <1>1, <1>3, <2>2
  <2>4. p.intervention = "HANDOFF_HUMAN" /\ FALSE \in Reads
    BY <1>1, <2>3, Passed
  <2> QED
    BY <1>6, <2>1, <2>4 DEF Earned
<1> QED
  BY <1>2, <1>3, <1>4, <1>5, <1>6

\* Reading never takes money away, and what it finds was paid out of band.
LEMMA ReadingMoney ==
  ASSUME Typed, SizedOrders, Paid, NoWrite, UNCHANGED event
  PROVE  /\ Paid'
         /\ received <= received' /\ (oob => oob')
         /\ received' > 0 /\ received = 0 => oob'
<1>1. event.amount > 0 /\ event.amount \in Nat /\ received \in Nat /\ oob \in BOOLEAN
  BY OrdersAreSized DEF Typed
<1>2. CASE UNCHANGED <<received, oob>>
  BY <1>1, <1>2 DEF Paid
<1>3. ASSUME NEW t \in Nat, received' = Settled(t), oob' = (oob \/ PaidElsewhere(t))
      PROVE  /\ received' <= event.amount /\ (oob' => received' > 0)
             /\ received <= received' /\ (oob => oob')
             /\ received' > 0 /\ received = 0 => oob'
  <2>1. /\ Settled(t) <= event.amount
        /\ PaidElsewhere(t) => received = 0 /\ Settled(t) = event.amount
        /\ ~PaidElsewhere(t) => Settled(t) = received
    BY SettledIsOwed DEF Paid
  <2>2. CASE PaidElsewhere(t)
    <3>1. oob' = TRUE
      BY <1>1, <1>3, <2>2
    <3> QED
      BY <1>1, <1>3, <2>1, <2>2, <3>1
  <2>3. CASE ~PaidElsewhere(t)
    <3>1. received' = received /\ oob' = oob
      BY <1>1, <1>3, <2>1, <2>3
    <3> QED
      BY <1>1, <3>1 DEF Paid
  <2> QED
    BY <2>2, <2>3
<1> QED
  BY <1>2, <1>3 DEF NoWrite, Paid

LEMMA InitMoney == Init => Money
<1> SUFFICES ASSUME Init  PROVE Money
  OBVIOUS
<1>1. Base
  BY InitBase
<1>2. Paid
  <2>1. event \in Event
    BY RunAssumption DEF Init
  <2> QED
    BY <2>1 DEF Init, Paid, Event
<1>3. Counted /\ Explained
  BY DEF Init, Counted, Explained, NoResult
<1>4. Earned /\ NeverChasesMoney
  BY DEF Init, Earned, NeverChasesMoney
<1> QED
  BY <1>1, <1>2, <1>3, <1>4 DEF Money

\* Looking is harmless.
LEMMA ReadMoney ==
  ASSUME SizedOrders, Money, ~closed, UNCHANGED <<event, oob_at>>, NoWrite,
         result'.recovered = 0, result'.double = 0, result'.elsewhere = 1 => received' > 0
  PROVE  Paid' /\ Counted' /\ Earned' /\ Explained' /\ NeverChasesMoney'
<1>1. /\ Typed /\ Paid /\ NoWrite /\ landed' = landed
      /\ result.recovered = 0 /\ result'.recovered = 0 /\ result'.double = 0
      /\ result'.elsewhere = 1 => received' > 0
      /\ received \in Nat /\ received' \in Nat
  BY NoWriteTyped DEF Money, Base, Typed, NoWrite, OpenBooks, NoResult
<1>2. /\ Paid' /\ received <= received' /\ (oob => oob')
      /\ received' > 0 /\ received = 0 => oob'
  BY <1>1, ReadingMoney
<1>3. Counted'
  BY <1>1 DEF Counted
<1>4. Earned'
  <2>1. received > 0 => received' > 0
    BY <1>1, <1>2
  <2> QED
    BY <1>1, <2>1 DEF Money, Earned
<1>5. Explained'
  BY <1>1, <1>2 DEF Money, Explained, AllTold
<1>6. NeverChasesMoney'
  BY <1>1 DEF Money, NeverChasesMoney, Chases
<1> QED
  BY <1>2, <1>3, <1>4, <1>5, <1>6

\* What lands, known or not, is the order's first money or none, and chases none.
LEMMA LandingMoney ==
  ASSUME Gated, SizedOrders, Money, ~closed, UNCHANGED <<arm, event, oob_at>>,
         NEW p, NEW t, NEW readable \in BOOLEAN, Cleared(p, t, readable),
         NEW s \in CanSucceed(p), NEW told \in BOOLEAN, Lands(p, t, s, told)
  PROVE  /\ Paid' /\ Earned' /\ NeverChasesMoney'
         /\ received' > 0 /\ ~s /\ AllTold => oob'
         /\ s => /\ received' > 0 /\ ~oob' /\ p.amount > 0
                 /\ ~WasSettled(t, readable)
<1>1. /\ Typed /\ Paid /\ Earned /\ result.recovered = 0
      /\ received \in Nat /\ oob \in BOOLEAN /\ s \in BOOLEAN /\ t \in Nat
      /\ p.intervention \in GATED_INTERVENTIONS /\ readable \in Reads
  <2>1. Typed /\ Paid /\ Earned /\ OpenBooks
    BY DEF Money, Base
  <2>2. result.recovered = 0
    BY <2>1 DEF OpenBooks, NoResult
  <2>3. received \in Nat /\ oob \in BOOLEAN
    BY <2>1 DEF Typed
  <2>4. s \in BOOLEAN
    BY DEF CanSucceed
  <2>5. t \in Nat /\ p.intervention \in GATED_INTERVENTIONS /\ readable \in Reads
    BY DEF Cleared
  <2> QED
    BY <2>1, <2>2, <2>3, <2>4, <2>5
<1>2. /\ p.amount > 0 /\ p.amount <= event.amount /\ p.amount \in Nat
      /\ readable => /\ received = 0 /\ ~PaidElsewhere(t) /\ Settled(t) = 0 /\ ~oob
                     /\ ~WasSettled(t, readable)
      /\ s => readable
  BY <1>1, FirstMoney DEF Cleared
<1>3. /\ event.amount > 0 /\ Settled(t) <= event.amount
      /\ PaidElsewhere(t) => received = 0 /\ Settled(t) = event.amount
      /\ ~PaidElsewhere(t) => Settled(t) = received
      /\ event.amount \in Nat
  BY <1>1, SettledIsOwed, OrdersAreSized DEF Paid
<1>4. /\ received' = Settled(t) + (IF s THEN p.amount ELSE 0)
      /\ oob' = (oob \/ PaidElsewhere(t))
  BY DEF Lands
<1>5. ASSUME s
      PROVE  /\ received' > 0 /\ received' <= event.amount /\ received' \in Nat
             /\ received = 0 /\ ~oob' /\ ~WasSettled(t, readable)
  <2>1. /\ received = 0 /\ ~PaidElsewhere(t) /\ Settled(t) = 0 /\ ~oob
        /\ ~WasSettled(t, readable)
    BY <1>2, <1>5
  <2>2. received' = 0 + p.amount
    BY <1>4, <1>5, <2>1
  <2>3. ~oob'
    BY <1>4, <2>1
  <2> QED
    BY <1>2, <2>1, <2>2, <2>3
<1>6. ASSUME ~s
      PROVE  /\ received <= received' /\ received' <= event.amount /\ received' \in Nat
             /\ oob' => received' > 0
             /\ received' > 0 /\ AllTold => oob'
  <2>1. received' = Settled(t)
    BY <1>1, <1>3, <1>4, <1>6, SettledTyped
  <2>2. CASE PaidElsewhere(t)
    <3>1. oob' = TRUE
      BY <1>1, <1>4, <2>2
    <3> QED
      BY <1>1, <1>3, <2>1, <2>2, <3>1
  <2>3. CASE ~PaidElsewhere(t)
    <3>1. received' = received /\ oob' = oob
      BY <1>1, <1>3, <1>4, <2>1, <2>3
    <3>2. received > 0 /\ AllTold => oob
      BY <1>1 DEF Money, Explained
    <3> QED
      BY <1>1, <3>1, <3>2 DEF Paid
  <2> QED
    BY <2>2, <2>3
<1>7. Paid'
  BY <1>1, <1>5, <1>6 DEF Paid
<1>8. received > 0 => received' > 0
  BY <1>1, <1>5, <1>6
<1>0. PICK n : n = Len(landed) + 1
  OBVIOUS
<1>9. /\ 1..Len(landed') = 1..Len(landed) \union {n} /\ n \notin 1..Len(landed)
      /\ landed'[n].key.intervention = p.intervention
      /\ landed'[n].at = t /\ landed'[n].succeeded = s
      /\ \A i \in 1..Len(landed) : landed'[i] = landed[i]
      /\ Len(landed) \in Nat
  BY <1>0, <1>1, LandsTyped, Landings
<1>10. Earned'
  <2>1. s /\ p.intervention = "HANDOFF_HUMAN" => FALSE \notin Reads
    BY DEF CanSucceed
  <2>2. ASSUME NEW i \in 1..Len(landed), landed'[i].succeeded
        PROVE  /\ received' > 0
               /\ landed'[i].key.intervention = "HANDOFF_HUMAN" => FALSE \notin Reads
    BY <1>1, <1>8, <1>9, <2>2 DEF Earned
  <2>3. landed'[n].succeeded =>
          /\ received' > 0
          /\ landed'[n].key.intervention = "HANDOFF_HUMAN" => FALSE \notin Reads
    BY <1>5, <1>9, <2>1
  <2> QED
    BY <1>9, <2>2, <2>3 DEF Earned
<1>11. NeverChasesMoney'
  <2>1. ASSUME NEW i \in 1..Len(landed), landed[i].key.intervention \in MONEY_MOVING
        PROVE  ~Chases(i)'
    <3>1. ~Chases(i)
      BY <2>1 DEF Money, NeverChasesMoney
    <3>2. \A j \in 1..(i - 1) : j \in 1..Len(landed)
      BY <1>9
    <3>3. /\ landed'[i].at = landed[i].at
          /\ \A j \in 1..(i - 1) : landed'[j].succeeded = landed[j].succeeded
      BY <1>9, <3>2
    <3> QED
      BY <3>1, <3>3 DEF Chases
  <2>2. ASSUME p.intervention \in MONEY_MOVING
        PROVE  ~Chases(n)'
    <3>1. readable
      BY <1>1, <2>2, Passed DEF MONEY_MOVING, RETRY_INTERVENTIONS, LINK_INTERVENTIONS
    <3>2. ~(oob_at < HorizonHours * Hour /\ oob_at <= t)
      BY <1>2, <3>1 DEF PaidElsewhere
    <3>3. \A j \in 1..Len(landed) : ~landed[j].succeeded
      BY <1>1, <1>2, <3>1 DEF Earned
    <3>4. 1..(n - 1) = 1..Len(landed)
      BY <1>0, <1>9
    <3>5. \A j \in 1..(n - 1) : ~landed'[j].succeeded
      BY <1>9, <3>3, <3>4
    <3> QED
      BY <1>9, <3>2, <3>5 DEF Chases
  <2>3. \A i \in 1..Len(landed) : landed'[i].key = landed[i].key
    BY <1>9
  <2> QED
    BY <1>9, <2>1, <2>2, <2>3 DEF NeverChasesMoney
<1> QED
  BY <1>2, <1>5, <1>6, <1>7, <1>10, <1>11

LEMMA StepMoney ==
  ASSUME Gated, SizedOrders
  PROVE  Money /\ [Step]_vars => Money'
<1> SUFFICES ASSUME Money, [Step]_vars  PROVE Money'
  OBVIOUS
<1>1. Base'
  BY StepBase DEF Money
<1>2. CASE UNCHANGED vars
  <2>1. UNCHANGED <<event, oob_at, received, oob, landed, result>>
    BY <1>2 DEF vars, world
  <2> QED
    BY <1>1, <2>1
       DEF Money, Paid, Counted, Earned, Explained, AllTold, NeverChasesMoney, Chases
<1>3. CASE Step
  <2>1. ~closed /\ UNCHANGED <<arm, event, oob_at>>
    BY <1>3, Effects DEF Money
  <2>2. CASE Idle
    BY <1>1, <2>1, <2>2, ReadMoney DEF Money, Idle
  <2>3. ASSUME NEW p \in Proposal, NEW t \in Nat, NEW readable \in Reads, NEW s \in BOOLEAN,
               Cleared(p, t, readable),
               \/ Told(p, t, readable, s)
               \/ ToldLate(p, t, readable, s)
               \/ Untold(p, t, s)
        PROVE  Money'
    <3>1. readable \in BOOLEAN /\ result = NoResult
      BY <2>1, RunAssumption DEF Money, Base, OpenBooks
    <3>2. CASE Told(p, t, readable, s)
      <4>1. s \in CanSucceed(p) /\ Lands(p, t, s, TRUE)
        BY <3>2 DEF Told
      <4>2. /\ Paid' /\ Earned' /\ NeverChasesMoney'
            /\ received' > 0 /\ ~s /\ AllTold => oob'
            /\ s => /\ received' > 0 /\ ~oob' /\ p.amount > 0
                    /\ ~WasSettled(t, readable)
        BY <2>1, <2>3, <3>1, <4>1, LandingMoney
      <4>3. /\ result'.elsewhere = 0 /\ result'.double = 0
            /\ result'.recovered = IF s THEN 1 ELSE 0
        BY <3>2, <4>2 DEF Told, Booked
      <4>4. AllTold' => AllTold
        BY <2>3, <4>1, Landings DEF Money, Base
      <4>5. Counted' /\ Explained'
        BY <4>2, <4>3, <4>4 DEF Counted, Explained
      <4> QED
        BY <1>1, <4>2, <4>5 DEF Money
    <3>3. CASE ToldLate(p, t, readable, s)
      <4>1. ~s
        BY <2>3, <3>1, <3>3, FirstMoney DEF ToldLate, Money, Base
      <4>2. /\ NoWrite /\ result'.recovered = 0 /\ result'.double = 0 /\ result'.elsewhere = 0
        BY <3>3, <4>1 DEF ToldLate, Booked
      <4>3. Paid' /\ Counted' /\ Earned' /\ Explained' /\ NeverChasesMoney'
        BY <2>1, <4>2, ReadMoney
      <4> QED
        BY <1>1, <4>3 DEF Money
    <3>4. CASE Untold(p, t, s)
      <4>1. s \in CanSucceed(p) /\ Lands(p, t, s, FALSE) /\ result' = NoResult
        BY <3>4 DEF Untold
      <4>2. Paid' /\ Earned' /\ NeverChasesMoney'
        BY <2>1, <2>3, <3>1, <4>1, LandingMoney
      <4>3. ~AllTold'
        BY <2>3, <4>1, Landings DEF Money, Base
      <4>4. Counted' /\ Explained'
        BY <4>1, <4>3 DEF Counted, Explained, NoResult
      <4> QED
        BY <1>1, <4>2, <4>4 DEF Money
    <3> QED
      BY <2>3, <3>2, <3>3, <3>4
  <2> QED
    BY <1>3, <2>2, <2>3, Effects DEF Money
<1> QED
  BY <1>2, <1>3

\* I1 and I3 together: under the kernel and whatever a model proposes, the order is paid
\* at most once and never beyond its amount; no case is a double charge.
\* invariants.py:78-100, 138-197, runner.py:247-266.
THEOREM OrdersArePaidOnce ==
  ASSUME Gated, SizedOrders
  PROVE  Spec => []PaidAtMostOnce
<1>1. Money => PaidAtMostOnce
  BY DEF Money, Paid, Counted, PaidAtMostOnce
<1> QED
  BY <1>1, InitMoney, StepMoney, PTL DEF Spec

\* Under the kernel no action that moves money lands on an order that was paid before,
\* by us or by another route, even if settlements cannot always be read: what cannot be
\* read is refused.  gate.py:79-108.
THEOREM PaidOrdersAreLeftAlone ==
  ASSUME Gated, SizedOrders
  PROVE  Spec => []NeverChasesMoney
<1>1. Money => NeverChasesMoney
  BY DEF Money
<1> QED
  BY <1>1, InitMoney, StepMoney, PTL DEF Spec

\* Under the kernel the report's buckets tell the truth about whose money it was.
\* runner.py:231-266.
THEOREM CreditIsHonest ==
  ASSUME Gated, SizedOrders
  PROVE  Spec => []HonestCredit
<1>1. Money => HonestCredit
  <2> SUFFICES ASSUME Money  PROVE HonestCredit
    OBVIOUS
  <2>1. CreditIsOurs
    BY DEF Money, Counted, CreditIsOurs
  <2>2. AllTold /\ result.elsewhere = 1 => oob
    <3>1. result.elsewhere = 1 => result.recovered = 0
      BY DEF Money, Base, Typed, Result, OneBucket
    <3> QED
      BY <3>1 DEF Money, Counted, Explained
  <2>3. result.double # 1
    BY DEF Money, Counted
  <2> QED
    BY <2>1, <2>2, <2>3 DEF HonestCredit
<1> QED
  BY <1>1, InitMoney, StepMoney, PTL DEF Spec

----------------------------------------------------------------------------------
(* The work, under the kernel: I6 and I7.                                  *)

Replays == {i \in 1..Len(landed) : landed[i].key.intervention \in RETRY_INTERVENTIONS}

\* The books of the case stay within the caps, and what landed within the books.
Bounded ==
  /\ case.attempts <= MaxMoneyActions /\ case.retries <= MaxAutoRetries
  /\ AllTold => Len(landed) <= case.attempts /\ Cardinality(Replays) <= case.retries
  /\ \A i \in 1..Len(landed) : ~PastHorizon(landed[i].at)

\* One more of a finite set of numbers is one more to count.
LEMMA OneMore ==
  ASSUME NEW n \in Nat, NEW S \in SUBSET (1..n), NEW k
  PROVE  /\ Cardinality(S) \in Nat /\ Cardinality(S \union {k}) \in Nat
         /\ Cardinality(S \union {k}) <= Cardinality(S) + 1
         /\ k \notin S => Cardinality(S \union {k}) = Cardinality(S) + 1
<1>1. IsFiniteSet(S)
  <2>1. IsFiniteSet(1..n)
    BY FS_Interval
  <2> QED
    BY <2>1, FS_Subset
<1>2. Cardinality(S) \in Nat /\ IsFiniteSet(S \union {k})
  BY <1>1, FS_CardinalityType, FS_AddElement
<1>3. Cardinality(S \union {k}) = IF k \in S THEN Cardinality(S) ELSE Cardinality(S) + 1
  BY <1>1, FS_AddElement
<1> QED
  BY <1>2, <1>3

LEMMA StepBounded ==
  ASSUME Gated, Base, Bounded, [Step]_vars
  PROVE  Bounded'
<1>1. CASE UNCHANGED vars
  BY <1>1 DEF vars, world, Bounded, AllTold, Replays
<1>2. CASE Step
  <2>1. ~closed /\ UNCHANGED <<arm, event, oob_at>>
    BY <1>2, Effects
  <2>2. ASSUME landed' = landed, SameBooks(case', case)
        PROVE  Bounded'
    BY <2>2 DEF Bounded, AllTold, Replays, SameBooks
  <2>3. ASSUME NEW p \in Proposal, NEW t \in Nat, NEW readable \in Reads, NEW s \in BOOLEAN,
               Cleared(p, t, readable),
               \/ Told(p, t, readable, s)
               \/ ToldLate(p, t, readable, s)
               \/ Untold(p, t, s)
        PROVE  Bounded'
    <3>1. /\ p.intervention \in GATED_INTERVENTIONS /\ ~PastHorizon(t)
          /\ I6(p, case, event) = {} /\ I7(p, case, t) = {} /\ Typed
      BY <2>3, Passed DEF Cleared, Base
    <3>2. /\ case.attempts \in Nat /\ case.retries \in Nat
          /\ MaxMoneyActions \in Nat /\ MaxAutoRetries \in Nat
      BY <3>1, PolicyAssumption DEF Typed, CaseState
    <3>3. case.attempts + 1 <= MaxMoneyActions
      BY <3>1, <3>2 DEF I7
    <3>4. p.intervention \in RETRY_INTERVENTIONS => case.retries + 1 <= MaxAutoRetries
      BY <3>1, <3>2 DEF I6
    <3>5. SameBooks(case', Grown(p, t)) =>
            /\ case'.attempts = case.attempts + 1
            /\ case'.retries = IF p.intervention \in RETRY_INTERVENTIONS
                                 THEN case.retries + 1 ELSE case.retries
            /\ case'.attempts <= MaxMoneyActions /\ case'.retries <= MaxAutoRetries
      BY <3>2, <3>3, <3>4 DEF SameBooks, Grown, Bounded
    <3>6. Len(landed) \in Nat /\ Replays \in SUBSET (1..Len(landed))
      BY <3>1 DEF Typed, Replays
    <3>7. Cardinality(Replays) \in Nat
      BY <3>6, OneMore
    <3>8. ASSUME NEW told \in BOOLEAN, Lands(p, t, s, told),
                 IF told THEN SameBooks(case', Grown(p, t)) ELSE SameBooks(case', case)
          PROVE  Bounded'
      <4>0. PICK n : n = Len(landed) + 1
        OBVIOUS
      <4>1. /\ 1..Len(landed') = 1..Len(landed) \union {n} /\ n \notin 1..Len(landed)
            /\ landed'[n].key.intervention = p.intervention /\ landed'[n].at = t
            /\ AllTold' <=> AllTold /\ told
            /\ \A i \in 1..Len(landed) : landed'[i] = landed[i]
            /\ Len(landed') = Len(landed) + 1
        BY <2>3, <3>1, <3>8, <4>0, Landings, LandsTyped
      <4>2. \A i \in 1..Len(landed') : ~PastHorizon(landed'[i].at)
        BY <3>1, <4>1 DEF Bounded
      <4>3. case'.attempts <= MaxMoneyActions /\ case'.retries <= MaxAutoRetries
        BY <3>5, <3>8 DEF Bounded, SameBooks
      <4>4. ASSUME AllTold'
            PROVE  Len(landed') <= case'.attempts /\ Cardinality(Replays') <= case'.retries
        <5>1. /\ Len(landed) <= case.attempts /\ Cardinality(Replays) <= case.retries
              /\ case'.attempts = case.attempts + 1
              /\ case'.retries = IF p.intervention \in RETRY_INTERVENTIONS
                                   THEN case.retries + 1 ELSE case.retries
          BY <3>5, <3>8, <4>1, <4>4 DEF Bounded
        <5>2. Len(landed') <= case'.attempts
          BY <3>2, <3>6, <4>1, <5>1
        <5>3. Replays' = IF p.intervention \in RETRY_INTERVENTIONS
                           THEN Replays \union {n} ELSE Replays
          BY <4>1 DEF Replays
        <5>4. Cardinality(Replays \union {n}) <= Cardinality(Replays) + 1
              /\ Cardinality(Replays \union {n}) \in Nat
          BY <3>6, OneMore
        <5>5. Cardinality(Replays') <= case'.retries
          BY <3>2, <3>7, <5>1, <5>3, <5>4
        <5> QED
          BY <5>2, <5>5
      <4> QED
        BY <4>2, <4>3, <4>4 DEF Bounded
    <3>9. CASE Told(p, t, readable, s)
      BY <3>8, <3>9 DEF Told, Booked
    <3>10. CASE ToldLate(p, t, readable, s)
      <4>1. landed' = landed /\ SameBooks(case', Grown(p, t))
        BY <3>10 DEF ToldLate, Booked, NoWrite
      <4>2. case.attempts <= case'.attempts /\ case.retries <= case'.retries
        BY <3>2, <3>5, <4>1
      <4>3. AllTold' => AllTold
        BY <4>1 DEF AllTold
      <4>4. AllTold' => Len(landed') <= case'.attempts /\ Cardinality(Replays') <= case'.retries
        <5>1. Replays' = Replays /\ Len(landed') = Len(landed)
          BY <4>1 DEF Replays
        <5>2. case'.attempts \in Nat /\ case'.retries \in Nat
          BY <3>2, <3>5, <4>1
        <5>3. AllTold' => Len(landed) <= case.attempts /\ Cardinality(Replays) <= case.retries
          BY <4>3 DEF Bounded
        <5> QED
          BY <3>2, <3>6, <3>7, <4>2, <5>1, <5>2, <5>3
      <4> QED
        BY <3>5, <4>1, <4>4 DEF Bounded
    <3>11. CASE Untold(p, t, s)
      BY <3>8, <3>11 DEF Untold
    <3> QED
      BY <2>3, <3>9, <3>10, <3>11
  <2> QED
    BY <1>2, <2>2, <2>3, Effects DEF Idle, NoWrite
<1> QED
  BY <1>1, <1>2

\* I6 and I7 as the provider sees them: under the kernel the actions that took effect stay
\* within the attempt cap and the replays among them within theirs, through every repair
\* and every lost answer that was reconciled; and none is too late.
\* invariants.py:292-340, 364-410.
THEOREM WorkStaysWithinCaps ==
  ASSUME Gated
  PROVE  Spec => []WorkIsBounded
<1>1. Init => Bounded
  <2> SUFFICES ASSUME Init  PROVE Bounded
    OBVIOUS
  <2>1. case.attempts = 0 /\ case.retries = 0 /\ landed = <<>>
    BY DEF Init, Opened
  <2>2. Replays = {} /\ Len(landed) = 0
    BY <2>1 DEF Replays
  <2>3. MaxMoneyActions \in Nat /\ MaxAutoRetries \in Nat /\ Cardinality(Replays) = 0
    BY <2>2, PolicyAssumption, FS_EmptySet
  <2> QED
    BY <2>1, <2>2, <2>3 DEF Bounded
<1>2. Base /\ Bounded => WorkIsBounded
  <2> SUFFICES ASSUME Base, Bounded  PROVE WorkIsBounded
    OBVIOUS
  <2>1. /\ Len(landed) \in Nat /\ Replays \in SUBSET (1..Len(landed))
        /\ case.attempts \in Nat /\ case.retries \in Nat
    BY DEF Base, Typed, Replays, CaseState
  <2>2. Cardinality(Replays) \in Nat /\ MaxMoneyActions \in Nat /\ MaxAutoRetries \in Nat
    BY <2>1, OneMore, PolicyAssumption
  <2>3. AllTold => Len(landed) <= MaxMoneyActions /\ Cardinality(Replays) <= MaxAutoRetries
    BY <2>1, <2>2 DEF Bounded
  <2> QED
    BY <2>3 DEF Bounded, WorkIsBounded, Replays
<1>3. Base /\ Bounded /\ [Step]_vars => Bounded'
  BY StepBounded
<1> QED
  BY <1>1, <1>2, <1>3, InitBase, StepBase, PTL DEF Spec

----------------------------------------------------------------------------------
(* The contacts: I4 and I5, under the kernel and under the rules.          *)

\* Nothing landed after now.
LandedByNow == ~closed => \A i \in 1..Len(landed) : landed[i].at <= clock

ContactsSince(since) == {i \in Contacts : landed[i].at >= since}

\* As long as the case is told, its own book of contacts, which is what the checks
\* read, holds at least what the customer saw, over every window.
InStep ==
  AllTold =>
    /\ \A since \in Int :
         Cardinality(ContactsSince(since)) <= Cardinality(contacts_since(case, since))
    /\ \A i \in Contacts :
         case.contacts # <<>> /\ landed[i].at <= case.contacts[Len(case.contacts)]

LEMMA ContactSets ==
  ASSUME Typed
  PROVE  /\ Len(landed) \in Nat /\ landed \in Seq(Landing)
         /\ \A i \in 1..Len(landed) : landed[i].at \in Nat
         /\ Contacts \in SUBSET (1..Len(landed))
         /\ \A since : ContactsSince(since) \in SUBSET (1..Len(landed))
         /\ case.contacts \in Seq(Nat) /\ Len(case.contacts) \in Nat
         /\ \A since : contacts_since(case, since) \in SUBSET (1..Len(case.contacts))
<1>1. landed \in Seq(Landing)
  BY DEF Typed
<1>2. \A i \in 1..Len(landed) : landed[i] \in Landing
  BY <1>1, ElementOfSeq
<1>3. \A i \in 1..Len(landed) : landed[i].at \in Nat
  BY <1>2 DEF Landing
<1>4. case.contacts \in Seq(Nat)
  <2>1. case.contacts \in Seq(0..(HorizonHours * Hour))
    BY DEF Typed, CaseState
  <2>2. 0..(HorizonHours * Hour) \subseteq Nat
    OBVIOUS
  <2> QED
    BY <2>1, <2>2, SeqMonotonic
<1> QED
  BY <1>1, <1>3, <1>4 DEF Contacts, ContactsSince, contacts_since

\* What the case is told of is in its book, at its tick.
LEMMA Entered ==
  ASSUME Typed, NEW p, NEW t, NEW readable, Cleared(p, t, readable),
         SameBooks(case', Grown(p, t))
  PROVE  /\ p.intervention \notin CONTACT_INTERVENTIONS => case'.contacts = case.contacts
         /\ p.intervention \in CONTACT_INTERVENTIONS =>
              /\ case'.contacts # <<>> /\ case'.contacts[Len(case'.contacts)] = t
              /\ \A since \in Int :
                   Cardinality(contacts_since(case', since))
                     = Cardinality(contacts_since(case, since))
                         + (IF t >= since THEN 1 ELSE 0)
<1>1. /\ case'.contacts = IF p.intervention \in CONTACT_INTERVENTIONS
                            THEN Append(case.contacts, t) ELSE case.contacts
      /\ t \in Nat
  BY DEF SameBooks, Grown, Cleared
<1>2. case.contacts \in Seq(Nat) /\ Len(case.contacts) \in Nat
  BY ContactSets
<1>3. ASSUME p.intervention \in CONTACT_INTERVENTIONS
      PROVE  /\ case'.contacts # <<>> /\ case'.contacts[Len(case'.contacts)] = t
             /\ \A since \in Int :
                  Cardinality(contacts_since(case', since))
                    = Cardinality(contacts_since(case, since))
                        + (IF t >= since THEN 1 ELSE 0)
  <2>0. PICK m : m = Len(case.contacts) + 1
    OBVIOUS
  <2>1. /\ Len(case'.contacts) = m /\ case'.contacts[m] = t
        /\ 1..m = 1..Len(case.contacts) \union {m} /\ m \notin 1..Len(case.contacts)
        /\ \A i \in 1..Len(case.contacts) : case'.contacts[i] = case.contacts[i]
    BY <1>1, <1>2, <1>3, <2>0, AppendProperties
  <2>2. case'.contacts # <<>>
    BY <1>1, <1>2, <1>3, AppendProperties
  <2>3. ASSUME NEW since \in Int
        PROVE  Cardinality(contacts_since(case', since))
                 = Cardinality(contacts_since(case, since)) + (IF t >= since THEN 1 ELSE 0)
    <3>1. contacts_since(case', since)
            = contacts_since(case, since) \union (IF t >= since THEN {m} ELSE {})
      BY <2>1 DEF contacts_since
    <3>2. /\ contacts_since(case, since) \in SUBSET (1..Len(case.contacts))
          /\ m \notin contacts_since(case, since)
      BY <2>1, ContactSets
    <3>3. /\ Cardinality(contacts_since(case, since)) \in Nat
          /\ Cardinality(contacts_since(case, since) \union {m})
               = Cardinality(contacts_since(case, since)) + 1
      BY <1>2, <3>2, OneMore
    <3>4. CASE t >= since
      <4>1. contacts_since(case', since) = contacts_since(case, since) \union {m}
        BY <3>1, <3>4
      <4> QED
        BY <3>3, <3>4, <4>1
    <3>5. CASE ~(t >= since)
      <4>1. contacts_since(case', since) = contacts_since(case, since)
        BY <3>1, <3>5
      <4> QED
        BY <3>3, <3>5, <4>1
    <3> QED
      BY <3>4, <3>5
  <2> QED
    BY <2>1, <2>2, <2>3
<1> QED
  BY <1>1, <1>3

\* What lands is among the contacts if it reaches a person.
LEMMA ContactLands ==
  ASSUME Typed, NEW p, NEW t, NEW readable, Cleared(p, t, readable),
         NEW s \in BOOLEAN, NEW told \in BOOLEAN, Lands(p, t, s, told)
  PROVE  LET n == Len(landed) + 1
         IN  /\ n \notin 1..Len(landed) /\ landed'[n].at = t
             /\ landed'[n].channel = p.channel /\ landed'[n].key.intervention = p.intervention
             /\ \A i \in 1..Len(landed) : landed'[i] = landed[i] /\ i < n
             /\ Contacts' = Contacts \union
                  (IF p.intervention \in CONTACT_INTERVENTIONS THEN {n} ELSE {})
             /\ AllTold' => AllTold
<1>0. PICK n : n = Len(landed) + 1
  OBVIOUS
<1>1. /\ 1..Len(landed') = 1..Len(landed) \union {n} /\ n \notin 1..Len(landed)
      /\ landed'[n].at = t /\ landed'[n].channel = p.channel
      /\ landed'[n].key.intervention = p.intervention
      /\ AllTold' => AllTold
      /\ \A i \in 1..Len(landed) : landed'[i] = landed[i]
      /\ Len(landed) \in Nat
  BY <1>0, Landings, LandsTyped
<1>2. \A i \in 1..Len(landed) : i < n
  BY <1>1
<1>3. Contacts' = Contacts \union
        (IF p.intervention \in CONTACT_INTERVENTIONS THEN {n} ELSE {})
  BY <1>1 DEF Contacts
<1> QED
  BY <1>0, <1>1, <1>2, <1>3

LEMMA InitInStep == Init => LandedByNow /\ InStep
<1> SUFFICES ASSUME Init  PROVE LandedByNow /\ InStep
  OBVIOUS
<1>1. LandedByNow
  BY DEF Init, LandedByNow
<1>2. Contacts = {} /\ case.contacts = <<>>
  BY DEF Init, Contacts, Opened
<1>3. \A since : ContactsSince(since) = {} /\ contacts_since(case, since) = {}
  BY <1>2 DEF ContactsSince, contacts_since
<1>4. \A since : Cardinality(ContactsSince(since)) <= Cardinality(contacts_since(case, since))
  <2>1. Cardinality({}) = 0
    BY FS_EmptySet
  <2> QED
    BY <1>3, <2>1
<1> QED
  BY <1>1, <1>2, <1>4 DEF InStep

\* What lands keeps the two in step if the case is told of it.
LEMMA LandingInStep ==
  ASSUME Base, ~closed, LandedByNow, InStep,
         NEW p, NEW t, NEW readable, Cleared(p, t, readable),
         NEW s \in BOOLEAN, Lands(p, t, s, TRUE), SameBooks(case', Grown(p, t))
  PROVE  InStep'
<1>0. PICK n : n = Len(landed) + 1
  OBVIOUS
<1>1. /\ n \notin 1..Len(landed) /\ landed'[n].at = t
      /\ \A i \in 1..Len(landed) : landed'[i] = landed[i]
      /\ Contacts' = Contacts \union
           (IF p.intervention \in CONTACT_INTERVENTIONS THEN {n} ELSE {})
      /\ AllTold' => AllTold
  <2>1. Typed /\ TRUE \in BOOLEAN
    BY DEF Base
  <2> QED
    BY <1>0, <2>1, ContactLands
<1>2. Typed /\ t \in Nat /\ clock <= t /\ clock \in Nat
  BY DEF Base, Typed, Cleared
<1>3. /\ Len(landed) \in Nat /\ \A i \in 1..Len(landed) : landed[i].at \in Nat
      /\ Contacts \in SUBSET (1..Len(landed))
      /\ \A since : ContactsSince(since) \in SUBSET (1..Len(landed))
      /\ Len(case.contacts) \in Nat
      /\ \A since : contacts_since(case, since) \in SUBSET (1..Len(case.contacts))
  BY <1>2, ContactSets
<1> SUFFICES ASSUME AllTold'
             PROVE  /\ \A since \in Int : Cardinality(ContactsSince(since)')
                                            <= Cardinality(contacts_since(case', since))
                    /\ \A i \in Contacts' :
                         /\ case'.contacts # <<>>
                         /\ landed'[i].at <= case'.contacts[Len(case'.contacts)]
  BY DEF InStep, contacts_since, ContactsSince
<1>4. /\ \A since \in Int :
           Cardinality(ContactsSince(since)) <= Cardinality(contacts_since(case, since))
      /\ \A i \in Contacts :
           case.contacts # <<>> /\ landed[i].at <= case.contacts[Len(case.contacts)]
  BY <1>1 DEF InStep
<1>5. CASE p.intervention \notin CONTACT_INTERVENTIONS
  <2>1. case'.contacts = case.contacts /\ Contacts' = Contacts
    BY <1>1, <1>2, <1>5, Entered
  <2>2. \A since : contacts_since(case', since) = contacts_since(case, since)
    BY <2>1 DEF contacts_since
  <2>3. \A i \in Contacts : landed'[i] = landed[i]
    BY <1>1, <1>3
  <2>4. \A since : ContactsSince(since)' = ContactsSince(since)
    BY <2>1, <2>3 DEF ContactsSince
  <2> QED
    BY <1>4, <2>1, <2>2, <2>3, <2>4
<1>6. CASE p.intervention \in CONTACT_INTERVENTIONS
  <2>1. /\ case'.contacts # <<>> /\ case'.contacts[Len(case'.contacts)] = t
        /\ \A since \in Int :
             Cardinality(contacts_since(case', since))
               = Cardinality(contacts_since(case, since)) + (IF t >= since THEN 1 ELSE 0)
    BY <1>2, <1>6, Entered
  <2>2. Contacts' = Contacts \union {n} /\ \A i \in Contacts : landed'[i] = landed[i]
    BY <1>1, <1>3, <1>6
  <2>3. \A i \in Contacts' : landed'[i].at <= t
    <3>1. \A i \in Contacts : landed[i].at <= t
      BY <1>2, <1>3 DEF LandedByNow
    <3> QED
      BY <1>1, <1>2, <2>2, <3>1
  <2>4. ASSUME NEW since \in Int
        PROVE  Cardinality(ContactsSince(since)') <= Cardinality(contacts_since(case', since))
    <3>1. ContactsSince(since)'
            = ContactsSince(since) \union (IF t >= since THEN {n} ELSE {})
      BY <1>1, <2>2 DEF ContactsSince
    <3>2. /\ ContactsSince(since) \in SUBSET (1..Len(landed))
          /\ contacts_since(case, since) \in SUBSET (1..Len(case.contacts))
      BY <1>3
    <3>3. /\ Cardinality(ContactsSince(since)) \in Nat
          /\ Cardinality(ContactsSince(since) \union {n}) \in Nat
          /\ Cardinality(ContactsSince(since) \union {n}) <= Cardinality(ContactsSince(since)) + 1
          /\ Cardinality(contacts_since(case, since)) \in Nat
      BY <1>3, <3>2, OneMore
    <3>4. Cardinality(ContactsSince(since)) <= Cardinality(contacts_since(case, since))
      BY <1>4
    <3>5. CASE t >= since
      <4>1. ContactsSince(since)' = ContactsSince(since) \union {n}
        BY <3>1, <3>5
      <4>2. Cardinality(contacts_since(case', since))
              = Cardinality(contacts_since(case, since)) + 1
        BY <2>1, <3>5
      <4> QED
        BY <3>3, <3>4, <4>1, <4>2
    <3>6. CASE ~(t >= since)
      <4>1. ContactsSince(since)' = ContactsSince(since)
        BY <3>1, <3>6
      <4>2. Cardinality(contacts_since(case', since))
              = Cardinality(contacts_since(case, since)) + 0
        BY <2>1, <3>6
      <4> QED
        BY <3>3, <3>4, <4>1, <4>2
    <3> QED
      BY <3>5, <3>6
  <2> QED
    BY <2>1, <2>3, <2>4
<1> QED
  BY <1>5, <1>6

LEMMA StepInStep ==
  ASSUME Base, LandedByNow, InStep, [Step]_vars
  PROVE  LandedByNow' /\ InStep'
<1>1. CASE UNCHANGED vars
  BY <1>1 DEF vars, world, LandedByNow, InStep, AllTold, Contacts, ContactsSince,
              contacts_since
<1>2. CASE Step
  <2>1. ~closed
    BY <1>2, Effects
  <2>2. /\ Typed /\ clock \in Nat /\ (clock' \in Nat)
        /\ Len(landed) \in Nat /\ \A i \in 1..Len(landed) : landed[i].at \in Nat
    BY StepBase, ContactSets DEF Base, Typed
  <2>3. CASE Idle
    <3>1. /\ landed' = landed /\ case'.contacts = case.contacts
          /\ closed' \/ clock < clock'
      BY <2>3 DEF Idle, NoWrite, SameBooks
    <3>2. LandedByNow'
      BY <2>1, <2>2, <3>1 DEF LandedByNow
    <3>3. InStep'
      BY <3>1 DEF InStep, AllTold, Contacts, ContactsSince, contacts_since
    <3> QED
      BY <3>2, <3>3
  <2>4. ASSUME NEW p \in Proposal, NEW t \in Nat, NEW readable \in Reads, NEW s \in BOOLEAN,
               Cleared(p, t, readable),
               \/ Told(p, t, readable, s)
               \/ ToldLate(p, t, readable, s)
               \/ Untold(p, t, s)
        PROVE  LandedByNow' /\ InStep'
    <3>1. clock <= t /\ t \in Nat /\ (closed' \/ t < clock')
      BY <2>4 DEF Cleared, Told, ToldLate, Untold, Booked
    <3>2. \A i \in 1..Len(landed) : landed[i].at <= t
      BY <2>1, <2>2, <3>1 DEF LandedByNow
    <3>3. ASSUME NEW told \in BOOLEAN, Lands(p, t, s, told)
          PROVE  LandedByNow'
      <4>0. PICK n : n = Len(landed) + 1
        OBVIOUS
      <4>1. /\ 1..Len(landed') = 1..Len(landed) \union {n}
            /\ landed'[n].at = t
            /\ \A i \in 1..Len(landed) : landed'[i] = landed[i]
        BY <2>2, <2>4, <3>3, <4>0, Landings, LandsTyped
      <4>2. \A i \in 1..Len(landed') : landed'[i].at \in Nat /\ landed'[i].at <= t
        BY <2>2, <3>2, <4>1
      <4> QED
        BY <2>2, <3>1, <4>2 DEF LandedByNow
    <3>4. CASE Told(p, t, readable, s)
      BY <2>1, <2>4, <3>3, <3>4, LandingInStep DEF Told, Booked
    <3>5. CASE ToldLate(p, t, readable, s)
      <4>1. landed' = landed /\ SameBooks(case', Grown(p, t))
        BY <3>5 DEF ToldLate, Booked, NoWrite
      <4>2. LandedByNow'
        BY <2>2, <3>1, <3>2, <4>1 DEF LandedByNow
      <4>3. /\ \A since : contacts_since(case, since) \in SUBSET (1..Len(case.contacts))
            /\ Len(case.contacts) \in Nat /\ Contacts \in SUBSET (1..Len(landed))
            /\ \A since : ContactsSince(since) \in SUBSET (1..Len(landed))
        BY <2>2, ContactSets
      <4>4. \A since \in Int :
              /\ Cardinality(contacts_since(case, since)) \in Nat
              /\ Cardinality(ContactsSince(since)) \in Nat
        BY <2>2, <4>3, OneMore
      <4>5. \A since \in Int :
              Cardinality(contacts_since(case, since)) <= Cardinality(contacts_since(case', since))
        <5>1. CASE p.intervention \notin CONTACT_INTERVENTIONS
          <6>1. \A since : contacts_since(case', since) = contacts_since(case, since)
            BY <2>2, <2>4, <4>1, <5>1, Entered DEF contacts_since
          <6> QED
            BY <4>4, <6>1
        <5>2. CASE p.intervention \in CONTACT_INTERVENTIONS
          <6>1. \A since \in Int :
                  Cardinality(contacts_since(case', since))
                    = Cardinality(contacts_since(case, since))
                        + (IF t >= since THEN 1 ELSE 0)
            BY <2>2, <2>4, <4>1, <5>2, Entered
          <6> QED
            BY <4>4, <6>1
        <5> QED
          BY <5>1, <5>2
      <4>6. /\ Contacts' = Contacts /\ AllTold' = AllTold
            /\ \A since : ContactsSince(since)' = ContactsSince(since)
        BY <4>1 DEF Contacts, AllTold, ContactsSince
      <4>7. ASSUME AllTold, NEW i \in Contacts
            PROVE  case'.contacts # <<>> /\ landed[i].at <= case'.contacts[Len(case'.contacts)]
        <5>1. case.contacts # <<>> /\ landed[i].at <= case.contacts[Len(case.contacts)]
          BY <4>7 DEF InStep
        <5>2. landed[i].at <= t
          BY <3>2, <4>3
        <5>3. \/ case'.contacts = case.contacts
              \/ case'.contacts # <<>> /\ case'.contacts[Len(case'.contacts)] = t
          BY <2>2, <2>4, <4>1, Entered
        <5> QED
          BY <5>1, <5>2, <5>3
      <4>8. ASSUME AllTold, NEW since \in Int
            PROVE  Cardinality(ContactsSince(since)) <= Cardinality(contacts_since(case', since))
        <5>1. Cardinality(ContactsSince(since)) <= Cardinality(contacts_since(case, since))
          BY <4>8 DEF InStep
        <5>2. contacts_since(case', since) \in SUBSET (1..Len(case'.contacts))
          BY DEF contacts_since
        <5>3. Len(case'.contacts) \in Nat
          <6>1. case' \in CaseState
            BY <1>2, StepBase DEF Base, Typed
          <6>2. case'.contacts \in Seq(0..(HorizonHours * Hour))
            BY <6>1 DEF CaseState
          <6> QED
            BY <6>2
        <5>4. Cardinality(contacts_since(case', since)) \in Nat
          BY <5>2, <5>3, OneMore
        <5> QED
          BY <4>4, <4>5, <5>1, <5>4
      <4>9. InStep'
        BY <4>1, <4>6, <4>7, <4>8 DEF InStep, contacts_since
      <4> QED
        BY <4>2, <4>9
    <3>6. CASE Untold(p, t, s)
      <4>1. Lands(p, t, s, FALSE)
        BY <3>6 DEF Untold
      <4>2. ~AllTold'
        BY <2>2, <2>4, <4>1, Landings
      <4> QED
        BY <3>3, <4>1, <4>2 DEF InStep
    <3> QED
      BY <2>4, <3>4, <3>5, <3>6
  <2> QED
    BY <1>2, <2>3, <2>4, Effects
<1> QED
  BY <1>1, <1>2

\* What passes I4 and I5 is allowed as the customer counts.
LEMMA NewContact ==
  ASSUME Base, ~closed, LandedByNow, InStep, AllTold, UNCHANGED event,
         NEW p, NEW t, NEW readable, Cleared(p, t, readable),
         p.intervention \in CONTACT_INTERVENTIONS,
         I4(p, case, event, t) = {}, I5(p, event) = {},
         NEW s \in BOOLEAN, NEW told \in BOOLEAN, Lands(p, t, s, told),
         NEW n, n = Len(landed) + 1
  PROVE  ContactAllowed(n)'
<1>1. /\ n \notin 1..Len(landed) /\ landed'[n].at = t /\ landed'[n].channel = p.channel
      /\ \A i \in 1..Len(landed) : landed'[i] = landed[i] /\ i < n
      /\ Contacts' = Contacts \union {n}
  <2>1. Typed
    BY DEF Base
  <2> QED
    BY <2>1, ContactLands
<1>2. /\ t \in Nat /\ Len(landed) \in Nat /\ Contacts \in SUBSET (1..Len(landed))
      /\ \A i \in 1..Len(landed) : landed[i].at \in Nat
      /\ case.contacts \in Seq(Nat) /\ Len(case.contacts) \in Nat
      /\ \A since : ContactsSince(since) \in SUBSET (1..Len(landed))
      /\ \A since : contacts_since(case, since) \in SUBSET (1..Len(case.contacts))
  BY ContactSets DEF Base, Cleared
<1>3. /\ p.channel \in PermittedChannels
      /\ ~(Cardinality(contacts_since(case, t - WindowHours * Hour)) >= MaxContacts)
      /\ ~(case.contacts # <<>> /\ t - case.contacts[Len(case.contacts)] < GapHours * Hour)
      /\ ~in_quiet_hours(event, t)
  BY DEF I4
<1>4. ~event.optedOut /\ ~(event.dnd /\ p.channel \in {"SMS", "VOICE"})
  BY DEF I5
<1>5. {j \in Contacts' : j < n} = Contacts
  <2>1. n \in Nat /\ ~(n < n) /\ \A j \in Contacts : j < n
    BY <1>1, <1>2
  <2> QED
    BY <1>1, <2>1
<1>6. t - WindowHours * Hour \in Int /\ GapHours * Hour \in Int /\ MaxContacts \in Nat
  BY <1>2, PolicyAssumption DEF Hour
<1>7. Cardinality({j \in Contacts : landed'[j].at >= t - WindowHours * Hour}) < MaxContacts
  <2> DEFINE since == t - WindowHours * Hour
  <2>1. {j \in Contacts : landed'[j].at >= since} = ContactsSince(since)
    BY <1>1, <1>2 DEF ContactsSince
  <2>2. since \in Int
    BY <1>6
  <2> HIDE DEF since
  <2>3. Cardinality(ContactsSince(since)) <= Cardinality(contacts_since(case, since))
    BY <2>2 DEF InStep
  <2>4. /\ Cardinality(ContactsSince(since)) \in Nat
        /\ Cardinality(contacts_since(case, since)) \in Nat
    BY <1>2, OneMore
  <2>5. ~(Cardinality(contacts_since(case, since)) >= MaxContacts)
    BY <1>3 DEF since
  <2>6. Cardinality(ContactsSince(since)) < MaxContacts
    BY <1>6, <2>3, <2>4, <2>5
  <2> QED
    BY <2>1, <2>6 DEF since
<1>8. \A j \in Contacts : t - landed'[j].at >= GapHours * Hour
  <2> SUFFICES ASSUME NEW j \in Contacts  PROVE t - landed[j].at >= GapHours * Hour
    BY <1>1, <1>2
  <2>1. /\ case.contacts # <<>> /\ landed[j].at <= case.contacts[Len(case.contacts)]
        /\ landed[j].at \in Nat
    BY <1>2 DEF InStep
  <2> DEFINE last == case.contacts[Len(case.contacts)]
             gap  == GapHours * Hour
  <2>2. last \in Nat
    BY <1>2, <2>1
  <2>3. ~(t - last < gap) /\ gap \in Int /\ landed[j].at <= last
    BY <1>3, <1>6, <2>1
  <2> HIDE DEF last, gap
  <2>4. t - landed[j].at >= gap
    BY <1>2, <2>1, <2>2, <2>3
  <2> QED
    BY <2>4 DEF gap
<1>9. ~in_quiet_hours(event', t)
  BY <1>3
<1> QED
  BY <1>1, <1>3, <1>4, <1>5, <1>7, <1>8, <1>9
     DEF ContactAllowed, in_quiet_hours, local_hour, quiet

\* What was allowed stays so: what lands later is not before it.
LEMMA OldContact ==
  ASSUME Base, UNCHANGED event, NEW p, NEW t, NEW readable, Cleared(p, t, readable),
         NEW s \in BOOLEAN, NEW told \in BOOLEAN, Lands(p, t, s, told),
         NEW i \in Contacts, ContactAllowed(i)
  PROVE  ContactAllowed(i)'
<1>0. PICK n : n = Len(landed) + 1
  OBVIOUS
<1>1. /\ n \notin 1..Len(landed)
      /\ \A j \in 1..Len(landed) : landed'[j] = landed[j] /\ j < n
      /\ Contacts' = Contacts \/ Contacts' = Contacts \union {n}
  <2>1. Typed
    BY DEF Base
  <2> QED
    BY <1>0, <2>1, ContactLands
<1>2. Contacts \in SUBSET (1..Len(landed)) /\ Len(landed) \in Nat
  BY ContactSets DEF Base
<1>3. {j \in Contacts' : j < i} = {j \in Contacts : j < i}
  BY <1>0, <1>1, <1>2
<1>4. \A j \in Contacts : landed'[j] = landed[j]
  BY <1>1, <1>2
<1>5. {j \in {k \in Contacts' : k < i} : landed'[j].at >= landed'[i].at - WindowHours * Hour}
        = {j \in {k \in Contacts : k < i} : landed[j].at >= landed[i].at - WindowHours * Hour}
  BY <1>3, <1>4
<1> QED
  BY <1>3, <1>4, <1>5 DEF ContactAllowed, in_quiet_hours, local_hour, quiet

\* The contacts of some kinds are as the policy has them.
Civil(kinds) ==
  AllTold => \A i \in Contacts :
               landed[i].key.intervention \in kinds => ContactAllowed(i)

\* That follows for the kinds that never land without passing I4 and I5.
LEMMA StepCivil ==
  ASSUME Base, LandedByNow, InStep, [Step]_vars, NEW kinds, Civil(kinds),
         \A p \in Proposal, t \in Nat, readable \in Reads :
           Cleared(p, t, readable) /\ p.intervention \in kinds =>
             I4(p, case, event, t) = {} /\ I5(p, event) = {}
  PROVE  Civil(kinds)'
<1>1. ASSUME UNCHANGED <<landed, event>>
      PROVE  Civil(kinds)'
  BY <1>1 DEF Civil, AllTold, Contacts, ContactAllowed, in_quiet_hours, local_hour, quiet
<1>2. CASE UNCHANGED vars
  BY <1>1, <1>2 DEF vars, world
<1>3. CASE Step
  <2>1. ~closed /\ UNCHANGED <<arm, event, oob_at>>
    BY <1>3, Effects
  <2>2. ASSUME NEW p \in Proposal, NEW t \in Nat, NEW readable \in Reads, NEW s \in BOOLEAN,
               Cleared(p, t, readable),
               \/ Told(p, t, readable, s)
               \/ ToldLate(p, t, readable, s)
               \/ Untold(p, t, s)
        PROVE  Civil(kinds)'
    <3>1. ASSUME NEW told \in BOOLEAN, Lands(p, t, s, told)
          PROVE  Civil(kinds)'
      <4>0. PICK n : n = Len(landed) + 1
        OBVIOUS
      <4>1. /\ n \notin 1..Len(landed) /\ landed'[n].key.intervention = p.intervention
            /\ \A j \in 1..Len(landed) : landed'[j] = landed[j] /\ j < n
            /\ Contacts' = Contacts \union
                 (IF p.intervention \in CONTACT_INTERVENTIONS THEN {n} ELSE {})
            /\ AllTold' => AllTold
        <5>1. Typed
          BY DEF Base
        <5> QED
          BY <2>2, <3>1, <4>0, <5>1, ContactLands
      <4>2. Contacts \in SUBSET (1..Len(landed))
        BY ContactSets DEF Base
      <4>3. ASSUME AllTold', NEW i \in Contacts, landed'[i].key.intervention \in kinds
            PROVE  ContactAllowed(i)'
        <5>1. landed[i].key.intervention \in kinds /\ AllTold
          BY <4>1, <4>2, <4>3
        <5>2. ContactAllowed(i)
          BY <5>1 DEF Civil
        <5> QED
          BY <2>1, <2>2, <3>1, <5>2, OldContact
      <4>4. ASSUME AllTold', p.intervention \in CONTACT_INTERVENTIONS, p.intervention \in kinds
            PROVE  ContactAllowed(n)'
        <5>1. I4(p, case, event, t) = {} /\ I5(p, event) = {} /\ AllTold
          BY <2>2, <4>1, <4>4
        <5> QED
          BY <2>1, <2>2, <3>1, <4>0, <4>4, <5>1, NewContact
      <4> QED
        BY <4>1, <4>3, <4>4 DEF Civil
    <3>2. CASE ToldLate(p, t, readable, s)
      BY <1>1, <2>1, <3>2 DEF ToldLate, NoWrite
    <3> QED
      BY <2>2, <3>1, <3>2 DEF Told, Untold
  <2> QED
    BY <1>1, <1>3, <2>1, <2>2, Effects DEF Idle, NoWrite
<1> QED
  BY <1>2, <1>3

LEMMA InitCivil ==
  ASSUME Init, NEW kinds
  PROVE  Civil(kinds)
<1>1. Contacts = {}
  BY DEF Init, Contacts
<1> QED
  BY <1>1 DEF Civil

\* I4 and I5 as the customer experiences them: under the kernel, whatever a model proposes
\* and through every repair, no window holds more contacts than the budget, none comes
\* within the cooling-off of another, in quiet hours, on a channel not permitted, or
\* without consent.  invariants.py:213-290, runner.py:206-248.
THEOREM CustomersAreSpared ==
  ASSUME Gated
  PROVE  Spec => []ContactsRespectPolicy
<1> DEFINE kinds == CONTACT_INTERVENTIONS
           Inv   == Base /\ LandedByNow /\ InStep /\ Civil(kinds)
<1>1. Init => Inv
  BY InitBase, InitInStep, InitCivil
<1>2. Inv /\ [Step]_vars => Inv'
  <2> SUFFICES ASSUME Inv, [Step]_vars  PROVE Inv'
    OBVIOUS
  <2>1. \A p \in Proposal, t \in Nat, readable \in Reads :
          Cleared(p, t, readable) /\ p.intervention \in kinds =>
            I4(p, case, event, t) = {} /\ I5(p, event) = {}
    BY Passed DEF Base
  <2> QED
    BY <2>1, StepBase, StepInStep, StepCivil
<1>3. Inv => ContactsRespectPolicy
  BY DEF Civil, ContactsRespectPolicy, Contacts
<1> HIDE DEF Inv
<1> QED
  BY <1>1, <1>2, <1>3, PTL DEF Spec

\* The rules without a kernel treat people as the kernel would have it, handoffs apart.
\* fallback.py:202-427, arms/base.py:47-96.
THEOREM RulesAreCivil ==
  ASSUME PolicyIsCivil
  PROVE  Spec => []BaselineIsCivil
<1> DEFINE kinds == CONTACT_INTERVENTIONS \ {"HANDOFF_HUMAN"}
           Ruled == catalogue[arm].diagnoser = "rules"
           Inv   == Base /\ LandedByNow /\ InStep /\ (Ruled => Civil(kinds))
<1>1. Init => Inv
  BY InitBase, InitInStep, InitCivil
<1>2. Inv /\ [Step]_vars => Inv'
  <2> SUFFICES ASSUME Inv, [Step]_vars  PROVE Inv'
    OBVIOUS
  <2>1. Base' /\ LandedByNow' /\ InStep'
    BY StepBase, StepInStep
  <2>2. UNCHANGED arm
    BY Effects DEF vars, world
  <2>3. ASSUME Ruled
        PROVE  \A p \in Proposal, t \in Nat, readable \in Reads :
                 Cleared(p, t, readable) /\ p.intervention \in kinds =>
                   I4(p, case, event, t) = {} /\ I5(p, event) = {}
    <3> SUFFICES ASSUME NEW p \in Proposal, NEW t \in Nat, NEW readable \in Reads,
                        Cleared(p, t, readable), p.intervention \in kinds
                 PROVE  I4(p, case, event, t) = {} /\ I5(p, event) = {}
      OBVIOUS
    <3>1. p = plan("rules", case, event, clock) /\ t = clock + p.delay
      BY <2>3 DEF Cleared
    <3>2. event \in Event /\ PlannedCase(case) /\ clock \in Nat
      BY ContactSets, RunAssumption DEF Base, Typed, CaseState, PlannedCase
    <3>3. p.intervention # "HANDOFF_HUMAN"
      OBVIOUS
    <3> QED
      BY <3>1, <3>2, <3>3, PlannedContactsPass
  <2>4. Ruled' => Civil(kinds)'
    <3> SUFFICES ASSUME Ruled  PROVE Civil(kinds)'
      BY <2>2
    <3> HIDE DEF kinds
    <3> QED
      BY <2>3, StepCivil
  <2> QED
    BY <2>1, <2>4
<1>3. Inv => BaselineIsCivil
  BY DEF Civil, BaselineIsCivil, Contacts
<1> HIDE DEF Inv
<1> QED
  BY <1>1, <1>2, <1>3, PTL DEF Spec

----------------------------------------------------------------------------------
(* The rules under the kernel.                                             *)

\* What the rules and the kernel agree on in policy.yaml, beyond the hours and EMAIL:
\* part payments, and the currency the orders are in.
RulesFitPolicy ==
  /\ PolicyIsCivil
  /\ AllowPart
  /\ \A e \in Events : e.currency \in Currencies

\* Where the rules act, the kernel finds nothing to refuse but money that is already
\* there and work that is not worth it.
LEMMA RulesPass ==
  ASSUME RulesFitPolicy, Base, ~closed, NEW p, p = plan("rules", case, event, clock),
         Actionable(p), p.intervention # "HANDOFF_HUMAN"
  PROVE  Denials(p, Due(p), TRUE)
           \subseteq {"ALREADY_COLLECTED", "BELOW_STOPPING_THRESHOLD", "ATTEMPT_CAP_REACHED"}
<1> DEFINE t  == Due(p)
           do == cure(classify(event), case.attempts, event)[1]
<1>1. /\ event \in Events /\ event \in Event /\ clock \in Nat /\ case \in CaseState
      /\ case.collected = 0 /\ PlannedCase(case) /\ case.attempts \in Nat /\ Typed
  BY ContactSets, RunAssumption DEF Base, Typed, CaseState, PlannedCase, OpenBooks
<1>2. p.intervention \in GATED_INTERVENTIONS
  <2>1. p \in Proposal
    BY <1>1, PlanTyped
  <2> QED
    BY <2>1 DEF Proposal, Intervention, Actionable
<1>3. /\ do \in Intervention \ {"STOP", "WAIT", "HANDOFF_HUMAN"}
      /\ \E delay \in Nat : p = Draft("rules", case, event, do, Ask(event, do), delay)
  <2>1. \A delay : Draft("rules", case, event, "STOP", 0, delay).intervention = "STOP"
    BY DEF Draft
  <2>2. \A delay, amount :
          Draft("rules", case, event, "HANDOFF_HUMAN", amount, delay).intervention
            = "HANDOFF_HUMAN"
    BY DEF Draft
  <2>3. p.intervention # "STOP"
    BY DEF Actionable
  <2> QED
    BY <1>1, <2>1, <2>2, <2>3, PlanIsADraft
<1>4. /\ p.intervention = do /\ p.amount = Ask(event, do)
      /\ p.currency = event.currency /\ p.ordinal = case.ordinal
  BY <1>3 DEF Draft
<1>5. classify(event) \in FailureClass
  BY <1>1 DEF classify, Event
<1>6. /\ do = "PART_PAYMENT_LINK" => event.allowsPart
      /\ do = "RETRY_ALT_RAIL" => event.altRail
      /\ do = "RETRY_SAME_RAIL" =>
           classify(event) \notin {"INSTRUMENT_DEAD", "MANDATE_INVALID", "RESTRICTION"}
      /\ classify(event) # "RISK_DECLINED"
  BY <1>1, <1>3, <1>5, CureActs
<1> HIDE DEF do
<1>7. I1(p, case, TRUE /\ Settled(t) > 0) \subseteq {"ALREADY_COLLECTED"}
  BY DEF I1
<1>8. I2(p, case) = {}
  <2>1. action_key(p).ordinal = case.ordinal
    BY <1>4 DEF action_key
  <2>2. case.ordinal \in Nat /\ \A k \in case.keys : k.ordinal < case.ordinal
    BY <1>1 DEF Base, KeysPast, CaseState
  <2>3. action_key(p) \notin case.keys
    BY <2>1, <2>2
  <2> QED
    BY <2>3 DEF I2
<1>9. I3(p, event) = {}
  <2>1. event.amount \in Nat
    BY <1>1 DEF Event
  <2>2. part_amount(event) \in 0..event.amount
    BY <1>1, PartAmounts
  <2>3. PartFloor(event) \in 0..part_amount(event)
    BY <1>1, PartAmounts
  <2>4. event.currency \in Currencies /\ AllowPart
    BY <1>1 DEF RulesFitPolicy
  <2>5. p.amount \in 0..event.amount
    BY <1>4, <2>1, <2>2 DEF Ask
  <2>6. CASE do = "PART_PAYMENT_LINK"
    <3>1. p.amount = part_amount(event) /\ event.allowsPart
      BY <1>4, <1>6, <2>6 DEF Ask
    <3>2. ~(p.amount < PartFloor(event)) /\ ~(p.amount > event.amount) /\ ~(p.amount < 0)
      BY <2>1, <2>2, <2>3, <2>5, <3>1
    <3> QED
      BY <1>4, <2>4, <2>6, <3>1, <3>2 DEF I3
  <2>7. CASE do # "PART_PAYMENT_LINK"
    <3>1. p.amount = event.amount
      BY <1>4, <2>7 DEF Ask
    <3> QED
      BY <1>4, <2>1, <2>4, <2>7, <3>1 DEF I3
  <2> QED
    BY <2>6, <2>7
<1>10. I4(p, case, event, t) = {} /\ I5(p, event) = {}
  BY <1>1, PlannedContactsPass DEF RulesFitPolicy, Due
<1>11. I6(p, case, event) \subseteq {"ATTEMPT_CAP_REACHED"}
  <2>1. event.code # "UNKNOWN" => classify(event) = event.code
    BY DEF classify, Silent
  <2>2. ~retry_is_harmful(event)
    BY <1>6, <2>1 DEF retry_is_harmful
  <2>3. p.intervention = "RETRY_SAME_RAIL" => ~retry_is_futile(event)
    BY <1>4, <1>6, <2>1 DEF retry_is_futile
  <2>4. p.intervention = "RETRY_ALT_RAIL" => event.altRail
    BY <1>4, <1>6
  <2> QED
    BY <2>2, <2>3, <2>4 DEF I6
<1>12. I7(p, case, t) \subseteq {"BELOW_STOPPING_THRESHOLD", "ATTEMPT_CAP_REACHED"}
  BY <1>2 DEF I7, Actionable
<1> DEFINE checks == {I1(p, case, TRUE /\ Settled(t) > 0), I2(p, case), I3(p, event),
                      I4(p, case, event, t), I5(p, event), I6(p, case, event),
                      I7(p, case, t)}
<1>13. Denials(p, t, TRUE) = UNION checks
  BY DEF Denials, denials
<1>14. \A check \in checks :
         check \subseteq {"ALREADY_COLLECTED", "BELOW_STOPPING_THRESHOLD",
                          "ATTEMPT_CAP_REACHED"}
  BY <1>7, <1>8, <1>9, <1>10, <1>11, <1>12
<1> HIDE DEF checks
<1> QED
  BY <1>13, <1>14

\* fallback.py and the kernel each have their own consent, frequency, quiet-hours, channel,
\* amount and futility logic, and they agree: the rules, handoffs apart, never meet a
\* refusal that sends them around the loop again.  fallback.py:202-427, invariants.py:138-340.
THEOREM RulesPassReview ==
  ASSUME RulesFitPolicy
  PROVE  Spec => []PlanPassesReview
<1>1. Base => PlanPassesReview
  <2> SUFFICES ASSUME Base, Looping, catalogue[arm].diagnoser = "rules",
                      NEW p \in Proposed(clock), Actionable(p),
                      p.intervention # "HANDOFF_HUMAN"
               PROVE  Denials(p, Due(p), TRUE)
                        \subseteq {"ALREADY_COLLECTED", "BELOW_STOPPING_THRESHOLD",
                                   "ATTEMPT_CAP_REACHED"}
    BY DEF PlanPassesReview
  <2>1. p = plan("rules", case, event, clock)
    BY DEF Proposed
  <2>2. ~closed
    BY DEF Looping
  <2> QED
    BY <2>1, <2>2, RulesPass
<1> QED
  BY <1>1, InitBase, StepBase, PTL DEF Spec

\* Without a model each turn that does not close the case takes a day, if settlements can
\* be read: the rules and the cron schedule never wait, and a refusal is terminal.
DaysGoBy ==
  catalogue[arm].diagnoser # "llm" /\ ~closed => steps * (24 * Hour) <= clock

LEMMA ExecutingTakesADay ==
  ASSUME NEW p, p.intervention # "WAIT", NEW t, NEW readable, Execute(p, t, readable),
         ~closed'
  PROVE  clock' = t + 24 * Hour /\ steps' = steps + 1
<1>1. \A c : Continue(c, t + 24 * Hour) => clock' = t + 24 * Hour /\ steps' = steps + 1
  BY DEF Continue
<1>2. \A c, r : ~Leave(c, r)
  BY DEF Leave
<1>3. \A s, was : Account(p, t, s, was) => \E c : Continue(c, t + 24 * Hour)
  BY <1>2 DEF Account
<1> QED
  BY <1>1, <1>3 DEF Execute, Answered, AnsweredAgain, Unseen, Failed

LEMMA RefusalsAreFinal ==
  ASSUME RulesFitPolicy, Base, ~closed, NEW p, p = plan("rules", case, event, clock),
         Actionable(p), Denials(p, Due(p), TRUE) # {}
  PROVE  Denials(p, Due(p), TRUE) \intersect TERMINAL_DENIALS # {}
<1>1. CASE p.intervention # "HANDOFF_HUMAN"
  BY <1>1, RulesPass DEF TERMINAL_DENIALS
<1>2. CASE p.intervention = "HANDOFF_HUMAN"
  <2>1. event \in Event /\ PlannedCase(case) /\ clock \in Nat
    BY ContactSets, RunAssumption DEF Base, Typed, CaseState, PlannedCase
  <2>2. I7(p, case, Due(p)) \subseteq TERMINAL_DENIALS /\ I7(p, case, Due(p)) # {}
    BY <1>2, <2>1, EscalationIsRefused DEF Due, TERMINAL_DENIALS
  <2>3. I7(p, case, Due(p)) \subseteq Denials(p, Due(p), TRUE)
    BY DEF Denials, denials
  <2> QED
    BY <2>2, <2>3
<1> QED
  BY <1>1, <1>2

LEMMA TurnsTakeADay ==
  ASSUME RulesFitPolicy, FALSE \notin Reads, Base, Step,
         catalogue[arm].diagnoser # "llm", ~closed'
  PROVE  clock + 24 * Hour <= clock' /\ steps' = steps + 1
<1>1. Typed /\ clock \in Nat /\ ~closed
  BY Turns DEF Base, Typed
<1>2. ~allow_repair /\ (catalogue[arm].diagnoser = "cron" => ~use_gate)
      /\ catalogue[arm].diagnoser \in {"cron", "rules"}
  <2>1. arm \in {"A", "B", "C", "D", "E"}
    BY <1>1, RunAssumption DEF Typed, catalogue
  <2> QED
    BY <2>1 DEF allow_repair, use_gate, catalogue
<1>3. \A c, r : ~Leave(c, r)
  BY DEF Leave
<1>4. PICK p \in Proposed(clock), readable \in Reads :
        /\ Looping
        /\ \/ Stop(p) \/ DueTooLate(p) \/ Wait(p)
           \/ Act(p, readable) \/ Refused(p, readable) \/ Repair(p, readable)
  BY <1>3 DEF Step, Over
<1>5. readable = TRUE
  BY <1>4, RunAssumption
<1>6. ~Stop(p) /\ ~DueTooLate(p)
  BY <1>3 DEF Stop, DueTooLate
<1>7. ~Repair(p, readable)
  BY <1>2 DEF Repair, MayRepair
<1>8. /\ p \in Proposal
      /\ catalogue[arm].diagnoser = "rules" => p = plan("rules", case, event, clock)
      /\ catalogue[arm].diagnoser = "cron" => p = cron(case, event, clock)
  BY <1>1, ProposedTyped
<1>9. p.intervention # "WAIT"
  <2>1. event \in Event /\ case \in CaseState /\ PlannedCase(case)
    BY <1>1, ContactSets, RunAssumption DEF Typed, CaseState, PlannedCase
  <2>2. CASE catalogue[arm].diagnoser = "cron"
    BY <1>1, <1>8, <2>1, <2>2, CronTyped
  <2>3. CASE catalogue[arm].diagnoser = "rules"
    <3>1. p = plan("rules", case, event, clock)
      BY <1>8, <2>3
    <3>2. \A do \in Intervention \ {"WAIT"} :
            \A amount, delay : Draft("rules", case, event, do, amount, delay).intervention # "WAIT"
      BY DEF Draft
    <3>3. {"STOP", "HANDOFF_HUMAN"} \subseteq Intervention \ {"WAIT"}
      BY DEF Intervention, GATED_INTERVENTIONS
    <3> QED
      BY <1>1, <2>1, <3>1, <3>2, <3>3, PlanIsADraft
  <2> QED
    BY <1>2, <2>2, <2>3
<1>10. ~Refused(p, readable)
  <2> SUFFICES ASSUME Refused(p, readable)  PROVE FALSE
    OBVIOUS
  <2>1. /\ Actionable(p) /\ Refusals(p, Due(p), readable) # {} /\ GivesUp(p, readable)
    BY DEF Refused
  <2>2. use_gate /\ Refusals(p, Due(p), readable) = Denials(p, Due(p), TRUE)
    BY <1>5, <2>1 DEF Refusals
  <2>3. p = plan("rules", case, event, clock)
    BY <1>2, <1>8, <2>2
  <2>4. Refusals(p, Due(p), readable) \intersect TERMINAL_DENIALS # {}
    BY <1>1, <2>1, <2>2, <2>3, RefusalsAreFinal
  <2> QED
    BY <1>3, <2>1, <2>4 DEF GivesUp
<1>11. Act(p, readable)
  BY <1>4, <1>6, <1>7, <1>9, <1>10 DEF Wait
<1>12. clock' = Due(p) + 24 * Hour /\ steps' = steps + 1
  BY <1>9, <1>11, ExecutingTakesADay DEF Act
<1>13. Due(p) \in Nat /\ clock <= Due(p)
  BY <1>1, <1>8 DEF Due, Proposal
<1> QED
  BY <1>1, <1>12, <1>13 DEF Hour

\* Without a model every case ends by its own ladder or by the horizon, never by
\* MAX_STEPS_PER_CASE, as long as the settlement can be read and the limit leaves a step for
\* each day.  runner.py:35, 173-268.
THEOREM DaysSuffice ==
  ASSUME RulesFitPolicy, FALSE \notin Reads, HorizonHours <= MaxSteps * 24
  PROVE  Spec => []StepsSuffice
<1>1. Init => DaysGoBy
  BY DEF Init, DaysGoBy, Hour
<1>2. Base /\ DaysGoBy /\ [Step]_vars => DaysGoBy'
  <2> SUFFICES ASSUME Base, DaysGoBy, [Step]_vars, catalogue[arm'].diagnoser # "llm",
                      ~closed'
               PROVE  steps' * (24 * Hour) <= clock'
    BY DEF DaysGoBy
  <2>1. steps \in Nat /\ clock \in Nat /\ arm' = arm
    BY RunAssumption, Effects DEF Base, Typed, vars, world
  <2>2. CASE UNCHANGED vars
    BY <2>2 DEF vars, world, DaysGoBy
  <2>3. CASE Step
    <3>1. clock + 24 * Hour <= clock' /\ steps' = steps + 1
      BY <2>1, <2>3, TurnsTakeADay
    <3>2. steps * (24 * Hour) <= clock
      BY <2>1, <2>3, Turns DEF Base, DaysGoBy
    <3>3. clock' \in Nat
      BY StepBase DEF Base, Typed
    <3> QED
      BY <2>1, <3>1, <3>2, <3>3 DEF Hour
  <2> QED
    BY <2>2, <2>3
<1>3. Base /\ DaysGoBy => StepsSuffice
  <2> SUFFICES ASSUME Base, DaysGoBy, catalogue[arm].diagnoser # "llm", ~closed,
                      ~(steps < MaxSteps)
               PROVE  PastHorizon(clock)
    BY DEF StepsSuffice
  <2>1. steps = MaxSteps /\ MaxSteps \in Nat /\ clock \in Nat /\ HorizonHours \in Nat
    BY RunAssumption, PolicyAssumption DEF Base, Typed
  <2>2. MaxSteps * (24 * 12) <= clock
    BY <2>1 DEF DaysGoBy, Hour
  <2> QED
    BY <2>1, <2>2 DEF PastHorizon, Hour
<1> QED
  BY <1>1, <1>2, <1>3, InitBase, StepBase, PTL DEF Spec

==================================================================================
