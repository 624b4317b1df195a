------------------------------- MODULE PlannerProofs -----------------------------
(***************************************************************************)
(* Planner against Kernel, for every policy, event, case and time: the     *)
(* contacts the rules plan pass the kernel's contact and consent checks,   *)
(* and the handoff they plan passes its review never.                      *)
(***************************************************************************)
EXTENDS Planner, FiniteSetTheorems, WellFoundedInduction, TLAPS

----------------------------------------------------------------------------------
\* The order of the numbers as a relation, for the library's facts about descent.
LessThan == {pair \in Nat \X Nat : pair[1] < pair[2]}

LEMMA NoDescent == IsWellFoundedOn(LessThan, Nat)
  BY NatLessThanWellFounded DEF LessThan, OpToRel

\* A set of numbers that is not empty has a least one, so First finds it.
LEMMA FirstIsLeast ==
  ASSUME NEW S \in SUBSET Nat, S # {}
  PROVE  First(S) \in S /\ \A j \in S : First(S) <= j
<1>1. PICK x \in S : \A y \in S : ~(<<y, x>> \in LessThan)
  BY NoDescent, WFMin, Zenon
<1>2. ASSUME NEW y \in S, y < x  PROVE FALSE
  <2>1. <<y, x>> \in LessThan
    BY <1>2 DEF LessThan
  <2> QED  BY <1>1, <2>1
<1>3. \A y \in S : x <= y
  BY <1>2
<1> QED
  BY <1>3 DEF First

----------------------------------------------------------------------------------
(* What the planner chooses.                                               *)

\* EMAIL is in our own order of channels and no register blocks it, so where the
\* policy permits it the planner's channel is permitted and not blocked.
LEMMA ChannelIsUsable ==
  ASSUME NEW e \in Event, "EMAIL" \in PermittedChannels
  PROVE  pick_channel(e) \in PermittedChannels \ dnd_blocked(e)
<1> DEFINE ours   == <<"WHATSAPP", "EMAIL", "SMS">>
           order  == e.preferred \o ours
           usable == {i \in 1..Len(order) : order[i] \in PermittedChannels \ dnd_blocked(e)}
           email  == Len(e.preferred) + 2
<1>1. e.preferred \in Seq(Channel) /\ ours \in Seq(Channel) /\ Len(ours) = 3
  BY DEF Event, Channel
<1>2. Len(order) = Len(e.preferred) + 3 /\ order[email] = "EMAIL"
  BY <1>1
<1>3. email \in 1..Len(order)
  BY <1>1, <1>2
<1>4. "EMAIL" \notin dnd_blocked(e)
  BY DEF dnd_blocked
<1>5. email \in usable
  BY <1>2, <1>3, <1>4
<1>6. usable \in SUBSET Nat /\ usable # {}
  <2>1. 1..Len(order) \subseteq Nat
    BY <1>1, <1>2
  <2> QED
    BY <1>5, <2>1
<1> HIDE DEF order
<1>7. First(usable) \in usable
  BY <1>6, FirstIsLeast
<1>8. pick_channel(e) = order[First(usable)]
  BY <1>6 DEF pick_channel, order
<1> QED
  BY <1>7, <1>8

\* The clock an hour on shows the next hour.
LEMMA HoursPass ==
  ASSUME NEW e \in Event, NEW t \in Nat, NEW k \in 0..14
  PROVE  /\ local_hour(e, t) \in 0..23
         /\ local_hour(e, t + k * Hour) = (local_hour(e, t) + k) % 24
<1>1. e.localHour \in 0..23
  BY DEF Event
<1>2. t \div 12 \in Nat /\ (t + k * 12) \div 12 = (t \div 12) + k
  OBVIOUS
<1>3. local_hour(e, t) = (e.localHour + (t \div 12)) % 24
  BY DEF local_hour, Hour
<1>4. local_hour(e, t + k * Hour) = (e.localHour + ((t \div 12) + k)) % 24
  BY <1>2 DEF local_hour, Hour
<1> DEFINE n == e.localHour + (t \div 12)
<1>5. n \in Nat /\ e.localHour + ((t \div 12) + k) = n + k
  BY <1>1, <1>2
<1> HIDE DEF n
<1>6. n % 24 \in 0..23 /\ (n + k) % 24 = ((n % 24) + k) % 24
  BY <1>5
<1> QED
  BY <1>3, <1>4, <1>5, <1>6 DEF n

\* Fourteen tries, and a fifteenth hour nobody looks at, are enough: the only hour
\* from which none of fourteen falls between ten and twenty is eight in the evening,
\* and the fifteenth is then ten in the morning.
LEMMA SendTimeIsSane ==
  ASSUME NEW e \in Event, NEW t \in Nat
  PROVE  /\ next_sane_send_time(e, t) \in Nat
         /\ local_hour(e, next_sane_send_time(e, t)) \in 10..19
<1> DEFINE sane == {k \in 0..13 : local_hour(e, t + k * Hour) \in 10..19}
<1>1. next_sane_send_time(e, t) = t + Hour * (IF sane = {} THEN 14 ELSE First(sane))
  BY DEF next_sane_send_time
<1>2. CASE sane # {}
  <2>1. First(sane) \in sane
    BY <1>2, FirstIsLeast
  <2>2. next_sane_send_time(e, t) = t + First(sane) * Hour
    BY <1>1, <1>2, <2>1 DEF Hour
  <2> QED
    BY <2>1, <2>2 DEF Hour
<1>3. CASE sane = {}
  <2> DEFINE h == local_hour(e, t)
  <2>1. h \in 0..23
    BY HoursPass
  <2>2. \A k \in 0..13 : ~((h + k) % 24 \in 10..19)
    BY <1>3, HoursPass
  <2> HIDE DEF h
  <2>3. h = 20
    <3>1. ~(h \in 10..19)
      BY <2>1, <2>2
    <3>2. ~(h \in 0..9)
      <4> SUFFICES ASSUME h \in 0..9  PROVE FALSE
        OBVIOUS
      <4>1. 10 - h \in 0..13 /\ (h + (10 - h)) % 24 = 10
        OBVIOUS
      <4> QED  BY <4>1, <2>2
    <3>3. ~(h \in 21..23)
      <4> SUFFICES ASSUME h \in 21..23  PROVE FALSE
        OBVIOUS
      <4>1. 34 - h \in 0..13 /\ (h + (34 - h)) % 24 = 10
        OBVIOUS
      <4> QED  BY <4>1, <2>2
    <3> QED  BY <2>1, <3>1, <3>2, <3>3
  <2>4. local_hour(e, t + 14 * Hour) = (h + 14) % 24
    BY HoursPass DEF h
  <2>5. next_sane_send_time(e, t) = t + 14 * Hour
    BY <1>1, <1>3 DEF Hour
  <2> QED
    BY <2>3, <2>4, <2>5 DEF Hour
<1> QED
  BY <1>2, <1>3

\* The ladder waits a whole number of ticks, and a person is never one of its steps.
LEMMA CureIsAStep ==
  ASSUME NEW class \in FailureClass, NEW n \in Nat, NEW e \in Event
  PROVE  /\ cure(class, n, e)[1] \in Intervention \ {"HANDOFF_HUMAN"}
         /\ cure(class, n, e)[2] \in Nat
<1> USE DEF Minutes, Hour, Intervention, GATED_INTERVENTIONS, MONEY_MOVING,
            RETRY_INTERVENTIONS, LINK_INTERVENTIONS
<1>1. CASE class = "RISK_DECLINED"       BY <1>1 DEF cure
<1>2. CASE class = "INSUFFICIENT_FUNDS"  BY <1>2 DEF cure
<1>3. CASE class = "ISSUER_DOWN"         BY <1>3 DEF cure
<1>4. CASE class = "RAIL_TIMEOUT"        BY <1>4 DEF cure
<1>5. CASE class = "INSTRUMENT_DEAD"     BY <1>5 DEF cure
<1>6. CASE class = "AUTH_ABANDONED"      BY <1>6 DEF cure
<1>7. CASE class = "AUTH_FAILED"         BY <1>7 DEF cure
<1>8. CASE class = "LIMIT_EXCEEDED"      BY <1>8 DEF cure
<1>9. CASE class = "MANDATE_INVALID"     BY <1>9 DEF cure
<1>10. CASE class = "RESTRICTION"        BY <1>10 DEF cure
<1>11. CASE class = "UNKNOWN"            BY <1>11 DEF cure
<1> QED
  BY <1>1, <1>2, <1>3, <1>4, <1>5, <1>6, <1>7, <1>8, <1>9, <1>10, <1>11
     DEF FailureClass


----------------------------------------------------------------------------------
(* Planner and kernel.                                                     *)

\* What the two agree on: the hours the planner sends in are not quiet ones, and the
\* channel it falls back to is permitted.
PolicyIsCivil ==
  /\ \A hour \in 10..19 : ~quiet(hour)
  /\ "EMAIL" \in PermittedChannels

\* The parts of a case the planner reads.
PlannedCase(c) ==
  /\ c.attempts \in Nat
  /\ c.contacts \in Seq(Nat)

\* A planned contact other than a handoff is a step of the ladder, at a sane hour,
\* on the picked channel, when outreach is permitted at that hour.
LEMMA PlannedContact ==
  ASSUME NEW e \in Event, NEW c, PlannedCase(c), NEW t \in Nat, NEW source,
         NEW p, p = plan(source, c, e, t),
         p.intervention \in CONTACT_INTERVENTIONS \ {"HANDOFF_HUMAN"}
  PROVE  /\ p.channel = pick_channel(e)
         /\ t + p.delay \in Nat
         /\ local_hour(e, t + p.delay) \in 10..19
         /\ outreach_permitted(c, e, t + p.delay)
<1> DEFINE step == cure(classify(e), c.attempts, e)
           due  == next_sane_send_time(e, t + step[2])
<1>1. classify(e) \in FailureClass
  BY DEF classify, Event
<1>2. step[1] \in Intervention /\ step[2] \in Nat /\ c.attempts \in Nat
  BY <1>1, CureIsAStep DEF PlannedCase
<1>3. due \in Nat /\ local_hour(e, due) \in 10..19
  BY <1>2, SendTimeIsSane
<1>4. "STOP" \notin CONTACT_INTERVENTIONS
  BY DEF CONTACT_INTERVENTIONS, LINK_INTERVENTIONS
<1> HIDE DEF step
<1>5. /\ p.channel = pick_channel(e)
      /\ p.delay = due - t
      /\ outreach_permitted(c, e, due)
  BY <1>4 DEF plan, step
<1>6. t + p.delay = due
  BY <1>3, <1>5
<1> QED
  BY <1>3, <1>5, <1>6

\* Every contact the rules plan, a handoff apart, passes the kernel's contact and
\* consent checks at the hour it is due: fallback.py's outreach_permitted,
\* next_sane_send_time and pick_channel are as strict as I4 and I5.
THEOREM PlannedContactsPass ==
  ASSUME NEW e \in Event, NEW c, PlannedCase(c), NEW t \in Nat, NEW source,
         NEW p, p = plan(source, c, e, t), PolicyIsCivil,
         p.intervention # "HANDOFF_HUMAN"
  PROVE  I4(p, c, e, t + p.delay) = {} /\ I5(p, e) = {}
<1>1. CASE p.intervention \notin CONTACT_INTERVENTIONS
  BY <1>1 DEF I4, I5
<1>2. CASE p.intervention \in CONTACT_INTERVENTIONS
  <2> DEFINE due == t + p.delay
  <2>1. /\ p.channel = pick_channel(e)
        /\ due \in Nat /\ local_hour(e, due) \in 10..19
        /\ outreach_permitted(c, e, due)
    BY <1>2, PlannedContact
  <2>2. p.channel \in PermittedChannels \ dnd_blocked(e)
    BY <2>1, ChannelIsUsable DEF PolicyIsCivil
  <2>3. ~in_quiet_hours(e, due)
    BY <2>1 DEF PolicyIsCivil, in_quiet_hours
  <2> HIDE DEF due
  <2>4. /\ Cardinality(contacts_since(c, due - WindowHours * Hour)) < MaxContacts
        /\ ~e.optedOut
        /\ c.contacts # <<>> => due - c.contacts[Len(c.contacts)] >= GapHours * Hour
    BY <2>1 DEF outreach_permitted
  <2>5. Cardinality(contacts_since(c, due - WindowHours * Hour)) \in Nat
    <3>1. contacts_since(c, due - WindowHours * Hour) \subseteq 1..Len(c.contacts)
      BY DEF contacts_since
    <3>2. IsFiniteSet(1..Len(c.contacts))
      BY FS_Interval DEF PlannedCase
    <3> QED
      BY <3>1, <3>2, FS_Subset, FS_CardinalityType
  <2>6. c.contacts # <<>> => ~(due - c.contacts[Len(c.contacts)] < GapHours * Hour)
    <3>1. c.contacts # <<>> => c.contacts[Len(c.contacts)] \in Nat
      BY DEF PlannedCase
    <3>2. due \in Nat /\ GapHours * Hour \in Nat
      BY <2>1, PolicyAssumption DEF due, Hour
    <3> QED
      BY <2>4, <3>1, <3>2
  <2>7. I4(p, c, e, due) = {}
    BY <2>2, <2>3, <2>4, <2>5, <2>6, PolicyAssumption DEF I4
  <2>8. I5(p, e) = {}
    BY <2>2, <2>4 DEF I5, dnd_blocked
  <2> QED
    BY <2>7, <2>8 DEF due
<1> QED
  BY <1>1, <1>2

\* ARCHITECTURE.md has the kernel weigh the planner's escalation on its value.  It
\* never gets there: a handoff is planned only when the attempt cap is reached, and
\* I7 refuses everything gated from then on, whatever the case is worth.
THEOREM EscalationIsRefused ==
  ASSUME NEW e \in Event, NEW c, PlannedCase(c), NEW t \in Nat, NEW source,
         NEW p, p = plan(source, c, e, t),
         p.intervention = "HANDOFF_HUMAN"
  PROVE  IF PastHorizon(t + p.delay)
           THEN I7(p, c, t + p.delay) = {"HORIZON_EXCEEDED"}
           ELSE I7(p, c, t + p.delay) = {"ATTEMPT_CAP_REACHED"}
<1> DEFINE step == cure(classify(e), c.attempts, e)
<1>1. classify(e) \in FailureClass
  BY DEF classify, Event
<1>2. step[1] # "HANDOFF_HUMAN" /\ c.attempts \in Nat
  BY <1>1, CureIsAStep DEF PlannedCase
<1> HIDE DEF step
<1>3. c.attempts >= MaxMoneyActions
  BY <1>2, PolicyAssumption DEF plan, step
<1>4. "HANDOFF_HUMAN" \in GATED_INTERVENTIONS
  BY DEF GATED_INTERVENTIONS
<1> QED
  BY <1>3, <1>4 DEF I7

==================================================================================
