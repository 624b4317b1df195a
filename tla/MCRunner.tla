--------------------------------- MODULE MCRunner --------------------------------
(***************************************************************************)
(* Runner.tla on one order of 100 rupees over 76 hours: a diagnoser        *)
(* that waits, stops, replays, sends links by a permitted and by a         *)
(* forbidden channel, asks for part of the money or for too much, or hands *)
(* over to a human, now, in two hours or in three.                         *)
(*                                                                         *)
(* An executed action is looked at again after 24 hours, so a cooling-off  *)
(* of 27 hours refuses what is proposed at once, and is just over for what *)
(* is due three hours later; a third contact 54 hours after the first is   *)
(* at the very edge of the window of the budget of two, and there is an    *)
(* attempt left for it.                                                    *)
(***************************************************************************)
EXTENDS Runner

Propose(intervention, channel, amount, delay) ==
  [intervention |-> intervention, channel |-> channel, amount |-> amount,
   currency |-> "INR", class |-> "UNKNOWN", confidence |-> 90, source |-> "llm",
   delay |-> delay * Hour, ordinal |-> 0]

MCProposals ==
  {Propose("STOP", "NONE", 0, 0),
   Propose("WAIT", "NONE", 0, 20),
   Propose("RETRY_SAME_RAIL", "NONE", 100, 0),
   Propose("PAYMENT_LINK", "SMS", 100, 0),
   Propose("PAYMENT_LINK", "VOICE", 100, 0),
   Propose("PART_PAYMENT_LINK", "EMAIL", 50, 3),
   Propose("PAYMENT_LINK", "EMAIL", 101, 0),
   Propose("HANDOFF_HUMAN", "EMAIL", 100, 2)}

\* A failure at ten in the morning; one of a customer on DND, at night, with a risk
\* decline; and one of a customer who has opted out.
MCEvents ==
  {[amount |-> 100, currency |-> "INR", code |-> "UNKNOWN", message |-> "UNKNOWN",
    altRail |-> FALSE, optedOut |-> FALSE, dnd |-> FALSE, allowsPart |-> TRUE,
    floorPercent |-> 40, preferred |-> <<"SMS">>, localHour |-> 10],
   [amount |-> 100, currency |-> "INR", code |-> "RISK_DECLINED", message |-> "UNKNOWN",
    altRail |-> TRUE, optedOut |-> FALSE, dnd |-> TRUE, allowsPart |-> FALSE,
    floorPercent |-> 0, preferred |-> <<"SMS">>, localHour |-> 22],
   [amount |-> 100, currency |-> "INR", code |-> "UNKNOWN", message |-> "UNKNOWN",
    altRail |-> FALSE, optedOut |-> TRUE, dnd |-> FALSE, allowsPart |-> TRUE,
    floorPercent |-> 40, preferred |-> <<"EMAIL">>, localHour |-> 12]}

MCOobHours == {25, HorizonHours}

MCChannels == {"SMS", "EMAIL", "WHATSAPP"}
MCCurrencies == {"INR"}

MCPrior == [class \in FailureClass |-> [i \in GATED_INTERVENTIONS |-> 30]]
MCDecay == <<11, 20>>
MCActionCost == [i \in GATED_INTERVENTIONS |-> IF i = "HANDOFF_HUMAN" THEN 400 ELSE 100]
MCChannelCost == [c \in Channel |-> 0]

MCReadsFail == BOOLEAN
MCFates == {"answered", "failed", "unseen"}
==================================================================================
