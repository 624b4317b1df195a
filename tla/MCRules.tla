--------------------------------- MODULE MCRules ---------------------------------
(***************************************************************************)
(* Runner.tla with the arms that need no model, under the policy, costs    *)
(* and priors of config/.                                                  *)
(***************************************************************************)
EXTENDS Runner

\* An order of 1200 rupees, over the handoff floor, that failed at nine at night.
Failure(code, message) ==
  [amount |-> 1200, currency |-> "INR", code |-> code, message |-> message,
   altRail |-> FALSE, optedOut |-> FALSE, dnd |-> FALSE, allowsPart |-> FALSE,
   floorPercent |-> 30, preferred |-> <<"VOICE", "SMS">>, localHour |-> 21]

\* Each class of failure, known by its code or by its prose, with and without a
\* second instrument, part payments, the do-not-disturb register and consent.
MCEvents ==
  {Failure("INSUFFICIENT_FUNDS", "UNKNOWN"),
   [Failure("UNKNOWN", "INSUFFICIENT_FUNDS") EXCEPT !.allowsPart = TRUE, !.dnd = TRUE],
   [Failure("ISSUER_DOWN", "INSUFFICIENT_FUNDS") EXCEPT !.altRail = TRUE],
   Failure("RAIL_TIMEOUT", "UNKNOWN"),
   Failure("INSTRUMENT_DEAD", "UNKNOWN"),
   [Failure("UNKNOWN", "INSTRUMENT_DEAD") EXCEPT !.altRail = TRUE, !.optedOut = TRUE],
   [Failure("AUTH_ABANDONED", "UNKNOWN") EXCEPT !.dnd = TRUE],
   [Failure("AUTH_FAILED", "AUTH_FAILED") EXCEPT !.altRail = TRUE],
   Failure("RISK_DECLINED", "UNKNOWN"),
   [Failure("LIMIT_EXCEEDED", "UNKNOWN") EXCEPT !.altRail = TRUE, !.allowsPart = TRUE],
   Failure("LIMIT_EXCEEDED", "UNKNOWN"),
   Failure("MANDATE_INVALID", "UNKNOWN"),
   [Failure("RESTRICTION", "UNKNOWN") EXCEPT !.altRail = TRUE, !.localHour = 8],
   Failure("RESTRICTION", "UNKNOWN"),
   [Failure("UNKNOWN", "UNKNOWN") EXCEPT !.amount = 99]}

MCProposals == {}
MCOobHours == {100, HorizonHours}
MCReadsAnswer == {TRUE}
MCFates == {"answered", "failed"}

----------------------------------------------------------------------------------
(* config/policy.yaml, priors.yaml and costs.yaml.                         *)

MCChannels == {"SMS", "EMAIL", "WHATSAPP"}
MCCurrencies == {"INR"}
MCDecay == <<11, 20>>

\* In the order of the file.
Percent(same, alt, link, part, refresh, mandate, handoff) ==
  [RETRY_SAME_RAIL |-> same, RETRY_ALT_RAIL |-> alt, PAYMENT_LINK |-> link,
   PART_PAYMENT_LINK |-> part, INSTRUMENT_REFRESH |-> refresh,
   MANDATE_REREGISTER |-> mandate, HANDOFF_HUMAN |-> handoff]

MCPrior ==
  [INSUFFICIENT_FUNDS |-> Percent(28, 14, 22, 34,  5,  3, 30),
   ISSUER_DOWN        |-> Percent(55, 62, 30, 10,  4,  3, 20),
   RAIL_TIMEOUT       |-> Percent(48, 44, 28,  9,  4,  3, 18),
   INSTRUMENT_DEAD    |-> Percent( 0, 30, 26, 12, 34,  5, 22),
   AUTH_ABANDONED     |-> Percent(10, 12, 42, 14,  5,  3, 26),
   AUTH_FAILED        |-> Percent(12, 16, 38, 12, 10,  3, 24),
   RISK_DECLINED      |-> Percent( 0,  4,  8,  5,  4,  2, 18),
   LIMIT_EXCEEDED     |-> Percent(20, 40, 24, 40,  5,  3, 20),
   MANDATE_INVALID    |-> Percent( 0,  8, 26, 12,  8, 36, 22),
   RESTRICTION        |-> Percent( 0, 34, 28, 12, 20,  4, 22),
   UNKNOWN            |-> Percent(12, 14, 20, 14,  8,  5, 18)]

MCActionCost == Percent(50, 50, 20, 20, 20, 30, 5000)
MCChannelCost == [NONE |-> 0, SMS |-> 20, EMAIL |-> 2, WHATSAPP |-> 35, VOICE |-> 200]
==================================================================================
