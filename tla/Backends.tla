-------------------------------- MODULE Backends ---------------------------------
(***************************************************************************)
(* The two live payments backends, executor/razorpay_rest.py and           *)
(* executor/razorpay_mcp.py, with the provider behind them: how answers,   *)
(* errors, timeouts and dead servers become the results and exceptions of  *)
(* executor/backend.py.                                                    *)
(*                                                                         *)
(* A request is on its way until the provider deals with it, which may be  *)
(* after the caller has given up.  Over REST an answer comes back on its   *)
(* own connection; over MCP it is a line on the pipe of McpClient.  The    *)
(* provider is modelled from how the two files use it: a key is the        *)
(* reference id of a link, and a second link with one id is refused.       *)
(***************************************************************************)
EXTENDS McpClient, VasoolTypes

CONSTANTS
  Vias,          \* which backends: a subset of {"rest", "mcp"}
  Keys,          \* idempotency keys, [intervention, ordinal]
  MaxCalls       \* bound: calls of the backend

ASSUME BackendsAssumption ==
  /\ Vias \subseteq {"rest", "mcp"}
  /\ Keys # {} /\ \A k \in Keys : k.intervention \in Intervention
  /\ MaxCalls \in Nat

VARIABLES
  via,           \* the backend in use
  call,          \* the operation in progress: [op, number, key]
  stage,         \* where it is: "start", "handshake", "first" request or "lookup"
  result,        \* what it returned or raised, "none" while in progress
  requests,      \* requests the provider has not dealt with: [id, tool, call, key],
                 \* the id is 0 when the server between has answered in its stead
  answers,       \* answers not yet on their way back: [id, said]
  effects,       \* keys a link exists for
  settled,       \* the order is paid
  crowded,       \* the account has more links than fit on one page
  performed,     \* history: the calls whose own write took effect
  before,        \* history: what was true when the call began
  unread         \* history: why the result may be wrong, "no" if it may not

world    == <<effects, settled, crowded>>
progress == <<via, call, stage, result>>
history  == <<performed, before, unread>>
vars == <<progress, client, requests, answers, world, history>>

Operation == {"is_settled", "execute", "reconcile"}

\* "reference" is an error whose text names reference_id, as that of a duplicate does.
Said == {"ready", "paid", "unpaid", "link", "nolink", "page", "reference", "text", "error"}

Result ==
  {"none", "settled", "unsettled", "SettlementUnknown", "executed", "noaction", "absent",
   "ProviderError", "UnknownOutcome", "ReconciliationUnknown"}

Init ==
  /\ via \in Vias /\ crowded \in (IF via = "mcp" THEN BOOLEAN ELSE {FALSE})
  /\ call = [op |-> "none", number |-> 0, key |-> CHOOSE k \in Keys : TRUE]
  /\ stage = "start" /\ result = "none"
  /\ ClientInit
  /\ requests = {} /\ answers = {}
  /\ effects = {} /\ settled = FALSE
  /\ performed = {} /\ unread = "no"
  /\ before = [settled |-> FALSE, landed |-> FALSE]

----------------------------------------------------------------------------------
(* The provider.                                                           *)

\* The tool or endpoint a stage of an operation asks.
tool(at) ==
  IF at = "handshake" THEN "initialize"
  ELSE IF at = "lookup" \/ call.op = "reconcile" THEN "list"
  ELSE IF call.op = "is_settled" THEN "order" ELSE "create"

\* What the provider says to a request.  A list over MCP is the first page of
\* an account, over REST it is filtered by the key.
Answer(r) ==
  CASE r.tool = "initialize" -> {"ready"}
    [] r.tool = "order" -> IF settled THEN {"paid"} ELSE {"unpaid"}
    [] r.tool = "create" -> IF r.key \in effects THEN {"reference"} ELSE {"link"}
    [] r.tool = "list" -> (IF r.key \in effects THEN {"link"}
                           ELSE IF crowded THEN {} ELSE {"nolink"})
                          \union (IF crowded THEN {"page"} ELSE {})

\* An answer on its way back, unless the server has answered before.  Over REST the
\* connection may be closed by now.
Answers(r, said) ==
  answers' = IF r.id = 0 \/ (via = "rest" /\ r.id # waiting) THEN answers
             ELSE answers \union {[id |-> r.id, said |-> said]}

\* The provider does what it is asked, which may create the link, and answers,
\* over MCP possibly in prose.
Deals(r) ==
  /\ requests' = requests \ {r}
  /\ \E said \in Answer(r) :
       /\ \/ Answers(r, said)
          \/ via = "mcp" /\ said \notin {"ready", "reference"} /\ Answers(r, "text")
       /\ IF r.tool = "create" /\ said = "link"
          THEN effects' = effects \union {r.key} /\ performed' = performed \union {r.call}
          ELSE UNCHANGED <<effects, performed>>
  /\ UNCHANGED <<progress, client, settled, crowded, before, unread>>

\* It refuses, and nothing happens; what it finds wrong with a write may be the
\* reference id.
Refuses(r) ==
  /\ requests' = requests \ {r}
  /\ \E said \in {"error"} \union (IF r.tool = "create" THEN {"reference"} ELSE {}) :
       Answers(r, said)
  /\ UNCHANGED <<progress, client, world, history>>

\* The MCP server has waited long enough for the provider, or got a 5xx from it, and
\* answers with an error; the write is still on its way, or takes effect.  Such an
\* error does not name the reference id.
Relays(r) ==
  /\ via = "mcp" /\ r.tool = "create" /\ r.id # 0
  /\ Answers(r, "error")
  /\ requests' = (requests \ {r}) \union {[r EXCEPT !.id = 0]}
  /\ UNCHANGED <<progress, client, world, history>>

\* A request is lost on the way.
Loses(r) ==
  /\ requests' = requests \ {r}
  /\ UNCHANGED <<progress, client, answers, world, history>>

\* The customer pays, through a link or by another route.
Pay ==
  /\ ~settled /\ settled' = TRUE
  /\ UNCHANGED <<progress, client, requests, answers, effects, crowded, history>>

----------------------------------------------------------------------------------
(* What the transports make of what happens to a request.  An answer goes  *)
(* through; a failure becomes "error", a ProviderError, or "unknown", an   *)
(* exception that does not say the request was without effect.             *)

\* Mutant of request_raises: the earlier version its comment tells of.
request_raises_error(said) ==
  IF said \in {"broken", "5xx", "garbled"} THEN "error"
  ELSE IF said = "timeout" THEN "unknown" ELSE said

\* RazorpayRestBackend._request
request_raises(said) ==
  CASE said = "timeout" -> "unknown"
    [] said \in {"broken", "5xx"} -> IF tool(stage) = "create" THEN "unknown" ELSE "error"
    [] said = "garbled" -> "error"
    [] OTHER -> said

\* McpStdioClient._call, and BrokenPipeError from _write
call_raises(said) ==
  CASE said \in {"timeout", "closed"} -> "error"
    [] said = "broken" -> "unknown"
    [] OTHER -> said

heard(said) == IF via = "rest" THEN request_raises(said) ELSE call_raises(said)

----------------------------------------------------------------------------------
(* What the operations make of that.                                       *)

\* Mutant of is_settled: the earlier version its comment tells of.
is_settled_or_not(said) == IF said = "paid" THEN "settled" ELSE "unsettled"

\* A body without a status, such as text, counts as not paid.
is_settled(said) ==
  CASE said = "paid" -> "settled"
    [] said \in {"unpaid", "text"} -> "unsettled"
    [] OTHER -> "SettlementUnknown"

\* A body without items, such as text, is an empty list; a full page proves nothing.
find_by_reference(said) ==
  CASE said = "link" -> "found"
    [] said \in {"nolink", "text"} -> "missing"
    [] OTHER -> "ReconciliationUnknown"

reconcile(said) ==
  CASE find_by_reference(said) = "found" -> "executed"
    [] find_by_reference(said) = "missing" -> "absent"
    [] OTHER -> "ReconciliationUnknown"

\* After a refusal that names the reference id: the link there is, or the refusal itself.
replay(said) ==
  CASE find_by_reference(said) = "found" -> "executed"
    [] find_by_reference(said) = "missing" -> "ProviderError"
    [] OTHER -> "ReconciliationUnknown"

\* Whatever the write's answer says otherwise, it was executed.
execute(said) ==
  CASE said \in {"error", "reference"} -> "ProviderError"
    [] said = "unknown" -> "UnknownOutcome"
    [] OTHER -> "executed"

outcome(at, said) ==
  CASE call.op = "is_settled" -> is_settled(said)
    [] call.op = "reconcile"  -> reconcile(said)
    [] OTHER -> IF at = "lookup" THEN replay(said) ELSE execute(said)

\* Why a result may be wrong: a failure that does not prove what ProviderError
\* says of a write, among them every error the MCP server answers with, which does not
\* tell a refusal from a failure it relays; or prose that is not understood.
doubt(said) ==
  CASE said = "text" -> "text"
    [] /\ tool(stage) = "create"
       /\ said \in (IF via = "rest" THEN {"garbled"}
                    ELSE {"timeout", "closed", "error"}) -> "write"
    [] OTHER -> "no"

----------------------------------------------------------------------------------
(* The steps of an operation.                                              *)

\* A settlement read has no key; only a write of a link is ever reconciled.
Begin(op, key) ==
  /\ call.op = "none" /\ call.number < MaxCalls
  /\ op = "is_settled" => key = call.key
  /\ op = "reconcile" => key.intervention \in LINK_INTERVENTIONS
  /\ call' = [op |-> op, number |-> call.number + 1, key |-> key]
  /\ stage' = "start" /\ result' = "none"
  /\ before' = [settled |-> settled, landed |-> key \in effects]
  /\ unread' = "no"
  /\ UNCHANGED <<via, client, requests, answers, world, performed>>

Returns(r, why) ==
  /\ call' = [call EXCEPT !.op = "none"]
  /\ stage' = "start" /\ result' = r
  /\ unread' = why
  /\ Hangs_up
  /\ UNCHANGED <<via, nextId, requests, world, performed, before>>

\* A request leaves, or its write hits a broken pipe: the operation then takes it as
\* it takes any failure of that request.
Requests(at) ==
  \/ /\ via = "rest" \/ proc = "up"
     /\ stage' = at /\ Posts
     /\ requests' = requests \union
          {[id |-> nextId', tool |-> tool(at), call |-> call.number, key |-> call.key]}
     /\ UNCHANGED <<via, call, result, world, history>>
  \/ /\ via = "mcp" /\ proc = "dead"
     /\ Returns(outcome(at, call_raises("broken")), "no")

\* An execute that neither backend carries out: no request is made.
NotLive ==
  /\ call.op = "execute" /\ stage = "start"
  /\ call.key.intervention \notin LINK_INTERVENTIONS
  /\ Returns(IF call.key.intervention \in RETRY_INTERVENTIONS
             THEN "ProviderError" ELSE "noaction", "no")
  /\ UNCHANGED <<proc, lines, answers>>

Asks ==
  /\ call.op # "none" /\ stage = "start"
  /\ call.op = "execute" => call.key.intervention \in LINK_INTERVENTIONS
  /\ via = "mcp" => proc # "none"
  /\ Requests("first")
  /\ UNCHANGED <<proc, lines, answers>>

\* start(), when there is no process yet; a dead one is not replaced, and a
\* handshake that failed is not made again.
Starts ==
  /\ call.op # "none" /\ stage = "start"
  /\ call.op = "execute" => call.key.intervention \in LINK_INTERVENTIONS
  /\ via = "mcp" /\ proc = "none"
  /\ proc' = "up"
  /\ stage' = "handshake" /\ Posts
  /\ requests' = requests \union
       {[id |-> nextId', tool |-> "initialize", call |-> call.number, key |-> call.key]}
  /\ UNCHANGED <<via, call, result, lines, answers, world, history>>

\* What follows on what was heard.
Concludes(said) ==
  LET next == IF stage = "handshake" /\ said = "ready" THEN "first"
              ELSE IF stage = "first" /\ tool(stage) = "create" /\ said = "reference"
                   THEN "lookup" ELSE "none"
  IN  IF next # "none" THEN Requests(next)
      ELSE Returns(outcome(stage, heard(said)), doubt(said))

RestAnswered ==
  /\ via = "rest"
  /\ \E a \in answers : a.id = waiting /\ answers' = answers \ {a} /\ Concludes(a.said)
  /\ UNCHANGED <<proc, lines>>

\* A timeout, a broken connection, a 5xx, or a body that is not JSON.
RestFails ==
  /\ via = "rest" /\ waiting # 0
  /\ \E how \in {"timeout", "broken", "5xx", "garbled"} : Concludes(how)
  /\ answers' = {a \in answers : a.id # waiting}
  /\ UNCHANGED <<proc, lines>>

McpAnswered ==
  /\ via = "mcp"
  /\ \E said \in Said : Hears(said) /\ Concludes(said)
  /\ UNCHANGED <<proc, answers>>

McpSkips ==
  /\ via = "mcp" /\ Skip
  /\ UNCHANGED <<progress, requests, answers, world, history>>

McpFails ==
  /\ via = "mcp"
  /\ \/ Closed /\ Concludes("closed")
     \/ TimesOut /\ Concludes("timeout")
  /\ UNCHANGED <<proc, lines, answers>>

Proceeds == NotLive \/ Asks \/ Starts \/ RestAnswered \/ RestFails
            \/ McpAnswered \/ McpSkips \/ McpFails

----------------------------------------------------------------------------------
(* The clock, the server process and the caller.                           *)

Late ==
  /\ via = "mcp" /\ DeadlinePasses
  /\ UNCHANGED <<progress, requests, answers, world, history>>

\* An answer reaches the pipe, in any order.
Speaks ==
  /\ via = "mcp"
  /\ \E a \in answers : answers' = answers \ {a} /\ Writes(a)
  /\ UNCHANGED <<progress, requests, world, history>>

\* The server logs, dies, or is stopped by the caller.
Server ==
  /\ via = "mcp"
  /\ Noise \/ Die \/ (call.op = "none" /\ Stop)
  /\ UNCHANGED <<progress, requests, answers, world, history>>

Next ==
  \/ \E op \in Operation, key \in Keys : Begin(op, key)
  \/ Proceeds
  \/ \E r \in requests : Deals(r) \/ Refuses(r) \/ Relays(r) \/ Loses(r)
  \/ Pay \/ Late \/ Speaks \/ Server

\* The caller's thread runs, and its clock: every call has a timeout.
Spec == Init /\ [][Next]_vars /\ WF_vars(Proceeds) /\ WF_vars(Late)

----------------------------------------------------------------------------------
(* Properties.                                                             *)

TypeOK ==
  /\ via \in Vias
  /\ call.op \in Operation \union {"none"} /\ call.number \in 0..MaxCalls /\ call.key \in Keys
  /\ stage \in {"start", "handshake", "first", "lookup"}
  /\ result \in Result
  /\ \A r \in requests : r.id \in 0..nextId /\ r.call \in 1..call.number /\ r.key \in Keys
  /\ \A a \in answers : a.id \in 1..nextId /\ a.said \in Said
  /\ effects \subseteq Keys /\ performed \subseteq 1..call.number
  /\ {settled, crowded} \subseteq BOOLEAN
  /\ unread \in {"no", "write", "text"}
  /\ ClientTypeOK
  /\ waiting # 0 <=> stage # "start"

\* "executed" is said only of a key that has its link: answers to earlier
\* requests, late or repeated, and links of other keys are never taken for it.
\* razorpay_mcp.py:126, razorpay_rest.py:182.
ExecutedMeansLanded ==
  result = "executed" /\ unread = "no" => call.key \in effects

\* A write reported as a ProviderError has no effect, neither then nor later: what
\* could not be read, a timeout, a reset, a 5xx, never takes the ignore-it path.
\* razorpay_rest.py:88-93.  Over MCP that is claimed of the calls that made no request
\* and of refusals that name the reference id only; every other is in doubt (unread).
RefusedMeansNothing ==
  result = "ProviderError" /\ unread = "no" => call.number \notin performed

\* Every call ends, whatever the server writes, keeps to itself or does not live
\* to say.  razorpay_mcp.py:107-118: the timeout "used to be stored and never
\* referenced".
CallsEnd == call.op # "none" ~> call.op = "none"

\* The result where it is understood; where it is not, the exception that owns up.
Honest ==
  IF unread = "no" THEN result
  ELSE CASE result = "unsettled" -> "SettlementUnknown"
         [] result = "absent" -> "ReconciliationUnknown"
         [] result \in {"executed", "ProviderError"} -> "UnknownOutcome"
         [] OTHER -> result

Contract == INSTANCE Backend WITH
  pending <- {[call |-> r.call, key |-> r.key] : r \in {q \in requests : q.tool = "create"}},
  result  <- Honest

\* Both backends keep what backend.py promises the executor, as long as a write's
\* failure is one the code recognises as ambiguous and answers are JSON.
ContractSpec == Contract!Spec

\* backend.py:32: ProviderError: "A write definitively failed. Safe to treat as a
\* non-event."
FailedMeansNothing == result = "ProviderError" => call.number \notin performed
==================================================================================
