-------------------------------- MODULE Diagnoser --------------------------------
(***************************************************************************)
(* One diagnoser at work: the router of diagnosis/router.py in front of    *)
(* the model of diagnosis/llm.py, with its response cache, its circuit     *)
(* breaker, and the three providers of diagnosis/providers.py behind it.   *)
(*                                                                         *)
(* A decision is about a case, which is its evidence and how far it has    *)
(* got, and is a first proposal or the repair of a refused one. What the   *)
(* model proposes does not matter here, only for which question an answer  *)
(* was given. The steps of a decision are the requests to the provider,    *)
(* between which the provider may change; the rest is one thread's own     *)
(* business. Threads that share a breaker and a cache are in Warmer.       *)
(***************************************************************************)
EXTENDS CircuitBreaker, Classifier, Sequences

CONSTANTS
  Cases,          \* the evidence of the cases, a subset of Evidence
  Refusals,       \* what a repair can be asked for
  Kinds,          \* the providers to run with
  Modes,          \* the router's modes to run with, "unrouted" for none
  MaxRetries,     \* max_retries
  MaxDecisions,   \* bound: decisions
  MaxSwings       \* bound: how often the provider's health changes

First == "first"  \* instead of a refusal: the question is a first proposal

ASSUME DiagnoserAssumption ==
  /\ Cases \subseteq Evidence
  /\ Refusals \intersect {First, "none", "missing", "invalid"} = {}
  /\ Kinds \subseteq {"none", "anthropic", "openai-compat", "ollama"}
  /\ Modes \subseteq DOMAIN ESCALATION_MODES \union {"unrouted"}
  /\ {MaxRetries, MaxDecisions, MaxSwings} \subseteq Nat

VARIABLES
  kind,           \* the provider, as resolve() picked it
  mode,           \* the router's mode
  known,          \* request formats the client can make
  supported,      \* request formats the provider accepts
  health,         \* the provider is "up", "throttling" or "down"
  swings,         \* how often that changed
  breaker,        \* breaker
  data,           \* the cache: the question an answer was given for
  learned,        \* _schema_mode, "none" before the first success
  question,       \* the decision in hand, or the last: [case, refusal]
  formats,        \* request formats left to try, the present one first
  tries,          \* attempt of _post_json
  decided,        \* decisions taken
  result,         \* whose proposal came out: "rules", "model", "fallback"
  source,         \* history: the question that the model's answer was given for
  met,            \* history: what the requests of the decision met
  streak          \* history: [calls, passed, cooled] since the last good answer

setting == <<kind, mode, known, supported>>
world   == <<health, swings>>
call    == <<formats, tries>>
history == <<source, met, streak>>
vars == <<setting, world, breaker, data, learned, question, call, decided, result, history>>

Refusal == Refusals \union {First}
NoStreak == [calls |-> 0, passed |-> 0, cooled |-> 0]

\* Mutant of key_for: the repair round is left out.
key_for_case(q) == <<q.case, 0>>

\* What of a question is in the cache key: which round it is, not what was refused.
key_for(q) == <<q.case, IF q.refusal = First THEN 0 ELSE 1>>

\* A compatible endpoint without its URL or its model is no provider.
resolve(k) == IF k = "openai-compat" THEN {k, "none"} ELSE {k}

\* The formats complete() tries, in order, with each provider.
AnthropicFormats == <<"thinking", "plain">>
OllamaFormats    == <<"format">>
OpenAICompatFormats ==
  IF learned # "none" THEN <<learned>> ELSE <<"json_schema", "json_object">>

request_formats ==
  CASE kind = "anthropic"     -> AnthropicFormats
    [] kind = "openai-compat" -> OpenAICompatFormats
    [] OTHER                  -> OllamaFormats

\* What _parse and _validate make of a response: a proposal, or None.
Parsed == {"ok", "junk"}

Formats(k) ==
  CASE k = "anthropic"     -> {"thinking", "plain"}
    [] k = "openai-compat" -> {"json_schema", "json_object"}
    [] OTHER               -> {"format"}

\* An old SDK may not take thinking, or no argument of the plain request either.
Known(k) == IF k = "anthropic" THEN {{}, {"plain"}, Formats(k)} ELSE {Formats(k)}

\* A provider may turn down any of the formats.
Supported(k) == SUBSET Formats(k)

\* The file may hold an answer an earlier schema accepted.
Init ==
  /\ kind \in UNION {resolve(k) : k \in Kinds}
  /\ mode \in Modes /\ known \in Known(kind) /\ supported \in Supported(kind)
  /\ health = "up" /\ swings = 0
  /\ breaker = Closed
  /\ \E stale \in SUBSET (Cases \X {0}) :
       data = [k \in Cases \X {0, 1} |-> IF k \in stale THEN "invalid" ELSE "missing"]
  /\ learned = "none"
  /\ question \in [case : Cases, refusal : {First}]
  /\ formats = <<>> /\ tries = 0
  /\ decided = 0 /\ result = "none"
  /\ source = "none" /\ met = {} /\ streak = NoStreak

----------------------------------------------------------------------------------
(* A decision up to the first request.                                     *)

Idle == formats = <<>>

\* Repairs always go to the model.
Routed(q) ==
  /\ mode # "unrouted"
  /\ decide_route(q.case) \notin ESCALATION_MODES[mode]
  /\ q.refusal = First

Cached(q) == data[key_for(q)] \in Refusal

Decides(q) ==
  /\ Idle /\ decided < MaxDecisions
  /\ question' = q /\ decided' = decided + 1
  /\ tries' = 0 /\ met' = {}
  /\ UNCHANGED <<setting, world, data, learned>>

\* The route needs no model: the rules answer.
ByRules(q) ==
  /\ Decides(q) /\ Routed(q)
  /\ result' = "rules" /\ source' = "none"
  /\ UNCHANGED <<breaker, formats, streak>>

\* The cache has an answer that validates.
FromCache(q) ==
  /\ Decides(q) /\ ~Routed(q) /\ Cached(q)
  /\ result' = "model" /\ source' = data[key_for(q)]
  /\ UNCHANGED <<breaker, formats, streak>>

\* is_open
Asked == breaker' = IF breaker.opened = "no" THEN breaker ELSE AfterAsking(breaker)

\* The breaker is open: the rules take the model's place.
PassedOver(q) ==
  /\ Decides(q) /\ ~Routed(q) /\ ~Cached(q)
  /\ Skips(breaker) /\ Asked
  /\ result' = "fallback" /\ source' = "none"
  /\ streak' = [streak EXCEPT !.passed = @ + 1]
  /\ UNCHANGED formats

NoProvider(q) ==
  /\ Decides(q) /\ ~Routed(q) /\ ~Cached(q)
  /\ ~Skips(breaker) /\ Asked
  /\ kind = "none"
  /\ result' = "fallback" /\ source' = "none"
  /\ UNCHANGED <<formats, streak>>

Ask(q) ==
  /\ Decides(q) /\ ~Routed(q) /\ ~Cached(q)
  /\ ~Skips(breaker) /\ Asked
  /\ kind # "none"
  /\ formats' = request_formats
  /\ result' = "none" /\ source' = "none"
  /\ UNCHANGED streak

----------------------------------------------------------------------------------
(* A request and what complete() makes of it.                              *)

\* What a request can meet: the TypeError of an SDK that cannot make it; a 429; a
\* failure that is turned into a ProviderError; an exception that is not, such as a
\* timeout while reading; an answer that parses, or not; the HTTP 400 of a provider that
\* does not accept the format.
Meets ==
  IF Head(formats) \notin known THEN {"TypeError"}
  ELSE IF health = "throttling" THEN {"429"}
  ELSE IF health = "down" THEN {"failed", "raised"}
  ELSE IF Head(formats) \in supported THEN Parsed ELSE {"400"}

Request(o) ==
  /\ ~Idle /\ o \in Meets
  /\ met' = met \union {o}
  /\ UNCHANGED <<setting, world, question, decided>>

Ends(r) == formats' = <<>> /\ tries' = 0 /\ result' = r

\* Mutant of Retry: the attempts are not counted.
Retry_for_ever ==
  /\ Request("429")
  /\ kind # "anthropic"
  /\ UNCHANGED <<breaker, data, learned, formats, tries, result, source, streak>>

\* _post_json waits as long as it is told to and tries again.
Retry ==
  /\ Request("429")
  /\ kind # "anthropic" /\ tries < MaxRetries
  /\ tries' = tries + 1
  /\ UNCHANGED <<breaker, data, learned, formats, result, source, streak>>

\* A request that ended neither in an answer nor in a retry.
Gives_up(o) ==
  /\ Request(o) /\ o \notin Parsed
  /\ o = "429" /\ kind # "anthropic" => tries = MaxRetries

\* Whether another format is tried after o: the compatible endpoint goes on after
\* any ProviderError, the SDK after a TypeError only.
Goes_on(o) ==
  /\ Len(formats) > 1
  /\ o \in (IF kind = "openai-compat" THEN {"400", "failed", "429"} ELSE {"TypeError"})

NextFormat(o) ==
  /\ Gives_up(o) /\ Goes_on(o)
  /\ formats' = Tail(formats) /\ tries' = 0
  /\ UNCHANGED <<breaker, data, learned, result, source, streak>>

\* Mutant of complete_raises: a throttled provider raises like any other.
complete_raises_plainly(o) == "Exception"

\* What leaves complete(): only Ollama's RateLimited arrives as what it is.  The
\* compatible endpoint wraps it in a ProviderError, the SDK has an error of its own.
complete_raises(o) == IF o = "429" /\ kind = "ollama" THEN "RateLimited" ELSE "Exception"

\* The model failed; a rate limit is not held against it.
Fails(o) ==
  /\ Gives_up(o) /\ ~Goes_on(o)
  /\ Ends("fallback")
  /\ IF complete_raises(o) = "RateLimited" THEN UNCHANGED <<breaker, streak>>
     ELSE /\ breaker' = record_failure(breaker)
          /\ streak' = [streak EXCEPT !.calls = @ + 1]
  /\ UNCHANGED <<data, learned, source>>

\* Mutant of Learns: whatever is tried is what is learned.
Learns_at_once(o) ==
  learned' = IF kind = "openai-compat" THEN "json_schema" ELSE learned

\* _schema_mode is the format of the first response, whether or not it parsed.
Learns(o) == learned' = IF kind = "openai-compat" THEN Head(formats) ELSE learned

Junk ==
  /\ Request("junk") /\ Learns("junk")
  /\ Ends("fallback")
  /\ breaker' = record_failure(breaker)
  /\ streak' = [streak EXCEPT !.calls = @ + 1]
  /\ UNCHANGED <<data, source>>

Answered ==
  /\ Request("ok") /\ Learns("ok")
  /\ Ends("model") /\ source' = question.refusal
  /\ breaker' = Closed
  /\ data' = [data EXCEPT ![key_for(question)] = question.refusal]
  /\ streak' = NoStreak

----------------------------------------------------------------------------------
(* The provider and the clock.                                             *)

Swing ==
  /\ swings < MaxSwings
  /\ health' \in {"up", "throttling", "down"} \ {health}
  /\ swings' = swings + 1
  /\ UNCHANGED <<setting, breaker, data, learned, question, call, decided, result, history>>

CoolDown ==
  /\ breaker.opened = "yes"
  /\ breaker' = [breaker EXCEPT !.opened = "cooled"]
  /\ streak' = [streak EXCEPT !.cooled = @ + 1]
  /\ UNCHANGED <<setting, world, data, learned, question, call, decided, result, source, met>>

Trouble == {"TypeError", "400", "429", "failed", "raised"}

Requests == Retry \/ Junk \/ Answered \/ \E o \in Trouble : NextFormat(o) \/ Fails(o)

Next ==
  \/ \E q \in [case : Cases, refusal : Refusal] :
       ByRules(q) \/ FromCache(q) \/ PassedOver(q) \/ NoProvider(q) \/ Ask(q)
  \/ Requests
  \/ Swing \/ CoolDown

\* The thread runs, and each request has a timeout.
Spec == Init /\ [][Next]_vars /\ WF_vars(Requests)

----------------------------------------------------------------------------------
(* Properties.                                                             *)

TypeOK ==
  /\ kind \in Kinds \union {"none"} /\ mode \in Modes
  /\ known \in Known(kind) /\ supported \in Supported(kind)
  /\ health \in {"up", "throttling", "down"} /\ swings \in 0..MaxSwings
  /\ breaker \in Breaker
  /\ data \in [Cases \X {0, 1} -> Refusal \union {"missing", "invalid"}]
  /\ learned \in supported \union {"none"}
  /\ question \in [case : Cases, refusal : Refusal]
  /\ Len(formats) <= 2 /\ tries \in 0..MaxRetries
  /\ decided \in 0..MaxDecisions
  /\ result \in {"none", "rules", "model", "fallback"}
  /\ result = "none" <=> ~Idle \/ decided = 0
  /\ source \in Refusal \union {"none"}
  /\ met \subseteq Parsed \union Trouble

\* "Stop hammering a dependency that is already failing" (llm.py:96): since its last
\* good answer the provider was called no more than it takes to open the breaker, as
\* often as a cool-down closed it again, and once for each round of skipped cases.
FailingProviderLeftAlone ==
  streak.calls <= Threshold * (1 + streak.cooled) + streak.passed \div (ProbeAfterSkips - 1)

\* A repair is answered by a repair, and a first proposal by a first proposal, from
\* the cache as from the model: the answer that was just refused never comes back as
\* its own repair.  llm.py:227-229.
RepairIsFresh == source # "none" => (source = First <=> question.refusal = First)

\* What a first request in a format that will not do is met with, and does not cost a
\* case: the HTTP 400 of a compatible endpoint that accepts the other mode, and the
\* TypeError of an SDK that can make the plain request.
Harmless == IF kind = "openai-compat" THEN "400" ELSE "TypeError"

SecondFormatWillDo ==
  \/ kind = "openai-compat" /\ supported # {}
  \/ kind = "anthropic" /\ "plain" \in known

\* "a hard failure on the first request would be a poor reason to lose a case"
\* (providers.py:168-171, and 160-161): a decision that met nothing else comes to the
\* model's answer, the first decision and any later one.  The HTTP 400 with which the
\* Anthropic API or Ollama turns a request down costs the case and counts as a failure.
HealthyMeansAnswered ==
  SecondFormatWillDo /\ result = "fallback" => met # {Harmless}

\* Throttling, all through a call, leaves the breaker as it was.
Unmoved == met' = {"429"} /\ ~Idle /\ Idle' => breaker' = breaker

\* With Ollama, whose 429 reaches the diagnoser as RateLimited.  llm.py:267-277.
ThrottleSparesBreaker == [][kind = "ollama" => Unmoved]_vars

\* Every decision comes to a proposal, whatever the provider does.
Answers == ~Idle ~> Idle

\* llm.py:268-269: "A rate limit is NOT a broken dependency. The provider is healthy
\* and telling us we are going too fast."
ThrottlingIsNoFailure == [][Unmoved]_vars
==================================================================================
