------------------------------ MODULE DiagnoserProofs ----------------------------
(***************************************************************************)
(* Theorems about Diagnoser.tla, for every set of cases and refusals,      *)
(* every threshold and every bound: type correctness, that a repair is     *)
(* never answered by a first proposal, and that a failing provider is left *)
(* alone.                                                                  *)
(***************************************************************************)
EXTENDS Diagnoser, SequenceTheorems, TLAPS

----------------------------------------------------------------------------------
(* The circuit breaker.                                                    *)

\* Closed is a breaker, and asking and recording keep it one.
LEMMA BreakerTyped ==
  /\ Closed \in Breaker
  /\ \A b \in Breaker : record_failure(b) \in Breaker
  /\ \A b \in Breaker : b.opened # "no" => AfterAsking(b) \in Breaker
<1>1. Closed \in Breaker
  BY BreakerAssumption DEF Breaker, Closed
<1>2. ASSUME NEW b \in Breaker  PROVE record_failure(b) \in Breaker
  <2> DEFINE o == IF b.failures + 1 >= Threshold /\ b.opened = "no" THEN "yes" ELSE b.opened
  <2>1. b.failures + 1 \in Nat /\ o \in {"no", "yes", "cooled"}
    BY DEF Breaker
  <2>2. record_failure(b) = [failures |-> b.failures + 1, opened |-> o, skipped |-> b.skipped]
    <3>1. [b EXCEPT !.failures = @ + 1] = [failures |-> b.failures + 1, opened |-> b.opened,
                                           skipped |-> b.skipped]
      BY DEF Breaker
    <3>2. record_failure(b) = [[b EXCEPT !.failures = @ + 1] EXCEPT !.opened = o]
      BY DEF record_failure
    <3> QED
      BY <3>1, <3>2
  <2> QED
    BY <2>1, <2>2 DEF Breaker
<1>3. ASSUME NEW b \in Breaker, b.opened # "no"  PROVE AfterAsking(b) \in Breaker
  <2>1. CASE b.opened = "cooled"
    BY <1>1, <2>1 DEF AfterAsking
  <2>2. CASE Skips(b)
    <3>1. b.opened = "yes" /\ b.skipped + 1 \in 0..(ProbeAfterSkips - 1)
      BY <2>2, BreakerAssumption DEF Breaker, Skips
    <3> QED
      BY <2>2, <3>1 DEF Breaker, AfterAsking
  <2>3. CASE b.opened # "cooled" /\ ~Skips(b)
    <3>1. 0 \in 0..(ProbeAfterSkips - 1)
      BY BreakerAssumption
    <3> QED
      BY <2>3, <3>1 DEF Breaker, AfterAsking
  <2> QED
    BY <2>1, <2>2, <2>3
<1> QED
  BY <1>1, <1>2, <1>3

\* A breaker that is not open counts fewer failures than open it, and no skips.
Calm(b) == b.opened = "no" => b.failures < Threshold /\ b.skipped = 0

LEMMA BreakerCalm ==
  /\ Calm(Closed)
  /\ \A b \in Breaker : Calm(b) => Calm(record_failure(b))
  /\ \A b \in Breaker : b.opened # "no" => Calm(AfterAsking(b))
<1>1. Calm(Closed)
  BY BreakerAssumption DEF Calm, Closed
<1>2. ASSUME NEW b \in Breaker, Calm(b)  PROVE Calm(record_failure(b))
  BY <1>2, BreakerAssumption DEF Calm, Breaker, record_failure
<1>3. ASSUME NEW b \in Breaker, b.opened # "no"  PROVE Calm(AfterAsking(b))
  BY <1>1, <1>3, BreakerAssumption DEF Calm, Breaker, AfterAsking
<1> QED
  BY <1>1, <1>2, <1>3

----------------------------------------------------------------------------------
(* Type correctness.                                                       *)

Format == {"thinking", "plain", "json_schema", "json_object", "format"}

\* With what TypeOK leaves open of the formats and of the streak.
Typed ==
  /\ TypeOK
  /\ supported \subseteq Format
  /\ formats \in Seq(Format)
  /\ decided = 0 => Idle
  /\ streak \in [calls : Nat, passed : Nat, cooled : Nat]

LEMMA SupportedFormats ==
  ASSUME NEW k, NEW f \in Supported(k)
  PROVE  f \subseteq Format
BY DEF Supported, Formats, Format

LEMMA KeysOfQuestions ==
  ASSUME NEW q \in [case : Cases, refusal : Refusal]
  PROVE  key_for(q) \in Cases \X {0, 1}
BY DEF key_for

LEMMA RequestFormats ==
  ASSUME Typed
  PROVE  request_formats \in Seq(Format) \ {<<>>} /\ Len(request_formats) <= 2
<1>1. request_formats \in {AnthropicFormats, OllamaFormats, OpenAICompatFormats}
  BY DEF request_formats
<1>2. /\ AnthropicFormats \in Seq(Format) \ {<<>>} /\ Len(AnthropicFormats) <= 2
      /\ OllamaFormats \in Seq(Format) \ {<<>>} /\ Len(OllamaFormats) <= 2
  BY DEF AnthropicFormats, OllamaFormats, Format
<1>3. OpenAICompatFormats \in Seq(Format) \ {<<>>} /\ Len(OpenAICompatFormats) <= 2
  <2>1. learned # "none" => learned \in Format
    BY DEF Typed, TypeOK
  <2>2. CASE learned # "none"
    BY <2>1, <2>2 DEF OpenAICompatFormats
  <2>3. CASE learned = "none"
    BY <2>3 DEF OpenAICompatFormats, Format
  <2> QED
    BY <2>2, <2>3
<1> QED
  BY <1>1, <1>2, <1>3

LEMMA InitTyped == Init => Typed
<1> SUFFICES ASSUME Init  PROVE Typed
  OBVIOUS
<1> USE DEF Init
<1>1. kind \in Kinds \union {"none"}
  BY DEF resolve
<1>2. supported \subseteq Format
  BY SupportedFormats
<1>3. breaker \in Breaker
  BY BreakerTyped
<1>4. question \in [case : Cases, refusal : Refusal]
  BY DEF Refusal
<1>5. data \in [Cases \X {0, 1} -> Refusal \union {"missing", "invalid"}]
  OBVIOUS
<1>6. /\ mode \in Modes /\ known \in Known(kind) /\ supported \in Supported(kind)
      /\ health \in {"up", "throttling", "down"} /\ swings \in 0..MaxSwings
      /\ learned \in supported \union {"none"}
      /\ formats \in Seq(Format) /\ Len(formats) <= 2 /\ tries \in 0..MaxRetries
      /\ decided \in 0..MaxDecisions /\ (decided = 0 => Idle)
      /\ result \in {"none", "rules", "model", "fallback"}
      /\ result = "none" <=> ~Idle \/ decided = 0
      /\ source \in Refusal \union {"none"}
      /\ met \subseteq Parsed \union Trouble
  BY DiagnoserAssumption DEF Idle
<1>7. streak \in [calls : Nat, passed : Nat, cooled : Nat]
  BY DEF NoStreak
<1> QED
  BY <1>1, <1>2, <1>3, <1>4, <1>5, <1>6, <1>7 DEF Typed, TypeOK

LEMMA AskedTyped ==
  ASSUME Typed, Asked
  PROVE  breaker' \in Breaker
BY BreakerTyped DEF Typed, TypeOK, Asked

\* The part of Typed that a new decision settles by itself.
LEMMA DecidesTyped ==
  ASSUME Typed, NEW q \in [case : Cases, refusal : Refusal], Decides(q),
         breaker' \in Breaker,
         formats' \in Seq(Format), Len(formats') <= 2,
         result' \in {"none", "rules", "model", "fallback"},
         result' = "none" <=> formats' # <<>>,
         source' \in Refusal \union {"none"},
         streak' \in [calls : Nat, passed : Nat, cooled : Nat]
  PROVE  Typed'
<1>1. decided' \in 0..MaxDecisions /\ decided' # 0
  BY DiagnoserAssumption DEF Typed, TypeOK, Decides
<1>2. tries' \in 0..MaxRetries /\ met' = {} /\ question' = q
  BY DiagnoserAssumption DEF Decides
<1>3. UNCHANGED <<kind, mode, known, supported, health, swings, data, learned>>
  BY DEF Decides, setting, world
<1>4. result' = "none" <=> (~Idle)' \/ decided' = 0
  BY <1>1 DEF Idle
<1> QED
  BY <1>1, <1>2, <1>3, <1>4 DEF Typed, TypeOK

LEMMA NewDecisionTyped ==
  ASSUME Typed, NEW q \in [case : Cases, refusal : Refusal],
         ByRules(q) \/ FromCache(q) \/ PassedOver(q) \/ NoProvider(q) \/ Ask(q)
  PROVE  Typed'
<1>0. /\ breaker \in Breaker /\ streak \in [calls : Nat, passed : Nat, cooled : Nat]
      /\ formats \in Seq(Format) /\ Len(formats) <= 2
  BY DEF Typed, TypeOK
<1>1. CASE ByRules(q)
  BY <1>0, <1>1, DecidesTyped DEF ByRules, Decides, Idle
<1>2. CASE FromCache(q)
  BY <1>0, <1>2, DecidesTyped DEF FromCache, Cached, Decides, Idle
<1>3. CASE PassedOver(q)
  <2>1. streak' \in [calls : Nat, passed : Nat, cooled : Nat]
    BY <1>0, <1>3 DEF PassedOver
  <2> QED
    BY <1>0, <1>3, <2>1, AskedTyped, DecidesTyped DEF PassedOver, Decides, Idle
<1>4. CASE NoProvider(q)
  BY <1>0, <1>4, AskedTyped, DecidesTyped DEF NoProvider, Decides, Idle
<1>5. CASE Ask(q)
  <2>1. formats' \in Seq(Format) /\ Len(formats') <= 2 /\ formats' # <<>>
    BY <1>5, RequestFormats DEF Ask
  <2> QED
    BY <1>0, <1>5, <2>1, AskedTyped, DecidesTyped DEF Ask
<1> QED
  BY <1>1, <1>2, <1>3, <1>4, <1>5

\* The part of Typed that a request settles by itself.
LEMMA RequestTyped ==
  ASSUME Typed, NEW o \in Parsed \union Trouble, Request(o),
         breaker' \in Breaker,
         data' \in [Cases \X {0, 1} -> Refusal \union {"missing", "invalid"}],
         learned' \in supported \union {"none"},
         formats' \in Seq(Format), Len(formats') <= 2, tries' \in 0..MaxRetries,
         result' \in {"none", "rules", "model", "fallback"},
         result' = "none" <=> formats' # <<>>,
         source' \in Refusal \union {"none"},
         streak' \in [calls : Nat, passed : Nat, cooled : Nat]
  PROVE  Typed'
<1>1. decided # 0
  BY DEF Typed, TypeOK, Request, Idle
<1>2. met' \subseteq Parsed \union Trouble
  BY DEF Typed, TypeOK, Request
<1>3. UNCHANGED <<kind, mode, known, supported, health, swings, question, decided>>
  BY DEF Request, setting, world
<1>4. result' = "none" <=> (~Idle)' \/ decided' = 0
  BY <1>1, <1>3 DEF Idle
<1> QED
  BY <1>1, <1>2, <1>3, <1>4 DEF Typed, TypeOK

LEMMA RequestsTyped == Typed /\ Requests => Typed'
<1> SUFFICES ASSUME Typed, Requests  PROVE Typed'
  OBVIOUS
<1>1. /\ breaker \in Breaker /\ record_failure(breaker) \in Breaker /\ Closed \in Breaker
      /\ streak \in [calls : Nat, passed : Nat, cooled : Nat]
      /\ NoStreak \in [calls : Nat, passed : Nat, cooled : Nat]
      /\ [streak EXCEPT !.calls = @ + 1] \in [calls : Nat, passed : Nat, cooled : Nat]
      /\ MaxRetries \in Nat /\ tries \in 0..MaxRetries /\ 0 \in 0..MaxRetries
      /\ source \in Refusal \union {"none"}
  <2>1. breaker \in Breaker /\ tries \in 0..MaxRetries /\ source \in Refusal \union {"none"}
    BY DEF Typed, TypeOK
  <2>2. record_failure(breaker) \in Breaker /\ Closed \in Breaker
    BY <2>1, BreakerTyped
  <2>3. streak \in [calls : Nat, passed : Nat, cooled : Nat]
    BY DEF Typed
  <2>4. /\ NoStreak \in [calls : Nat, passed : Nat, cooled : Nat]
        /\ [streak EXCEPT !.calls = @ + 1] \in [calls : Nat, passed : Nat, cooled : Nat]
    BY <2>3 DEF NoStreak
  <2>5. MaxRetries \in Nat /\ 0 \in 0..MaxRetries
    BY DiagnoserAssumption
  <2> QED
    BY <2>1, <2>2, <2>3, <2>4, <2>5
<1>2. formats \in Seq(Format) /\ Len(formats) <= 2 /\ learned \in supported \union {"none"}
  BY DEF Typed, TypeOK
<1>3. data \in [Cases \X {0, 1} -> Refusal \union {"missing", "invalid"}]
  BY DEF Typed, TypeOK
<1>4. ASSUME NEW o \in Parsed, Request(o), Learns(o)
      PROVE  learned' \in supported \union {"none"}
  <2>1. Head(formats) \in supported
    BY <1>4 DEF Request, Meets, Parsed
  <2> QED
    BY <1>2, <1>4, <2>1 DEF Learns
<1>5. ASSUME Request("429") \/ \E o \in Trouble : Request(o)  PROVE ~Idle /\ result = "none"
  BY <1>5 DEF Typed, TypeOK, Request
<1>6. CASE Retry
  <2>1. tries' \in 0..MaxRetries
    BY <1>1, <1>6 DEF Retry
  <2>2. formats' # <<>> /\ result' = "none"
    BY <1>5, <1>6 DEF Retry, Idle
  <2> QED
    BY <1>1, <1>2, <1>3, <1>6, <2>1, <2>2, RequestTyped DEF Retry, Trouble
<1>7. CASE Junk
  <2>1. Request("junk") /\ learned' \in supported \union {"none"}
    BY <1>4, <1>7 DEF Junk, Parsed
  <2>2. /\ breaker' \in Breaker /\ data' = data
        /\ formats' = <<>> /\ tries' \in 0..MaxRetries
        /\ result' = "fallback" /\ source' \in Refusal \union {"none"}
        /\ streak' \in [calls : Nat, passed : Nat, cooled : Nat]
    BY <1>1, <1>7 DEF Junk, Ends
  <2>3. formats' \in Seq(Format) /\ Len(formats') <= 2
    BY <2>2
  <2> QED
    BY <1>3, <2>1, <2>2, <2>3, RequestTyped DEF Parsed
<1>8. CASE Answered
  <2>1. Request("ok") /\ learned' \in supported \union {"none"}
    BY <1>4, <1>8 DEF Answered, Parsed
  <2>2. question.refusal \in Refusal
    BY DEF Typed, TypeOK
  <2>3. data' \in [Cases \X {0, 1} -> Refusal \union {"missing", "invalid"}]
    BY <1>3, <1>8, <2>2 DEF Answered
  <2> QED
    BY <1>1, <1>8, <2>1, <2>2, <2>3, RequestTyped DEF Answered, Ends, Parsed
<1>9. ASSUME NEW o \in Trouble, NextFormat(o)  PROVE Typed'
  <2>1. Request(o) /\ Len(formats) > 1
    BY <1>9 DEF NextFormat, Gives_up, Goes_on
  <2>2. Tail(formats) \in Seq(Format) /\ Len(Tail(formats)) <= 2 /\ Tail(formats) # <<>>
    BY <1>2, <2>1
  <2>3. result = "none"
    BY <1>5, <2>1
  <2> QED
    BY <1>1, <1>2, <1>3, <1>9, <2>1, <2>2, <2>3, RequestTyped DEF NextFormat
<1>10. ASSUME NEW o \in Trouble, Fails(o)  PROVE Typed'
  <2>1. /\ breaker' \in Breaker
        /\ streak' \in [calls : Nat, passed : Nat, cooled : Nat]
    BY <1>1, <1>10 DEF Fails
  <2> QED
    BY <1>1, <1>2, <1>3, <1>10, <2>1, RequestTyped DEF Fails, Gives_up, Ends
<1> QED
  BY <1>6, <1>7, <1>8, <1>9, <1>10 DEF Requests

LEMMA NextTyped == Typed /\ [Next]_vars => Typed'
<1> SUFFICES ASSUME Typed, [Next]_vars  PROVE Typed'
  OBVIOUS
<1>1. CASE \E q \in [case : Cases, refusal : Refusal] :
             ByRules(q) \/ FromCache(q) \/ PassedOver(q) \/ NoProvider(q) \/ Ask(q)
  BY <1>1, NewDecisionTyped
<1>2. CASE Requests
  BY <1>2, RequestsTyped
<1>3. CASE Swing
  <2>1. health' \in {"up", "throttling", "down"} /\ swings' \in 0..MaxSwings
    BY <1>3, DiagnoserAssumption DEF Typed, TypeOK, Swing
  <2> QED
    BY <1>3, <2>1 DEF Typed, TypeOK, Swing, setting, call, history, Idle
<1>4. CASE CoolDown
  <2>1. breaker' \in Breaker
    BY <1>4 DEF Typed, TypeOK, CoolDown, Breaker
  <2>2. streak' \in [calls : Nat, passed : Nat, cooled : Nat]
    BY <1>4 DEF Typed, CoolDown
  <2> QED
    BY <1>4, <2>1, <2>2 DEF Typed, TypeOK, CoolDown, setting, world, call, Idle
<1>5. CASE UNCHANGED vars
  BY <1>5 DEF Typed, TypeOK, vars, setting, world, call, history, Idle
<1> QED
  BY <1>1, <1>2, <1>3, <1>4, <1>5 DEF Next

\* In every reachable state every variable has its type, and a decision without a
\* result is one whose request is under way.  llm.py:176-232.
THEOREM TypeCorrect == Spec => []TypeOK
<1>1. Typed => TypeOK
  BY DEF Typed
<1> QED
  BY <1>1, InitTyped, NextTyped, PTL DEF Spec

----------------------------------------------------------------------------------
(* A repair is never the answer that was just refused.                     *)

\* The half of the key that tells first proposals from repairs keeps their answers
\* apart in the cache.
Apart ==
  /\ question \in [case : Cases, refusal : Refusal]
  /\ data \in [Cases \X {0, 1} -> Refusal \union {"missing", "invalid"}]
  /\ \A c \in Cases : /\ data[<<c, 0>>] \notin Refusals
                      /\ data[<<c, 1>>] # First
  /\ RepairIsFresh

LEMMA InitApart == Init => Apart
<1> SUFFICES ASSUME Init  PROVE Apart
  OBVIOUS
<1>1. question \in [case : Cases, refusal : Refusal]
  BY DEF Init, Refusal
<1>2. data \in [Cases \X {0, 1} -> {"missing", "invalid"}]
  BY DEF Init
<1>3. RepairIsFresh
  BY DEF Init, RepairIsFresh
<1> QED
  BY <1>1, <1>2, <1>3, DiagnoserAssumption DEF Apart, First

\* What is stored was asked for, with the key of what was asked.
LEMMA AnsweredApart ==
  ASSUME Apart, Answered
  PROVE  Apart'
<1>1. UNCHANGED question
  BY DEF Answered, Request
<1>2. question.case \in Cases /\ question.refusal \in Refusals \union {First}
  BY DEF Apart, Refusal
<1>3. data' = [data EXCEPT ![key_for(question)] = question.refusal]
  BY DEF Answered
<1>4. key_for(question) = <<question.case, IF question.refusal = First THEN 0 ELSE 1>>
  BY DEF key_for
<1>5. data' \in [Cases \X {0, 1} -> Refusal \union {"missing", "invalid"}]
  BY <1>2, <1>3 DEF Apart, Refusal
<1>6. ASSUME NEW c \in Cases  PROVE data'[<<c, 0>>] \notin Refusals /\ data'[<<c, 1>>] # First
  <2>1. First \notin Refusals
    BY DiagnoserAssumption
  <2>2. CASE question.refusal = First
    BY <1>2, <1>3, <1>4, <2>1, <2>2 DEF Apart
  <2>3. CASE question.refusal # First
    BY <1>2, <1>3, <1>4, <2>1, <2>3 DEF Apart
  <2> QED
    BY <2>2, <2>3
<1>7. RepairIsFresh'
  BY <1>1 DEF RepairIsFresh, Answered
<1> QED
  BY <1>1, <1>5, <1>6, <1>7 DEF Apart

LEMMA NextApart == Apart /\ [Next]_vars => Apart'
<1> SUFFICES ASSUME Apart, [Next]_vars  PROVE Apart'
  OBVIOUS
<1>1. ASSUME NEW q \in [case : Cases, refusal : Refusal],
             ByRules(q) \/ FromCache(q) \/ PassedOver(q) \/ NoProvider(q) \/ Ask(q)
      PROVE  Apart'
  <2>1. Decides(q)
    BY <1>1 DEF ByRules, FromCache, PassedOver, NoProvider, Ask
  <2>2. question' = q /\ UNCHANGED data
    BY <2>1 DEF Decides
  <2>3. RepairIsFresh'
    <3>1. CASE FromCache(q)
      <4>1. source' = data[key_for(q)] /\ data[key_for(q)] \in Refusals \union {First}
        BY <3>1 DEF FromCache, Cached, Refusal
      <4>2. q.case \in Cases /\ First \notin Refusals
        BY DiagnoserAssumption
      <4>3. q.refusal = First => source' = First
        BY <4>1, <4>2 DEF Apart, key_for
      <4>4. q.refusal # First => source' # First
        BY <4>1, <4>2 DEF Apart, key_for
      <4> QED
        BY <2>2, <4>3, <4>4 DEF RepairIsFresh
    <3>2. CASE ByRules(q) \/ PassedOver(q) \/ NoProvider(q) \/ Ask(q)
      BY <3>2 DEF RepairIsFresh, ByRules, PassedOver, NoProvider, Ask
    <3> QED
      BY <1>1, <3>1, <3>2
  <2> QED
    BY <2>2, <2>3 DEF Apart
<1>2. CASE Answered
  BY <1>2, AnsweredApart
<1>3. CASE Requests /\ ~Answered
  <2>1. UNCHANGED <<question, data, source>>
    BY <1>3 DEF Requests, Retry, Junk, NextFormat, Fails, Gives_up, Request
  <2> QED
    BY <2>1 DEF Apart, RepairIsFresh
<1>4. CASE Swing \/ CoolDown \/ UNCHANGED vars
  BY <1>4 DEF Apart, RepairIsFresh, Swing, CoolDown, vars, history
<1> QED
  BY <1>1, <1>2, <1>3, <1>4 DEF Next

\* A repair is answered by a repair and a first proposal by a first proposal, from
\* the cache as from the model, for every set of cases and of reasons for a repair,
\* and whatever the provider does.  llm.py:227-229.
THEOREM RepairIsAnswered == Spec => []RepairIsFresh
<1>1. Apart => RepairIsFresh
  BY DEF Apart
<1> QED
  BY <1>1, InitApart, NextApart, PTL DEF Spec

----------------------------------------------------------------------------------
(* A failing provider is left alone.                                       *)

Streak == [calls : Nat, passed : Nat, cooled : Nat]

\* The calls that the breaker b, or after a further failure of a busy call, accounts
\* for: Threshold for every time it has opened, one for each of the r probes, and the
\* failures it is counting; every probe was paid for by ProbeAfterSkips - 1 skips.
Within(b, s, busy, r) ==
  /\ (ProbeAfterSkips - 1) * r + (IF b.opened = "yes" THEN b.skipped ELSE 0) <= s.passed
  /\ s.calls + (IF busy /\ b.opened # "no" THEN 1 ELSE 0)
       <= Threshold * s.cooled + r + (IF b.opened = "yes" THEN Threshold ELSE 0)
            + (IF b.opened = "no" THEN b.failures ELSE 0)

LEMMA FreshWithin == Within(Closed, NoStreak, FALSE, 0)
BY BreakerAssumption DEF Within, Closed, NoStreak

LEMMA FailureWithin ==
  ASSUME NEW b \in Breaker, Calm(b), NEW s \in Streak, NEW r \in Nat, Within(b, s, TRUE, r)
  PROVE  Within(record_failure(b), [s EXCEPT !.calls = @ + 1], FALSE, r)
<1> DEFINE c == record_failure(b)
           u == [s EXCEPT !.calls = @ + 1]
           P == (ProbeAfterSkips - 1) * r
           Q == Threshold * s.cooled
<1>1. /\ u.calls = s.calls + 1 /\ u.passed = s.passed /\ u.cooled = s.cooled
      /\ s.calls \in Nat /\ s.passed \in Nat /\ s.cooled \in Nat
  BY DEF Streak
<1>2. /\ c.failures = b.failures + 1 /\ c.skipped = b.skipped
      /\ c.opened = IF b.failures + 1 >= Threshold /\ b.opened = "no" THEN "yes" ELSE b.opened
      /\ b.failures \in Nat /\ b.skipped \in Nat /\ b.opened \in {"no", "yes", "cooled"}
  BY BreakerAssumption DEF Breaker, record_failure
<1>3. P \in Nat /\ Q \in Nat /\ Threshold \in Nat \ {0}
  <2>1. ProbeAfterSkips - 1 \in Nat /\ Threshold \in Nat \ {0}
    BY BreakerAssumption
  <2>2. P \in Nat
    BY <2>1
  <2>3. Q \in Nat
    BY <1>1, <2>1
  <2> QED
    BY <2>1, <2>2, <2>3
<1>4. /\ P + (IF b.opened = "yes" THEN b.skipped ELSE 0) <= s.passed
      /\ s.calls + (IF b.opened # "no" THEN 1 ELSE 0)
           <= Q + r + (IF b.opened = "yes" THEN Threshold ELSE 0)
                + (IF b.opened = "no" THEN b.failures ELSE 0)
  BY DEF Within
<1>5. b.opened = "no" => b.failures < Threshold /\ b.skipped = 0
  BY DEF Calm
<1> HIDE DEF P, Q, c, u
<1>6. P + (IF c.opened = "yes" THEN c.skipped ELSE 0) <= u.passed
  BY <1>1, <1>2, <1>3, <1>4, <1>5
<1>7. u.calls <= Q + r + (IF c.opened = "yes" THEN Threshold ELSE 0)
                   + (IF c.opened = "no" THEN c.failures ELSE 0)
  <2>1. CASE b.opened = "no" /\ b.failures + 1 >= Threshold
    BY <1>1, <1>2, <1>3, <1>4, <1>5, <2>1
  <2>2. CASE b.opened = "no" /\ ~(b.failures + 1 >= Threshold)
    BY <1>1, <1>2, <1>3, <1>4, <2>2
  <2>3. CASE b.opened # "no"
    BY <1>1, <1>2, <1>3, <1>4, <2>3
  <2> QED
    BY <2>1, <2>2, <2>3
<1>8. u.calls + 0 = u.calls
  BY <1>1
<1> QED
  BY <1>1, <1>6, <1>7, <1>8 DEF Within, P, Q, c, u

LEMMA SkipWithin ==
  ASSUME NEW b \in Breaker, NEW s \in Streak, NEW r \in Nat, Within(b, s, FALSE, r), Skips(b)
  PROVE  Within(AfterAsking(b), [s EXCEPT !.passed = @ + 1], FALSE, r)
<1> DEFINE c == AfterAsking(b)
           u == [s EXCEPT !.passed = @ + 1]
<1>1. u.calls = s.calls /\ u.passed = s.passed + 1 /\ u.cooled = s.cooled /\ s.passed \in Nat
  BY DEF Streak
<1>2. b.opened = "yes" /\ b.skipped \in Nat /\ (ProbeAfterSkips - 1) * r \in Nat
  BY BreakerAssumption DEF Breaker, Skips
<1>3. c = [b EXCEPT !.skipped = b.skipped + 1]
  BY <1>2 DEF AfterAsking
<1>4. c.opened = "yes" /\ c.skipped = b.skipped + 1
  BY <1>2, <1>3 DEF Breaker
<1> QED
  BY <1>1, <1>2, <1>4 DEF Within

\* A probe is one of r + 1, and a cooled breaker starts from nothing.
LEMMA AskingWithin ==
  ASSUME NEW b \in Breaker, NEW s \in Streak, NEW busy \in BOOLEAN, NEW r \in Nat,
         Within(b, s, FALSE, r), b.opened # "no", ~Skips(b)
  PROVE  \E n \in Nat : Within(AfterAsking(b), s, busy, n)
<1>1. /\ s.calls \in Nat /\ s.passed \in Nat
      /\ Threshold * s.cooled \in Nat /\ (ProbeAfterSkips - 1) * r \in Nat
      /\ ProbeAfterSkips \in Nat /\ Threshold \in Nat
  BY BreakerAssumption DEF Streak
<1>2. CASE b.opened = "cooled"
  <2>1. AfterAsking(b) = Closed
    BY <1>2 DEF AfterAsking
  <2>2. Within(Closed, s, busy, r)
    BY <1>1, <1>2 DEF Within, Closed
  <2> QED
    BY <2>1, <2>2
<1>3. CASE b.opened = "yes"
  <2>1. b.skipped = ProbeAfterSkips - 1
    BY <1>1, <1>3 DEF Breaker, Skips
  <2>2. AfterAsking(b) = [b EXCEPT !.skipped = 0]
    BY <1>3 DEF AfterAsking
  <2>3. AfterAsking(b).opened = "yes" /\ AfterAsking(b).skipped = 0
    BY <1>3, <2>2 DEF Breaker
  <2>4. (ProbeAfterSkips - 1) * (r + 1) = (ProbeAfterSkips - 1) * r + (ProbeAfterSkips - 1)
    BY <1>1
  <2>5. Within(AfterAsking(b), s, busy, r + 1)
    BY <1>1, <1>3, <2>1, <2>3, <2>4 DEF Within
  <2> QED
    BY <2>5
<1> QED
  BY <1>2, <1>3 DEF Breaker

LEMMA CoolingWithin ==
  ASSUME NEW b \in Breaker, NEW s \in Streak, NEW busy \in BOOLEAN, NEW r \in Nat,
         Within(b, s, busy, r), b.opened = "yes"
  PROVE  Within([b EXCEPT !.opened = "cooled"], [s EXCEPT !.cooled = @ + 1], busy, r)
<1> DEFINE c == [b EXCEPT !.opened = "cooled"]
           u == [s EXCEPT !.cooled = @ + 1]
<1>1. /\ u.calls = s.calls /\ u.passed = s.passed /\ u.cooled = s.cooled + 1
      /\ s.calls \in Nat /\ s.passed \in Nat /\ s.cooled \in Nat
  BY DEF Streak
<1>2. c.opened = "cooled" /\ b.skipped \in Nat
  BY BreakerAssumption DEF Breaker
<1>3. /\ Threshold * (s.cooled + 1) = Threshold * s.cooled + Threshold
      /\ Threshold * s.cooled \in Nat /\ (ProbeAfterSkips - 1) * r \in Nat /\ Threshold \in Nat
  BY <1>1, BreakerAssumption
<1> QED
  BY <1>1, <1>2, <1>3 DEF Within

Accounted ==
  /\ Calm(breaker)
  /\ \E r \in Nat : Within(breaker, streak, ~Idle, r)

LEMMA InitAccounted == Init => Accounted
<1> SUFFICES ASSUME Init  PROVE Accounted
  OBVIOUS
<1>1. breaker = Closed /\ streak = NoStreak /\ (~Idle) = FALSE
  BY DEF Init, Idle
<1> QED
  BY <1>1, BreakerCalm, FreshWithin DEF Accounted

LEMMA NewDecisionAccounted ==
  ASSUME Typed, Accounted, NEW q \in [case : Cases, refusal : Refusal],
         ByRules(q) \/ FromCache(q) \/ PassedOver(q) \/ NoProvider(q) \/ Ask(q)
  PROVE  Accounted'
<1>0. PICK r \in Nat : Within(breaker, streak, FALSE, r)
  BY DEF Accounted, ByRules, FromCache, PassedOver, NoProvider, Ask, Decides
<1>1. breaker \in Breaker /\ streak \in Streak /\ Calm(breaker)
  BY DEF Typed, TypeOK, Streak, Accounted
<1>2. CASE ByRules(q) \/ FromCache(q)
  BY <1>0, <1>1, <1>2 DEF Accounted, ByRules, FromCache, Decides, Idle
<1>3. CASE PassedOver(q)
  <2>1. /\ Skips(breaker) /\ breaker' = AfterAsking(breaker) /\ breaker.opened # "no"
        /\ streak' = [streak EXCEPT !.passed = @ + 1] /\ (~Idle)' = FALSE
    BY <1>3 DEF PassedOver, Asked, Skips, Decides, Idle
  <2> QED
    BY <1>0, <1>1, <2>1, BreakerCalm, SkipWithin DEF Accounted
<1>4. CASE NoProvider(q) \/ Ask(q)
  <2>1. /\ ~Skips(breaker) /\ UNCHANGED streak
        /\ breaker' = IF breaker.opened = "no" THEN breaker ELSE AfterAsking(breaker)
    BY <1>4 DEF NoProvider, Ask, Asked
  <2>2. (~Idle)' \in BOOLEAN
    BY DEF Idle
  <2>3. CASE breaker.opened = "no"
    BY <1>0, <1>1, <2>1, <2>2, <2>3 DEF Accounted, Within
  <2>4. CASE breaker.opened # "no"
    BY <1>0, <1>1, <2>1, <2>2, <2>4, BreakerCalm, AskingWithin DEF Accounted
  <2> QED
    BY <2>3, <2>4
<1> QED
  BY <1>2, <1>3, <1>4

LEMMA RequestsAccounted ==
  ASSUME Typed, Accounted, Requests
  PROVE  Accounted'
<1>0. PICK r \in Nat : Within(breaker, streak, ~Idle, r)
  BY DEF Accounted
<1>1. breaker \in Breaker /\ streak \in Streak /\ Calm(breaker)
  BY DEF Typed, TypeOK, Streak, Accounted
<1>2. (~Idle) = TRUE
  BY DEF Requests, Retry, Junk, Answered, NextFormat, Fails, Gives_up, Request
<1>3. ASSUME (~Idle)' = FALSE, breaker' = record_failure(breaker),
             streak' = [streak EXCEPT !.calls = @ + 1]
      PROVE  Accounted'
  BY <1>0, <1>1, <1>2, <1>3, BreakerCalm, FailureWithin DEF Accounted
<1>4. CASE Retry
  BY <1>0, <1>1, <1>4 DEF Retry, Accounted, Idle
<1>5. CASE Junk
  BY <1>3, <1>5 DEF Junk, Ends, Idle
<1>6. CASE Answered
  BY <1>6, BreakerCalm, FreshWithin DEF Answered, Ends, Idle, Accounted
<1>7. ASSUME NEW o \in Trouble, NextFormat(o)  PROVE Accounted'
  <2>1. (~Idle)' = TRUE
    <3>1. formats \in Seq(Format) /\ Len(formats) > 1 /\ formats' = Tail(formats)
      BY <1>7 DEF Typed, NextFormat, Goes_on
    <3>2. Tail(formats) \in Seq(Format) /\ Len(Tail(formats)) = Len(formats) - 1
      BY <3>1
    <3>3. Len(formats') > 0
      BY <3>1, <3>2
    <3> QED
      BY <3>3 DEF Idle
  <2> QED
    BY <1>0, <1>1, <1>2, <1>7, <2>1 DEF NextFormat, Accounted
<1>8. ASSUME NEW o \in Trouble, Fails(o)  PROVE Accounted'
  <2>1. (~Idle)' = FALSE
    BY <1>8 DEF Fails, Ends, Idle
  <2>2. CASE UNCHANGED <<breaker, streak>>
    <3>1. Within(breaker, streak, FALSE, r)
      BY <1>0, <1>1, <1>2, BreakerAssumption DEF Within, Breaker, Streak
    <3> QED
      BY <1>1, <2>1, <2>2, <3>1 DEF Accounted
  <2> QED
    BY <1>3, <1>8, <2>1, <2>2 DEF Fails
<1> QED
  BY <1>4, <1>5, <1>6, <1>7, <1>8 DEF Requests

LEMMA NextAccounted == Typed /\ Accounted /\ [Next]_vars => Accounted'
<1> SUFFICES ASSUME Typed, Accounted, [Next]_vars  PROVE Accounted'
  OBVIOUS
<1>1. CASE \E q \in [case : Cases, refusal : Refusal] :
             ByRules(q) \/ FromCache(q) \/ PassedOver(q) \/ NoProvider(q) \/ Ask(q)
  BY <1>1, NewDecisionAccounted
<1>2. CASE Requests
  BY <1>2, RequestsAccounted
<1>3. CASE CoolDown
  <2>1. PICK r \in Nat : Within(breaker, streak, ~Idle, r)
    BY DEF Accounted
  <2>2. breaker \in Breaker /\ streak \in Streak /\ (~Idle)' = (~Idle) /\ (~Idle) \in BOOLEAN
    BY <1>3 DEF Typed, TypeOK, Streak, CoolDown, call, Idle
  <2>3. Within(breaker', streak', (~Idle)', r)
    BY <1>3, <2>1, <2>2, CoolingWithin DEF CoolDown
  <2>4. Calm(breaker')
    BY <1>3, <2>2 DEF CoolDown, Calm, Breaker
  <2> QED
    BY <2>3, <2>4 DEF Accounted
<1>4. CASE Swing \/ UNCHANGED vars
  BY <1>4 DEF Accounted, Swing, vars, call, history, Idle
<1> QED
  BY <1>1, <1>2, <1>3, <1>4 DEF Next

LEMMA Quotient ==
  ASSUME NEW a \in Nat, NEW p \in Nat \ {0}, NEW r \in Nat, p * r <= a
  PROVE  a \div p \in Nat /\ r <= a \div p
<1>1. a \div p \in Nat
  OBVIOUS
<1>2. a < p * ((a \div p) + 1)
  OBVIOUS
<1>3. ASSUME NEW n \in Nat, n + 1 <= r  PROVE p * (n + 1) <= p * r
  BY <1>3
<1> QED
  BY <1>1, <1>2, <1>3

LEMMA AccountedMeansLeftAlone ==
  ASSUME ProbeAfterSkips > 1, Typed, Accounted
  PROVE  FailingProviderLeftAlone
<1>1. PICK r \in Nat : Within(breaker, streak, ~Idle, r)
  BY DEF Accounted
<1>2. /\ streak.calls \in Nat /\ streak.passed \in Nat /\ streak.cooled \in Nat
      /\ ProbeAfterSkips - 1 \in Nat \ {0} /\ Threshold \in Nat /\ breaker.skipped \in Nat
      /\ breaker.failures \in Nat /\ (breaker.opened = "no" => breaker.failures < Threshold)
  BY BreakerAssumption DEF Typed, TypeOK, Accounted, Breaker, Calm
<1>3. (ProbeAfterSkips - 1) * r <= streak.passed
  <2>1. (ProbeAfterSkips - 1) * r \in Nat
    BY <1>2
  <2> QED
    BY <1>1, <1>2, <2>1 DEF Within
<1>4. /\ streak.passed \div (ProbeAfterSkips - 1) \in Nat
      /\ r <= streak.passed \div (ProbeAfterSkips - 1)
  BY <1>2, <1>3, Quotient
<1>5. streak.calls <= Threshold * streak.cooled + r + Threshold
  <2>1. Threshold * streak.cooled \in Nat
    BY <1>2
  <2> QED
    BY <1>1, <1>2, <2>1 DEF Within
<1>6. Threshold * (1 + streak.cooled) = Threshold * streak.cooled + Threshold
  BY <1>2
<1> QED
  BY <1>2, <1>4, <1>5, <1>6 DEF FailingProviderLeftAlone

\* Since its last good answer a provider was called no more than it takes to open the
\* breaker, as often as a cool-down closed it again, and once for each round of
\* skipped cases: for every threshold, every probe interval above one, and however
\* long it goes on failing.  llm.py:96-165.
THEOREM ProviderLeftAlone ==
  ASSUME ProbeAfterSkips > 1
  PROVE  Spec => []FailingProviderLeftAlone
<1>1. Init => Typed /\ Accounted
  BY InitTyped, InitAccounted
<1>2. Typed /\ Accounted /\ [Next]_vars => Typed' /\ Accounted'
  BY NextTyped, NextAccounted
<1>3. Typed /\ Accounted => FailingProviderLeftAlone
  BY AccountedMeansLeftAlone
<1> QED
  BY <1>1, <1>2, <1>3, PTL DEF Spec

----------------------------------------------------------------------------------
(* A format that will not do costs no case.                                *)

\* The formats in which a request is not met with what is harmless.
WillDo == IF kind = "openai-compat" THEN supported ELSE known

\* While nothing else has been met, a format that will do is left.
OneIsLeft ==
  SecondFormatWillDo /\ ~Idle /\ met \subseteq {Harmless} =>
    \E i \in 1..Len(formats) : formats[i] \in WillDo

\* Of the formats each provider is tried with one will do: the plain request, one of
\* the two modes, or the one that worked before.
LEMMA OneRequestWillDo ==
  ASSUME Typed, SecondFormatWillDo
  PROVE  \E i \in 1..Len(request_formats) : request_formats[i] \in WillDo
<1>1. /\ known \in Known(kind) /\ supported \in Supported(kind)
      /\ learned \in supported \union {"none"}
  BY DEF Typed, TypeOK
<1>2. CASE kind = "anthropic"
  <2>1. request_formats = <<"thinking", "plain">> /\ "plain" \in known
    BY <1>2 DEF request_formats, AnthropicFormats, SecondFormatWillDo
  <2> QED
    BY <1>2, <2>1 DEF WillDo
<1>3. CASE kind = "openai-compat"
  <2>1. supported \subseteq {"json_schema", "json_object"} /\ supported # {}
    BY <1>1, <1>3 DEF Supported, Formats, SecondFormatWillDo
  <2>2. CASE learned = "none"
    <3>1. request_formats = <<"json_schema", "json_object">> /\ Len(request_formats) = 2
      BY <1>3, <2>2 DEF request_formats, OpenAICompatFormats
    <3>2. request_formats[1] \in WillDo \/ request_formats[2] \in WillDo
      BY <1>3, <2>1, <3>1 DEF WillDo
    <3> QED
      BY <3>1, <3>2
  <2>3. CASE learned # "none"
    <3>1. request_formats = <<learned>> /\ learned \in supported
      BY <1>1, <1>3, <2>3 DEF request_formats, OpenAICompatFormats
    <3> QED
      BY <1>3, <3>1 DEF WillDo
  <2> QED
    BY <2>2, <2>3
<1> QED
  BY <1>2, <1>3 DEF SecondFormatWillDo

LEMMA InitLeft == Init => OneIsLeft /\ HealthyMeansAnswered
BY DEF Init, OneIsLeft, HealthyMeansAnswered, Idle

\* What is met with it will not do.
LEMMA HarmlessWillNotDo ==
  ASSUME SecondFormatWillDo, Request(Harmless)
  PROVE  Head(formats) \notin WillDo
<1>1. CASE kind = "openai-compat"
  BY <1>1 DEF Request, Meets, Parsed, Harmless, WillDo
<1>2. CASE kind = "anthropic"
  BY <1>2 DEF Request, Meets, Parsed, Harmless, WillDo
<1> QED
  BY <1>1, <1>2 DEF SecondFormatWillDo

\* After it another format is tried, if there is one.
LEMMA HarmlessGoesOn ==
  ASSUME SecondFormatWillDo, Len(formats) > 1
  PROVE  Goes_on(Harmless)
BY DEF SecondFormatWillDo, Harmless, Goes_on

\* The request that ends a decision without a proposal met something worse, unless all
\* that was left was a format that would not do.
LEMMA FailsForAReason ==
  ASSUME Typed, OneIsLeft, SecondFormatWillDo, NEW o \in Trouble, Fails(o)
  PROVE  met' # {Harmless}
<1>1. Request(o) /\ ~Goes_on(o) /\ ~Idle /\ met' = met \union {o}
  BY DEF Fails, Gives_up, Request
<1>2. CASE o # Harmless
  BY <1>1, <1>2
<1>3. CASE o = Harmless /\ met \subseteq {Harmless}
  <2>1. Len(formats) = 1
    <3> DEFINE n == Len(formats)
    <3>1. ~(n > 1)
      BY <1>1, <1>3, HarmlessGoesOn
    <3>2. n \in Nat /\ n # 0
      BY <1>1, EmptySeq, LenProperties DEF Typed, Idle
    <3> HIDE DEF n
    <3>3. n = 1
      BY <3>1, <3>2
    <3> QED
      BY <3>3 DEF n
  <2>2. Head(formats) = formats[1]
    BY <2>1 DEF Typed
  <2> QED
    BY <1>1, <1>3, <2>1, <2>2, HarmlessWillNotDo DEF OneIsLeft
<1>4. CASE ~(met \subseteq {Harmless})
  BY <1>1, <1>4
<1> QED
  BY <1>2, <1>3, <1>4

LEMMA RequestsLeft ==
  ASSUME Typed, OneIsLeft, Requests
  PROVE  OneIsLeft' /\ HealthyMeansAnswered'
<1>1. ASSUME NEW o, Request(o)
      PROVE  /\ met' = met \union {o} /\ UNCHANGED <<kind, known, supported>>
             /\ result = "none"
  BY <1>1 DEF Typed, TypeOK, Request, setting
<1>2. CASE Retry
  <2>1. "429" \in met' /\ result' = "none" /\ Harmless' # "429"
    BY <1>1, <1>2 DEF Retry, Harmless
  <2> QED
    BY <2>1 DEF OneIsLeft, HealthyMeansAnswered
<1>3. CASE Junk
  <2>1. "junk" \in met' /\ formats' = <<>> /\ Harmless' # "junk"
    BY <1>1, <1>3 DEF Junk, Ends, Harmless
  <2> QED
    BY <2>1 DEF OneIsLeft, HealthyMeansAnswered, Idle
<1>4. CASE Answered
  BY <1>4 DEF Answered, Ends, OneIsLeft, HealthyMeansAnswered, Idle
<1>5. ASSUME NEW o \in Trouble, NextFormat(o)
      PROVE  OneIsLeft' /\ HealthyMeansAnswered'
  <2>1. Request(o) /\ Len(formats) > 1 /\ formats' = Tail(formats) /\ result' = result
    BY <1>5 DEF NextFormat, Gives_up, Goes_on
  <2>2. HealthyMeansAnswered'
    BY <1>1, <2>1 DEF HealthyMeansAnswered
  <2>3. /\ Harmless' = Harmless /\ (SecondFormatWillDo' <=> SecondFormatWillDo)
        /\ WillDo' = WillDo
    BY <1>1, <2>1 DEF Harmless, SecondFormatWillDo, WillDo
  <2>4. ASSUME SecondFormatWillDo, met' \subseteq {Harmless}
        PROVE  \E i \in 1..Len(formats') : formats'[i] \in WillDo
    <3>1. o = Harmless /\ met \subseteq {Harmless}
      BY <1>1, <2>1, <2>4
    <3>2. PICK i \in 1..Len(formats) : formats[i] \in WillDo
      BY <2>1, <2>4, <3>1 DEF OneIsLeft, Request
    <3>3. Head(formats) = formats[1] /\ Len(formats') = Len(formats) - 1
          /\ Len(formats) \in Nat
      BY <2>1 DEF Typed
    <3>4. i # 1
      BY <2>1, <2>4, <3>1, <3>2, <3>3, HarmlessWillNotDo
    <3>5. i - 1 \in 1..Len(formats')
      BY <3>2, <3>3, <3>4
    <3>6. formats'[i - 1] = formats[i]
      BY <2>1, <3>3, <3>5 DEF Typed
    <3> QED
      BY <3>2, <3>5, <3>6
  <2>5. OneIsLeft'
    <3> SUFFICES ASSUME SecondFormatWillDo', met' \subseteq {Harmless'}
                 PROVE  \E i \in 1..Len(formats') : formats'[i] \in WillDo'
      BY DEF OneIsLeft
    <3>1. PICK i \in 1..Len(formats') : formats'[i] \in WillDo
      BY <2>3, <2>4
    <3> QED
      BY <1>1, <2>1, <3>1 DEF WillDo
  <2> QED
    BY <2>2, <2>5
<1>6. ASSUME NEW o \in Trouble, Fails(o)  PROVE OneIsLeft' /\ HealthyMeansAnswered'
  <2>1. formats' = <<>> /\ UNCHANGED <<kind, known, supported>>
    BY <1>1, <1>6 DEF Fails, Gives_up, Ends
  <2>2. SecondFormatWillDo => met' # {Harmless}
    BY <1>6, FailsForAReason
  <2> QED
    BY <2>1, <2>2 DEF OneIsLeft, HealthyMeansAnswered, SecondFormatWillDo, Harmless, Idle
<1> QED
  BY <1>2, <1>3, <1>4, <1>5, <1>6 DEF Requests

LEMMA NewDecisionLeft ==
  ASSUME Typed, NEW q, ByRules(q) \/ FromCache(q) \/ PassedOver(q) \/ NoProvider(q) \/ Ask(q)
  PROVE  OneIsLeft' /\ HealthyMeansAnswered'
<1>1. met' = {} /\ Idle /\ UNCHANGED <<kind, known, supported>>
  BY DEF ByRules, FromCache, PassedOver, NoProvider, Ask, Decides, setting
<1>2. HealthyMeansAnswered'
  BY <1>1 DEF HealthyMeansAnswered
<1>3. CASE Ask(q)
  <2> SUFFICES ASSUME SecondFormatWillDo'
               PROVE  \E i \in 1..Len(formats') : formats'[i] \in WillDo'
    BY <1>2 DEF OneIsLeft
  <2>1. SecondFormatWillDo
    BY <1>1 DEF SecondFormatWillDo
  <2>2. PICK i \in 1..Len(request_formats) : request_formats[i] \in WillDo
    BY <2>1, OneRequestWillDo
  <2>3. formats' = request_formats
    BY <1>3 DEF Ask
  <2> QED
    BY <1>1, <2>2, <2>3 DEF WillDo
<1>4. CASE ~Ask(q)
  <2>1. formats' = formats
    BY <1>4 DEF ByRules, FromCache, PassedOver, NoProvider
  <2> QED
    BY <1>1, <1>2, <2>1 DEF OneIsLeft, Idle
<1> QED
  BY <1>3, <1>4

LEMMA NextLeft ==
  ASSUME Typed, OneIsLeft, HealthyMeansAnswered, [Next]_vars
  PROVE  OneIsLeft' /\ HealthyMeansAnswered'
<1>1. CASE \E q \in [case : Cases, refusal : Refusal] :
             ByRules(q) \/ FromCache(q) \/ PassedOver(q) \/ NoProvider(q) \/ Ask(q)
  BY <1>1, NewDecisionLeft
<1>2. CASE Requests
  BY <1>2, RequestsLeft
<1>3. CASE Swing \/ CoolDown \/ UNCHANGED vars
  <2>1. UNCHANGED <<formats, met, kind, known, supported, result>>
    BY <1>3 DEF Swing, CoolDown, vars, setting, call, history
  <2> QED
    BY <2>1
    DEF OneIsLeft, HealthyMeansAnswered, SecondFormatWillDo, Harmless, WillDo, Idle
<1> QED
  BY <1>1, <1>2, <1>3 DEF Next

\* A first request in a format that will not do costs no case: not with a compatible
\* endpoint that accepts one of the two modes, whichever it is and whichever worked
\* before, and not with an SDK too old for thinking that can make the plain request.
\* providers.py:149-162, 187-227.
THEOREM UnknownFormatsCostNothing == Spec => []HealthyMeansAnswered
<1>1. Typed /\ OneIsLeft /\ HealthyMeansAnswered /\ [Next]_vars
        => Typed' /\ OneIsLeft' /\ HealthyMeansAnswered'
  BY NextTyped, NextLeft
<1> QED
  BY <1>1, InitTyped, InitLeft, PTL DEF Spec

----------------------------------------------------------------------------------
(* Throttling.                                                             *)

\* With Ollama a call that met nothing but throttling leaves the breaker as it was,
\* however often it was tried again: no case after it is passed over on its account.
\* llm.py:267-277, providers.py:93-119.
THEOREM OllamaMayThrottle == Spec => ThrottleSparesBreaker
<1>1. ASSUME Typed, [Next]_vars, kind = "ollama", met' = {"429"}, ~Idle, Idle'
      PROVE  breaker' = breaker
  <2>1. ASSUME NEW q, Decides(q)  PROVE FALSE
    BY <1>1, <2>1 DEF Decides
  <2>2. ASSUME NEW o, Request(o)  PROVE o = "429"
    BY <1>1, <2>2 DEF Request
  <2>3. ~Junk /\ ~Answered
    BY <2>2 DEF Junk, Answered
  <2>4. ASSUME NEW o \in Trouble, Fails(o)  PROVE breaker' = breaker
    <3>1. o = "429"
      BY <2>2, <2>4 DEF Fails, Gives_up
    <3>2. complete_raises(o) = "RateLimited"
      BY <1>1, <3>1 DEF complete_raises
    <3> QED
      BY <2>4, <3>2 DEF Fails
  <2>5. CASE \E q \in [case : Cases, refusal : Refusal] :
               ByRules(q) \/ FromCache(q) \/ PassedOver(q) \/ NoProvider(q) \/ Ask(q)
    BY <2>1, <2>5 DEF ByRules, FromCache, PassedOver, NoProvider, Ask
  <2>6. CASE Requests
    BY <2>3, <2>4, <2>6 DEF Requests, Retry, NextFormat
  <2>7. CASE Swing \/ UNCHANGED vars
    BY <2>7 DEF Swing, vars
  <2>8. CASE CoolDown
    BY <1>1, <2>8 DEF CoolDown, call, Idle
  <2> QED
    BY <1>1, <2>5, <2>6, <2>7, <2>8 DEF Next
<1>2. Typed /\ [Next]_vars => [kind = "ollama" => Unmoved]_vars
  BY <1>1 DEF Unmoved
<1> QED
  BY <1>2, InitTyped, NextTyped, PTL DEF Spec, ThrottleSparesBreaker
==================================================================================
