------------------------------ MODULE BackendsProofs -----------------------------
(***************************************************************************)
(* Theorems about Backends.tla, for every set of keys, every number of     *)
(* calls and every capacity of the pipe: type correctness, what "executed" *)
(* and ProviderError mean, and that both backends implement the contract   *)
(* of Backend.tla.                                                         *)
(***************************************************************************)
EXTENDS Backends, Integers, SequenceTheorems, TLAPS

----------------------------------------------------------------------------------
(* Lines on their way from the server to readline.                         *)

Message == [id : Nat, said : Said \union {"noise"}]

Request == [id : Nat, tool : {"initialize", "order", "create", "list"}, call : Nat, key : Keys]

\* What is on its way to the caller, whatever buffer it is in.
Elements(s) == {s[i] : i \in 1..Len(s)}

Incoming == answers \union Elements(buffer) \union Elements(pipe)

LEMMA ConcatElements ==
  ASSUME NEW s \in Seq(Message), NEW t \in Seq(Message)
  PROVE  /\ s \o t \in Seq(Message)
         /\ Elements(s \o t) \subseteq Elements(s) \union Elements(t)
  <1>1. /\ s \o t \in Seq(Message) /\ Len(s \o t) = Len(s) + Len(t)
        /\ Len(s) \in Nat /\ Len(t) \in Nat
        /\ \A i \in 1..Len(s) + Len(t) : (s \o t)[i] =
             IF i <= Len(s) THEN s[i] ELSE t[i - Len(s)]
    BY ConcatProperties, LenProperties
  <1>2. ASSUME NEW i \in 1..Len(s \o t)
        PROVE  (s \o t)[i] \in Elements(s) \union Elements(t)
    <2>1. CASE i <= Len(s)
      BY <1>1, <2>1 DEF Elements
    <2>2. CASE ~(i <= Len(s))
      <3>1. i - Len(s) \in 1..Len(t) /\ (s \o t)[i] = t[i - Len(s)]
        BY <1>1, <2>2
      <3> QED
        BY <3>1 DEF Elements
    <2> QED
      BY <2>1, <2>2
  <1> QED
    BY <1>1, <1>2 DEF Elements

LEMMA AppendElements ==
  ASSUME NEW s \in Seq(Message), NEW m \in Message
  PROVE  /\ Append(s, m) \in Seq(Message)
         /\ Len(Append(s, m)) = Len(s) + 1
         /\ Elements(Append(s, m)) \subseteq Elements(s) \union {m}
  <1>1. /\ Append(s, m) \in Seq(Message)
        /\ Len(Append(s, m)) = Len(s) + 1 /\ Len(s) \in Nat
        /\ \A i \in 1..Len(s) : Append(s, m)[i] = s[i]
        /\ Append(s, m)[Len(s) + 1] = m
    BY AppendProperties, LenProperties
  <1> QED
    BY <1>1 DEF Elements

LEMMA SubSeqElements ==
  ASSUME NEW s \in Seq(Message), NEW a \in Nat \ {0}, NEW b \in 0..Len(s)
  PROVE  /\ SubSeq(s, a, b) \in Seq(Message)
         /\ Len(SubSeq(s, a, b)) <= Len(s)
         /\ Elements(SubSeq(s, a, b)) \subseteq Elements(s)
  <1>1. Len(s) \in Nat /\ \A i \in 1..Len(s) : s[i] \in Message
    BY LenProperties, ElementOfSeq
  <1>2. \A i \in a..b : s[i] \in Message
    BY <1>1
  <1>3. /\ SubSeq(s, a, b) \in Seq(Message)
        /\ Len(SubSeq(s, a, b)) = IF a <= b THEN b - a + 1 ELSE 0
        /\ \A i \in 1..b - a + 1 : SubSeq(s, a, b)[i] = s[a + i - 1]
    BY <1>1, <1>2, SubSeqProperties
  <1>4. Len(SubSeq(s, a, b)) <= Len(s)
    BY <1>1, <1>3
  <1>5. ASSUME NEW i \in 1..Len(SubSeq(s, a, b))
        PROVE  SubSeq(s, a, b)[i] \in Elements(s)
    <2>1. i \in 1..b - a + 1 /\ a + i - 1 \in 1..Len(s)
      BY <1>1, <1>3
    <2> QED
      BY <1>3, <2>1 DEF Elements
  <1> QED
    BY <1>3, <1>4, <1>5 DEF Elements

\* readline returns a line that was there, and leaves only lines that were there.
LEMMA ReadsALine ==
  ASSUME pipe \in Seq(Message), buffer \in Seq(Message), ReadsLine
  PROVE  /\ pipe' \in Seq(Message) /\ buffer' \in Seq(Message)
         /\ Len(pipe') <= Len(pipe)
         /\ Elements(buffer') \union Elements(pipe')
              \subseteq Elements(buffer) \union Elements(pipe)
         /\ Line \in Elements(buffer) \union Elements(pipe)
         /\ ~(pipe = <<>> /\ buffer = <<>>)
  <1>1. Ahead \in Seq(Message) /\ Ahead # <<>>
    BY ConcatElements DEF Ahead, ReadsLine
  <1>2. Line \in Elements(Ahead)
    BY <1>1, LenProperties, EmptySeq DEF Line, Elements
  <1>3. Line \in Elements(buffer) \union Elements(pipe)
    BY <1>2, ConcatElements DEF Ahead
  <1>4. ~(pipe = <<>> /\ buffer = <<>>)
    BY <1>1, ConcatEmptySeq DEF Ahead
  <1>5. Len(pipe) \in Nat
    BY LenProperties
  <1>6. CASE buffer # <<>> /\ buffer' = Tail(buffer) /\ UNCHANGED pipe
    <2>1. Tail(buffer) = SubSeq(buffer, 2, Len(buffer)) /\ Len(buffer) \in Nat
      BY <1>6, TailIsSubSeq, LenProperties
    <2>2. 2 \in Nat \ {0} /\ Len(buffer) \in 0..Len(buffer)
      BY <2>1
    <2>3. buffer' \in Seq(Message) /\ Elements(buffer') \subseteq Elements(buffer)
      BY <1>6, <2>1, <2>2, SubSeqElements
    <2> QED
      BY <1>3, <1>4, <1>5, <1>6, <2>3
  <1>7. CASE \E n \in 1..Len(pipe) :
               buffer' = SubSeq(pipe, 2, n) /\ pipe' = SubSeq(pipe, n + 1, Len(pipe))
    <2>1. PICK n \in 1..Len(pipe) :
            buffer' = SubSeq(pipe, 2, n) /\ pipe' = SubSeq(pipe, n + 1, Len(pipe))
      BY <1>7
    <2>2. buffer' \in Seq(Message) /\ Elements(buffer') \subseteq Elements(pipe)
      BY <1>5, <2>1, SubSeqElements
    <2>3. /\ pipe' \in Seq(Message) /\ Elements(pipe') \subseteq Elements(pipe)
          /\ Len(pipe') <= Len(pipe)
      <3>1. n + 1 \in Nat \ {0} /\ Len(pipe) \in 0..Len(pipe)
        BY <1>5
      <3> QED
        BY <2>1, <3>1, SubSeqElements
    <2> QED
      BY <1>3, <1>4, <2>2, <2>3
  <1> QED
    BY <1>6, <1>7 DEF ReadsLine

----------------------------------------------------------------------------------
(* The inductive invariant: how requests, answers and effects relate to    *)
(* the stage the call in progress is at.                                   *)

Typed ==
  /\ via \in Vias
  /\ call \in [op : Operation \union {"none"}, number : 0..MaxCalls, key : Keys]
  /\ stage \in {"start", "handshake", "first", "lookup"}
  /\ result \in Result /\ unread \in {"no", "write", "text"}
  /\ requests \subseteq Request
  /\ answers \subseteq [id : Nat \ {0}, said : Said]
  /\ proc \in {"none", "up", "dead"} /\ late \in BOOLEAN
  /\ nextId \in Nat /\ waiting \in 0..nextId
  /\ pipe \in Seq(Message) /\ buffer \in Seq(Message)
  /\ Len(pipe) <= MaxLines
  /\ proc = "none" => pipe = <<>> /\ buffer = <<>>
  /\ effects \subseteq Keys /\ performed \subseteq 1..call.number
  /\ settled \in BOOLEAN /\ crowded \in BOOLEAN

\* A call in progress has no result yet, and waits exactly between its stages.
InProgress ==
  /\ waiting # 0 <=> stage # "start"
  /\ call.op = "none" => stage = "start"
  /\ call.op # "none" => result = "none" /\ call.number # 0
  /\ stage = "lookup" => call.op = "execute"

\* What was so when the call began is still so.
BeforeStands ==
  call.op # "none" =>
    /\ before.settled => settled
    /\ before.landed => call.key \in effects

\* The request with the id that is waited for is the one of this stage, and a
\* write of the call in progress is that request, or was it until it was answered in
\* the provider's stead.
RequestsMatch ==
  \A r \in requests :
    /\ r.id \in 0..nextId /\ r.call \in 1..call.number
    /\ r.id = waiting /\ waiting # 0 =>
         r.tool = tool(stage) /\ r.call = call.number /\ r.key = call.key
    /\ call.op # "none" /\ r.tool = "create" /\ r.call = call.number =>
         \/ r.id = waiting /\ waiting # 0
         \/ r.id = 0 /\ stage = "first" /\ call.op = "execute"

\* A call writes at most once.
WritesOnce ==
  \A q, r \in requests :
    q.tool = "create" /\ r.tool = "create" /\ q.call = r.call => q = r

\* A write of the call in progress that took effect is dealt with, and its answer
\* is what the call waits for.
PerformedMatches ==
  call.op # "none" /\ call.number \in performed =>
    /\ stage = "first" /\ call.op = "execute"
    /\ \A r \in requests : r.id # waiting

\* The call in progress has not written, or its write is known to be refused.
NoWrite ==
  /\ call.number \notin performed
  /\ \A r \in requests : r.tool = "create" => r.call # call.number

\* What an answer to the request of this stage can be, and what it then tells.  An
\* error over MCP tells nothing of a write: the server may have answered too early.
Truthful(said) ==
  /\ tool(stage) = "initialize" => said \in {"ready", "error"}
  /\ tool(stage) = "order" =>
       /\ said \in {"paid", "unpaid", "text", "error"}
       /\ said = "paid" => settled
       /\ said = "unpaid" => ~before.settled
  /\ tool(stage) = "create" =>
       /\ said \in {"link", "reference", "text", "error"}
       /\ said = "link" => call.key \in effects
       /\ said = "reference" \/ (said = "error" /\ via = "rest") => NoWrite
  /\ tool(stage) = "list" =>
       /\ said \in {"link", "nolink", "page", "text", "error"}
       /\ said = "link" => call.key \in effects
       /\ said = "nolink" => ~before.landed

AnswersMatch ==
  \A m \in Incoming :
    /\ m.id <= nextId
    /\ m.id = waiting /\ waiting # 0 =>
         /\ \A r \in requests : r.id # waiting
         /\ Truthful(m.said)

\* The result of a call that is over.
Concluded ==
  unread = "no" =>
    /\ result = "executed" => call.key \in effects
    /\ result = "ProviderError" =>
         /\ call.number \notin performed
         /\ \A r \in requests : r.tool = "create" => r.call # call.number

IInv ==
  /\ Typed
  /\ InProgress
  /\ BeforeStands
  /\ RequestsMatch
  /\ WritesOnce
  /\ PerformedMatches
  /\ AnswersMatch
  /\ Concluded

LEMMA InitInv == Init => IInv
  <1> SUFFICES ASSUME Init PROVE IInv
    OBVIOUS
  <1>1. pipe = <<>> /\ buffer = <<>> /\ Len(pipe) = 0 /\ Len(buffer) = 0
    BY EmptySeq DEF Init, ClientInit
  <1>2. pipe \in Seq(Message) /\ buffer \in Seq(Message)
    BY <1>1, EmptySeq
  <1>3. call.key \in Keys
    BY BackendsAssumption DEF Init
  <1>4. Incoming = {}
    BY <1>1 DEF Init, Incoming, Elements
  <1>5. via \in Vias /\ crowded \in BOOLEAN
    BY DEF Init
  <1>6. call \in [op : Operation \union {"none"}, number : 0..MaxCalls, key : Keys]
    BY <1>3, BackendsAssumption DEF Init
  <1>7. Typed
    <2>1. /\ stage = "start" /\ result = "none" /\ unread = "no" /\ requests = {}
          /\ answers = {} /\ proc = "none" /\ late = FALSE /\ nextId = 0 /\ waiting = 0
          /\ effects = {} /\ performed = {} /\ settled = FALSE
      BY DEF Init, ClientInit
    <2>2. MaxLines \in Nat
      BY ClientAssumption
    <2>3. /\ pipe \in Seq(Message) /\ buffer \in Seq(Message) /\ Len(pipe) <= MaxLines
          /\ proc = "none" => pipe = <<>> /\ buffer = <<>>
      BY <1>1, <1>2, <2>2
    <2>4. /\ requests \subseteq Request /\ answers \subseteq [id : Nat \ {0}, said : Said]
          /\ nextId \in Nat /\ waiting \in 0..nextId
          /\ effects \subseteq Keys /\ performed \subseteq 1..call.number
      BY <2>1
    <2>5. result \in Result
      BY <2>1 DEF Result
    <2> QED
      BY <1>5, <1>6, <2>1, <2>3, <2>4, <2>5 DEF Typed
  <1> QED
    BY <1>4, <1>7
    DEF Init, ClientInit, IInv, InProgress, BeforeStands, RequestsMatch, WritesOnce,
        PerformedMatches, AnswersMatch, Concluded

\* What the buffers hold next: at most a line of noise that they did not hold.
Receives ==
  /\ pipe' \in Seq(Message) /\ buffer' \in Seq(Message) /\ Len(pipe') <= MaxLines
  /\ proc' \in {"none", "up", "dead"}
  /\ proc' = "none" => pipe' = <<>> /\ buffer' = <<>>
  /\ answers' \subseteq answers
  /\ \A m \in Incoming' : m \in Incoming \/ m.id = 0

\* Lines move, the deadline passes, the server comes and goes: nothing else.
LEMMA TransportInv ==
  ASSUME IInv, Receives, late' \in BOOLEAN,
         UNCHANGED <<progress, nextId, waiting, requests, world, history>>
  PROVE  IInv'
  <1> USE DEF IInv, progress, world, history
  <1>1. Typed'
    BY DEF Typed, Receives
  <1>2. AnswersMatch'
    BY DEF AnswersMatch, Receives, Truthful, NoWrite, tool, Typed
  <1>3. /\ InProgress' /\ BeforeStands' /\ RequestsMatch' /\ WritesOnce'
        /\ PerformedMatches' /\ Concluded'
    BY DEF InProgress, BeforeStands, RequestsMatch, WritesOnce, PerformedMatches,
           Concluded, tool
  <1> QED
    BY <1>1, <1>2, <1>3

LEMMA QuietReceives ==
  ASSUME IInv, UNCHANGED lines, answers' \subseteq answers,
         proc' \in {"up", "dead"} \/ UNCHANGED proc
  PROVE  Receives
  BY DEF IInv, Typed, Receives, Incoming, lines

\* The caller looks at the pipe, the server writes to it, dies or is stopped.
LEMMA ReadReceives ==
  ASSUME IInv, ReadsLine, UNCHANGED <<proc, answers>>
  PROVE  Receives /\ Line \in Incoming
  <1>1. /\ pipe \in Seq(Message) /\ buffer \in Seq(Message) /\ Len(pipe) <= MaxLines
        /\ Len(pipe) \in Nat /\ MaxLines \in Nat
    BY LenProperties, ClientAssumption DEF IInv, Typed
  <1>2. /\ pipe' \in Seq(Message) /\ buffer' \in Seq(Message)
        /\ Len(pipe') <= Len(pipe)
        /\ Elements(buffer') \union Elements(pipe')
             \subseteq Elements(buffer) \union Elements(pipe)
        /\ Line \in Elements(buffer) \union Elements(pipe)
        /\ ~(pipe = <<>> /\ buffer = <<>>)
    BY <1>1, ReadsALine
  <1>3. Len(pipe') <= MaxLines
    <2>1. Len(pipe') \in Nat
      BY <1>2, LenProperties
    <2> QED
      BY <1>1, <1>2, <2>1
  <1>4. Incoming' \subseteq Incoming /\ Line \in Incoming
    BY <1>2 DEF Incoming
  <1> QED
    BY <1>2, <1>3, <1>4 DEF Receives, IInv, Typed

LEMMA WriteReceives ==
  ASSUME IInv, NEW m \in Message, m.id = 0 \/ m \in answers, Writes(m),
         answers' \subseteq answers
  PROVE  Receives
  <1>1. pipe \in Seq(Message) /\ Len(pipe) \in Nat /\ MaxLines \in Nat
    BY LenProperties, ClientAssumption DEF IInv, Typed
  <1>2. /\ pipe' \in Seq(Message) /\ Len(pipe') = Len(pipe) + 1
        /\ Elements(pipe') \subseteq Elements(pipe) \union {m}
    BY <1>1, AppendElements DEF Writes
  <1>3. \A x \in Incoming' : x \in Incoming \/ x.id = 0
    BY <1>2 DEF Incoming, Writes
  <1> QED
    BY <1>1, <1>2, <1>3 DEF Receives, Writes, IInv, Typed

LEMMA EnvironmentInv ==
  ASSUME IInv, Late \/ Speaks \/ Server \/ McpSkips
  PROVE  IInv'
  <1>1. CASE Late
    <2>1. Receives
      BY <1>1, QuietReceives DEF Late, DeadlinePasses
    <2> QED
      BY <1>1, <2>1, TransportInv DEF Late, DeadlinePasses
  <1>2. CASE Speaks
    <2>1. PICK a \in answers : answers' = answers \ {a} /\ Writes(a)
      BY <1>2 DEF Speaks
    <2>2. a \in Message
      BY DEF IInv, Typed, Message
    <2>3. Receives
      BY <2>1, <2>2, WriteReceives
    <2> QED
      BY <1>2, <2>1, <2>3, TransportInv DEF Speaks, Writes, history, IInv, Typed
  <1>3. CASE Server
    <2>1. CASE Noise
      <3>1. [id |-> 0, said |-> "noise"] \in Message
        BY DEF Message
      <3>2. Receives
        BY <1>3, <2>1, <3>1, WriteReceives DEF Noise, Server
      <3> QED
        BY <1>3, <2>1, <3>2, TransportInv DEF Server, Noise, Writes, IInv, Typed
    <2>2. CASE Die
      <3>1. Receives
        BY <1>3, <2>2, QuietReceives DEF Die, Server
      <3> QED
        BY <1>3, <2>2, <3>1, TransportInv DEF Server, Die, IInv, Typed
    <2>3. CASE Stop
      <3>1. pipe' = <<>> /\ buffer' = <<>> /\ Len(pipe') = 0 /\ Len(buffer') = 0
        BY <2>3, EmptySeq DEF Stop
      <3>2. pipe' \in Seq(Message) /\ buffer' \in Seq(Message)
        BY <3>1, EmptySeq
      <3>3. Incoming' \subseteq Incoming
        BY <1>3, <3>1 DEF Incoming, Elements, Server
      <3>4. Receives
        BY <1>3, <2>3, <3>1, <3>2, <3>3, ClientAssumption DEF Receives, Stop, Server
      <3> QED
        BY <1>3, <2>3, <3>4, TransportInv DEF Server, Stop, IInv, Typed
    <2> QED
      BY <1>3, <2>1, <2>2, <2>3 DEF Server
  <1>4. CASE McpSkips
    <2>1. Receives
      BY <1>4, ReadReceives DEF McpSkips, Skip
    <2> QED
      BY <1>4, <2>1, TransportInv DEF McpSkips, Skip, IInv, Typed
  <1> QED
    BY <1>1, <1>2, <1>3, <1>4

----------------------------------------------------------------------------------
(* The provider.                                                           *)

LEMMA PayInv ==
  ASSUME IInv, Pay
  PROVE  IInv'
  <1> USE DEF IInv, Pay, progress, client, lines, history
  <1>1. Typed'
    BY DEF Typed
  <1>2. Incoming' = Incoming /\ \A said : Truthful(said) => Truthful(said)'
    BY DEF Incoming, Truthful, NoWrite, tool
  <1>3. AnswersMatch'
    BY <1>2 DEF AnswersMatch
  <1> QED
    BY <1>1, <1>3
    DEF InProgress, BeforeStands, RequestsMatch, WritesOnce, PerformedMatches, Concluded, tool


\* There is one request with the id that is waited for.
LEMMA OneIsWaitedFor ==
  ASSUME IInv, waiting # 0,
         NEW q \in requests, NEW r \in requests, q.id = waiting, r.id = waiting
  PROVE  q = r
  <1>1. q.tool = r.tool /\ q.call = r.call /\ q.key = r.key /\ q.id = r.id
    BY DEF IInv, RequestsMatch
  <1>2. q \in Request /\ r \in Request
    BY DEF IInv, Typed
  <1> QED
    BY <1>1, <1>2 DEF Request

\* A write of the call in progress is under way only in the first stage of execute,
\* and no other request is waited for meanwhile.
LEMMA WaitedForWrite ==
  ASSUME IInv, NEW r \in requests, r.tool = "create", r.call = call.number, call.op # "none"
  PROVE  /\ stage = "first" /\ call.op = "execute" /\ waiting # 0
         /\ r.id # 0 => r.id = waiting
         /\ \A q \in requests \ {r} : q.id # waiting
  <1>1. stage = "first" /\ call.op = "execute"
    <2>1. CASE r.id = waiting /\ waiting # 0
      <3>1. r.tool = tool(stage)
        BY <2>1 DEF IInv, RequestsMatch
      <3>2. stage # "start" /\ stage \in {"start", "handshake", "first", "lookup"}
        BY <2>1 DEF IInv, InProgress, Typed
      <3>3. call.op \in Operation
        BY DEF IInv, Typed
      <3> QED
        BY <3>1, <3>2, <3>3 DEF tool, Operation
    <2>2. CASE r.id = 0 /\ stage = "first" /\ call.op = "execute"
      BY <2>2
    <2> QED
      BY <2>1, <2>2 DEF IInv, RequestsMatch
  <1>2. waiting # 0
    BY <1>1 DEF IInv, InProgress
  <1>3. r.id # 0 => r.id = waiting
    BY DEF IInv, RequestsMatch
  <1>4. ASSUME NEW q \in requests, q.id = waiting PROVE q = r
    <2>1. q.tool = "create" /\ q.call = call.number
      BY <1>1, <1>2, <1>4 DEF IInv, RequestsMatch, tool
    <2> QED
      BY <2>1 DEF IInv, WritesOnce
  <1> QED
    BY <1>1, <1>2, <1>3, <1>4

\* The provider is done with a request: the answer, if there is one, is truthful,
\* and only the write itself takes effect.
LEMMA ServedInv ==
  ASSUME IInv, NEW r \in requests, NEW said \in Said,
         requests' = requests \ {r},
         \/ UNCHANGED answers
         \/ r.id # 0 /\ answers' = answers \union {[id |-> r.id, said |-> said]},
         UNCHANGED <<progress, client, settled, crowded, before, unread>>,
         \/ UNCHANGED <<effects, performed>>
         \/ /\ r.tool = "create"
            /\ effects' = effects \union {r.key} /\ performed' = performed \union {r.call},
         r.id = waiting /\ waiting # 0 => Truthful(said)'
  PROVE  IInv'
  <1> USE DEF IInv, progress, client, lines
  <1>1. /\ r \in Request /\ r.id \in 0..nextId /\ r.call \in 1..call.number
        /\ r.key \in Keys
    BY DEF Typed, RequestsMatch, Request
  <1>2. nextId \in Nat /\ call.number \in Nat
    BY DEF Typed
  <1>3. Typed'
    <2>1. answers' \subseteq [id : Nat \ {0}, said : Said]
      BY <1>1, <1>2 DEF Typed
    <2>2. effects' \subseteq Keys /\ performed' \subseteq 1..call.number
      BY <1>1 DEF Typed
    <2> QED
      BY <2>1, <2>2 DEF Typed
  <1>4. InProgress' /\ BeforeStands'
    BY DEF InProgress, BeforeStands
  <1>5. RequestsMatch' /\ WritesOnce'
    BY DEF RequestsMatch, WritesOnce, tool
  <1>6. call.op # "none" /\ r.tool = "create" /\ r.call = call.number
          => /\ stage = "first" /\ call.op = "execute"
             /\ \A q \in requests' : q.id # waiting
    BY WaitedForWrite
  <1>7. PerformedMatches'
    BY <1>6 DEF PerformedMatches
  <1>8. \A m \in Incoming' :
          m \in Incoming \/ (r.id # 0 /\ m = [id |-> r.id, said |-> said])
    BY DEF Incoming
  <1>9. ASSUME NEW m \in Incoming', m.id = waiting, waiting # 0
        PROVE  (\A q \in requests' : q.id # waiting) /\ Truthful(m.said)'
    <2>1. call.op # "none"
      BY <1>9 DEF InProgress
    <2>2. CASE m \in Incoming
      <3>1. (\A q \in requests : q.id # waiting) /\ Truthful(m.said)
        BY <1>9, <2>2 DEF AnswersMatch
      <3>2. NoWrite => NoWrite'
        BY DEF NoWrite
      <3> QED
        BY <3>1, <3>2 DEF Truthful, tool
    <2>3. CASE m = [id |-> r.id, said |-> said]
      BY <1>9, <2>3, OneIsWaitedFor
    <2> QED
      BY <1>8, <2>2, <2>3
  <1>10. AnswersMatch'
    <2>1. \A m \in Incoming' : m.id <= nextId
      BY <1>1, <1>2, <1>8 DEF AnswersMatch
    <2> QED
      BY <1>9, <2>1 DEF AnswersMatch
  <1>11. Concluded'
    BY <1>1 DEF Concluded
  <1> QED
    BY <1>3, <1>4, <1>5, <1>7, <1>10, <1>11

LEMMA ProviderInv ==
  ASSUME IInv, NEW r \in requests, Deals(r) \/ Refuses(r) \/ Loses(r)
  PROVE  IInv'
  <1> USE DEF progress, client, lines, history, world
  <1>1. /\ r \in Request
        /\ r.id = waiting /\ waiting # 0 =>
             r.tool = tool(stage) /\ r.call = call.number /\ r.key = call.key
    BY DEF IInv, Typed, RequestsMatch
  <1>2. waiting # 0 => call.op # "none"
    BY DEF IInv, InProgress
  <1>3. r.id = waiting /\ waiting # 0 /\ r.tool = "create"
          => /\ call.number \notin performed
             /\ \A q \in requests \ {r} : q.tool = "create" => q.call # call.number
    BY <1>1, <1>2 DEF IInv, PerformedMatches, WritesOnce
  <1>4. UNCHANGED <<call, stage>> => tool(stage)' = tool(stage)
    BY DEF tool
  <1>5. CASE Refuses(r)
    <2>1. PICK said \in {"error"} \union (IF r.tool = "create" THEN {"reference"} ELSE {}) :
            Answers(r, said)
      BY <1>5 DEF Refuses
    <2>2. requests' = requests \ {r}
          /\ UNCHANGED <<progress, client, settled, crowded, before, unread, effects, performed>>
      BY <1>5 DEF Refuses
    <2>3. r.id = waiting /\ waiting # 0 => Truthful(said)'
      <3>1. r.id = waiting /\ waiting # 0 /\ r.tool = "create" => NoWrite'
        BY <1>3, <2>2 DEF NoWrite
      <3> QED
        BY <1>1, <1>4, <2>1, <2>2, <3>1 DEF Truthful
    <2>4. \/ UNCHANGED answers
          \/ r.id # 0 /\ answers' = answers \union {[id |-> r.id, said |-> said]}
      BY <2>1 DEF Answers
    <2>5. said \in Said
      BY <2>1 DEF Said
    <2> QED
      BY <2>2, <2>3, <2>4, <2>5, ServedInv
  <1>6. CASE Loses(r)
    <2>1. r.id = waiting /\ waiting # 0 => Truthful("error")'
      <3>1. requests' = requests \ {r} /\ UNCHANGED <<call, stage, performed, via>>
        BY <1>6 DEF Loses
      <3>2. r.id = waiting /\ waiting # 0 /\ r.tool = "create" => NoWrite'
        BY <1>3, <3>1 DEF NoWrite
      <3> QED
        BY <1>1, <1>4, <3>1, <3>2 DEF Truthful
    <2> QED
      BY <1>6, <2>1, ServedInv DEF Loses, Said
  <1>7. CASE Deals(r)
    <2>1. PICK said \in Answer(r) :
            /\ \/ Answers(r, said)
               \/ via = "mcp" /\ said \notin {"ready", "reference"} /\ Answers(r, "text")
            /\ IF r.tool = "create" /\ said = "link"
               THEN effects' = effects \union {r.key} /\ performed' = performed \union {r.call}
               ELSE UNCHANGED <<effects, performed>>
      BY <1>7 DEF Deals
    <2>2. r.tool \in {"initialize", "order", "create", "list"}
      BY <1>1 DEF Request
    <2>3. /\ requests' = requests \ {r}
          /\ UNCHANGED <<progress, client, settled, crowded, before, unread>>
      BY <1>7 DEF Deals
    <2>4. /\ r.tool = "initialize" => said = "ready"
          /\ r.tool = "order" => said = IF settled THEN "paid" ELSE "unpaid"
          /\ r.tool = "create" => said = IF r.key \in effects THEN "reference" ELSE "link"
          /\ r.tool = "list" => /\ said \in {"link", "nolink", "page"}
                                /\ said = "link" => r.key \in effects
                                /\ said = "nolink" => r.key \notin effects
      BY <2>2 DEF Answer
    <2>5. said \in Said
      BY <2>2, <2>4 DEF Said
    <2>6. r.id = waiting /\ waiting # 0 => Truthful(said)'
      <3>1. r.id = waiting /\ waiting # 0 /\ said = "reference" => NoWrite'
        BY <1>3, <2>1, <2>2, <2>3, <2>4 DEF NoWrite
      <3> QED
        BY <1>1, <1>2, <1>4, <2>1, <2>2, <2>3, <2>4, <3>1 DEF Truthful, IInv, BeforeStands
    <2>7. r.id = waiting /\ waiting # 0 /\ said # "ready" => Truthful("text")'
      BY <1>1, <1>4, <2>2, <2>3, <2>4 DEF Truthful
    <2>8. \/ UNCHANGED <<effects, performed>>
          \/ /\ r.tool = "create"
             /\ effects' = effects \union {r.key} /\ performed' = performed \union {r.call}
      BY <2>1
    <2>9. CASE Answers(r, said)
      BY <2>3, <2>5, <2>6, <2>8, <2>9, ServedInv DEF Answers
    <2>10. CASE said # "ready" /\ Answers(r, "text")
      BY <2>3, <2>7, <2>8, <2>10, ServedInv DEF Answers, Said
    <2> QED
      BY <2>1, <2>9, <2>10
  <1> QED
    BY <1>5, <1>6, <1>7

\* The MCP server answers a write in the provider's stead: the write is still the only
\* one of its call, and the answer tells nothing of it.
LEMMA RelaysInv ==
  ASSUME IInv, NEW r \in requests, Relays(r)
  PROVE  IInv'
  <1> DEFINE q == [r EXCEPT !.id = 0]
  <1> USE DEF IInv, progress, client, lines, world, history
  <1>1. /\ r \in Request /\ r.id \in 0..nextId /\ r.call \in 1..call.number
        /\ r.key \in Keys /\ nextId \in Nat
    BY DEF Typed, RequestsMatch, Request
  <1>2. /\ via = "mcp" /\ r.tool = "create" /\ r.id # 0
        /\ answers' = answers \union {[id |-> r.id, said |-> "error"]}
        /\ requests' = (requests \ {r}) \union {q}
        /\ UNCHANGED <<progress, client, world, history>>
    BY DEF Relays, Answers
  <1>3. q \in Request /\ q.id = 0 /\ q.tool = r.tool /\ q.call = r.call /\ q.key = r.key
    BY <1>1 DEF Request
  <1> HIDE DEF q
  <1>4. Typed'
    <2>1. [id |-> r.id, said |-> "error"] \in [id : Nat \ {0}, said : Said]
      BY <1>1, <1>2 DEF Said
    <2> QED
      BY <1>2, <1>3, <2>1 DEF Typed
  <1>5. InProgress' /\ BeforeStands'
    BY <1>2 DEF InProgress, BeforeStands
  <1>6. call.op # "none" /\ r.call = call.number => stage = "first" /\ call.op = "execute"
    BY <1>2, WaitedForWrite
  <1>7. RequestsMatch'
    BY <1>1, <1>2, <1>3, <1>6 DEF RequestsMatch, tool
  <1>8. WritesOnce'
    BY <1>2, <1>3 DEF WritesOnce
  <1>9. PerformedMatches'
    <2>1. call.op # "none" /\ call.number \in performed => waiting # 0
      BY DEF PerformedMatches, InProgress
    <2> QED
      BY <1>2, <1>3, <2>1 DEF PerformedMatches
  <1>10. AnswersMatch'
    <2>1. \A m \in Incoming' : m \in Incoming \/ m = [id |-> r.id, said |-> "error"]
      BY <1>2 DEF Incoming
    <2>2. \A said : Truthful(said) => Truthful(said)'
      <3>1. NoWrite => NoWrite'
        BY <1>2, <1>3 DEF NoWrite
      <3> QED
        BY <1>2, <3>1 DEF Truthful, tool
    <2>3. ASSUME r.id = waiting
          PROVE  (\A p \in requests' : p.id # waiting) /\ Truthful("error")'
      <3>1. waiting # 0 /\ tool(stage) = "create"
        BY <1>2, <2>3 DEF RequestsMatch
      <3>2. \A p \in requests' : p.id # waiting
        BY <1>2, <1>3, <2>3, <3>1, OneIsWaitedFor
      <3> QED
        BY <1>2, <3>1, <3>2 DEF Truthful, tool
    <2>4. ASSUME NEW m \in Incoming, m.id = waiting, waiting # 0
          PROVE  (\A p \in requests' : p.id # waiting) /\ Truthful(m.said)'
      BY <1>2, <1>3, <2>2, <2>4 DEF AnswersMatch
    <2>5. \A m \in Incoming' : m.id <= nextId
      BY <1>1, <2>1 DEF AnswersMatch
    <2> QED
      BY <1>2, <2>1, <2>3, <2>4, <2>5 DEF AnswersMatch
  <1>11. Concluded'
    BY <1>2, <1>3 DEF Concluded
  <1> QED
    BY <1>4, <1>5, <1>7, <1>8, <1>9, <1>10, <1>11

----------------------------------------------------------------------------------
(* The caller: a call begins, posts its requests and returns.              *)

LEMMA BeginInv ==
  ASSUME IInv, NEW op \in Operation, NEW key \in Keys, Begin(op, key)
  PROVE  IInv'
  <1> USE DEF IInv, client, lines, world
  <1>1. /\ call.op = "none" /\ call.number < MaxCalls
        /\ call' = [op |-> op, number |-> call.number + 1, key |-> key]
        /\ stage' = "start" /\ result' = "none" /\ unread' = "no"
        /\ before' = [settled |-> settled, landed |-> key \in effects]
        /\ UNCHANGED <<via, client, requests, answers, world, performed>>
    BY DEF Begin
  <1>2. call.number \in Nat /\ MaxCalls \in Nat
    BY BackendsAssumption DEF Typed
  <1>3. stage = "start" /\ waiting = 0
    BY <1>1 DEF InProgress
  <1>4. /\ call' \in [op : Operation \union {"none"}, number : 0..MaxCalls, key : Keys]
        /\ performed \subseteq 1..call'.number
    BY <1>1, <1>2 DEF Typed
  <1>5. Typed'
    BY <1>1, <1>4 DEF Typed, Result
  <1>6. InProgress' /\ BeforeStands' /\ WritesOnce' /\ Concluded'
    <2>1. InProgress'
      BY <1>1, <1>2, <1>3 DEF InProgress, Operation
    <2>2. BeforeStands'
      BY <1>1 DEF BeforeStands
    <2> QED
      BY <1>1, <2>1, <2>2 DEF WritesOnce, Concluded
  <1>7. \A r \in requests : r.id \in 0..nextId /\ r.call \in 1..call.number
    BY DEF RequestsMatch
  <1>8. RequestsMatch'
    BY <1>1, <1>2, <1>3, <1>7 DEF RequestsMatch
  <1>9. PerformedMatches'
    <2>1. call.number + 1 \notin performed
      BY <1>2 DEF Typed
    <2> QED
      BY <1>1, <2>1 DEF PerformedMatches
  <1>10. AnswersMatch'
    BY <1>1, <1>3 DEF AnswersMatch, Incoming
  <1> QED
    BY <1>5, <1>6, <1>8, <1>9, <1>10

LEMMA NoWriteIsKnown ==
  ASSUME IInv, call.op # "none",
         stage # "first" \/ call.op # "execute" \/ NoWrite
  PROVE  NoWrite
  BY WaitedForWrite DEF NoWrite, IInv, PerformedMatches

LEMMA IncomingIds == IInv => \A m \in Incoming : m.id \in Nat
  <1> SUFFICES ASSUME IInv PROVE \A m \in Incoming : m.id \in Nat
    OBVIOUS
  <1>1. pipe \in Seq(Message) /\ buffer \in Seq(Message)
    BY DEF IInv, Typed
  <1>2. Elements(pipe) \union Elements(buffer) \subseteq Message
    BY <1>1, ElementOfSeq DEF Elements
  <1>3. \A a \in answers : a.id \in Nat
    BY DEF IInv, Typed
  <1> QED
    BY <1>2, <1>3 DEF Incoming, Message

\* A request leaves for the stage that comes next.
Posted(at) ==
  /\ stage' = at /\ Posts
  /\ requests' = requests \union
       {[id |-> nextId', tool |-> tool(at), call |-> call.number, key |-> call.key]}
  /\ UNCHANGED <<via, call, result, world, history>>

LEMMA PostedInv ==
  ASSUME IInv, Receives, NEW at \in {"handshake", "first", "lookup"}, Posted(at),
         call.op # "none", at = "lookup" => call.op = "execute", NoWrite
  PROVE  IInv'
  <1> DEFINE q == [id |-> nextId + 1, tool |-> tool(at), call |-> call.number, key |-> call.key]
  <1> USE DEF IInv, world, history
  <1>1. /\ stage' = at /\ nextId' = nextId + 1 /\ waiting' = nextId + 1 /\ late' = FALSE
        /\ requests' = requests \union {q}
        /\ UNCHANGED <<via, call, result, world, history>>
    BY DEF Posted, Posts
  <1>2. nextId \in Nat /\ call.number \in Nat /\ call.key \in Keys
    BY DEF Typed
  <1>3. call.number \in 1..call.number /\ call.number \in 0..MaxCalls
    BY <1>2 DEF Typed, InProgress
  <1>4. tool(at) \in {"initialize", "order", "create", "list"}
    BY DEF tool
  <1>5. q \in Request
    BY <1>2, <1>4 DEF Request
  <1>6. \A r \in requests : r.id \in 0..nextId /\ r.call \in 1..call.number
    BY DEF RequestsMatch
  <1>7. tool(stage)' = tool(at)
    BY <1>1 DEF tool
  <1>8. /\ q.id = nextId + 1 /\ q.call = call.number /\ q.key = call.key
        /\ q.tool = tool(at)
    OBVIOUS
  <1> HIDE DEF q
  <1>9. Typed'
    <2>1. requests' \subseteq Request
      BY <1>1, <1>5 DEF Typed
    <2>2. nextId' \in Nat /\ waiting' \in 0..nextId'
      BY <1>1, <1>2
    <2>3. answers' \subseteq [id : Nat \ {0}, said : Said]
      BY DEF Typed, Receives
    <2> QED
      BY <1>1, <2>1, <2>2, <2>3 DEF Typed, Receives
  <1>10. InProgress' /\ BeforeStands'
    BY <1>1, <1>2 DEF InProgress, BeforeStands
  <1>11. RequestsMatch'
    BY <1>1, <1>2, <1>3, <1>6, <1>7, <1>8 DEF RequestsMatch, NoWrite
  <1>12. WritesOnce'
    BY <1>1, <1>8 DEF WritesOnce, NoWrite
  <1>13. PerformedMatches' /\ Concluded'
    BY <1>1 DEF PerformedMatches, NoWrite, Concluded, InProgress
  <1>14. AnswersMatch'
    <2>1. \A m \in Incoming' : m.id \in Nat /\ m.id <= nextId
      BY <1>2, IncomingIds DEF Receives, AnswersMatch
    <2> QED
      BY <1>1, <1>2, <2>1 DEF AnswersMatch
  <1> QED
    BY <1>9, <1>10, <1>11, <1>12, <1>13, <1>14

\* What the result says, where it is understood; where not, the exception that
\* would have owned up to that.
Owned(r, why) ==
  IF why = "no" THEN r
  ELSE CASE r = "unsettled" -> "SettlementUnknown"
         [] r = "absent" -> "ReconciliationUnknown"
         [] r \in {"executed", "ProviderError"} -> "UnknownOutcome"
         [] OTHER -> r

\* What the contract lets the call in progress return.
MayReturn(r) ==
  /\ call.op = "is_settled" =>
       \/ r = "settled" /\ settled
       \/ r = "unsettled" /\ ~before.settled
       \/ r = "SettlementUnknown"
  /\ call.op = "execute" =>
       \/ r = "executed" /\ call.key \in effects
       \/ r \in {"ProviderError", "noaction"} /\ NoWrite
       \/ r \in {"UnknownOutcome", "ReconciliationUnknown"}
  /\ call.op = "reconcile" =>
       \/ r = "executed" /\ call.key \in effects
       \/ r = "absent" /\ ~before.landed
       \/ r = "ReconciliationUnknown"

LEMMA ReturnedInv ==
  ASSUME IInv, Receives, call.op # "none",
         NEW r \in Result \ {"none"}, NEW why \in {"no", "write", "text"},
         Returns(r, why), MayReturn(Owned(r, why))
  PROVE  IInv'
  <1> USE DEF IInv
  <1>1. /\ call' = [call EXCEPT !.op = "none"] /\ stage' = "start" /\ result' = r
        /\ unread' = why /\ waiting' = 0 /\ late' = FALSE
        /\ UNCHANGED <<via, nextId, requests, effects, settled, crowded, performed, before>>
    BY DEF Returns, Hangs_up, world
  <1>2. /\ call.op \in Operation /\ call \in [op : Operation \union {"none"},
                                              number : 0..MaxCalls, key : Keys]
    BY DEF Typed
  <1>3. /\ call'.op = "none" /\ call'.number = call.number /\ call'.key = call.key
        /\ call' \in [op : Operation \union {"none"}, number : 0..MaxCalls, key : Keys]
    BY <1>1, <1>2
  <1>4. nextId \in Nat
    BY DEF Typed
  <1>5. Typed'
    <2>1. answers' \subseteq [id : Nat \ {0}, said : Said]
      BY DEF Typed, Receives
    <2>2. /\ stage' \in {"start", "handshake", "first", "lookup"} /\ result' \in Result
          /\ unread' \in {"no", "write", "text"} /\ late' \in BOOLEAN
      BY <1>1
    <2>3. nextId' \in Nat /\ waiting' \in 0..nextId'
      <3>1. nextId' = nextId /\ waiting' = 0
        BY <1>1
      <3> QED
        BY <1>4, <3>1
    <2>4. /\ via' \in Vias /\ requests' \subseteq Request /\ effects' \subseteq Keys
          /\ performed' \subseteq 1..call'.number
          /\ settled' \in BOOLEAN /\ crowded' \in BOOLEAN
      BY <1>1, <1>3 DEF Typed
    <2> QED
      BY <1>3, <2>1, <2>2, <2>3, <2>4 DEF Typed, Receives
  <1>6. InProgress' /\ BeforeStands' /\ WritesOnce' /\ PerformedMatches'
    <2>1. InProgress'
      <3>1. stage' = "start" /\ waiting' = 0 /\ call'.op = "none"
        BY <1>1, <1>3
      <3> QED
        BY <3>1 DEF InProgress
    <2>2. WritesOnce'
      BY <1>1 DEF WritesOnce
    <2> QED
      BY <1>3, <2>1, <2>2 DEF BeforeStands, PerformedMatches
  <1>7. RequestsMatch'
    BY <1>1, <1>3, <1>4 DEF RequestsMatch
  <1>8. AnswersMatch'
    BY <1>1, <1>4 DEF AnswersMatch, Receives
  <1>9. Concluded'
    <2>1. ASSUME why = "no" PROVE MayReturn(r)
      <3>1. Owned(r, why) = r
        BY <2>1 DEF Owned
      <3> QED
        BY <3>1
    <2>2. why = "no" /\ r = "executed" => call.key \in effects
      BY <1>2, <2>1 DEF MayReturn, Operation
    <2>3. why = "no" /\ r = "ProviderError" => NoWrite
      BY <1>2, <2>1 DEF MayReturn, Operation
    <2> QED
      BY <1>1, <1>3, <2>2, <2>3 DEF Concluded, NoWrite
  <1> QED
    BY <1>5, <1>6, <1>7, <1>8, <1>9

\* What the call in progress can hear: an answer to its request, or one of the
\* failures its transport knows.
Hearing(said) ==
  \/ Truthful(said) /\ \A r \in requests : r.id # waiting
  \/ via = "rest" /\ said \in {"timeout", "broken", "5xx", "garbled"}
  \/ via = "mcp" /\ said \in {"timeout", "closed"}

\* What leads to another request instead of a result.
GoesOn(said) ==
  \/ stage = "handshake" /\ said = "ready"
  \/ stage = "first" /\ tool(stage) = "create" /\ said = "reference"

\* What is heard at the three stages is turned into a result that is honest.
LEMMA HandshakeFails ==
  ASSUME IInv, stage = "handshake", NEW said, Hearing(said), ~GoesOn(said)
  PROVE  /\ outcome(stage, heard(said)) \in Result \ {"none"}
         /\ doubt(said) \in {"no", "write", "text"}
         /\ MayReturn(Owned(outcome(stage, heard(said)), doubt(said)))
  <1>1. tool(stage) = "initialize"
    BY DEF tool
  <1>2. call.op \in Operation
    BY DEF IInv, Typed, InProgress
  <1>3. heard(said) \in {"error", "unknown"} /\ doubt(said) = "no"
    BY <1>1 DEF Hearing, GoesOn, Truthful, heard, request_raises, call_raises, doubt
  <1>4. NoWrite
    BY <1>2, NoWriteIsKnown DEF Operation
  <1>5. CASE call.op = "is_settled"
    <2>1. outcome(stage, heard(said)) = "SettlementUnknown"
      BY <1>3, <1>5 DEF outcome, is_settled
    <2> QED
      BY <1>3, <1>5, <2>1 DEF Owned, MayReturn, Result
  <1>6. CASE call.op = "execute"
    <2>1. outcome(stage, heard(said)) \in {"ProviderError", "UnknownOutcome"}
      BY <1>3, <1>6 DEF outcome, execute
    <2> QED
      BY <1>3, <1>4, <1>6, <2>1 DEF Owned, MayReturn, Result
  <1>7. CASE call.op = "reconcile"
    <2>1. outcome(stage, heard(said)) = "ReconciliationUnknown"
      BY <1>3, <1>7 DEF outcome, reconcile, find_by_reference
    <2> QED
      BY <1>3, <1>7, <2>1 DEF Owned, MayReturn, Result
  <1> QED
    BY <1>2, <1>5, <1>6, <1>7 DEF Operation

LEMMA ReadConcludes ==
  ASSUME IInv, stage = "first", call.op = "is_settled", NEW said, Hearing(said)
  PROVE  /\ outcome(stage, heard(said)) \in Result \ {"none"}
         /\ doubt(said) \in {"no", "write", "text"}
         /\ MayReturn(Owned(outcome(stage, heard(said)), doubt(said)))
  <1>1. tool(stage) = "order"
    BY DEF tool
  <1>2. doubt(said) = IF said = "text" THEN "text" ELSE "no"
    BY <1>1 DEF doubt
  <1>3. \/ said \in {"paid", "unpaid", "text"} /\ heard(said) = said /\ Truthful(said)
        \/ said # "text" /\ heard(said) \in {"error", "unknown"}
    BY <1>1 DEF Hearing, Truthful, heard, request_raises, call_raises
  <1>4. CASE said = "paid" /\ heard(said) = said /\ Truthful(said)
    <2>1. outcome(stage, heard(said)) = "settled" /\ settled
      BY <1>1, <1>4 DEF outcome, is_settled, Truthful
    <2> QED
      BY <1>2, <1>4, <2>1 DEF Owned, MayReturn, Result
  <1>5. CASE said = "unpaid" /\ heard(said) = said /\ Truthful(said)
    <2>1. outcome(stage, heard(said)) = "unsettled" /\ ~before.settled
      BY <1>1, <1>5 DEF outcome, is_settled, Truthful
    <2> QED
      BY <1>2, <1>5, <2>1 DEF Owned, MayReturn, Result
  <1>6. CASE said = "text" /\ heard(said) = said
    <2>1. outcome(stage, heard(said)) = "unsettled"
      BY <1>6 DEF outcome, is_settled
    <2> QED
      BY <1>2, <1>6, <2>1 DEF Owned, MayReturn, Result
  <1>7. CASE said # "text" /\ heard(said) \in {"error", "unknown"}
    <2>1. outcome(stage, heard(said)) = "SettlementUnknown"
      BY <1>7 DEF outcome, is_settled
    <2> QED
      BY <1>2, <1>7, <2>1 DEF Owned, MayReturn, Result
  <1> QED
    BY <1>3, <1>4, <1>5, <1>6, <1>7

LEMMA ReconcileConcludes ==
  ASSUME IInv, stage = "first", call.op = "reconcile", NEW said, Hearing(said)
  PROVE  /\ outcome(stage, heard(said)) \in Result \ {"none"}
         /\ doubt(said) \in {"no", "write", "text"}
         /\ MayReturn(Owned(outcome(stage, heard(said)), doubt(said)))
  <1>1. tool(stage) = "list"
    BY DEF tool
  <1>2. doubt(said) = IF said = "text" THEN "text" ELSE "no"
    BY <1>1 DEF doubt
  <1>3. \/ said \in {"link", "nolink", "text"} /\ heard(said) = said /\ Truthful(said)
        \/ said # "text" /\ heard(said) \in {"error", "unknown", "page"}
    BY <1>1 DEF Hearing, Truthful, heard, request_raises, call_raises
  <1>4. CASE said = "link" /\ heard(said) = said /\ Truthful(said)
    <2>1. outcome(stage, heard(said)) = "executed" /\ call.key \in effects
      BY <1>1, <1>4 DEF outcome, reconcile, find_by_reference, Truthful
    <2> QED
      BY <1>2, <1>4, <2>1 DEF Owned, MayReturn, Result
  <1>5. CASE said = "nolink" /\ heard(said) = said /\ Truthful(said)
    <2>1. outcome(stage, heard(said)) = "absent" /\ ~before.landed
      BY <1>1, <1>5 DEF outcome, reconcile, find_by_reference, Truthful
    <2> QED
      BY <1>2, <1>5, <2>1 DEF Owned, MayReturn, Result
  <1>6. CASE said = "text" /\ heard(said) = said
    <2>1. outcome(stage, heard(said)) = "absent"
      BY <1>6 DEF outcome, reconcile, find_by_reference
    <2> QED
      BY <1>2, <1>6, <2>1 DEF Owned, MayReturn, Result
  <1>7. CASE said # "text" /\ heard(said) \in {"error", "unknown", "page"}
    <2>1. outcome(stage, heard(said)) = "ReconciliationUnknown"
      BY <1>7 DEF outcome, reconcile, find_by_reference
    <2> QED
      BY <1>2, <1>7, <2>1 DEF Owned, MayReturn, Result
  <1> QED
    BY <1>3, <1>4, <1>5, <1>6, <1>7

\* The write itself.  A failure that says nothing of the write is an unknown
\* outcome, or is in doubt.
LEMMA WriteConcludes ==
  ASSUME IInv, stage = "first", call.op = "execute", NEW said, Hearing(said), ~GoesOn(said)
  PROVE  /\ outcome(stage, heard(said)) \in Result \ {"none"}
         /\ doubt(said) \in {"no", "write", "text"}
         /\ MayReturn(Owned(outcome(stage, heard(said)), doubt(said)))
  <1>1. tool(stage) = "create"
    BY DEF tool
  <1>2. doubt(said) \in {"no", "write", "text"}
    BY DEF doubt
  <1>3. \A x : outcome(stage, x) = execute(x)
    BY DEF outcome
  <1>4. CASE Truthful(said) /\ \A r \in requests : r.id # waiting
    <2>1. said \in {"link", "text", "error"} /\ heard(said) = said
      BY <1>1, <1>4 DEF GoesOn, Truthful, heard, request_raises, call_raises
    <2>2. CASE said = "link"
      <3>1. outcome(stage, heard(said)) = "executed" /\ doubt(said) = "no" /\ call.key \in effects
        BY <1>1, <1>3, <1>4, <2>1, <2>2 DEF execute, doubt, Truthful
      <3> QED
        BY <1>2, <3>1 DEF Owned, MayReturn, Result
    <2>3. CASE said = "text"
      <3>1. outcome(stage, heard(said)) = "executed" /\ doubt(said) = "text"
        BY <1>3, <2>1, <2>3 DEF execute, doubt
      <3> QED
        BY <1>2, <3>1 DEF Owned, MayReturn, Result
    <2>4. CASE said = "error"
      <3>1. outcome(stage, heard(said)) = "ProviderError"
        BY <1>3, <2>1, <2>4 DEF execute
      <3>2. CASE via = "rest"
        <4>1. doubt(said) = "no" /\ NoWrite
          BY <1>1, <1>4, <2>4, <3>2 DEF doubt, Truthful
        <4> QED
          BY <1>2, <3>1, <4>1 DEF Owned, MayReturn, Result
      <3>3. CASE via # "rest"
        <4>1. doubt(said) = "write"
          BY <1>1, <2>4, <3>3 DEF doubt
        <4> QED
          BY <3>1, <4>1 DEF Owned, MayReturn, Result
      <3> QED
        BY <3>2, <3>3
    <2> QED
      BY <2>1, <2>2, <2>3, <2>4
  <1>5. CASE via = "rest" /\ said \in {"timeout", "broken", "5xx"}
    <2>1. outcome(stage, heard(said)) = "UnknownOutcome" /\ doubt(said) = "no"
      BY <1>1, <1>3, <1>5 DEF heard, request_raises, execute, doubt
    <2> QED
      BY <2>1 DEF Owned, MayReturn, Result
  <1>6. CASE \/ via = "rest" /\ said = "garbled"
             \/ via = "mcp" /\ said \in {"timeout", "closed"}
    <2>1. outcome(stage, heard(said)) = "ProviderError" /\ doubt(said) = "write"
      BY <1>1, <1>3, <1>6 DEF heard, request_raises, call_raises, execute, doubt
    <2> QED
      BY <2>1 DEF Owned, MayReturn, Result
  <1> QED
    BY <1>4, <1>5, <1>6 DEF Hearing

LEMMA LookupConcludes ==
  ASSUME IInv, stage = "lookup", NEW said, Hearing(said)
  PROVE  /\ outcome(stage, heard(said)) \in Result \ {"none"}
         /\ doubt(said) \in {"no", "write", "text"}
         /\ MayReturn(Owned(outcome(stage, heard(said)), doubt(said)))
  <1>1. tool(stage) = "list" /\ call.op = "execute"
    BY DEF tool, IInv, InProgress
  <1>2. doubt(said) = IF said = "text" THEN "text" ELSE "no"
    BY <1>1 DEF doubt
  <1>3. NoWrite
    BY <1>1, NoWriteIsKnown
  <1>4. \/ said \in {"link", "nolink", "text"} /\ heard(said) = said /\ Truthful(said)
        \/ said # "text" /\ heard(said) \in {"error", "unknown", "page"}
    BY <1>1 DEF Hearing, Truthful, heard, request_raises, call_raises
  <1>5. \A x : outcome(stage, x) = replay(x)
    BY <1>1 DEF outcome
  <1>6. CASE said = "link" /\ heard(said) = said /\ Truthful(said)
    <2>1. outcome(stage, heard(said)) = "executed" /\ call.key \in effects
      BY <1>1, <1>5, <1>6 DEF replay, find_by_reference, Truthful
    <2> QED
      BY <1>1, <1>2, <1>6, <2>1 DEF Owned, MayReturn, Result
  <1>7. CASE said = "nolink" /\ heard(said) = said
    <2>1. outcome(stage, heard(said)) = "ProviderError"
      BY <1>5, <1>7 DEF replay, find_by_reference
    <2> QED
      BY <1>1, <1>2, <1>3, <1>7, <2>1 DEF Owned, MayReturn, Result
  <1>8. CASE said = "text" /\ heard(said) = said
    <2>1. outcome(stage, heard(said)) = "ProviderError"
      BY <1>5, <1>8 DEF replay, find_by_reference
    <2> QED
      BY <1>1, <1>2, <1>8, <2>1 DEF Owned, MayReturn, Result
  <1>9. CASE said # "text" /\ heard(said) \in {"error", "unknown", "page"}
    <2>1. outcome(stage, heard(said)) = "ReconciliationUnknown"
      BY <1>5, <1>9 DEF replay, find_by_reference
    <2> QED
      BY <1>1, <1>2, <1>9, <2>1 DEF Owned, MayReturn, Result
  <1> QED
    BY <1>4, <1>6, <1>7, <1>8, <1>9

LEMMA ConclusionIsHonest ==
  ASSUME IInv, stage # "start", NEW said, Hearing(said), ~GoesOn(said)
  PROVE  /\ outcome(stage, heard(said)) \in Result \ {"none"}
         /\ doubt(said) \in {"no", "write", "text"}
         /\ MayReturn(Owned(outcome(stage, heard(said)), doubt(said)))
  <1>1. /\ stage \in {"handshake", "first", "lookup"}
        /\ call.op \in {"is_settled", "execute", "reconcile"}
    BY DEF IInv, Typed, InProgress, Operation
  <1>2. CASE stage = "handshake"
    BY <1>2, HandshakeFails
  <1>3. CASE stage = "lookup"
    BY <1>3, LookupConcludes
  <1>4. CASE stage = "first" /\ call.op = "is_settled"
    BY <1>4, ReadConcludes
  <1>5. CASE stage = "first" /\ call.op = "reconcile"
    BY <1>5, ReconcileConcludes
  <1>6. CASE stage = "first" /\ call.op = "execute"
    BY <1>6, WriteConcludes
  <1> QED
    BY <1>1, <1>2, <1>3, <1>4, <1>5, <1>6

\* A request that meets a broken pipe, at either stage it can be made for.
LEMMA BrokenPipeIsHonest ==
  ASSUME IInv, call.op # "none", NEW at \in {"first", "lookup"},
         at = "lookup" => call.op = "execute"
  PROVE  /\ outcome(at, call_raises("broken")) \in Result \ {"none"}
         /\ MayReturn(Owned(outcome(at, call_raises("broken")), "no"))
  <1> DEFINE r == outcome(at, call_raises("broken"))
  <1> SUFFICES r \in Result \ {"none"} /\ MayReturn(Owned(r, "no"))
    OBVIOUS
  <1>1. call.op \in {"is_settled", "execute", "reconcile"}
    BY DEF IInv, Typed, Operation
  <1>2. call_raises("broken") = "unknown"
    BY DEF call_raises
  <1>3. CASE call.op = "is_settled"
    <2>1. r = "SettlementUnknown"
      BY <1>2, <1>3 DEF outcome, is_settled
    <2> HIDE DEF r
    <2> QED
      BY <1>3, <2>1 DEF Owned, MayReturn, Result
  <1>4. CASE call.op = "execute"
    <2>1. r \in {"UnknownOutcome", "ReconciliationUnknown"}
      BY <1>2, <1>4 DEF outcome, execute, replay, find_by_reference
    <2> HIDE DEF r
    <2> QED
      BY <1>4, <2>1 DEF Owned, MayReturn, Result
  <1>5. CASE call.op = "reconcile"
    <2>1. r = "ReconciliationUnknown"
      BY <1>2, <1>5 DEF outcome, reconcile, find_by_reference
    <2> HIDE DEF r
    <2> QED
      BY <1>5, <2>1 DEF Owned, MayReturn, Result
  <1> QED
    BY <1>1, <1>3, <1>4, <1>5

\* Every step of a call posts a request of its own, or returns what it may.
Posting ==
  /\ call.op # "none" /\ NoWrite
  /\ \E at \in {"handshake", "first", "lookup"} :
       Posted(at) /\ (at = "lookup" => call.op = "execute")

Returning ==
  /\ call.op # "none"
  /\ \E r \in Result \ {"none"}, why \in {"no", "write", "text"} :
       Returns(r, why) /\ MayReturn(Owned(r, why))

LEMMA RequestsIs ==
  ASSUME IInv, call.op # "none", NoWrite, NEW at \in {"first", "lookup"},
         stage # "lookup", at = "lookup" => call.op = "execute", Requests(at)
  PROVE  Posting \/ Returning
  <1> DEFINE r == outcome(at, call_raises("broken"))
  <1>1. CASE Returns(r, "no")
    <2>1. r \in Result \ {"none"} /\ MayReturn(Owned(r, "no"))
      BY BrokenPipeIsHonest
    <2> HIDE DEF r
    <2> QED
      BY <1>1, <2>1 DEF Returning
  <1>2. CASE Posted(at)
    BY <1>2 DEF Posting
  <1> QED
    BY <1>1, <1>2 DEF Requests, Posted

LEMMA ConcludesIs ==
  ASSUME IInv, stage # "start", NEW said, Hearing(said), Concludes(said)
  PROVE  Posting \/ Returning
  <1>1. call.op # "none" /\ stage \in {"handshake", "first", "lookup"}
    BY DEF IInv, InProgress, Typed
  <1>2. CASE stage = "handshake" /\ said = "ready"
    <2>1. Requests("first")
      BY <1>2 DEF Concludes
    <2>2. NoWrite
      BY <1>1, <1>2, NoWriteIsKnown
    <2> QED
      BY <1>1, <1>2, <2>1, <2>2, RequestsIs
  <1>3. CASE stage = "first" /\ tool(stage) = "create" /\ said = "reference"
    <2>1. Requests("lookup")
      BY <1>3 DEF Concludes
    <2>2. NoWrite
      BY <1>3 DEF Hearing, Truthful
    <2>3. call.op = "execute"
      BY <1>1, <1>3 DEF tool, IInv, Typed, Operation
    <2> QED
      BY <1>1, <1>3, <2>1, <2>2, <2>3, RequestsIs
  <1>4. CASE ~GoesOn(said)
    <2>1. Returns(outcome(stage, heard(said)), doubt(said))
      BY <1>4 DEF Concludes, GoesOn
    <2> QED
      BY <1>1, <1>4, <2>1, ConclusionIsHonest DEF Returning
  <1> QED
    BY <1>2, <1>3, <1>4 DEF GoesOn

LEMMA ProceedsIs ==
  ASSUME IInv, Proceeds
  PROVE  McpSkips \/ (Receives /\ (Posting \/ Returning))
  <1>1. CASE NotLive
    <2> DEFINE r == IF call.key.intervention \in RETRY_INTERVENTIONS
                    THEN "ProviderError" ELSE "noaction"
    <2>1. NoWrite
      BY <1>1, NoWriteIsKnown DEF NotLive
    <2>2. Returns(r, "no") /\ r \in Result \ {"none"} /\ call.op = "execute"
      BY <1>1 DEF NotLive, Result
    <2>3. MayReturn(Owned(r, "no"))
      BY <2>1, <2>2 DEF MayReturn, Owned
    <2>4. Receives
      BY <1>1, QuietReceives DEF NotLive
    <2> HIDE DEF r
    <2> QED
      BY <2>2, <2>3, <2>4 DEF Returning
  <1>2. CASE Asks
    <2>1. NoWrite /\ call.op # "none" /\ stage = "start" /\ Requests("first")
      BY <1>2, NoWriteIsKnown DEF Asks
    <2>2. Receives
      BY <1>2, QuietReceives DEF Asks
    <2> QED
      BY <2>1, <2>2, RequestsIs
  <1>3. CASE Starts
    <2>1. NoWrite /\ call.op # "none"
      BY <1>3, NoWriteIsKnown DEF Starts
    <2>2. Receives
      BY <1>3, QuietReceives DEF Starts
    <2>3. Posted("handshake")
      BY <1>3 DEF Starts, Posted, tool
    <2> QED
      BY <2>1, <2>2, <2>3 DEF Posting
  <1>4. CASE RestAnswered
    <2>1. PICK a \in answers : a.id = waiting /\ answers' = answers \ {a} /\ Concludes(a.said)
      BY <1>4 DEF RestAnswered
    <2>2. waiting # 0 /\ stage # "start"
      BY <2>1 DEF IInv, Typed, InProgress
    <2>3. Hearing(a.said)
      BY <2>1, <2>2 DEF IInv, AnswersMatch, Incoming, Hearing
    <2>4. Receives
      BY <1>4, <2>1, QuietReceives DEF RestAnswered
    <2> QED
      BY <2>1, <2>2, <2>3, <2>4, ConcludesIs
  <1>5. CASE RestFails
    <2>1. PICK how \in {"timeout", "broken", "5xx", "garbled"} : Concludes(how)
      BY <1>5 DEF RestFails
    <2>2. stage # "start" /\ Hearing(how)
      BY <1>5, <2>1 DEF RestFails, IInv, InProgress, Hearing
    <2>3. Receives
      BY <1>5, QuietReceives DEF RestFails
    <2> QED
      BY <2>1, <2>2, <2>3, ConcludesIs
  <1>6. CASE McpAnswered
    <2>1. PICK said \in Said : Hears(said) /\ Concludes(said)
      BY <1>6 DEF McpAnswered
    <2>2. Receives /\ Line \in Incoming
      BY <1>6, <2>1, ReadReceives DEF McpAnswered, Hears
    <2>3. Line.id = waiting /\ waiting # 0 /\ said = Line.said
      BY <2>1 DEF Hears, Mine
    <2>4. stage # "start" /\ Hearing(said)
      BY <2>2, <2>3 DEF IInv, InProgress, AnswersMatch, Hearing
    <2> QED
      BY <2>1, <2>2, <2>4, ConcludesIs
  <1>7. CASE McpFails
    <2>1. PICK said \in {"timeout", "closed"} : waiting # 0 /\ Concludes(said)
      BY <1>7 DEF McpFails, Closed, TimesOut
    <2>2. stage # "start" /\ Hearing(said)
      BY <1>7, <2>1 DEF McpFails, IInv, InProgress, Hearing
    <2>3. Receives
      BY <1>7, QuietReceives DEF McpFails
    <2> QED
      BY <2>1, <2>2, <2>3, ConcludesIs
  <1> QED
    BY <1>1, <1>2, <1>3, <1>4, <1>5, <1>6, <1>7 DEF Proceeds

LEMMA NextInv ==
  ASSUME IInv, [Next]_vars
  PROVE  IInv'
  <1>1. CASE \E op \in Operation, key \in Keys : Begin(op, key)
    BY <1>1, BeginInv
  <1>2. CASE Proceeds
    <2>1. CASE McpSkips
      BY <2>1, EnvironmentInv
    <2>2. CASE Receives /\ Posting
      BY <2>2, PostedInv DEF Posting
    <2>3. CASE Receives /\ Returning
      BY <2>3, ReturnedInv DEF Returning
    <2> QED
      BY <1>2, <2>1, <2>2, <2>3, ProceedsIs
  <1>3. CASE \E r \in requests : Deals(r) \/ Refuses(r) \/ Relays(r) \/ Loses(r)
    BY <1>3, ProviderInv, RelaysInv
  <1>4. CASE Pay
    BY <1>4, PayInv
  <1>5. CASE Late \/ Speaks \/ Server
    BY <1>5, EnvironmentInv
  <1>6. CASE UNCHANGED vars
    <2>1. Receives
      BY <1>6, QuietReceives DEF vars, client
    <2> QED
      BY <1>6, <2>1, TransportInv DEF vars, client, IInv, Typed
  <1> QED
    BY <1>1, <1>2, <1>3, <1>4, <1>5, <1>6 DEF Next

LEMMA Invariance == Spec => []IInv
  BY InitInv, NextInv, PTL DEF Spec

----------------------------------------------------------------------------------
(* The theorems.                                                           *)

\* Whatever is late, lost, noise or dead, the state of the backend and the pipe is
\* well formed: ids are never ahead of the counter, and a call waits for an answer
\* exactly while a request of its own is out.
THEOREM TypeCorrect == Spec => []TypeOK
  <1>1. ASSUME IInv PROVE TypeOK
    <2> USE DEF IInv
    <2>1. ClientTypeOK
      <3>1. ASSUME NEW i \in 1..Len(buffer \o pipe)
            PROVE  (buffer \o pipe)[i].id \in 0..nextId
        <4>1. (buffer \o pipe)[i] \in Elements(buffer \o pipe)
          BY DEF Elements
        <4>2. (buffer \o pipe)[i] \in Incoming
          BY <1>1, <4>1, ConcatElements DEF Typed, Incoming
        <4> QED
          BY <1>1, <4>2, IncomingIds DEF AnswersMatch, Typed
      <3> QED
        BY <1>1, <3>1 DEF ClientTypeOK, Typed
    <2>2. \A a \in answers : a.id \in 1..nextId /\ a.said \in Said
      BY <1>1 DEF Typed, AnswersMatch, Incoming
    <2>3. \A r \in requests : r.id \in 0..nextId /\ r.call \in 1..call.number /\ r.key \in Keys
      BY <1>1 DEF Typed, RequestsMatch, Request
    <2>4. waiting # 0 <=> stage # "start"
      BY <1>1 DEF InProgress
    <2> QED
      BY <1>1, <2>1, <2>2, <2>3, <2>4 DEF TypeOK, Typed
  <1> QED
    BY <1>1, Invariance, PTL

\* razorpay_mcp.py:126, razorpay_rest.py:182: a call that returns an executed action
\* returns one whose link exists, whatever answers of other requests, late lines
\* and repeated keys reached the client before its own.
THEOREM ExecutedIsLanded == Spec => []ExecutedMeansLanded
  <1>1. IInv => ExecutedMeansLanded
    BY DEF IInv, Concluded, ExecutedMeansLanded
  <1> QED
    BY <1>1, Invariance, PTL

\* razorpay_rest.py:88-93: a ProviderError that was understood says that the write
\* of that call did not take effect, and never will: none is left on its way.
THEOREM RefusedIsNothing == Spec => []RefusedMeansNothing
  <1>1. IInv => RefusedMeansNothing
    BY DEF IInv, Concluded, RefusedMeansNothing
  <1> QED
    BY <1>1, Invariance, PTL

----------------------------------------------------------------------------------
(* The backends implement Backend.tla.                                     *)

Write(r) == [call |-> r.call, key |-> r.key]

\* The writes that may still take effect, as the contract sees them.
Pending == {Write(r) : r \in {q \in requests : q.tool = "create"}}

\* What does not touch the writes under way nor what the contract can see.
LEMMA ContractStutters ==
  ASSUME Pending' = Pending, UNCHANGED <<effects, settled, performed, call, before, result, unread>>
  PROVE  UNCHANGED Contract!vars
  BY DEF Contract!vars, Pending, Write, Honest

\* Of two requests to write, none stands for the other.
LEMMA WriteIsServed ==
  ASSUME IInv, NEW r \in requests, requests' = requests \ {r}
  PROVE  /\ r.tool = "create" => Pending' = Pending \ {Write(r)} /\ Write(r) \in Pending
         /\ Pending' \subseteq Pending
  <1>1. ASSUME r.tool = "create", NEW q \in requests \ {r}, q.tool = "create"
        PROVE  Write(q) # Write(r)
    <2>1. q.call # r.call
      BY <1>1 DEF IInv, WritesOnce
    <2> QED
      BY <2>1 DEF Write
  <1> QED
    BY <1>1 DEF Pending

LEMMA ContractServed ==
  ASSUME IInv, NEW r \in requests, Deals(r) \/ Refuses(r) \/ Loses(r)
  PROVE  [Contract!Next]_(Contract!vars)
  <1>1. /\ requests' = requests \ {r}
        /\ UNCHANGED <<settled, call, before, result, unread>>
    BY DEF Deals, Refuses, Loses, progress, world, history
  <1>2. CASE UNCHANGED <<effects, performed>>
    <2>1. Pending' \in SUBSET Pending
      BY <1>1, WriteIsServed
    <2>2. Contract!Lose
      BY <1>1, <1>2, <2>1 DEF Contract!Lose, Pending, Write, Honest
    <2> QED
      BY <2>2 DEF Contract!Next
  <1>3. CASE /\ r.tool = "create" /\ r.key \notin effects
             /\ effects' = effects \union {r.key} /\ performed' = performed \union {r.call}
    <2> DEFINE w == Write(r)
    <2>1. w.key = r.key /\ w.call = r.call
      BY DEF Write
    <2>2. w \in Pending /\ Pending' = Pending \ {w}
      BY <1>1, <1>3, WriteIsServed
    <2> HIDE DEF w
    <2>3. Contract!Perform(w)
      BY <1>1, <1>3, <2>1, <2>2 DEF Contract!Perform, Pending, Write, Honest
    <2> QED
      BY <2>2, <2>3 DEF Contract!Next, Pending, Write
  <1>4. \/ UNCHANGED <<effects, performed>>
        \/ /\ r.tool = "create" /\ r.key \notin effects
           /\ effects' = effects \union {r.key} /\ performed' = performed \union {r.call}
    <2>1. CASE Refuses(r) \/ Loses(r)
      BY <2>1 DEF Refuses, Loses, world, history
    <2>2. CASE Deals(r)
      <3>1. PICK said \in Answer(r) :
              IF r.tool = "create" /\ said = "link"
              THEN effects' = effects \union {r.key} /\ performed' = performed \union {r.call}
              ELSE UNCHANGED <<effects, performed>>
        BY <2>2 DEF Deals
      <3>2. r.tool = "create" => said = IF r.key \in effects THEN "reference" ELSE "link"
        BY DEF Answer
      <3> QED
        BY <3>1, <3>2
    <2> QED
      BY <2>1, <2>2
  <1> QED
    BY <1>2, <1>3, <1>4

LEMMA ContractRelayed ==
  ASSUME IInv, NEW r \in requests, Relays(r)
  PROVE  [Contract!Next]_(Contract!vars)
  <1> DEFINE q == [r EXCEPT !.id = 0]
  <1>1. /\ r.tool = "create" /\ requests' = (requests \ {r}) \union {q}
        /\ UNCHANGED <<effects, settled, performed, call, before, result, unread>>
    BY DEF Relays, progress, world, history
  <1>2. q.tool = r.tool /\ Write(q) = Write(r)
    BY DEF IInv, Typed, Request, Write
  <1> HIDE DEF q
  <1>3. Pending' = Pending
    BY <1>1, <1>2 DEF Pending, Write
  <1> QED
    BY <1>1, <1>3, ContractStutters

LEMMA ContractPosted ==
  ASSUME IInv, Posting
  PROVE  [Contract!Next]_(Contract!vars)
  <1>1. PICK at \in {"handshake", "first", "lookup"} : Posted(at)
    BY DEF Posting
  <1> DEFINE q == [id |-> nextId', tool |-> tool(at), call |-> call.number, key |-> call.key]
  <1>2. /\ requests' = requests \union {q}
        /\ UNCHANGED <<effects, settled, performed, call, before, result, unread>>
    BY <1>1 DEF Posted, world, history
  <1>3. q.tool = tool(at) /\ Write(q) = [call |-> call.number, key |-> call.key]
    BY DEF Write
  <1> HIDE DEF q
  <1>4. CASE tool(at) = "create"
    <2>1. call.op = "execute"
      BY <1>4 DEF tool, Posting, IInv, Typed, Operation
    <2>2. Pending' = Pending \union {[call |-> call.number, key |-> call.key]}
      BY <1>2, <1>3, <1>4 DEF Pending
    <2>3. Contract!Write
      BY <1>2, <2>1, <2>2 DEF Contract!Write, Pending, Write, Honest
    <2> QED
      BY <2>3 DEF Contract!Next
  <1>5. CASE tool(at) # "create"
    <2>1. Pending' = Pending
      BY <1>2, <1>3, <1>5 DEF Pending
    <2> QED
      BY <1>2, <2>1, ContractStutters
  <1> QED
    BY <1>4, <1>5

LEMMA ContractReturned ==
  ASSUME IInv, Returning
  PROVE  [Contract!Next]_(Contract!vars)
  <1>1. PICK r \in Result \ {"none"}, why \in {"no", "write", "text"} :
          Returns(r, why) /\ MayReturn(Owned(r, why))
    BY DEF Returning
  <1>2. /\ call' = [call EXCEPT !.op = "none"] /\ result' = r /\ unread' = why
        /\ UNCHANGED <<requests, effects, settled, performed, before>>
    BY <1>1 DEF Returns, world
  <1>3. Honest' = Owned(r, why)
    BY <1>2 DEF Honest, Owned
  <1>4. call.op \in {"is_settled", "execute", "reconcile"}
    BY DEF Returning, IInv, Typed, Operation
  <1>5. NoWrite => \A w \in Pending : w.call # call.number
    BY DEF NoWrite, Pending, Write
  <1>6. CASE call.op = "is_settled"
    <2>1. Contract!MayAnswer_is_settled(Honest')
      BY <1>1, <1>3, <1>6 DEF MayReturn, Contract!MayAnswer_is_settled
    <2> QED
      BY <1>2, <1>6, <2>1 DEF Contract!Return, Contract!Next
  <1>7. CASE call.op = "execute"
    <2>1. Contract!MayAnswer_execute(Honest')
      BY <1>1, <1>3, <1>5, <1>7
      DEF MayReturn, NoWrite, Contract!MayAnswer_execute, Pending, Write
    <2> QED
      BY <1>2, <1>7, <2>1 DEF Contract!Return, Contract!Next
  <1>8. CASE call.op = "reconcile"
    <2>1. Contract!MayAnswer_reconcile(Honest')
      BY <1>1, <1>3, <1>8 DEF MayReturn, Contract!MayAnswer_reconcile
    <2> QED
      BY <1>2, <1>8, <2>1 DEF Contract!Return, Contract!Next
  <1> QED
    BY <1>4, <1>6, <1>7, <1>8

LEMMA ContractStep ==
  ASSUME IInv, [Next]_vars
  PROVE  [Contract!Next]_(Contract!vars)
  <1>1. ASSUME NEW op \in Operation, NEW key \in Keys, Begin(op, key)
        PROVE  [Contract!Next]_(Contract!vars)
    <2>1. Contract!Begin(op, key)
      BY <1>1 DEF Begin, world, Contract!Begin, Honest
    <2> QED
      BY <2>1 DEF Contract!Next, Contract!Operation, Operation
  <1>2. CASE Posting
    BY <1>2, ContractPosted
  <1>3. CASE Returning
    BY <1>3, ContractReturned
  <1>4. CASE \E r \in requests : Deals(r) \/ Refuses(r) \/ Relays(r) \/ Loses(r)
    BY <1>4, ContractServed, ContractRelayed
  <1>5. CASE Pay
    <2>1. Contract!Pay
      BY <1>5 DEF Pay, progress, history, Contract!Pay, Honest
    <2> QED
      BY <2>1 DEF Contract!Next
  <1>6. CASE Late \/ Speaks \/ Server \/ McpSkips \/ UNCHANGED vars
    <2>1. UNCHANGED <<requests, effects, settled, performed, call, before, result, unread>>
      BY <1>6 DEF Late, Speaks, Server, McpSkips, vars, progress, world, history
    <2>2. Pending' = Pending
      BY <2>1 DEF Pending
    <2> QED
      BY <2>1, <2>2, ContractStutters
  <1> QED
    BY <1>1, <1>2, <1>3, <1>4, <1>5, <1>6, ProceedsIs DEF Next

\* REST and MCP alike keep the contract of backend.py: what they answer or raise is
\* true of what happened at the provider, as long as a failed write is one the code
\* knows to be ambiguous and answers are JSON; where not, the call owes the
\* exception that says so.
THEOREM ImplementsContract == Spec => ContractSpec
  <1>1. Init => Contract!Init
    BY DEF Init, Contract!Init, Honest
  <1>2. IInv /\ [Next]_vars => [Contract!Next]_(Contract!vars)
    BY ContractStep
  <1> QED
    BY <1>1, <1>2, Invariance, PTL DEF Spec, ContractSpec, Contract!Spec
==================================================================================
