------------------------------- MODULE WarmerProofs ------------------------------
(***************************************************************************)
(* Theorems about Warmer.tla, for every number of cases, threads, outages  *)
(* and kills and every flush interval: type correctness, what a kill can   *)
(* cost, what is on disk when the warmer has finished, and how many cases  *)
(* a hiccup of the provider can cost.                                      *)
(***************************************************************************)
EXTENDS Warmer, FiniteSetTheorems, TLAPS

----------------------------------------------------------------------------------
(* The inductive invariant.                                                *)

\* Who is busy with a case, on the way to a snapshot, and waiting for an answer that
\* is sure to come.
Busy     == {w \in Thread : pc[w] \in {"ask", "open", "calling", "put"}}
Flushers == {w \in Thread : pc[w] \in {"flush", "snapshot"}}
Callers(d) == {w \in Thread : pc[w] = "calling" /\ w \notin doomed /\ DiagnoserOf(w) = d}

Cases == 0..(Tasks - 1)

States ==
  {"idle", "ask", "open", "calling", "put", "flush", "snapshot", "write", "finished"}

Typed ==
  /\ next \in 0..Tasks
  /\ pc \in [0..Workers -> States] /\ task \in [0..Workers -> Cases]
  /\ snap \in [0..Workers -> SUBSET Cases] /\ doomed \in SUBSET Thread
  /\ breaker \in [Diagnoser -> Breaker]
  /\ data \in SUBSET Cases /\ file \in SUBSET Cases
  /\ dirty \in BOOLEAN /\ since \in Nat
  /\ up \in BOOLEAN /\ behind \in BOOLEAN
  /\ outages \in 0..MaxOutages /\ kills \in 0..MaxKills
  /\ missed \in [Diagnoser -> Nat]

\* Every put since the last snapshot was of a case of its own.
OneCaseEach == since + Cardinality(Busy) <= next

\* Main flushes when every thread is done, and what it takes is all there is.
MainIsLast ==
  /\ \A w \in Thread : pc[w] # "finished"
  /\ pc[0] \notin {"ask", "open", "calling", "put"}
  /\ pc[0] # "idle" => next = Tasks /\ \A w \in Thread : pc[w] = "idle"
  /\ pc[0] = "write" => snap[0] = data
  /\ InOrder /\ pc[0] = "finished" => file = data

\* In order, memory is ahead of what is stored, on disk or by a thread that is still
\* writing, by what was put since the last snapshot and by a flush's worth for each newer
\* snapshot in flight.
Newer(s) == {w \in Writing : ~(snap[w] \subseteq s)}

Kept(s) == Cardinality(data \ s) <= since + Cardinality(Newer(s)) * Worth

Stored ==
  {s \in SUBSET Cases : file \subseteq s /\ (s = file \/ \E w \in Writing : s = snap[w])}

SnapshotsKeepUp ==
  /\ file \subseteq data /\ \A w \in Writing : snap[w] \subseteq data
  /\ InOrder => \A s \in Stored : Kept(s)

\* A flush is due every so many, and whoever owes one is on the way.
FlushesAreDue ==
  /\ since <= AutoflushEvery - 1 + Cardinality(Flushers)
  /\ ~dirty => since = 0

\* While the provider answers, a breaker that is not closed owes every round of
\* skips to a thread whose probe has not come back.
ProbesAreOut ==
  \A d \in Diagnoser :
    /\ missed[d] <= Workers * (ProbeAfterSkips - 1)
    /\ up /\ breaker[d].opened # "no" =>
         missed[d] <= Cardinality(Callers(d)) * (ProbeAfterSkips - 1) + breaker[d].skipped

IInv ==
  Typed /\ OneCaseEach /\ MainIsLast /\ SnapshotsKeepUp /\ FlushesAreDue /\ ProbesAreOut

----------------------------------------------------------------------------------
(* Threads and their moves.                                                *)

LEMMA Threads ==
  /\ Workers \in Nat /\ Workers # 0 /\ Tasks \in Nat /\ Tasks # 0
  /\ AutoflushEvery \in Nat /\ AutoflushEvery # 0
  /\ ProbeAfterSkips \in Nat /\ ProbeAfterSkips # 0 /\ Threshold \in Nat /\ Threshold # 0
  /\ MaxOutages \in Nat /\ MaxKills \in Nat
  /\ Thread \subseteq 0..Workers /\ 0 \in 0..Workers /\ 0 \notin Thread
  /\ IsFiniteSet(Thread) /\ Cardinality(Thread) = Workers
  /\ IsFiniteSet(Cases)
  <1>1. /\ Workers \in Nat /\ Workers # 0 /\ Tasks \in Nat /\ Tasks # 0
        /\ AutoflushEvery \in Nat /\ AutoflushEvery # 0
        /\ ProbeAfterSkips \in Nat /\ ProbeAfterSkips # 0 /\ Threshold \in Nat /\ Threshold # 0
        /\ MaxOutages \in Nat /\ MaxKills \in Nat
    BY WarmerAssumption, BreakerAssumption
  <1>2. Thread \subseteq 0..Workers /\ 0 \in 0..Workers /\ 0 \notin Thread
    BY <1>1 DEF Thread
  <1>3. IsFiniteSet(Thread) /\ Cardinality(Thread) = Workers
    BY <1>1, FS_Interval DEF Thread
  <1>4. IsFiniteSet(Cases)
    BY <1>1, FS_Interval DEF Cases
  <1> QED
    BY <1>1, <1>2, <1>3, <1>4

LEMMA SomeThreads ==
  ASSUME NEW S \in SUBSET Thread
  PROVE  IsFiniteSet(S) /\ Cardinality(S) \in Nat /\ Cardinality(S) <= Workers
  BY Threads, FS_Subset, FS_CardinalityType

LEMMA Diagnosers ==
  ASSUME Typed, NEW w \in 0..Workers
  PROVE  DiagnoserOf(w) \in Diagnoser
  <1>1. task[w] \in Nat
    BY Threads DEF Typed, Cases
  <1> QED
    BY <1>1, Threads DEF DiagnoserOf, Diagnoser

LEMMA Moves ==
  ASSUME Typed, NEW w \in 0..Workers, NEW from, NEW to \in States, Go(w, from, to)
  PROVE  /\ pc' \in [0..Workers -> States] /\ task' \in [0..Workers -> Cases]
         /\ pc[w] = from /\ pc'[w] = to
         /\ \A v \in 0..Workers : v # w => pc'[v] = pc[v] /\ task'[v] = task[v]
         /\ to # "idle" => task' = task
         /\ doomed' \subseteq doomed \union {w}
         /\ w \in Thread \/ to # "calling" => doomed' \in SUBSET Thread
         /\ up \/ to # "calling" => doomed' = doomed \ {w}
  <1>1. 0 \in Cases
    BY Threads DEF Cases
  <1>2. /\ pc[w] = from /\ pc' = [pc EXCEPT ![w] = to]
        /\ task' = [task EXCEPT ![w] = IF to = "idle" THEN 0 ELSE task[w]]
    BY DEF Go
  <1>3. pc \in [0..Workers -> States] /\ task \in [0..Workers -> Cases]
    BY DEF Typed
  <1>4. pc' \in [0..Workers -> States] /\ task' \in [0..Workers -> Cases]
    BY <1>1, <1>2, <1>3
  <1>5. pc'[w] = to /\ \A v \in 0..Workers : v # w => pc'[v] = pc[v] /\ task'[v] = task[v]
    BY <1>2, <1>3
  <1>6. to # "idle" => task' = task
    BY <1>2, <1>3
  <1>7. /\ doomed' \subseteq doomed \union {w}
        /\ w \in Thread \/ to # "calling" => doomed' \in SUBSET Thread
        /\ up \/ to # "calling" => doomed' = doomed \ {w}
    BY DEF Go, Typed
  <1> QED
    BY <1>2, <1>4, <1>5, <1>6, <1>7

\* What so many flushes are worth.
LEMMA Multiples ==
  ASSUME NEW a \in Nat, NEW b \in Nat, NEW k \in Nat, a <= b
  PROVE  a * k \in Nat /\ a * k <= b * k /\ (a + 1) * k = a * k + k
  OBVIOUS

LEMMA SomeWriters ==
  ASSUME NEW S \in SUBSET (0..Workers)
  PROVE  /\ Worth \in Nat /\ IsFiniteSet(S) /\ Cardinality(S) \in Nat
         /\ Cardinality(S) * Worth \in Nat
         /\ (Cardinality(S) + 1) * Worth = Cardinality(S) * Worth + Worth
  <1>1. Worth \in Nat
    BY Threads DEF Worth
  <1>2. IsFiniteSet(S) /\ Cardinality(S) \in Nat
    <2>1. IsFiniteSet(0..Workers)
      BY Threads, FS_Interval
    <2> QED
      BY <2>1, FS_Subset, FS_CardinalityType
  <1> QED
    BY <1>1, <1>2, Multiples

----------------------------------------------------------------------------------
(* The circuit breaker.                                                    *)

LEMMA BreakerTyped ==
  /\ Closed \in Breaker
  /\ \A b \in Breaker : record_failure(b) \in Breaker
  /\ \A b \in Breaker : [b EXCEPT !.opened = "cooled"] \in Breaker
  <1>1. Closed \in Breaker
    BY Threads DEF Breaker, Closed
  <1>2. ASSUME NEW b \in Breaker PROVE record_failure(b) \in Breaker
    <2> DEFINE o == IF b.failures + 1 >= Threshold /\ b.opened = "no" THEN "yes" ELSE b.opened
    <2>1. b.failures + 1 \in Nat /\ o \in {"no", "yes", "cooled"}
      BY DEF Breaker
    <2>2. record_failure(b) = [[b EXCEPT !.failures = @ + 1] EXCEPT !.opened = o]
      BY DEF record_failure
    <2>3. record_failure(b) = [failures |-> b.failures + 1, opened |-> o, skipped |-> b.skipped]
      BY <2>2 DEF Breaker
    <2> QED
      BY <2>1, <2>3 DEF Breaker
  <1>3. \A b \in Breaker : [b EXCEPT !.opened = "cooled"] \in Breaker
    BY DEF Breaker
  <1> QED
    BY <1>1, <1>2, <1>3

\* What asking does to a breaker that is not closed: a skip is counted, a probe
\* starts the count again, and a cool-down closes it.
LEMMA Asking ==
  ASSUME NEW b \in Breaker, b.opened # "no"
  PROVE  /\ AfterAsking(b) \in Breaker
         /\ Skips(b) => /\ AfterAsking(b).skipped = b.skipped + 1
                        /\ b.skipped + 1 <= ProbeAfterSkips - 1
         /\ ~Skips(b) => \/ AfterAsking(b).opened = "no"
                         \/ /\ AfterAsking(b).skipped = 0
                            /\ b.skipped = ProbeAfterSkips - 1
  <1>1. CASE b.opened = "cooled"
    BY <1>1, BreakerTyped DEF AfterAsking, Skips, Closed
  <1>2. CASE b.opened = "yes" /\ b.skipped + 1 < ProbeAfterSkips
    <2>1. Skips(b)
      BY <1>2 DEF Skips
    <2>2. AfterAsking(b) = [b EXCEPT !.skipped = b.skipped + 1]
      BY <1>2, <2>1 DEF AfterAsking
    <2>3. b.skipped + 1 \in 0..(ProbeAfterSkips - 1)
      BY <1>2, Threads DEF Breaker
    <2> QED
      BY <2>1, <2>2, <2>3 DEF Breaker
  <1>3. CASE b.opened = "yes" /\ ~(b.skipped + 1 < ProbeAfterSkips)
    <2>1. ~Skips(b)
      BY <1>3 DEF Skips
    <2>2. AfterAsking(b) = [b EXCEPT !.skipped = 0]
      BY <1>3, <2>1 DEF AfterAsking
    <2>3. b.skipped = ProbeAfterSkips - 1 /\ 0 \in 0..(ProbeAfterSkips - 1)
      BY <1>3, Threads DEF Breaker
    <2> QED
      BY <2>1, <2>2, <2>3 DEF Breaker
  <1> QED
    BY <1>1, <1>2, <1>3 DEF Breaker

----------------------------------------------------------------------------------
(* Type correctness.                                                       *)

LEMMA InitTyped == Init => Typed
  <1> SUFFICES ASSUME Init PROVE Typed
    OBVIOUS
  <1>1. 0 \in 0..Tasks /\ 0 \in Cases /\ 0 \in 0..MaxOutages /\ 0 \in 0..MaxKills
    BY Threads DEF Cases
  <1>2. /\ Idle \in [0..Workers -> States] /\ First \in [0..Workers -> Cases]
        /\ Empty \in [0..Workers -> SUBSET Cases]
    BY <1>1 DEF Idle, First, Empty, States
  <1>3. New \in [Diagnoser -> Breaker] /\ None \in [Diagnoser -> Nat]
    BY BreakerTyped DEF New, None
  <1> QED
    BY <1>1, <1>2, <1>3 DEF Init, Typed

LEMMA WorkTyped ==
  ASSUME Typed, NEW w \in Thread, Work(w)
  PROVE  Typed'
  <1> DEFINE d == DiagnoserOf(w)
  <1>1. w \in 0..Workers /\ w # 0 /\ After(w) = "idle"
    BY Threads DEF After
  <1>2. d \in Diagnoser /\ breaker[d] \in Breaker
    BY <1>1, Diagnosers DEF Typed
  <1>3. {"idle", "ask", "open", "calling", "put", "flush", "snapshot", "write"} \subseteq States
    BY DEF States
  <1>4. task[w] \in Cases
    BY <1>1 DEF Typed
  <1>5. CASE Take(w)
    <2>1. next \in Cases /\ next + 1 \in 0..Tasks
      BY <1>5, Threads DEF Take, Typed, Cases
    <2>2. pc' \in [0..Workers -> States] /\ task' \in [0..Workers -> Cases]
      BY <1>1, <1>3, <1>5, <2>1 DEF Take, Typed
    <2>3. doomed' \in SUBSET Thread
      BY <1>5 DEF Take, Typed
    <2> QED
      BY <1>5, <2>1, <2>2, <2>3 DEF Take, Typed, cache, provider, history
  <1>6. CASE LookAtBreaker(w)
    <2>1. /\ pc' \in [0..Workers -> States] /\ task' \in [0..Workers -> Cases]
          /\ doomed' \in SUBSET Thread
      BY <1>1, <1>3, <1>6, Moves DEF LookAtBreaker
    <2> QED
      BY <1>6, <2>1 DEF LookAtBreaker, Typed, cache, provider, history
  <1>7. CASE AskBreaker(w)
    <2>1. /\ pc' \in [0..Workers -> States] /\ task' \in [0..Workers -> Cases]
          /\ doomed' \in SUBSET Thread
      BY <1>1, <1>3, <1>7, Moves DEF AskBreaker
    <2>2. breaker' \in [Diagnoser -> Breaker]
      BY <1>2, <1>7, Asking DEF AskBreaker, Typed
    <2>3. missed' \in [Diagnoser -> Nat]
      BY <1>2, <1>7 DEF AskBreaker, Typed
    <2> QED
      BY <1>7, <2>1, <2>2, <2>3 DEF AskBreaker, Typed, cache, provider
  <1>8. CASE BreakerClosed(w)
    <2>1. /\ pc' \in [0..Workers -> States] /\ task' \in [0..Workers -> Cases]
          /\ doomed' \in SUBSET Thread
      BY <1>1, <1>3, <1>8, Moves DEF BreakerClosed
    <2> QED
      BY <1>8, <2>1 DEF BreakerClosed, Typed, cache, provider, history
  <1>9. CASE Parsed(w)
    <2>1. /\ pc' \in [0..Workers -> States] /\ task' \in [0..Workers -> Cases]
          /\ doomed' \in SUBSET Thread
      BY <1>1, <1>3, <1>9, Moves DEF Parsed
    <2>2. breaker' \in [Diagnoser -> Breaker]
      BY <1>2, <1>9, BreakerTyped DEF Parsed, Typed
    <2> QED
      BY <1>9, <2>1, <2>2 DEF Parsed, Typed, cache, provider, history
  <1>10. CASE NoAnswer(w)
    <2>1. /\ pc' \in [0..Workers -> States] /\ task' \in [0..Workers -> Cases]
          /\ doomed' \in SUBSET Thread
      BY <1>1, <1>3, <1>10, Moves DEF NoAnswer
    <2>2. breaker' \in [Diagnoser -> Breaker] /\ missed' \in [Diagnoser -> Nat]
      <3>1. \/ /\ breaker' = [breaker EXCEPT ![d] = record_failure(breaker[d])]
               /\ missed' = [missed EXCEPT ![d] = 0]
            \/ breaker' = breaker /\ missed' = missed
        BY <1>10 DEF NoAnswer
      <3>2. record_failure(breaker[d]) \in Breaker
        BY <1>2, BreakerTyped
      <3> QED
        BY <1>2, <3>1, <3>2 DEF Typed
    <2> QED
      BY <1>10, <2>1, <2>2 DEF NoAnswer, Typed, cache, provider
  <1>11. CASE Put(w)
    <2>1. /\ pc' \in [0..Workers -> States] /\ task' \in [0..Workers -> Cases]
          /\ doomed' \in SUBSET Thread
      BY <1>1, <1>3, <1>11, Moves DEF Put
    <2>2. data' \in SUBSET Cases /\ dirty' \in BOOLEAN /\ since' \in Nat
      BY <1>4, <1>11 DEF Put, Typed
    <2> QED
      BY <1>11, <2>1, <2>2 DEF Put, Typed, provider, history
  <1>12. CASE NothingToFlush(w)
    <2>1. /\ pc' \in [0..Workers -> States] /\ task' \in [0..Workers -> Cases]
          /\ doomed' \in SUBSET Thread
      BY <1>1, <1>3, <1>12, Moves DEF NothingToFlush
    <2> QED
      BY <1>12, <2>1 DEF NothingToFlush, Typed, cache, provider, history
  <1>13. CASE SomethingToFlush(w)
    <2>1. /\ pc' \in [0..Workers -> States] /\ task' \in [0..Workers -> Cases]
          /\ doomed' \in SUBSET Thread
      BY <1>1, <1>3, <1>13, Moves DEF SomethingToFlush
    <2> QED
      BY <1>13, <2>1 DEF SomethingToFlush, Typed, cache, provider, history
  <1>14. CASE Snapshot(w)
    <2>1. /\ pc' \in [0..Workers -> States] /\ task' \in [0..Workers -> Cases]
          /\ doomed' \in SUBSET Thread
      BY <1>1, <1>3, <1>14, Moves DEF Snapshot
    <2>2. snap' \in [0..Workers -> SUBSET Cases] /\ dirty' \in BOOLEAN /\ since' \in Nat
      BY <1>1, <1>14 DEF Snapshot, Typed
    <2> QED
      BY <1>14, <2>1, <2>2 DEF Snapshot, Typed, provider, history
  <1>15. CASE Rename(w)
    <2>1. /\ pc' \in [0..Workers -> States] /\ task' \in [0..Workers -> Cases]
          /\ doomed' \in SUBSET Thread
      BY <1>1, <1>3, <1>15, Moves DEF Rename
    <2>2. /\ snap' \in [0..Workers -> SUBSET Cases] /\ file' \in SUBSET Cases
          /\ behind' \in BOOLEAN
      BY <1>1, <1>15 DEF Rename, Typed
    <2> QED
      BY <1>15, <2>1, <2>2 DEF Rename, Typed, cache, provider
  <1> QED
    BY <1>5, <1>6, <1>7, <1>8, <1>9, <1>10, <1>11, <1>12, <1>13, <1>14, <1>15 DEF Work

LEMMA MainTyped ==
  ASSUME Typed, Main
  PROVE  Typed'
  <1>1. 0 \in 0..Workers /\ After(0) = "finished"
    BY Threads DEF After
  <1>2. {"flush", "snapshot", "write", "finished"} \subseteq States
    BY DEF States
  <1>3. CASE FinalFlush
    <2>1. /\ pc' \in [0..Workers -> States] /\ task' \in [0..Workers -> Cases]
          /\ doomed' \in SUBSET Thread
      BY <1>1, <1>2, <1>3, Moves DEF FinalFlush
    <2> QED
      BY <1>3, <2>1 DEF FinalFlush, Typed, cache, provider, history
  <1>4. CASE NothingToFlush(0)
    <2>1. /\ pc' \in [0..Workers -> States] /\ task' \in [0..Workers -> Cases]
          /\ doomed' \in SUBSET Thread
      BY <1>1, <1>2, <1>4, Moves DEF NothingToFlush
    <2> QED
      BY <1>4, <2>1 DEF NothingToFlush, Typed, cache, provider, history
  <1>5. CASE SomethingToFlush(0)
    <2>1. /\ pc' \in [0..Workers -> States] /\ task' \in [0..Workers -> Cases]
          /\ doomed' \in SUBSET Thread
      BY <1>1, <1>2, <1>5, Moves DEF SomethingToFlush
    <2> QED
      BY <1>5, <2>1 DEF SomethingToFlush, Typed, cache, provider, history
  <1>6. CASE Snapshot(0)
    <2>1. /\ pc' \in [0..Workers -> States] /\ task' \in [0..Workers -> Cases]
          /\ doomed' \in SUBSET Thread
      BY <1>1, <1>2, <1>6, Moves DEF Snapshot
    <2>2. snap' \in [0..Workers -> SUBSET Cases] /\ dirty' \in BOOLEAN /\ since' \in Nat
      BY <1>1, <1>6 DEF Snapshot, Typed
    <2> QED
      BY <1>6, <2>1, <2>2 DEF Snapshot, Typed, provider, history
  <1>7. CASE Rename(0)
    <2>1. /\ pc' \in [0..Workers -> States] /\ task' \in [0..Workers -> Cases]
          /\ doomed' \in SUBSET Thread
      BY <1>1, <1>2, <1>7, Moves DEF Rename
    <2>2. /\ snap' \in [0..Workers -> SUBSET Cases] /\ file' \in SUBSET Cases
          /\ behind' \in BOOLEAN
      BY <1>1, <1>7 DEF Rename, Typed
    <2> QED
      BY <1>7, <2>1, <2>2 DEF Rename, Typed, cache, provider
  <1> QED
    BY <1>3, <1>4, <1>5, <1>6, <1>7 DEF Main

LEMMA NextTyped == Typed /\ [Next]_vars => Typed'
  <1> SUFFICES ASSUME Typed, [Next]_vars PROVE Typed'
    OBVIOUS
  <1>1. ASSUME NEW w \in 0..Workers, WriteFails(w) PROVE Typed'
    <2>1. After(w) \in States /\ After(w) # "calling"
      BY DEF After, States
    <2>2. /\ pc' \in [0..Workers -> States] /\ task' \in [0..Workers -> Cases]
          /\ doomed' \in SUBSET Thread
      BY <1>1, <2>1, Moves DEF WriteFails
    <2>3. snap' \in [0..Workers -> SUBSET Cases] /\ behind' \in BOOLEAN
      BY <1>1 DEF WriteFails, Typed
    <2> QED
      BY <1>1, <2>2, <2>3 DEF WriteFails, Typed, cache, provider
  <1>2. CASE ProviderComesUp
    <2>1. missed' \in [Diagnoser -> Nat] /\ up' \in BOOLEAN
      BY <1>2 DEF ProviderComesUp, None
    <2> QED
      BY <1>2, <2>1 DEF ProviderComesUp, Typed, pool, cache
  <1>3. CASE ProviderGoesDown
    <2>1. outages < MaxOutages /\ outages' = outages + 1 /\ up' = FALSE
      BY <1>3 DEF ProviderGoesDown
    <2>2. outages \in 0..MaxOutages /\ MaxOutages \in Nat
      BY Threads DEF Typed
    <2>3. outages' \in 0..MaxOutages
      BY <2>1, <2>2
    <2>4. doomed' \in SUBSET Thread
      BY <1>3 DEF ProviderGoesDown
    <2> QED
      BY <1>3, <2>1, <2>3, <2>4 DEF ProviderGoesDown, Typed, cache, history
  <1>4. ASSUME NEW d \in Diagnoser, CoolDown(d) PROVE Typed'
    <2>1. breaker' = [breaker EXCEPT ![d] = [breaker[d] EXCEPT !.opened = "cooled"]]
      BY <1>4 DEF CoolDown
    <2>2. breaker' \in [Diagnoser -> Breaker]
      BY <2>1, BreakerTyped DEF Typed
    <2> QED
      BY <1>4, <2>2 DEF CoolDown, Typed, pool, cache, provider, history
  <1>5. CASE Kill
    <2>1. 0 \in 0..Tasks /\ 0 \in Cases /\ kills' \in 0..MaxKills
      BY <1>5, Threads DEF Kill, Typed, Cases
    <2>2. /\ Idle \in [0..Workers -> States] /\ First \in [0..Workers -> Cases]
          /\ Empty \in [0..Workers -> SUBSET Cases]
      BY <2>1 DEF Idle, First, Empty, States
    <2>3. New \in [Diagnoser -> Breaker] /\ None \in [Diagnoser -> Nat]
      BY BreakerTyped DEF New, None
    <2> QED
      BY <1>5, <2>1, <2>2, <2>3 DEF Kill, Typed, provider
  <1>6. CASE UNCHANGED vars
    BY <1>6 DEF vars, pool, cache, provider, history, Typed
  <1> QED
    BY <1>1, <1>2, <1>3, <1>4, <1>5, <1>6, WorkTyped, MainTyped DEF Next

----------------------------------------------------------------------------------
(* A case for each put.                                                    *)

LEMMA InitOneCaseEach == Init => OneCaseEach
  <1> SUFFICES ASSUME Init PROVE OneCaseEach
    OBVIOUS
  <1>1. since = 0 /\ next = 0 /\ Busy = {}
    BY Threads DEF Init, Busy, Idle
  <1> QED
    BY <1>1, FS_EmptySet DEF OneCaseEach

LEMMA FewerBusy ==
  ASSUME Typed, OneCaseEach, Typed', Busy' \subseteq Busy,
         since' <= since, next' = next
  PROVE  OneCaseEach'
  <1>1. /\ IsFiniteSet(Busy) /\ Cardinality(Busy) \in Nat
        /\ Cardinality(Busy') \in Nat /\ Cardinality(Busy') <= Cardinality(Busy)
    <2>1. Busy \in SUBSET Thread
      BY DEF Busy
    <2>2. IsFiniteSet(Busy) /\ Cardinality(Busy) \in Nat
      BY <2>1, SomeThreads
    <2>3. IsFiniteSet(Busy') /\ Cardinality(Busy') <= Cardinality(Busy)
      BY <2>2, FS_Subset
    <2> QED
      BY <2>2, <2>3, FS_CardinalityType
  <1>2. since \in Nat /\ since' \in Nat /\ next \in Nat
    BY Threads DEF Typed
  <1> QED
    BY <1>1, <1>2 DEF OneCaseEach

LEMMA TakeOneCase ==
  ASSUME Typed, OneCaseEach, NEW w \in Thread, Take(w)
  PROVE  OneCaseEach'
  <1>1. next' = next + 1 /\ since' = since /\ since \in Nat /\ next \in Nat
    BY Threads DEF Take, cache, Typed
  <1>2. Busy' \subseteq Busy \union {w}
    BY Threads DEF Take, Busy, Typed
  <1>3. /\ IsFiniteSet(Busy) /\ Cardinality(Busy) \in Nat
        /\ Cardinality(Busy') \in Nat /\ Cardinality(Busy') <= Cardinality(Busy) + 1
    <2>1. Busy \in SUBSET Thread /\ Busy' \in SUBSET Thread
      BY DEF Busy, Thread
    <2>2. IsFiniteSet(Busy) /\ Cardinality(Busy) \in Nat
      BY <2>1, SomeThreads
    <2>3. IsFiniteSet(Busy \union {w}) /\ Cardinality(Busy \union {w}) <= Cardinality(Busy) + 1
      BY <2>2, FS_AddElement
    <2>4. IsFiniteSet(Busy') /\ Cardinality(Busy') <= Cardinality(Busy \union {w})
      BY <1>2, <2>3, FS_Subset
    <2>5. Cardinality(Busy') \in Nat /\ Cardinality(Busy \union {w}) \in Nat
      BY <2>3, <2>4, FS_CardinalityType
    <2> QED
      BY <2>2, <2>3, <2>4, <2>5
  <1> QED
    BY <1>1, <1>3 DEF OneCaseEach

LEMMA PutOneCase ==
  ASSUME Typed, OneCaseEach, NEW w \in Thread, Put(w)
  PROVE  OneCaseEach'
  <1>1. next' = next /\ since' = since + 1 /\ since \in Nat /\ next \in Nat
    BY Threads DEF Put, Typed
  <1>2. w \in Busy /\ Busy' \subseteq Busy \ {w}
    <2> DEFINE to == IF since + 1 >= AutoflushEvery THEN "flush" ELSE "idle"
    <2>1. Go(w, "put", to) /\ to \in {"flush", "idle"} /\ to \in States /\ w \in 0..Workers
      BY Threads DEF Put, States
    <2> HIDE DEF to
    <2>2. pc[w] = "put" /\ pc'[w] = to /\ \A v \in 0..Workers : v # w => pc'[v] = pc[v]
      BY <2>1, Moves
    <2> QED
      BY <2>1, <2>2, Threads DEF Busy, Thread
  <1>3. /\ Cardinality(Busy) \in Nat /\ Cardinality(Busy') \in Nat
        /\ Cardinality(Busy') <= Cardinality(Busy) - 1
    <2>1. Busy \in SUBSET Thread
      BY DEF Busy
    <2>2. IsFiniteSet(Busy) /\ Cardinality(Busy) \in Nat
      BY <2>1, SomeThreads
    <2>3. IsFiniteSet(Busy \ {w}) /\ Cardinality(Busy \ {w}) = Cardinality(Busy) - 1
      BY <1>2, <2>2, FS_RemoveElement
    <2>4. IsFiniteSet(Busy') /\ Cardinality(Busy') <= Cardinality(Busy \ {w})
      BY <1>2, <2>3, FS_Subset
    <2> QED
      BY <2>2, <2>3, <2>4, FS_CardinalityType
  <1> QED
    BY <1>1, <1>3 DEF OneCaseEach

\* A thread that is not given a case does not become busy with one.
LEMMA NoneBusier ==
  ASSUME Typed, NEW w \in 0..Workers, NEW from, NEW to \in States, Go(w, from, to),
         to \in {"ask", "open", "calling", "put"} => from \in {"ask", "open", "calling", "put"}
  PROVE  Busy' \subseteq Busy
  <1>1. pc[w] = from /\ pc'[w] = to /\ \A v \in 0..Workers : v # w => pc'[v] = pc[v]
    BY Moves
  <1> QED
    BY <1>1, Threads DEF Busy, Thread

LEMMA NextOneCaseEach == Typed /\ OneCaseEach /\ [Next]_vars => OneCaseEach'
  <1> SUFFICES ASSUME Typed, OneCaseEach, [Next]_vars PROVE OneCaseEach'
    OBVIOUS
  <1>1. Typed' /\ since \in Nat
    BY NextTyped DEF Typed
  <1>2. States = {"idle", "ask", "open", "calling", "put", "flush", "snapshot", "write",
                  "finished"}
    BY DEF States
  <1>3. ASSUME NEW w \in 0..Workers,
               LookAtBreaker(w) \/ AskBreaker(w) \/ BreakerClosed(w) \/ Parsed(w) \/ NoAnswer(w)
        PROVE  OneCaseEach'
    <2>1. next' = next /\ since' = since
      BY <1>3 DEF LookAtBreaker, AskBreaker, BreakerClosed, Parsed, NoAnswer, cache
    <2>2. PICK from \in {"ask", "open", "calling"}, to \in {"calling", "open", "idle", "put"} :
            Go(w, from, to)
      BY <1>3 DEF LookAtBreaker, AskBreaker, BreakerClosed, Parsed, NoAnswer
    <2>3. Busy' \subseteq Busy
      BY <1>2, <2>2, NoneBusier
    <2> QED
      BY <1>1, <2>1, <2>3, FewerBusy
  <1>4. ASSUME NEW w \in 0..Workers,
               NothingToFlush(w) \/ SomethingToFlush(w) \/ Snapshot(w) \/ Rename(w) \/ WriteFails(w)
        PROVE  OneCaseEach'
    <2>1. next' = next /\ since' <= since
      BY <1>1, <1>4
      DEF NothingToFlush, SomethingToFlush, Snapshot, Rename, WriteFails, cache
    <2>2. PICK from \in {"flush", "snapshot", "write"},
               to \in {"finished", "idle", "snapshot", "write"} : Go(w, from, to)
      BY <1>4 DEF NothingToFlush, SomethingToFlush, Snapshot, Rename, WriteFails, After
    <2>3. Busy' \subseteq Busy
      BY <1>2, <2>2, NoneBusier
    <2> QED
      BY <1>1, <2>1, <2>3, FewerBusy
  <1>5. CASE FinalFlush
    <2>1. next' = next /\ since' = since /\ Go(0, "idle", "flush")
      BY <1>5 DEF FinalFlush, cache
    <2>2. Busy' \subseteq Busy
      BY <1>2, <2>1, NoneBusier, Threads
    <2> QED
      BY <1>1, <2>1, <2>2, FewerBusy
  <1>6. CASE ProviderComesUp \/ ProviderGoesDown \/ (\E d \in Diagnoser : CoolDown(d))
               \/ UNCHANGED vars
    <2>1. next' = next /\ since' = since /\ pc' = pc
      BY <1>6 DEF ProviderComesUp, ProviderGoesDown, CoolDown, vars, pool, cache
    <2>2. Busy' \subseteq Busy
      BY <2>1 DEF Busy
    <2> QED
      BY <1>1, <2>1, <2>2, FewerBusy
  <1>7. CASE Kill
    <2>1. since' = 0 /\ next' = 0 /\ Busy' = {}
      BY <1>7, Threads DEF Kill, Busy, Idle
    <2> QED
      BY <2>1, FS_EmptySet DEF OneCaseEach
  <1>8. ASSUME NEW w \in Thread, Work(w) PROVE OneCaseEach'
    <2>1. w \in 0..Workers
      BY Threads
    <2> QED
      BY <1>3, <1>4, <1>8, <2>1, TakeOneCase, PutOneCase DEF Work
  <1>9. CASE Main
    BY <1>4, <1>5, <1>9, Threads DEF Main
  <1> QED
    BY <1>4, <1>6, <1>7, <1>8, <1>9 DEF Next

----------------------------------------------------------------------------------
(* Main comes last.                                                        *)

LEMMA InitMainIsLast == Init => MainIsLast
  <1> SUFFICES ASSUME Init PROVE MainIsLast
    OBVIOUS
  <1>1. \A w \in 0..Workers : pc[w] = "idle"
    BY DEF Init, Idle
  <1> QED
    BY <1>1, Threads DEF MainIsLast

\* Once main has started to flush, no thread has anything left to do.
LEMMA WorkIsDone ==
  ASSUME Typed, MainIsLast, NEW w \in Thread, Work(w)
  PROVE  pc[0] = "idle"
  <1> SUFFICES ASSUME pc[0] # "idle" PROVE FALSE
    OBVIOUS
  <1>1. next = Tasks /\ pc[w] = "idle"
    BY DEF MainIsLast
  <1>2. ~Take(w)
    BY <1>1, Threads DEF Take
  <1> QED
    BY <1>1, <1>2
    DEF Work, LookAtBreaker, AskBreaker, BreakerClosed, Parsed, NoAnswer, Put, NothingToFlush,
        SomethingToFlush, Snapshot, Rename, Go

LEMMA WorkMainIsLast ==
  ASSUME Typed, MainIsLast, NEW w \in Thread, Work(w)
  PROVE  MainIsLast'
  <1>1. pc[0] = "idle" /\ w \in 0..Workers /\ w # 0 /\ 0 \in 0..Workers
    BY WorkIsDone, Threads
  <1>2. pc'[0] = pc[0] /\ pc'[w] # "finished" /\ \A v \in Thread : v # w => pc'[v] = pc[v]
    <2>1. CASE Take(w)
      BY <1>1, <2>1, Threads DEF Take, Typed, MainIsLast
    <2>2. CASE ~Take(w)
      <3>1. PICK from, to \in States \ {"finished"} : Go(w, from, to)
        BY <1>1, <2>2
        DEF Work, LookAtBreaker, AskBreaker, BreakerClosed, Parsed, NoAnswer, Put,
            NothingToFlush, SomethingToFlush, Snapshot, Rename, After, States
      <3> QED
        BY <1>1, <3>1, Moves, Threads
    <2> QED
      BY <2>1, <2>2
  <1> QED
    BY <1>1, <1>2 DEF MainIsLast, Thread

LEMMA NothingIsMissing ==
  ASSUME Typed, SnapshotsKeepUp, FlushesAreDue, InOrder, ~dirty, Writing = {}
  PROVE  file = data
  <1>1. file \in Stored /\ Newer(file) = {}
    BY DEF Typed, Stored, Newer
  <1>2. Cardinality(data \ file) <= since + 0 * Worth /\ Worth \in Nat
    BY <1>1, FS_EmptySet, SomeWriters DEF SnapshotsKeepUp, Kept
  <1>3. since = 0
    BY DEF FlushesAreDue
  <1>4. IsFiniteSet(data \ file) /\ Cardinality(data \ file) \in Nat
    BY Threads, FS_Subset, FS_CardinalityType DEF Typed
  <1>5. data \ file = {}
    BY <1>2, <1>3, <1>4, FS_EmptySet
  <1> QED
    BY <1>5 DEF SnapshotsKeepUp

LEMMA MainMainIsLast ==
  ASSUME Typed, MainIsLast, SnapshotsKeepUp, FlushesAreDue, Main
  PROVE  MainIsLast'
  <1>1. 0 \in 0..Workers /\ After(0) = "finished"
    BY Threads DEF After
  <1>2. {"flush", "snapshot", "write", "finished"} \subseteq States
    BY DEF States
  <1>3. ASSUME NEW from, NEW to \in {"flush", "snapshot", "write", "finished"}, Go(0, from, to)
        PROVE  pc[0] = from /\ pc'[0] = to /\ \A v \in Thread : pc'[v] = pc[v]
    <2>1. to \in States
      BY <1>2
    <2> QED
      BY <1>1, <1>3, <2>1, Moves, Threads
  <1>4. CASE FinalFlush
    <2>1. next = Tasks /\ next' = next /\ \A w \in Thread : pc[w] = "idle"
      BY <1>4 DEF FinalFlush
    <2>2. pc'[0] = "flush" /\ \A v \in Thread : pc'[v] = pc[v]
      BY <1>3, <1>4 DEF FinalFlush
    <2> QED
      BY <2>1, <2>2 DEF MainIsLast, Thread
  <1>5. CASE NothingToFlush(0)
    <2>1. pc[0] = "flush" /\ pc'[0] = "finished" /\ \A v \in Thread : pc'[v] = pc[v]
      BY <1>1, <1>3, <1>5 DEF NothingToFlush
    <2>2. next' = next /\ file' = file /\ data' = data /\ behind' = behind /\ ~dirty
      BY <1>5 DEF NothingToFlush, cache, history
    <2>3. next = Tasks /\ \A w \in Thread : pc[w] = "idle"
      BY <2>1 DEF MainIsLast
    <2>4. Writing = {}
      BY <2>1, <2>3, Threads DEF Writing, Thread
    <2>5. InOrder => file = data
      BY <2>2, <2>4, NothingIsMissing
    <2> QED
      BY <2>1, <2>2, <2>3, <2>5 DEF MainIsLast, Thread, InOrder
  <1>6. CASE SomethingToFlush(0)
    <2>1. pc[0] = "flush" /\ pc'[0] = "snapshot" /\ \A v \in Thread : pc'[v] = pc[v]
      BY <1>3, <1>6 DEF SomethingToFlush
    <2>2. next' = next
      BY <1>6 DEF SomethingToFlush
    <2> QED
      BY <2>1, <2>2 DEF MainIsLast, Thread
  <1>7. CASE Snapshot(0)
    <2>1. pc[0] = "snapshot" /\ pc'[0] = "write" /\ \A v \in Thread : pc'[v] = pc[v]
      BY <1>3, <1>7 DEF Snapshot
    <2>2. next' = next /\ data' = data /\ snap'[0] = data
      BY <1>1, <1>7 DEF Snapshot, Typed
    <2> QED
      BY <2>1, <2>2 DEF MainIsLast, Thread
  <1>8. CASE Rename(0)
    <2>1. pc[0] = "write" /\ pc'[0] = "finished" /\ \A v \in Thread : pc'[v] = pc[v]
      BY <1>1, <1>3, <1>8 DEF Rename
    <2>2. next' = next /\ data' = data /\ file' = snap[0]
      BY <1>8 DEF Rename, cache
    <2> QED
      BY <2>1, <2>2 DEF MainIsLast, Thread
  <1> QED
    BY <1>4, <1>5, <1>6, <1>7, <1>8 DEF Main

LEMMA NextMainIsLast ==
  Typed /\ MainIsLast /\ SnapshotsKeepUp /\ FlushesAreDue /\ [Next]_vars => MainIsLast'
  <1> SUFFICES ASSUME Typed, MainIsLast, SnapshotsKeepUp, FlushesAreDue, [Next]_vars
               PROVE  MainIsLast'
    OBVIOUS
  <1>1. ASSUME NEW w \in 0..Workers, WriteFails(w) PROVE MainIsLast'
    <2>1. After(w) \in States /\ After(w) \in {"finished", "idle"}
          /\ (w # 0 => After(w) = "idle")
      BY DEF After, States
    <2>2. /\ pc[w] = "write" /\ pc'[w] = After(w)
          /\ \A v \in 0..Workers : v # w => pc'[v] = pc[v]
      BY <1>1, <2>1, Moves DEF WriteFails
    <2>3. next' = next /\ behind'
      BY <1>1 DEF WriteFails
    <2>4. CASE w = 0
      <3>1. \A v \in Thread : pc'[v] = pc[v]
        BY <2>2, <2>4, Threads
      <3>2. pc[0] = "write" /\ pc'[0] \in {"finished", "idle"}
        BY <2>1, <2>2, <2>4
      <3> QED
        BY <2>3, <3>1, <3>2 DEF MainIsLast, Thread, InOrder
    <2>5. CASE w # 0
      <3>1. w \in Thread
        BY <2>5, Threads DEF Thread
      <3>2. pc[0] = "idle" /\ pc'[0] = "idle"
        BY <2>2, <2>5, <3>1, Threads DEF MainIsLast
      <3>3. \A v \in Thread : pc'[v] # "finished"
        BY <2>1, <2>2, <2>5, Threads DEF MainIsLast
      <3> QED
        BY <3>2, <3>3 DEF MainIsLast, Thread
    <2> QED
      BY <2>4, <2>5
  <1>2. CASE ProviderComesUp \/ ProviderGoesDown \/ (\E d \in Diagnoser : CoolDown(d))
               \/ UNCHANGED vars
    <2>1. /\ next' = next /\ pc' = pc /\ snap' = snap /\ data' = data /\ file' = file
          /\ behind' = behind
      BY <1>2 DEF ProviderComesUp, ProviderGoesDown, CoolDown, vars, pool, cache, history
    <2> QED
      BY <2>1 DEF MainIsLast, InOrder
  <1>3. CASE Kill
    <2>1. \A v \in 0..Workers : pc'[v] = "idle"
      BY <1>3 DEF Kill, Idle
    <2> QED
      BY <2>1, Threads DEF MainIsLast, Thread
  <1> QED
    BY <1>1, <1>2, <1>3, WorkMainIsLast, MainMainIsLast DEF Next

----------------------------------------------------------------------------------
(* The latest snapshot.                                                    *)

\* Nothing is ahead of what holds everything.
LEMMA HoldsAll ==
  ASSUME NEW s, data \subseteq s, since \in Nat
  PROVE  Kept(s)
  <1>1. Cardinality(data \ s) = 0
    <2>1. data \ s = {}
      OBVIOUS
    <2> QED
      BY <2>1, FS_EmptySet
  <1>2. Cardinality(Newer(s)) * Worth \in Nat
    BY SomeWriters DEF Newer, Writing
  <1> QED
    BY <1>1, <1>2 DEF Kept

LEMMA InitLatest == Init => SnapshotsKeepUp
  <1> SUFFICES ASSUME Init PROVE SnapshotsKeepUp
    OBVIOUS
  <1>1. data = {} /\ file = {} /\ since = 0 /\ Writing = {}
    BY DEF Init, Writing, Idle
  <1> QED
    BY <1>1, HoldsAll DEF SnapshotsKeepUp

LEMMA SameLatest ==
  ASSUME SnapshotsKeepUp, Writing' = Writing,
         data' = data, file' = file, since' = since, snap' = snap, behind' = behind
  PROVE  SnapshotsKeepUp'
  BY DEF SnapshotsKeepUp, Stored, Kept, Newer, InOrder

\* A thread that neither takes a snapshot nor writes one leaves the writers alone.
LEMMA SameWriting ==
  ASSUME Typed, NEW w \in 0..Workers, NEW from, NEW to \in States, Go(w, from, to),
         from # "write", to # "write"
  PROVE  Writing' = Writing
  <1>1. pc[w] = from /\ pc'[w] = to /\ \A v \in 0..Workers : v # w => pc'[v] = pc[v]
    BY Moves
  <1> QED
    BY <1>1 DEF Writing

LEMMA PutLatest ==
  ASSUME Typed, SnapshotsKeepUp, NEW w \in Thread, Put(w)
  PROVE  SnapshotsKeepUp'
  <1> DEFINE to == IF since + 1 >= AutoflushEvery THEN "flush" ELSE "idle"
  <1>1. /\ Go(w, "put", to) /\ to \in States /\ to # "write" /\ w \in 0..Workers
        /\ data' = data \union {task[w]} /\ since' = since + 1
        /\ file' = file /\ snap' = snap /\ behind' = behind
    BY Threads DEF Put, States, history
  <1> HIDE DEF to
  <1>2. Writing' = Writing
    BY <1>1, SameWriting
  <1>3. ASSUME NEW s \in SUBSET Cases, Kept(s)
        PROVE  Cardinality(data' \ s) <= since' + Cardinality(Newer(s)) * Worth
    <2>1. IsFiniteSet(data \ s) /\ Cardinality(data \ s) \in Nat
      BY Threads, FS_Subset, FS_CardinalityType DEF Typed
    <2>2. /\ IsFiniteSet((data \ s) \union {task[w]})
          /\ Cardinality((data \ s) \union {task[w]}) <= Cardinality(data \ s) + 1
      <3> DEFINE T == data \ s
      <3> HIDE DEF T
      <3>1. IsFiniteSet(T) /\ Cardinality(T) \in Nat
        BY <2>1 DEF T
      <3>2. IsFiniteSet(T \union {task[w]}) /\ Cardinality(T \union {task[w]}) <= Cardinality(T) + 1
        BY <3>1, FS_AddElement
      <3> QED
        BY <3>2 DEF T
    <2>3. data' \ s \subseteq (data \ s) \union {task[w]}
      BY <1>1
    <2>4. /\ IsFiniteSet(data' \ s)
          /\ Cardinality(data' \ s) <= Cardinality((data \ s) \union {task[w]})
      BY <2>2, <2>3, FS_Subset
    <2>5. Cardinality(data' \ s) \in Nat /\ Cardinality((data \ s) \union {task[w]}) \in Nat
      BY <2>2, <2>4, FS_CardinalityType
    <2> DEFINE ahead == Cardinality(Newer(s)) * Worth
    <2>6. Cardinality(data \ s) <= since + ahead /\ since \in Nat /\ ahead \in Nat
      BY <1>3, SomeWriters DEF Kept, Typed, Newer, Writing
    <2> HIDE DEF ahead
    <2>7. Cardinality(data' \ s) <= since' + ahead
      BY <1>1, <2>1, <2>2, <2>4, <2>5, <2>6
    <2> QED
      BY <2>7 DEF ahead
  <1>4. \A s \in SUBSET Cases : Newer(s)' = Newer(s)
    BY <1>1, <1>2 DEF Newer
  <1>5. \A s \in SUBSET Cases : Kept(s) => Kept(s)'
    BY <1>3, <1>4 DEF Kept
  <1>6. Stored' = Stored
    BY <1>1, <1>2 DEF Stored
  <1>7. InOrder' => \A s \in Stored' : Kept(s)'
    BY <1>1, <1>5, <1>6 DEF SnapshotsKeepUp, InOrder, Stored
  <1>8. file' \subseteq data' /\ \A v \in Writing' : snap'[v] \subseteq data'
    BY <1>1, <1>2 DEF SnapshotsKeepUp
  <1> QED
    BY <1>7, <1>8 DEF SnapshotsKeepUp

\* A snapshot is worth no more than a flush, so what is stored is behind by one more.
LEMMA SnapshotLatest ==
  ASSUME Typed, SnapshotsKeepUp, FlushesAreDue, NEW w \in 0..Workers, Snapshot(w)
  PROVE  SnapshotsKeepUp'
  <1>1. /\ Go(w, "snapshot", "write") /\ "write" \in States
        /\ snap' = [snap EXCEPT ![w] = data] /\ since' = 0
        /\ data' = data /\ file' = file /\ behind' = behind
    BY DEF Snapshot, States, history
  <1>2. snap'[w] = data /\ \A v \in 0..Workers : v # w => snap'[v] = snap[v]
    BY <1>1 DEF Typed
  <1>3. /\ pc[w] = "snapshot" /\ pc'[w] = "write"
        /\ \A v \in 0..Workers : v # w => pc'[v] = pc[v]
    BY <1>1, Moves
  <1>4. w \notin Writing /\ Writing' = Writing \union {w}
    BY <1>3 DEF Writing
  <1>5. \A v \in Writing : snap'[v] = snap[v]
    BY <1>2, <1>4 DEF Writing
  <1>6. file' \subseteq data' /\ \A v \in Writing' : snap'[v] \subseteq data'
    BY <1>1, <1>2, <1>4, <1>5 DEF SnapshotsKeepUp
  <1>7. since <= Worth /\ since \in Nat
    <2>1. Cardinality(Flushers) \in Nat /\ Cardinality(Flushers) <= Workers
      BY SomeThreads DEF Flushers
    <2> QED
      BY <2>1, Threads DEF FlushesAreDue, Worth, Typed
  <1>8. ASSUME NEW s, data \subseteq s
        PROVE  Kept(s)'
    <2>1. data' \ s = {} /\ Cardinality({}) = 0
      BY <1>1, <1>8, FS_EmptySet
    <2>2. Newer(s)' \in SUBSET (0..Workers)
      BY DEF Newer, Writing
    <2>3. Cardinality(Newer(s)') * Worth \in Nat
      BY <2>2, SomeWriters
    <2>4. Cardinality(data' \ s) = 0 /\ since' = 0
      BY <1>1, <2>1
    <2>5. Cardinality(data' \ s) <= since' + Cardinality(Newer(s)') * Worth
      <3> DEFINE ahead == Cardinality(Newer(s)') * Worth
      <3>1. ahead \in Nat
        BY <2>3
      <3> HIDE DEF ahead
      <3>2. Cardinality(data' \ s) <= since' + ahead
        BY <2>4, <3>1
      <3> QED
        BY <3>2 DEF ahead
    <2> QED
      BY <2>5 DEF Kept, Worth
  <1>9. ASSUME NEW s \in SUBSET Cases, Kept(s), ~(data \subseteq s)
        PROVE  Kept(s)'
    <2>1. Newer(s)' = Newer(s) \union {w} /\ w \notin Newer(s)
      BY <1>2, <1>4, <1>5, <1>9 DEF Newer
    <2> DEFINE n == Cardinality(Newer(s))
    <2>2. /\ IsFiniteSet(Newer(s)) /\ n \in Nat /\ Worth \in Nat
          /\ n * Worth \in Nat /\ (n + 1) * Worth = n * Worth + Worth
      BY SomeWriters DEF Newer, Writing
    <2>3. Cardinality(Newer(s)') = n + 1
      BY <2>1, <2>2, FS_AddElement
    <2>4. Cardinality(data \ s) <= since + n * Worth
      BY <1>9 DEF Kept
    <2>5. Cardinality(data \ s) \in Nat
      BY Threads, FS_Subset, FS_CardinalityType DEF Typed
    <2> HIDE DEF n
    <2>6. Cardinality(data' \ s) <= since' + Cardinality(Newer(s)') * Worth
      BY <1>1, <1>7, <2>2, <2>3, <2>4, <2>5
    <2> QED
      BY <2>6 DEF Kept, Worth
  <1>10. \A s \in Stored' : s = data \/ s \in Stored
    BY <1>1, <1>2, <1>4, <1>5 DEF Stored
  <1>11. InOrder' => \A s \in Stored' : Kept(s)'
    BY <1>1, <1>8, <1>9, <1>10 DEF SnapshotsKeepUp, InOrder, Stored
  <1> QED
    BY <1>6, <1>11 DEF SnapshotsKeepUp

LEMMA RenameLatest ==
  ASSUME Typed, SnapshotsKeepUp, NEW w \in 0..Workers, Rename(w)
  PROVE  SnapshotsKeepUp'
  <1>1. /\ Go(w, "write", After(w)) /\ After(w) \in States /\ After(w) # "write"
        /\ file' = snap[w] /\ snap' = [snap EXCEPT ![w] = {}]
        /\ data' = data /\ since' = since
        /\ behind' = (behind \/ ~(file \subseteq snap[w]))
    BY DEF Rename, States, After, cache
  <1>2. \A v \in 0..Workers : v # w => snap'[v] = snap[v]
    BY <1>1 DEF Typed
  <1>3. pc[w] = "write" /\ pc'[w] # "write" /\ \A v \in 0..Workers : v # w => pc'[v] = pc[v]
    BY <1>1, Moves
  <1>4. w \in Writing /\ Writing' = Writing \ {w} /\ \A v \in Writing' : snap'[v] = snap[v]
    BY <1>2, <1>3 DEF Writing
  <1>5. file' \subseteq data' /\ \A v \in Writing' : snap'[v] \subseteq data'
    BY <1>1, <1>4 DEF SnapshotsKeepUp
  <1>6. ASSUME InOrder', NEW s \in Stored'
        PROVE  Kept(s)'
    <2>1. InOrder /\ file \subseteq file'
      BY <1>1, <1>6 DEF InOrder
    <2>2. s \in Stored /\ file' \subseteq s
      BY <1>1, <1>4, <2>1 DEF Stored
    <2>3. Newer(s)' = Newer(s)
      BY <1>1, <1>4, <2>2 DEF Newer
    <2> QED
      BY <1>1, <2>1, <2>2, <2>3 DEF SnapshotsKeepUp, Kept
  <1> QED
    BY <1>5, <1>6 DEF SnapshotsKeepUp

LEMMA NextLatest == Typed /\ SnapshotsKeepUp /\ FlushesAreDue /\ [Next]_vars => SnapshotsKeepUp'
  <1> SUFFICES ASSUME Typed, SnapshotsKeepUp, FlushesAreDue, [Next]_vars PROVE SnapshotsKeepUp'
    OBVIOUS
  <1>1. ASSUME NEW w \in 0..Workers,
               \/ Take(w) \/ LookAtBreaker(w) \/ AskBreaker(w) \/ BreakerClosed(w)
               \/ Parsed(w) \/ NoAnswer(w) \/ NothingToFlush(w) \/ SomethingToFlush(w)
        PROVE  SnapshotsKeepUp'
    <2>1. data' = data /\ file' = file /\ since' = since /\ snap' = snap /\ behind' = behind
      BY <1>1
      DEF Take, LookAtBreaker, AskBreaker, BreakerClosed, Parsed, NoAnswer, NothingToFlush,
          SomethingToFlush, cache, history
    <2>2. Writing' = Writing
      <3>1. CASE Take(w)
        BY <3>1 DEF Take, Typed, Writing
      <3>2. CASE ~Take(w)
        <4>1. PICK from, to \in States \ {"write"} : from # "write" /\ Go(w, from, to)
          BY <1>1, <3>2
          DEF LookAtBreaker, AskBreaker, BreakerClosed, Parsed, NoAnswer, NothingToFlush,
              SomethingToFlush, After, States
        <4> QED
          BY <4>1, SameWriting
      <3> QED
        BY <3>1, <3>2
    <2> QED
      BY <2>1, <2>2, SameLatest
  <1>2. ASSUME NEW w \in 0..Workers, WriteFails(w) PROVE SnapshotsKeepUp'
    <2>1. /\ Go(w, "write", After(w)) /\ After(w) \in States
          /\ snap' = [snap EXCEPT ![w] = {}] /\ data' = data /\ file' = file /\ behind'
      BY <1>2 DEF WriteFails, States, After, cache
    <2>2. \A v \in 0..Workers : v # w => snap'[v] = snap[v] /\ pc'[v] = pc[v]
      BY <2>1, Moves DEF Typed
    <2>3. snap'[w] = {}
      BY <2>1 DEF Typed
    <2>4. \A v \in Writing' : v = w \/ (v \in Writing /\ snap'[v] = snap[v])
      BY <2>2 DEF Writing
    <2> QED
      BY <2>1, <2>3, <2>4 DEF SnapshotsKeepUp, InOrder
  <1>3. CASE FinalFlush
    <2>1. /\ Go(0, "idle", "flush") /\ "flush" \in States
          /\ data' = data /\ file' = file /\ since' = since /\ snap' = snap /\ behind' = behind
      BY <1>3 DEF FinalFlush, States, cache, history
    <2>2. Writing' = Writing
      BY <2>1, SameWriting, Threads
    <2> QED
      BY <2>1, <2>2, SameLatest
  <1>4. CASE ProviderComesUp \/ ProviderGoesDown \/ (\E d \in Diagnoser : CoolDown(d))
               \/ UNCHANGED vars
    <2>1. /\ pc' = pc /\ snap' = snap /\ data' = data /\ file' = file
          /\ since' = since /\ behind' = behind
      BY <1>4 DEF ProviderComesUp, ProviderGoesDown, CoolDown, vars, pool, cache, history
    <2> QED
      BY <2>1, SameLatest DEF Writing
  <1>5. CASE Kill
    <2>1. data' = file /\ file' = file /\ since' = 0 /\ Writing' = {}
      BY <1>5 DEF Kill, Writing, Idle
    <2>2. \A s \in Stored' : data' \ s = {} /\ Newer(s)' = {}
      BY <2>1 DEF Stored, Newer
    <2>3. Cardinality({}) = 0 /\ Worth \in Nat /\ 0 * Worth = 0
      BY FS_EmptySet, SomeWriters
    <2>4. ASSUME NEW s \in Stored' PROVE Kept(s)'
      <3>1. Cardinality(data' \ s) = 0 /\ Cardinality(Newer(s)') = 0
        BY <2>2, <2>3
      <3>2. Cardinality(data' \ s) <= since' + Cardinality(Newer(s)') * Worth
        BY <2>1, <2>3, <3>1
      <3> QED
        BY <3>2 DEF Kept, Worth
    <2> QED
      BY <2>1, <2>4 DEF SnapshotsKeepUp
  <1>6. ASSUME NEW w \in Thread, Work(w) PROVE SnapshotsKeepUp'
    <2>1. w \in 0..Workers
      BY Threads
    <2> QED
      BY <1>1, <1>6, <2>1, PutLatest, SnapshotLatest, RenameLatest DEF Work
  <1>7. CASE Main
    BY <1>1, <1>3, <1>7, SnapshotLatest, RenameLatest, Threads DEF Main
  <1> QED
    BY <1>2, <1>4, <1>5, <1>6, <1>7 DEF Next

----------------------------------------------------------------------------------
(* Flushes that are due.                                                   *)

LEMMA InitFlushes == Init => FlushesAreDue
  <1> SUFFICES ASSUME Init PROVE FlushesAreDue
    OBVIOUS
  <1>1. since = 0 /\ Cardinality(Flushers) \in Nat
    BY SomeThreads DEF Init, Flushers
  <1> QED
    BY <1>1, Threads DEF FlushesAreDue

\* Nothing is due right after a snapshot, or when there is nothing to write.
LEMMA NoneIsDue ==
  ASSUME since' = 0
  PROVE  FlushesAreDue'
  <1>1. Flushers' \in SUBSET Thread
    BY DEF Flushers, Thread
  <1>2. Cardinality(Flushers') \in Nat
    BY <1>1, SomeThreads
  <1> QED
    BY <1>2, Threads DEF FlushesAreDue

LEMMA StillDue ==
  ASSUME Typed, FlushesAreDue, Flushers \subseteq Flushers', since' = since, dirty' = dirty
  PROVE  FlushesAreDue'
  <1>1. Flushers \in SUBSET Thread /\ Flushers' \in SUBSET Thread
    BY DEF Flushers, Thread
  <1>2. IsFiniteSet(Flushers') /\ Cardinality(Flushers') \in Nat /\ Cardinality(Flushers) \in Nat
    BY <1>1, SomeThreads
  <1>3. Cardinality(Flushers) <= Cardinality(Flushers')
    BY <1>2, FS_Subset
  <1> QED
    BY <1>2, <1>3, Threads DEF FlushesAreDue, Typed

LEMMA PutIsDue ==
  ASSUME Typed, FlushesAreDue, NEW w \in Thread, Put(w)
  PROVE  FlushesAreDue'
  <1> DEFINE to == IF since + 1 >= AutoflushEvery THEN "flush" ELSE "idle"
  <1>1. Go(w, "put", to) /\ to \in States /\ w \in 0..Workers /\ since' = since + 1 /\ dirty'
    BY Threads DEF Put, States
  <1>2. since \in Nat /\ AutoflushEvery \in Nat /\ AutoflushEvery # 0
    BY Threads DEF Typed
  <1>3. /\ pc[w] = "put" /\ pc'[w] = to
        /\ \A v \in 0..Workers : v # w => pc'[v] = pc[v]
    <2> HIDE DEF to
    <2> QED
      BY <1>1, Moves
  <1>4. /\ Flushers \in SUBSET Thread /\ Flushers' \in SUBSET Thread
        /\ IsFiniteSet(Flushers) /\ IsFiniteSet(Flushers')
        /\ Cardinality(Flushers) \in Nat /\ Cardinality(Flushers') \in Nat
    <2>1. Flushers \in SUBSET Thread /\ Flushers' \in SUBSET Thread
      BY DEF Flushers, Thread
    <2> QED
      BY <2>1, SomeThreads
  <1>5. CASE since + 1 >= AutoflushEvery
    <2>1. Flushers' = Flushers \union {w} /\ w \notin Flushers
      BY <1>1, <1>3, <1>5, Threads DEF Flushers, Thread
    <2>2. Cardinality(Flushers') = Cardinality(Flushers) + 1
      BY <1>4, <2>1, FS_AddElement
    <2> QED
      BY <1>1, <1>2, <1>4, <2>2 DEF FlushesAreDue
  <1>6. CASE ~(since + 1 >= AutoflushEvery)
    BY <1>1, <1>2, <1>4, <1>6 DEF FlushesAreDue
  <1> QED
    BY <1>5, <1>6

LEMMA NextFlushes == Typed /\ FlushesAreDue /\ [Next]_vars => FlushesAreDue'
  <1> SUFFICES ASSUME Typed, FlushesAreDue, [Next]_vars PROVE FlushesAreDue'
    OBVIOUS
  <1>1. ASSUME NEW w \in 0..Workers,
               \/ Take(w) \/ LookAtBreaker(w) \/ AskBreaker(w) \/ BreakerClosed(w)
               \/ Parsed(w) \/ NoAnswer(w) \/ SomethingToFlush(w) \/ Rename(w) \/ WriteFails(w)
        PROVE  FlushesAreDue'
    <2>1. since' = since /\ dirty' = dirty
      BY <1>1
      DEF Take, LookAtBreaker, AskBreaker, BreakerClosed, Parsed, NoAnswer, SomethingToFlush,
          Rename, WriteFails, cache
    <2>2. Flushers \subseteq Flushers'
      <3>1. CASE Take(w)
        BY <3>1, Threads DEF Take, Typed, Flushers, Thread
      <3>2. CASE ~Take(w)
        <4>1. PICK from, to \in States :
                Go(w, from, to) /\ (from \in {"flush", "snapshot"} => to \in {"flush", "snapshot"})
          BY <1>1, <3>2
          DEF LookAtBreaker, AskBreaker, BreakerClosed, Parsed, NoAnswer, SomethingToFlush,
              Rename, WriteFails, After, States
        <4>2. pc[w] = from /\ pc'[w] = to /\ \A v \in 0..Workers : v # w => pc'[v] = pc[v]
          BY <4>1, Moves
        <4> QED
          BY <4>1, <4>2, Threads DEF Flushers, Thread
      <3> QED
        BY <3>1, <3>2
    <2> QED
      BY <2>1, <2>2, StillDue
  <1>2. ASSUME NEW w \in 0..Workers, NothingToFlush(w) PROVE FlushesAreDue'
    <2>1. since' = since /\ ~dirty
      BY <1>2 DEF NothingToFlush, cache
    <2>2. since' = 0
      BY <2>1 DEF FlushesAreDue
    <2> QED
      BY <2>2, NoneIsDue
  <1>3. ASSUME NEW w \in 0..Workers, Snapshot(w) PROVE FlushesAreDue'
    BY <1>3, NoneIsDue DEF Snapshot
  <1>4. CASE FinalFlush
    <2>1. since' = since /\ dirty' = dirty /\ Go(0, "idle", "flush") /\ "flush" \in States
      BY <1>4 DEF FinalFlush, cache, States
    <2>2. \A v \in 0..Workers : v # 0 => pc'[v] = pc[v]
      BY <2>1, Moves, Threads
    <2>3. Flushers \subseteq Flushers'
      BY <2>2, Threads DEF Flushers, Thread
    <2> QED
      BY <2>1, <2>3, StillDue
  <1>5. CASE ProviderComesUp \/ ProviderGoesDown \/ (\E d \in Diagnoser : CoolDown(d))
               \/ UNCHANGED vars
    <2>1. pc' = pc /\ since' = since /\ dirty' = dirty
      BY <1>5 DEF ProviderComesUp, ProviderGoesDown, CoolDown, vars, pool, cache
    <2>2. Flushers \subseteq Flushers'
      BY <2>1 DEF Flushers
    <2> QED
      BY <2>1, <2>2, StillDue
  <1>6. CASE Kill
    BY <1>6, NoneIsDue DEF Kill
  <1>7. ASSUME NEW w \in Thread, Work(w) PROVE FlushesAreDue'
    <2>1. w \in 0..Workers
      BY Threads
    <2> QED
      BY <1>1, <1>2, <1>3, <1>7, <2>1, PutIsDue DEF Work
  <1>8. CASE Main
    BY <1>1, <1>2, <1>3, <1>4, <1>8, Threads DEF Main
  <1> QED
    BY <1>1, <1>5, <1>6, <1>7, <1>8 DEF Next

----------------------------------------------------------------------------------
(* Probes.                                                                 *)

\* What ProbesAreOut says of one diagnoser.
Owes(d) ==
  /\ missed[d] <= Workers * (ProbeAfterSkips - 1)
  /\ up /\ breaker[d].opened # "no" =>
       missed[d] <= Cardinality(Callers(d)) * (ProbeAfterSkips - 1) + breaker[d].skipped

LEMMA CallersFinite ==
  ASSUME NEW d
  PROVE  /\ Callers(d) \in SUBSET Thread /\ IsFiniteSet(Callers(d))
         /\ Cardinality(Callers(d)) \in Nat /\ Cardinality(Callers(d)) <= Workers
  <1>1. Callers(d) \in SUBSET Thread
    BY DEF Callers
  <1> QED
    BY <1>1, SomeThreads

LEMMA InitProbes == Init => ProbesAreOut
  <1> SUFFICES ASSUME Init, NEW d \in Diagnoser PROVE Owes(d)
    BY DEF ProbesAreOut, Owes
  <1>1. missed[d] = 0 /\ breaker[d].opened = "no"
    BY DEF Init, None, New, Closed
  <1>2. ProbeAfterSkips - 1 \in Nat
    BY Threads
  <1>3. Workers * (ProbeAfterSkips - 1) \in Nat
    BY <1>2, Threads, Multiples
  <1> QED
    BY <1>1, <1>3 DEF Owes

\* A diagnoser whose breaker is left alone, and that no thread stops calling, owes
\* no more than before.
LEMMA OwesTheSame ==
  ASSUME Typed, NEW d \in Diagnoser, Owes(d), up' => up,
         missed'[d] = missed[d], breaker'[d] = breaker[d],
         Callers(d) \subseteq Callers(d)'
  PROVE  Owes(d)'
  <1> DEFINE k == ProbeAfterSkips - 1
             c == Cardinality(Callers(d))
             more == Cardinality(Callers(d)')
  <1>1. k \in Nat
    BY Threads
  <1>2. Callers(d)' \in SUBSET Thread
    BY DEF Callers, Thread
  <1>3. c \in Nat /\ more \in Nat /\ c <= more
    BY <1>2, CallersFinite, SomeThreads, FS_Subset
  <1>4. c * k \in Nat /\ more * k \in Nat /\ c * k <= more * k
    BY <1>1, <1>3, Multiples
  <1>5. missed[d] \in Nat /\ breaker[d].skipped \in Nat
    BY DEF Typed, Breaker
  <1> HIDE DEF k, c, more
  <1>6. up' /\ breaker'[d].opened # "no" => missed'[d] <= more * k + breaker'[d].skipped
    <2> SUFFICES ASSUME up', breaker'[d].opened # "no"
                 PROVE  missed'[d] <= more * k + breaker'[d].skipped
      OBVIOUS
    <2>1. missed[d] <= c * k + breaker[d].skipped
      BY DEF Owes, c, k
    <2> QED
      BY <1>4, <1>5, <2>1
  <1> QED
    BY <1>6 DEF Owes, more, k

\* A closed breaker owes nothing, and neither does one nobody can reach.
LEMMA OwesNothing ==
  ASSUME NEW d \in Diagnoser, Owes(d), missed'[d] = missed[d],
         ~up' \/ breaker'[d].opened = "no"
  PROVE  Owes(d)'
  BY DEF Owes

LEMMA AskingOwes ==
  ASSUME Typed, ProbesAreOut, NEW w \in Thread, AskBreaker(w), NEW d \in Diagnoser
  PROVE  Owes(d)'
  <1> DEFINE e == DiagnoserOf(w)
             b == breaker[e]
             k == ProbeAfterSkips - 1
             c == Cardinality(Callers(d))
             to == IF Skips(b) THEN "idle" ELSE "calling"
  <1>1. /\ b.opened # "no" /\ Go(w, "open", to) /\ to \in States /\ w \in 0..Workers
        /\ breaker' = [breaker EXCEPT ![e] = AfterAsking(b)]
        /\ missed' = IF Skips(b) /\ up THEN [missed EXCEPT ![e] = missed[e] + 1] ELSE missed
        /\ up' = up
    BY Threads DEF AskBreaker, States, provider
  <1>2. e \in Diagnoser /\ b \in Breaker
    BY <1>1, Diagnosers DEF Typed
  <1>3. /\ pc[w] = "open" /\ pc'[w] = to
        /\ \A v \in 0..Workers : v # w => pc'[v] = pc[v] /\ task'[v] = task[v]
        /\ to # "idle" => task' = task
        /\ doomed' \subseteq doomed \union {w}
        /\ up => doomed' = doomed \ {w}
    <2> HIDE DEF to, b
    <2> QED
      BY <1>1, Moves
  <1>4. Callers(d) \subseteq Callers(d)'
    BY <1>3, Threads DEF Callers, DiagnoserOf, Thread
  <1>5. Owes(d)
    BY DEF ProbesAreOut, Owes
  <1>6. CASE d # e
    <2>1. missed'[d] = missed[d] /\ breaker'[d] = breaker[d]
      BY <1>1, <1>2, <1>6 DEF Typed
    <2> QED
      BY <1>1, <1>4, <1>5, <2>1, OwesTheSame
  <1>7. CASE ~up
    <2>1. missed'[d] = missed[d]
      BY <1>1, <1>7
    <2> QED
      BY <1>1, <1>5, <1>7, <2>1, OwesNothing
  <1>8. CASE d = e /\ up
    <2>1. k \in Nat /\ c \in Nat /\ c <= Workers /\ Workers \in Nat
      BY CallersFinite, Threads
    <2>2. breaker'[d] = AfterAsking(b) /\ b.skipped \in Nat /\ missed[d] \in Nat
      BY <1>1, <1>2, <1>8 DEF Typed, Breaker
    <2>3. missed[d] <= c * k + b.skipped /\ missed[d] <= Workers * k
      BY <1>1, <1>5, <1>8 DEF Owes
    <2>4. CASE Skips(b)
      <3>1. missed'[d] = missed[d] + 1
        BY <1>1, <1>8, <2>4 DEF Typed
      <3>2. AfterAsking(b).skipped = b.skipped + 1 /\ b.skipped + 1 <= k
        BY <1>1, <1>2, <2>4, Asking
      <3>3. Callers(d)' = Callers(d)
        <4>1. doomed' = doomed \ {w} /\ pc'[w] = "idle"
          BY <1>3, <1>8, <2>4
        <4> QED
          BY <1>3, <4>1, Threads DEF Callers, DiagnoserOf, Thread
      <3>4. c + 1 <= Workers
        <4>1. Callers(d) \subseteq Thread \ {w}
          BY <1>3 DEF Callers
        <4>2. IsFiniteSet(Thread \ {w}) /\ Cardinality(Thread \ {w}) = Workers - 1
          BY Threads, FS_RemoveElement
        <4>3. c <= Workers - 1
          BY <4>1, <4>2, FS_Subset
        <4> QED
          BY <2>1, <4>3
      <3>5. c * k \in Nat /\ (c + 1) * k = c * k + k /\ (c + 1) * k <= Workers * k
            /\ Workers * k \in Nat
        <4>1. c + 1 \in Nat
          BY <2>1
        <4> HIDE DEF c, k
        <4> QED
          BY <2>1, <3>4, <4>1, Multiples
      <3>6. Cardinality(Callers(d)') = c
        BY <3>3
      <3> HIDE DEF c, k, b
      <3>7. missed'[d] <= Workers * k
        BY <2>1, <2>2, <2>3, <3>1, <3>2, <3>5
      <3>8. missed'[d] <= Cardinality(Callers(d)') * k + breaker'[d].skipped
        BY <2>1, <2>2, <2>3, <3>1, <3>2, <3>5, <3>6
      <3> QED
        BY <3>7, <3>8 DEF Owes, k
    <2>5. CASE ~Skips(b)
      <3>1. missed'[d] = missed[d]
        BY <1>1, <2>5
      <3>2. CASE AfterAsking(b).opened = "no"
        BY <1>5, <2>2, <3>1, <3>2, OwesNothing
      <3>3. CASE AfterAsking(b).opened # "no"
        <4>1. AfterAsking(b).skipped = 0 /\ b.skipped = k
          BY <1>1, <1>2, <2>5, <3>3, Asking
        <4>2. Callers(d)' = Callers(d) \union {w} /\ w \notin Callers(d)
          BY <1>3, <1>8, <2>5, Threads DEF Callers, DiagnoserOf, Thread
        <4>3. Cardinality(Callers(d)') = c + 1
          BY <4>2, CallersFinite, FS_AddElement
        <4>4. c * k \in Nat /\ (c + 1) * k = c * k + k
          <5> HIDE DEF c, k
          <5> QED
            BY <2>1, Multiples
        <4> HIDE DEF c, k, b
        <4>5. missed'[d] <= Cardinality(Callers(d)') * k + breaker'[d].skipped
          BY <2>1, <2>2, <2>3, <3>1, <4>1, <4>3, <4>4
        <4> QED
          BY <2>3, <3>1, <4>5 DEF Owes, k
      <3> QED
        BY <3>2, <3>3
    <2> QED
      BY <2>4, <2>5
  <1> QED
    BY <1>6, <1>7, <1>8 DEF Typed

LEMMA NextProbes == Typed /\ ProbesAreOut /\ [Next]_vars => ProbesAreOut'
  <1> SUFFICES ASSUME Typed, ProbesAreOut, [Next]_vars, NEW d \in Diagnoser PROVE Owes(d)'
    BY DEF ProbesAreOut, Owes, Diagnoser, Callers, DiagnoserOf, Thread
  <1>1. Owes(d)
    BY DEF ProbesAreOut, Owes
  <1>12. ASSUME missed'[d] = 0 PROVE Owes(d)'
    <2>2. Callers(d)' \in SUBSET Thread
      BY DEF Callers, Thread
    <2>3. Cardinality(Callers(d)') \in Nat /\ ProbeAfterSkips - 1 \in Nat /\ Workers \in Nat
      BY <2>2, SomeThreads, Threads
    <2>4. /\ Workers * (ProbeAfterSkips - 1) \in Nat
          /\ Cardinality(Callers(d)') * (ProbeAfterSkips - 1) \in Nat
      BY <2>3, Multiples
    <2>5. breaker'[d].skipped \in Nat
      <3>1. breaker'[d] \in Breaker
        BY NextTyped DEF Typed
      <3> QED
        BY <3>1 DEF Breaker
    <2> QED
      BY <1>12, <2>4, <2>5 DEF Owes
  <1>2. ASSUME NEW w \in 0..Workers,
               \/ Take(w) \/ LookAtBreaker(w) \/ BreakerClosed(w) \/ Put(w)
               \/ NothingToFlush(w) \/ SomethingToFlush(w) \/ Snapshot(w) \/ Rename(w)
               \/ WriteFails(w)
        PROVE  Owes(d)'
    <2>1. up' = up /\ missed' = missed /\ breaker' = breaker
      BY <1>2
      DEF Take, LookAtBreaker, BreakerClosed, Put, NothingToFlush, SomethingToFlush, Snapshot,
          Rename, WriteFails, provider, history
    <2>2. Callers(d) \subseteq Callers(d)'
      <3>1. /\ pc[w] # "calling" /\ doomed' \subseteq doomed \union {w}
            /\ \A v \in 0..Workers : v # w => pc'[v] = pc[v] /\ task'[v] = task[v]
        <4>1. CASE Take(w)
          BY <4>1 DEF Take, Typed
        <4>2. CASE ~Take(w)
          <5>1. PICK from, to \in States : Go(w, from, to) /\ from # "calling"
            BY <1>2, <4>2
            DEF LookAtBreaker, BreakerClosed, Put, NothingToFlush, SomethingToFlush, Snapshot,
                Rename, WriteFails, After, States
          <5> QED
            BY <5>1, Moves
        <4> QED
          BY <4>1, <4>2
      <3> QED
        BY <3>1, Threads DEF Callers, DiagnoserOf, Thread
    <2> QED
      BY <1>1, <2>1, <2>2, OwesTheSame
  <1>3. ASSUME NEW w \in Thread, Parsed(w) PROVE Owes(d)'
    <2>1. /\ up' = up /\ missed' = missed /\ Go(w, "calling", "put") /\ "put" \in States
          /\ breaker' = [breaker EXCEPT ![DiagnoserOf(w)] = Closed] /\ w \in 0..Workers
      BY <1>3, Threads DEF Parsed, provider, history, States
    <2>2. CASE d = DiagnoserOf(w)
      <3>1. breaker'[d].opened = "no"
        BY <2>1, <2>2 DEF Typed, Closed
      <3> QED
        BY <1>1, <2>1, <3>1, OwesNothing
    <2>3. CASE d # DiagnoserOf(w)
      <3>1. breaker'[d] = breaker[d]
        BY <2>1, <2>3 DEF Typed
      <3>2. /\ \A v \in 0..Workers : v # w => pc'[v] = pc[v] /\ task'[v] = task[v]
            /\ doomed' \subseteq doomed \union {w}
        BY <2>1, Moves
      <3>3. Callers(d) \subseteq Callers(d)'
        BY <2>3, <3>2, Threads DEF Callers, DiagnoserOf, Thread
      <3> QED
        BY <1>1, <2>1, <3>1, <3>3, OwesTheSame
    <2> QED
      BY <2>2, <2>3
  <1>4. ASSUME NEW w \in Thread, NoAnswer(w) PROVE Owes(d)'
    <2>1. /\ up' = up /\ w \in doomed /\ w \in 0..Workers
          /\ Go(w, "calling", "idle") /\ "idle" \in States
          /\ \/ \E b : breaker' = [breaker EXCEPT ![DiagnoserOf(w)] = b]
                  /\ missed' = [missed EXCEPT ![DiagnoserOf(w)] = 0]
             \/ breaker' = breaker /\ missed' = missed
      BY <1>4, Threads DEF NoAnswer, provider, States
    <2>2. CASE missed'[d] = 0
      BY <1>12, <2>2
    <2>3. CASE missed'[d] # 0
      <3>1. missed'[d] = missed[d] /\ breaker'[d] = breaker[d]
        BY <2>1, <2>3 DEF Typed
      <3>2. /\ \A v \in 0..Workers : v # w => pc'[v] = pc[v] /\ task'[v] = task[v]
            /\ doomed' \subseteq doomed \union {w}
        BY <2>1, Moves
      <3>3. Callers(d) \subseteq Callers(d)'
        BY <2>1, <3>2, Threads DEF Callers, DiagnoserOf, Thread
      <3> QED
        BY <1>1, <2>1, <3>1, <3>3, OwesTheSame
    <2> QED
      BY <2>2, <2>3
  <1>5. CASE FinalFlush
    <2>1. /\ up' = up /\ missed' = missed /\ breaker' = breaker
          /\ Go(0, "idle", "flush") /\ "flush" \in States
      BY <1>5 DEF FinalFlush, provider, history, States
    <2>2. /\ \A v \in 0..Workers : v # 0 => pc'[v] = pc[v] /\ task'[v] = task[v]
          /\ doomed' \subseteq doomed \union {0}
      BY <2>1, Moves, Threads
    <2>3. Callers(d) \subseteq Callers(d)'
      BY <2>2, Threads DEF Callers, DiagnoserOf, Thread
    <2> QED
      BY <1>1, <2>1, <2>3, OwesTheSame
  <1>6. CASE ProviderComesUp \/ Kill
    BY <1>6, <1>12 DEF ProviderComesUp, Kill, None
  <1>7. CASE ProviderGoesDown
    BY <1>1, <1>7, OwesNothing DEF ProviderGoesDown, history
  <1>8. ASSUME NEW e \in Diagnoser, CoolDown(e) PROVE Owes(d)'
    <2>1. /\ up' = up /\ missed' = missed /\ pc' = pc /\ task' = task /\ doomed' = doomed
          /\ breaker[e].opened = "yes"
          /\ breaker' = [breaker EXCEPT ![e] = [breaker[e] EXCEPT !.opened = "cooled"]]
      BY <1>8 DEF CoolDown, pool, provider, history
    <2>2. breaker'[d].skipped = breaker[d].skipped
          /\ (breaker'[d].opened # "no" => breaker[d].opened # "no")
      <3>1. CASE d = e
        <4>1. breaker'[d] = [breaker[d] EXCEPT !.opened = "cooled"] /\ breaker[d] \in Breaker
          BY <2>1, <3>1 DEF Typed
        <4> QED
          BY <2>1, <3>1, <4>1 DEF Breaker
      <3>2. CASE d # e
        BY <2>1, <3>2 DEF Typed
      <3> QED
        BY <3>1, <3>2
    <2>3. Callers(d)' = Callers(d)
      BY <2>1 DEF Callers, DiagnoserOf
    <2> QED
      BY <1>1, <2>1, <2>2, <2>3 DEF Owes
  <1>9. CASE UNCHANGED vars
    <2>1. /\ up' = up /\ missed' = missed /\ breaker' = breaker /\ pc' = pc /\ task' = task
          /\ doomed' = doomed
      BY <1>9 DEF vars, pool, provider, history
    <2>2. Callers(d) \subseteq Callers(d)'
      BY <2>1 DEF Callers, DiagnoserOf
    <2> QED
      BY <1>1, <2>1, <2>2, OwesTheSame
  <1>10. ASSUME NEW w \in Thread, Work(w) PROVE Owes(d)'
    <2>1. w \in 0..Workers
      BY Threads
    <2> QED
      BY <1>2, <1>3, <1>4, <1>10, <2>1, AskingOwes DEF Work
  <1>11. CASE Main
    BY <1>2, <1>5, <1>11, Threads DEF Main
  <1> QED
    BY <1>2, <1>6, <1>7, <1>8, <1>9, <1>10, <1>11 DEF Next

----------------------------------------------------------------------------------
(* The theorems.                                                           *)

LEMMA Invariance == Spec => []IInv
  <1>1. Init => IInv
    BY InitTyped, InitOneCaseEach, InitMainIsLast, InitLatest, InitFlushes, InitProbes DEF IInv
  <1>2. IInv /\ [Next]_vars => IInv'
    BY NextTyped, NextOneCaseEach, NextMainIsLast, NextLatest, NextFlushes, NextProbes DEF IInv
  <1> QED
    BY <1>1, <1>2, PTL DEF Spec

\* Type correctness of the pool, the breakers and the cache (warm.py:34-91,
\* cache.py:31-90); the count of what was put never passes the number of cases.
THEOREM TypeCorrect == Spec => []TypeOK
  <1>1. ASSUME IInv PROVE TypeOK
    <2>1. Cardinality(Busy) \in Nat
      BY SomeThreads DEF Busy
    <2>2. since \in 0..Tasks
      BY <1>1, <2>1, Threads DEF IInv, Typed, OneCaseEach
    <2> QED
      BY <1>1, <2>2 DEF IInv, Typed, TypeOK, States, Cases
  <1> QED
    BY <1>1, Invariance, PTL

\* A kill, at any moment, loses no more than was put since the last snapshot and what the
\* snapshots hold that are still being written, each worth a flush and one answer for every
\* thread but one, as long as snapshots reach the disk in their order (cache.py:58-90).
THEOREM KillsLoseLittle == Spec => []KillLosesLittle
  <1>1. ASSUME IInv PROVE KillLosesLittle
    <2> DEFINE n == Cardinality(Unwritten)
    <2> SUFFICES ASSUME InOrder
                 PROVE  Cardinality(data \ file) <= (1 + n) * Worth
      BY DEF KillLosesLittle
    <2>1. file \in Stored /\ Newer(file) = Unwritten
      BY <1>1 DEF IInv, Typed, Stored, Newer, Unwritten
    <2>2. Cardinality(data \ file) <= since + n * Worth
      BY <1>1, <2>1 DEF IInv, SnapshotsKeepUp, Kept
    <2>3. Cardinality(Flushers) \in Nat /\ Cardinality(Flushers) <= Workers
      BY SomeThreads DEF Flushers
    <2>4. since <= Worth /\ since \in Nat
      BY <1>1, <2>3, Threads DEF IInv, FlushesAreDue, Typed, Worth
    <2>5. Cardinality(data \ file) \in Nat
      BY <1>1, Threads, FS_Subset, FS_CardinalityType DEF IInv, Typed
    <2>6. /\ n \in Nat /\ Worth \in Nat /\ n * Worth \in Nat
          /\ (n + 1) * Worth = n * Worth + Worth
      BY SomeWriters DEF Unwritten, Writing
    <2>7. (1 + n) * Worth = (n + 1) * Worth
      <3> HIDE DEF n
      <3> QED
        BY <2>6
    <2> HIDE DEF n
    <2> QED
      BY <2>2, <2>4, <2>5, <2>6, <2>7
  <1> QED
    BY <1>1, Invariance, PTL

\* When the warmer has finished, every answer it holds is on disk, as long as
\* snapshots reach the disk in their order (warm.py:80-91: the flush comes after the pool).
THEOREM FinishedIsStored == Spec => []FinishedMeansStored
  <1>1. IInv => FinishedMeansStored
    BY DEF IInv, MainIsLast, FinishedMeansStored
  <1> QED
    BY <1>1, Invariance, PTL

\* llm.py:98-107: after a hiccup, and after each call that it still makes fail, each
\* thread that may be out probing costs a diagnoser at most the skips between two probes.
THEOREM HiccupsAreShort == Spec => []HiccupIsShort
  <1>1. IInv => HiccupIsShort
    BY DEF IInv, ProbesAreOut, HiccupIsShort
  <1> QED
    BY <1>1, Invariance, PTL
==================================================================================
