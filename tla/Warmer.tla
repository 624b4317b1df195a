---------------------------------- MODULE Warmer ---------------------------------
(***************************************************************************)
(* The cache warmer of diagnosis/warm.py: threads that take the cases of a *)
(* batch one after the other, ask a model about each through the circuit   *)
(* breaker of diagnosis/llm.py, and put the answers into one response      *)
(* cache (diagnosis/cache.py), which they write to one file.               *)
(*                                                                         *)
(* A case is asked about once, so its number stands for its cache key.     *)
(* What happens under the cache's lock is one step; the unlocked reads,    *)
(* the calls and the rename are steps of their own.  A task belongs to the *)
(* diagnoser of its number modulo the workers, not to the one of its       *)
(* thread, so two threads may use one breaker.  is_open is two steps: it   *)
(* reads opened_at, calls the clock, where another thread may run, and     *)
(* reads opened_at again.                                                  *)
(***************************************************************************)
EXTENDS Integers, FiniteSets, CircuitBreaker

CONSTANTS
  Tasks,             \* number of cases in the batch
  Workers,           \* --workers
  AutoflushEvery,    \* autoflush_every
  MaxOutages,        \* bound: how often the provider goes down
  MaxKills,          \* bound: how often the process is killed
  WritesMayFail      \* writing the file may fail, once in a process

ASSUME WarmerAssumption ==
  /\ {Tasks, Workers, AutoflushEvery} \subseteq Nat \ {0}
  /\ {MaxOutages, MaxKills} \subseteq Nat /\ WritesMayFail \in BOOLEAN

VARIABLES
  next,       \* the first case no thread has taken
  pc,         \* where each thread is; thread 0 is the one that runs main
  task,       \* the case each thread works on
  snap,       \* each thread's snapshot of the cache
  doomed,     \* the threads whose call has met an outage, and may yet fail
  breaker,    \* each diagnoser's breaker
  data,       \* the cache in memory: the cases it has an answer for
  dirty,      \* _dirty
  since,      \* _since_flush
  file,       \* the cache on disk
  up,         \* the provider answers, and its answers parse
  outages,    \* how often it went down
  kills,      \* how often the process was killed
  behind,     \* a write of this process failed, or an older snapshot replaced a newer
  missed      \* cases a diagnoser has skipped since the provider came up, or since a
              \* call the outage had met failed

pool     == <<next, pc, task, snap, doomed>>
cache    == <<data, dirty, since>>
provider == <<up, outages>>
history  == <<behind, missed>>
vars == <<pool, breaker, cache, file, provider, kills, history>>

Thread    == 1..Workers
Diagnoser == 0..(Workers - 1)

\* diagnosers[index % args.workers]
DiagnoserOf(w) == task[w] % Workers

----------------------------------------------------------------------------------
(* A process starts on what the file holds.                                *)

Idle  == [w \in 0..Workers |-> "idle"]
First == [w \in 0..Workers |-> 0]
Empty == [w \in 0..Workers |-> {}]
New   == [d \in Diagnoser |-> Closed]
None  == [d \in Diagnoser |-> 0]

Init ==
  /\ next = 0 /\ pc = Idle /\ task = First /\ snap = Empty /\ doomed = {}
  /\ breaker = New
  /\ data = {} /\ dirty = FALSE /\ since = 0
  /\ file = {}
  /\ up = TRUE /\ outages = 0 /\ kills = 0
  /\ behind = FALSE
  /\ missed = None

\* A thread that ends a task forgets it; a call made during an outage may fail.
Go(w, from, to) ==
  /\ pc[w] = from
  /\ pc' = [pc EXCEPT ![w] = to]
  /\ task' = [task EXCEPT ![w] = IF to = "idle" THEN 0 ELSE @]
  /\ doomed' = IF to = "calling" /\ ~up THEN doomed \union {w} ELSE doomed \ {w}

----------------------------------------------------------------------------------
(* A worker: LLMDiagnoser.propose on the next case.                        *)

\* Whether the cache has an answer for a case.
get(case) == case \in data

\* Mutant of Take: the pool hands out the same case for ever.
Take_again(w) ==
  /\ next < Tasks
  /\ pc[w] = "idle"
  /\ IF get(next) THEN UNCHANGED <<pc, task>>
     ELSE /\ pc' = [pc EXCEPT ![w] = "ask"]
          /\ task' = [task EXCEPT ![w] = next]
  /\ next' = IF get(next) THEN next ELSE next + 1
  /\ UNCHANGED <<snap, doomed, breaker, cache, file, provider, kills, history>>

\* The pool hands out the next case, and the cache is read, without the lock.
Take(w) ==
  /\ next < Tasks
  /\ pc[w] = "idle"
  /\ IF get(next) THEN UNCHANGED <<pc, task>>
     ELSE /\ pc' = [pc EXCEPT ![w] = "ask"]
          /\ task' = [task EXCEPT ![w] = next]
  /\ next' = next + 1
  /\ UNCHANGED <<snap, doomed, breaker, cache, file, provider, kills, history>>

\* is_open looks at opened_at, and calls the model if it is None.
LookAtBreaker(w) ==
  /\ Go(w, "ask", IF breaker[DiagnoserOf(w)].opened = "no" THEN "calling" ELSE "open")
  /\ UNCHANGED <<next, snap, breaker, cache, file, provider, kills, history>>

\* It looks again for the cool-down: the case degrades, or the model is called.
AskBreaker(w) ==
  LET d == DiagnoserOf(w)
      b == breaker[d]
  IN  /\ b.opened # "no"
      /\ Go(w, "open", IF Skips(b) THEN "idle" ELSE "calling")
      /\ breaker' = [breaker EXCEPT ![d] = AfterAsking(b)]
      /\ missed' = IF Skips(b) /\ up THEN [missed EXCEPT ![d] = @ + 1] ELSE missed
      /\ UNCHANGED <<next, snap, cache, file, provider, kills, behind>>

\* Another thread has closed the breaker in between: None is taken from a time, the
\* case raises, and warm.py passes over it.
BreakerClosed(w) ==
  /\ breaker[DiagnoserOf(w)].opened = "no"
  /\ Go(w, "open", "idle")
  /\ UNCHANGED <<next, snap, breaker, cache, file, provider, kills, history>>

\* An answer that parses.
Parsed(w) ==
  /\ up
  /\ Go(w, "calling", "put")
  /\ breaker' = [breaker EXCEPT ![DiagnoserOf(w)] = Closed]
  /\ UNCHANGED <<next, snap, cache, file, provider, kills, history>>

\* An error, or an answer that does not parse; a rate limit is not held against it.  The
\* timeout of a call sent during the outage may run out when it is over.
NoAnswer(w) ==
  LET d == DiagnoserOf(w)
  IN  /\ w \in doomed
      /\ Go(w, "calling", "idle")
      /\ \/ /\ breaker' = [breaker EXCEPT ![d] = record_failure(@)]
            /\ missed' = [missed EXCEPT ![d] = 0]
         \/ UNCHANGED <<breaker, missed>>
      /\ UNCHANGED <<next, snap, cache, file, provider, kills, behind>>

\* Mutant of Put: what is put is left to the final flush.
Put_only(w) ==
  /\ Go(w, "put", "idle")
  /\ data' = data \union {task[w]}
  /\ dirty' = TRUE
  /\ since' = since + 1
  /\ UNCHANGED <<next, snap, breaker, file, provider, kills, history>>

\* Mutant of Put: the cache is not marked dirty.
Put_clean(w) ==
  /\ Go(w, "put", IF since + 1 >= AutoflushEvery THEN "flush" ELSE "idle")
  /\ data' = data \union {task[w]}
  /\ since' = since + 1
  /\ UNCHANGED <<next, snap, breaker, dirty, file, provider, kills, history>>

\* put, under the lock; a flush is due every so many.
Put(w) ==
  /\ Go(w, "put", IF since + 1 >= AutoflushEvery THEN "flush" ELSE "idle")
  /\ data' = data \union {task[w]}
  /\ dirty' = TRUE
  /\ since' = since + 1
  /\ UNCHANGED <<next, snap, breaker, file, provider, kills, history>>

----------------------------------------------------------------------------------
(* flush, by a worker or, at the end, by main.                             *)

After(w) == IF w = 0 THEN "finished" ELSE "idle"

\* The unlocked look at _dirty.
NothingToFlush(w) ==
  /\ ~dirty
  /\ Go(w, "flush", After(w))
  /\ UNCHANGED <<next, snap, breaker, cache, file, provider, kills, history>>

SomethingToFlush(w) ==
  /\ dirty
  /\ Go(w, "flush", "snapshot")
  /\ UNCHANGED <<next, snap, breaker, cache, file, provider, kills, history>>

\* Under the lock: the snapshot, and the cache counts as clean.
Snapshot(w) ==
  /\ Go(w, "snapshot", "write")
  /\ snap' = [snap EXCEPT ![w] = data]
  /\ dirty' = FALSE /\ since' = 0
  /\ UNCHANGED <<next, breaker, data, file, provider, kills, history>>

\* Outside the lock: the temporary file is renamed over the cache.
Rename(w) ==
  /\ Go(w, "write", After(w))
  /\ file' = snap[w]
  /\ snap' = [snap EXCEPT ![w] = {}]
  /\ behind' = (behind \/ ~(file \subseteq snap[w]))
  /\ UNCHANGED <<next, breaker, cache, provider, kills, missed>>

\* The write raises; warm.py passes over what a task raises, and ends if main does.
WriteFails(w) ==
  /\ WritesMayFail /\ ~behind
  /\ Go(w, "write", After(w))
  /\ snap' = [snap EXCEPT ![w] = {}]
  /\ behind' = TRUE
  /\ UNCHANGED <<next, breaker, cache, file, provider, kills, missed>>

\* The pool is shut down when every case is done; then the final flush.
FinalFlush ==
  /\ next = Tasks
  /\ \A w \in Thread : pc[w] = "idle"
  /\ Go(0, "idle", "flush")
  /\ UNCHANGED <<next, snap, breaker, cache, file, provider, kills, history>>

----------------------------------------------------------------------------------
(* What happens around the process.                                        *)

ProviderComesUp ==
  /\ ~up
  /\ up' = TRUE
  /\ missed' = None
  /\ UNCHANGED <<pool, breaker, cache, file, outages, kills, behind>>

ProviderGoesDown ==
  /\ up /\ outages < MaxOutages
  /\ up' = FALSE /\ outages' = outages + 1
  /\ doomed' = {w \in Thread : pc[w] = "calling"}
  /\ UNCHANGED <<next, pc, task, snap, breaker, cache, file, kills, history>>

\* The cool-down of an open breaker runs out.
CoolDown(d) ==
  /\ breaker[d].opened = "yes"
  /\ breaker' = [breaker EXCEPT ![d].opened = "cooled"]
  /\ UNCHANGED <<pool, cache, file, provider, kills, history>>

\* The process is killed, and the batch started again.
Kill ==
  /\ pc[0] # "finished"
  /\ kills < MaxKills
  /\ next' = 0 /\ pc' = Idle /\ task' = First /\ snap' = Empty /\ doomed' = {}
  /\ breaker' = New
  /\ data' = file /\ dirty' = FALSE /\ since' = 0
  /\ kills' = kills + 1
  /\ behind' = FALSE /\ missed' = None
  /\ UNCHANGED <<file, provider>>

Work(w) ==
  \/ Take(w) \/ LookAtBreaker(w) \/ AskBreaker(w) \/ BreakerClosed(w)
  \/ Parsed(w) \/ NoAnswer(w) \/ Put(w)
  \/ NothingToFlush(w) \/ SomethingToFlush(w) \/ Snapshot(w) \/ Rename(w)

Main ==
  \/ FinalFlush
  \/ NothingToFlush(0) \/ SomethingToFlush(0) \/ Snapshot(0) \/ Rename(0)

Next ==
  \/ Main
  \/ \E w \in Thread : Work(w)
  \/ \E w \in 0..Workers : WriteFails(w)
  \/ ProviderComesUp \/ ProviderGoesDown
  \/ \E d \in Diagnoser : CoolDown(d)
  \/ Kill

\* Every thread is scheduled, and a call to the provider ends: its timeout sees to it.
Spec == Init /\ [][Next]_vars /\ WF_vars(Main) /\ \A w \in Thread : WF_vars(Work(w))

----------------------------------------------------------------------------------
TypeOK ==
  /\ next \in 0..Tasks
  /\ pc \in [0..Workers -> {"idle", "ask", "open", "calling", "put", "flush", "snapshot",
                            "write", "finished"}]
  /\ task \in [0..Workers -> 0..(Tasks - 1)]
  /\ snap \in [0..Workers -> SUBSET (0..(Tasks - 1))] /\ doomed \in SUBSET Thread
  /\ breaker \in [Diagnoser -> Breaker]
  /\ data \in SUBSET (0..(Tasks - 1)) /\ file \in SUBSET (0..(Tasks - 1))
  /\ dirty \in BOOLEAN /\ since \in 0..Tasks
  /\ up \in BOOLEAN /\ behind \in BOOLEAN
  /\ outages \in 0..MaxOutages /\ kills \in 0..MaxKills
  /\ missed \in [Diagnoser -> Nat]

\* The snapshots on their way to the disk, and those among them that hold what the
\* file does not.
Writing == {w \in 0..Workers : pc[w] = "write"}

Unwritten == {w \in Writing : ~(snap[w] \subseteq file)}

\* As long as snapshots reach the disk in the order they were taken in, and none is
\* lost on the way.  Two threads that flush may rename out of order, as cache.py:90 is
\* outside the lock: the older snapshot is then what the file keeps.
InOrder == ~behind

\* What is put between two snapshots: a flush's worth, and one answer for each thread
\* but the first that is about to flush.
Worth == AutoflushEvery + Workers - 1

\* cache.py:61-64: a kill loses no more than what was put since the last snapshot, and
\* what the snapshots hold that are still being written; each is worth a flush.
KillLosesLittle ==
  InOrder => Cardinality(data \ file) <= (1 + Cardinality(Unwritten)) * Worth

\* What a run has put, the next one reads back: nothing is in memory alone when the
\* warmer has finished.
FinishedMeansStored == InOrder /\ pc[0] = "finished" => file = data

\* llm.py:98-107: a hiccup does not poison the run.  Once the provider answers again,
\* a diagnoser passes over no more cases than it takes until a probe, for each thread
\* that may be out probing.  A call the outage had met may fail later and open the
\* breaker again, at most once for each thread; then the count is taken from there.
HiccupIsShort == \A d \in Diagnoser : missed[d] <= Workers * (ProbeAfterSkips - 1)

\* A case is degraded, answered or cached, and the pool moves on: the warmer ends,
\* whatever the provider does.
Finishes == <>(pc[0] = "finished")
==================================================================================
