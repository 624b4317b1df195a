--------------------------------- MODULE Executor --------------------------------
(***************************************************************************)
(* One recovery case driven by one process: the gate's approval, the       *)
(* executor's write-ahead intent, the call into the payments backend, the  *)
(* resolution of a write whose fate is unknown, and the state transition,  *)
(* with a crash possible between any two of them and a restart that        *)
(* rebuilds the case from the ledger (src/vasool/executor/{executor,       *)
(* resume,backend}.py, driven as src/vasool/bench/runner.py drives it).    *)
(*                                                                         *)
(* The provider is modelled from how razorpay_rest.py uses it: a write     *)
(* carries the key as its reference id, the provider performs a reference  *)
(* id at most once, and a write that timed out may still be on its way.    *)
(*                                                                         *)
(* Every case has its own keys (the case id is part of the seed), so one   *)
(* case is enough.  Clock time is not here: contacts all fall into one     *)
(* budget window.  Runner.tla has the clock and no crashes.                *)
(***************************************************************************)
EXTENDS VasoolTypes, Integers, FiniteSets, Sequences

CONSTANTS
  Actions,           \* what a diagnoser may propose: [intervention, amount]
  MaxMoneyActions,   \* policy: max_money_actions
  MaxAutoRetries,    \* policy: max_auto_retries
  MaxContacts,       \* policy: max_contacts_per_window
  MaxIntents,        \* bound: intents the ledger may hold
  MaxCrashes         \* bound: crashes of the process

ASSUME ActionsAssumption ==
  Actions \subseteq [intervention : GATED_INTERVENTIONS, amount : Nat]

ASSUME LimitsAssumption ==
  /\ MaxMoneyActions \in Nat \ {0}
  /\ MaxAutoRetries \in Nat
  /\ MaxContacts \in Nat
  /\ MaxIntents \in Nat
  /\ MaxCrashes \in Nat

VARIABLES
  ledger,     \* durable: the sequence of records on disk
  wire,       \* provider: writes sent that have not landed (a lost one never does)
  effects,    \* provider: keys that took effect (reference ids it knows)
  paid,       \* provider: the effects that collected money
  settled,    \* provider: the order is paid, by an effect or out of band
  pc,         \* process: where it is; "down" after a crash
  cur,        \* process: the key of the action in progress
  reply,      \* process: the ActionOutcome in hand
  case,       \* process: the CaseState; stale and unread while pc = "down"
  inherited,  \* history: the keys the last restart found in the ledger
  crashes     \* bound on crashes

provider == <<wire, effects, paid, settled>>
process  == <<pc, cur, reply, case>>
vars     == <<ledger, provider, process, inherited, crashes>>

----------------------------------------------------------------------------------
(* Keys, records and the case.                                             *)

Key == [intervention : GATED_INTERVENTIONS, amount : Nat, ordinal : Nat]

\* idempotency_seed: the case and the currency are the same for every key here.
action_key(a, ordinal) ==
  [intervention |-> a.intervention, amount |-> a.amount, ordinal |-> ordinal]

RecordKind ==
  {"intent", "unknown_outcome", "unresolved", "reconciled_landed",
   "reconciled_absent", "provider_error", "outcome", "stopped"}

Outcome == [executed : BOOLEAN, succeeded : BOOLEAN]

NotExecuted == [executed |-> FALSE, succeeded |-> FALSE]

\* "stopped" carries no key; NoKey fills the field.
NoKey == [intervention |-> "HANDOFF_HUMAN", amount |-> 0, ordinal |-> 0]

LedgerRecord == [kind : RecordKind, key : Key, outcome : Outcome]

Rec(kind, k) == [kind |-> kind, key |-> k, outcome |-> NotExecuted]

CaseState ==
  [status : CaseStatus, collected : BOOLEAN, attempts : Nat, ordinal : Nat,
   keys : SUBSET Key, contacts : Nat, retries : Nat]

Opened ==
  [status |-> "OPEN", collected |-> FALSE, attempts |-> 0, ordinal |-> 0,
   keys |-> {}, contacts |-> 0, retries |-> 0]

\* The positions of the records of ledger l that satisfy a test, by kind.
Intents(l)    == {i \in 1..Len(l) : l[i].kind = "intent"}
Outcomes(l)   == {i \in 1..Len(l) : l[i].kind = "outcome"}
Executed(l)   == {i \in Outcomes(l) : l[i].outcome.executed}
Unexecuted(l) == {i \in Outcomes(l) : ~l[i].outcome.executed}
Succeeded(l)  == {i \in Outcomes(l) : l[i].outcome.succeeded}

IntendedKeys(l) == {l[i].key : i \in Intents(l)}
ExecutedKeys(l) == {l[i].key : i \in Executed(l)}

\* A crash of the process, or the escape of an exception the executor does not
\* catch, may have left a copy of k on the wire: the ledger then holds an
\* earlier unknown outcome for it.
SentBefore(k) ==
  \E i \in 1..Len(ledger) : ledger[i].kind = "unknown_outcome" /\ ledger[i].key = k

----------------------------------------------------------------------------------
(* resume.rebuild: the case a restarted process continues from.  Each field*)
(* is what the loop over the ledger leaves in it.  An outcome follows its  *)
(* intent, so the loop's max(0, ...) never cuts a partial sum short.       *)

ContactIntents(l) ==
  {i \in Intents(l) : l[i].key.intervention \in CONTACT_INTERVENTIONS}

\* Mutant of rebuild_ordinal: the ordinal of the last intent, not the next one.
ordinal_of_last_intent(l) ==
  LET used == {0} \union {l[i].key.ordinal : i \in Intents(l)}
  IN  CHOOSE n \in used : \A m \in used : m <= n

rebuild_ordinal(l) ==
  LET next == {0} \union {l[i].key.ordinal + 1 : i \in Intents(l)}
  IN  CHOOSE n \in next : \A m \in next : m <= n

\* Mutants of rebuild_attempts: an attempt is undone when it did not succeed; and
\* at the provider error and at the outcome record both, with no max(0, ...).
attempts_that_succeeded(l) ==
  Cardinality(Intents(l)) - Cardinality(Outcomes(l) \ Succeeded(l))

attempts_undone_twice(l) ==
  Cardinality(Intents(l)) - Cardinality(Unexecuted(l))
    - Cardinality({i \in 1..Len(l) : l[i].kind = "provider_error"})

rebuild_attempts(l) ==
  LET n == Cardinality(Intents(l)) - Cardinality(Unexecuted(l))
  IN  IF n < 0 THEN 0 ELSE n

\* Whichever of the two closing records comes last decides the status.
rebuild_status(l) ==
  LET stops == {i \in 1..Len(l) : l[i].kind = "stopped"}
  IN  IF \E i \in stops : \A j \in Succeeded(l) : j < i THEN "STOPPED"
      ELSE IF Succeeded(l) # {} THEN "RECOVERED"
      ELSE "OPEN"

\* Mutant of rebuild: only the keys that are known to have been executed.
rebuild_optimistic(l) ==
  [status    |-> rebuild_status(l),
   collected |-> Succeeded(l) # {},
   attempts  |-> rebuild_attempts(l),
   ordinal   |-> rebuild_ordinal(l),
   keys      |-> ExecutedKeys(l),
   contacts  |-> Cardinality(ContactIntents(l)),
   retries   |-> 0]

rebuild(l) ==
  [status    |-> rebuild_status(l),
   collected |-> Succeeded(l) # {},
   attempts  |-> rebuild_attempts(l),
   ordinal   |-> rebuild_ordinal(l),
   keys      |-> IntendedKeys(l),
   contacts  |-> Cardinality(ContactIntents(l)),
   retries   |-> 0]              \* nothing in the loop appends a "retry:" note

----------------------------------------------------------------------------------
(* The gate, as far as one case under one clock instant can tell: I1 on a  *)
(* settlement read that may fail, I2 on the keys, the caps of I4, I6 and   *)
(* I7.  The remaining checks of the kernel only deny more.                 *)

I1(k, readable) ==
  /\ readable \/ k.intervention \notin MONEY_MOVING
  /\ ~(readable /\ settled)
  /\ ~case.collected

\* Mutant of I2: the executed keys are not consulted.
I2_dropped(k) == TRUE

I2(k) == k \notin case.keys

I4(k) == k.intervention \in CONTACT_INTERVENTIONS => case.contacts < MaxContacts

I6(k) == k.intervention \in RETRY_INTERVENTIONS => case.retries < MaxAutoRetries

\* Mutant of I7: off by one.
I7_inclusive == case.attempts <= MaxMoneyActions

I7 == case.attempts < MaxMoneyActions

\* A key names the action it is for, so it stands for the proposal here.
Allowed(k, readable) == I1(k, readable) /\ I2(k) /\ I4(k) /\ I6(k) /\ I7

\* The denials of this abstraction that are in the runner's TERMINAL_DENIALS.
TerminallyDenied(k, readable) ==
  /\ readable \/ k.intervention \notin MONEY_MOVING
  /\ ~Allowed(k, readable)

\* The keys of the proposals that can reach the gate: one just built, stamped
\* with the case's ordinal, or one that is delivered again.
Delivered == {action_key(a, case.ordinal) : a \in Actions} \union IntendedKeys(ledger)

----------------------------------------------------------------------------------
Init ==
  /\ ledger = <<>>
  /\ wire = {} /\ effects = {} /\ paid = {} /\ settled = FALSE
  /\ pc = "idle" /\ cur = NoKey /\ reply = NotExecuted /\ case = Opened
  /\ inherited = {} /\ crashes = 0

(***************************************************************************)
(* The process.                                                            *)
(***************************************************************************)

\* Mutant of Intend: the intent is written after the call, if at all.
Intend_unrecorded(k, readable) ==
  /\ pc = "idle"
  /\ case.status = "OPEN"
  /\ Allowed(k, readable)
  /\ cur' = k
  /\ pc' = "intended"
  /\ UNCHANGED <<ledger, provider, reply, case, inherited, crashes>>

\* The gate approves a proposal and Executor.execute writes the intent (I8).
Intend(k, readable) ==
  /\ pc = "idle"
  /\ case.status = "OPEN"
  /\ Cardinality(Intents(ledger)) < MaxIntents
  /\ Allowed(k, readable)
  /\ cur' = k
  /\ ledger' = Append(ledger, Rec("intent", k))
  /\ pc' = "intended"
  /\ UNCHANGED <<provider, reply, case, inherited, crashes>>

\* backend.execute: the write leaves the process.
Send ==
  /\ pc = "intended"
  /\ wire' = wire \union {cur}
  /\ pc' = "calling"
  /\ UNCHANGED <<ledger, effects, paid, settled, cur, reply, case, inherited, crashes>>

\* The backend answers with the outcome of the write, or finds by reference id
\* that a copy of it landed earlier.
Answered ==
  /\ pc \in {"calling", "replaying"}
  /\ cur \in effects
  /\ reply' = [executed |-> TRUE, succeeded |-> cur \in paid]
  /\ pc' = "resolved"
  /\ UNCHANGED <<ledger, provider, cur, case, inherited, crashes>>

\* The backend has no live action for this intervention: nothing is sent on.
NoLiveAction ==
  /\ pc = "calling"
  /\ cur.intervention = "HANDOFF_HUMAN"
  /\ cur \notin effects
  /\ ~SentBefore(cur)
  /\ wire' = wire \ {cur}
  /\ reply' = NotExecuted
  /\ pc' = "resolved"
  /\ UNCHANGED <<ledger, effects, paid, settled, cur, case, inherited, crashes>>

\* ProviderError: this write definitively failed.  It says nothing of a copy
\* that an earlier call with the same key may have left on the wire.
ProviderErrors ==
  /\ pc = "calling"
  /\ cur \in effects => SentBefore(cur)
  /\ wire' \in {wire \ {cur}} \union (IF SentBefore(cur) THEN {wire} ELSE {})
  /\ ledger' = Append(ledger, Rec("provider_error", cur))
  /\ reply' = NotExecuted
  /\ pc' = "resolved"
  /\ UNCHANGED <<effects, paid, settled, cur, case, inherited, crashes>>

\* Mutant of TimesOut: a timeout is taken for a failure.
TimesOut_as_failure ==
  /\ pc = "calling"
  /\ ledger' = Append(ledger, Rec("provider_error", cur))
  /\ reply' = NotExecuted
  /\ pc' = "resolved"
  /\ UNCHANGED <<provider, cur, case, inherited, crashes>>

\* UnknownOutcome: the write timed out; it may have landed, may land yet, or
\* may never land.
TimesOut ==
  /\ pc = "calling"
  /\ ledger' = Append(ledger, Rec("unknown_outcome", cur))
  /\ pc' = "reconciling"
  /\ UNCHANGED <<provider, cur, reply, case, inherited, crashes>>

\* reconcile finds the action: adopt its outcome.
FoundLanded ==
  /\ pc = "reconciling"
  /\ cur \in effects
  /\ ledger' = Append(ledger, Rec("reconciled_landed", cur))
  /\ reply' = [executed |-> TRUE, succeeded |-> cur \in paid]
  /\ pc' = "resolved"
  /\ UNCHANGED <<provider, cur, case, inherited, crashes>>

\* reconcile reads the provider and finds nothing under the key.
FoundAbsent ==
  /\ pc = "reconciling"
  /\ cur \notin effects
  /\ ledger' = Append(ledger, Rec("reconciled_absent", cur))
  /\ pc' = "absent"
  /\ UNCHANGED <<provider, cur, reply, case, inherited, crashes>>

\* ReconciliationUnknown: the read failed too.
FoundNothingOut ==
  /\ pc = "reconciling"
  /\ ledger' = Append(ledger, Rec("unresolved", cur))
  /\ reply' = NotExecuted
  /\ pc' = "resolved"
  /\ UNCHANGED <<provider, cur, case, inherited, crashes>>

\* Absence established: the same key is sent once more.
Replay ==
  /\ pc = "absent"
  /\ wire' = wire \union {cur}
  /\ pc' = "replaying"
  /\ UNCHANGED <<ledger, effects, paid, settled, cur, reply, case, inherited, crashes>>

\* The replay times out or fails.  A timeout leaves the copies on the wire.
ReplayFails ==
  /\ pc = "replaying"
  /\ reply' = NotExecuted
  /\ pc' = "resolved"
  /\ UNCHANGED <<ledger, provider, cur, case, inherited, crashes>>

\* _apply: what an executed action changes in the case.
Applied(c, k, o) ==
  IF ~o.executed THEN c
  ELSE [c EXCEPT
         !.attempts  = @ + 1,
         !.ordinal   = @ + 1,
         !.keys      = @ \union {k},
         !.contacts  = IF k.intervention \in CONTACT_INTERVENTIONS THEN @ + 1 ELSE @,
         !.retries   = IF k.intervention \in RETRY_INTERVENTIONS THEN @ + 1 ELSE @,
         !.collected = @ \/ o.succeeded,
         !.status    = IF o.succeeded THEN "RECOVERED" ELSE @]

\* _apply and the outcome record.  A crash between the two loses the memory
\* the first one wrote, which is a crash before this step.
Finish ==
  /\ pc = "resolved"
  /\ case' = Applied(case, cur, reply)
  /\ ledger' = Append(ledger, [kind |-> "outcome", key |-> cur, outcome |-> reply])
  /\ pc' = "idle"
  /\ UNCHANGED <<provider, cur, reply, inherited, crashes>>

\* The diagnoser proposes STOP: the runner closes the case and records it.
Stop ==
  /\ pc = "idle"
  /\ case.status = "OPEN"
  /\ case' = [case EXCEPT !.status = "STOPPED"]
  /\ ledger' = Append(ledger, Rec("stopped", NoKey))
  /\ UNCHANGED <<provider, pc, cur, reply, inherited, crashes>>

\* A terminal denial: the runner closes the case in memory only.
CloseOnDenial(k, readable) ==
  /\ pc = "idle"
  /\ case.status = "OPEN"
  /\ TerminallyDenied(k, readable)
  /\ case' = [case EXCEPT !.status =
                IF I1(k, readable) THEN "STOPPED" ELSE "RECOVERED"]
  /\ UNCHANGED <<ledger, provider, pc, cur, reply, inherited, crashes>>

\* The process dies, or an exception the executor does not catch ends the run
\* (a duplicate reference id whose lookup fails raises ReconciliationUnknown
\* out of backend.execute).
Crash ==
  /\ pc # "down"
  /\ crashes < MaxCrashes
  /\ crashes' = crashes + 1
  /\ pc' = "down"
  /\ UNCHANGED <<ledger, provider, cur, reply, case, inherited>>

\* A new process loads the ledger and continues from what rebuild returns.
Restart ==
  /\ pc = "down"
  /\ case' = rebuild(ledger)
  /\ inherited' = IntendedKeys(ledger)
  /\ pc' = "idle"
  /\ UNCHANGED <<ledger, provider, cur, reply, crashes>>

(***************************************************************************)
(* The provider and the customer.                                          *)
(***************************************************************************)

\* A write arrives.  A reference id the provider already knows is refused.  A
\* replayed instrument collects on the spot or not at all; the simulator
\* settles the other actions at once as well.
Land(k) ==
  /\ k \in wire
  /\ wire' = wire \ {k}
  /\ effects' = effects \union {k}
  /\ \/ UNCHANGED <<paid, settled>>
     \/ /\ k \notin effects
        /\ paid' = paid \union {k}
        /\ settled' = TRUE
  /\ UNCHANGED <<ledger, process, inherited, crashes>>

\* The customer pays through a link that was sent.
PayLink(k) ==
  /\ k \in effects \ paid
  /\ k.intervention \in LINK_INTERVENTIONS
  /\ paid' = paid \union {k}
  /\ settled' = TRUE
  /\ UNCHANGED <<ledger, wire, effects, process, inherited, crashes>>

\* The customer pays by some other route.
PayOutOfBand ==
  /\ ~settled
  /\ settled' = TRUE
  /\ UNCHANGED <<ledger, wire, effects, paid, process, inherited, crashes>>

----------------------------------------------------------------------------------
Resolve ==
  \/ Answered \/ NoLiveAction \/ ProviderErrors \/ TimesOut
  \/ FoundLanded \/ FoundAbsent \/ FoundNothingOut \/ Replay \/ ReplayFails

Next ==
  \/ \E k \in Delivered, readable \in BOOLEAN :
       Intend(k, readable) \/ CloseOnDenial(k, readable)
  \/ Send \/ Resolve \/ Finish \/ Stop \/ Crash \/ Restart
  \/ \E k \in wire \union effects : Land(k) \/ PayLink(k)
  \/ PayOutOfBand

Spec == Init /\ [][Next]_vars
----------------------------------------------------------------------------------
(* What a run of this case promises.                                       *)

TypeOK ==
  /\ ledger \in Seq(LedgerRecord)
  /\ wire \subseteq Key /\ effects \subseteq Key /\ paid \subseteq effects
  /\ settled \in BOOLEAN
  /\ pc \in {"idle", "intended", "calling", "reconciling", "absent", "replaying",
             "resolved", "down"}
  /\ cur \in Key
  /\ reply \in Outcome
  /\ case \in CaseState
  /\ inherited \subseteq Key
  /\ crashes \in 0..MaxCrashes

Busy == pc \notin {"idle", "down"}

\* I8, across crashes: whatever is on its way to the provider or has taken
\* effect there has its intent in the ledger.
WriteAhead == wire \union effects \subseteq IntendedKeys(ledger)

\* resume.rebuild is pessimistic: at every moment a crash could happen, the
\* case it would return has at least the keys, the attempts and the contacts
\* of the case in memory.
RebuildPessimistic ==
  pc # "down" =>
    LET r == rebuild(ledger)
    IN  /\ case.keys \subseteq r.keys
        /\ case.attempts <= r.attempts
        /\ case.contacts <= r.contacts

\* I2, across crashes: no key a previous process wrote an intent for is ever
\* sent by a later one, whatever became of it.
NoReplayAcrossRestart ==
  [][wire' \ wire # {} => cur \notin inherited]_vars

\* invariants.py:120-122: "a genuinely new decision computes a different [key]
\* and proceeds."  The ordinal of the next decision, kept in memory or rebuilt,
\* is one no executed key carries, so I2 never refuses a new decision.
NewDecisionIsFresh ==
  pc = "idle" => \A a \in Actions : I2(action_key(a, case.ordinal))

\* I2: once the ledger says a key was executed, no further intent carries it,
\* and no second outcome says so again.
ExecutedOnce ==
  \A i \in Executed(ledger) : \A j \in (i + 1)..Len(ledger) :
    ledger[j].key = ledger[i].key => ledger[j].kind \notin {"intent", "outcome"}

\* The records of key k that end a call: without one after the last intent the
\* call was in flight when the process died, or still is.
Open(k) ==
  \E i \in Intents(ledger) :
    /\ ledger[i].key = k
    /\ \A j \in Outcomes(ledger) : j > i => ledger[j].key # k

\* An effect is never on record as a clean failure: the ledger reports it
\* executed, or shows that the fate of one of its writes was unknown, or shows
\* an intent that no outcome answers.
NoSilentEffect ==
  \A k \in effects :
    \/ k \in ExecutedKeys(ledger)
    \/ SentBefore(k)
    \/ Open(k)

\* I7, I6 and I4 count across crashes: the actions the ledger reports executed
\* never exceed the attempt cap, nor its contacts the contact budget.
CapsSurviveRestart ==
  /\ Cardinality(Executed(ledger)) <= MaxMoneyActions
  /\ Cardinality({i \in Executed(ledger) :
                    ledger[i].key.intervention \in CONTACT_INTERVENTIONS})
       <= MaxContacts

\* The ledger implements the audit trail: recorded, then done, then reported.
Audit == INSTANCE AuditTrail
           WITH Keys     <- Key,
                recorded <- IntendedKeys(ledger),
                done     <- effects,
                reported <- ExecutedKeys(ledger)

AuditSpec == Audit!Spec

----------------------------------------------------------------------------------
(* What the repository says of the program and the code does not do.       *)

\* resume.py:41-42: "Everything mutable is derived from the chain."  So the
\* retries on record never exceed the cap on auto-retries.
RetryCapSurvivesRestart ==
  Cardinality({i \in Executed(ledger) :
                 ledger[i].key.intervention \in RETRY_INTERVENTIONS})
    <= MaxAutoRetries

\* invariants.py:116-119: "One intent produces at most one money action,
\* forever.  Prevents: a model retry, a process crash mid-batch, or a duplicate
\* webhook turning one recovery into two charges."  types.py:320-321: "a
\* process that dies and resumes computes the same key for the same decision."
\* So the same action takes effect under a second key only after an outcome
\* closed the first.
CrashNeverDoubles ==
  \A k1, k2 \in effects :
    /\ k1.ordinal < k2.ordinal
    /\ k1.intervention = k2.intervention
    /\ k1.amount = k2.amount
    => \E i \in Outcomes(ledger) : ledger[i].key = k1
==================================================================================
