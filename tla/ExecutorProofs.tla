------------------------------ MODULE ExecutorProofs -----------------------------
(***************************************************************************)
(* Theorems about Executor.tla, for every set of actions, every policy     *)
(* limit and every bound: type correctness, the write-ahead rule, no       *)
(* replay across a restart, the refinement of AuditTrail.tla; and, from a  *)
(* second invariant over the first, what the ledger counts: pessimistic    *)
(* rebuild, fresh decisions, one execution a key, no silent effect, caps.  *)
(***************************************************************************)
EXTENDS Executor, SequenceTheorems, FiniteSetTheorems, WellFoundedInduction, TLAPS

----------------------------------------------------------------------------------
(* What one more record does to what the ledger says.                      *)

LEMMA AppendRecord ==
  ASSUME NEW l \in Seq(LedgerRecord), NEW r \in LedgerRecord
  PROVE  /\ Append(l, r) \in Seq(LedgerRecord)
         /\ Len(Append(l, r)) = Len(l) + 1
         /\ Len(l) \in Nat
         /\ \A i \in 1..Len(l) : Append(l, r)[i] = l[i]
         /\ Append(l, r)[Len(l) + 1] = r
  BY AppendProperties, LenProperties

LEMMA AppendIntents ==
  ASSUME NEW l \in Seq(LedgerRecord), NEW r \in LedgerRecord
  PROVE  Intents(Append(l, r)) =
           Intents(l) \union (IF r.kind = "intent" THEN {Len(l) + 1} ELSE {})
  BY AppendRecord DEF Intents

LEMMA AppendExecuted ==
  ASSUME NEW l \in Seq(LedgerRecord), NEW r \in LedgerRecord
  PROVE  Executed(Append(l, r)) =
           Executed(l) \union
             (IF r.kind = "outcome" /\ r.outcome.executed THEN {Len(l) + 1} ELSE {})
  BY AppendRecord DEF Executed, Outcomes

LEMMA AppendIntendedKeys ==
  ASSUME NEW l \in Seq(LedgerRecord), NEW r \in LedgerRecord
  PROVE  IntendedKeys(Append(l, r)) =
           IntendedKeys(l) \union (IF r.kind = "intent" THEN {r.key} ELSE {})
  <1>1. \A i \in Intents(l) : Append(l, r)[i] = l[i]
    BY AppendRecord DEF Intents
  <1>2. Append(l, r)[Len(l) + 1] = r
    BY AppendRecord
  <1> DEFINE m == Append(l, r)
  <1>3. CASE r.kind = "intent"
    <2>1. Intents(m) = Intents(l) \union {Len(l) + 1}
      BY <1>3, AppendIntents
    <2>2. {m[i].key : i \in Intents(m)} = {m[i].key : i \in Intents(l)} \union {m[Len(l) + 1].key}
      BY <2>1
    <2>3. {m[i].key : i \in Intents(l)} = {l[i].key : i \in Intents(l)}
      BY <1>1
    <2> QED
      BY <1>2, <1>3, <2>2, <2>3 DEF IntendedKeys
  <1>4. CASE r.kind # "intent"
    <2>1. Intents(m) = Intents(l)
      BY <1>4, AppendIntents
    <2>2. {m[i].key : i \in Intents(l)} = {l[i].key : i \in Intents(l)}
      BY <1>1
    <2> QED
      BY <1>4, <2>1, <2>2 DEF IntendedKeys
  <1> QED
    BY <1>3, <1>4

LEMMA AppendExecutedKeys ==
  ASSUME NEW l \in Seq(LedgerRecord), NEW r \in LedgerRecord
  PROVE  ExecutedKeys(Append(l, r)) =
           ExecutedKeys(l) \union
             (IF r.kind = "outcome" /\ r.outcome.executed THEN {r.key} ELSE {})
  <1>1. \A i \in Executed(l) : Append(l, r)[i] = l[i]
    BY AppendRecord DEF Executed, Outcomes
  <1>2. Append(l, r)[Len(l) + 1] = r
    BY AppendRecord
  <1>3. CASE r.kind = "outcome" /\ r.outcome.executed
    <2>1. Executed(Append(l, r)) = Executed(l) \union {Len(l) + 1}
      BY <1>3, AppendExecuted
    <2>2. ExecutedKeys(Append(l, r)) = ExecutedKeys(l) \union {r.key}
      BY <1>1, <1>2, <2>1 DEF ExecutedKeys
    <2> QED
      BY <1>3, <2>2
  <1>4. CASE ~(r.kind = "outcome" /\ r.outcome.executed)
    <2>1. Executed(Append(l, r)) = Executed(l)
      BY <1>4, AppendExecuted
    <2> QED
      BY <1>1, <1>4, <2>1 DEF ExecutedKeys
  <1> QED
    BY <1>3, <1>4

LEMMA KeysOfALedger ==
  ASSUME NEW l \in Seq(LedgerRecord)
  PROVE  IntendedKeys(l) \subseteq Key
  <1>1. \A i \in 1..Len(l) : l[i] \in LedgerRecord
    BY ElementOfSeq
  <1>2. \A i \in 1..Len(l) : l[i].key \in Key
    BY <1>1 DEF LedgerRecord
  <1> QED
    BY <1>2 DEF IntendedKeys, Intents

----------------------------------------------------------------------------------
(* A set of naturals with an upper bound has a greatest element, so the    *)
(* ordinal that rebuild chooses is one.                                    *)

LEMMA BoundedSetHasMax ==
  ASSUME NEW S \in SUBSET Nat, S # {}, NEW b \in Nat, \A s \in S : s <= b
  PROVE  \E m \in S : \A s \in S : s <= m
  <1> DEFINE R == OpToRel(<, Nat)
             T == {n \in Nat : \A s \in S : s <= n}
  <1>1. b \in T
    OBVIOUS
  <1>2. PICK m \in T : \A n \in T : <<n, m>> \notin R
    BY <1>1, WFMin, NatLessThanWellFounded
  <1>3. \A n \in T : ~(n < m)
    BY <1>2 DEF OpToRel
  <1>4. m \in S
    <2> SUFFICES ASSUME m \notin S PROVE FALSE
      OBVIOUS
    <2>1. \A s \in S : s <= m /\ s # m
      OBVIOUS
    <2>2. m # 0
      <3>1. PICK s \in S : TRUE
        OBVIOUS
      <3> QED
        BY <2>1, <3>1
    <2>3. m - 1 \in T
      BY <2>1, <2>2
    <2> QED
      BY <2>3, <1>3
  <1> QED
    BY <1>4

\* The ordinals of the intents stay below the length of the ledger.
OrdinalsBelowLength(l) == \A i \in Intents(l) : l[i].key.ordinal < Len(l)

LEMMA AppendOrdinals ==
  ASSUME NEW l \in Seq(LedgerRecord), NEW r \in LedgerRecord,
         OrdinalsBelowLength(l),
         r.kind = "intent" => r.key.ordinal <= Len(l)
  PROVE  OrdinalsBelowLength(Append(l, r))
  <1>1. \A i \in Intents(l) : i \in 1..Len(l) /\ l[i].key.ordinal \in Nat
    BY KeysOfALedger DEF IntendedKeys, Key, Intents
  <1>2. r.key.ordinal \in Nat
    BY DEF LedgerRecord, Key
  <1> QED
    BY <1>1, <1>2, AppendRecord, AppendIntents DEF OrdinalsBelowLength

\* The ordinal that rebuild chooses is above every ordinal on record.
LEMMA RebuiltOrdinal ==
  ASSUME NEW l \in Seq(LedgerRecord), OrdinalsBelowLength(l)
  PROVE  /\ rebuild_ordinal(l) \in 0..Len(l)
         /\ \A k \in IntendedKeys(l) : k.ordinal < rebuild_ordinal(l)
  <1> DEFINE next == {0} \union {l[i].key.ordinal + 1 : i \in Intents(l)}
  <1>1. \A i \in Intents(l) : l[i].key.ordinal \in Nat
    BY KeysOfALedger DEF IntendedKeys, Key
  <1>2. Len(l) \in Nat
    BY LenProperties
  <1>3. next \in SUBSET Nat /\ next # {} /\ \A n \in next : n <= Len(l)
    BY <1>1, <1>2 DEF OrdinalsBelowLength
  <1>4. \E n \in next : \A m \in next : m <= n
    <2> HIDE DEF next
    <2> QED BY <1>2, <1>3, BoundedSetHasMax
  <1>5. rebuild_ordinal(l) \in next /\ \A m \in next : m <= rebuild_ordinal(l)
    BY <1>4 DEF rebuild_ordinal
  <1>6. rebuild_ordinal(l) \in 0..Len(l)
    BY <1>2, <1>3, <1>5
  <1>7. \A i \in Intents(l) : l[i].key.ordinal + 1 <= rebuild_ordinal(l)
    BY <1>5
  <1> QED
    BY <1>1, <1>6, <1>7 DEF IntendedKeys

LEMMA RebuiltCase ==
  ASSUME NEW l \in Seq(LedgerRecord), OrdinalsBelowLength(l)
  PROVE  rebuild(l) \in CaseState
  <1>1. IsFiniteSet(1..Len(l))
    BY LenProperties, FS_Interval
  <1>2. Cardinality(Intents(l)) \in Nat
    BY <1>1, FS_Subset, FS_CardinalityType DEF Intents
  <1>3. Cardinality(Unexecuted(l)) \in Nat
    BY <1>1, FS_Subset, FS_CardinalityType DEF Unexecuted, Outcomes
  <1>4. Cardinality(ContactIntents(l)) \in Nat
    BY <1>1, FS_Subset, FS_CardinalityType DEF ContactIntents, Intents
  <1>5. rebuild_attempts(l) \in Nat
    BY <1>2, <1>3 DEF rebuild_attempts
  <1>6. rebuild_ordinal(l) \in Nat
    BY RebuiltOrdinal, LenProperties
  <1>7. rebuild_status(l) \in CaseStatus
    BY DEF rebuild_status, CaseStatus
  <1> QED
    BY <1>4, <1>5, <1>6, <1>7, KeysOfALedger DEF rebuild, CaseState

----------------------------------------------------------------------------------
(* The inductive invariant.  WriteAhead alone is not inductive: a step that*)
(* sends cur must know that cur is recorded, and a step that reports cur   *)
(* must know that it took effect.                                          *)

\* The key in progress has its intent.
CurRecorded == Busy => cur \in IntendedKeys(ledger)

\* An outcome in hand, and one on record, is only executed if it happened.
Honest ==
  /\ pc = "resolved" /\ reply.executed => cur \in effects
  /\ ExecutedKeys(ledger) \subseteq effects

\* What the last restart found is in the case, and is not in progress.
InheritedKept ==
  /\ pc # "down" => inherited \subseteq case.keys
  /\ Busy => cur \notin inherited

OrdinalsBounded ==
  /\ OrdinalsBelowLength(ledger)
  /\ case.ordinal <= Len(ledger)

IInv ==
  /\ TypeOK
  /\ WriteAhead
  /\ CurRecorded
  /\ Honest
  /\ InheritedKept
  /\ OrdinalsBounded

LEMMA InitInv == Init => IInv
  <1> SUFFICES ASSUME Init PROVE IInv
    OBVIOUS
  <1>1. ledger = <<>> /\ ledger \in Seq(LedgerRecord) /\ Len(ledger) = 0
    BY EmptySeq DEF Init
  <1>2. Intents(ledger) = {} /\ Executed(ledger) = {}
    BY <1>1 DEF Intents, Executed, Outcomes
  <1>3. IntendedKeys(ledger) = {} /\ ExecutedKeys(ledger) = {}
    BY <1>2 DEF IntendedKeys, ExecutedKeys
  <1>4. NoKey \in Key
    BY DEF NoKey, Key, GATED_INTERVENTIONS
  <1>5. Opened \in CaseState
    BY DEF Opened, CaseState, CaseStatus
  <1>6. NotExecuted \in Outcome
    BY DEF NotExecuted, Outcome
  <1>7. crashes \in 0..MaxCrashes
    BY LimitsAssumption DEF Init
  <1>8. TypeOK
    BY <1>1, <1>4, <1>5, <1>6, <1>7 DEF Init, TypeOK
  <1> QED
    BY <1>1, <1>2, <1>3, <1>8
    DEF Init, IInv, WriteAhead, CurRecorded, Honest, InheritedKept, OrdinalsBounded,
        OrdinalsBelowLength, Busy, Opened

\* A record that is neither an intent nor an outcome leaves alone what the
\* ledger says of keys; this is the ledger part of most steps.
LEMMA OtherRecord ==
  ASSUME IInv, NEW kind \in RecordKind \ {"intent", "outcome"}, NEW k \in Key
  PROVE  LET l == Append(ledger, Rec(kind, k))
         IN  /\ l \in Seq(LedgerRecord)
             /\ Len(l) = Len(ledger) + 1
             /\ IntendedKeys(l) = IntendedKeys(ledger)
             /\ ExecutedKeys(l) = ExecutedKeys(ledger)
             /\ OrdinalsBelowLength(l)
  <1> DEFINE r == Rec(kind, k)
  <1>1. r \in LedgerRecord /\ r.kind = kind
    BY DEF Rec, LedgerRecord, NotExecuted, Outcome
  <1>2. ledger \in Seq(LedgerRecord) /\ OrdinalsBelowLength(ledger)
    BY DEF IInv, TypeOK, OrdinalsBounded
  <1> HIDE DEF r
  <1>3. IntendedKeys(Append(ledger, r)) = IntendedKeys(ledger)
    BY <1>1, <1>2, AppendIntendedKeys
  <1>4. ExecutedKeys(Append(ledger, r)) = ExecutedKeys(ledger)
    BY <1>1, <1>2, AppendExecutedKeys
  <1>5. OrdinalsBelowLength(Append(ledger, r))
    BY <1>1, <1>2, AppendOrdinals
  <1> QED
    BY <1>1, <1>2, <1>3, <1>4, <1>5, AppendRecord DEF r

LEMMA IntendInv ==
  ASSUME IInv, NEW k \in Delivered, NEW readable \in BOOLEAN, Intend(k, readable)
  PROVE  IInv'
  <1> DEFINE r == Rec("intent", k)
  <1> USE DEF IInv
  <1>1. case.ordinal \in Nat /\ case.ordinal <= Len(ledger) /\ Len(ledger) \in Nat
    BY LenProperties DEF TypeOK, CaseState, OrdinalsBounded
  <1>2. k \in Key /\ k.ordinal <= Len(ledger)
    <2>1. CASE k \in IntendedKeys(ledger)
      <3>1. PICK i \in Intents(ledger) : k = ledger[i].key
        BY <2>1 DEF IntendedKeys
      <3>2. k \in Key
        BY <2>1, KeysOfALedger DEF TypeOK
      <3> QED
        BY <1>1, <3>1, <3>2 DEF OrdinalsBounded, OrdinalsBelowLength, Key
    <2>2. CASE \E a \in Actions : k = action_key(a, case.ordinal)
      BY <1>1, <2>2, ActionsAssumption DEF action_key, Key
    <2> QED
      BY <2>1, <2>2 DEF Delivered
  <1>3. r \in LedgerRecord /\ r.kind = "intent" /\ r.key = k
    BY <1>2 DEF Rec, LedgerRecord, RecordKind, NotExecuted, Outcome
  <1>4. ledger \in Seq(LedgerRecord) /\ ledger' = Append(ledger, r)
    BY DEF Intend, TypeOK
  <1> HIDE DEF r
  <1>5. /\ ledger' \in Seq(LedgerRecord)
        /\ Len(ledger') = Len(ledger) + 1
        /\ IntendedKeys(ledger') = IntendedKeys(ledger) \union {k}
        /\ ExecutedKeys(ledger') = ExecutedKeys(ledger)
        /\ OrdinalsBelowLength(ledger')
    <2>1. IntendedKeys(ledger') = IntendedKeys(ledger) \union {k}
      BY <1>3, <1>4, AppendIntendedKeys
    <2>2. ExecutedKeys(ledger') = ExecutedKeys(ledger)
      BY <1>3, <1>4, AppendExecutedKeys
    <2>3. OrdinalsBelowLength(ledger')
      BY <1>2, <1>3, <1>4, AppendOrdinals DEF OrdinalsBounded
    <2> QED
      BY <1>3, <1>4, <2>1, <2>2, <2>3, AppendRecord
  <1>6. TypeOK'
    BY <1>2, <1>5 DEF TypeOK, Intend, provider
  <1>7. WriteAhead' /\ CurRecorded'
    BY <1>5 DEF WriteAhead, CurRecorded, Intend, provider
  <1>8. Honest'
    BY <1>5 DEF Honest, Intend, provider
  <1>9. InheritedKept'
    BY DEF InheritedKept, Intend, Allowed, I2, Busy
  <1>10. OrdinalsBounded'
    BY <1>1, <1>5 DEF OrdinalsBounded, Intend
  <1> QED
    BY <1>6, <1>7, <1>8, <1>9, <1>10

\* What every step inside a call has in common, the ledger apart: it sends at
\* most cur, and takes an executed outcome in hand only for an effect.
CallStep ==
  /\ Busy /\ pc' \in {"calling", "reconciling", "absent", "replaying", "resolved"}
  /\ wire' \subseteq wire \union {cur}
  /\ \/ reply' = reply /\ pc' # "resolved"
     \/ reply' = NotExecuted
     \/ cur \in effects /\ reply' \in Outcome
  /\ UNCHANGED <<effects, paid, settled, cur, case, inherited, crashes>>

LEMMA CallStepInv ==
  ASSUME IInv, CallStep,
         ledger' \in Seq(LedgerRecord),
         Len(ledger') \in {Len(ledger), Len(ledger) + 1},
         IntendedKeys(ledger') = IntendedKeys(ledger),
         ExecutedKeys(ledger') = ExecutedKeys(ledger),
         OrdinalsBelowLength(ledger')
  PROVE  IInv'
  <1> USE DEF IInv, CallStep
  <1>1. NotExecuted \in Outcome /\ ~NotExecuted.executed
    BY DEF NotExecuted, Outcome
  <1>2. reply' \in Outcome
    BY <1>1 DEF TypeOK
  <1>3. TypeOK'
    BY <1>2 DEF TypeOK
  <1>4. WriteAhead' /\ CurRecorded'
    BY DEF WriteAhead, CurRecorded, Busy
  <1>5. Honest'
    BY <1>1 DEF Honest
  <1>6. InheritedKept'
    BY DEF InheritedKept, Busy
  <1>7. OrdinalsBounded'
    <2>1. case.ordinal \in Nat /\ Len(ledger) \in Nat
      BY LenProperties DEF TypeOK, CaseState
    <2> QED
      BY <2>1 DEF OrdinalsBounded
  <1> QED
    BY <1>3, <1>4, <1>5, <1>6, <1>7

\* The steps inside a call that write a record of their own.
LEMMA CallRecordInv ==
  ASSUME IInv,
         ProviderErrors \/ TimesOut \/ FoundLanded \/ FoundAbsent \/ FoundNothingOut
  PROVE  IInv'
  <1> USE DEF IInv
  <1> DEFINE quiet == RecordKind \ {"intent", "outcome"}
  <1>1. PICK kind \in quiet : ledger' = Append(ledger, Rec(kind, cur))
    <2>1. {"unknown_outcome", "unresolved", "reconciled_landed", "reconciled_absent",
           "provider_error"} \subseteq quiet
      BY DEF RecordKind
    <2> HIDE DEF quiet
    <2>2. CASE ProviderErrors
      BY <2>1, <2>2 DEF ProviderErrors
    <2>3. CASE TimesOut
      BY <2>1, <2>3 DEF TimesOut
    <2>4. CASE FoundLanded
      BY <2>1, <2>4 DEF FoundLanded
    <2>5. CASE FoundAbsent
      BY <2>1, <2>5 DEF FoundAbsent
    <2>6. CASE FoundNothingOut
      BY <2>1, <2>6 DEF FoundNothingOut
    <2> QED
      BY <2>2, <2>3, <2>4, <2>5, <2>6
  <1>2. /\ ledger' \in Seq(LedgerRecord)
        /\ Len(ledger') = Len(ledger) + 1
        /\ IntendedKeys(ledger') = IntendedKeys(ledger)
        /\ ExecutedKeys(ledger') = ExecutedKeys(ledger)
        /\ OrdinalsBelowLength(ledger')
    BY <1>1, OtherRecord DEF TypeOK
  <1>3. CallStep
    <2>1. CASE ProviderErrors
      BY <2>1 DEF ProviderErrors, CallStep, Busy, provider
    <2>2. CASE TimesOut
      BY <2>2 DEF TimesOut, CallStep, Busy, provider
    <2>3. CASE FoundLanded
      BY <2>3 DEF FoundLanded, CallStep, Busy, provider, Outcome
    <2>4. CASE FoundAbsent
      BY <2>4 DEF FoundAbsent, CallStep, Busy, provider
    <2>5. CASE FoundNothingOut
      BY <2>5 DEF FoundNothingOut, CallStep, Busy, provider
    <2> QED
      BY <2>1, <2>2, <2>3, <2>4, <2>5
  <1> QED
    BY <1>2, <1>3, CallStepInv

\* The steps inside a call that leave the ledger alone.
LEMMA CallQuietInv ==
  ASSUME IInv, Send \/ Answered \/ NoLiveAction \/ Replay \/ ReplayFails
  PROVE  IInv'
  <1> USE DEF IInv
  <1>1. CallStep /\ UNCHANGED ledger
    <2>1. CASE Send
      BY <2>1 DEF Send, CallStep, Busy
    <2>2. CASE Answered
      BY <2>2 DEF Answered, CallStep, Busy, provider, Outcome
    <2>3. CASE NoLiveAction
      BY <2>3 DEF NoLiveAction, CallStep, Busy
    <2>4. CASE Replay
      BY <2>4 DEF Replay, CallStep, Busy
    <2>5. CASE ReplayFails
      BY <2>5 DEF ReplayFails, CallStep, Busy, provider
    <2> QED
      BY <2>1, <2>2, <2>3, <2>4, <2>5
  <1>2. ledger \in Seq(LedgerRecord) /\ Len(ledger) \in Nat /\ OrdinalsBelowLength(ledger)
    BY LenProperties DEF TypeOK, OrdinalsBounded
  <1> QED
    BY <1>1, <1>2, CallStepInv

\* _apply advances the ordinal by at most one and keeps every executed key.
LEMMA AppliedCase ==
  ASSUME NEW c \in CaseState, NEW k \in Key, NEW o \in Outcome
  PROVE  /\ Applied(c, k, o) \in CaseState
         /\ c.keys \subseteq Applied(c, k, o).keys
         /\ Applied(c, k, o).ordinal \in {c.ordinal, c.ordinal + 1}
  <1>1. CASE ~o.executed
    BY <1>1 DEF Applied, CaseState
  <1>2. CASE o.executed
    <2> DEFINE d == Applied(c, k, o)
    <2>1. d = [status    |-> IF o.succeeded THEN "RECOVERED" ELSE c.status,
               collected |-> c.collected \/ o.succeeded,
               attempts  |-> c.attempts + 1,
               ordinal   |-> c.ordinal + 1,
               keys      |-> c.keys \union {k},
               contacts  |-> IF k.intervention \in CONTACT_INTERVENTIONS
                               THEN c.contacts + 1 ELSE c.contacts,
               retries   |-> IF k.intervention \in RETRY_INTERVENTIONS
                               THEN c.retries + 1 ELSE c.retries]
      BY <1>2 DEF Applied, CaseState
    <2>2. d.status \in CaseStatus
      BY <2>1 DEF CaseState, CaseStatus
    <2>3. (c.collected \/ o.succeeded) \in BOOLEAN
      BY DEF CaseState, Outcome
    <2>4. c.attempts + 1 \in Nat /\ c.ordinal + 1 \in Nat
      BY DEF CaseState
    <2>5. d.contacts \in Nat /\ d.retries \in Nat
      BY <2>1 DEF CaseState
    <2>6. c.keys \union {k} \in SUBSET Key
      BY DEF CaseState
    <2>7. d \in CaseState
      BY <2>1, <2>2, <2>3, <2>4, <2>5, <2>6 DEF CaseState
    <2> QED
      BY <2>1, <2>7
  <1> QED
    BY <1>1, <1>2

LEMMA FinishInv ==
  ASSUME IInv, Finish
  PROVE  IInv'
  <1> DEFINE r == [kind |-> "outcome", key |-> cur, outcome |-> reply]
  <1> USE DEF IInv
  <1>1. r \in LedgerRecord /\ r.kind = "outcome" /\ r.key = cur /\ r.outcome = reply
    BY DEF TypeOK, LedgerRecord, RecordKind
  <1>2. ledger \in Seq(LedgerRecord) /\ ledger' = Append(ledger, r)
    BY DEF Finish, TypeOK
  <1> HIDE DEF r
  <1>3. IntendedKeys(ledger') = IntendedKeys(ledger)
    BY <1>1, <1>2, AppendIntendedKeys
  <1>4. ExecutedKeys(ledger') \subseteq effects
    <2>1. CASE reply.executed
      <3>1. ExecutedKeys(ledger') \subseteq ExecutedKeys(ledger) \union {cur}
        BY <1>1, <1>2, AppendExecutedKeys
      <3>2. cur \in effects
        BY <2>1 DEF Honest, Finish
      <3> QED
        BY <3>1, <3>2 DEF Honest
    <2>2. CASE ~reply.executed
      <3>1. ExecutedKeys(ledger') = ExecutedKeys(ledger)
        BY <1>1, <1>2, <2>2, AppendExecutedKeys
      <3> QED
        BY <3>1 DEF Honest
    <2> QED
      BY <2>1, <2>2
  <1>5. OrdinalsBelowLength(ledger')
    BY <1>1, <1>2, AppendOrdinals DEF OrdinalsBounded
  <1>6. /\ ledger' \in Seq(LedgerRecord)
        /\ Len(ledger') = Len(ledger) + 1
        /\ Len(ledger) \in Nat
    BY <1>1, <1>2, AppendRecord
  <1>7. case' \in CaseState /\ case.keys \subseteq case'.keys
        /\ case'.ordinal \in {case.ordinal, case.ordinal + 1}
    BY AppliedCase DEF Finish, TypeOK
  <1>8. TypeOK'
    BY <1>6, <1>7 DEF TypeOK, Finish, provider
  <1>9. WriteAhead' /\ CurRecorded' /\ Honest'
    BY <1>3, <1>4 DEF WriteAhead, CurRecorded, Honest, Busy, Finish, provider
  <1>10. InheritedKept'
    BY <1>7 DEF InheritedKept, Busy, Finish
  <1>11. OrdinalsBounded'
    <2>1. case.ordinal \in Nat
      BY DEF TypeOK, CaseState
    <2> QED
      BY <1>5, <1>6, <1>7, <2>1 DEF OrdinalsBounded
  <1> QED
    BY <1>8, <1>9, <1>10, <1>11

\* The runner closes the case between two calls.
LEMMA CloseInv ==
  ASSUME IInv, Stop \/ \E k \in Delivered, readable \in BOOLEAN : CloseOnDenial(k, readable)
  PROVE  IInv'
  <1> USE DEF IInv
  <1>1. PICK status \in CaseStatus : case' = [case EXCEPT !.status = status]
    BY DEF Stop, CloseOnDenial, CaseStatus
  <1>2. case' \in CaseState /\ case'.keys = case.keys /\ case'.ordinal = case.ordinal
    BY <1>1 DEF TypeOK, CaseState
  <1>3. pc = "idle" /\ UNCHANGED <<provider, pc, cur, reply, inherited, crashes>>
    BY DEF Stop, CloseOnDenial
  <1>4. NoKey \in Key /\ "stopped" \in RecordKind \ {"intent", "outcome"}
    BY DEF NoKey, Key, GATED_INTERVENTIONS, RecordKind
  <1>5. /\ ledger' \in Seq(LedgerRecord)
        /\ Len(ledger') \in {Len(ledger), Len(ledger) + 1}
        /\ IntendedKeys(ledger') = IntendedKeys(ledger)
        /\ ExecutedKeys(ledger') = ExecutedKeys(ledger)
        /\ OrdinalsBelowLength(ledger')
    <2>1. CASE Stop
      BY <1>4, <2>1, OtherRecord DEF Stop
    <2>2. CASE UNCHANGED ledger
      BY <2>2 DEF TypeOK, OrdinalsBounded
    <2> QED
      BY <2>1, <2>2 DEF CloseOnDenial
  <1>6. TypeOK'
    BY <1>2, <1>3, <1>5 DEF TypeOK, provider
  <1>7. WriteAhead' /\ CurRecorded' /\ Honest'
    BY <1>3, <1>5 DEF WriteAhead, CurRecorded, Honest, Busy, provider
  <1>8. InheritedKept'
    BY <1>2, <1>3 DEF InheritedKept, Busy
  <1>9. OrdinalsBounded'
    <2>1. case.ordinal \in Nat /\ Len(ledger) \in Nat
      BY LenProperties DEF TypeOK, CaseState
    <2> QED
      BY <1>2, <1>5, <2>1 DEF OrdinalsBounded
  <1> QED
    BY <1>6, <1>7, <1>8, <1>9

LEMMA CrashInv ==
  ASSUME IInv, Crash
  PROVE  IInv'
  <1> USE DEF IInv, Crash
  <1>1. crashes' \in 0..MaxCrashes
    BY LimitsAssumption DEF TypeOK
  <1>2. TypeOK'
    BY <1>1 DEF TypeOK, provider
  <1> QED
    BY <1>2 DEF WriteAhead, CurRecorded, Honest, InheritedKept, OrdinalsBounded, Busy, provider

LEMMA RestartInv ==
  ASSUME IInv, Restart
  PROVE  IInv'
  <1> USE DEF IInv, Restart
  <1>1. ledger \in Seq(LedgerRecord) /\ OrdinalsBelowLength(ledger)
    BY DEF TypeOK, OrdinalsBounded
  <1>2. case' \in CaseState
    BY <1>1, RebuiltCase
  <1>3. case'.ordinal <= Len(ledger)
    BY <1>1, RebuiltOrdinal, LenProperties DEF rebuild
  <1>4. IntendedKeys(ledger) \subseteq Key
    BY <1>1, KeysOfALedger
  <1>5. case'.keys = inherited'
    BY DEF rebuild
  <1>6. TypeOK'
    BY <1>2, <1>4 DEF TypeOK, provider
  <1>7. OrdinalsBounded'
    BY <1>1, <1>3 DEF OrdinalsBounded
  <1>8. WriteAhead' /\ CurRecorded' /\ Honest' /\ InheritedKept'
    BY <1>5 DEF WriteAhead, CurRecorded, Honest, InheritedKept, Busy, provider
  <1> QED
    BY <1>6, <1>7, <1>8

\* The provider and the customer: effects come from the wire, payments from
\* effects, and neither touches the process or its ledger.
LEMMA ProviderInv ==
  ASSUME IInv, (\E k \in wire \union effects : Land(k) \/ PayLink(k)) \/ PayOutOfBand
  PROVE  IInv'
  <1> USE DEF IInv
  <1>1. /\ wire' \subseteq wire /\ effects \subseteq effects'
        /\ wire' \union effects' \subseteq wire \union effects
        /\ paid' \subseteq effects' /\ settled' \in BOOLEAN
        /\ UNCHANGED <<ledger, process, inherited, crashes>>
    <2>1. ASSUME NEW k \in wire \union effects, Land(k) PROVE <1>1
      BY <2>1 DEF Land, TypeOK
    <2>2. ASSUME NEW k \in wire \union effects, PayLink(k) PROVE <1>1
      BY <2>2 DEF PayLink, TypeOK
    <2>3. CASE PayOutOfBand
      BY <2>3 DEF PayOutOfBand, TypeOK
    <2> QED
      BY <2>1, <2>2, <2>3
  <1>2. TypeOK'
    BY <1>1 DEF TypeOK, process
  <1> QED
    BY <1>1, <1>2
    DEF WriteAhead, CurRecorded, Honest, InheritedKept, OrdinalsBounded, Busy, process

LEMMA NextInv ==
  ASSUME IInv, [Next]_vars
  PROVE  IInv'
  <1>1. CASE \E k \in Delivered, readable \in BOOLEAN : Intend(k, readable)
    BY <1>1, IntendInv
  <1>2. CASE Stop \/ \E k \in Delivered, readable \in BOOLEAN : CloseOnDenial(k, readable)
    BY <1>2, CloseInv
  <1>3. CASE Send \/ Answered \/ NoLiveAction \/ Replay \/ ReplayFails
    BY <1>3, CallQuietInv
  <1>4. CASE ProviderErrors \/ TimesOut \/ FoundLanded \/ FoundAbsent \/ FoundNothingOut
    BY <1>4, CallRecordInv
  <1>5. CASE Finish
    BY <1>5, FinishInv
  <1>6. CASE Crash
    BY <1>6, CrashInv
  <1>7. CASE Restart
    BY <1>7, RestartInv
  <1>8. CASE (\E k \in wire \union effects : Land(k) \/ PayLink(k)) \/ PayOutOfBand
    BY <1>8, ProviderInv
  <1>9. CASE UNCHANGED vars
    BY <1>9 DEF IInv, TypeOK, WriteAhead, CurRecorded, Honest, InheritedKept,
                OrdinalsBounded, Busy, vars, provider, process
  <1> QED
    BY <1>1, <1>2, <1>3, <1>4, <1>5, <1>6, <1>7, <1>8, <1>9 DEF Next, Resolve

LEMMA Invariance == Spec => []IInv
  BY InitInv, NextInv, PTL DEF Spec

----------------------------------------------------------------------------------
(* The theorems.                                                           *)

\* Whatever the actions, the limits and the crashes, the state of the case, the
\* ledger and the provider is well formed: in particular rebuild always returns
\* a CaseState, so a restart never starts from a malformed case.
THEOREM TypeCorrect == Spec => []TypeOK
  <1>1. IInv => TypeOK
    BY DEF IInv
  <1> QED
    BY <1>1, Invariance, PTL

\* I8: nothing is on its way to the provider, and nothing has taken effect
\* there, without an intent in the ledger, through any crash and any retry.
THEOREM WriteAheadHolds == Spec => []WriteAhead
  <1>1. IInv => WriteAhead
    BY DEF IInv
  <1> QED
    BY <1>1, Invariance, PTL

\* resume.rebuild counts every intent's key as used, so a process never sends a
\* key that a previous process wrote an intent for.
THEOREM NoReplay == Spec => NoReplayAcrossRestart
  <1>1. ASSUME IInv, [Next]_vars, wire' \ wire # {} PROVE cur \notin inherited
    <2>1. CASE Send \/ Replay
      BY <1>1, <2>1 DEF Send, Replay, IInv, InheritedKept, Busy
    <2>2. CASE ~(Send \/ Replay)
      <3>1. wire' \subseteq wire
        BY <1>1, <2>2
        DEF Next, Resolve, vars, provider, Intend, CloseOnDenial, Answered, NoLiveAction,
            ProviderErrors, TimesOut, FoundLanded, FoundAbsent, FoundNothingOut, ReplayFails,
            Finish, Stop, Crash, Restart, Land, PayLink, PayOutOfBand
      <3> QED
        BY <1>1, <3>1
    <2> QED
      BY <2>1, <2>2
  <1> QED
    BY <1>1, Invariance, PTL DEF Spec, NoReplayAcrossRestart

\* Every step of the executor, its provider and its crashes is a step of the
\* audit trail, or leaves what the ledger says and what happened unchanged.
LEMMA AuditStep ==
  ASSUME IInv, [Next]_vars
  PROVE  [Audit!Next]_(Audit!vars)
  <1> DEFINE recorded == IntendedKeys(ledger)
             reported == ExecutedKeys(ledger)
             Quiet == recorded' = recorded /\ reported' = reported /\ effects' = effects
  <1>1. ledger \in Seq(LedgerRecord) /\ cur \in Key
    BY DEF IInv, TypeOK
  <1>2. Quiet => UNCHANGED Audit!vars
    BY DEF Audit!vars
  <1>3. ASSUME NEW k \in Delivered, NEW readable \in BOOLEAN, Intend(k, readable)
        PROVE  Audit!Record
    <2> DEFINE r == Rec("intent", k)
    <2>1. IInv' /\ ledger' \in Seq(LedgerRecord)
      BY <1>3, IntendInv DEF IInv, TypeOK
    <2>2. cur' = k /\ ledger' = Append(ledger, r) /\ effects' = effects
      BY <1>3 DEF Intend, provider
    <2>3. k \in Key
      BY <2>1, <2>2 DEF IInv, TypeOK
    <2>4. r \in LedgerRecord /\ r.kind = "intent"
      BY <2>3 DEF Rec, LedgerRecord, RecordKind, NotExecuted, Outcome
    <2> HIDE DEF r
    <2>5. recorded \subseteq recorded' /\ reported' = reported
      BY <1>1, <2>2, <2>4, AppendIntendedKeys, AppendExecutedKeys
    <2>6. recorded' \subseteq Key
      BY <2>1, KeysOfALedger
    <2> QED
      BY <2>2, <2>5, <2>6 DEF Audit!Record
  <1>4. CASE Finish
    <2> DEFINE r == [kind |-> "outcome", key |-> cur, outcome |-> reply]
    <2>1. ledger' = Append(ledger, r) /\ effects' = effects
      BY <1>4 DEF Finish, provider
    <2>2. r \in LedgerRecord /\ r.kind = "outcome" /\ r.key = cur /\ r.outcome = reply
      BY <1>1 DEF IInv, TypeOK, LedgerRecord, RecordKind
    <2> HIDE DEF r
    <2>3. recorded' = recorded
      BY <1>1, <2>1, <2>2, AppendIntendedKeys
    <2>4. CASE reply.executed
      <3>1. cur \in effects
        BY <1>4, <2>4 DEF Finish, IInv, Honest
      <3>2. reported' = reported \union {cur}
        BY <1>1, <2>1, <2>2, <2>4, AppendExecutedKeys
      <3>3. CASE cur \in reported
        BY <1>2, <2>1, <2>3, <3>2, <3>3
      <3>4. CASE cur \notin reported
        BY <2>1, <2>3, <3>1, <3>2, <3>4 DEF Audit!Report, Audit!Next
      <3> QED
        BY <3>3, <3>4
    <2>5. CASE ~reply.executed
      <3>1. reported' = reported
        BY <1>1, <2>1, <2>2, <2>5, AppendExecutedKeys
      <3> QED
        BY <1>2, <2>1, <2>3, <3>1
    <2> QED
      BY <2>4, <2>5
  <1>5. ASSUME NEW k \in wire \union effects, Land(k)
        PROVE  Audit!Perform \/ Quiet
    <2>1. recorded' = recorded /\ reported' = reported /\ effects' = effects \union {k}
      BY <1>5 DEF Land
    <2>2. k \in recorded
      BY DEF IInv, WriteAhead
    <2>3. CASE k \in effects
      BY <2>1, <2>3
    <2>4. CASE k \notin effects
      BY <2>1, <2>2, <2>4 DEF Audit!Perform
    <2> QED
      BY <2>3, <2>4
  <1>6. ASSUME NEW kind \in RecordKind \ {"intent", "outcome"}, NEW k \in Key,
               ledger' = Append(ledger, Rec(kind, k)), effects' = effects
        PROVE  Quiet
    BY <1>6, OtherRecord
  <1>7. CASE ProviderErrors \/ TimesOut \/ FoundLanded \/ FoundAbsent \/ FoundNothingOut
    <2> SUFFICES Quiet
      BY <1>2
    <2>1. {"unknown_outcome", "unresolved", "reconciled_landed", "reconciled_absent",
           "provider_error"} \subseteq RecordKind \ {"intent", "outcome"}
      BY DEF RecordKind
    <2>2. CASE ProviderErrors
      BY <1>1, <1>6, <2>1, <2>2 DEF ProviderErrors
    <2>3. CASE TimesOut
      BY <1>1, <1>6, <2>1, <2>3 DEF TimesOut, provider
    <2>4. CASE FoundLanded
      BY <1>1, <1>6, <2>1, <2>4 DEF FoundLanded, provider
    <2>5. CASE FoundAbsent
      BY <1>1, <1>6, <2>1, <2>5 DEF FoundAbsent, provider
    <2>6. CASE FoundNothingOut
      BY <1>1, <1>6, <2>1, <2>6 DEF FoundNothingOut, provider
    <2> QED
      BY <1>7, <2>2, <2>3, <2>4, <2>5, <2>6
  <1>8. CASE Stop
    <2>1. NoKey \in Key /\ "stopped" \in RecordKind \ {"intent", "outcome"}
      BY DEF NoKey, Key, GATED_INTERVENTIONS, RecordKind
    <2>2. Quiet
      BY <1>6, <1>8, <2>1 DEF Stop, provider
    <2> QED
      BY <1>2, <2>2
  <1>9. CASE UNCHANGED <<ledger, effects>>
    BY <1>2, <1>9
  <1>10. \/ \E k \in Delivered, readable \in BOOLEAN : Intend(k, readable)
         \/ ProviderErrors \/ TimesOut \/ FoundLanded \/ FoundAbsent \/ FoundNothingOut
         \/ Finish \/ Stop
         \/ \E k \in wire \union effects : Land(k)
         \/ UNCHANGED <<ledger, effects>>
    BY DEF Next, Resolve, vars, provider, CloseOnDenial, Send, Answered, NoLiveAction,
           Replay, ReplayFails, Crash, Restart, PayLink, PayOutOfBand
  <1> QED
    BY <1>2, <1>3, <1>4, <1>5, <1>7, <1>8, <1>9, <1>10 DEF Audit!Next

\* The write-ahead ledger implements its abstract promise: recorded before it can
\* happen, happening at most once, reported only after it happened, whatever
\* crashes, late writes and failed reads come between.
THEOREM ImplementsAuditTrail == Spec => AuditSpec
  <1>1. Init => Audit!Init
    <2> SUFFICES ASSUME Init PROVE Audit!Init
      OBVIOUS
    <2>1. ledger = <<>> /\ Len(ledger) = 0
      BY EmptySeq DEF Init
    <2>2. Intents(ledger) = {} /\ Executed(ledger) = {}
      BY <2>1 DEF Intents, Executed, Outcomes
    <2> QED
      BY <2>2 DEF Init, Audit!Init, IntendedKeys, ExecutedKeys
  <1>2. IInv /\ [Next]_vars => [Audit!Next]_(Audit!vars)
    BY AuditStep
  <1> QED
    BY <1>1, <1>2, Invariance, PTL DEF Spec, AuditSpec, Audit!Spec

----------------------------------------------------------------------------------
(* The books: what the ledger counts, against what the case counts.        *)

ContactsMade(l) == {i \in Executed(l) : l[i].key.intervention \in CONTACT_INTERVENTIONS}

LEMMA OneMore ==
  ASSUME NEW n \in Nat, NEW S \in SUBSET (1..n), NEW b \in BOOLEAN
  PROVE  /\ Cardinality(S) \in Nat
         /\ Cardinality(S \union (IF b THEN {n + 1} ELSE {}))
              = Cardinality(S) + (IF b THEN 1 ELSE 0)
  <1>1. IsFiniteSet(1..n)
    BY FS_Interval
  <1>2. IsFiniteSet(S) /\ Cardinality(S) \in Nat
    BY <1>1, FS_Subset, FS_CardinalityType
  <1>3. CASE b
    <2>1. n + 1 \notin S
      OBVIOUS
    <2>2. Cardinality(S \union {n + 1}) = Cardinality(S) + 1
      BY <1>2, <2>1, FS_AddElement
    <2> QED
      BY <1>2, <1>3, <2>2
  <1>4. CASE ~b
    <2>1. S \union {} = S
      OBVIOUS
    <2> QED
      BY <1>2, <1>4, <2>1
  <1> QED
    BY <1>3, <1>4

\* What one more record adds to each count of the ledger.
LEMMA AppendCounts ==
  ASSUME NEW l \in Seq(LedgerRecord), NEW r \in LedgerRecord
  PROVE  LET m == Append(l, r)
             intent == r.kind = "intent"
             outcome == r.kind = "outcome"
             contact == r.key.intervention \in CONTACT_INTERVENTIONS
         IN  /\ Cardinality(Intents(m)) = Cardinality(Intents(l)) + (IF intent THEN 1 ELSE 0)
             /\ Cardinality(Executed(m)) =
                  Cardinality(Executed(l)) + (IF outcome /\ r.outcome.executed THEN 1 ELSE 0)
             /\ Cardinality(Unexecuted(m)) =
                  Cardinality(Unexecuted(l)) + (IF outcome /\ ~r.outcome.executed THEN 1 ELSE 0)
             /\ Cardinality(ContactIntents(m)) =
                  Cardinality(ContactIntents(l)) + (IF intent /\ contact THEN 1 ELSE 0)
             /\ Cardinality(ContactsMade(m)) =
                  Cardinality(ContactsMade(l))
                    + (IF outcome /\ r.outcome.executed /\ contact THEN 1 ELSE 0)
  <1> DEFINE m == Append(l, r)
             intent == r.kind = "intent"
             outcome == r.kind = "outcome"
             contact == r.key.intervention \in CONTACT_INTERVENTIONS
             n == Len(l)
  <1>1. /\ n \in Nat /\ Len(m) = n + 1 /\ m[n + 1] = r
        /\ \A i \in 1..n : m[i] = l[i]
    BY AppendRecord
  <1>2. r.outcome.executed \in BOOLEAN
    BY DEF LedgerRecord, Outcome
  <1> HIDE DEF m, n
  <1>3. /\ Intents(l) \in SUBSET (1..n) /\ Executed(l) \in SUBSET (1..n)
        /\ Unexecuted(l) \in SUBSET (1..n) /\ ContactIntents(l) \in SUBSET (1..n)
        /\ ContactsMade(l) \in SUBSET (1..n)
    BY DEF n, Intents, Executed, Unexecuted, Outcomes, ContactIntents, ContactsMade
  <1>4. Intents(m) = Intents(l) \union (IF intent THEN {n + 1} ELSE {})
    BY <1>1 DEF Intents, n
  <1>5. Executed(m) = Executed(l) \union (IF outcome /\ r.outcome.executed THEN {n + 1} ELSE {})
    BY <1>1 DEF Executed, Outcomes, n
  <1>6. Unexecuted(m) =
          Unexecuted(l) \union (IF outcome /\ ~r.outcome.executed THEN {n + 1} ELSE {})
    BY <1>1 DEF Unexecuted, Outcomes, n
  <1>7. ContactIntents(m) =
          ContactIntents(l) \union (IF intent /\ contact THEN {n + 1} ELSE {})
    BY <1>1 DEF ContactIntents, Intents, n
  <1>8. ContactsMade(m) =
          ContactsMade(l)
            \union (IF outcome /\ r.outcome.executed /\ contact THEN {n + 1} ELSE {})
    <2>1. \A i \in Executed(l) : i \in 1..n /\ m[i] = l[i]
      BY <1>1, <1>3
    <2>2. n + 1 \notin Executed(l)
      BY <1>1, <1>3
    <2> QED
      BY <1>1, <1>5, <2>1, <2>2 DEF ContactsMade
  <1>9. intent \in BOOLEAN /\ outcome \in BOOLEAN /\ contact \in BOOLEAN
    OBVIOUS
  <1> HIDE DEF intent, outcome, contact
  <1>10. Cardinality(Intents(m)) = Cardinality(Intents(l)) + (IF intent THEN 1 ELSE 0)
    BY <1>1, <1>3, <1>4, <1>9, OneMore
  <1>11. Cardinality(ContactIntents(m)) =
           Cardinality(ContactIntents(l)) + (IF intent /\ contact THEN 1 ELSE 0)
    BY <1>1, <1>3, <1>7, <1>9, OneMore
  <1>12. /\ Cardinality(Executed(m)) =
              Cardinality(Executed(l)) + (IF outcome /\ r.outcome.executed THEN 1 ELSE 0)
         /\ Cardinality(Unexecuted(m)) =
              Cardinality(Unexecuted(l)) + (IF outcome /\ ~r.outcome.executed THEN 1 ELSE 0)
    <2>1. Cardinality(Executed(m)) =
            Cardinality(Executed(l)) + (IF outcome /\ r.outcome.executed THEN 1 ELSE 0)
      BY <1>1, <1>2, <1>3, <1>5, <1>9, OneMore
    <2>2. Cardinality(Unexecuted(m)) =
            Cardinality(Unexecuted(l)) + (IF outcome /\ ~r.outcome.executed THEN 1 ELSE 0)
      <3> DEFINE failed == outcome /\ ~r.outcome.executed
      <3>1. failed \in BOOLEAN /\ Unexecuted(m) = Unexecuted(l) \union (IF failed THEN {n + 1} ELSE {})
        BY <1>2, <1>6, <1>9
      <3> HIDE DEF failed
      <3>2. Cardinality(Unexecuted(m)) = Cardinality(Unexecuted(l)) + (IF failed THEN 1 ELSE 0)
        BY <1>1, <1>3, <3>1, OneMore
      <3> QED
        BY <3>2 DEF failed
    <2> QED
      BY <2>1, <2>2
  <1>13. Cardinality(ContactsMade(m)) =
           Cardinality(ContactsMade(l))
             + (IF outcome /\ r.outcome.executed /\ contact THEN 1 ELSE 0)
    BY <1>1, <1>2, <1>3, <1>8, <1>9, OneMore
  <1> QED
    BY <1>10, <1>11, <1>12, <1>13 DEF m, intent, outcome, contact

LEMMA CountsAreNat ==
  ASSUME NEW l \in Seq(LedgerRecord)
  PROVE  /\ Cardinality(Intents(l)) \in Nat /\ Cardinality(Executed(l)) \in Nat
         /\ Cardinality(Unexecuted(l)) \in Nat /\ Cardinality(ContactIntents(l)) \in Nat
         /\ Cardinality(ContactsMade(l)) \in Nat
  <1>1. Len(l) \in Nat
    BY LenProperties
  <1>2. /\ Intents(l) \in SUBSET (1..Len(l)) /\ Executed(l) \in SUBSET (1..Len(l))
        /\ Unexecuted(l) \in SUBSET (1..Len(l)) /\ ContactIntents(l) \in SUBSET (1..Len(l))
        /\ ContactsMade(l) \in SUBSET (1..Len(l))
    BY DEF Intents, Executed, Unexecuted, Outcomes, ContactIntents, ContactsMade
  <1> HIDE DEF CONTACT_INTERVENTIONS
  <1> QED
    BY <1>1, <1>2, OneMore

----------------------------------------------------------------------------------
(* The second inductive invariant, over the first: the keys, the attempts  *)
(* and the contacts of the case in memory, between those the ledger        *)
(* reports executed and those it intends; and what the ledger tells of     *)
(* every write.                                                            *)

\* The action in progress, if any, and whether it is a contact.
Spent == IF Busy THEN 1 ELSE 0

Reaching == IF Busy /\ cur.intervention \in CONTACT_INTERVENTIONS THEN 1 ELSE 0

OrdinalsFresh ==
  pc # "down" =>
    /\ \A k \in IntendedKeys(ledger) : k.ordinal <= case.ordinal
    /\ \A k \in case.keys : k.ordinal < case.ordinal

KeysCover ==
  /\ pc # "down" => ExecutedKeys(ledger) \subseteq case.keys
  /\ pc # "down" => case.keys \subseteq IntendedKeys(ledger)
  /\ Busy => cur \notin case.keys

AttemptsCovered ==
  LET intents    == Cardinality(Intents(ledger))
      executed   == Cardinality(Executed(ledger))
      unexecuted == Cardinality(Unexecuted(ledger))
  IN  /\ executed + unexecuted + Spent <= intents
      /\ pc # "down" => executed <= case.attempts
      /\ pc # "down" => case.attempts + unexecuted + Spent <= intents
      /\ Busy => case.attempts < MaxMoneyActions
      /\ executed <= MaxMoneyActions

ContactsCovered ==
  LET intended == Cardinality(ContactIntents(ledger))
      made     == Cardinality(ContactsMade(ledger))
  IN  /\ made + Reaching <= intended
      /\ pc # "down" => made <= case.contacts
      /\ pc # "down" => case.contacts + Reaching <= intended
      /\ Reaching = 1 => case.contacts < MaxContacts
      /\ made <= MaxContacts

Counted ==
  /\ OrdinalsFresh
  /\ KeysCover
  /\ AttemptsCovered
  /\ ContactsCovered
  /\ ExecutedOnce

Told(k) == k \in ExecutedKeys(ledger) \/ SentBefore(k) \/ Open(k)

Telling ==
  /\ \A k \in wire \union effects : Told(k)
  /\ Busy => Open(cur)
  /\ pc \in {"reconciling", "absent", "replaying"} => SentBefore(cur)
  /\ pc = "resolved" /\ ~reply.executed /\ cur \in wire \union effects => SentBefore(cur)

Books == Counted /\ Telling

\* What a further record does to the promise that a key executes once.
LEMMA AppendOnce ==
  ASSUME ledger \in Seq(LedgerRecord), NEW r \in LedgerRecord,
         ledger' = Append(ledger, r), ExecutedOnce,
         r.kind \in {"intent", "outcome"} => r.key \notin ExecutedKeys(ledger)
  PROVE  ExecutedOnce'
  <1> DEFINE n == Len(ledger)
  <1>1. /\ n \in Nat /\ Len(ledger') = n + 1 /\ ledger'[n + 1] = r
        /\ \A i \in 1..n : ledger'[i] = ledger[i]
    BY AppendRecord
  <1>2. /\ Executed(ledger') \subseteq Executed(ledger) \union {n + 1}
        /\ Executed(ledger) \subseteq 1..n
    BY AppendExecuted DEF Executed, Outcomes
  <1>3. SUFFICES ASSUME NEW i \in Executed(ledger'), NEW j \in (i + 1)..Len(ledger'),
                        ledger'[j].key = ledger'[i].key
                 PROVE  ledger'[j].kind \notin {"intent", "outcome"}
    BY DEF ExecutedOnce
  <1> HIDE DEF n
  <1>4. i \in Executed(ledger) /\ i \in 1..n /\ ledger'[i] = ledger[i]
    BY <1>1, <1>2, <1>3
  <1>5. CASE j = n + 1
    <2>1. ledger[i].key \in ExecutedKeys(ledger)
      BY <1>4 DEF ExecutedKeys
    <2> QED
      BY <1>1, <1>3, <1>4, <1>5, <2>1
  <1>6. CASE j # n + 1
    <2>1. j \in (i + 1)..n /\ ledger'[j] = ledger[j]
      BY <1>1, <1>4, <1>6
    <2> QED
      BY <1>3, <1>4, <2>1 DEF ExecutedOnce, n
  <1> QED
    BY <1>5, <1>6

\* What a further record does to what the ledger tells of a key.
LEMMA AppendTold ==
  ASSUME ledger \in Seq(LedgerRecord), NEW r \in LedgerRecord,
         ledger' = Append(ledger, r), NEW k
  PROVE  /\ SentBefore(k) => SentBefore(k)'
         /\ r.kind = "unknown_outcome" /\ r.key = k => SentBefore(k)'
         /\ Open(k) /\ ~(r.kind = "outcome" /\ r.key = k) => Open(k)'
         /\ r.kind = "intent" /\ r.key = k => Open(k)'
         /\ k \in ExecutedKeys(ledger) => k \in ExecutedKeys(ledger')
  <1> DEFINE n == Len(ledger)
  <1>1. /\ n \in Nat /\ Len(ledger') = n + 1 /\ ledger'[n + 1] = r
        /\ \A i \in 1..n : ledger'[i] = ledger[i]
    BY AppendRecord
  <1> HIDE DEF n
  <1>2. SentBefore(k) => SentBefore(k)'
    BY <1>1 DEF SentBefore, n
  <1>3. r.kind = "unknown_outcome" /\ r.key = k => SentBefore(k)'
    BY <1>1 DEF SentBefore
  <1>4. ASSUME Open(k), ~(r.kind = "outcome" /\ r.key = k) PROVE Open(k)'
    <2>1. PICK i \in Intents(ledger) :
            /\ ledger[i].key = k
            /\ \A j \in Outcomes(ledger) : j > i => ledger[j].key # k
      BY <1>4 DEF Open
    <2>2. i \in Intents(ledger') /\ ledger'[i].key = k
      BY <1>1, <2>1 DEF Intents, n
    <2>3. ASSUME NEW j \in Outcomes(ledger'), j > i PROVE ledger'[j].key # k
      <3>1. CASE j = n + 1
        BY <1>1, <1>4, <2>3, <3>1 DEF Outcomes
      <3>2. CASE j # n + 1
        <4>1. j \in Outcomes(ledger) /\ ledger'[j] = ledger[j]
          BY <1>1, <2>3, <3>2 DEF Outcomes, n
        <4> QED
          BY <2>1, <2>3, <4>1
      <3> QED
        BY <3>1, <3>2
    <2> QED
      BY <2>2, <2>3 DEF Open
  <1>5. ASSUME r.kind = "intent", r.key = k PROVE Open(k)'
    <2>1. n + 1 \in Intents(ledger') /\ ledger'[n + 1].key = k
      BY <1>1, <1>5 DEF Intents
    <2>2. \A j \in Outcomes(ledger') : ~(j > n + 1)
      BY <1>1 DEF Outcomes
    <2> QED
      BY <2>1, <2>2 DEF Open
  <1>6. k \in ExecutedKeys(ledger) => k \in ExecutedKeys(ledger')
    BY AppendExecutedKeys
  <1> QED
    BY <1>2, <1>3, <1>4, <1>5, <1>6

\* Steps that write neither an intent nor an outcome leave the books alone.
QuietLedger ==
  \/ UNCHANGED ledger
  \/ \E kind \in RecordKind \ {"intent", "outcome"}, k \in Key :
       ledger' = Append(ledger, Rec(kind, k))

LEMMA QuietCounts ==
  ASSUME IInv, QuietLedger
  PROVE  /\ Cardinality(Intents(ledger')) = Cardinality(Intents(ledger))
         /\ Cardinality(Executed(ledger')) = Cardinality(Executed(ledger))
         /\ Cardinality(Unexecuted(ledger')) = Cardinality(Unexecuted(ledger))
         /\ Cardinality(ContactIntents(ledger')) = Cardinality(ContactIntents(ledger))
         /\ Cardinality(ContactsMade(ledger')) = Cardinality(ContactsMade(ledger))
         /\ IntendedKeys(ledger') = IntendedKeys(ledger)
         /\ ExecutedKeys(ledger') = ExecutedKeys(ledger)
         /\ ExecutedOnce => ExecutedOnce'
         /\ \A k : SentBefore(k) => SentBefore(k)'
         /\ \A k : Open(k) => Open(k)'
  <1>1. CASE UNCHANGED ledger
    BY <1>1 DEF ExecutedOnce, SentBefore, Open
  <1>2. CASE \E kind \in RecordKind \ {"intent", "outcome"}, k \in Key :
               ledger' = Append(ledger, Rec(kind, k))
    <2>1. PICK kind \in RecordKind \ {"intent", "outcome"}, k \in Key :
            ledger' = Append(ledger, Rec(kind, k))
      BY <1>2
    <2> DEFINE r == Rec(kind, k)
    <2>2. r \in LedgerRecord /\ r.kind \notin {"intent", "outcome"}
      BY DEF Rec, LedgerRecord, NotExecuted, Outcome
    <2>3. ledger \in Seq(LedgerRecord) /\ ledger' = Append(ledger, r)
      BY <2>1 DEF IInv, TypeOK
    <2> HIDE DEF r
    <2>4. /\ Cardinality(Intents(ledger')) = Cardinality(Intents(ledger))
          /\ Cardinality(Executed(ledger')) = Cardinality(Executed(ledger))
          /\ Cardinality(Unexecuted(ledger')) = Cardinality(Unexecuted(ledger))
          /\ Cardinality(ContactIntents(ledger')) = Cardinality(ContactIntents(ledger))
          /\ Cardinality(ContactsMade(ledger')) = Cardinality(ContactsMade(ledger))
      BY <2>2, <2>3, AppendCounts, CountsAreNat
    <2>5. IntendedKeys(ledger') = IntendedKeys(ledger)
      BY <2>2, <2>3, AppendIntendedKeys
    <2>6. ExecutedKeys(ledger') = ExecutedKeys(ledger)
      BY <2>2, <2>3, AppendExecutedKeys
    <2>7. ExecutedOnce => ExecutedOnce'
      BY <2>2, <2>3, AppendOnce
    <2>8. \A x : (SentBefore(x) => SentBefore(x)') /\ (Open(x) => Open(x)')
      BY <2>2, <2>3, AppendTold
    <2> QED
      BY <2>4, <2>5, <2>6, <2>7, <2>8
  <1> QED
    BY <1>1, <1>2 DEF QuietLedger

\* So does a step that neither begins nor ends a call, or the process.
LEMMA QuietCounted ==
  ASSUME IInv, Counted, QuietLedger, UNCHANGED cur, Busy' = Busy,
         (pc' = "down") = (pc = "down"),
         case'.keys = case.keys, case'.ordinal = case.ordinal,
         case'.attempts = case.attempts, case'.contacts = case.contacts
  PROVE  Counted'
  <1> USE DEF Counted
  <1>1. OrdinalsFresh'
    BY QuietCounts DEF OrdinalsFresh
  <1>2. KeysCover'
    BY QuietCounts DEF KeysCover
  <1>3. AttemptsCovered'
    BY QuietCounts DEF AttemptsCovered, Spent
  <1>4. ContactsCovered'
    BY QuietCounts DEF ContactsCovered, Reaching
  <1>5. ExecutedOnce'
    BY QuietCounts
  <1> QED
    BY <1>1, <1>2, <1>3, <1>4, <1>5

\* Every step inside a call is a quiet one.
LEMMA CallIsQuiet ==
  ASSUME IInv, Send \/ Resolve
  PROVE  /\ QuietLedger /\ Busy /\ Busy' /\ UNCHANGED <<cur, case>>
         /\ effects' = effects /\ wire' \subseteq wire \union {cur}
  <1>1. {"unknown_outcome", "unresolved", "reconciled_landed", "reconciled_absent",
         "provider_error"} \subseteq RecordKind \ {"intent", "outcome"}
    BY DEF RecordKind
  <1>2. cur \in Key
    BY DEF IInv, TypeOK
  <1>3. QuietLedger
    <2>1. CASE UNCHANGED ledger
      BY <2>1 DEF QuietLedger
    <2>2. CASE ProviderErrors
      BY <1>1, <1>2, <2>2 DEF ProviderErrors, QuietLedger
    <2>3. CASE TimesOut
      BY <1>1, <1>2, <2>3 DEF TimesOut, QuietLedger
    <2>4. CASE FoundLanded
      BY <1>1, <1>2, <2>4 DEF FoundLanded, QuietLedger
    <2>5. CASE FoundAbsent
      BY <1>1, <1>2, <2>5 DEF FoundAbsent, QuietLedger
    <2>6. CASE FoundNothingOut
      BY <1>1, <1>2, <2>6 DEF FoundNothingOut, QuietLedger
    <2>7. Send \/ Answered \/ NoLiveAction \/ Replay \/ ReplayFails => UNCHANGED ledger
      BY DEF Send, Answered, NoLiveAction, Replay, ReplayFails
    <2> QED
      BY <2>1, <2>2, <2>3, <2>4, <2>5, <2>6, <2>7 DEF Resolve
  <1>4. Busy /\ Busy' /\ UNCHANGED <<cur, case>>
    BY DEF Resolve, Busy, Send, Answered, NoLiveAction, ProviderErrors, TimesOut,
           FoundLanded, FoundAbsent, FoundNothingOut, Replay, ReplayFails
  <1>5. effects' = effects /\ wire' \subseteq wire \union {cur}
    BY DEF Resolve, provider, Send, Answered, NoLiveAction, ProviderErrors, TimesOut,
           FoundLanded, FoundAbsent, FoundNothingOut, Replay, ReplayFails
  <1> QED
    BY <1>3, <1>4, <1>5

LEMMA CallBooks ==
  ASSUME IInv, Books, Send \/ Resolve
  PROVE  Books'
  <1> USE DEF Books
  <1>1. Counted'
    BY CallIsQuiet, QuietCounted DEF Busy
  <1>2. \A k \in (wire \union effects)' : Told(k)'
    <2>1. \A k : Told(k) => Told(k)'
      BY CallIsQuiet, QuietCounts DEF Told
    <2>2. Told(cur)
      BY CallIsQuiet DEF Telling, Told
    <2> QED
      BY <2>1, <2>2, CallIsQuiet DEF Telling
  <1>3. Open(cur)'
    BY CallIsQuiet, QuietCounts DEF Telling
  <1>4. SentBefore(cur) => SentBefore(cur)'
    BY CallIsQuiet, QuietCounts
  <1>5. pc' \in {"reconciling", "absent", "replaying"} => SentBefore(cur)'
    <2>1. CASE TimesOut
      <3> DEFINE r == Rec("unknown_outcome", cur)
      <3>1. r \in LedgerRecord /\ r.kind = "unknown_outcome" /\ r.key = cur
        BY DEF IInv, TypeOK, Rec, LedgerRecord, RecordKind, NotExecuted, Outcome
      <3>2. ledger \in Seq(LedgerRecord) /\ ledger' = Append(ledger, r) /\ cur' = cur
        BY <2>1 DEF IInv, TypeOK, TimesOut
      <3> HIDE DEF r
      <3>3. \A k : r.key = k => SentBefore(k)'
        BY <3>1, <3>2, AppendTold
      <3> QED
        BY <3>1, <3>2, <3>3
    <2>2. CASE FoundAbsent \/ Replay
      BY <1>4, <2>2 DEF Telling, FoundAbsent, Replay
    <2>3. CASE ~(TimesOut \/ FoundAbsent \/ Replay)
      BY <2>3 DEF Resolve, Send, Answered, NoLiveAction, ProviderErrors, FoundLanded,
                  FoundNothingOut, ReplayFails
    <2> QED
      BY <2>1, <2>2, <2>3
  <1>6. pc' = "resolved" /\ ~reply'.executed /\ cur' \in (wire \union effects)'
          => SentBefore(cur)'
    <2>1. CASE NoLiveAction \/ ProviderErrors
      BY <1>4, <2>1 DEF NoLiveAction, ProviderErrors
    <2>2. CASE FoundNothingOut \/ ReplayFails
      BY <1>4, <2>2 DEF Telling, FoundNothingOut, ReplayFails
    <2>3. CASE Answered \/ FoundLanded
      BY <2>3 DEF Answered, FoundLanded
    <2>4. CASE Send \/ TimesOut \/ FoundAbsent \/ Replay
      BY <2>4 DEF Send, TimesOut, FoundAbsent, Replay
    <2> QED
      BY <2>1, <2>2, <2>3, <2>4 DEF Resolve
  <1> QED
    BY <1>1, <1>2, <1>3, <1>5, <1>6 DEF Telling

\* The provider and the customer move keys from the wire to the effects only.
LEMMA ProviderBooks ==
  ASSUME IInv, Books, (\E k \in wire \union effects : Land(k) \/ PayLink(k)) \/ PayOutOfBand
  PROVE  Books'
  <1> USE DEF Books
  <1>1. /\ (wire \union effects)' \subseteq wire \union effects
        /\ UNCHANGED <<ledger, process>>
    BY DEF Land, PayLink, PayOutOfBand, process
  <1>2. Counted'
    BY <1>1, QuietCounted DEF QuietLedger, process, Busy
  <1>3. \A k : Told(k)' = Told(k)
    BY <1>1 DEF Told, SentBefore, Open
  <1> QED
    BY <1>1, <1>2, <1>3 DEF Telling, Busy, process, SentBefore, Open

LEMMA CloseBooks ==
  ASSUME IInv, Books,
         Stop \/ \E k \in Delivered, readable \in BOOLEAN : CloseOnDenial(k, readable)
  PROVE  Books'
  <1> USE DEF Books
  <1>1. pc = "idle" /\ UNCHANGED <<provider, pc, cur, reply>>
    BY DEF Stop, CloseOnDenial
  <1>2. QuietLedger
    <2>1. NoKey \in Key /\ "stopped" \in RecordKind \ {"intent", "outcome"}
      BY DEF NoKey, Key, GATED_INTERVENTIONS, RecordKind
    <2> QED
      BY <2>1 DEF Stop, CloseOnDenial, QuietLedger
  <1>3. PICK status : case' = [case EXCEPT !.status = status]
    BY DEF Stop, CloseOnDenial
  <1>4. /\ case'.keys = case.keys /\ case'.ordinal = case.ordinal
        /\ case'.attempts = case.attempts /\ case'.contacts = case.contacts
    BY <1>3 DEF IInv, TypeOK, CaseState
  <1>5. Counted'
    BY <1>1, <1>2, <1>4, QuietCounted DEF Busy
  <1>6. \A k : Told(k) => Told(k)'
    BY <1>2, QuietCounts DEF Told
  <1> QED
    BY <1>1, <1>5, <1>6 DEF Telling, Busy, provider

\* A process that dies leaves the ledger as it is, and the provider too.
LEMMA CrashBooks ==
  ASSUME IInv, Books, Crash
  PROVE  Books'
  <1> USE DEF Books, Crash
  <1>1. /\ Cardinality(Intents(ledger)) \in Nat
        /\ Cardinality(Executed(ledger)) \in Nat
        /\ Cardinality(Unexecuted(ledger)) \in Nat
        /\ Cardinality(ContactIntents(ledger)) \in Nat
        /\ Cardinality(ContactsMade(ledger)) \in Nat
    BY CountsAreNat DEF IInv, TypeOK
  <1>2. OrdinalsFresh' /\ KeysCover' /\ ExecutedOnce'
    BY DEF Counted, OrdinalsFresh, KeysCover, ExecutedOnce, Busy
  <1>3. AttemptsCovered'
    BY <1>1 DEF Counted, AttemptsCovered, Spent, Busy
  <1>4. ContactsCovered'
    BY <1>1 DEF Counted, ContactsCovered, Reaching, Busy
  <1>5. Telling'
    BY DEF Telling, Told, SentBefore, Open, Busy, provider
  <1> QED
    BY <1>2, <1>3, <1>4, <1>5 DEF Counted

\* What rebuild returns is between what is reported and what is intended.
LEMMA RestartBooks ==
  ASSUME IInv, Books, Restart
  PROVE  Books'
  <1> USE DEF Books, Restart
  <1>1. ledger \in Seq(LedgerRecord) /\ OrdinalsBelowLength(ledger)
    BY DEF IInv, TypeOK, OrdinalsBounded
  <1>2. /\ Cardinality(Intents(ledger)) \in Nat
        /\ Cardinality(Executed(ledger)) \in Nat
        /\ Cardinality(Unexecuted(ledger)) \in Nat
        /\ Cardinality(ContactIntents(ledger)) \in Nat
        /\ Cardinality(ContactsMade(ledger)) \in Nat
    BY <1>1, CountsAreNat
  <1>3. /\ case'.keys = IntendedKeys(ledger)
        /\ case'.ordinal = rebuild_ordinal(ledger)
        /\ case'.attempts = rebuild_attempts(ledger)
        /\ case'.contacts = Cardinality(ContactIntents(ledger))
    BY DEF rebuild
  <1>4. \A k \in IntendedKeys(ledger) : k.ordinal \in Nat
    BY <1>1, KeysOfALedger DEF Key
  <1>5. OrdinalsFresh'
    <2>1. rebuild_ordinal(ledger) \in Nat
      BY <1>1, RebuiltOrdinal, LenProperties
    <2> QED
      BY <1>1, <1>3, <1>4, <2>1, RebuiltOrdinal DEF OrdinalsFresh
  <1>6. KeysCover'
    <2>1. ExecutedKeys(ledger) \subseteq IntendedKeys(ledger)
      BY DEF IInv, Honest, WriteAhead
    <2> QED
      BY <1>3, <2>1 DEF KeysCover, Busy
  <1>7. AttemptsCovered'
    BY <1>2, <1>3 DEF Counted, AttemptsCovered, Spent, Busy, rebuild_attempts
  <1>8. ContactsCovered'
    BY <1>2, <1>3 DEF Counted, ContactsCovered, Reaching, Busy
  <1>9. ExecutedOnce'
    BY DEF Counted, ExecutedOnce
  <1>10. Telling'
    BY DEF Telling, Told, SentBefore, Open, Busy, provider
  <1> QED
    BY <1>5, <1>6, <1>7, <1>8, <1>9, <1>10 DEF Counted

LEMMA IntendBooks ==
  ASSUME IInv, Books, NEW k \in Delivered, NEW readable \in BOOLEAN, Intend(k, readable)
  PROVE  Books'
  <1> DEFINE r == Rec("intent", k)
             contact == k.intervention \in CONTACT_INTERVENTIONS
  <1> USE DEF Books
  <1>1. /\ pc = "idle" /\ pc' = "intended" /\ cur' = k
        /\ UNCHANGED <<provider, reply, case>>
        /\ k \notin case.keys
        /\ case.attempts < MaxMoneyActions
        /\ contact => case.contacts < MaxContacts
    BY DEF Intend, Allowed, I2, I4, I7
  <1>2. ledger \in Seq(LedgerRecord) /\ case \in CaseState
    BY DEF IInv, TypeOK
  <1>3. k \in Key /\ k.ordinal <= case.ordinal
    <2>1. CASE k \in IntendedKeys(ledger)
      BY <1>1, <1>2, <2>1, KeysOfALedger DEF Counted, OrdinalsFresh
    <2>2. CASE \E a \in Actions : k = action_key(a, case.ordinal)
      BY <1>2, <2>2, ActionsAssumption DEF action_key, Key, CaseState
    <2> QED
      BY <2>1, <2>2 DEF Delivered
  <1>4. r \in LedgerRecord /\ r.kind = "intent" /\ r.key = k
    BY <1>3 DEF Rec, LedgerRecord, RecordKind, NotExecuted, Outcome
  <1>5. ledger' = Append(ledger, r)
    BY DEF Intend
  <1> HIDE DEF r
  <1>6. /\ IntendedKeys(ledger') = IntendedKeys(ledger) \union {k}
        /\ ExecutedKeys(ledger') = ExecutedKeys(ledger)
    <2>1. IntendedKeys(ledger') = IntendedKeys(ledger) \union {k}
      BY <1>2, <1>4, <1>5, AppendIntendedKeys
    <2>2. ExecutedKeys(ledger') = ExecutedKeys(ledger)
      BY <1>2, <1>4, <1>5, AppendExecutedKeys
    <2> QED
      BY <2>1, <2>2
  <1>7. /\ Cardinality(Intents(ledger)) \in Nat
        /\ Cardinality(Executed(ledger)) \in Nat
        /\ Cardinality(Unexecuted(ledger)) \in Nat
        /\ Cardinality(ContactIntents(ledger)) \in Nat
        /\ Cardinality(ContactsMade(ledger)) \in Nat
    BY <1>2, CountsAreNat
  <1>8. /\ Cardinality(Intents(ledger')) = Cardinality(Intents(ledger)) + 1
        /\ Cardinality(Executed(ledger')) = Cardinality(Executed(ledger))
        /\ Cardinality(Unexecuted(ledger')) = Cardinality(Unexecuted(ledger))
        /\ Cardinality(ContactIntents(ledger')) =
             Cardinality(ContactIntents(ledger)) + (IF contact THEN 1 ELSE 0)
        /\ Cardinality(ContactsMade(ledger')) = Cardinality(ContactsMade(ledger))
    BY <1>2, <1>4, <1>5, <1>7, AppendCounts
  <1>9. OrdinalsFresh'
    BY <1>1, <1>3, <1>6 DEF Counted, OrdinalsFresh
  <1>10. KeysCover'
    BY <1>1, <1>6 DEF Counted, KeysCover
  <1>11. AttemptsCovered'
    <2>1. Spent = 0 /\ Spent' = 1 /\ pc # "down" /\ case' = case
      BY <1>1 DEF Spent, Busy
    <2>2. case.attempts \in Nat
      BY <1>2 DEF CaseState
    <2> QED
      BY <1>1, <1>7, <1>8, <2>1, <2>2, LimitsAssumption DEF Counted, AttemptsCovered
  <1>12. ContactsCovered'
    <2>1. /\ Reaching = 0 /\ Reaching' = (IF contact THEN 1 ELSE 0)
          /\ pc # "down" /\ case' = case
      BY <1>1 DEF Reaching, Busy
    <2>2. case.contacts \in Nat
      BY <1>2 DEF CaseState
    <2> QED
      BY <1>1, <1>7, <1>8, <2>1, <2>2, LimitsAssumption DEF Counted, ContactsCovered
  <1>13. ExecutedOnce'
    <2>1. k \notin ExecutedKeys(ledger)
      BY <1>1 DEF Counted, KeysCover
    <2> QED
      BY <1>2, <1>4, <1>5, <2>1, AppendOnce DEF Counted
  <1>14. Telling'
    <2>1. \A x : Told(x) => Told(x)'
      BY <1>2, <1>4, <1>5, AppendTold DEF Told
    <2>2. Open(k)'
      BY <1>2, <1>4, <1>5, AppendTold
    <2>3. Open(cur)'
      BY <1>1, <2>2 DEF Open
    <2> QED
      BY <1>1, <2>1, <2>3 DEF Telling, provider
  <1> QED
    BY <1>9, <1>10, <1>11, <1>12, <1>13, <1>14 DEF Counted

LEMMA FinishBooks ==
  ASSUME IInv, Books, Finish
  PROVE  Books'
  <1> DEFINE r == [kind |-> "outcome", key |-> cur, outcome |-> reply]
             contact == cur.intervention \in CONTACT_INTERVENTIONS
  <1> USE DEF Books
  <1>1. /\ pc = "resolved" /\ pc' = "idle" /\ UNCHANGED <<provider, cur, reply>>
        /\ case' = Applied(case, cur, reply) /\ ledger' = Append(ledger, r)
    BY DEF Finish
  <1>2. ledger \in Seq(LedgerRecord) /\ case \in CaseState /\ cur \in Key /\ reply \in Outcome
    BY DEF IInv, TypeOK
  <1>3. r \in LedgerRecord /\ r.kind = "outcome" /\ r.key = cur /\ r.outcome = reply
    BY <1>2 DEF LedgerRecord, RecordKind
  <1> HIDE DEF r
  <1>4. Busy /\ ~Busy' /\ pc' # "down" /\ pc # "down"
    BY <1>1 DEF Busy
  <1>5. reply.executed \in BOOLEAN
    BY <1>2 DEF Outcome
  <1>6. /\ case'.keys = case.keys \union (IF reply.executed THEN {cur} ELSE {})
        /\ case'.ordinal = case.ordinal + (IF reply.executed THEN 1 ELSE 0)
        /\ case'.attempts = case.attempts + (IF reply.executed THEN 1 ELSE 0)
        /\ case'.contacts = case.contacts + (IF reply.executed /\ contact THEN 1 ELSE 0)
    BY <1>1, <1>2 DEF Applied, CaseState
  <1>7. IntendedKeys(ledger') = IntendedKeys(ledger)
    BY <1>1, <1>2, <1>3, AppendIntendedKeys
  <1>8. ExecutedKeys(ledger') =
          ExecutedKeys(ledger) \union (IF reply.executed THEN {cur} ELSE {})
    BY <1>1, <1>2, <1>3, AppendExecutedKeys
  <1>9. /\ Cardinality(Intents(ledger)) \in Nat
        /\ Cardinality(Executed(ledger)) \in Nat
        /\ Cardinality(Unexecuted(ledger)) \in Nat
        /\ Cardinality(ContactIntents(ledger)) \in Nat
        /\ Cardinality(ContactsMade(ledger)) \in Nat
    BY <1>2, CountsAreNat
  <1>10. /\ Cardinality(Intents(ledger')) = Cardinality(Intents(ledger))
         /\ Cardinality(Executed(ledger')) =
              Cardinality(Executed(ledger)) + (IF reply.executed THEN 1 ELSE 0)
         /\ Cardinality(Unexecuted(ledger')) =
              Cardinality(Unexecuted(ledger)) + (IF ~reply.executed THEN 1 ELSE 0)
         /\ Cardinality(ContactIntents(ledger')) = Cardinality(ContactIntents(ledger))
         /\ Cardinality(ContactsMade(ledger')) =
              Cardinality(ContactsMade(ledger)) + (IF reply.executed /\ contact THEN 1 ELSE 0)
    BY <1>1, <1>2, <1>3, <1>9, AppendCounts
  <1>11. cur \in IntendedKeys(ledger)
    BY <1>4 DEF IInv, CurRecorded
  <1>12. OrdinalsFresh'
    <2>1. \A k \in IntendedKeys(ledger) : k.ordinal \in Nat
      BY <1>2, KeysOfALedger DEF Key
    <2>2. \A k \in case.keys : k.ordinal \in Nat
      BY <1>2 DEF CaseState, Key
    <2>3. case.ordinal \in Nat /\ cur.ordinal \in Nat
      BY <1>2 DEF CaseState, Key
    <2> QED
      BY <1>4, <1>6, <1>7, <1>11, <2>1, <2>2, <2>3 DEF Counted, OrdinalsFresh
  <1>13. KeysCover'
    BY <1>4, <1>6, <1>7, <1>8, <1>11 DEF Counted, KeysCover
  <1>14. AttemptsCovered'
    <2>1. case.attempts \in Nat
      BY <1>2 DEF CaseState
    <2> QED
      BY <1>4, <1>5, <1>6, <1>9, <1>10, <2>1, LimitsAssumption
      DEF Counted, AttemptsCovered, Spent
  <1>15. ContactsCovered'
    <2>1. case.contacts \in Nat
      BY <1>2 DEF CaseState
    <2> QED
      BY <1>4, <1>5, <1>6, <1>9, <1>10, <2>1, LimitsAssumption
      DEF Counted, ContactsCovered, Reaching
  <1>16. ExecutedOnce'
    <2>1. cur \notin ExecutedKeys(ledger)
      BY <1>4 DEF Counted, KeysCover
    <2> QED
      BY <1>1, <1>2, <1>3, <2>1, AppendOnce DEF Counted
  <1>17. Telling'
    <2>1. \A k : Told(k) /\ k # cur => Told(k)'
      BY <1>1, <1>2, <1>3, AppendTold DEF Told
    <2>2. SentBefore(cur) => SentBefore(cur)'
      <3>1. \A k : SentBefore(k) => SentBefore(k)'
        BY <1>1, <1>2, <1>3, AppendTold
      <3> QED
        BY <1>1, <3>1 DEF SentBefore
    <2>3. cur \in (wire \union effects)' => Told(cur)'
      <3>1. CASE reply.executed
        BY <1>8, <3>1, <1>1 DEF Told
      <3>2. CASE ~reply.executed
        BY <1>1, <2>2, <3>2 DEF Telling, Told, provider
      <3> QED
        BY <3>1, <3>2
    <2>4. \A k \in (wire \union effects)' : Told(k)'
      <3>1. \A k \in (wire \union effects)' : Told(k)
        BY <1>1 DEF Telling, provider
      <3>2. ASSUME NEW k \in (wire \union effects)', k = cur  PROVE Told(k)'
        <4>1. Told(cur)' /\ cur' = cur
          BY <1>1, <2>3, <3>2
        <4> QED
          BY <3>2, <4>1 DEF Told
      <3> QED
        BY <2>1, <3>1, <3>2
    <2> QED
      BY <1>1, <1>4, <2>4 DEF Telling
  <1> QED
    BY <1>12, <1>13, <1>14, <1>15, <1>16, <1>17 DEF Counted

LEMMA InitBooks == Init => Books
  <1> SUFFICES ASSUME Init PROVE Books
    OBVIOUS
  <1>1. ledger = <<>> /\ Len(ledger) = 0 /\ pc = "idle" /\ case = Opened
    BY EmptySeq DEF Init
  <1>2. /\ Intents(ledger) = {} /\ Executed(ledger) = {} /\ Unexecuted(ledger) = {}
        /\ ContactIntents(ledger) = {} /\ ContactsMade(ledger) = {}
    BY <1>1 DEF Intents, Executed, Unexecuted, Outcomes, ContactIntents, ContactsMade
  <1>3. IntendedKeys(ledger) = {} /\ ExecutedKeys(ledger) = {}
    BY <1>2 DEF IntendedKeys, ExecutedKeys
  <1>4. /\ Cardinality(Intents(ledger)) = 0 /\ Cardinality(Executed(ledger)) = 0
        /\ Cardinality(Unexecuted(ledger)) = 0
        /\ Cardinality(ContactIntents(ledger)) = 0 /\ Cardinality(ContactsMade(ledger)) = 0
    BY <1>2, FS_EmptySet
  <1>5. OrdinalsFresh /\ KeysCover /\ ExecutedOnce
    BY <1>1, <1>2, <1>3 DEF OrdinalsFresh, KeysCover, ExecutedOnce, Opened, Busy
  <1>6. AttemptsCovered
    BY <1>1, <1>4, LimitsAssumption DEF AttemptsCovered, Spent, Busy, Opened
  <1>7. ContactsCovered
    BY <1>1, <1>4, LimitsAssumption DEF ContactsCovered, Reaching, Busy, Opened
  <1>8. Telling
    BY DEF Init, Telling, Busy
  <1> QED
    BY <1>5, <1>6, <1>7, <1>8 DEF Books, Counted

LEMMA NextBooks ==
  ASSUME IInv, Books, [Next]_vars
  PROVE  Books'
  <1>1. CASE \E k \in Delivered, readable \in BOOLEAN : Intend(k, readable)
    BY <1>1, IntendBooks
  <1>2. CASE Stop \/ \E k \in Delivered, readable \in BOOLEAN : CloseOnDenial(k, readable)
    BY <1>2, CloseBooks
  <1>3. CASE Send \/ Resolve
    BY <1>3, CallBooks
  <1>4. CASE Finish
    BY <1>4, FinishBooks
  <1>5. CASE Crash
    BY <1>5, CrashBooks
  <1>6. CASE Restart
    BY <1>6, RestartBooks
  <1>7. CASE (\E k \in wire \union effects : Land(k) \/ PayLink(k)) \/ PayOutOfBand
    BY <1>7, ProviderBooks
  <1>8. CASE UNCHANGED vars
    <2>1. UNCHANGED <<ledger, wire, effects, pc, cur, reply, case>>
      BY <1>8 DEF vars, provider, process
    <2>2. Counted'
      BY <2>1, QuietCounted DEF Books, QuietLedger, Busy
    <2> QED
      BY <2>1, <2>2 DEF Books, Telling, Told, SentBefore, Open, Busy
  <1> QED
    BY <1>1, <1>2, <1>3, <1>4, <1>5, <1>6, <1>7, <1>8 DEF Next

LEMMA BooksInvariance == Spec => [](IInv /\ Books)
  <1>1. IInv /\ Books /\ [Next]_vars => (IInv /\ Books)'
    BY NextInv, NextBooks
  <1> QED
    BY <1>1, InitInv, InitBooks, PTL DEF Spec

\* What rebuild would return after a crash at any moment has at least the keys,
\* the attempts and the contacts of the case in memory: a restarted process is
\* never more permissive than the one that died.
THEOREM RebuildIsPessimistic == Spec => []RebuildPessimistic
  <1>1. ASSUME IInv, Books PROVE RebuildPessimistic
    <2>1. ledger \in Seq(LedgerRecord) /\ case \in CaseState
      BY <1>1 DEF IInv, TypeOK
    <2>2. /\ Cardinality(Intents(ledger)) \in Nat
          /\ Cardinality(Unexecuted(ledger)) \in Nat
          /\ Cardinality(ContactIntents(ledger)) \in Nat
      BY <2>1, CountsAreNat
    <2>3. pc # "down" => case.keys \subseteq IntendedKeys(ledger)
      BY <1>1 DEF Books, Counted, KeysCover
    <2>4. pc # "down" => case.attempts <= rebuild_attempts(ledger)
      BY <1>1, <2>1, <2>2
      DEF Books, Counted, AttemptsCovered, Spent, rebuild_attempts, CaseState
    <2>5. pc # "down" => case.contacts <= Cardinality(ContactIntents(ledger))
      BY <1>1, <2>1, <2>2 DEF Books, Counted, ContactsCovered, Reaching, CaseState
    <2> QED
      BY <2>3, <2>4, <2>5 DEF RebuildPessimistic, rebuild
  <1> QED
    BY <1>1, BooksInvariance, PTL

\* invariants.py:120-122: I2 never refuses a genuinely new decision, because the
\* ordinal of the next one, in memory or rebuilt, is above that of every key the
\* case holds.
THEOREM NewDecisionsAreFresh == Spec => []NewDecisionIsFresh
  <1>1. ASSUME IInv, Books PROVE NewDecisionIsFresh
    <2>1. \A k \in case.keys : k.ordinal \in Nat
      BY <1>1 DEF IInv, TypeOK, CaseState, Key
    <2>2. pc = "idle" => \A k \in case.keys : k.ordinal < case.ordinal
      BY <1>1 DEF Books, Counted, OrdinalsFresh
    <2>3. \A a : action_key(a, case.ordinal).ordinal = case.ordinal
      BY DEF action_key
    <2>4. pc = "idle" => \A a \in Actions : action_key(a, case.ordinal) \notin case.keys
      BY <1>1, <2>1, <2>2, <2>3
    <2> QED
      BY <2>4 DEF NewDecisionIsFresh, I2
  <1> QED
    BY <1>1, BooksInvariance, PTL

\* I2: a key the ledger reports executed is never intended or reported again,
\* by this process or by one that resumes from its ledger.
THEOREM KeysExecuteOnce == Spec => []ExecutedOnce
  <1>1. Books => ExecutedOnce
    BY DEF Books, Counted
  <1> QED
    BY <1>1, BooksInvariance, PTL

\* Whatever took effect at the provider is visible in the ledger as executed, as
\* a write of unknown fate, or as an intent nobody answered: no timeout, failed
\* read, failed replay or crash turns an effect into a clean failure.
THEOREM EffectsAreTold == Spec => []NoSilentEffect
  <1>1. Books => NoSilentEffect
    BY DEF Books, Telling, Told, NoSilentEffect
  <1> QED
    BY <1>1, BooksInvariance, PTL

\* The attempt cap and the contact budget bound what the ledger reports executed
\* over the whole life of the case, however often the process died in between.
THEOREM CapsHoldAcrossRestarts == Spec => []CapsSurviveRestart
  <1>1. Books => CapsSurviveRestart
    BY DEF Books, Counted, AttemptsCovered, ContactsCovered, ContactsMade,
           CapsSurviveRestart
  <1> QED
    BY <1>1, BooksInvariance, PTL
==================================================================================
