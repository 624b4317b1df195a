---------------------------------- MODULE Ledger ---------------------------------
(***************************************************************************)
(* The hash-chained ledger of executor/ledger.py: a file of JSON lines and *)
(* the chain in memory, appended to in that order's reverse (memory first, *)
(* then the file, then fsync, then the receipt), through crashes of the    *)
(* process and of the machine, torn writes, restarts that adopt the chain  *)
(* on disk, and corruption of the file while no process has it open.       *)
(*                                                                         *)
(* A digest is the tuple of what it digests: two are equal only if all of  *)
(* it is.  Executor.tla takes an append for one atomic step; this module   *)
(* is where that comes from and where it stops being true.                 *)
(***************************************************************************)
EXTENDS Integers, Sequences, SequencesExt

CONSTANTS
  Payloads,     \* what a record can say (kind, case and payload together)
  Signed,       \* VASOOL_LEDGER_KEY is set
  Tears,        \* a write cut short can leave a part of its line in the file
  MaxRecords,   \* bound: lines in the file
  MaxCrashes,   \* bound: crashes
  MaxTampers    \* bound: corruptions of the file

ASSUME LedgerAssumption ==
  /\ Signed \in BOOLEAN /\ Tears \in BOOLEAN
  /\ MaxRecords \in Nat /\ MaxCrashes \in Nat /\ MaxTampers \in Nat

VARIABLES
  file,       \* the lines on disk: [rec, end]
  durable,    \* how many of them an fsync has covered
  records,    \* process: _records
  tip,        \* process: _tip
  pc,         \* process: "idle", "remembered", "written", "down", "refused"
  receipts,   \* history: the records whose append returned
  genuine,    \* history: every chain the process has built
  crashes, tampers

disk    == <<file, durable>>
history == <<receipts, genuine>>
vars    == <<disk, records, tip, pc, history, crashes, tampers>>

----------------------------------------------------------------------------------
GENESIS == <<>>

\* The key that signs the chain, and the one somebody without it would use.
Key == IF Signed THEN "secret" ELSE "none"
Forged == "none"

Digest(seq, payload, prev, key) == <<seq, payload, prev, key>>

NewRecord(seq, payload, prev) ==
  [seq |-> seq, payload |-> payload, prev |-> prev,
   hash |-> Digest(seq, payload, prev, Key)]

\* A line is whole, lacks its newline, or breaks off inside the JSON.
Line(r, end) == [rec |-> r, end |-> end]

\* The hash before record i of a chain.
Before(rs, i) == IF i = 1 THEN GENESIS ELSE rs[i - 1].hash

\* Mutant of verify: each record is checked against its own prev_hash only.
verify_each(rs) ==
  \A i \in 1..Len(rs) : rs[i].hash = Digest(rs[i].seq, rs[i].payload, rs[i].prev, Key)

verify(rs) ==
  \A i \in 1..Len(rs) :
    /\ rs[i].hash = Digest(rs[i].seq, rs[i].payload, Before(rs, i), Key)
    /\ rs[i].prev = Before(rs, i)

\* Every line parses: none breaks off, and none lacks a newline before another.
parses(lines) ==
  \A i \in 1..Len(lines) :
    /\ lines[i].end # "torn"
    /\ lines[i].end = "no_newline" => i = Len(lines)

recs(lines) == [i \in 1..Len(lines) |-> lines[i].rec]

----------------------------------------------------------------------------------
Init ==
  /\ file = <<>> /\ durable = 0
  /\ records = <<>> /\ tip = GENESIS /\ pc = "idle"
  /\ receipts = <<>> /\ genuine = {<<>>}
  /\ crashes = 0 /\ tampers = 0

\* append, first half: the record is chained in memory.
Remember(payload) ==
  /\ pc = "idle"
  /\ Len(file) < MaxRecords
  /\ LET r == NewRecord(Len(records), payload, tip)
     IN  /\ records' = Append(records, r)
         /\ tip' = r.hash
  /\ genuine' = genuine \union {records'}
  /\ pc' = "remembered"
  /\ UNCHANGED <<disk, receipts, crashes, tampers>>

\* write and flush: the line reaches the operating system.
Write ==
  /\ pc = "remembered"
  /\ file' = Append(file, Line(Last(records), "whole"))
  /\ pc' = "written"
  /\ UNCHANGED <<durable, records, tip, history, crashes, tampers>>

\* Mutant of Sync: the receipt is returned without an fsync.
Sync_skipped ==
  /\ pc = "written"
  /\ receipts' = records
  /\ pc' = "idle"
  /\ UNCHANGED <<disk, records, tip, genuine, crashes, tampers>>

\* fsync, and append returns the receipt.
Sync ==
  /\ pc = "written"
  /\ durable' = Len(file)
  /\ receipts' = records
  /\ pc' = "idle"
  /\ UNCHANGED <<file, records, tip, genuine, crashes, tampers>>

\* What a crash can leave of the file: all that was synced, any more that was
\* written, and a part of the line that was being written or was not yet synced.
Kept == {SubSeq(file, 1, n) : n \in durable..Len(file)}

Cut(lines, r) ==
  {Append(lines, Line(r, end)) : end \in IF Tears THEN {"torn", "no_newline"} ELSE {}}

Remains ==
  Kept
    \union (UNION {Cut(SubSeq(file, 1, n), file[n + 1].rec) : n \in durable..(Len(file) - 1)})
    \union (IF pc = "remembered" THEN Cut(file, Last(records)) ELSE {})

\* The process dies, or an exception of the write ends it, or the machine stops.
Crash ==
  /\ pc \in {"idle", "remembered", "written"}
  /\ crashes < MaxCrashes
  /\ crashes' = crashes + 1
  /\ file' \in Remains
  /\ durable' = IF durable < Len(file') THEN durable ELSE Len(file')
  /\ pc' = "down"
  /\ UNCHANGED <<records, tip, history, tampers>>

\* Mutants of Reopen: the tip is not adopted with the records; and the __init__
\* of old, which restarted the chain at GENESIS on the same file.
Reopen_without_tip ==
  /\ pc = "down"
  /\ parses(file) /\ verify(recs(file))
  /\ records' = recs(file) /\ tip' = GENESIS
  /\ pc' = "idle"
  /\ UNCHANGED <<disk, history, crashes, tampers>>

Reopen_afresh ==
  /\ pc = "down"
  /\ parses(file) /\ verify(recs(file))
  /\ records' = <<>> /\ tip' = GENESIS
  /\ pc' = "idle"
  /\ UNCHANGED <<disk, history, crashes, tampers>>

\* A new process opens the file: it adopts the chain that load has verified.
Reopen ==
  /\ pc = "down"
  /\ parses(file) /\ verify(recs(file))
  /\ records' = recs(file)
  /\ tip' = IF file = <<>> THEN GENESIS ELSE Last(file).rec.hash
  /\ pc' = "idle"
  /\ UNCHANGED <<disk, history, crashes, tampers>>

\* load raises: there is no ledger, and no process.
Refuse ==
  /\ pc = "down"
  /\ ~(parses(file) /\ verify(recs(file)))
  /\ pc' = "refused"
  /\ UNCHANGED <<disk, records, tip, history, crashes, tampers>>

(***************************************************************************)
(* Corruption of the file while nothing has it open.                       *)
(***************************************************************************)

\* One line's payload is changed in place.
Edited == {[file EXCEPT ![i].rec.payload = x] : i \in 1..Len(file), x \in Payloads}

\* Two lines change places; a line is lost, possibly the last; one is doubled.
Reordered == {[file EXCEPT ![i] = file[j], ![j] = file[i]] : i, j \in 1..Len(file)}
Shortened == {RemoveAt(file, i) : i \in 1..Len(file)}
Doubled   == {InsertAt(file, i, file[i]) : i \in 1..Len(file)}

\* One payload is changed and every hash recomputed with the key at hand.  An
\* unsigned chain says nothing of this (ledger.py:8-12), so only a signed one is
\* asked.
Rehashed(i, x) ==
  LET payload(n) == IF n = i THEN x ELSE file[n].rec.payload
      hash[n \in 0..Len(file)] ==
        IF n = 0 THEN GENESIS
        ELSE Digest(file[n].rec.seq, payload(n), hash[n - 1], Forged)
  IN  [n \in 1..Len(file) |->
         Line([seq |-> file[n].rec.seq, payload |-> payload(n), prev |-> hash[n - 1],
               hash |-> hash[n]], file[n].end)]

Rewritten ==
  IF Signed THEN {Rehashed(i, x) : i \in 1..Len(file), x \in Payloads} ELSE {}

Tamper ==
  /\ pc = "down"
  /\ tampers < MaxTampers
  /\ tampers' = tampers + 1
  /\ file' \in Edited \union Reordered \union Shortened \union Doubled \union Rewritten
  /\ file' # file
  /\ durable' = Len(file')
  /\ UNCHANGED <<records, tip, pc, history, crashes>>

Next ==
  \/ \E payload \in Payloads : Remember(payload)
  \/ Write \/ Sync \/ Crash \/ Reopen \/ Refuse \/ Tamper

Spec == Init /\ [][Next]_vars
----------------------------------------------------------------------------------
TypeOK ==
  /\ \A i \in 1..Len(file) :
       /\ file[i].end \in {"whole", "no_newline", "torn"}
       /\ file[i].rec.seq \in 0..MaxRecords /\ file[i].rec.payload \in Payloads
  /\ durable \in 0..Len(file)
  /\ tip = IF records = <<>> THEN GENESIS ELSE Last(records).hash
  /\ pc \in {"idle", "remembered", "written", "down", "refused"}
  /\ crashes \in 0..MaxCrashes /\ tampers \in 0..MaxTampers

Up == pc \in {"idle", "remembered", "written"}

\* I8 through a crash: once append has returned a receipt, every later process
\* that gets to open the uncorrupted file has that record, in its place.
ReceiptsSurvive == Up /\ tampers = 0 => IsPrefix(receipts, records)

\* Corruption evidence: what a process works from is a chain that a process built,
\* whole or cut at its end, never one that was edited, reordered or spliced, nor,
\* when the chain is signed, one that was rewritten without the key.
OnlyGenuineChains == Up => records \in genuine

\* Adopting the chain on restart keeps the file one chain: as long as every write
\* was whole, the file always loads.
WholeFileIsAChain ==
  /\ tampers = 0
  /\ \A i \in 1..Len(file) : file[i].end = "whole"
  => verify(recs(file))

----------------------------------------------------------------------------------
(* What the repository says of the program and the code does not do.       *)

\* executor.py:5: "A crash at any point leaves a chain that says exactly how far we
\* got."  So a file that nobody corrupted can be opened again.
CrashLeavesAChain == tampers = 0 => pc # "refused"
==================================================================================
