------------------------------- MODULE LedgerProofs ------------------------------
(***************************************************************************)
(* Theorems about Ledger.tla, for every set of payloads, every number of   *)
(* records, crashes and corruptions, signed or not, with torn writes or    *)
(* without: type correctness, the receipts that every later process finds, *)
(* the chains a process can be made to work from, and the file that stays  *)
(* one chain as long as every write was whole.                             *)
(***************************************************************************)
EXTENDS Ledger, SequenceTheorems, WellFoundedInduction, TLAPS

----------------------------------------------------------------------------------
(* Sequences of whatever elements: a digest is a tuple of no fixed depth,  *)
(* so the chains are sequences over no set that could be named beforehand. *)

IsSeq(s) == \E S : s \in Seq(S)

LEMMA SeqFacts ==
  ASSUME NEW s, IsSeq(s)
  PROVE  /\ Len(s) \in Nat /\ DOMAIN s = 1..Len(s)
         /\ s = <<>> <=> Len(s) = 0
         /\ s = [i \in 1..Len(s) |-> s[i]]
  <1>1. PICK S : s \in Seq(S)
    BY DEF IsSeq
  <1>2. s \in [1..Len(s) -> S]
    BY <1>1, LenProperties
  <1> QED
    BY <1>1, <1>2, LenProperties, EmptySeq

LEMMA SameSeq ==
  ASSUME NEW s, NEW t, IsSeq(s), IsSeq(t), Len(s) = Len(t), \A i \in 1..Len(s) : s[i] = t[i]
  PROVE  s = t
  <1>1. PICK S : s \in Seq(S)
    BY DEF IsSeq
  <1>2. PICK T : t \in Seq(T)
    BY DEF IsSeq
  <1>3. s \in Seq(S \union T) /\ t \in Seq(S \union T)
    BY <1>1, <1>2, SeqMonotonic
  <1> QED
    BY <1>3, SeqEqual

LEMMA MadeSeq ==
  ASSUME NEW n \in Nat, NEW f, f = [i \in 1..n |-> f[i]]
  PROVE  IsSeq(f) /\ Len(f) = n
  <1> DEFINE S == {f[i] : i \in 1..n}
  <1>1. f \in [1..n -> S]
    OBVIOUS
  <1>2. f \in Seq(S)
    BY <1>1, SeqDef
  <1>3. DOMAIN f = 1..n /\ DOMAIN f = 1..Len(f) /\ Len(f) \in Nat
    BY <1>1, <1>2, LenProperties
  <1>4. Len(f) = n
    BY <1>3
  <1>5. IsSeq(f)
    BY <1>2 DEF IsSeq
  <1> QED
    BY <1>4, <1>5

LEMMA EmptyIsSeq == IsSeq(<<>>) /\ Len(<<>>) = 0
  BY EmptySeq DEF IsSeq

LEMMA AppendFacts ==
  ASSUME NEW s, IsSeq(s), NEW e
  PROVE  /\ IsSeq(Append(s, e)) /\ Len(Append(s, e)) = Len(s) + 1
         /\ Len(s) \in Nat
         /\ \A i \in 1..Len(s) : Append(s, e)[i] = s[i]
         /\ Append(s, e)[Len(s) + 1] = e
  <1>1. PICK S : s \in Seq(S)
    BY DEF IsSeq
  <1>2. s \in Seq(S \union {e}) /\ e \in S \union {e}
    BY <1>1, SeqMonotonic
  <1> HIDE <1>1
  <1> DEFINE T == S \union {e}
  <1>3. s \in Seq(T) /\ e \in T
    BY <1>2
  <1> HIDE DEF T
  <1>4. /\ Append(s, e) \in Seq(T) /\ Len(Append(s, e)) = Len(s) + 1
        /\ \A i \in 1..Len(s) : Append(s, e)[i] = s[i]
        /\ Append(s, e)[Len(s) + 1] = e
    BY <1>3, AppendProperties
  <1> QED
    BY <1>4, SeqFacts DEF IsSeq

LEMMA SubSeqFacts ==
  ASSUME NEW s, IsSeq(s), NEW m \in 1..(Len(s) + 1), NEW n \in (m - 1)..Len(s)
  PROVE  /\ IsSeq(SubSeq(s, m, n)) /\ Len(SubSeq(s, m, n)) = n - m + 1
         /\ \A i \in 1..(n - m + 1) : SubSeq(s, m, n)[i] = s[m + i - 1]
  <1>1. PICK S : s \in Seq(S)
    BY DEF IsSeq
  <1>2. Len(s) \in Nat
    BY SeqFacts
  <1>3. m \in Int /\ n \in Int /\ \A i \in m..n : i \in 1..Len(s)
    BY <1>2
  <1>4. \A i \in m..n : s[i] \in S
    BY <1>1, <1>3, ElementOfSeq
  <1>5. /\ SubSeq(s, m, n) \in Seq(S)
        /\ Len(SubSeq(s, m, n)) = IF m <= n THEN n - m + 1 ELSE 0
        /\ \A i \in 1..(n - m + 1) : SubSeq(s, m, n)[i] = s[m + i - 1]
    BY <1>3, <1>4, SubSeqProperties
  <1>6. Len(SubSeq(s, m, n)) = n - m + 1
    BY <1>2, <1>5
  <1> QED
    BY <1>5, <1>6 DEF IsSeq

LEMMA PrefixFacts ==
  ASSUME NEW s, IsSeq(s), NEW n \in 0..Len(s)
  PROVE  /\ IsSeq(SubSeq(s, 1, n)) /\ Len(SubSeq(s, 1, n)) = n
         /\ \A i \in 1..n : SubSeq(s, 1, n)[i] = s[i]
  <1>1. Len(s) \in Nat
    BY SeqFacts
  <1>2. 1 \in 1..(Len(s) + 1) /\ n \in (1 - 1)..Len(s)
    BY <1>1
  <1>3. /\ IsSeq(SubSeq(s, 1, n)) /\ Len(SubSeq(s, 1, n)) = n - 1 + 1
        /\ \A i \in 1..(n - 1 + 1) : SubSeq(s, 1, n)[i] = s[1 + i - 1]
    BY <1>2, SubSeqFacts
  <1> QED
    BY <1>1, <1>3

LEMMA WholePrefix ==
  ASSUME NEW s, IsSeq(s)
  PROVE  SubSeq(s, 1, Len(s)) = s
  <1>1. PICK S : s \in Seq(S)
    BY DEF IsSeq
  <1> QED
    BY <1>1, SubSeqFull

LEMMA PrefixOfPrefix ==
  ASSUME NEW s, IsSeq(s), NEW n \in 0..Len(s), NEW k \in 0..n
  PROVE  SubSeq(SubSeq(s, 1, n), 1, k) = SubSeq(s, 1, k)
  <1>1. Len(s) \in Nat
    BY SeqFacts
  <1>2. k \in 0..Len(s)
    BY <1>1
  <1> DEFINE t == SubSeq(s, 1, n)
             u == SubSeq(s, 1, k)
             v == SubSeq(t, 1, k)
  <1>3. IsSeq(t) /\ Len(t) = n /\ \A i \in 1..n : t[i] = s[i]
    BY PrefixFacts
  <1>4. IsSeq(u) /\ Len(u) = k /\ \A i \in 1..k : u[i] = s[i]
    BY <1>2, PrefixFacts
  <1> HIDE DEF t, u
  <1>5. IsSeq(v) /\ Len(v) = k /\ \A i \in 1..k : v[i] = t[i]
    BY <1>3, PrefixFacts
  <1> HIDE DEF v
  <1>6. \A i \in 1..k : v[i] = u[i]
    BY <1>3, <1>4, <1>5
  <1>7. v = u
    BY <1>4, <1>5, <1>6, SameSeq
  <1> QED
    BY <1>7 DEF t, u, v

LEMMA PrefixOfAppend ==
  ASSUME NEW s, IsSeq(s), NEW e, NEW n \in 0..Len(s)
  PROVE  SubSeq(Append(s, e), 1, n) = SubSeq(s, 1, n)
  <1> DEFINE t == Append(s, e)
             u == SubSeq(s, 1, n)
             v == SubSeq(t, 1, n)
  <1>1. IsSeq(t) /\ Len(t) = Len(s) + 1 /\ Len(s) \in Nat /\ \A i \in 1..Len(s) : t[i] = s[i]
    BY AppendFacts
  <1>2. IsSeq(u) /\ Len(u) = n /\ \A i \in 1..n : u[i] = s[i]
    BY PrefixFacts
  <1> HIDE DEF t, u
  <1>3. n \in 0..Len(t)
    BY <1>1
  <1>4. IsSeq(v) /\ Len(v) = n /\ \A i \in 1..n : v[i] = t[i]
    BY <1>1, <1>3, PrefixFacts
  <1> HIDE DEF v
  <1>5. \A i \in 1..n : v[i] = u[i]
    BY <1>1, <1>2, <1>4
  <1>6. v = u
    BY <1>2, <1>4, <1>5, SameSeq
  <1> QED
    BY <1>6 DEF t, u, v

\* What two sequences have in common, what their concatenation has too.
LEMMA ConcatFacts ==
  ASSUME NEW s, NEW t, IsSeq(s), IsSeq(t)
  PROVE  /\ IsSeq(s \o t) /\ Len(s \o t) = Len(s) + Len(t)
         /\ \A i \in 1..Len(s \o t) :
              (\E j \in 1..Len(s) : (s \o t)[i] = s[j]) \/ (\E j \in 1..Len(t) : (s \o t)[i] = t[j])
  <1>1. PICK S : s \in Seq(S)
    BY DEF IsSeq
  <1>2. PICK T : t \in Seq(T)
    BY DEF IsSeq
  <1>3. s \in Seq(S \union T) /\ t \in Seq(S \union T)
    BY <1>1, <1>2, SeqMonotonic
  <1>4. /\ s \o t \in Seq(S \union T) /\ Len(s \o t) = Len(s) + Len(t)
        /\ \A i \in 1..Len(s) + Len(t) : (s \o t)[i] =
             IF i <= Len(s) THEN s[i] ELSE t[i - Len(s)]
    BY <1>3, ConcatProperties
  <1>5. Len(s) \in Nat /\ Len(t) \in Nat
    BY SeqFacts
  <1>6. ASSUME NEW i \in 1..Len(s \o t)
        PROVE  (\E j \in 1..Len(s) : (s \o t)[i] = s[j])
                 \/ (\E j \in 1..Len(t) : (s \o t)[i] = t[j])
    <2>1. CASE i <= Len(s)
      <3>1. i \in 1..Len(s) /\ (s \o t)[i] = s[i]
        BY <1>4, <1>5, <2>1
      <3> QED
        BY <3>1
    <2>2. CASE ~(i <= Len(s))
      <3>1. i - Len(s) \in 1..Len(t) /\ (s \o t)[i] = t[i - Len(s)]
        BY <1>4, <1>5, <2>2
      <3> QED
        BY <3>1
    <2> QED
      BY <2>1, <2>2
  <1> QED
    BY <1>4, <1>6 DEF IsSeq

----------------------------------------------------------------------------------
(* Induction over an interval, for a property given as the set of numbers  *)
(* that have it.                                                           *)

LEMMA Climb ==
  ASSUME NEW N \in Nat, NEW S, 0 \in S, \A n \in 0..(N - 1) : n \in S => n + 1 \in S
  PROVE  \A n \in 0..N : n \in S
  <1> DEFINE R == OpToRel(<, Nat)
             T == {n \in 0..N : n \notin S}
  <1> SUFFICES ASSUME T # {} PROVE FALSE
    OBVIOUS
  <1>1. T \subseteq Nat
    OBVIOUS
  <1>2. PICK m \in T : \A n \in T : <<n, m>> \notin R
    BY <1>1, WFMin, NatLessThanWellFounded
  <1>3. \A n \in T : ~(n < m)
    BY <1>1, <1>2 DEF OpToRel
  <1>4. m # 0 /\ m \in 0..N /\ m \notin S
    BY <1>2
  <1>5. m - 1 \in 0..(N - 1) /\ m - 1 \in 0..N
    BY <1>4
  <1>6. m - 1 \in S
    BY <1>3, <1>5
  <1>7. m - 1 + 1 \in S
    BY <1>5, <1>6
  <1> QED
    BY <1>4, <1>7

----------------------------------------------------------------------------------
(* The inductive invariant.                                                *)

IsRecord(r) ==
  /\ r = [seq |-> r.seq, payload |-> r.payload, prev |-> r.prev, hash |-> r.hash]
  /\ r.seq \in 0..MaxRecords /\ r.payload \in Payloads

\* A hash that a process computed, and one computed without the key.
KnownHash(h, chains) == \E g \in chains : \E m \in 1..Len(g) : g[m].hash = h

ForgedHash(h) == Signed /\ h = Digest(h[1], h[2], h[3], Forged)

IsLine(l, chains) ==
  /\ l = Line(l.rec, l.end) /\ l.end \in {"whole", "no_newline", "torn"}
  /\ IsRecord(l.rec)
  /\ KnownHash(l.rec.hash, chains) \/ ForgedHash(l.rec.hash)

IsChain(g) == IsSeq(g) /\ (\A i \in 1..Len(g) : IsRecord(g[i])) /\ verify(g)

Typed ==
  /\ IsSeq(receipts) /\ IsSeq(records)
  /\ durable \in 0..Len(file)
  /\ tip = IF records = <<>> THEN GENESIS ELSE Last(records).hash
  /\ pc \in {"idle", "remembered", "written", "down", "refused"}
  /\ crashes \in 0..MaxCrashes /\ tampers \in 0..MaxTampers

\* Every chain a process built is one, and so is every chain it was before that.
GenuineChains ==
  /\ <<>> \in genuine
  /\ \A g \in genuine : IsChain(g) /\ \A n \in 0..Len(g) : SubSeq(g, 1, n) \in genuine

\* Whoever wrote a line, its hash is one of the process or one without the key.
AllLines(lines, chains) ==
  IsSeq(lines) /\ \A i \in 1..Len(lines) : IsLine(lines[i], chains)

FileOfLines == AllLines(file, genuine)

\* What the process has in memory is on disk, but for the record it is writing.
Adopted ==
  Up =>
    /\ records \in genuine
    /\ pc \in {"remembered", "written"} => Len(records) # 0
    /\ recs(file) = IF pc = "remembered" THEN SubSeq(records, 1, Len(records) - 1)
                                         ELSE records

\* What nobody corrupted is a chain that a process built, and holds the receipts.
Untampered ==
  tampers = 0 =>
    /\ recs(file) \in genuine
    /\ Len(receipts) <= durable
    /\ \A i \in 1..Len(receipts) : receipts[i] = file[i].rec

IInv == Typed /\ GenuineChains /\ FileOfLines /\ Adopted /\ Untampered

----------------------------------------------------------------------------------
(* Chains of digests.                                                      *)

LEMMA DigestInjective ==
  ASSUME NEW s, NEW p, NEW b, NEW k, NEW t, NEW q, NEW c, NEW l,
         Digest(s, p, b, k) = Digest(t, q, c, l)
  PROVE  s = t /\ p = q /\ b = c /\ k = l
  BY DEF Digest

LEMMA DigestIsNotGenesis ==
  ASSUME NEW s, NEW p, NEW b, NEW k
  PROVE  Digest(s, p, b, k) # GENESIS
  BY DEF Digest, GENESIS

LEMMA RecsFacts ==
  ASSUME NEW lines, IsSeq(lines)
  PROVE  /\ IsSeq(recs(lines)) /\ Len(recs(lines)) = Len(lines) /\ Len(lines) \in Nat
         /\ \A i \in 1..Len(lines) : recs(lines)[i] = lines[i].rec
  <1>1. Len(lines) \in Nat
    BY SeqFacts
  <1>2. recs(lines) = [i \in 1..Len(lines) |-> recs(lines)[i]]
    BY DEF recs
  <1> QED
    BY <1>1, <1>2, MadeSeq DEF recs

\* Two links with the same hash say the same of themselves and of their past.
LEMMA SameHashSameLink ==
  ASSUME NEW r, NEW g, IsChain(r), IsChain(g),
         NEW i \in 1..Len(r), NEW j \in 1..Len(g), r[i].hash = g[j].hash
  PROVE  r[i] = g[j] /\ Before(r, i) = Before(g, j)
  <1>1. /\ r[i].hash = Digest(r[i].seq, r[i].payload, Before(r, i), Key)
        /\ r[i].prev = Before(r, i) /\ IsRecord(r[i])
    BY DEF IsChain, verify
  <1>2. /\ g[j].hash = Digest(g[j].seq, g[j].payload, Before(g, j), Key)
        /\ g[j].prev = Before(g, j) /\ IsRecord(g[j])
    BY DEF IsChain, verify
  <1>3. Digest(r[i].seq, r[i].payload, Before(r, i), Key)
          = Digest(g[j].seq, g[j].payload, Before(g, j), Key)
    BY <1>1, <1>2
  <1>4. r[i].seq = g[j].seq /\ r[i].payload = g[j].payload /\ Before(r, i) = Before(g, j)
    BY <1>3, DigestInjective
  <1> QED
    BY <1>1, <1>2, <1>4 DEF IsRecord

LEMMA LinkIsNotGenesis ==
  ASSUME NEW g, IsChain(g), NEW j \in 1..Len(g)
  PROVE  g[j].hash # GENESIS
  <1>1. g[j].hash = Digest(g[j].seq, g[j].payload, Before(g, j), Key)
    BY DEF IsChain, verify
  <1> QED
    BY <1>1, DigestIsNotGenesis

\* The hash of the last link names the whole chain: it has only one past.
LEMMA TipNamesChain ==
  ASSUME NEW r, NEW g, IsChain(r), IsChain(g), Len(r) # 0,
         NEW m \in 1..Len(g), r[Len(r)].hash = g[m].hash
  PROVE  r = SubSeq(g, 1, m)
  <1> DEFINE n == Len(r)
             S == {k \in 0..(n - 1) : k < m /\ r[n - k].hash = g[m - k].hash}
  <1>1. n \in Nat /\ n # 0 /\ Len(g) \in Nat /\ m \in Nat /\ m >= 1
    BY SeqFacts DEF IsChain
  <1>2. \A k \in 0..(n - 1) : k \in S
    <2>1. 0 \in S
      BY <1>1
    <2>2. ASSUME NEW k \in 0..(n - 1 - 1), k \in S PROVE k + 1 \in S
      <3>1. n - k \in 1..Len(r) /\ m - k \in 1..Len(g) /\ n - k # 1 /\ k < m
            /\ r[n - k].hash = g[m - k].hash
        BY <1>1, <2>2
      <3>2. Before(r, n - k) = Before(g, m - k)
        BY <3>1, SameHashSameLink
      <3>3. Before(r, n - k) = r[n - (k + 1)].hash /\ n - (k + 1) \in 1..Len(r)
        <4>1. n - k - 1 = n - (k + 1) /\ n - (k + 1) \in 1..Len(r)
          BY <1>1, <3>1
        <4> QED
          BY <3>1, <4>1 DEF Before
      <3>4. m - k # 1
        BY <3>2, <3>3, LinkIsNotGenesis DEF Before
      <3>5. m - k - 1 = m - (k + 1) /\ k + 1 < m /\ k + 1 \in 0..(n - 1)
        BY <1>1, <3>1, <3>4
      <3>6. Before(g, m - k) = g[m - (k + 1)].hash
        BY <3>4, <3>5 DEF Before
      <3> QED
        BY <3>2, <3>3, <3>5, <3>6
    <2>3. n - 1 \in Nat
      BY <1>1
    <2> HIDE DEF S, n
    <2> QED
      BY <2>1, <2>2, <2>3, Climb
  <1>3. n = m
    <2>1. n - 1 \in 0..(n - 1) /\ n - (n - 1) = 1 /\ 1 \in 1..Len(r)
      BY <1>1
    <2>2. n - 1 < m /\ r[1].hash = g[m - (n - 1)].hash
      BY <1>2, <2>1
    <2>3. m - (n - 1) \in 1..Len(g)
      BY <1>1, <2>2
    <2>4. Before(g, m - (n - 1)) = GENESIS
      BY <2>1, <2>2, <2>3, SameHashSameLink DEF Before
    <2>5. m - (n - 1) = 1
      <3> SUFFICES ASSUME m - (n - 1) # 1 PROVE FALSE
        OBVIOUS
      <3>1. m - (n - 1) - 1 \in 1..Len(g)
        BY <1>1, <2>3
      <3> QED
        BY <2>4, <3>1, LinkIsNotGenesis DEF Before
    <2> QED
      BY <1>1, <2>5
  <1>4. ASSUME NEW i \in 1..n PROVE r[i] = g[i]
    <2>1. n - i \in 0..(n - 1) /\ n - (n - i) = i /\ m - (n - i) = i /\ i \in 1..Len(g)
      BY <1>1, <1>3
    <2>2. r[i].hash = g[i].hash
      BY <1>2, <2>1
    <2> QED
      BY <2>1, <2>2, SameHashSameLink
  <1> DEFINE p == SubSeq(g, 1, m)
  <1>5. IsSeq(p) /\ Len(p) = m /\ \A i \in 1..m : p[i] = g[i]
    BY <1>1, PrefixFacts DEF IsChain
  <1> HIDE DEF p
  <1>6. r = p
    BY <1>3, <1>4, <1>5, SameSeq DEF IsChain
  <1> QED
    BY <1>6 DEF p

\* A file that verifies is a chain that a process built, or the start of one,
\* whatever was done to it.
LEMMA VerifiedIsGenuine ==
  ASSUME GenuineChains, FileOfLines, verify(recs(file))
  PROVE  recs(file) \in genuine
  <1> DEFINE r == recs(file)
             n == Len(r)
  <1>1. /\ IsSeq(r) /\ n = Len(file) /\ n \in Nat
        /\ \A i \in 1..n : r[i] = file[i].rec
    BY RecsFacts DEF FileOfLines, AllLines
  <1>2. IsChain(r)
    BY <1>1 DEF FileOfLines, AllLines, IsLine, IsChain
  <1>3. CASE n = 0
    <2>1. r = <<>>
      BY <1>1, <1>3, SeqFacts
    <2> QED
      BY <2>1 DEF GenuineChains
  <1>4. CASE n # 0
    <2>1. n \in 1..Len(file) /\ n \in 1..Len(r)
      BY <1>1, <1>4
    <2>2. IsLine(file[n], genuine) /\ r[n] = file[n].rec
      BY <1>1, <2>1 DEF FileOfLines, AllLines
    <2>3. r[n].hash = Digest(r[n].seq, r[n].payload, Before(r, n), Key)
      BY <2>1 DEF verify
    <2>4. ~ForgedHash(r[n].hash)
      <3> SUFFICES ASSUME ForgedHash(r[n].hash) PROVE FALSE
        OBVIOUS
      <3>1. Signed /\ r[n].hash = Digest(r[n].hash[1], r[n].hash[2], r[n].hash[3], Forged)
        BY DEF ForgedHash
      <3>2. Key = Forged
        <4> HIDE DEF r, n
        <4> QED
          BY <2>3, <3>1, DigestInjective
      <3> QED
        BY <3>1, <3>2 DEF Key, Forged
    <2>5. PICK g \in genuine : \E m \in 1..Len(g) : g[m].hash = r[n].hash
      BY <2>2, <2>4 DEF IsLine, KnownHash
    <2>6. PICK m \in 1..Len(g) : g[m].hash = r[n].hash
      BY <2>5
    <2>7. IsChain(g) /\ Len(g) \in Nat
      BY SeqFacts DEF GenuineChains, IsChain
    <2>8. r = SubSeq(g, 1, m)
      <3> HIDE DEF r
      <3> QED
        BY <1>2, <1>4, <2>6, <2>7, TipNamesChain
    <2>9. m \in 0..Len(g)
      BY <2>7
    <2> QED
      BY <2>8, <2>9 DEF GenuineChains
  <1> QED
    BY <1>3, <1>4

----------------------------------------------------------------------------------
(* Files of lines.                                                         *)

LEMMA LinesStay ==
  ASSUME NEW lines, NEW chains, NEW more, AllLines(lines, chains), chains \subseteq more
  PROVE  AllLines(lines, more)
  BY DEF AllLines, IsLine, KnownHash

LEMMA PartOfLines ==
  ASSUME NEW lines, NEW chains, AllLines(lines, chains),
         NEW m \in 1..(Len(lines) + 1), NEW n \in (m - 1)..Len(lines)
  PROVE  AllLines(SubSeq(lines, m, n), chains)
  <1> DEFINE part == SubSeq(lines, m, n)
  <1>1. IsSeq(lines) /\ Len(lines) \in Nat
    BY SeqFacts DEF AllLines
  <1>2. /\ IsSeq(part) /\ Len(part) = n - m + 1
        /\ \A i \in 1..(n - m + 1) : part[i] = lines[m + i - 1]
    BY <1>1, SubSeqFacts
  <1> HIDE DEF part
  <1>3. \A i \in 1..(n - m + 1) : m + i - 1 \in 1..Len(lines)
    BY <1>1
  <1>4. \A i \in 1..Len(part) : IsLine(part[i], chains)
    BY <1>2, <1>3 DEF AllLines
  <1>5. AllLines(part, chains)
    BY <1>2, <1>4 DEF AllLines
  <1> QED
    BY <1>5 DEF part

LEMMA JoinedLines ==
  ASSUME NEW s, NEW t, NEW chains, AllLines(s, chains), AllLines(t, chains)
  PROVE  AllLines(s \o t, chains)
  <1> DEFINE both == s \o t
  <1>1. /\ IsSeq(both)
        /\ \A i \in 1..Len(both) :
             (\E j \in 1..Len(s) : both[i] = s[j]) \/ (\E j \in 1..Len(t) : both[i] = t[j])
    BY ConcatFacts DEF AllLines
  <1> HIDE DEF both
  <1>2. AllLines(both, chains)
    BY <1>1 DEF AllLines
  <1> QED
    BY <1>2 DEF both

LEMMA OneLine ==
  ASSUME NEW l, NEW chains, IsLine(l, chains)
  PROVE  AllLines(<<l>>, chains)
  <1> DEFINE one == <<l>>
  <1>1. one \in Seq({l}) /\ Len(one) = 1 /\ one[1] = l
    OBVIOUS
  <1> HIDE DEF one
  <1>2. IsSeq(one)
    BY <1>1 DEF IsSeq
  <1>3. \A i \in 1..Len(one) : IsLine(one[i], chains)
    BY <1>1
  <1>4. AllLines(one, chains)
    BY <1>2, <1>3 DEF AllLines
  <1> QED
    BY <1>4 DEF one

LEMMA AppendedLine ==
  ASSUME NEW lines, NEW chains, AllLines(lines, chains), NEW l, IsLine(l, chains)
  PROVE  AllLines(Append(lines, l), chains)
  <1> DEFINE more == Append(lines, l)
  <1>1. /\ IsSeq(more) /\ Len(more) = Len(lines) + 1 /\ Len(lines) \in Nat
        /\ \A i \in 1..Len(lines) : more[i] = lines[i]
        /\ more[Len(lines) + 1] = l
    BY AppendFacts DEF AllLines
  <1> HIDE DEF more
  <1>2. ASSUME NEW i \in 1..Len(more) PROVE IsLine(more[i], chains)
    <2>1. CASE i \in 1..Len(lines)
      BY <1>1, <2>1 DEF AllLines
    <2>2. CASE i \notin 1..Len(lines)
      <3>1. i = Len(lines) + 1
        BY <1>1, <2>2
      <3> QED
        BY <1>1, <3>1
    <2> QED
      BY <2>1, <2>2
  <1>3. AllLines(more, chains)
    BY <1>1, <1>2 DEF AllLines
  <1> QED
    BY <1>3 DEF more

\* What a line is but for its end.
LEMMA LineOf ==
  ASSUME NEW r, NEW chains, IsRecord(r), KnownHash(r.hash, chains) \/ ForgedHash(r.hash),
         NEW end \in {"whole", "no_newline", "torn"}
  PROVE  IsLine(Line(r, end), chains) /\ Line(r, end).rec = r
  BY DEF IsLine, Line

\* A line of a genuine chain.
LEMMA GenuineLine ==
  ASSUME GenuineChains, NEW g \in genuine, NEW i \in 1..Len(g),
         NEW end \in {"whole", "no_newline", "torn"}
  PROVE  IsLine(Line(g[i], end), genuine) /\ Line(g[i], end).rec = g[i]
  <1>1. IsRecord(g[i]) /\ KnownHash(g[i].hash, genuine)
    BY DEF GenuineChains, IsChain, KnownHash
  <1> QED
    BY <1>1, LineOf

\* What is left of the file is the start of the chain, and what was synced is in it.
StartOf(lines) ==
  /\ AllLines(lines, genuine) /\ recs(lines) \in genuine
  /\ durable <= Len(lines) /\ \A i \in 1..durable : lines[i].rec = file[i].rec

LEMMA PrefixRemains ==
  ASSUME Typed, GenuineChains, FileOfLines, recs(file) \in genuine, NEW n \in durable..Len(file)
  PROVE  StartOf(SubSeq(file, 1, n))
  <1> DEFINE part == SubSeq(file, 1, n)
             r == recs(file)
             kept == SubSeq(r, 1, n)
  <1>1. IsSeq(file) /\ Len(file) \in Nat /\ durable \in 0..Len(file) /\ n \in 0..Len(file)
    BY SeqFacts DEF FileOfLines, AllLines, Typed
  <1>2. 1 \in 1..(Len(file) + 1) /\ n \in (1 - 1)..Len(file)
    BY <1>1
  <1>3. AllLines(part, genuine)
    BY <1>2, PartOfLines DEF FileOfLines
  <1>4. IsSeq(part) /\ Len(part) = n /\ \A i \in 1..n : part[i] = file[i]
    BY <1>1, PrefixFacts
  <1>5. IsSeq(r) /\ Len(r) = Len(file) /\ \A i \in 1..Len(file) : r[i] = file[i].rec
    BY <1>1, RecsFacts
  <1>6. kept \in genuine
    BY <1>1, <1>5 DEF GenuineChains
  <1> HIDE DEF part, r
  <1>7. IsSeq(kept) /\ Len(kept) = n /\ \A i \in 1..n : kept[i] = r[i]
    BY <1>1, <1>5, PrefixFacts
  <1> HIDE DEF kept
  <1>8. IsSeq(recs(part)) /\ Len(recs(part)) = n /\ \A i \in 1..n : recs(part)[i] = part[i].rec
    BY <1>4, RecsFacts
  <1>9. \A i \in 1..n : recs(part)[i] = kept[i]
    BY <1>1, <1>4, <1>5, <1>7, <1>8
  <1>10. recs(part) = kept
    BY <1>7, <1>8, <1>9, SameSeq
  <1>11. durable <= n /\ \A i \in 1..durable : part[i].rec = file[i].rec
    BY <1>1, <1>4
  <1>12. StartOf(part)
    BY <1>3, <1>4, <1>6, <1>10, <1>11 DEF StartOf
  <1> QED
    BY <1>12 DEF part

\* One more line after a start of the chain, if the chain goes on with it.
LEMMA CutRemains ==
  ASSUME Typed, GenuineChains, FileOfLines, NEW lines, StartOf(lines),
         NEW g \in genuine, Len(lines) < Len(g), recs(lines) = SubSeq(g, 1, Len(lines)),
         NEW end \in {"whole", "no_newline", "torn"}
  PROVE  StartOf(Append(lines, Line(g[Len(lines) + 1], end)))
  <1> DEFINE n == Len(lines)
             l == Line(g[n + 1], end)
             more == Append(lines, l)
             next == SubSeq(g, 1, n + 1)
  <1>1. /\ IsSeq(lines) /\ n \in Nat /\ IsSeq(g) /\ Len(g) \in Nat
        /\ durable \in Nat /\ durable <= n
    BY SeqFacts DEF StartOf, AllLines, GenuineChains, IsChain, Typed, FileOfLines
  <1>2. n + 1 \in 1..Len(g) /\ n + 1 \in 0..Len(g) /\ n \in 0..Len(g)
    BY <1>1
  <1>3. IsLine(l, genuine) /\ l.rec = g[n + 1]
    BY <1>2, GenuineLine
  <1> HIDE DEF l
  <1>4. AllLines(more, genuine)
    BY <1>3, AppendedLine DEF StartOf
  <1>5. /\ IsSeq(more) /\ Len(more) = n + 1
        /\ \A i \in 1..n : more[i] = lines[i]
        /\ more[n + 1] = l
    BY <1>1, AppendFacts
  <1>6. next \in genuine
    BY <1>2 DEF GenuineChains
  <1> HIDE DEF more
  <1>7. IsSeq(next) /\ Len(next) = n + 1 /\ \A i \in 1..(n + 1) : next[i] = g[i]
    BY <1>1, <1>2, PrefixFacts
  <1> HIDE DEF next
  <1>8. /\ IsSeq(recs(more)) /\ Len(recs(more)) = n + 1
        /\ \A i \in 1..(n + 1) : recs(more)[i] = more[i].rec
    BY <1>5, RecsFacts
  <1>9. \A i \in 1..n : lines[i].rec = g[i]
    <2>1. \A i \in 1..n : recs(lines)[i] = lines[i].rec
      BY <1>1, RecsFacts
    <2>2. \A i \in 1..n : SubSeq(g, 1, n)[i] = g[i]
      BY <1>1, <1>2, PrefixFacts
    <2> QED
      BY <2>1, <2>2
  <1>10. ASSUME NEW i \in 1..(n + 1) PROVE recs(more)[i] = next[i]
    <2>1. CASE i \in 1..n
      BY <1>5, <1>7, <1>8, <1>9, <2>1
    <2>2. CASE i \notin 1..n
      <3>1. i = n + 1
        BY <1>1, <2>2
      <3> QED
        BY <1>3, <1>5, <1>7, <1>8, <3>1
    <2> QED
      BY <2>1, <2>2
  <1>11. recs(more) = next
    BY <1>7, <1>8, <1>10, SameSeq
  <1>12. durable <= Len(more)
    BY <1>1, <1>5
  <1>13. \A i \in 1..durable : more[i].rec = file[i].rec
    BY <1>1, <1>5 DEF StartOf
  <1>14. StartOf(more)
    BY <1>4, <1>6, <1>11, <1>12, <1>13 DEF StartOf
  <1> QED
    BY <1>14 DEF more, l

----------------------------------------------------------------------------------
(* Corruption leaves a file of lines with the hashes there were, or with   *)
(* hashes made without the key.                                            *)

LEMMA EditedLines ==
  ASSUME FileOfLines, NEW f \in Edited
  PROVE  AllLines(f, genuine)
  <1>1. PICK i \in 1..Len(file), x \in Payloads : f = [file EXCEPT ![i].rec.payload = x]
    BY DEF Edited
  <1>2. IsSeq(file) /\ Len(file) \in Nat /\ file = [j \in 1..Len(file) |-> file[j]]
    BY SeqFacts DEF FileOfLines, AllLines
  <1> DEFINE l == file[i]
             r == [seq |-> l.rec.seq, payload |-> x, prev |-> l.rec.prev, hash |-> l.rec.hash]
  <1>3. /\ f = [j \in 1..Len(file) |-> f[j]]
        /\ \A j \in 1..Len(file) : j # i => f[j] = file[j]
        /\ f[i] = [l EXCEPT !.rec.payload = x]
    BY <1>1, <1>2
  <1>4. IsLine(l, genuine)
    BY DEF FileOfLines, AllLines
  <1>5. [l EXCEPT !.rec.payload = x] = Line(r, l.end)
    <2> DEFINE q == l.rec
    <2>1. l = [rec |-> q, end |-> l.end]
      BY <1>4 DEF IsLine, Line
    <2>2. q = [seq |-> q.seq, payload |-> q.payload, prev |-> q.prev, hash |-> q.hash]
      BY <1>4 DEF IsLine, IsRecord
    <2> HIDE DEF l, q
    <2>3. [q EXCEPT !.payload = x]
            = [seq |-> q.seq, payload |-> x, prev |-> q.prev, hash |-> q.hash]
      BY <2>2
    <2>4. [l EXCEPT !.rec.payload = x] = [rec |-> [q EXCEPT !.payload = x], end |-> l.end]
      BY <2>1
    <2> QED
      BY <2>3, <2>4 DEF Line, q
  <1>6. IsRecord(r) /\ r.hash = l.rec.hash
    BY <1>4 DEF IsLine, IsRecord
  <1>7. IsLine(Line(r, l.end), genuine)
    <2> HIDE DEF l, r
    <2> QED
      BY <1>4, <1>6, LineOf DEF IsLine
  <1>8. IsLine(f[i], genuine)
    BY <1>3, <1>5, <1>7
  <1>9. IsSeq(f) /\ Len(f) = Len(file)
    BY <1>2, <1>3, MadeSeq
  <1>10. \A j \in 1..Len(f) : IsLine(f[j], genuine)
    BY <1>3, <1>8, <1>9 DEF FileOfLines, AllLines
  <1> QED
    BY <1>9, <1>10 DEF AllLines

LEMMA ReorderedLines ==
  ASSUME FileOfLines, NEW f \in Reordered
  PROVE  AllLines(f, genuine)
  <1>1. PICK i \in 1..Len(file), j \in 1..Len(file) :
          f = [file EXCEPT ![i] = file[j], ![j] = file[i]]
    BY DEF Reordered
  <1>2. IsSeq(file) /\ Len(file) \in Nat /\ file = [k \in 1..Len(file) |-> file[k]]
    BY SeqFacts DEF FileOfLines, AllLines
  <1>3. /\ f = [k \in 1..Len(file) |-> f[k]]
        /\ \A k \in 1..Len(file) : f[k] \in {file[i], file[j], file[k]}
    BY <1>1, <1>2
  <1>4. IsSeq(f) /\ Len(f) = Len(file)
    BY <1>2, <1>3, MadeSeq
  <1>5. \A k \in 1..Len(f) : IsLine(f[k], genuine)
    BY <1>3, <1>4 DEF FileOfLines, AllLines
  <1> QED
    BY <1>4, <1>5 DEF AllLines

LEMMA ShortenedLines ==
  ASSUME FileOfLines, NEW f \in Shortened
  PROVE  AllLines(f, genuine)
  <1>1. PICK i \in 1..Len(file) : f = SubSeq(file, 1, i - 1) \o SubSeq(file, i + 1, Len(file))
    BY DEF Shortened, RemoveAt
  <1>2. Len(file) \in Nat
    BY SeqFacts DEF FileOfLines, AllLines
  <1>3. 1 \in 1..(Len(file) + 1) /\ i - 1 \in (1 - 1)..Len(file)
    BY <1>2
  <1>4. i + 1 \in 1..(Len(file) + 1) /\ Len(file) \in ((i + 1) - 1)..Len(file)
    BY <1>2
  <1>5. AllLines(SubSeq(file, 1, i - 1), genuine)
    BY <1>3, PartOfLines DEF FileOfLines
  <1>6. AllLines(SubSeq(file, i + 1, Len(file)), genuine)
    BY <1>4, PartOfLines DEF FileOfLines
  <1> QED
    BY <1>1, <1>5, <1>6, JoinedLines

LEMMA DoubledLines ==
  ASSUME FileOfLines, NEW f \in Doubled
  PROVE  AllLines(f, genuine)
  <1>1. PICK i \in 1..Len(file) :
          f = SubSeq(file, 1, i - 1) \o <<file[i]>> \o SubSeq(file, i, Len(file))
    BY DEF Doubled, InsertAt
  <1>2. Len(file) \in Nat
    BY SeqFacts DEF FileOfLines, AllLines
  <1>3. 1 \in 1..(Len(file) + 1) /\ i - 1 \in (1 - 1)..Len(file)
    BY <1>2
  <1>4. i \in 1..(Len(file) + 1) /\ Len(file) \in (i - 1)..Len(file)
    BY <1>2
  <1>5. AllLines(SubSeq(file, 1, i - 1), genuine)
    BY <1>3, PartOfLines DEF FileOfLines
  <1>6. AllLines(SubSeq(file, i, Len(file)), genuine)
    BY <1>4, PartOfLines DEF FileOfLines
  <1>7. AllLines(<<file[i]>>, genuine)
    BY OneLine DEF FileOfLines, AllLines
  <1>8. AllLines(SubSeq(file, 1, i - 1) \o <<file[i]>>, genuine)
    BY <1>5, <1>7, JoinedLines
  <1> QED
    BY <1>1, <1>6, <1>8, JoinedLines

\* The chain of hashes that Rehashed recomputes: every link is made from the one
\* before it, so for each length there is one.
Chained(i, x, h, N) ==
  h = [n \in 0..N |->
         IF n = 0 THEN GENESIS
         ELSE Digest(file[n].rec.seq, IF n = i THEN x ELSE file[n].rec.payload, h[n - 1], Forged)]

LEMMA ChainExists ==
  ASSUME NEW i, NEW x, NEW N \in Nat
  PROVE  \E h : Chained(i, x, h, N)
  <1> DEFINE S == {n \in 0..N : \E h : Chained(i, x, h, n)}
  <1>1. 0 \in S
    <2> DEFINE h == [n \in 0..0 |-> GENESIS]
    <2>1. Chained(i, x, h, 0)
      BY DEF Chained
    <2> QED
      BY <2>1
  <1>2. ASSUME NEW n \in 0..(N - 1), n \in S PROVE n + 1 \in S
    <2>1. PICK h : Chained(i, x, h, n)
      BY <1>2
    <2> DEFINE link == Digest(file[n + 1].rec.seq,
                              IF n + 1 = i THEN x ELSE file[n + 1].rec.payload, h[n], Forged)
               k == [m \in 0..(n + 1) |-> IF m = n + 1 THEN link ELSE h[m]]
               right(m) ==
                 IF m = 0 THEN GENESIS
                 ELSE Digest(file[m].rec.seq, IF m = i THEN x ELSE file[m].rec.payload,
                             k[m - 1], Forged)
    <2>2. ASSUME NEW m \in 0..(n + 1) PROVE k[m] = right(m)
      <3>1. CASE m = n + 1
        <4>1. k[m] = link /\ m - 1 = n /\ m # 0 /\ k[m - 1] = h[n]
          BY <3>1
        <4> QED
          BY <3>1, <4>1
      <3>2. CASE m # n + 1 /\ m # 0
        <4>1. m \in 0..n /\ m - 1 \in 0..n /\ m - 1 \in 0..(n + 1) /\ m - 1 # n + 1
          BY <3>2
        <4>2. k[m] = h[m] /\ k[m - 1] = h[m - 1]
          BY <3>2, <4>1
        <4>3. h[m] = Digest(file[m].rec.seq, IF m = i THEN x ELSE file[m].rec.payload,
                            h[m - 1], Forged)
          BY <2>1, <3>2, <4>1 DEF Chained
        <4> QED
          BY <3>2, <4>2, <4>3
      <3>3. CASE m = 0
        <4>1. k[m] = h[0] /\ 0 \in 0..n
          BY <3>3
        <4>2. h[0] = GENESIS
          BY <2>1, <4>1 DEF Chained
        <4> QED
          BY <3>3, <4>1, <4>2
      <3> QED
        BY <3>1, <3>2, <3>3
    <2>3. k = [m \in 0..(n + 1) |-> k[m]]
      OBVIOUS
    <2>4. Chained(i, x, k, n + 1)
      <3> HIDE DEF k
      <3> QED
        BY <2>2, <2>3 DEF Chained
    <2>5. n + 1 \in 0..N
      OBVIOUS
    <2> QED
      BY <2>4, <2>5
  <1> HIDE DEF S
  <1>3. N \in S
    <2>1. \A n \in 0..N : n \in S
      BY <1>1, <1>2, Climb
    <2> QED
      BY <2>1
  <1> QED
    BY <1>3 DEF S

LEMMA RewrittenLines ==
  ASSUME FileOfLines, NEW f \in Rewritten
  PROVE  AllLines(f, genuine)
  <1>1. Signed /\ \E i \in 1..Len(file), x \in Payloads : f = Rehashed(i, x)
    BY DEF Rewritten
  <1>2. PICK i \in 1..Len(file), x \in Payloads : f = Rehashed(i, x)
    BY <1>1
  <1> DEFINE N == Len(file)
             payload(n) == IF n = i THEN x ELSE file[n].rec.payload
             h == CHOOSE hash : Chained(i, x, hash, N)
             r(n) == [seq |-> file[n].rec.seq, payload |-> payload(n), prev |-> h[n - 1],
                      hash |-> h[n]]
  <1>3. N \in Nat
    BY SeqFacts DEF FileOfLines, AllLines
  <1>4. f = [n \in 1..N |-> Line(r(n), file[n].end)]
    BY <1>2 DEF Rehashed, Chained
  <1>5. Chained(i, x, h, N)
    <2>1. \E hash : Chained(i, x, hash, N)
      BY <1>3, ChainExists
    <2> QED
      BY <2>1
  <1> HIDE DEF h
  <1>6. ASSUME NEW n \in 1..N PROVE IsLine(f[n], genuine)
    <2>1. IsLine(file[n], genuine)
      BY DEF FileOfLines, AllLines
    <2>2. IsRecord(r(n))
      BY <2>1 DEF IsLine, IsRecord
    <2>3. n \in 0..N /\ n # 0
      BY <1>3
    <2>4. h[n] = Digest(file[n].rec.seq, payload(n), h[n - 1], Forged)
      BY <1>5, <2>3 DEF Chained
    <2>5. ForgedHash(h[n])
      BY <1>1, <2>4 DEF ForgedHash, Digest
    <2>6. IsLine(Line(r(n), file[n].end), genuine)
      BY <2>1, <2>2, <2>5, LineOf DEF IsLine
    <2> QED
      BY <1>4, <2>6
  <1>7. f = [n \in 1..N |-> f[n]]
    BY <1>4
  <1>8. IsSeq(f) /\ Len(f) = N
    BY <1>3, <1>7, MadeSeq
  <1> QED
    BY <1>6, <1>8 DEF AllLines

----------------------------------------------------------------------------------
(* The steps.                                                              *)

LEMMA InitInv == Init => IInv
  <1> SUFFICES ASSUME Init PROVE IInv
    OBVIOUS
  <1>1. /\ file = <<>> /\ durable = 0 /\ records = <<>> /\ tip = GENESIS /\ pc = "idle"
        /\ receipts = <<>> /\ genuine = {<<>>} /\ crashes = 0 /\ tampers = 0
    BY DEF Init
  <1>2. IsSeq(<<>>) /\ Len(<<>>) = 0
    BY EmptyIsSeq
  <1>3. recs(file) = <<>>
    BY <1>1, <1>2, RecsFacts, SeqFacts
  <1>4. Typed
    BY <1>1, <1>2, LedgerAssumption DEF Typed
  <1>5. GenuineChains
    <2>1. IsChain(<<>>)
      BY <1>2 DEF IsChain, verify
    <2>2. \A n \in 0..Len(<<>>) : SubSeq(<<>>, 1, n) = <<>>
      BY <1>2, SubSeqEmpty
    <2> QED
      BY <1>1, <2>1, <2>2 DEF GenuineChains
  <1>6. FileOfLines
    BY <1>1, <1>2 DEF FileOfLines, AllLines
  <1>7. Adopted
    BY <1>1, <1>3 DEF Adopted
  <1>8. Untampered
    BY <1>1, <1>2, <1>3 DEF Untampered
  <1> QED
    BY <1>4, <1>5, <1>6, <1>7, <1>8 DEF IInv

LEMMA RememberInv ==
  ASSUME IInv, NEW payload \in Payloads, Remember(payload)
  PROVE  IInv'
  <1> DEFINE r == NewRecord(Len(records), payload, tip)
             n == Len(records)
  <1>1. /\ pc = "idle" /\ Len(file) < MaxRecords
        /\ records' = Append(records, r) /\ tip' = r.hash
        /\ genuine' = genuine \union {records'} /\ pc' = "remembered"
        /\ file' = file /\ durable' = durable /\ receipts' = receipts
        /\ crashes' = crashes /\ tampers' = tampers
    BY DEF Remember, disk
  <1>2. /\ records \in genuine /\ recs(file) = records /\ IsChain(records)
        /\ IsSeq(records) /\ n \in Nat
    BY <1>1, SeqFacts DEF IInv, Adopted, Up, GenuineChains, IsChain
  <1>3. n = Len(file) /\ n \in 0..MaxRecords
    <2>1. Len(recs(file)) = Len(file)
      BY RecsFacts DEF IInv, FileOfLines, AllLines
    <2> QED
      BY <1>1, <1>2, <2>1, LedgerAssumption
  <1>4. /\ r.seq = n /\ r.payload = payload /\ r.prev = tip
        /\ r.hash = Digest(r.seq, r.payload, tip, Key)
        /\ r = [seq |-> r.seq, payload |-> r.payload, prev |-> r.prev, hash |-> r.hash]
    BY DEF NewRecord
  <1> HIDE DEF r
  <1>5. /\ IsSeq(records') /\ Len(records') = n + 1
        /\ \A i \in 1..n : records'[i] = records[i]
        /\ records'[n + 1] = r
    BY <1>1, <1>2, AppendFacts
  <1>6. tip = Before(records', n + 1)
    <2>1. CASE n = 0
      BY <1>2, <2>1, SeqFacts DEF Before, IInv, Typed
    <2>2. CASE n # 0
      <3>1. n \in 1..n /\ n + 1 # 1 /\ n + 1 - 1 = n /\ records # <<>>
        BY <1>2, <2>2, SeqFacts
      <3>2. tip = records[n].hash
        BY <3>1 DEF IInv, Typed, Last
      <3> QED
        BY <1>5, <3>1, <3>2 DEF Before
    <2> QED
      BY <2>1, <2>2
  <1>7. ASSUME NEW i \in 1..(n + 1)
        PROVE  /\ IsRecord(records'[i]) /\ records'[i].prev = Before(records', i)
               /\ records'[i].hash =
                    Digest(records'[i].seq, records'[i].payload, Before(records', i), Key)
    <2>1. CASE i \in 1..n
      <3>1. /\ IsRecord(records[i]) /\ records[i].prev = Before(records, i)
            /\ records[i].hash =
                 Digest(records[i].seq, records[i].payload, Before(records, i), Key)
        BY <1>2, <2>1 DEF IsChain, verify
      <3>2. Before(records', i) = Before(records, i)
        BY <1>2, <1>5, <2>1 DEF Before
      <3> QED
        BY <1>5, <2>1, <3>1, <3>2
    <2>2. CASE i \notin 1..n
      <3>1. i = n + 1
        BY <1>2, <2>2
      <3>2. IsRecord(r)
        BY <1>3, <1>4 DEF IsRecord
      <3> QED
        BY <1>4, <1>5, <1>6, <3>1, <3>2
    <2> QED
      BY <2>1, <2>2
  <1>8. IsChain(records')
    BY <1>5, <1>7 DEF IsChain, verify
  <1>9. /\ \A m \in 0..n : SubSeq(records', 1, m) = SubSeq(records, 1, m)
        /\ SubSeq(records', 1, n + 1) = records'
    BY <1>1, <1>2, <1>5, PrefixOfAppend, WholePrefix
  <1>10. GenuineChains'
    <2>1. ASSUME NEW m \in 0..Len(records') PROVE SubSeq(records', 1, m) \in genuine'
      <3>1. CASE m \in 0..n
        BY <1>1, <1>2, <1>9, <3>1 DEF IInv, GenuineChains
      <3>2. CASE m \notin 0..n
        <4>1. m = n + 1
          BY <1>2, <1>5, <3>2
        <4> QED
          BY <1>1, <1>9, <4>1
      <3> QED
        BY <3>1, <3>2
    <2>2. ASSUME NEW g \in genuine
          PROVE  IsChain(g) /\ \A m \in 0..Len(g) : SubSeq(g, 1, m) \in genuine'
      BY <1>1 DEF IInv, GenuineChains
    <2>3. <<>> \in genuine'
      BY <1>1 DEF IInv, GenuineChains
    <2>4. \A g \in genuine' : IsChain(g) /\ \A m \in 0..Len(g) : SubSeq(g, 1, m) \in genuine'
      BY <1>1, <1>8, <2>1, <2>2
    <2> QED
      BY <2>3, <2>4 DEF GenuineChains, IsChain, IsSeq, IsRecord, verify, Before
  <1>11. Typed'
    <2>1. records' # <<>> /\ Last(records') = r
      BY <1>2, <1>5, SeqFacts DEF Last
    <2> QED
      BY <1>1, <1>5, <2>1 DEF IInv, Typed, IsSeq, Last
  <1>12. FileOfLines'
    <2>1. AllLines(file, genuine')
      BY <1>1, LinesStay DEF IInv, FileOfLines
    <2>2. AllLines(file', genuine')
      BY <1>1, <2>1
    <2> QED
      BY <2>2 DEF FileOfLines, AllLines
  <1>13. Adopted'
    <2>1. recs(file') = SubSeq(records', 1, Len(records') - 1)
      <3>1. Len(records') - 1 = n /\ n \in 0..n
        BY <1>2, <1>5
      <3>2. SubSeq(records, 1, n) = records
        BY <1>2, WholePrefix
      <3> QED
        BY <1>1, <1>2, <1>9, <3>1, <3>2
    <2>2. records' \in genuine' /\ Len(records') # 0
      BY <1>1, <1>2, <1>5
    <2> QED
      BY <1>1, <2>1, <2>2 DEF Adopted, recs
  <1>14. Untampered'
    BY <1>1 DEF IInv, Untampered, recs
  <1> QED
    BY <1>10, <1>11, <1>12, <1>13, <1>14 DEF IInv

LEMMA GenuineStays ==
  ASSUME GenuineChains, genuine' = genuine
  PROVE  GenuineChains'
  BY DEF GenuineChains

LEMMA WriteInv ==
  ASSUME IInv, Write
  PROVE  IInv'
  <1> DEFINE n == Len(file)
             l == Line(Last(records), "whole")
  <1>1. /\ pc = "remembered" /\ file' = Append(file, l) /\ pc' = "written"
        /\ durable' = durable /\ records' = records /\ tip' = tip
        /\ receipts' = receipts /\ genuine' = genuine
        /\ crashes' = crashes /\ tampers' = tampers
    BY DEF Write, history
  <1>2. /\ records \in genuine /\ Len(records) # 0
        /\ recs(file) = SubSeq(records, 1, Len(records) - 1)
        /\ IsSeq(records) /\ Len(records) \in Nat
    BY <1>1, SeqFacts DEF IInv, Adopted, Up, GenuineChains, IsChain
  <1>3. /\ IsSeq(file) /\ n \in Nat /\ IsSeq(recs(file)) /\ Len(recs(file)) = n
        /\ \A i \in 1..n : recs(file)[i] = file[i].rec
    BY RecsFacts DEF IInv, FileOfLines, AllLines
  <1>4. Len(records) = n + 1 /\ \A i \in 1..n : recs(file)[i] = records[i]
    <2>1. Len(records) - 1 \in 0..Len(records)
      BY <1>2
    <2>2. /\ Len(SubSeq(records, 1, Len(records) - 1)) = Len(records) - 1
          /\ \A i \in 1..(Len(records) - 1) :
               SubSeq(records, 1, Len(records) - 1)[i] = records[i]
      BY <1>2, <2>1, PrefixFacts
    <2>3. n = Len(records) - 1
      BY <1>2, <1>3, <2>2
    <2> QED
      BY <1>2, <1>3, <2>2, <2>3
  <1>5. IsLine(l, genuine) /\ l.rec = records[n + 1]
    <2>1. n + 1 \in 1..Len(records) /\ Last(records) = records[n + 1]
      BY <1>3, <1>4 DEF Last
    <2> QED
      BY <1>2, <2>1, GenuineLine DEF IInv
  <1> HIDE DEF l
  <1>6. AllLines(file', genuine)
    BY <1>1, <1>5, AppendedLine DEF IInv, FileOfLines
  <1>7. /\ IsSeq(file') /\ Len(file') = n + 1
        /\ \A i \in 1..n : file'[i] = file[i]
        /\ file'[n + 1] = l
    BY <1>1, <1>3, AppendFacts
  <1>8. recs(file') = records
    <2>1. /\ IsSeq(recs(file')) /\ Len(recs(file')) = n + 1
          /\ \A i \in 1..(n + 1) : recs(file')[i] = file'[i].rec
      BY <1>7, RecsFacts
    <2>2. ASSUME NEW i \in 1..(n + 1) PROVE recs(file')[i] = records[i]
      <3>1. CASE i \in 1..n
        BY <1>3, <1>4, <1>7, <2>1, <3>1
      <3>2. CASE i \notin 1..n
        <4>1. i = n + 1
          BY <1>3, <3>2
        <4> QED
          BY <1>5, <1>7, <2>1, <4>1
      <3> QED
        BY <3>1, <3>2
    <2> QED
      BY <1>2, <1>4, <2>1, <2>2, SameSeq
  <1>9. Typed'
    <2>1. durable' \in 0..Len(file')
      BY <1>1, <1>3, <1>7 DEF IInv, Typed
    <2> QED
      BY <1>1, <2>1 DEF IInv, Typed
  <1>10. FileOfLines'
    BY <1>1, <1>6 DEF FileOfLines
  <1>11. Adopted'
    BY <1>1, <1>2, <1>8 DEF Adopted
  <1>12. Untampered'
    <2> SUFFICES ASSUME tampers' = 0
                 PROVE  /\ recs(file') \in genuine'
                        /\ Len(receipts') <= durable'
                        /\ \A i \in 1..Len(receipts') : receipts'[i] = file'[i].rec
      BY DEF Untampered
    <2>1. /\ Len(receipts) <= durable /\ durable \in 0..n /\ Len(receipts) \in Nat
          /\ \A i \in 1..Len(receipts) : receipts[i] = file[i].rec
      BY <1>1, SeqFacts DEF IInv, Untampered, Typed
    <2>2. \A i \in 1..Len(receipts) : receipts[i] = file'[i].rec
      BY <1>3, <1>7, <2>1
    <2> QED
      BY <1>1, <1>2, <1>8, <2>1, <2>2
  <1>13. GenuineChains'
    BY <1>1, GenuineStays DEF IInv
  <1> QED
    BY <1>9, <1>10, <1>11, <1>12, <1>13 DEF IInv

LEMMA SyncInv ==
  ASSUME IInv, Sync
  PROVE  IInv'
  <1>1. /\ pc = "written" /\ durable' = Len(file) /\ receipts' = records /\ pc' = "idle"
        /\ file' = file /\ records' = records /\ tip' = tip /\ genuine' = genuine
        /\ crashes' = crashes /\ tampers' = tampers
    BY DEF Sync
  <1>2. records \in genuine /\ recs(file) = records
    BY <1>1 DEF IInv, Adopted, Up
  <1>3. /\ Len(file) \in Nat /\ Len(records) = Len(file)
        /\ \A i \in 1..Len(records) : records[i] = file[i].rec
    BY <1>2, RecsFacts DEF IInv, FileOfLines, AllLines
  <1>4. Typed'
    BY <1>1, <1>3 DEF IInv, Typed
  <1>5. FileOfLines'
    BY <1>1 DEF IInv, FileOfLines
  <1>6. Adopted'
    BY <1>1, <1>2 DEF Adopted
  <1>7. Untampered'
    BY <1>1, <1>2, <1>3 DEF Untampered
  <1>8. GenuineChains'
    BY <1>1, GenuineStays DEF IInv
  <1> QED
    BY <1>4, <1>5, <1>6, <1>7, <1>8 DEF IInv

\* Whatever a crash leaves of the file is a start of the chain with all that was synced.
LEMMA CrashLeaves ==
  ASSUME IInv, Up, NEW f \in Remains
  PROVE  StartOf(f)
  <1> DEFINE n == Len(file)
  <1>1. /\ records \in genuine /\ IsSeq(records) /\ Len(records) \in Nat
        /\ pc = "remembered" => Len(records) # 0
        /\ recs(file) = IF pc = "remembered" THEN SubSeq(records, 1, Len(records) - 1)
                                             ELSE records
    BY SeqFacts DEF IInv, Adopted, GenuineChains, IsChain
  <1>2. recs(file) \in genuine
    <2>1. CASE pc = "remembered"
      <3>1. Len(records) - 1 \in 0..Len(records)
        BY <1>1, <2>1
      <3> QED
        BY <1>1, <2>1, <3>1 DEF IInv, GenuineChains
    <2> QED
      BY <1>1, <2>1
  <1>3. /\ n \in Nat /\ durable \in 0..n
        /\ IsSeq(recs(file)) /\ Len(recs(file)) = n
        /\ \A i \in 1..n : recs(file)[i] = file[i].rec
    BY RecsFacts DEF IInv, FileOfLines, AllLines, Typed
  <1>4. \A m \in durable..n : StartOf(SubSeq(file, 1, m))
    BY <1>2, PrefixRemains DEF IInv
  <1>5. CASE f \in Kept
    BY <1>4, <1>5 DEF Kept
  <1>6. ASSUME NEW m \in durable..(n - 1), f \in Cut(SubSeq(file, 1, m), file[m + 1].rec)
        PROVE  StartOf(f)
    <2> DEFINE part == SubSeq(file, 1, m)
    <2>1. m \in durable..n /\ m \in 0..n /\ m < n /\ m + 1 \in 1..n
      BY <1>3
    <2>2. StartOf(part)
      BY <1>4, <2>1
    <2>3. IsSeq(part) /\ Len(part) = m /\ \A i \in 1..m : part[i] = file[i]
      BY <2>1, PrefixFacts DEF IInv, FileOfLines, AllLines
    <2>4. PICK end \in {"torn", "no_newline"} : f = Append(part, Line(file[m + 1].rec, end))
      BY <1>6 DEF Cut
    <2> HIDE DEF part
    <2>5. recs(part) = SubSeq(recs(file), 1, m)
      <3> DEFINE r == recs(part)
                 q == SubSeq(recs(file), 1, m)
      <3>1. IsSeq(r) /\ Len(r) = m /\ \A i \in 1..m : r[i] = part[i].rec
        BY <2>3, RecsFacts
      <3>2. IsSeq(q) /\ Len(q) = m /\ \A i \in 1..m : q[i] = recs(file)[i]
        BY <1>3, <2>1, PrefixFacts
      <3> HIDE DEF r, q
      <3>3. \A i \in 1..m : r[i] = q[i]
        BY <1>3, <2>1, <2>3, <3>1, <3>2
      <3>4. r = q
        BY <3>1, <3>2, <3>3, SameSeq
      <3> QED
        BY <3>4 DEF r, q
    <2>6. recs(file)[m + 1] = file[m + 1].rec
      BY <1>3, <2>1
    <2>7. Len(part) < Len(recs(file)) /\ recs(part) = SubSeq(recs(file), 1, Len(part))
      BY <1>3, <2>1, <2>3, <2>5
    <2>8. StartOf(Append(part, Line(recs(file)[Len(part) + 1], end)))
      BY <1>2, <2>2, <2>4, <2>7, CutRemains DEF IInv
    <2> QED
      BY <2>3, <2>4, <2>6, <2>8
  <1>7. CASE pc = "remembered" /\ f \in Cut(file, Last(records))
    <2>1. PICK end \in {"torn", "no_newline"} : f = Append(file, Line(Last(records), end))
      BY <1>7 DEF Cut
    <2>2. Len(records) - 1 \in 0..Len(records)
      BY <1>1, <1>7
    <2>3. recs(file) = SubSeq(records, 1, Len(records) - 1) /\ n = Len(records) - 1
      BY <1>1, <1>3, <1>7, <2>2, PrefixFacts
    <2>4. n < Len(records) /\ recs(file) = SubSeq(records, 1, n) /\ Last(records) = records[n + 1]
      BY <1>1, <2>3 DEF Last
    <2>5. StartOf(file)
      <3>1. durable <= n
        BY <1>3
      <3> QED
        BY <1>2, <3>1 DEF StartOf, IInv, FileOfLines
    <2>6. StartOf(Append(file, Line(records[n + 1], end)))
      BY <1>1, <2>1, <2>4, <2>5, CutRemains DEF IInv
    <2> QED
      BY <2>1, <2>4, <2>6
  <1>8. \/ f \in Kept
        \/ \E m \in durable..(n - 1) : f \in Cut(SubSeq(file, 1, m), file[m + 1].rec)
        \/ pc = "remembered" /\ f \in Cut(file, Last(records))
    <2> DEFINE pieces == {Cut(SubSeq(file, 1, m), file[m + 1].rec) : m \in durable..(n - 1)}
               unwritten == IF pc = "remembered" THEN Cut(file, Last(records)) ELSE {}
    <2>1. Remains = Kept \union (UNION pieces) \union unwritten
      BY DEF Remains
    <2>2. f \in UNION pieces =>
            \E m \in durable..(n - 1) : f \in Cut(SubSeq(file, 1, m), file[m + 1].rec)
      OBVIOUS
    <2>3. f \in unwritten => pc = "remembered" /\ f \in Cut(file, Last(records))
      OBVIOUS
    <2> HIDE DEF pieces, unwritten
    <2> QED
      BY <2>1, <2>2, <2>3
  <1> QED
    BY <1>5, <1>6, <1>7, <1>8

LEMMA CrashInv ==
  ASSUME IInv, Crash
  PROVE  IInv'
  <1>1. /\ Up /\ crashes < MaxCrashes /\ crashes' = crashes + 1 /\ file' \in Remains
        /\ durable' = IF durable < Len(file') THEN durable ELSE Len(file')
        /\ pc' = "down"
        /\ records' = records /\ tip' = tip /\ receipts' = receipts /\ genuine' = genuine
        /\ tampers' = tampers
    BY DEF Crash, Up, history
  <1>2. StartOf(file')
    BY <1>1, CrashLeaves
  <1>3. Len(file') \in Nat /\ Len(file) \in Nat /\ durable \in 0..Len(file)
    BY <1>2, SeqFacts DEF StartOf, AllLines, IInv, FileOfLines, Typed
  <1>4. durable' = durable /\ durable' \in 0..Len(file')
    BY <1>1, <1>2, <1>3 DEF StartOf
  <1>5. Typed'
    <2>1. crashes' \in 0..MaxCrashes
      BY <1>1, LedgerAssumption DEF IInv, Typed
    <2> QED
      BY <1>1, <1>4, <2>1 DEF IInv, Typed
  <1>6. FileOfLines'
    BY <1>1, <1>2 DEF StartOf, FileOfLines
  <1>7. Adopted'
    BY <1>1 DEF Adopted, Up
  <1>8. Untampered'
    <2> SUFFICES ASSUME tampers' = 0
                 PROVE  /\ recs(file') \in genuine'
                        /\ Len(receipts') <= durable'
                        /\ \A i \in 1..Len(receipts') : receipts'[i] = file'[i].rec
      BY DEF Untampered
    <2>1. /\ Len(receipts) <= durable /\ Len(receipts) \in Nat
          /\ \A i \in 1..Len(receipts) : receipts[i] = file[i].rec
      BY <1>1, SeqFacts DEF IInv, Untampered, Typed
    <2>2. \A i \in 1..Len(receipts) : i \in 1..durable
      BY <1>3, <2>1
    <2> QED
      BY <1>1, <1>2, <1>4, <2>1, <2>2 DEF StartOf
  <1>9. GenuineChains'
    BY <1>1, GenuineStays DEF IInv
  <1> QED
    BY <1>5, <1>6, <1>7, <1>8, <1>9 DEF IInv

LEMMA ReopenInv ==
  ASSUME IInv, Reopen
  PROVE  IInv'
  <1>1. /\ verify(recs(file)) /\ records' = recs(file)
        /\ tip' = IF file = <<>> THEN GENESIS ELSE Last(file).rec.hash
        /\ pc' = "idle" /\ file' = file /\ durable' = durable
        /\ receipts' = receipts /\ genuine' = genuine
        /\ crashes' = crashes /\ tampers' = tampers
    BY DEF Reopen, disk, history
  <1>2. recs(file) \in genuine
    BY <1>1, VerifiedIsGenuine DEF IInv
  <1>3. /\ IsSeq(file) /\ IsSeq(records') /\ Len(records') = Len(file) /\ Len(file) \in Nat
        /\ \A i \in 1..Len(file) : records'[i] = file[i].rec
    BY <1>1, RecsFacts DEF IInv, FileOfLines, AllLines
  <1>4. tip' = IF records' = <<>> THEN GENESIS ELSE Last(records').hash
    <2>1. CASE Len(file) = 0
      BY <1>1, <1>3, <2>1, SeqFacts
    <2>2. CASE Len(file) # 0
      <3>1. file # <<>> /\ records' # <<>> /\ Len(file) \in 1..Len(file)
        BY <1>3, <2>2, SeqFacts
      <3>2. Last(records') = Last(file).rec
        BY <1>3, <3>1 DEF Last
      <3> QED
        BY <1>1, <3>1, <3>2
    <2> QED
      BY <2>1, <2>2
  <1>5. Typed'
    BY <1>1, <1>3, <1>4 DEF IInv, Typed
  <1>6. FileOfLines'
    BY <1>1 DEF IInv, FileOfLines
  <1>7. Adopted'
    BY <1>1, <1>2 DEF Adopted
  <1>8. Untampered'
    BY <1>1 DEF IInv, Untampered
  <1>9. GenuineChains'
    BY <1>1, GenuineStays DEF IInv
  <1> QED
    BY <1>5, <1>6, <1>7, <1>8, <1>9 DEF IInv

LEMMA TamperInv ==
  ASSUME IInv, Tamper
  PROVE  IInv'
  <1>1. /\ pc = "down" /\ tampers < MaxTampers /\ tampers' = tampers + 1
        /\ file' \in Edited \union Reordered \union Shortened \union Doubled \union Rewritten
        /\ durable' = Len(file')
        /\ records' = records /\ tip' = tip /\ pc' = pc
        /\ receipts' = receipts /\ genuine' = genuine /\ crashes' = crashes
    BY DEF Tamper, history
  <1>2. AllLines(file', genuine)
    BY <1>1, EditedLines, ReorderedLines, ShortenedLines, DoubledLines, RewrittenLines DEF IInv
  <1>3. Typed'
    <2>1. durable' \in 0..Len(file')
      <3>1. Len(file') \in Nat
        BY <1>2, SeqFacts DEF AllLines
      <3> QED
        BY <1>1, <3>1
    <2>2. tampers' \in 0..MaxTampers
      BY <1>1, LedgerAssumption DEF IInv, Typed
    <2> QED
      BY <1>1, <2>1, <2>2 DEF IInv, Typed
  <1>4. FileOfLines'
    BY <1>1, <1>2 DEF FileOfLines
  <1>5. Adopted'
    BY <1>1 DEF Adopted, Up
  <1>6. Untampered'
    BY <1>1 DEF IInv, Typed, Untampered
  <1>7. GenuineChains'
    BY <1>1, GenuineStays DEF IInv
  <1> QED
    BY <1>3, <1>4, <1>5, <1>6, <1>7 DEF IInv

LEMMA NextInv == IInv /\ [Next]_vars => IInv'
  <1> SUFFICES ASSUME IInv, [Next]_vars PROVE IInv'
    OBVIOUS
  <1>1. ASSUME NEW payload \in Payloads, Remember(payload) PROVE IInv'
    BY <1>1, RememberInv
  <1>2. CASE Refuse
    <2>1. /\ pc' = "refused" /\ file' = file /\ durable' = durable /\ records' = records
          /\ tip' = tip /\ receipts' = receipts /\ genuine' = genuine
          /\ crashes' = crashes /\ tampers' = tampers
      BY <1>2 DEF Refuse, disk, history
    <2>2. GenuineChains'
      BY <2>1, GenuineStays DEF IInv
    <2>3. Typed' /\ FileOfLines'
      BY <2>1 DEF IInv, Typed, FileOfLines
    <2>4. Adopted' /\ Untampered'
      BY <2>1 DEF IInv, Adopted, Up, Untampered
    <2> QED
      BY <2>2, <2>3, <2>4 DEF IInv
  <1>3. CASE UNCHANGED vars
    <2>1. /\ pc' = pc /\ file' = file /\ durable' = durable /\ records' = records
          /\ tip' = tip /\ receipts' = receipts /\ genuine' = genuine
          /\ crashes' = crashes /\ tampers' = tampers
      BY <1>3 DEF vars, disk, history
    <2>2. GenuineChains'
      BY <2>1, GenuineStays DEF IInv
    <2>3. Typed' /\ FileOfLines'
      BY <2>1 DEF IInv, Typed, FileOfLines
    <2>4. Adopted' /\ Untampered'
      BY <2>1 DEF IInv, Adopted, Up, Untampered
    <2> QED
      BY <2>2, <2>3, <2>4 DEF IInv
  <1> QED
    BY <1>1, <1>2, <1>3, WriteInv, SyncInv, CrashInv, ReopenInv, TamperInv DEF Next

LEMMA Invariance == Spec => []IInv
  BY InitInv, NextInv, PTL DEF Spec

----------------------------------------------------------------------------------
(* The theorems.                                                           *)

\* Type correctness: the lines on disk, how many of them are synced, the tip that
\* belongs to the records in memory, and the states of a process (ledger.py:89-128).
THEOREM TypeCorrect == Spec => []TypeOK
  <1>1. ASSUME IInv PROVE TypeOK
    <2>1. \A i \in 1..Len(file) :
            /\ file[i].end \in {"whole", "no_newline", "torn"}
            /\ file[i].rec.seq \in 0..MaxRecords /\ file[i].rec.payload \in Payloads
      BY <1>1 DEF IInv, FileOfLines, AllLines, IsLine, IsRecord
    <2> QED
      BY <1>1, <2>1 DEF IInv, Typed, TypeOK
  <1> QED
    BY <1>1, Invariance, PTL

\* Every record whose append returned is in memory, in its place, in every process
\* that opens the file afterwards, whatever crashes there were (ledger.py:109-127:
\* write, flush and fsync before the receipt is returned).
THEOREM ReceiptsAlwaysSurvive == Spec => []ReceiptsSurvive
  <1>1. ASSUME IInv PROVE ReceiptsSurvive
    <2> SUFFICES ASSUME Up, tampers = 0 PROVE IsPrefix(receipts, records)
      BY DEF ReceiptsSurvive
    <2> DEFINE n == Len(receipts)
               s == SubSeq(receipts, 1, n)
               t == SubSeq(records, 1, n)
    <2>1. /\ n \in Nat /\ n <= durable /\ durable \in 0..Len(file)
          /\ \A i \in 1..n : receipts[i] = file[i].rec
          /\ IsSeq(receipts) /\ IsSeq(records) /\ Len(records) \in Nat
      BY <1>1, SeqFacts DEF IInv, Typed, Untampered
    <2>2. /\ Len(file) \in Nat /\ Len(recs(file)) = Len(file)
          /\ \A i \in 1..Len(file) : recs(file)[i] = file[i].rec
      BY <1>1, RecsFacts DEF IInv, FileOfLines, AllLines
    <2>3. Len(file) <= Len(records) /\ \A i \in 1..Len(file) : recs(file)[i] = records[i]
      <3>1. CASE pc = "remembered"
        <4>1. recs(file) = SubSeq(records, 1, Len(records) - 1) /\ Len(records) # 0
          BY <1>1, <3>1 DEF IInv, Adopted
        <4>2. Len(records) - 1 \in 0..Len(records)
          BY <2>1, <4>1
        <4> QED
          BY <2>1, <2>2, <4>1, <4>2, PrefixFacts
      <3>2. CASE pc # "remembered"
        <4>1. recs(file) = records
          BY <1>1, <3>2 DEF IInv, Adopted
        <4> QED
          BY <2>1, <2>2, <4>1
      <3> QED
        BY <3>1, <3>2
    <2>4. n <= Len(records) /\ n \in 0..n /\ n \in 0..Len(records)
      BY <2>1, <2>2, <2>3
    <2>5. \A i \in 1..n : receipts[i] = records[i]
      BY <2>1, <2>2, <2>3
    <2>6. IsSeq(s) /\ Len(s) = n /\ \A i \in 1..n : s[i] = receipts[i]
      BY <2>1, <2>4, PrefixFacts
    <2>7. IsSeq(t) /\ Len(t) = n /\ \A i \in 1..n : t[i] = records[i]
      BY <2>1, <2>4, PrefixFacts
    <2> HIDE DEF s, t
    <2>8. \A i \in 1..n : s[i] = t[i]
      BY <2>5, <2>6, <2>7
    <2>9. s = t
      BY <2>6, <2>7, <2>8, SameSeq
    <2> QED
      BY <2>4, <2>9 DEF IsPrefix, s, t
  <1> QED
    BY <1>1, Invariance, PTL

\* Corruption evidence: what a process works from is a chain that a process built,
\* whole or cut at its end.  An edited, reordered, spliced or doubled file does not
\* verify, and a signed one cannot be rewritten without the key (ledger.py:142-183).
THEOREM ChainsAreGenuine == Spec => []OnlyGenuineChains
  <1>1. IInv => OnlyGenuineChains
    BY DEF IInv, Adopted, OnlyGenuineChains
  <1> QED
    BY <1>1, Invariance, PTL

\* A restart adopts the records and the tip together, so what it appends continues
\* the chain on disk, and a file of whole writes always loads (ledger.py:89-107).
THEOREM WholeFileVerifies == Spec => []WholeFileIsAChain
  <1>1. IInv => WholeFileIsAChain
    BY DEF IInv, Untampered, GenuineChains, IsChain, WholeFileIsAChain
  <1> QED
    BY <1>1, Invariance, PTL
==================================================================================
