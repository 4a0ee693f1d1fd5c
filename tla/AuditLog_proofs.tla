-------------------------- MODULE AuditLog_proofs ---------------------------
(***************************************************************************)
(* Proofs about AuditLog, for any number of shards, records, failed writes *)
(* and crashes: its type invariant, that the effect-gating appends that    *)
(* returned and cannot be read are no more than the writes cut within a    *)
(* line, that each record is in one place, and that the log implements     *)
(* RecordAppender.                                                         *)
(*                                                                         *)
(* ResolvedIsDurable alone is not inductive: a write releases the waiters  *)
(* of a batch, so every waiter's record must be in the batch it waits for, *)
(* an append must name its record with a number no released append has,    *)
(* and what cannot be read must have been glued to half a line, of which   *)
(* each is left by one cut.  The refinement also needs that who made an    *)
(* effect-gating record waits for the batch that holds it, and that the    *)
(* batches hold callers in the order of their calls.                       *)
(***************************************************************************)
EXTENDS AuditLog, TLAPS, FiniteSetTheorems

WaitersCarried(batch) ==
  Entries(batch.waiters) \subseteq Entries(batch.records) \union {LinkCall}

InFlightCarried ==
  /\ WaitersCarried(pending)
  /\ \A i \in DOMAIN writing : WaitersCarried(writing[i])

\* A record is numbered when it is created, so no number runs ahead.
ResolvedCreated == resolved \subseteq DOMAIN created
InFlightCreated ==
  /\ Entries(tail) \subseteq DOMAIN created
  /\ Entries(pending.records) \subseteq DOMAIN created
  /\ \A i \in DOMAIN writing : Entries(writing[i].records) \subseteq DOMAIN created

\* What returned and cannot be read is glued, and each half line took at most
\* one record.
GlueInv == Cardinality(glued) + (IF torn THEN 1 ELSE 0) <= cuts
LossInv == Lost \subseteq glued /\ GlueInv

IInv ==
  /\ TypeOK
  /\ InFlightCarried
  /\ ResolvedCreated
  /\ InFlightCreated
  /\ LossInv

-----------------------------------------------------------------------------
(* Lemmas about the entries of sequences *)

\* The entries of a concatenation are those of its parts (batches grow by
\* concatenation).
LEMMA EntriesConcat ==
  ASSUME NEW S, NEW s \in Seq(S), NEW t \in Seq(S)
  PROVE  Entries(s \o t) = Entries(s) \union Entries(t)
<1>1. Entries(s \o t) \subseteq Entries(s) \union Entries(t)
  <2>1. ASSUME NEW i \in 1..Len(s \o t)
        PROVE  (s \o t)[i] \in Entries(s) \union Entries(t)
    <3>1. CASE i <= Len(s)
      BY <3>1 DEF Entries
    <3>2. CASE i > Len(s)
      <4>1. i - Len(s) \in 1..Len(t) /\ (s \o t)[i] = t[i - Len(s)]
        BY <3>2
      <4>2. QED  BY <4>1 DEF Entries
    <3>3. QED  BY <3>1, <3>2
  <2>2. QED  BY <2>1 DEF Entries
<1>2. Entries(s) \subseteq Entries(s \o t)
  BY DEF Entries
<1>3. Entries(t) \subseteq Entries(s \o t)
  <2>1. ASSUME NEW i \in 1..Len(t)
        PROVE  t[i] \in Entries(s \o t)
    <3>1. Len(s) + i \in 1..Len(s \o t) /\ (s \o t)[Len(s) + i] = t[i]
      OBVIOUS
    <3>2. QED  BY <3>1 DEF Entries
  <2>2. QED  BY <2>1 DEF Entries
<1>4. QED  BY <1>1, <1>2, <1>3

\* The empty sequence has no entry, whatever its type.
LEMMA EntriesEmpty == Entries(<<>>) = {} /\ \A S : <<>> \in Seq(S)
BY DEF Entries

\* Appending adds one entry.
LEMMA EntriesAppend ==
  ASSUME NEW S, NEW s \in Seq(S), NEW x \in S
  PROVE  Entries(Append(s, x)) = Entries(s) \union {x}
<1>1. \A i \in 1..Len(s) : Append(s, x)[i] = s[i]
  OBVIOUS
<1>2. Append(s, x)[Len(s) + 1] = x /\ Len(Append(s, x)) = Len(s) + 1
  OBVIOUS
<1>3. DOMAIN Append(s, x) = 1..(Len(s) + 1) /\ DOMAIN s = 1..Len(s)
  OBVIOUS
<1>4. QED  BY <1>1, <1>2, <1>3 DEF Entries

\* A prefix has no entry of its own, and is a sequence of the same type.
LEMMA EntriesPrefix ==
  ASSUME NEW S, NEW s \in Seq(S), NEW n \in 0..Len(s)
  PROVE  /\ SubSeq(s, 1, n) \in Seq(S)
         /\ Entries(SubSeq(s, 1, n)) \subseteq Entries(s)
BY DEF Entries

\* What is left of a queue when its first element is taken.
LEMMA QueueTail ==
  ASSUME NEW S, NEW s \in Seq(S), s # <<>>
  PROVE  /\ Head(s) = s[1] /\ 1 \in DOMAIN s /\ Head(s) \in S
         /\ Tail(s) \in Seq(S)
         /\ \A i \in DOMAIN Tail(s) : i + 1 \in DOMAIN s /\ Tail(s)[i] = s[i + 1]
OBVIOUS

-----------------------------------------------------------------------------
(* Type correctness *)

\* Creating a record keeps `created` and `head` well typed, and numbers the
\* record with a new identifier.
LEMMA ChainType ==
  ASSUME TypeOK, NEW s \in Shards, NEW gating \in BOOLEAN, Chain(s, gating)
  PROVE  /\ created' \in Seq([shard : Shards, gating : BOOLEAN,
                              prev : Ids \union {0}, boot : Nat])
         /\ Len(created') = Len(created) + 1
         /\ Len(created') <= MaxRecords
         /\ Len(created) + 1 \in Ids
         /\ head' \in [Shards -> Ids \union {0}]
         /\ DOMAIN created' = DOMAIN created \union {Len(created) + 1}
         /\ Len(created) + 1 \notin DOMAIN created
         /\ \A r \in DOMAIN created : created'[r] = created[r]
         /\ created'[Len(created) + 1].gating = gating
<1> USE ConstantsAssumption DEF TypeOK
<1> DEFINE rec == [shard |-> s, gating |-> gating, prev |-> head[s],
                   boot |-> boot]
           Rec == [shard : Shards, gating : BOOLEAN, prev : Ids \union {0},
                   boot : Nat]
<1>1. rec \in Rec
  OBVIOUS
<1>2. created \in Seq(Rec) /\ created' = Append(created, rec)
  BY DEF Chain
<1> HIDE DEF Rec
<1>3. /\ created' \in Seq(Rec)
      /\ Len(created') = Len(created) + 1
      /\ DOMAIN created' = 1..(Len(created) + 1)
      /\ DOMAIN created = 1..Len(created)
      /\ \A r \in DOMAIN created : created'[r] = created[r]
      /\ created'[Len(created) + 1] = rec
  BY <1>1, <1>2
<1>4. Len(created) \in Nat /\ Len(created) < MaxRecords
  BY <1>2 DEF Chain
<1>5. Len(created) + 1 \in Ids
  BY <1>4 DEF Ids
<1>6. head' \in [Shards -> Ids \union {0}]
  BY <1>5 DEF Chain
<1>7. Len(created') <= MaxRecords
  BY <1>3, <1>4
<1>8. DOMAIN created' = DOMAIN created \union {Len(created) + 1}
      /\ Len(created) + 1 \notin DOMAIN created
  BY <1>3, <1>4
<1>9. QED  BY <1>3, <1>5, <1>6, <1>7, <1>8 DEF Rec

\* Enqueueing keeps the assembled batch well typed.
LEMMA EnqueueType ==
  ASSUME TypeOK, NEW rs \in Seq(Ids), NEW w \in Ids \union {LinkCall},
         Enqueue(rs, w)
  PROVE  /\ pending' \in Batch
         /\ Entries(pending'.records) = Entries(pending.records) \union Entries(rs)
         /\ Entries(pending'.waiters) = Entries(pending.waiters) \union {w}
<1>1. pending.records \in Seq(Ids) /\ pending.waiters \in Seq(Ids \union {LinkCall})
  BY DEF TypeOK, Batch
<1>2. /\ pending'.records = pending.records \o rs
      /\ pending'.waiters = Append(pending.waiters, w)
  BY DEF Enqueue
<1>3. pending' \in Batch
  BY <1>1 DEF Enqueue, Batch
<1>4. Entries(pending.records \o rs) = Entries(pending.records) \union Entries(rs)
  BY <1>1, EntriesConcat
<1>5. Entries(Append(pending.waiters, w)) = Entries(pending.waiters) \union {w}
  BY <1>1, EntriesAppend
<1>6. QED
  BY <1>2, <1>3, <1>4, <1>5

LEMMA EmptyBatchType ==
  EmptyBatch \in Batch /\ Entries(EmptyBatch.records) = {}
    /\ Entries(EmptyBatch.waiters) = {}
BY DEF EmptyBatch, Batch, Entries

\* The parts of the invariant that an enqueue can disturb: the new request
\* carries its own waiter, and names only created records.
LEMMA EnqueueCarried ==
  ASSUME IInv, NEW rs \in Seq(Ids), NEW w \in Ids \union {LinkCall},
         Enqueue(rs, w), w \in Entries(rs) \union {LinkCall},
         UNCHANGED writing
  PROVE  InFlightCarried'
<1>1. /\ Entries(pending'.records) = Entries(pending.records) \union Entries(rs)
      /\ Entries(pending'.waiters) = Entries(pending.waiters) \union {w}
  BY EnqueueType DEF IInv
<1>2. WaitersCarried(pending)'
  BY <1>1 DEF IInv, InFlightCarried, WaitersCarried
<1>3. QED  BY <1>2 DEF IInv, InFlightCarried, WaitersCarried

\* The lines that are written: none but the records', each once and in order,
\* and all of those written whole but for one behind half a line.
Legible(records, n) == SubSeq(records, IF torn THEN 2 ELSE 1, n)

LEMMA LegibleLines ==
  ASSUME NEW records \in Seq(Ids), NEW n \in 0..Len(records), torn \in BOOLEAN
  PROVE  /\ Legible(records, n) \in Seq(Ids)
         /\ Entries(Legible(records, n)) \subseteq Entries(records)
         /\ (\A i, j \in DOMAIN records : records[i] = records[j] => i = j)
              => \A i, j \in DOMAIN Legible(records, n) :
                   Legible(records, n)[i] = Legible(records, n)[j] => i = j
         /\ n = Len(records) =>
              Entries(records) \subseteq
                Entries(Legible(records, n)) \union (IF torn /\ n > 0 THEN {records[1]} ELSE {})
<1>1. CASE ~torn
  <2>. DEFINE lines == SubSeq(records, 1, n)
  <2>1. Legible(records, n) = lines
    BY <1>1 DEF Legible
  <2>2. \A i \in 1..n : lines[i] = records[i] /\ i \in DOMAIN records
    OBVIOUS
  <2>3. DOMAIN lines = 1..n /\ lines \in Seq(Ids) /\ (n = Len(records) => DOMAIN records = 1..n)
    OBVIOUS
  <2>. HIDE DEF lines
  <2>4. Entries(lines) \subseteq Entries(records)
        /\ (n = Len(records) => Entries(records) \subseteq Entries(lines))
    BY <2>2, <2>3 DEF Entries
  <2>5. (\A i, j \in DOMAIN records : records[i] = records[j] => i = j)
          => \A i, j \in DOMAIN lines : lines[i] = lines[j] => i = j
    BY <2>2, <2>3
  <2>. QED  BY <1>1, <2>1, <2>3, <2>4, <2>5
<1>2. CASE torn
  <2>. DEFINE lines == SubSeq(records, 2, n)
              m == IF n = 0 THEN 0 ELSE n - 1
  <2>1. Legible(records, n) = lines
    BY <1>2 DEF Legible
  <2>2. m \in Nat /\ DOMAIN lines = 1..m /\ lines \in Seq(Ids)
    OBVIOUS
  <2>3. \A i \in 1..m : lines[i] = records[i + 1] /\ i + 1 \in DOMAIN records /\ i \in Nat
    OBVIOUS
  <2>4. n = Len(records) => \A i \in DOMAIN records : i = 1 \/ (i - 1 \in 1..m /\ lines[i - 1] = records[i])
    <3>1. \A i \in 1..n : i = 1 \/ (i - 1 \in 1..m /\ (i - 1) + 1 = i)
      OBVIOUS
    <3>. QED  BY <2>3, <3>1
  <2>. HIDE DEF lines, m
  <2>5. Entries(lines) \subseteq Entries(records)
    BY <2>2, <2>3 DEF Entries
  <2>6. ASSUME \A i, j \in DOMAIN records : records[i] = records[j] => i = j,
               NEW i \in 1..m, NEW j \in 1..m, lines[i] = lines[j]
        PROVE  i = j
    <3>1. i + 1 = j + 1
      BY <2>3, <2>6
    <3>. QED  BY <2>3, <3>1
  <2>7. n = Len(records) => Entries(records) \subseteq Entries(lines) \union (IF n > 0 THEN {records[1]} ELSE {})
    <3>1. CASE n = 0
      BY <3>1 DEF Entries
    <3>2. CASE n > 0
      BY <2>2, <2>4, <3>2 DEF Entries
    <3>. QED  BY <3>1, <3>2
  <2>. QED  BY <1>2, <2>1, <2>2, <2>5, <2>6, <2>7
<1>. QED  BY <1>1, <1>2

\* What an append, whole or cut, does to the file and to the count of half lines.
LEMMA WrittenFile ==
  ASSUME TypeOK, GlueInv, NEW records \in Seq(Ids), NEW n \in 0..Len(records), NEW half \in BOOLEAN,
         Written(records, n, half)
  PROVE  /\ file' = file \o Legible(records, n)
         /\ Legible(records, n) \in Seq(Ids)
         /\ Entries(Legible(records, n)) \subseteq Entries(records)
         /\ file' \in Seq(Ids)
         /\ Entries(file') = Entries(file) \union Entries(Legible(records, n))
         /\ torn' \in BOOLEAN /\ glued' \subseteq Ids /\ cuts' \in Nat
         /\ glued \subseteq glued'
         /\ n = Len(records) => Entries(records) \subseteq Entries(Legible(records, n)) \union glued'
         /\ GlueInv'
<1>. DEFINE lines == Legible(records, n)
            new == IF torn /\ n > 0 THEN {records[1]} ELSE {}
<1>1. /\ file \in Seq(Ids) /\ torn \in BOOLEAN /\ glued \subseteq Ids /\ cuts \in Nat
      /\ IsFiniteSet(glued)
  <2>1. IsFiniteSet(Ids)
    BY ConstantsAssumption, FS_Interval DEF Ids
  <2>. QED  BY <2>1, FS_Subset DEF TypeOK
<1>2. /\ lines \in Seq(Ids) /\ Entries(lines) \subseteq Entries(records)
      /\ n = Len(records) => Entries(records) \subseteq Entries(lines) \union new
  BY <1>1, LegibleLines
<1>3. /\ file' = file \o lines /\ glued' = glued \union new
      /\ torn' = (half \/ (torn /\ n = 0))
      /\ cuts' = IF half /\ (n > 0 \/ ~torn) THEN cuts + 1 ELSE cuts
  BY DEF Written, Legible
<1>4. new \subseteq Ids
  <2>1. n > 0 => 1 \in DOMAIN records
    OBVIOUS
  <2>. QED  BY <2>1
<1>. HIDE DEF lines
<1>5. file' \in Seq(Ids) /\ Entries(file') = Entries(file) \union Entries(lines)
  BY <1>1, <1>2, <1>3, EntriesConcat
<1>6. Cardinality(glued) \in Nat /\ Cardinality(glued') \in Nat
      /\ Cardinality(glued') <= Cardinality(glued) + (IF torn /\ n > 0 THEN 1 ELSE 0)
  <2>1. CASE torn /\ n > 0
    <3>1. glued' = glued \union {records[1]}
      BY <1>3, <2>1
    <3>2. Cardinality(glued) \in Nat
      BY <1>1, FS_CardinalityType
    <3>3. /\ IsFiniteSet(glued \union {records[1]})
          /\ Cardinality(glued \union {records[1]})
               = IF records[1] \in glued THEN Cardinality(glued) ELSE Cardinality(glued) + 1
      BY <1>1, FS_AddElement
    <3>. QED  BY <2>1, <3>1, <3>2, <3>3
  <2>2. CASE ~(torn /\ n > 0)
    <3>1. glued' = glued
      BY <1>3, <2>2
    <3>2. Cardinality(glued) \in Nat
      BY <1>1, FS_CardinalityType
    <3>. QED  BY <2>2, <3>1, <3>2
  <2>. QED  BY <2>1, <2>2
<1>. HIDE DEF new
<1>7. GlueInv'
  <2>. DEFINE old == Cardinality(glued)
              now == Cardinality(glued')
  <2>1. old + (IF torn THEN 1 ELSE 0) <= cuts
    BY DEF GlueInv
  <2>. HIDE DEF old, now
  <2>2. old \in Nat /\ now \in Nat /\ now <= old + (IF torn /\ n > 0 THEN 1 ELSE 0)
    BY <1>6 DEF old, now
  <2>3. now + (IF torn' THEN 1 ELSE 0) <= cuts'
    BY <1>1, <1>3, <2>1, <2>2
  <2>. QED  BY <2>3 DEF GlueInv, now
<1>8. torn' \in BOOLEAN /\ glued' \subseteq Ids /\ cuts' \in Nat /\ glued \subseteq glued'
      /\ (n = Len(records) => Entries(records) \subseteq Entries(lines) \union glued')
  <2>1. torn' \in BOOLEAN
    BY <1>3
  <2>2. cuts' \in Nat
    BY <1>1, <1>3
  <2>3. glued' \subseteq Ids /\ glued \subseteq glued' /\ new \subseteq glued'
    BY <1>1, <1>3, <1>4
  <2>. QED  BY <1>2, <2>1, <2>2, <2>3
<1>. QED  BY <1>2, <1>3, <1>5, <1>7, <1>8 DEF lines

-----------------------------------------------------------------------------
(* The inductive invariant *)

LEMMA InitIInv == Init => IInv
<1> SUFFICES ASSUME Init PROVE IInv
  OBVIOUS
<1>1. TypeOK
  <2>1. created \in Seq([shard : Shards, gating : BOOLEAN, prev : Ids \union {0}, boot : Nat])
        /\ Len(created) <= MaxRecords
    BY ConstantsAssumption DEF Init
  <2>2. pending \in Batch /\ writing \in Seq(Batch) /\ tail \in Seq(Ids) /\ file \in Seq(Ids)
    BY EmptyBatchType DEF Init
  <2>3. /\ head \in [Shards -> Ids \union {0}] /\ torn \in BOOLEAN /\ glued \subseteq Ids /\ cuts \in Nat
        /\ resolved \subseteq Ids /\ rejected \subseteq Ids /\ dropped \subseteq Ids
        /\ link \in {"idle", "flushing", "building"} /\ boot \in Nat
    BY DEF Init
  <2>. QED  BY <2>1, <2>2, <2>3 DEF TypeOK
<1>2. InFlightCarried
  BY EmptyBatchType DEF Init, InFlightCarried, WaitersCarried
<1>3. ResolvedCreated /\ InFlightCreated
  BY EmptyBatchType, EntriesEmpty DEF Init, ResolvedCreated, InFlightCreated
<1>4. LossInv
  BY FS_EmptySet DEF Init, LossInv, Lost, GlueInv
<1>5. QED  BY <1>1, <1>2, <1>3, <1>4 DEF IInv

\* The effect-gating records that existed before a record is created stay the
\* effect-gating ones; the new one is among them when it is one itself.
LEMMA ChainGating ==
  ASSUME TypeOK, NEW s \in Shards, NEW gating \in BOOLEAN, Chain(s, gating)
  PROVE  Gating' = Gating \union (IF gating THEN {Len(created) + 1} ELSE {})
<1>1. /\ DOMAIN created' = DOMAIN created \union {Len(created) + 1}
      /\ Len(created) + 1 \notin DOMAIN created
      /\ \A r \in DOMAIN created : created'[r] = created[r]
      /\ created'[Len(created) + 1].gating = gating
  BY ChainType
<1>2. QED  BY <1>1 DEF Gating

LEMMA AppendEffectGatingIInv ==
  ASSUME IInv, NEW s \in Shards, AppendEffectGating(s)
  PROVE  IInv'
<1> DEFINE r == Len(created) + 1
<1>1. TypeOK /\ Chain(s, TRUE) /\ Enqueue(<<r>>, r)
      /\ UNCHANGED <<tail, writing, file, torn, glued, cuts, resolved, rejected, dropped, link, boot>>
  BY DEF IInv, AppendEffectGating, fileVars
<1>2. r \in Ids /\ r \notin DOMAIN created
      /\ DOMAIN created' = DOMAIN created \union {r}
  BY <1>1, ChainType
<1>3. <<r>> \in Seq(Ids) /\ Entries(<<r>>) = {r}
  BY <1>2 DEF Entries
<1>4. /\ pending' \in Batch
      /\ Entries(pending'.records) = Entries(pending.records) \union {r}
  BY <1>1, <1>2, <1>3, EnqueueType
<1>5. TypeOK'
  BY <1>1, <1>4, ChainType DEF TypeOK
<1>6. InFlightCarried'
  BY <1>1, <1>2, <1>3, EnqueueCarried
<1>7. ResolvedCreated' /\ InFlightCreated'
  BY <1>1, <1>2, <1>4 DEF IInv, ResolvedCreated, InFlightCreated
<1>8. LossInv'
  BY <1>1, <1>2, ChainGating DEF IInv, LossInv, Lost, GlueInv, ResolvedCreated
<1>9. QED  BY <1>5, <1>6, <1>7, <1>8 DEF IInv

LEMMA AppendObservationalIInv ==
  ASSUME IInv, NEW s \in Shards, AppendObservational(s)
  PROVE  IInv'
<1> DEFINE r == Len(created) + 1
<1>1. TypeOK /\ Chain(s, FALSE)
      /\ UNCHANGED <<writing, file, torn, glued, cuts, rejected, dropped, link, boot>>
  BY DEF IInv, AppendObservational, fileVars
<1>2. r \in Ids /\ r \notin DOMAIN created
      /\ DOMAIN created' = DOMAIN created \union {r}
  BY <1>1, ChainType
<1>3. Append(tail, r) \in Seq(Ids)
      /\ Entries(Append(tail, r)) = Entries(tail) \union {r}
  BY <1>1, <1>2, EntriesAppend DEF TypeOK
<1>4. Gating' = Gating
  BY <1>1, ChainGating
<1>5. CASE /\ tail' = Append(tail, r)
           /\ resolved' = resolved \union {r}
           /\ UNCHANGED pending
  <2>1. TypeOK'
    BY <1>1, <1>2, <1>3, <1>5, ChainType DEF TypeOK
  <2>2. InFlightCarried' /\ ResolvedCreated' /\ InFlightCreated'
    BY <1>1, <1>2, <1>3, <1>5 DEF IInv, InFlightCarried, WaitersCarried,
       ResolvedCreated, InFlightCreated
  <2>3. r \notin Gating
    BY <1>2 DEF Gating
  <2>4. LossInv'
    BY <1>1, <1>4, <1>5, <2>3 DEF IInv, LossInv, Lost, GlueInv
  <2>5. QED  BY <2>1, <2>2, <2>4 DEF IInv
<1>6. CASE /\ Enqueue(Append(tail, r), r)
           /\ tail' = <<>>
           /\ UNCHANGED resolved
  <2>1. /\ pending' \in Batch
        /\ Entries(pending'.records)
             = Entries(pending.records) \union Entries(tail) \union {r}
    BY <1>1, <1>2, <1>3, <1>6, EnqueueType
  <2>2. TypeOK'
    <3>1. tail' \in Seq(Ids)
      BY <1>6, EntriesEmpty
    <3>2. QED  BY <1>1, <1>6, <2>1, <3>1, ChainType DEF TypeOK
  <2>3. InFlightCarried'
    BY <1>1, <1>2, <1>3, <1>6, EnqueueCarried
  <2>4. ResolvedCreated' /\ InFlightCreated'
    <3>1. Entries(tail') = {}
      BY <1>6, EntriesEmpty
    <3>2. QED
      BY <1>1, <1>2, <1>6, <2>1, <3>1 DEF IInv, ResolvedCreated, InFlightCreated
  <2>5. LossInv'
    BY <1>1, <1>4, <1>6 DEF IInv, LossInv, Lost, GlueInv
  <2>6. QED  BY <2>2, <2>3, <2>4, <2>5 DEF IInv
<1>7. QED  BY <1>5, <1>6 DEF AppendObservational, fileVars

LEMMA BeginCrossLinkIInv ==
  ASSUME IInv, BeginCrossLink
  PROVE  IInv'
<1>1. TypeOK /\ link' \in {"flushing", "building"}
      /\ UNCHANGED <<created, head, writing, file, torn, glued, cuts, resolved, rejected, dropped, boot>>
  BY DEF IInv, BeginCrossLink, fileVars
<1>2. Gating' = Gating
  BY <1>1 DEF Gating
<1>3. CASE tail = <<>>
  BY <1>1, <1>2, <1>3 DEF BeginCrossLink, IInv, TypeOK, InFlightCarried,
     WaitersCarried, ResolvedCreated, InFlightCreated, LossInv, Lost, GlueInv
<1>4. CASE tail # <<>>
  <2>1. Enqueue(tail, LinkCall) /\ tail' = <<>>
    BY <1>4 DEF BeginCrossLink, fileVars
  <2>2. tail \in Seq(Ids)
    BY <1>1 DEF TypeOK
  <2>3. /\ pending' \in Batch
        /\ Entries(pending'.records) = Entries(pending.records) \union Entries(tail)
    BY <1>1, <2>1, <2>2, EnqueueType
  <2>4. tail' \in Seq(Ids) /\ Entries(tail') = {}
    BY <2>1, EntriesEmpty
  <2>5. TypeOK'
    BY <1>1, <2>3, <2>4 DEF TypeOK
  <2>6. InFlightCarried'
    BY <1>1, <2>1, <2>2, EnqueueCarried
  <2>7. ResolvedCreated' /\ InFlightCreated' /\ LossInv'
    BY <1>1, <1>2, <2>3, <2>4 DEF IInv, ResolvedCreated, InFlightCreated,
       LossInv, Lost, GlueInv
  <2>8. QED  BY <2>5, <2>6, <2>7 DEF IInv
<1>5. QED  BY <1>3, <1>4

LEMMA BuildCrossLinkIInv ==
  ASSUME IInv, BuildCrossLink
  PROVE  IInv'
<1> DEFINE r == Len(created) + 1
<1> USE ConstantsAssumption
<1>1. TypeOK /\ Chain(LinkShard, TRUE) /\ Enqueue(<<r>>, r) /\ link' = "idle"
      /\ UNCHANGED <<tail, writing, file, torn, glued, cuts, resolved, rejected, dropped, boot>>
  BY DEF IInv, BuildCrossLink, fileVars
<1>2. r \in Ids /\ r \notin DOMAIN created
      /\ DOMAIN created' = DOMAIN created \union {r}
  BY <1>1, ChainType
<1>3. <<r>> \in Seq(Ids) /\ Entries(<<r>>) = {r}
  BY <1>2 DEF Entries
<1>4. /\ pending' \in Batch
      /\ Entries(pending'.records) = Entries(pending.records) \union {r}
  BY <1>1, <1>2, <1>3, EnqueueType
<1>5. TypeOK'
  BY <1>1, <1>4, ChainType DEF TypeOK
<1>6. InFlightCarried'
  BY <1>1, <1>2, <1>3, EnqueueCarried
<1>7. ResolvedCreated' /\ InFlightCreated'
  BY <1>1, <1>2, <1>4 DEF IInv, ResolvedCreated, InFlightCreated
<1>8. LossInv'
  BY <1>1, <1>2, ChainGating DEF IInv, LossInv, Lost, GlueInv, ResolvedCreated
<1>9. QED  BY <1>5, <1>6, <1>7, <1>8 DEF IInv

LEMMA GroupFlushIInv ==
  ASSUME IInv, GroupFlush
  PROVE  IInv'
<1>1. TypeOK /\ writing' = Append(writing, pending) /\ pending' = EmptyBatch
      /\ UNCHANGED <<created, head, tail, file, torn, glued, cuts, resolved, rejected, dropped, link, boot>>
  BY DEF IInv, GroupFlush, fileVars
<1>2. writing \in Seq(Batch) /\ pending \in Batch
  BY <1>1 DEF TypeOK
<1>3. /\ writing' \in Seq(Batch)
      /\ DOMAIN writing' = DOMAIN writing \union {Len(writing) + 1}
      /\ \A i \in DOMAIN writing : writing'[i] = writing[i]
      /\ writing'[Len(writing) + 1] = pending
  BY <1>1, <1>2
<1>4. TypeOK'
  BY <1>1, <1>3, EmptyBatchType DEF TypeOK
<1>5. WaitersCarried(pending)'
  BY <1>1, EmptyBatchType DEF WaitersCarried
<1>6. InFlightCarried'
  <2>1. ASSUME NEW i \in DOMAIN writing'
        PROVE  WaitersCarried(writing'[i])
    BY <1>3, <2>1 DEF IInv, InFlightCarried
  <2>2. QED  BY <1>5, <2>1 DEF InFlightCarried, WaitersCarried
<1>7. InFlightCreated'
  BY <1>1, <1>3, EmptyBatchType DEF IInv, InFlightCreated
<1>8. ResolvedCreated' /\ LossInv'
  BY <1>1 DEF IInv, ResolvedCreated, LossInv, Lost, GlueInv, Gating
<1>9. QED  BY <1>4, <1>6, <1>7, <1>8 DEF IInv

\* Both ends of a write take the first batch off the chain, add some of its
\* lines to the file and leave the other batches as they are.
LEMMA TakeBatch ==
  ASSUME IInv, writing # <<>>, writing' = Tail(writing),
         UNCHANGED <<created, tail, pending>>
  PROVE  /\ Head(writing) \in Batch
         /\ WaitersCarried(Head(writing))
         /\ Entries(Head(writing).records) \subseteq DOMAIN created
         /\ writing' \in Seq(Batch)
         /\ InFlightCarried'
         /\ InFlightCreated'
<1>1. writing \in Seq(Batch)
  BY DEF IInv, TypeOK
<1>2. /\ Head(writing) = writing[1] /\ 1 \in DOMAIN writing /\ Head(writing) \in Batch
      /\ writing' \in Seq(Batch)
      /\ \A i \in DOMAIN writing' : i + 1 \in DOMAIN writing /\ writing'[i] = writing[i + 1]
  BY <1>1, QueueTail
<1>3. WaitersCarried(Head(writing)) /\ InFlightCarried'
  BY <1>2 DEF IInv, InFlightCarried, WaitersCarried
<1>4. Entries(Head(writing).records) \subseteq DOMAIN created /\ InFlightCreated'
  BY <1>2 DEF IInv, InFlightCreated
<1>5. QED  BY <1>2, <1>3, <1>4

\* A part of a batch has no more lines than the batch.
LEMMA PartIsOf ==
  ASSUME NEW batch, batch.records \in Seq(Ids), NEW part \in Parts(batch)
  PROVE  part.whole \in 0..Len(batch.records) /\ part.half \in BOOLEAN
BY DEF Parts

LEMMA WriteOkIInv ==
  ASSUME IInv, WriteOk
  PROVE  IInv'
<1> DEFINE batch == Head(writing)
           lines == Legible(batch.records, Len(batch.records))
<1>1. /\ TypeOK /\ writing # <<>> /\ writing' = Tail(writing)
      /\ Written(batch.records, Len(batch.records), FALSE)
      /\ resolved' = resolved \union (Entries(batch.waiters) \ {LinkCall})
      /\ link' = LinkAfter(batch, "building")
      /\ UNCHANGED <<created, head, tail, pending, rejected, dropped, boot>>
  BY DEF IInv, WriteOk
<1>2. /\ batch \in Batch /\ WaitersCarried(batch)
      /\ Entries(batch.records) \subseteq DOMAIN created
      /\ writing' \in Seq(Batch) /\ InFlightCarried' /\ InFlightCreated'
  BY <1>1, TakeBatch
<1>3. batch.records \in Seq(Ids) /\ Len(batch.records) \in 0..Len(batch.records)
  BY <1>2 DEF Batch
<1>4. /\ file' \in Seq(Ids) /\ Entries(file') = Entries(file) \union Entries(lines)
      /\ torn' \in BOOLEAN /\ glued' \subseteq Ids /\ cuts' \in Nat /\ glued \subseteq glued'
      /\ Entries(batch.records) \subseteq Entries(lines) \union glued' /\ GlueInv'
  <2> HIDE DEF batch
  <2>. QED  BY <1>1, <1>3, WrittenFile DEF IInv, LossInv
<1> HIDE DEF lines
<1>5. resolved' \subseteq resolved \union Entries(batch.records)
  BY <1>1, <1>2 DEF WaitersCarried
<1>6. ResolvedCreated'
  BY <1>1, <1>2, <1>5 DEF IInv, ResolvedCreated
<1>7. Entries(batch.records) \subseteq Ids
  BY <1>3 DEF Entries
<1>8. TypeOK'
  BY <1>1, <1>2, <1>4, <1>5, <1>7 DEF TypeOK, LinkAfter
<1>9. LossInv'
  BY <1>1, <1>4, <1>5 DEF IInv, LossInv, Lost, Gating
<1>10. QED  BY <1>2, <1>6, <1>8, <1>9 DEF IInv

LEMMA WriteFailIInv ==
  ASSUME IInv, NEW part \in [whole : 0..MaxRecords, half : BOOLEAN], WriteFail(part)
  PROVE  IInv'
<1> DEFINE batch == Head(writing)
<1>1. /\ TypeOK /\ writing # <<>> /\ writing' = Tail(writing)
      /\ part \in Parts(batch)
      /\ Written(batch.records, part.whole, part.half)
      /\ rejected' = rejected \union (Entries(batch.waiters) \ {LinkCall})
      /\ dropped' = dropped \union Entries(batch.records)
      /\ link' = LinkAfter(batch, "idle")
      /\ UNCHANGED <<created, head, tail, pending, resolved, boot>>
  BY DEF IInv, WriteFail
<1>2. /\ batch \in Batch /\ WaitersCarried(batch)
      /\ writing' \in Seq(Batch) /\ InFlightCarried' /\ InFlightCreated'
  BY <1>1, TakeBatch
<1>3. batch.records \in Seq(Ids)
  BY <1>2 DEF Batch
<1>4. part.whole \in 0..Len(batch.records) /\ part.half \in BOOLEAN
  BY <1>1, <1>3, PartIsOf
<1>5. /\ file' \in Seq(Ids) /\ Entries(file) \subseteq Entries(file')
      /\ torn' \in BOOLEAN /\ glued' \subseteq Ids /\ cuts' \in Nat /\ glued \subseteq glued' /\ GlueInv'
  <2> HIDE DEF batch
  <2>. QED  BY <1>1, <1>3, <1>4, WrittenFile DEF IInv, LossInv
<1>6. Entries(batch.records) \subseteq Ids
  BY <1>3 DEF Entries
<1>7. TypeOK'
  BY <1>1, <1>2, <1>5, <1>6 DEF TypeOK, LinkAfter, WaitersCarried
<1>8. ResolvedCreated' /\ LossInv'
  BY <1>1, <1>5 DEF IInv, ResolvedCreated, LossInv, Lost, Gating
<1>9. QED  BY <1>2, <1>7, <1>8 DEF IInv

LEMMA CrashRestartIInv ==
  ASSUME IInv, CrashRestart
  PROVE  IInv'
<1>1. /\ TypeOK /\ pending' = EmptyBatch /\ writing' = <<>> /\ tail' = <<>>
      /\ head' = [s \in Shards |-> 0] /\ link' = "idle" /\ boot' = boot + 1
      /\ UNCHANGED <<created, resolved, rejected, dropped>>
  BY DEF IInv, CrashRestart
<1>2. /\ file' \in Seq(Ids) /\ Entries(file) \subseteq Entries(file')
      /\ torn' \in BOOLEAN /\ glued' \subseteq Ids /\ cuts' \in Nat /\ glued \subseteq glued' /\ GlueInv'
  <2>1. CASE UNCHANGED fileVars
    BY <1>1, <2>1 DEF TypeOK, fileVars, IInv, LossInv, GlueInv
  <2>2. CASE ~UNCHANGED fileVars
    <3>1. PICK part \in Parts(Head(writing)) : Written(Head(writing).records, part.whole, part.half)
      BY <2>2 DEF CrashRestart
    <3>2. Head(writing) \in Batch
      BY <1>1, <2>2, QueueTail DEF TypeOK, CrashRestart
    <3>3. Head(writing).records \in Seq(Ids)
      BY <3>2 DEF Batch
    <3>4. part.whole \in 0..Len(Head(writing).records) /\ part.half \in BOOLEAN
      BY <3>1, <3>3, PartIsOf
    <3>. QED  BY <1>1, <3>1, <3>3, <3>4, WrittenFile DEF IInv, LossInv
  <2>3. QED  BY <2>1, <2>2
<1>3. tail' \in Seq(Ids) /\ Entries(tail') = {} /\ writing' \in Seq(Batch)
      /\ DOMAIN writing' = {}
  BY <1>1, EntriesEmpty
<1>4. TypeOK'
  BY <1>1, <1>2, <1>3, EmptyBatchType DEF TypeOK
<1>5. InFlightCarried' /\ InFlightCreated'
  BY <1>1, <1>3, EmptyBatchType DEF InFlightCarried, WaitersCarried, InFlightCreated
<1>6. ResolvedCreated' /\ LossInv'
  BY <1>1, <1>2 DEF IInv, ResolvedCreated, LossInv, Lost, Gating
<1>7. QED  BY <1>4, <1>5, <1>6 DEF IInv

LEMMA NextIInv == IInv /\ [Next]_vars => IInv'
<1> SUFFICES ASSUME IInv, [Next]_vars PROVE IInv'
  OBVIOUS
<1>1. ASSUME NEW s \in Shards \ {LinkShard},
             AppendEffectGating(s) \/ AppendObservational(s)
      PROVE  IInv'
  BY <1>1, AppendEffectGatingIInv, AppendObservationalIInv
<1>2. CASE BeginCrossLink \/ BuildCrossLink \/ GroupFlush
  BY <1>2, BeginCrossLinkIInv, BuildCrossLinkIInv, GroupFlushIInv
<1>3. CASE Write
  BY <1>3, WriteOkIInv, WriteFailIInv DEF Write
<1>4. CASE CrashRestart
  BY <1>4, CrashRestartIInv
<1>5. CASE UNCHANGED vars
  BY <1>5 DEF vars, fileVars, IInv, TypeOK, InFlightCarried, WaitersCarried,
     ResolvedCreated, InFlightCreated, LossInv, Lost, GlueInv, Gating
<1>6. QED  BY <1>1, <1>2, <1>3, <1>4, <1>5 DEF Next

-----------------------------------------------------------------------------
(* Each record is in one place.                                             *)
(*                                                                         *)
(* The places are sequences: a record moves from the buffer to the batch   *)
(* being assembled, with it to the batches being written, and from there   *)
(* to the file or to those whose callers were told.  A new record is       *)
(* nowhere yet, because every place holds created records only.            *)

Once(s) == \A i, j \in DOMAIN s : s[i] = s[j] => i = j
Lines(i) == Entries(writing[i].records)

EachOnce ==
  /\ Once(file) /\ Once(tail) /\ Once(pending.records)
  /\ \A i \in DOMAIN writing : Once(writing[i].records)

Apart ==
  /\ Entries(file) \intersect Entries(tail) = {}
  /\ Entries(file) \intersect Entries(pending.records) = {}
  /\ Entries(tail) \intersect Entries(pending.records) = {}
  /\ \A i \in DOMAIN writing :
       /\ Lines(i) \intersect Entries(file) = {}
       /\ Lines(i) \intersect Entries(tail) = {}
       /\ Lines(i) \intersect Entries(pending.records) = {}
       /\ \A j \in DOMAIN writing : Lines(i) \intersect Lines(j) # {} => i = j

Somewhere(r) ==
  \/ r \in dropped \union glued \union Entries(file) \union Entries(tail) \union Entries(pending.records)
  \/ \E i \in DOMAIN writing : r \in Lines(i)

NoneLost == \A r \in DOMAIN created : created[r].boot = boot => Somewhere(r)

PlaceInv ==
  /\ IInv /\ EachOnce /\ Apart /\ NoneLost
  /\ Entries(file) \subseteq DOMAIN created
  /\ \A r \in DOMAIN created : created[r].boot <= boot

LEMMA ElementsTyped ==
  ASSUME NEW S, NEW s \in Seq(S)
  PROVE  \A i \in DOMAIN s : s[i] \in S
OBVIOUS

LEMMA OnceEmpty == Once(<<>>) /\ Once(EmptyBatch.records)
BY DEF Once, EmptyBatch

LEMMA OnceAppend ==
  ASSUME NEW S, NEW s \in Seq(S), NEW x \in S, Once(s), x \notin Entries(s)
  PROVE  Once(Append(s, x))
<1>1. /\ DOMAIN Append(s, x) = DOMAIN s \union {Len(s) + 1} /\ Append(s, x)[Len(s) + 1] = x
      /\ \A i \in DOMAIN s : Append(s, x)[i] = s[i] /\ s[i] # x
  BY DEF Entries
<1>. QED  BY <1>1 DEF Once

LEMMA OnceConcat ==
  ASSUME NEW S, NEW s \in Seq(S), NEW t \in Seq(S), Once(s), Once(t),
         Entries(s) \intersect Entries(t) = {}
  PROVE  Once(s \o t)
<1>1. \A i \in DOMAIN (s \o t) :
        \/ i \in DOMAIN s /\ (s \o t)[i] = s[i]
        \/ i \notin DOMAIN s /\ i - Len(s) \in DOMAIN t /\ (s \o t)[i] = t[i - Len(s)] /\ i \in Nat
  OBVIOUS
<1>2. \A i \in DOMAIN s, j \in DOMAIN t : s[i] # t[j]
  BY DEF Entries
<1>3. Len(s) \in Nat
  OBVIOUS
<1>4. ASSUME NEW i \in DOMAIN (s \o t), NEW j \in DOMAIN (s \o t), (s \o t)[i] = (s \o t)[j]
      PROVE  i = j
  <2>1. CASE i \in DOMAIN s /\ j \in DOMAIN s
    BY <1>1, <1>4, <2>1 DEF Once
  <2>2. CASE i \notin DOMAIN s /\ j \notin DOMAIN s
    <3>1. i - Len(s) = j - Len(s) /\ i \in Nat /\ j \in Nat
      BY <1>1, <1>4, <2>2 DEF Once
    <3>. QED  BY <1>3, <3>1
  <2>3. CASE i \in DOMAIN s /\ j \notin DOMAIN s
    BY <1>1, <1>2, <1>4, <2>3
  <2>4. CASE i \notin DOMAIN s /\ j \in DOMAIN s
    BY <1>1, <1>2, <1>4, <2>4
  <2>. QED  BY <2>1, <2>2, <2>3, <2>4
<1>. QED  BY <1>4 DEF Once

LEMMA OncePrefix ==
  ASSUME NEW S, NEW s \in Seq(S), NEW n \in 0..Len(s), Once(s)
  PROVE  Once(SubSeq(s, 1, n))
<1>1. \A i \in DOMAIN SubSeq(s, 1, n) : i \in DOMAIN s /\ SubSeq(s, 1, n)[i] = s[i]
  OBVIOUS
<1>. QED  BY <1>1 DEF Once

\* The boots of the records that exist.
LEMMA ChainBoots ==
  ASSUME PlaceInv, NEW s \in Shards, NEW gating \in BOOLEAN, Chain(s, gating), UNCHANGED boot
  PROVE  \A r \in DOMAIN created' : created'[r].boot <= boot'
<1>1. TypeOK /\ boot \in Nat
  BY DEF PlaceInv, IInv, TypeOK
<1>2. /\ DOMAIN created' = DOMAIN created \union {Len(created) + 1}
      /\ \A r \in DOMAIN created : created'[r] = created[r]
  BY <1>1, ChainType
<1>3. created'[Len(created) + 1].boot = boot
  BY <1>1 DEF Chain, TypeOK
<1>. QED  BY <1>1, <1>2, <1>3 DEF PlaceInv

\* Records that are not in the batch, not written and not in the file join the
\* batch; the buffer keeps its own or is emptied.
LEMMA EnqueuePlaces ==
  ASSUME PlaceInv, NEW rs \in Seq(Ids), NEW w \in Ids \union {LinkCall}, Enqueue(rs, w), Once(rs),
         Entries(rs) \intersect Entries(file) = {},
         Entries(rs) \intersect Entries(pending.records) = {},
         \A i \in DOMAIN writing : Entries(rs) \intersect Lines(i) = {},
         UNCHANGED <<file, torn, glued, cuts, writing>>, Once(tail'),
         Entries(tail') \intersect Entries(rs) = {}, Entries(tail') \subseteq Entries(tail)
  PROVE  EachOnce' /\ Apart'
<1>1. TypeOK /\ pending.records \in Seq(Ids)
  BY DEF PlaceInv, IInv, TypeOK, Batch
<1>2. Entries(pending'.records) = Entries(pending.records) \union Entries(rs)
  BY <1>1, EnqueueType
<1>3. pending'.records = pending.records \o rs
  BY DEF Enqueue
<1>4. Once(pending'.records)
  BY <1>1, <1>3, OnceConcat DEF PlaceInv, EachOnce
<1>5. EachOnce'
  BY <1>4 DEF PlaceInv, EachOnce
<1>6. \A i \in DOMAIN writing : Lines(i)' = Lines(i)
  BY DEF Lines
<1>7. Apart'
  BY <1>2, <1>6 DEF PlaceInv, Apart
<1>. QED  BY <1>5, <1>7

\* A new record is nowhere yet.
LEMMA NewNowhere ==
  ASSUME PlaceInv, NEW r, r \notin DOMAIN created
  PROVE  /\ r \notin Entries(file) \union Entries(tail) \union Entries(pending.records)
         /\ \A i \in DOMAIN writing : r \notin Lines(i)
BY DEF PlaceInv, IInv, InFlightCreated, Lines

\* An effect-gating record or a cross-link is made and joins the batch.
LEMMA GatingPlaces ==
  ASSUME PlaceInv, NEW s \in Shards, Chain(s, TRUE),
         Enqueue(<<Len(created) + 1>>, Len(created) + 1),
         UNCHANGED <<tail, writing, file, torn, glued, cuts, dropped, boot>>, IInv'
  PROVE  PlaceInv'
<1>. DEFINE r == Len(created) + 1
<1>1. TypeOK
  BY DEF PlaceInv, IInv
<1>2. /\ r \in Ids /\ r \notin DOMAIN created /\ DOMAIN created' = DOMAIN created \union {r}
      /\ \A q \in DOMAIN created : created'[q] = created[q]
  BY <1>1, ChainType
<1>3. <<r>> \in Seq(Ids) /\ Entries(<<r>>) = {r} /\ Once(<<r>>)
  BY <1>2 DEF Entries, Once
<1>4. /\ r \notin Entries(file) \union Entries(tail) \union Entries(pending.records)
      /\ \A i \in DOMAIN writing : r \notin Lines(i)
  BY <1>2, NewNowhere
<1>5. Entries(pending'.records) = Entries(pending.records) \union {r}
  BY <1>1, <1>2, <1>3, EnqueueType
<1>. HIDE DEF r
<1>6. EachOnce' /\ Apart'
  <2>1. Once(tail') /\ Entries(tail') = Entries(tail)
    BY DEF PlaceInv, EachOnce
  <2>. QED  BY <1>2, <1>3, <1>4, <2>1, EnqueuePlaces DEF r
<1>7. NoneLost'
  <2>1. \A i \in DOMAIN writing : Lines(i)' = Lines(i)
    BY DEF Lines
  <2>. QED  BY <1>2, <1>5, <2>1 DEF PlaceInv, NoneLost, Somewhere
<1>8. Entries(file') \subseteq DOMAIN created'
  BY <1>2 DEF PlaceInv
<1>9. \A q \in DOMAIN created' : created'[q].boot <= boot'
  BY ChainBoots
<1>. QED  BY <1>6, <1>7, <1>8, <1>9 DEF PlaceInv

LEMMA ObservationalPlaces ==
  ASSUME PlaceInv, NEW s \in Shards, AppendObservational(s)
  PROVE  PlaceInv'
<1>. DEFINE r == Len(created) + 1
<1>1. TypeOK /\ IInv' /\ Chain(s, FALSE) /\ tail \in Seq(Ids)
      /\ UNCHANGED <<writing, file, torn, glued, cuts, rejected, dropped, link, boot>>
  BY AppendObservationalIInv DEF PlaceInv, IInv, TypeOK, AppendObservational, fileVars
<1>2. /\ r \in Ids /\ r \notin DOMAIN created /\ DOMAIN created' = DOMAIN created \union {r}
      /\ \A q \in DOMAIN created : created'[q] = created[q]
  BY <1>1, ChainType
<1>3. /\ r \notin Entries(file) \union Entries(tail) \union Entries(pending.records)
      /\ \A i \in DOMAIN writing : r \notin Lines(i)
  BY <1>2, NewNowhere
<1>4. Append(tail, r) \in Seq(Ids) /\ Entries(Append(tail, r)) = Entries(tail) \union {r}
      /\ Once(Append(tail, r))
  BY <1>1, <1>2, <1>3, EntriesAppend, OnceAppend DEF PlaceInv, EachOnce
<1>5. \A i \in DOMAIN writing : Lines(i)' = Lines(i)
  BY <1>1 DEF Lines
<1>6. Entries(file') \subseteq DOMAIN created' /\ \A q \in DOMAIN created' : created'[q].boot <= boot'
  BY <1>1, <1>2, ChainBoots DEF PlaceInv
<1>. HIDE DEF r
<1>7. CASE tail' = Append(tail, r) /\ UNCHANGED pending
  <2>1. EachOnce' /\ Apart'
    BY <1>1, <1>3, <1>4, <1>5, <1>7 DEF PlaceInv, EachOnce, Apart
  <2>2. NoneLost'
    BY <1>1, <1>2, <1>4, <1>5, <1>7 DEF PlaceInv, NoneLost, Somewhere
  <2>. QED  BY <1>1, <1>6, <2>1, <2>2 DEF PlaceInv
<1>8. CASE Enqueue(Append(tail, r), r) /\ tail' = <<>>
  <2>1. Entries(tail') = {} /\ Once(tail')
    BY <1>8, EntriesEmpty, OnceEmpty
  <2>2. Entries(pending'.records) = Entries(pending.records) \union Entries(tail) \union {r}
    BY <1>1, <1>2, <1>4, <1>8, EnqueueType
  <2>3. /\ Entries(Append(tail, r)) \intersect Entries(file) = {}
        /\ Entries(Append(tail, r)) \intersect Entries(pending.records) = {}
        /\ \A i \in DOMAIN writing : Entries(Append(tail, r)) \intersect Lines(i) = {}
    BY <1>3, <1>4 DEF PlaceInv, Apart
  <2>4. EachOnce' /\ Apart'
    BY <1>1, <1>2, <1>4, <1>8, <2>1, <2>3, EnqueuePlaces
  <2>5. NoneLost'
    BY <1>1, <1>2, <1>5, <2>2 DEF PlaceInv, NoneLost, Somewhere
  <2>. QED  BY <1>1, <1>6, <2>4, <2>5 DEF PlaceInv
<1>. QED  BY <1>7, <1>8 DEF AppendObservational, r

LEMMA CrossLinkPlaces ==
  ASSUME PlaceInv, BeginCrossLink
  PROVE  PlaceInv'
<1>1. TypeOK /\ IInv' /\ tail \in Seq(Ids)
      /\ UNCHANGED <<created, writing, file, torn, glued, cuts, dropped, boot>>
  BY BeginCrossLinkIInv DEF PlaceInv, IInv, TypeOK, BeginCrossLink, fileVars
<1>2. \A i \in DOMAIN writing : Lines(i)' = Lines(i)
  BY <1>1 DEF Lines
<1>3. CASE UNCHANGED <<tail, pending>>
  BY <1>1, <1>2, <1>3 DEF PlaceInv, EachOnce, Apart, NoneLost, Somewhere
<1>4. CASE Enqueue(tail, LinkCall) /\ tail' = <<>>
  <2>1. Entries(tail') = {} /\ Once(tail')
    BY <1>4, EntriesEmpty, OnceEmpty
  <2>2. Entries(pending'.records) = Entries(pending.records) \union Entries(tail)
    BY <1>1, <1>4, EnqueueType
  <2>3. /\ Once(tail) /\ Entries(tail) \intersect Entries(file) = {}
        /\ Entries(tail) \intersect Entries(pending.records) = {}
        /\ \A i \in DOMAIN writing : Entries(tail) \intersect Lines(i) = {}
    BY DEF PlaceInv, EachOnce, Apart
  <2>4. EachOnce' /\ Apart'
    BY <1>1, <1>4, <2>1, <2>3, EnqueuePlaces
  <2>5. NoneLost'
    BY <1>1, <1>2, <2>2 DEF PlaceInv, NoneLost, Somewhere
  <2>. QED  BY <1>1, <2>4, <2>5 DEF PlaceInv
<1>. QED  BY <1>3, <1>4 DEF BeginCrossLink, fileVars

\* The assembled batch joins those being written.
LEMMA FlushPlaces ==
  ASSUME PlaceInv, GroupFlush
  PROVE  PlaceInv'
<1>1. IInv' /\ writing \in Seq(Batch) /\ pending \in Batch
      /\ writing' = Append(writing, pending) /\ pending' = EmptyBatch
      /\ UNCHANGED <<created, tail, file, torn, glued, cuts, dropped, boot>>
  BY GroupFlushIInv DEF PlaceInv, IInv, TypeOK, GroupFlush, fileVars
<1>2. PICK n \in Nat :
        /\ DOMAIN writing' = DOMAIN writing \union {n} /\ n \notin DOMAIN writing
        /\ \A i \in DOMAIN writing : writing'[i] = writing[i]
        /\ writing'[n] = pending
  <2>1. /\ Len(writing) + 1 \in Nat /\ Len(writing) + 1 \notin DOMAIN writing
        /\ DOMAIN writing' = DOMAIN writing \union {Len(writing) + 1}
        /\ \A i \in DOMAIN writing : writing'[i] = writing[i]
        /\ writing'[Len(writing) + 1] = pending
    BY <1>1
  <2>. QED  BY <2>1
<1>3. Entries(pending'.records) = {} /\ Once(pending'.records)
  BY <1>1, EmptyBatchType, OnceEmpty
<1>4. Lines(n)' = Entries(pending.records) /\ \A i \in DOMAIN writing : Lines(i)' = Lines(i)
  BY <1>2 DEF Lines
<1>5. EachOnce'
  BY <1>1, <1>2, <1>3 DEF PlaceInv, EachOnce
<1>6. Apart'
  <2>1. ASSUME NEW i \in DOMAIN writing'
        PROVE  /\ Lines(i)' \intersect Entries(file') = {}
               /\ Lines(i)' \intersect Entries(tail') = {}
               /\ Lines(i)' \intersect Entries(pending'.records) = {}
               /\ \A j \in DOMAIN writing' : Lines(i)' \intersect Lines(j)' # {} => i = j
    <3>1. CASE i = n
      BY <1>1, <1>2, <1>3, <1>4, <3>1 DEF PlaceInv, Apart
    <3>2. CASE i \in DOMAIN writing
      BY <1>1, <1>2, <1>3, <1>4, <3>2 DEF PlaceInv, Apart
    <3>. QED  BY <1>2, <3>1, <3>2
  <2>. QED  BY <1>1, <1>3, <2>1 DEF PlaceInv, Apart
<1>7. NoneLost'
  <2>1. ASSUME NEW r \in DOMAIN created, Somewhere(r) PROVE Somewhere(r)'
    <3>1. CASE r \in Entries(pending.records)
      BY <1>2, <1>4, <3>1 DEF Somewhere
    <3>2. CASE r \notin Entries(pending.records)
      BY <1>1, <1>2, <1>4, <2>1, <3>2 DEF Somewhere
    <3>. QED  BY <3>1, <3>2
  <2>. QED  BY <1>1, <2>1 DEF PlaceInv, NoneLost
<1>. QED  BY <1>1, <1>5, <1>6, <1>7 DEF PlaceInv

\* A write ends: some lines of the first batch are in the file, all of them or
\* else their callers are told.
LEMMA WritePlaces ==
  ASSUME PlaceInv, IInv', writing # <<>>, writing' = Tail(writing),
         UNCHANGED <<created, tail, pending, boot>>,
         NEW lines \in Seq(Ids), file' = file \o lines, Once(lines),
         Entries(lines) \subseteq Entries(Head(writing).records),
         dropped \union glued \subseteq dropped' \union glued',
         Entries(Head(writing).records) \subseteq Entries(lines) \union dropped' \union glued'
  PROVE  PlaceInv'
<1>1. writing \in Seq(Batch) /\ file \in Seq(Ids)
  BY DEF PlaceInv, IInv, TypeOK
<1>2. /\ Head(writing) = writing[1] /\ 1 \in DOMAIN writing
      /\ \A i \in DOMAIN writing' : i + 1 \in DOMAIN writing /\ writing'[i] = writing[i + 1] /\ i \in Nat
      /\ \A i \in DOMAIN writing : i = 1 \/ (i - 1 \in DOMAIN writing' /\ writing'[i - 1] = writing[i])
  BY <1>1
<1>3. Entries(file') = Entries(file) \union Entries(lines)
  BY <1>1, EntriesConcat
<1>4. Entries(lines) \subseteq Lines(1) /\ \A i \in DOMAIN writing' : Lines(i)' = Lines(i + 1)
  BY <1>2 DEF Lines
<1>5. \A i \in DOMAIN writing' : i + 1 \in DOMAIN writing /\ i + 1 # 1
  BY <1>2
<1>6. Once(file')
  <2>1. Entries(file) \intersect Entries(lines) = {} /\ Once(file)
    BY <1>2, <1>4 DEF PlaceInv, EachOnce, Apart
  <2>. QED  BY <1>1, <2>1, OnceConcat
<1>7. EachOnce'
  BY <1>2, <1>6 DEF PlaceInv, EachOnce
<1>8. Apart'
  <2>1. ASSUME NEW i \in DOMAIN writing'
        PROVE  /\ Lines(i)' \intersect Entries(file') = {}
               /\ Lines(i)' \intersect Entries(tail') = {}
               /\ Lines(i)' \intersect Entries(pending'.records) = {}
    BY <1>2, <1>3, <1>4, <1>5 DEF PlaceInv, Apart
  <2>2. ASSUME NEW i \in DOMAIN writing', NEW j \in DOMAIN writing',
               Lines(i)' \intersect Lines(j)' # {}
        PROVE  i = j
    <3>1. i + 1 = j + 1
      BY <1>4, <1>5, <2>2 DEF PlaceInv, Apart
    <3>. QED  BY <1>2, <3>1
  <2>3. Entries(file') \intersect Entries(tail') = {}
        /\ Entries(file') \intersect Entries(pending'.records) = {}
    BY <1>2, <1>3, <1>4 DEF PlaceInv, Apart
  <2>. QED  BY <2>1, <2>2, <2>3 DEF PlaceInv, Apart
<1>9. NoneLost'
  <2>1. ASSUME NEW r \in DOMAIN created, Somewhere(r) PROVE Somewhere(r)'
    <3>1. ASSUME NEW i \in DOMAIN writing, r \in Lines(i) PROVE Somewhere(r)'
      <4>1. CASE i = 1
        BY <1>2, <1>3, <3>1, <4>1 DEF Somewhere, Lines
      <4>2. CASE i # 1
        <5>1. i - 1 \in DOMAIN writing' /\ Lines(i - 1)' = Lines(i)
          BY <1>2, <4>2 DEF Lines
        <5>. QED  BY <3>1, <5>1 DEF Somewhere
      <4>. QED  BY <4>1, <4>2
    <3>2. CASE ~ \E i \in DOMAIN writing : r \in Lines(i)
      BY <1>3, <2>1, <3>2 DEF Somewhere
    <3>. QED  BY <3>1, <3>2
  <2>. QED  BY <2>1 DEF PlaceInv, NoneLost
<1>10. Entries(file') \subseteq DOMAIN created'
  BY <1>2, <1>3, <1>4 DEF PlaceInv, IInv, InFlightCreated, Lines
<1>. QED  BY <1>7, <1>8, <1>9, <1>10 DEF PlaceInv

\* The lines a part of a batch leaves in the file.
LEMMA WrittenOnce ==
  ASSUME PlaceInv, NEW records \in Seq(Ids), Once(records), NEW n \in 0..Len(records),
         NEW half \in BOOLEAN, Written(records, n, half)
  PROVE  /\ file' = file \o Legible(records, n)
         /\ Legible(records, n) \in Seq(Ids) /\ Once(Legible(records, n))
         /\ Entries(Legible(records, n)) \subseteq Entries(records)
         /\ glued \subseteq glued'
         /\ n = Len(records) => Entries(records) \subseteq Entries(Legible(records, n)) \union glued'
<1>1. TypeOK /\ GlueInv /\ torn \in BOOLEAN
  BY DEF PlaceInv, IInv, LossInv, TypeOK
<1>2. Once(Legible(records, n))
  <2>1. \A i, j \in DOMAIN records : records[i] = records[j] => i = j
    BY DEF Once
  <2>2. \A i, j \in DOMAIN Legible(records, n) :
          Legible(records, n)[i] = Legible(records, n)[j] => i = j
    BY <1>1, <2>1, LegibleLines
  <2>. QED  BY <2>2 DEF Once
<1>. QED  BY <1>1, <1>2, WrittenFile

LEMMA WriteEndsPlaces ==
  ASSUME PlaceInv, Write
  PROVE  PlaceInv'
<1>1. /\ writing # <<>> /\ Head(writing).records \in Seq(Ids) /\ Once(Head(writing).records)
  <2>1. writing # <<>> /\ writing \in Seq(Batch)
    BY DEF Write, WriteOk, WriteFail, PlaceInv, IInv, TypeOK
  <2>2. Head(writing) \in Batch /\ Head(writing) = writing[1] /\ 1 \in DOMAIN writing
    BY <2>1, QueueTail
  <2>. QED  BY <2>1, <2>2 DEF Batch, PlaceInv, EachOnce
<1>2. CASE WriteOk
  <2>. DEFINE records == Head(writing).records
              lines == Legible(records, Len(records))
  <2>1. /\ Written(records, Len(records), FALSE) /\ writing' = Tail(writing)
        /\ UNCHANGED <<created, tail, pending, boot, dropped>>
    BY <1>2 DEF WriteOk
  <2>2. IInv'
    BY <1>2, WriteOkIInv DEF PlaceInv
  <2>3. records \in Seq(Ids) /\ Once(records) /\ Len(records) \in 0..Len(records) /\ FALSE \in BOOLEAN
    BY <1>1
  <2>. HIDE DEF records
  <2>4. /\ file' = file \o lines /\ lines \in Seq(Ids) /\ Once(lines)
        /\ Entries(lines) \subseteq Entries(records) /\ glued \subseteq glued'
        /\ Entries(records) \subseteq Entries(lines) \union glued'
    BY <2>1, <2>3, WrittenOnce
  <2>. HIDE DEF lines
  <2>5. /\ Entries(lines) \subseteq Entries(Head(writing).records)
        /\ dropped \union glued \subseteq dropped' \union glued'
        /\ Entries(Head(writing).records) \subseteq Entries(lines) \union dropped' \union glued'
    BY <2>1, <2>4 DEF records
  <2>. QED  BY <1>1, <2>1, <2>2, <2>4, <2>5, WritePlaces
<1>3. ASSUME NEW part \in [whole : 0..MaxRecords, half : BOOLEAN], WriteFail(part) PROVE PlaceInv'
  <2>. DEFINE records == Head(writing).records
              lines == Legible(records, part.whole)
  <2>1. /\ Written(records, part.whole, part.half) /\ writing' = Tail(writing)
        /\ part \in Parts(Head(writing)) /\ dropped' = dropped \union Entries(records)
        /\ UNCHANGED <<created, tail, pending, boot>>
    BY <1>3 DEF WriteFail
  <2>2. IInv'
    BY <1>3, WriteFailIInv DEF PlaceInv
  <2>3. /\ records \in Seq(Ids) /\ Once(records)
        /\ part.whole \in 0..Len(records) /\ part.half \in BOOLEAN
    BY <1>1, <2>1, PartIsOf
  <2>. HIDE DEF records
  <2>4. /\ file' = file \o lines /\ lines \in Seq(Ids) /\ Once(lines)
        /\ Entries(lines) \subseteq Entries(records) /\ glued \subseteq glued'
    BY <2>1, <2>3, WrittenOnce
  <2>. HIDE DEF lines
  <2>5. /\ Entries(lines) \subseteq Entries(Head(writing).records)
        /\ dropped \union glued \subseteq dropped' \union glued'
        /\ Entries(Head(writing).records) \subseteq Entries(lines) \union dropped' \union glued'
    BY <2>1, <2>4 DEF records
  <2>. QED  BY <1>1, <2>1, <2>2, <2>4, <2>5, WritePlaces
<1>. QED  BY <1>2, <1>3 DEF Write

\* A crash leaves the file, perhaps with some lines more, and nothing else.
LEMMA CrashPlaces ==
  ASSUME PlaceInv, CrashRestart
  PROVE  PlaceInv'
<1>1. /\ IInv' /\ file \in Seq(Ids) /\ writing \in Seq(Batch) /\ boot \in Nat
      /\ tail' = <<>> /\ pending' = EmptyBatch /\ writing' = <<>> /\ boot' = boot + 1
      /\ UNCHANGED <<created, dropped>>
  BY CrashRestartIInv DEF PlaceInv, IInv, TypeOK, CrashRestart
<1>2. /\ Once(file') /\ Entries(file') \subseteq DOMAIN created
  <2>1. CASE UNCHANGED fileVars
    BY <2>1 DEF fileVars, PlaceInv, EachOnce
  <2>2. CASE ~UNCHANGED fileVars
    <3>. DEFINE records == Head(writing).records
    <3>1. PICK part \in Parts(Head(writing)) : Written(records, part.whole, part.half)
      BY <2>2 DEF CrashRestart
    <3>. DEFINE lines == Legible(records, part.whole)
    <3>2. Head(writing) \in Batch /\ Head(writing) = writing[1] /\ 1 \in DOMAIN writing
      BY <1>1, <2>2, QueueTail DEF CrashRestart
    <3>3. Once(records) /\ records \in Seq(Ids) /\ Entries(records) = Lines(1)
      BY <3>2 DEF PlaceInv, EachOnce, Batch, Lines
    <3>4. part.whole \in 0..Len(records) /\ part.half \in BOOLEAN
      BY <3>1, <3>3, PartIsOf
    <3>. HIDE DEF records
    <3>5. /\ file' = file \o lines /\ lines \in Seq(Ids) /\ Once(lines)
          /\ Entries(lines) \subseteq Lines(1)
      BY <3>1, <3>3, <3>4, WrittenOnce
    <3>. HIDE DEF lines
    <3>6. Lines(1) \intersect Entries(file) = {} /\ Lines(1) \subseteq DOMAIN created /\ Once(file)
          /\ Entries(file) \subseteq DOMAIN created
      BY <3>2 DEF PlaceInv, Apart, EachOnce, IInv, InFlightCreated, Lines
    <3>7. Entries(file) \intersect Entries(lines) = {}
      BY <3>5, <3>6
    <3>8. Once(file \o lines) /\ Entries(file \o lines) = Entries(file) \union Entries(lines)
      BY <1>1, <3>5, <3>6, <3>7, OnceConcat, EntriesConcat
    <3>. QED  BY <3>5, <3>6, <3>8
  <2>. QED  BY <2>1, <2>2
<1>3. /\ Entries(tail') = {} /\ Entries(pending'.records) = {} /\ DOMAIN writing' = {}
      /\ Once(tail') /\ Once(pending'.records)
  BY <1>1, EntriesEmpty, EmptyBatchType, OnceEmpty
<1>4. EachOnce' /\ Apart'
  BY <1>2, <1>3 DEF EachOnce, Apart
<1>5. \A r \in DOMAIN created : created'[r].boot <= boot' /\ created'[r].boot # boot'
  <2>1. \A r \in DOMAIN created : created[r].boot \in Nat /\ created[r].boot <= boot
    <3>1. \A r \in DOMAIN created : created[r].boot <= boot
      BY DEF PlaceInv
    <3>2. \A r \in DOMAIN created :
            created[r] \in [shard : Shards, gating : BOOLEAN, prev : Ids \union {0}, boot : Nat]
      BY ElementsTyped DEF PlaceInv, IInv, TypeOK
    <3>. QED  BY <3>1, <3>2
  <2>. QED  BY <1>1, <2>1
<1>6. NoneLost'
  BY <1>1, <1>5 DEF NoneLost
<1>. QED  BY <1>1, <1>2, <1>4, <1>5, <1>6 DEF PlaceInv

LEMMA InitPlaces == Init => PlaceInv
<1>. SUFFICES ASSUME Init PROVE PlaceInv
  OBVIOUS
<1>1. IInv
  BY InitIInv
<1>2. /\ Entries(file) = {} /\ Entries(tail) = {} /\ Entries(pending.records) = {}
      /\ DOMAIN writing = {} /\ DOMAIN created = {}
      /\ Once(file) /\ Once(tail) /\ Once(pending.records)
  BY EntriesEmpty, EmptyBatchType, OnceEmpty DEF Init
<1>. QED  BY <1>1, <1>2 DEF PlaceInv, EachOnce, Apart, NoneLost

LEMMA NextPlaces == PlaceInv /\ [Next]_vars => PlaceInv'
<1>. SUFFICES ASSUME PlaceInv, [Next]_vars PROVE PlaceInv'
  OBVIOUS
<1>1. ASSUME NEW s \in Shards, AppendEffectGating(s) PROVE PlaceInv'
  <2>1. IInv'
    BY <1>1, AppendEffectGatingIInv DEF PlaceInv
  <2>. QED  BY <1>1, <2>1, GatingPlaces DEF AppendEffectGating, fileVars
<1>2. ASSUME NEW s \in Shards, AppendObservational(s) PROVE PlaceInv'
  BY <1>2, ObservationalPlaces
<1>3. CASE BuildCrossLink
  <2>1. IInv'
    BY <1>3, BuildCrossLinkIInv DEF PlaceInv
  <2>. QED  BY <1>3, <2>1, GatingPlaces, ConstantsAssumption DEF BuildCrossLink, fileVars
<1>4. CASE BeginCrossLink \/ GroupFlush
  BY <1>4, CrossLinkPlaces, FlushPlaces
<1>5. CASE Write
  BY <1>5, WriteEndsPlaces
<1>6. CASE CrashRestart
  BY <1>6, CrashPlaces
<1>7. CASE UNCHANGED vars
  <2>1. IInv'
    BY <1>7, NextIInv DEF PlaceInv
  <2>2. \A i \in DOMAIN writing : Lines(i)' = Lines(i)
    BY <1>7 DEF vars, fileVars, Lines
  <2>. QED  BY <1>7, <2>1, <2>2 DEF vars, fileVars, PlaceInv, EachOnce, Apart, NoneLost, Somewhere
<1>. QED  BY <1>1, <1>2, <1>3, <1>4, <1>5, <1>6, <1>7 DEF Next

\* The places in their order, and what the invariant says of them.
LEMMA PlacesOnce == PlaceInv => EachRecordOnce
<1>. SUFFICES ASSUME PlaceInv PROVE EachRecordOnce
  OBVIOUS
<1>. DEFINE batches == [i \in DOMAIN writing |-> writing[i].records]
<1>1. /\ file \in Seq(Ids) /\ tail \in Seq(Ids) /\ pending.records \in Seq(Ids)
      /\ writing \in Seq(Batch)
  BY DEF PlaceInv, IInv, TypeOK, Batch
<1>2. batches \in Seq(Seq(Ids)) /\ Len(batches) = Len(writing)
      /\ \A i \in DOMAIN writing : batches[i] = writing[i].records
  <2>1. \A i \in DOMAIN writing : writing[i].records \in Seq(Ids)
    <3>1. \A i \in DOMAIN writing : writing[i] \in Batch
      BY <1>1, ElementsTyped
    <3>. QED  BY <3>1 DEF Batch
  <2>2. DOMAIN writing = 1..Len(writing) /\ Len(writing) \in Nat
    BY <1>1
  <2>. QED  BY <2>1, <2>2
<1>3. <<file, pending.records, tail>> \in Seq(Seq(Ids)) /\ Places = <<file, pending.records, tail>> \o batches
  BY <1>1 DEF Places
<1>. HIDE DEF batches
<1>4. /\ DOMAIN Places = 1..(3 + Len(writing)) /\ DOMAIN writing = 1..Len(writing)
      /\ Places[1] = file /\ Places[2] = pending.records /\ Places[3] = tail
      /\ \A i \in DOMAIN writing : Places[3 + i] = batches[i]
  BY <1>1, <1>2, <1>3
<1>5. \A i \in DOMAIN writing : Entries(Places[3 + i]) = Lines(i) /\ Places[3 + i] = writing[i].records
  BY <1>2, <1>4 DEF Lines
<1>6. \A p \in DOMAIN Places : p \in {1, 2, 3} \/ \E i \in DOMAIN writing : p = 3 + i
  <2>1. ASSUME NEW p \in DOMAIN Places, p \notin {1, 2, 3} PROVE \E i \in DOMAIN writing : p = 3 + i
    <3>1. p - 3 \in DOMAIN writing /\ p = 3 + (p - 3)
      BY <1>1, <1>4, <2>1
    <3>. QED  BY <3>1
  <2>. QED  BY <2>1
<1>7. \A p \in DOMAIN Places : Once(Places[p])
  BY <1>4, <1>5, <1>6 DEF PlaceInv, EachOnce
<1>8. ASSUME NEW p \in DOMAIN Places, NEW q \in DOMAIN Places,
             Entries(Places[p]) \intersect Entries(Places[q]) # {}
      PROVE  p = q
  <2>1. CASE p \in {1, 2, 3} /\ q \in {1, 2, 3}
    BY <1>4, <1>8, <2>1 DEF PlaceInv, Apart
  <2>2. ASSUME NEW i \in DOMAIN writing, p = 3 + i, q \in {1, 2, 3} PROVE FALSE
    BY <1>4, <1>5, <1>8, <2>2 DEF PlaceInv, Apart
  <2>3. ASSUME NEW i \in DOMAIN writing, q = 3 + i, p \in {1, 2, 3} PROVE FALSE
    BY <1>4, <1>5, <1>8, <2>3 DEF PlaceInv, Apart
  <2>4. ASSUME NEW i \in DOMAIN writing, NEW j \in DOMAIN writing, p = 3 + i, q = 3 + j PROVE p = q
    BY <1>5, <1>8, <2>4 DEF PlaceInv, Apart
  <2>. QED  BY <1>6, <2>1, <2>2, <2>3, <2>4
<1>9. ASSUME NEW p \in DOMAIN Places, NEW q \in DOMAIN Places,
             NEW i \in DOMAIN Places[p], NEW j \in DOMAIN Places[q], Places[p][i] = Places[q][j]
      PROVE  p = q /\ i = j
  <2>1. Places[p][i] \in Entries(Places[p]) /\ Places[p][i] \in Entries(Places[q])
    BY <1>9 DEF Entries
  <2>2. p = q
    BY <1>8, <2>1
  <2>. QED  BY <1>7, <1>9, <2>2 DEF Once
<1>10. ASSUME NEW r \in DOMAIN created, created[r].boot = boot
       PROVE  r \in dropped \union glued \/ \E p \in DOMAIN Places : r \in Entries(Places[p])
  <2>1. Somewhere(r)
    BY <1>10 DEF PlaceInv, NoneLost
  <2>2. {1, 2, 3} \subseteq DOMAIN Places /\ \A i \in DOMAIN writing : 3 + i \in DOMAIN Places
    BY <1>1, <1>4
  <2>. QED  BY <1>4, <1>5, <2>1, <2>2 DEF Somewhere
<1>. QED  BY <1>9, <1>10 DEF EachRecordOnce

-----------------------------------------------------------------------------
(* The refinement of RecordAppender *)

Callers(batch) == Entries(batch.waiters) \ {LinkCall}

\* Who made an effect-gating record waits for the batch that holds it.
CallersWait(batch) == Entries(batch.records) \intersect Gating \subseteq Callers(batch)

GatingWait ==
  /\ Entries(tail) \intersect Gating = {}
  /\ CallersWait(pending)
  /\ \A i \in DOMAIN writing : CallersWait(writing[i])

\* Callers wait for the batches in the order of their calls.
CallOrder ==
  \A i \in DOMAIN writing :
    /\ \A r \in Callers(writing[i]), q \in Callers(pending) : r < q
    /\ \A j \in DOMAIN writing : i < j =>
         \A r \in Callers(writing[i]), q \in Callers(writing[j]) : r < q

PromiseInv == PlaceInv /\ GatingWait /\ CallOrder /\ rejected \subseteq DOMAIN created

\* Callers are records that exist.
LEMMA CallersCreated ==
  ASSUME IInv
  PROVE  /\ Callers(pending) \subseteq DOMAIN created
         /\ \A i \in DOMAIN writing : Callers(writing[i]) \subseteq DOMAIN created
BY DEF IInv, InFlightCarried, InFlightCreated, WaitersCarried, Callers

LEMMA CreatedNumbers ==
  ASSUME TypeOK
  PROVE  /\ DOMAIN created \subseteq Nat \ {LinkCall} /\ DOMAIN created \subseteq Ids
         /\ Gating \subseteq DOMAIN created
         /\ \A r \in DOMAIN created : r < Len(created) + 1
<1>1. created \in Seq([shard : Shards, gating : BOOLEAN, prev : Ids \union {0}, boot : Nat])
      /\ Len(created) <= MaxRecords
  BY DEF TypeOK
<1>2. DOMAIN created = 1..Len(created) /\ Len(created) \in Nat
  BY <1>1
<1>. QED  BY <1>1, <1>2, ConstantsAssumption DEF Gating, Ids, LinkCall

\* A record is made by a caller that joins the batch with it, or with it and
\* the buffer; r is effect-gating or not.
LEMMA EnqueuePromise ==
  ASSUME PromiseInv, PlaceInv', NEW s \in Shards, NEW gating \in BOOLEAN, Chain(s, gating),
         NEW rs \in Seq(Ids), Enqueue(rs, Len(created) + 1),
         Entries(rs) \subseteq Entries(tail) \union {Len(created) + 1},
         UNCHANGED <<writing, rejected>>, Entries(tail') \subseteq Entries(tail)
  PROVE  PromiseInv'
<1>. DEFINE r == Len(created) + 1
<1>1. TypeOK /\ IInv
  BY DEF PromiseInv, PlaceInv, IInv
<1>2. /\ r \in Ids /\ r \notin DOMAIN created /\ DOMAIN created' = DOMAIN created \union {r}
      /\ Gating' \subseteq Gating \union {r} /\ Gating \subseteq DOMAIN created
      /\ \A q \in DOMAIN created : q < r
      /\ r # LinkCall
  <2>1. r \in Ids /\ r \notin DOMAIN created /\ DOMAIN created' = DOMAIN created \union {r}
    BY <1>1, ChainType
  <2>2. Gating' \subseteq Gating \union {r}
    BY <1>1, ChainGating
  <2>3. r # LinkCall
    BY <2>1 DEF Ids, LinkCall
  <2>. QED  BY <1>1, <2>1, <2>2, <2>3, CreatedNumbers
<1>3. /\ Entries(pending'.records) = Entries(pending.records) \union Entries(rs)
      /\ Entries(pending'.waiters) = Entries(pending.waiters) \union {r}
  BY <1>1, <1>2, EnqueueType
<1>. HIDE DEF r
<1>4. Callers(pending') = Callers(pending) \union {r}
  BY <1>2, <1>3 DEF Callers
<1>5. /\ Entries(tail) \subseteq DOMAIN created /\ Entries(pending.records) \subseteq DOMAIN created
      /\ \A i \in DOMAIN writing : Entries(writing[i].records) \subseteq DOMAIN created
  BY <1>1 DEF IInv, InFlightCreated
<1>6. Entries(rs) \subseteq Entries(tail) \union {r}
  BY DEF r
<1>7. GatingWait'
  BY <1>2, <1>3, <1>4, <1>5, <1>6 DEF PromiseInv, GatingWait, CallersWait, Callers
<1>8. CallOrder'
  <2>1. \A i \in DOMAIN writing : Callers(writing[i]) \subseteq DOMAIN created
    BY <1>1, CallersCreated
  <2>. QED  BY <1>2, <1>4, <2>1 DEF PromiseInv, CallOrder, Callers
<1>. QED  BY <1>2, <1>7, <1>8 DEF PromiseInv

LEMMA AppendsPromise ==
  ASSUME PromiseInv, PlaceInv', NEW s \in Shards,
         AppendEffectGating(s) \/ AppendObservational(s) \/ BuildCrossLink
  PROVE  PromiseInv'
<1>. DEFINE r == Len(created) + 1
<1>1. TypeOK /\ IInv /\ tail \in Seq(Ids)
  BY DEF PromiseInv, PlaceInv, IInv, TypeOK
<1>2. CASE AppendEffectGating(s) \/ BuildCrossLink
  <2>1. PICK shard \in Shards : Chain(shard, TRUE)
    BY <1>2, ConstantsAssumption DEF AppendEffectGating, BuildCrossLink, fileVars
  <2>2. Enqueue(<<r>>, r) /\ UNCHANGED <<writing, rejected, tail>>
    BY <1>2 DEF AppendEffectGating, BuildCrossLink, fileVars
  <2>3. <<r>> \in Seq(Ids) /\ Entries(<<r>>) = {r}
    <3>1. r \in Ids
      BY <1>1, <2>1, ChainType
    <3>. QED  BY <3>1 DEF Entries
  <2>4. Entries(<<r>>) \subseteq Entries(tail) \union {Len(created) + 1} /\ Entries(tail') \subseteq Entries(tail)
    BY <2>2, <2>3
  <2>. QED  BY <2>1, <2>2, <2>3, <2>4, EnqueuePromise
<1>3. CASE AppendObservational(s)
  <2>1. Chain(s, FALSE) /\ UNCHANGED <<writing, rejected>>
    BY <1>3 DEF AppendObservational, fileVars
  <2>2. /\ r \in Ids /\ r \notin DOMAIN created /\ DOMAIN created' = DOMAIN created \union {r}
        /\ Gating' = Gating /\ Gating \subseteq DOMAIN created
    BY <1>1, <2>1, ChainType, ChainGating, CreatedNumbers
  <2>3. Append(tail, r) \in Seq(Ids) /\ Entries(Append(tail, r)) = Entries(tail) \union {r}
    BY <1>1, <2>2, EntriesAppend
  <2>. HIDE DEF r
  <2>4. CASE tail' = Append(tail, r) /\ UNCHANGED pending
    <3>1. GatingWait' /\ CallOrder'
      BY <2>1, <2>2, <2>3, <2>4
         DEF PromiseInv, GatingWait, CallOrder, CallersWait, Callers
    <3>. QED  BY <2>1, <2>2, <3>1 DEF PromiseInv
  <2>5. CASE Enqueue(Append(tail, r), r) /\ tail' = <<>>
    <3>1. Entries(tail') = {}
      BY <2>5, EntriesEmpty
    <3>. QED  BY <2>1, <2>3, <2>5, <3>1, EnqueuePromise DEF r
  <2>. QED  BY <1>3, <2>4, <2>5 DEF AppendObservational, r
<1>. QED  BY <1>2, <1>3

LEMMA CrossLinkPromise ==
  ASSUME PromiseInv, PlaceInv', BeginCrossLink
  PROVE  PromiseInv'
<1>1. TypeOK /\ tail \in Seq(Ids) /\ UNCHANGED <<created, writing, rejected>>
  BY DEF PromiseInv, PlaceInv, IInv, TypeOK, BeginCrossLink, fileVars
<1>2. Gating' = Gating
  BY <1>1 DEF Gating
<1>3. CASE UNCHANGED <<tail, pending>>
  BY <1>1, <1>2, <1>3 DEF PromiseInv, GatingWait, CallOrder, CallersWait, Callers
<1>4. CASE Enqueue(tail, LinkCall) /\ tail' = <<>>
  <2>1. Entries(tail') = {}
    BY <1>4, EntriesEmpty
  <2>2. /\ Entries(pending'.records) = Entries(pending.records) \union Entries(tail)
        /\ Entries(pending'.waiters) = Entries(pending.waiters) \union {LinkCall}
    BY <1>1, <1>4, EnqueueType
  <2>3. Callers(pending') = Callers(pending)
    BY <2>2 DEF Callers
  <2>4. GatingWait'
    BY <1>1, <1>2, <2>1, <2>2, <2>3 DEF PromiseInv, GatingWait, CallersWait, Callers
  <2>5. CallOrder'
    BY <1>1, <2>3 DEF PromiseInv, CallOrder, Callers
  <2>. QED  BY <1>1, <2>4, <2>5 DEF PromiseInv
<1>. QED  BY <1>3, <1>4 DEF BeginCrossLink, fileVars

LEMMA FlushPromise ==
  ASSUME PromiseInv, PlaceInv', GroupFlush
  PROVE  PromiseInv'
<1>1. writing \in Seq(Batch) /\ pending \in Batch
      /\ writing' = Append(writing, pending) /\ pending' = EmptyBatch
      /\ UNCHANGED <<created, tail, rejected>>
  BY DEF PromiseInv, PlaceInv, IInv, TypeOK, GroupFlush, fileVars
<1>2. PICK n \in Nat :
        /\ DOMAIN writing' = DOMAIN writing \union {n} /\ n \notin DOMAIN writing
        /\ \A i \in DOMAIN writing : writing'[i] = writing[i] /\ i < n /\ i \in Nat
        /\ writing'[n] = pending
  <2>1. /\ Len(writing) + 1 \in Nat /\ Len(writing) + 1 \notin DOMAIN writing
        /\ DOMAIN writing' = DOMAIN writing \union {Len(writing) + 1}
        /\ \A i \in DOMAIN writing : writing'[i] = writing[i] /\ i < Len(writing) + 1 /\ i \in Nat
        /\ writing'[Len(writing) + 1] = pending
    BY <1>1
  <2>. QED  BY <2>1
<1>3. Entries(pending'.records) = {} /\ Callers(pending') = {} /\ Gating' = Gating
  BY <1>1, EmptyBatchType DEF Callers, Gating
<1>4. GatingWait'
  BY <1>1, <1>2, <1>3 DEF PromiseInv, GatingWait, CallersWait, Callers
<1>5. CallOrder'
  <2>1. ASSUME NEW i \in DOMAIN writing', NEW j \in DOMAIN writing', i < j,
               NEW r \in Callers(writing'[i]), NEW q \in Callers(writing'[j])
        PROVE  r < q
    <3>1. i # n
      BY <1>2, <2>1
    <3>2. CASE j = n
      BY <1>2, <2>1, <3>1, <3>2 DEF PromiseInv, CallOrder
    <3>3. CASE j # n
      BY <1>2, <2>1, <3>1, <3>3 DEF PromiseInv, CallOrder
    <3>. QED  BY <3>2, <3>3
  <2>. QED  BY <1>3, <2>1 DEF CallOrder, Callers
<1>. QED  BY <1>1, <1>4, <1>5 DEF PromiseInv

\* Both ends of a write release the callers of the first batch, if any.
LEMMA WritePromise ==
  ASSUME PromiseInv, PlaceInv', writing # <<>>, writing' = Tail(writing),
         UNCHANGED <<created, tail, pending>>,
         rejected' \subseteq rejected \union Callers(Head(writing))
  PROVE  PromiseInv'
<1>1. writing \in Seq(Batch) /\ IInv
  BY DEF PromiseInv, PlaceInv, IInv, TypeOK
<1>2. /\ Head(writing) = writing[1] /\ 1 \in DOMAIN writing
      /\ \A i \in DOMAIN writing' :
           i \in Nat /\ i + 1 \in DOMAIN writing /\ writing'[i] = writing[i + 1]
  BY <1>1
<1>3. Gating' = Gating
  BY DEF Gating
<1>4. GatingWait'
  BY <1>2, <1>3 DEF PromiseInv, GatingWait, CallersWait, Callers
<1>5. CallOrder'
  <2>1. ASSUME NEW i \in DOMAIN writing', NEW j \in DOMAIN writing', i < j,
               NEW r \in Callers(writing'[i]), NEW q \in Callers(writing'[j])
        PROVE  r < q
    <3>1. i + 1 < j + 1
      BY <1>2, <2>1
    <3>. QED  BY <1>2, <2>1, <3>1 DEF PromiseInv, CallOrder
  <2>2. ASSUME NEW i \in DOMAIN writing', NEW r \in Callers(writing'[i]), NEW q \in Callers(pending)
        PROVE  r < q
    BY <1>2, <2>2 DEF PromiseInv, CallOrder
  <2>. QED  BY <2>1, <2>2 DEF CallOrder, Callers
<1>6. Callers(Head(writing)) \subseteq DOMAIN created
  BY <1>1, <1>2, CallersCreated
<1>. QED  BY <1>4, <1>5, <1>6 DEF PromiseInv

LEMMA CrashPromise ==
  ASSUME PromiseInv, PlaceInv', CrashRestart
  PROVE  PromiseInv'
<1>1. /\ tail' = <<>> /\ pending' = EmptyBatch /\ writing' = <<>>
      /\ UNCHANGED <<created, rejected>>
  BY DEF CrashRestart
<1>2. Entries(tail') = {} /\ Entries(pending'.records) = {} /\ DOMAIN writing' = {}
  BY <1>1, EntriesEmpty, EmptyBatchType
<1>3. GatingWait' /\ CallOrder'
  BY <1>2 DEF GatingWait, CallOrder, CallersWait
<1>. QED  BY <1>1, <1>3 DEF PromiseInv

LEMMA WriteEndsPromise ==
  ASSUME PromiseInv, PlaceInv', Write
  PROVE  PromiseInv'
<1>1. CASE WriteOk
  BY <1>1, WritePromise DEF WriteOk
<1>2. ASSUME NEW part, WriteFail(part) PROVE PromiseInv'
  BY <1>2, WritePromise DEF WriteFail, Callers
<1>. QED  BY <1>1, <1>2 DEF Write

LEMMA InitPromise == Init => PromiseInv
<1>. SUFFICES ASSUME Init PROVE PromiseInv
  OBVIOUS
<1>1. PlaceInv
  BY InitPlaces
<1>2. Entries(tail) = {} /\ Entries(pending.records) = {} /\ DOMAIN writing = {} /\ rejected = {}
  BY EntriesEmpty, EmptyBatchType DEF Init
<1>. QED  BY <1>1, <1>2 DEF PromiseInv, GatingWait, CallOrder, CallersWait

LEMMA NextPromise == PromiseInv /\ [Next]_vars => PromiseInv'
<1>. SUFFICES ASSUME PromiseInv, [Next]_vars PROVE PromiseInv'
  OBVIOUS
<1>1. PlaceInv'
  BY NextPlaces DEF PromiseInv
<1>2. CASE UNCHANGED vars
  BY <1>1, <1>2 DEF vars, fileVars, PromiseInv, GatingWait, CallOrder, CallersWait, Callers, Gating
<1>. QED
  BY <1>1, <1>2, ConstantsAssumption, AppendsPromise, CrossLinkPromise, FlushPromise,
     WriteEndsPromise, CrashPromise
  DEF Next

-----------------------------------------------------------------------------
\* Every step of the log is a step of the promise, or none of its business.

LEMMA AppendKeeps ==
  ASSUME PromiseInv, NEW s \in Shards, AppendEffectGating(s) \/ BuildCrossLink
  PROVE  Promise!Next
<1>. DEFINE r == Len(created) + 1
<1>1. TypeOK /\ UNCHANGED <<writing, file, torn, glued, cuts, resolved, rejected>> /\ Enqueue(<<r>>, r)
  BY DEF PromiseInv, PlaceInv, IInv, AppendEffectGating, BuildCrossLink, fileVars
<1>2. PICK shard \in Shards : Chain(shard, TRUE)
  BY ConstantsAssumption DEF AppendEffectGating, BuildCrossLink, fileVars
<1>3. /\ r \in Ids /\ r \notin DOMAIN created /\ Gating \subseteq DOMAIN created
      /\ \A q \in DOMAIN created : q < r
      /\ Gating' = Gating \union {r}
  BY <1>1, <1>2, ChainType, ChainGating, CreatedNumbers
<1>4. <<r>> \in Seq(Ids)
  BY <1>3
<1>5. Entries(pending'.waiters) = Entries(pending.waiters) \union {r}
  BY <1>1, <1>3, <1>4, EnqueueType
<1>. HIDE DEF r
<1>6. /\ Entries(file) \subseteq DOMAIN created /\ resolved \subseteq DOMAIN created
      /\ rejected \subseteq DOMAIN created
      /\ \A i \in DOMAIN writing : Callers(writing[i]) \subseteq DOMAIN created
  BY CallersCreated DEF PromiseInv, PlaceInv, IInv, ResolvedCreated
<1>7. \A i \in DOMAIN writing : r \notin Entries(writing[i].waiters)
  <2>1. r # LinkCall
    BY <1>3 DEF Ids, LinkCall
  <2>. QED  BY <1>3, <1>6, <2>1 DEF Callers
<1>8. GatingWaiters' = GatingWaiters \union {r}
  <2>1. GatingWaiters' \subseteq GatingWaiters \union {r}
    BY <1>1, <1>3, <1>5 DEF GatingWaiters
  <2>2. GatingWaiters \union {r} \subseteq GatingWaiters'
    BY <1>1, <1>3, <1>5 DEF GatingWaiters
  <2>. QED  BY <2>1, <2>2
<1>9. /\ Entries(file') \intersect Gating' = Entries(file) \intersect Gating
      /\ resolved' \intersect Gating' = resolved \intersect Gating
      /\ rejected' \intersect Gating' = rejected \intersect Gating
  BY <1>1, <1>3, <1>6
<1>10. \A q \in Gating : q < r
  BY <1>3
<1>11. Promise!Accept(r)
  BY <1>1, <1>3, <1>8, <1>9, <1>10 DEF Promise!Accept
<1>. QED  BY <1>3, <1>11 DEF Promise!Next

\* Only the effect-gating appends are promised anything.
LEMMA OthersKeep ==
  ASSUME PromiseInv, (\E s \in Shards : AppendObservational(s)) \/ BeginCrossLink \/ GroupFlush
  PROVE  UNCHANGED Promise!vars
<1>1. TypeOK /\ tail \in Seq(Ids) /\ writing \in Seq(Batch) /\ UNCHANGED <<file, torn, glued, cuts, rejected>>
  BY DEF PromiseInv, PlaceInv, IInv, TypeOK, AppendObservational, BeginCrossLink, GroupFlush, fileVars
<1>2. LinkCall \notin Gating
  BY <1>1, CreatedNumbers
<1>3. ASSUME NEW s \in Shards, AppendObservational(s)
      PROVE  Gating' = Gating /\ GatingWaiters' = GatingWaiters
             /\ resolved' \intersect Gating = resolved \intersect Gating
  <2>. DEFINE r == Len(created) + 1
  <2>1. Chain(s, FALSE) /\ UNCHANGED writing
    BY <1>3 DEF AppendObservational, fileVars
  <2>2. /\ r \in Ids /\ r \notin DOMAIN created /\ Gating \subseteq DOMAIN created
        /\ Gating' = Gating
    BY <1>1, <2>1, ChainType, ChainGating, CreatedNumbers
  <2>3. Append(tail, r) \in Seq(Ids)
    BY <1>1, <2>2
  <2>4. CASE UNCHANGED pending /\ resolved' = resolved \union {r}
    <3>1. GatingWaiters' = GatingWaiters
      BY <2>1, <2>2, <2>4 DEF GatingWaiters
    <3>. QED  BY <2>2, <2>4, <3>1
  <2>5. CASE Enqueue(Append(tail, r), r) /\ UNCHANGED resolved
    <3>1. Entries(pending'.waiters) = Entries(pending.waiters) \union {r}
      BY <1>1, <2>2, <2>3, <2>5, EnqueueType
    <3>. HIDE DEF r
    <3>2. GatingWaiters' = GatingWaiters
      BY <2>1, <2>2, <3>1 DEF GatingWaiters
    <3>. QED  BY <2>2, <2>5, <3>2
  <2>. QED  BY <1>3, <2>4, <2>5 DEF AppendObservational, fileVars
<1>4. ASSUME BeginCrossLink
      PROVE  Gating' = Gating /\ GatingWaiters' = GatingWaiters /\ resolved' = resolved
  <2>1. Gating' = Gating /\ UNCHANGED <<writing, resolved>>
    BY <1>4 DEF BeginCrossLink, Gating
  <2>2. CASE UNCHANGED pending
    BY <2>1, <2>2 DEF GatingWaiters
  <2>3. CASE Enqueue(tail, LinkCall)
    <3>1. Entries(pending'.waiters) = Entries(pending.waiters) \union {LinkCall}
      BY <1>1, <2>3, EnqueueType
    <3>. QED  BY <1>2, <2>1, <3>1 DEF GatingWaiters
  <2>. QED  BY <1>4, <2>1, <2>2, <2>3 DEF BeginCrossLink, fileVars
<1>5. ASSUME GroupFlush
      PROVE  Gating' = Gating /\ GatingWaiters' = GatingWaiters /\ resolved' = resolved
  <2>1. /\ Gating' = Gating /\ resolved' = resolved
        /\ writing' = Append(writing, pending) /\ pending' = EmptyBatch
    BY <1>5 DEF GroupFlush, Gating
  <2>2. /\ DOMAIN writing' = DOMAIN writing \union {Len(writing) + 1}
        /\ \A i \in DOMAIN writing : writing'[i] = writing[i]
        /\ writing'[Len(writing) + 1] = pending
    BY <1>1, <2>1
  <2>3. Entries(pending'.waiters) = {}
    BY <2>1, EmptyBatchType
  <2>4. GatingWaiters \subseteq GatingWaiters'
    BY <2>1, <2>2 DEF GatingWaiters
  <2>5. GatingWaiters' \subseteq GatingWaiters
    BY <2>1, <2>2, <2>3 DEF GatingWaiters
  <2>. QED  BY <2>1, <2>4, <2>5
<1>6. Gating' = Gating /\ GatingWaiters' = GatingWaiters
      /\ resolved' \intersect Gating = resolved \intersect Gating
  BY <1>3, <1>4, <1>5
<1>. QED  BY <1>1, <1>6 DEF Promise!vars

\* The effect-gating callers of the first batch are the oldest that wait, and
\* what of the batch reaches the file is theirs.
LEMMA TakeWaiters ==
  ASSUME PromiseInv, writing # <<>>
  PROVE  LET group == Callers(Head(writing)) \intersect Gating IN
         /\ group \subseteq GatingWaiters
         /\ Entries(Head(writing).records) \intersect Gating = group
         /\ \A r \in group, q \in GatingWaiters \ group : r < q
         /\ UNCHANGED <<created, pending>> /\ writing' = Tail(writing)
              => Gating' = Gating /\ GatingWaiters' = GatingWaiters \ group
<1>. DEFINE group == Callers(Head(writing)) \intersect Gating
<1>1. writing \in Seq(Batch) /\ TypeOK
  BY DEF PromiseInv, PlaceInv, IInv, TypeOK
<1>2. /\ Head(writing) = writing[1] /\ 1 \in DOMAIN writing
      /\ \A i \in DOMAIN writing : i = 1 \/ 1 < i
  BY <1>1
<1>3. LinkCall \notin Gating
  BY <1>1, CreatedNumbers
<1>4. group \subseteq GatingWaiters
  BY <1>2 DEF GatingWaiters, Callers
<1>5. Entries(Head(writing).records) \intersect Gating = group
  <2>1. CallersWait(Head(writing)) /\ WaitersCarried(Head(writing))
    BY <1>2 DEF PromiseInv, GatingWait, PlaceInv, IInv, InFlightCarried
  <2>. QED  BY <2>1 DEF CallersWait, WaitersCarried, Callers
<1>6. ASSUME NEW r \in group, NEW q \in GatingWaiters \ group PROVE r < q
  <2>1. q \in Gating /\ q # LinkCall /\ q \notin Callers(writing[1])
    BY <1>2, <1>3, <1>6 DEF GatingWaiters
  <2>2. q \in Callers(pending) \/ \E i \in DOMAIN writing : 1 < i /\ q \in Callers(writing[i])
    BY <1>2, <1>6, <2>1 DEF GatingWaiters, Callers
  <2>. QED  BY <1>2, <1>6, <2>2 DEF PromiseInv, CallOrder
<1>7. ASSUME UNCHANGED <<created, pending>>, writing' = Tail(writing)
      PROVE  Gating' = Gating /\ GatingWaiters' = GatingWaiters \ group
  <2>1. Gating' = Gating
    BY <1>7 DEF Gating
  <2>2. /\ \A i \in DOMAIN writing' : i + 1 \in DOMAIN writing /\ 1 < i + 1 /\ writing'[i] = writing[i + 1]
        /\ \A i \in DOMAIN writing : 1 < i => i - 1 \in DOMAIN writing' /\ writing'[i - 1] = writing[i]
    BY <1>1, <1>7
  <2>3. GatingWaiters' \subseteq GatingWaiters
    BY <1>7, <2>1, <2>2 DEF GatingWaiters
  <2>4. ASSUME NEW q \in GatingWaiters' PROVE q \notin group
    <3>1. SUFFICES ASSUME q \in group PROVE FALSE
      OBVIOUS
    <3>2. q \in Gating /\ q # LinkCall /\ q \in Callers(writing[1])
      BY <1>2, <1>3, <3>1
    <3>3. q \in Callers(pending) \/ \E i \in DOMAIN writing : 1 < i /\ q \in Callers(writing[i])
      BY <1>7, <2>2, <2>4, <3>2 DEF GatingWaiters, Callers
    <3>4. q < q
      BY <1>2, <3>2, <3>3 DEF PromiseInv, CallOrder
    <3>. QED  BY <1>1, <3>2, <3>4, CreatedNumbers
  <2>5. ASSUME NEW q \in GatingWaiters \ group PROVE q \in GatingWaiters'
    <3>1. q \in Gating /\ q # LinkCall /\ q \notin Callers(writing[1])
      BY <1>2, <1>3, <2>5 DEF GatingWaiters
    <3>2. q \in Entries(pending.waiters) \/ \E i \in DOMAIN writing : 1 < i /\ q \in Entries(writing[i].waiters)
      BY <1>2, <2>5, <3>1 DEF GatingWaiters, Callers
    <3>. QED  BY <1>7, <2>1, <2>2, <3>1, <3>2 DEF GatingWaiters
  <2>. QED  BY <2>1, <2>3, <2>4, <2>5
<1>. QED  BY <1>4, <1>5, <1>6, <1>7

LEMMA WriteKeeps ==
  ASSUME PromiseInv, Write
  PROVE  Promise!Next \/ UNCHANGED Promise!vars
<1>. DEFINE group == Callers(Head(writing)) \intersect Gating
<1>1. /\ writing # <<>> /\ writing' = Tail(writing) /\ UNCHANGED <<created, pending>>
      /\ file \in Seq(Ids) /\ writing \in Seq(Batch)
  BY DEF Write, WriteOk, WriteFail, PromiseInv, PlaceInv, IInv, TypeOK
<1>2. /\ group \subseteq GatingWaiters
      /\ Entries(Head(writing).records) \intersect Gating = group
      /\ Gating' = Gating
      /\ \A r \in group, q \in GatingWaiters \ group : r < q
      /\ GatingWaiters' = GatingWaiters \ group
  BY <1>1, TakeWaiters
<1>3. Head(writing).records \in Seq(Ids)
  <2>1. Head(writing) \in Batch
    BY <1>1, QueueTail
  <2>. QED  BY <2>1 DEF Batch
<1>4. Promise!Settle(group)
  BY <1>2 DEF Promise!Settle
<1>5. GlueInv /\ TypeOK /\ torn \in BOOLEAN
  BY DEF PromiseInv, PlaceInv, IInv, LossInv, TypeOK
<1>6. CASE WriteOk
  <2>. DEFINE records == Head(writing).records
              lines == Legible(records, Len(records))
              lost == group \ Entries(lines)
  <2>1. /\ Written(records, Len(records), FALSE) /\ rejected' = rejected
        /\ resolved' = resolved \union Callers(Head(writing))
    BY <1>6 DEF WriteOk, Callers
  <2>2. /\ Len(records) \in 0..Len(records) /\ FALSE \in BOOLEAN /\ records \in Seq(Ids)
        /\ Entries(records) \intersect Gating = group
    BY <1>2, <1>3
  <2>. HIDE DEF records
  <2>3. /\ Entries(lines) \subseteq Entries(records)
        /\ Entries(file') = Entries(file) \union Entries(lines)
    BY <1>5, <2>1, <2>2, WrittenFile
  <2>4. Entries(records) \subseteq
          Entries(lines) \union (IF torn /\ Len(records) > 0 THEN {records[1]} ELSE {})
    BY <1>5, <2>2, LegibleLines
  <2>. HIDE DEF lines
  <2>5. lost \in SUBSET group /\ (lost = {} \/ (torn /\ \E r \in group : lost = {r}))
    <3>1. lost \subseteq IF torn THEN {records[1]} ELSE {}
      BY <2>2, <2>4
    <3>. QED  BY <3>1
  <2>6. /\ Entries(file') \intersect Gating' = (Entries(file) \intersect Gating) \union (group \ lost)
        /\ resolved' \intersect Gating' = (resolved \intersect Gating) \union group
        /\ rejected' \intersect Gating' = rejected \intersect Gating
    BY <1>2, <2>1, <2>2, <2>3
  <2>. HIDE DEF lost
  <2>7. CASE Len(records) > 0
    <3>1. torn' = FALSE
      <4>1. Len(records) # 0 /\ Len(records) \in Nat
        BY <2>2, <2>7
      <4>. QED  BY <2>1, <4>1 DEF Written
    <3>2. /\ \/ lost = {}
             \/ torn /\ \E r \in group : lost = {r}
          /\ Entries(file') \intersect Gating' = (Entries(file) \intersect Gating) \union (group \ lost)
      BY <2>5, <2>6
    <3>3. Promise!Resolve(group)
      BY <1>2, <1>4, <2>5, <2>6, <3>1, <3>2 DEF Promise!Resolve
    <3>. QED  BY <1>2, <3>3 DEF Promise!Next
  <2>8. CASE Len(records) = 0
    <3>1. Entries(records) = {} /\ torn' = torn
      BY <1>5, <2>1, <2>2, <2>8 DEF Entries, Written
    <3>2. group = {} /\ lost = {}
      BY <2>2, <2>5, <3>1
    <3>. QED  BY <1>2, <2>6, <3>1, <3>2 DEF Promise!vars
  <2>. QED  BY <2>2, <2>7, <2>8
<1>7. ASSUME NEW part \in [whole : 0..MaxRecords, half : BOOLEAN], WriteFail(part) PROVE Promise!Next
  <2>. DEFINE records == Head(writing).records
              lines == Legible(records, part.whole)
              written == Entries(lines) \intersect Gating
  <2>1. /\ Written(records, part.whole, part.half) /\ part \in Parts(Head(writing)) /\ resolved' = resolved
        /\ rejected' = rejected \union Callers(Head(writing))
    BY <1>7 DEF WriteFail, Callers
  <2>2. /\ part.whole \in 0..Len(records) /\ part.half \in BOOLEAN /\ records \in Seq(Ids)
        /\ Entries(records) \intersect Gating = group
    BY <1>2, <1>3, <2>1, PartIsOf
  <2>. HIDE DEF records
  <2>3. /\ Entries(lines) \subseteq Entries(records) /\ torn' \in BOOLEAN
        /\ Entries(file') = Entries(file) \union Entries(lines)
    BY <1>5, <2>1, <2>2, WrittenFile
  <2>. HIDE DEF lines
  <2>4. /\ Entries(file') \intersect Gating' = (Entries(file) \intersect Gating) \union written
        /\ resolved' \intersect Gating' = resolved \intersect Gating
        /\ rejected' \intersect Gating' = (rejected \intersect Gating) \union group
    BY <1>2, <2>1, <2>3
  <2>5. written \in SUBSET group
    BY <2>2, <2>3
  <2>6. Promise!Reject(group)
    BY <1>2, <1>4, <2>3, <2>4, <2>5 DEF Promise!Reject
  <2>. QED  BY <1>2, <2>6 DEF Promise!Next
<1>. QED  BY <1>6, <1>7 DEF Write

LEMMA CrashKeeps ==
  ASSUME PromiseInv, CrashRestart
  PROVE  Promise!Next
<1>1. /\ file \in Seq(Ids) /\ writing \in Seq(Batch) /\ pending' = EmptyBatch /\ writing' = <<>>
      /\ UNCHANGED <<created, resolved, rejected>>
  BY DEF CrashRestart, PromiseInv, PlaceInv, IInv, TypeOK
<1>2. Gating' = Gating /\ GatingWaiters' = {}
  <2>1. Entries(pending'.waiters) = {} /\ DOMAIN writing' = {}
    BY <1>1, EmptyBatchType
  <2>. QED  BY <1>1, <2>1 DEF Gating, GatingWaiters
<1>3. \E written \in SUBSET GatingWaiters :
        Entries(file') \intersect Gating = (Entries(file) \intersect Gating) \union written
  <2>1. CASE UNCHANGED fileVars
    <3>1. Entries(file') = Entries(file) /\ {} \in SUBSET GatingWaiters
      BY <2>1 DEF fileVars
    <3>2. Entries(file') \intersect Gating = (Entries(file) \intersect Gating) \union {}
      BY <3>1
    <3>. QED  BY <3>1, <3>2
  <2>2. CASE ~UNCHANGED fileVars
    <3>. DEFINE records == Head(writing).records
    <3>1. writing # <<>> /\ \E part \in Parts(Head(writing)) : Written(records, part.whole, part.half)
      BY <2>2 DEF CrashRestart
    <3>2. PICK part \in Parts(Head(writing)) : Written(records, part.whole, part.half)
      BY <3>1
    <3>. DEFINE lines == Legible(records, part.whole)
    <3>3. Head(writing) \in Batch
      BY <1>1, <3>1, QueueTail
    <3>4. records \in Seq(Ids) /\ part.whole \in 0..Len(records) /\ part.half \in BOOLEAN
      BY <3>2, <3>3, PartIsOf DEF Batch
    <3>5. Entries(records) \intersect Gating \subseteq GatingWaiters
      BY <3>1, TakeWaiters
    <3>. HIDE DEF records
    <3>6. TypeOK /\ GlueInv
      BY DEF PromiseInv, PlaceInv, IInv, LossInv
    <3>7. /\ Entries(lines) \subseteq Entries(records)
          /\ Entries(file') = Entries(file) \union Entries(lines)
      BY <3>2, <3>4, <3>6, WrittenFile
    <3>. HIDE DEF lines
    <3>8. Entries(lines) \intersect Gating \in SUBSET GatingWaiters
      BY <3>5, <3>7
    <3>. QED  BY <3>7, <3>8
  <2>. QED  BY <2>1, <2>2
<1>4. torn' \in BOOLEAN
  <2>1. IInv'
    BY CrashRestartIInv DEF PromiseInv, PlaceInv
  <2>. QED  BY <2>1 DEF IInv, TypeOK
<1>5. Promise!Crash
  BY <1>1, <1>2, <1>3, <1>4 DEF Promise!Crash
<1>. QED  BY <1>5 DEF Promise!Next

LEMMA InitKeeps == Init => Promise!Init
<1>. SUFFICES ASSUME Init PROVE Promise!Init
  OBVIOUS
<1>1. Gating = {} /\ Entries(file) = {} /\ torn = FALSE
  BY EntriesEmpty DEF Init, Gating
<1>. QED  BY <1>1 DEF Promise!Init, GatingWaiters

LEMMA NextKeeps == PromiseInv /\ [Next]_vars => [Promise!Next]_(Promise!vars)
<1>. SUFFICES ASSUME PromiseInv, [Next]_vars PROVE Promise!Next \/ UNCHANGED Promise!vars
  OBVIOUS
<1>1. CASE UNCHANGED vars
  BY <1>1 DEF vars, fileVars, Promise!vars, Gating, GatingWaiters
<1>. QED
  BY <1>1, ConstantsAssumption, AppendKeeps, OthersKeep, WriteKeeps, CrashKeeps DEF Next

-----------------------------------------------------------------------------
(* Theorems *)

\* Every state of the audit log is well typed.
THEOREM TypeCorrect == Spec => []TypeOK
<1>1. IInv => TypeOK
  BY DEF IInv
<1>2. QED  BY InitIInv, NextIInv, <1>1, PTL DEF Spec

\* Of the effect-gating records whose append returned at most one is missing from
\* the audit file for each half line that a failed or killed write left, and
\* none where no write was cut: for any number of shards, records, buffered
\* observations, failures and crashes.
THEOREM EffectGatingDurability == Spec => []ResolvedIsDurable
<1>1. IInv => ResolvedIsDurable
  <2>. SUFFICES ASSUME IInv PROVE ResolvedIsDurable
    OBVIOUS
  <2>1. Lost \subseteq glued /\ GlueInv /\ glued \subseteq Ids /\ cuts \in Nat /\ torn \in BOOLEAN
    BY DEF IInv, LossInv, TypeOK
  <2>2. IsFiniteSet(glued)
    <3>1. IsFiniteSet(Ids)
      BY ConstantsAssumption, FS_Interval DEF Ids
    <3>. QED  BY <2>1, <3>1, FS_Subset
  <2>3. /\ IsFiniteSet(Lost) /\ Cardinality(Lost) <= Cardinality(glued)
        /\ Cardinality(Lost) \in Nat /\ Cardinality(glued) \in Nat
    BY <2>1, <2>2, FS_Subset, FS_CardinalityType
  <2>. DEFINE n == Cardinality(Lost)
              m == Cardinality(glued)
  <2>4. n \in Nat /\ m \in Nat /\ n <= m /\ m + (IF torn THEN 1 ELSE 0) <= cuts
    BY <2>1, <2>3 DEF GlueInv
  <2>. HIDE DEF n, m
  <2>5. n + (IF torn THEN 1 ELSE 0) <= cuts
    BY <2>1, <2>4
  <2>. QED  BY <2>5 DEF n, ResolvedIsDurable
<1>2. QED  BY InitIInv, NextIInv, <1>1, PTL DEF Spec

\* No record is in two places or twice in one, so none is written twice; and none
\* of the running process disappears unreported.
THEOREM RecordsAreOnce == Spec => []EachRecordOnce
BY InitPlaces, NextPlaces, PlacesOnce, PTL DEF Spec

\* The log implements RecordAppender, the promise its callers are written
\* against: durability before resolution, but for the one record that is
\* appended to half of another, and settlement in call order, whatever fails or
\* crashes.
THEOREM LogKeepsPromise == Spec => KeepsPromise
BY InitPromise, NextPromise, InitKeeps, NextKeeps, PTL DEF Spec, KeepsPromise, Promise!Spec
=============================================================================
