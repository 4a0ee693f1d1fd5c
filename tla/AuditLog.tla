------------------------------ MODULE AuditLog ------------------------------
(***************************************************************************)
(* AuditLog, its GroupCommitter and the FileCommitAdapter (src/audit).     *)
(*                                                                         *)
(* append() chains a record to the head of its shard in memory.  An        *)
(* effect-gating record joins the batch the next microtask commits, and    *)
(* the caller waits; an observational one is buffered until the buffer     *)
(* holds TailLimit records or a cross-link flushes it.  Batches are        *)
(* written to the file one at a time, in order.  A write may fail, leaving *)
(* some of its lines and half of the next one, to which the next write is  *)
(* glued; a crash loses everything but the file, and the process restarts  *)
(* with empty shards and appends where the file ends.                      *)
(*                                                                         *)
(* A record is named by its position in `created`; digests are collision   *)
(* free, so a record's digest is its name and previousDigest is `prev`.    *)
(***************************************************************************)
EXTENDS Naturals, Sequences, FiniteSets

CONSTANTS
  Shards,        \* shard keys: scope level, scope id and record class
  LinkShard,     \* the shard of audit.crosslink records
  TailLimit,     \* observationalTail
  MaxRecords,    \* bound: records created over all boots
  MaxBoots       \* bound: process starts

ASSUME ConstantsAssumption ==
  /\ LinkShard \in Shards
  /\ TailLimit \in Nat \ {0}
  /\ MaxRecords \in Nat
  /\ MaxBoots \in Nat

VARIABLES
  created,    \* every record made: its shard, durability, predecessor, boot
  head,       \* head[s]: the last record of shard s, 0 when it is empty
  tail,       \* the buffered observational records
  pending,    \* the batch the scheduled microtask will hand to the adapter
  writing,    \* the adapter's chain of batches; the first is being appended
  file,       \* the audit file's lines that can be read, a record each
  torn,       \* the file ends in a line without its end
  glued,      \* history: records written behind half a line, and unreadable
  cuts,       \* history: how many half lines were left
  resolved,   \* records whose append promise resolved
  rejected,   \* records whose append promise rejected
  dropped,    \* records of the batches whose write failed
  link,       \* where crossLink() is: "idle", "flushing" or "building"
  boot        \* the current process, counted from 1

fileVars == <<file, torn, glued, cuts>>
vars == <<created, head, tail, pending, writing, fileVars, resolved, rejected,
          dropped, link, boot>>

Ids == 1..MaxRecords
LinkCall == 0      \* the waiter of a flush that crossLink() asked for
Entries(s) == {s[i] : i \in DOMAIN s}
Batch == [records : Seq(Ids), waiters : Seq(Ids \union {LinkCall})]
EmptyBatch == [records |-> <<>>, waiters |-> <<>>]
Gating == {r \in DOMAIN created : created[r].gating}

TypeOK ==
  /\ created \in Seq([shard : Shards, gating : BOOLEAN,
                      prev : Ids \union {0}, boot : Nat])
  /\ Len(created) <= MaxRecords
  /\ head \in [Shards -> Ids \union {0}]
  /\ tail \in Seq(Ids)
  /\ pending \in Batch
  /\ writing \in Seq(Batch)
  /\ file \in Seq(Ids)
  /\ torn \in BOOLEAN
  /\ glued \subseteq Ids
  /\ cuts \in Nat
  /\ resolved \subseteq Ids
  /\ rejected \subseteq Ids
  /\ dropped \subseteq Ids
  /\ link \in {"idle", "flushing", "building"}
  /\ boot \in Nat

Init ==
  /\ created = <<>>
  /\ head = [s \in Shards |-> 0]
  /\ tail = <<>>
  /\ pending = EmptyBatch
  /\ writing = <<>>
  /\ file = <<>> /\ torn = FALSE /\ glued = {} /\ cuts = 0
  /\ resolved = {}
  /\ rejected = {}
  /\ dropped = {}
  /\ link = "idle"
  /\ boot = 1

-----------------------------------------------------------------------------
(* append() and crossLink() *)

\* createAuditRecord and the push onto the shard, before anything is durable.
Chain(s, gating) ==
  /\ Len(created) < MaxRecords
  /\ created' = Append(created, [shard |-> s, gating |-> gating,
                                 prev |-> head[s], boot |-> boot])
  /\ head' = [head EXCEPT ![s] = Len(created) + 1]

\* GroupCommitter.enqueue: the request joins the batch of the next microtask.
Enqueue(records, waiter) ==
  pending' = [records |-> pending.records \o records,
              waiters |-> Append(pending.waiters, waiter)]

AppendEffectGating(s) ==
  /\ Chain(s, TRUE)
  /\ Enqueue(<<Len(created) + 1>>, Len(created) + 1)
  /\ UNCHANGED <<tail, writing, fileVars, resolved, rejected, dropped, link, boot>>

\* An observational append returns at once unless it fills the buffer: then
\* it flushes the buffer and waits for the write.
AppendObservational(s) ==
  LET r == Len(created) + 1 IN
  /\ Chain(s, FALSE)
  /\ \/ /\ Len(tail) + 1 < TailLimit
        /\ tail' = Append(tail, r)
        /\ resolved' = resolved \union {r}
        /\ UNCHANGED pending
     \/ /\ Len(tail) + 1 >= TailLimit
        /\ Enqueue(Append(tail, r), r)
        /\ tail' = <<>>
        /\ UNCHANGED resolved
  /\ UNCHANGED <<writing, fileVars, rejected, dropped, link, boot>>

\* crossLink(): flush the buffer and wait for it.
BeginCrossLink ==
  /\ link = "idle"
  /\ IF tail = <<>>
       THEN link' = "building" /\ UNCHANGED <<tail, pending>>
       ELSE link' = "flushing" /\ Enqueue(tail, LinkCall) /\ tail' = <<>>
  /\ UNCHANGED <<created, head, writing, fileVars, resolved, rejected, dropped,
                 boot>>

\* ... then build the link over the shard heads of that moment and append its
\* effect-gating record.
BuildCrossLink ==
  /\ link = "building"
  /\ Chain(LinkShard, TRUE)
  /\ Enqueue(<<Len(created) + 1>>, Len(created) + 1)
  /\ link' = "idle"
  /\ UNCHANGED <<tail, writing, fileVars, resolved, rejected, dropped, boot>>

-----------------------------------------------------------------------------
(* The group committer and the file *)

\* Mutant: the callers are released before the adapter has committed.
GroupFlushEager ==
  /\ pending.waiters # <<>>
  /\ writing' = Append(writing, pending)
  /\ pending' = EmptyBatch
  /\ resolved' = resolved \union (Entries(pending.waiters) \ {LinkCall})
  /\ UNCHANGED <<created, head, tail, fileVars, rejected, dropped, link, boot>>

\* The microtask: everything enqueued since the last one is one batch, and the
\* next enqueue starts another without waiting for this one's write.
GroupFlush ==
  /\ pending.waiters # <<>>
  /\ writing' = Append(writing, pending)
  /\ pending' = EmptyBatch
  /\ UNCHANGED <<created, head, tail, fileVars, resolved, rejected, dropped, link,
                 boot>>

\* What the settling of a batch's promises does to a crossLink() waiting on it.
LinkAfter(batch, outcome) ==
  IF LinkCall \in Entries(batch.waiters) THEN outcome ELSE link

\* The first n of the records are written, and half of the next one or not.
\* What begins behind half a line shares it and cannot be read.
Written(records, n, half) ==
  /\ file' = file \o SubSeq(records, IF torn THEN 2 ELSE 1, n)
  /\ glued' = glued \union (IF torn /\ n > 0 THEN {records[1]} ELSE {})
  /\ torn' = (half \/ (torn /\ n = 0))
  /\ cuts' = IF half /\ (n > 0 \/ ~torn) THEN cuts + 1 ELSE cuts

\* Mutant: the buffer is emptied when the write ends, not when it starts.
WriteOkClearsTail ==
  /\ writing # <<>>
  /\ LET batch == Head(writing) IN
     /\ Written(batch.records, Len(batch.records), FALSE)
     /\ resolved' = resolved \union (Entries(batch.waiters) \ {LinkCall})
     /\ link' = LinkAfter(batch, "building")
  /\ writing' = Tail(writing)
  /\ tail' = <<>>
  /\ UNCHANGED <<created, head, pending, rejected, dropped, boot>>

\* Mutant: writes are not chained, so the one that ends first settles first.
WriteOkUnchained ==
  \E i \in DOMAIN writing :
    LET batch == writing[i] IN
    /\ Written(batch.records, Len(batch.records), FALSE)
    /\ resolved' = resolved \union (Entries(batch.waiters) \ {LinkCall})
    /\ link' = LinkAfter(batch, "building")
    /\ writing' = SubSeq(writing, 1, i - 1) \o SubSeq(writing, i + 1, Len(writing))
    /\ UNCHANGED <<created, head, tail, pending, rejected, dropped, boot>>

WriteOk ==
  /\ writing # <<>>
  /\ LET batch == Head(writing) IN
     /\ Written(batch.records, Len(batch.records), FALSE)
     /\ resolved' = resolved \union (Entries(batch.waiters) \ {LinkCall})
     /\ link' = LinkAfter(batch, "building")
  /\ writing' = Tail(writing)
  /\ UNCHANGED <<created, head, tail, pending, rejected, dropped, boot>>

\* What of a batch an append that fails or is killed may have written.
Parts(batch) ==
  {part \in [whole : 0..MaxRecords, half : BOOLEAN] :
     IF part.half THEN part.whole < Len(batch.records) ELSE part.whole <= Len(batch.records)}

\* Mutant: the callers of a failed batch are never told.
WriteFailSilent(part) ==
  /\ writing # <<>>
  /\ part \in Parts(Head(writing))
  /\ LET batch == Head(writing) IN
     /\ Written(batch.records, part.whole, part.half)
     /\ dropped' = dropped \union Entries(batch.records)
     /\ link' = LinkAfter(batch, "idle")
  /\ writing' = Tail(writing)
  /\ UNCHANGED <<created, head, tail, pending, resolved, rejected, boot>>

\* A failed appendFile may have written some of the lines, and half of one.
\* Every caller of the batch is told; the chain goes on with the next batch.
WriteFail(part) ==
  /\ writing # <<>>
  /\ part \in Parts(Head(writing))
  /\ LET batch == Head(writing) IN
     /\ Written(batch.records, part.whole, part.half)
     /\ rejected' = rejected \union (Entries(batch.waiters) \ {LinkCall})
     /\ dropped' = dropped \union Entries(batch.records)
     /\ link' = LinkAfter(batch, "idle")
  /\ writing' = Tail(writing)
  /\ UNCHANGED <<created, head, tail, pending, resolved, boot>>

\* A crash in the middle of a write leaves a part of it as well.
CrashRestart ==
  /\ boot < MaxBoots
  /\ \/ UNCHANGED fileVars
     \/ /\ writing # <<>>
        /\ \E part \in Parts(Head(writing)) :
             Written(Head(writing).records, part.whole, part.half)
  /\ head' = [s \in Shards |-> 0]
  /\ tail' = <<>>
  /\ pending' = EmptyBatch
  /\ writing' = <<>>
  /\ link' = "idle"
  /\ boot' = boot + 1
  /\ UNCHANGED <<created, resolved, rejected, dropped>>

Write ==
  \/ WriteOk
  \/ \E part \in [whole : 0..MaxRecords, half : BOOLEAN] : WriteFail(part)

Next ==
  \/ \E s \in Shards \ {LinkShard} :
        AppendEffectGating(s) \/ AppendObservational(s)
  \/ BeginCrossLink
  \/ BuildCrossLink
  \/ GroupFlush
  \/ Write
  \/ CrashRestart

\* A queued microtask runs, and a write the file system was asked for ends.
Fairness == WF_vars(GroupFlush) /\ WF_vars(Write)

Spec == Init /\ [][Next]_vars /\ Fairness

-----------------------------------------------------------------------------
(* Properties *)

\* The effect-gating records whose append returned and that cannot be read.
Lost == (resolved \intersect Gating) \ Entries(file)

\* An effect-gating append that returned is in the file, whatever fails or
\* crashes later, but for those glued to half a line: of these there is at most
\* one for each write that was cut within a line, and none for a cut that
\* nothing was appended to yet.  So where no write was cut, the effect never
\* runs ahead of its record (append, executeAfterDurable,
\* CapabilityBroker.execute).
ResolvedIsDurable == Cardinality(Lost) + (IF torn THEN 1 ELSE 0) <= cuts

\* "One JSON object per line so the trail survives process restarts"
\* (file-adapter.ts).  No run checks it: a cut write leaves half a line, and the
\* next record that is appended, in this process or the next one, shares it.
ResolvedIsOnFile == Lost = {}

\* A record is in one place only: the buffer, the assembled batch, a batch
\* being written or one line of the file, so none is written twice; and no
\* record of the running process disappears unreported: it is in one of the
\* places, part of a batch whose callers were told of the failure, or glued to
\* half a line (append, #flush; flushObservational empties the buffer before it
\* writes).
Places == <<file, pending.records, tail>>
            \o [i \in DOMAIN writing |-> writing[i].records]
EachRecordOnce ==
  /\ \A p, q \in DOMAIN Places :
       \A i \in DOMAIN Places[p], j \in DOMAIN Places[q] :
         Places[p][i] = Places[q][j] => p = q /\ i = j
  /\ \A r \in DOMAIN created :
       created[r].boot = boot =>
         \/ r \in dropped \union glued
         \/ \E p \in DOMAIN Places : r \in Entries(Places[p])

\* Every effect-gating append settles, unless the process dies first: no
\* failed write blocks the ones behind it (file-adapter.ts, #chain).
Settled(r) ==
  \/ r \in resolved \union rejected
  \/ r \in DOMAIN created /\ created[r].boot # boot
GatingSettles == \A r \in Ids : r \in Gating ~> Settled(r)

-----------------------------------------------------------------------------
(* What the callers of effect-gating appends see *)

\* The unsettled effect-gating appends.
GatingWaiters ==
  {r \in Gating : \/ r \in Entries(pending.waiters)
                  \/ \E i \in DOMAIN writing : r \in Entries(writing[i].waiters)}

Promise == INSTANCE RecordAppender WITH
  Records <- Ids,
  accepted <- Gating,
  waiting <- GatingWaiters,
  durable <- Entries(file) \intersect Gating,
  cut <- torn,
  promised <- resolved \intersect Gating,
  rejected <- rejected \intersect Gating

\* The log keeps the promise its callers rely on: durability before
\* resolution, but for what is appended to half a record, settlement in call
\* order, nothing else (AuditLog.append as seen through RecordAppender).
KeepsPromise == Promise!Spec

=============================================================================
