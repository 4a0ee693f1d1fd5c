----------------------------- MODULE MCAuditLog -----------------------------
(***************************************************************************)
(* The audit log for TLC, and the statement of the documentation that it   *)
(* does not keep.                                                          *)
(***************************************************************************)
EXTENDS AuditLog

\* The lines of shard s, in file order: what a replay hands to AuditLog.verify.
Replay(s) == SelectSeq(file, LAMBDA r : created[r].shard = s)

\* file-adapter.ts says of the file that any edit, reorder or truncation
\* breaks verification when it is replayed through AuditLog.verify, so a file
\* nobody touched must verify: each line's previousDigest is the digest of
\* the line before it in its shard.
UntouchedFileVerifies ==
  \A s \in Shards : \A i \in DOMAIN Replay(s) :
    created[Replay(s)[i]].prev = IF i = 1 THEN 0 ELSE Replay(s)[i - 1]
=============================================================================
