CONSTANTS
  Shards = {s1, links}
  LinkShard = links
  TailLimit = 2
  MaxRecords = 4
  MaxBoots = 2
SPECIFICATION Spec
INVARIANTS ResolvedIsDurable EachRecordOnce
PROPERTIES KeepsPromise GatingSettles
CHECK_DEADLOCK FALSE
