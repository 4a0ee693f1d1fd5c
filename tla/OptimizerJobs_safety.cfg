SPECIFICATION JobsSpec
CONSTANTS
  Runs = {r1, r2}
  MaxSpawned = 3
  Calls = {a, b}
  MaxJobs = 2
INVARIANTS WorkersKept RunsAttended CancelHolds
PROPERTY CallsAnswered
