------------------------------- MODULE MCTurns -------------------------------
(* Turns on a small instance: a conversation the runtime keeps, with two      *)
(* messages, and a thread of the same channel whose history the gateway       *)
(* keeps, with one.                                                           *)
EXTENDS Turns, TLC

CONSTANTS root1, root2, thread1, search, freeze

MCConversation == [d \in Messages |-> IF d = thread1 THEN "thread" ELSE "root"]
MCChannel == [d \in Messages |-> "channel"]
MCOperation == [o \in Controls |-> [kind |-> "freeze"]]

\* The two messages of the kept conversation differ in nothing but their ids.
Roots == Permutations({root1, root2})

\* Bound: one release or rollback at a time has a Snapshot id to publish.
OnePending == Cardinality(unpublished) <= 1
==============================================================================
