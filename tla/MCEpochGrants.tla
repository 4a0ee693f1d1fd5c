--------------------------- MODULE MCEpochGrants ---------------------------
(***************************************************************************)
(* Values of the constants of EpochGrants for TLC.                         *)
(***************************************************************************)
EXTENDS EpochGrants, GrantResolution

CONSTANTS g1, g2, c1, c2

\* Two grants of one organisation, each with a session of its own: three
\* scopes for an epoch table with one free slot.
TheHandles == {g1, g2}
TheScopes == {"org", "session 1", "session 2"}
TheSession == [h \in TheHandles |-> IF h = g1 THEN "session 1" ELSE "session 2"]
TheCoordinates == [h \in TheHandles |-> {"org", TheSession[h]}]

\* "wide" and "narrow" differ in what they grant but share a digest, so that
\* only a counter tells them apart.
ThePolicies == {"wide", "narrow"}
TheDigest == [p \in ThePolicies |-> 1]
TheGranted == [p \in ThePolicies |->
                 IF p = "wide" THEN {"read", "write"} ELSE {"read"}]

\* Two calls of the first grant, one of them streamed, both for the capability
\* that the wide policy defers and the narrow one withholds.
DeferWrite == [p \in ThePolicies |-> IF p = "wide" THEN {"write"} ELSE {}]
TwoCalls == {c1, c2}
TheOneHandle == [c \in TwoCalls |-> g1]
WriteEach == [c \in TwoCalls |-> "write"]

=============================================================================
