---------------------------- MODULE MCFacilities ----------------------------
(* One webhook and one route consumer, a minted and a sender-defined       *)
(* profile, two host names, one more route name and two tool calls.        *)
EXTENDS Facilities, RuntimeFacts, TLC

CONSTANTS hook, map, slack, hmac, lan, wan, manual, c1, c2

MCHooks == {hook}
MCPublishers == {map}
MCProfiles == {slack, hmac}
MCMinted == {hmac}
MCHosts == {lan, wan}
MCManual == {manual}
MCCalls == {c1, c2}
MCRequests == {<<manual, lan>>}
MCSymmetry == Permutations(MCCalls)
=============================================================================
