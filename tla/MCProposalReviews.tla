-------------------------- MODULE MCProposalReviews --------------------------
(* A code proposal of a high risk, decided by its author and two reviewers, *)
(* of whom one may promote, as may somebody else; two decisions at once.    *)
EXTENDS ProposalReviews, TLC

CONSTANTS code, ann, bob, eve, dan, stub, c1, c2

MCAuthorOf == [p \in Proposals |-> ann]
\* What is left of a name is nobody's, or another principal's.
MCBegins == [n \in Names |-> CASE n = eve -> {stub, bob} [] n = bob -> {stub, ann} [] OTHER -> {stub}]
MCRiskClass == [p \in Proposals |-> "C3"]

\* The decisions are interchangeable.
Symmetry == Permutations(Calls)
==============================================================================
