------------------------- MODULE MCCandidateEvidence -------------------------
(* Two runs of one target, two texts an engine may send, two commands.      *)
EXTENDS CandidateEvidence, EvolutionFacts

CONSTANTS r1, r2, b1, b2, k1, k2, f0, f1

MCRunOrder == <<r1, r2>>

\* Sound bytes, a flaw the rendering repairs, one that a static check finds,
\* and one that only the trusted checker finds.
MCFlaws == {{}, {"skill-frontmatter", "skill-injection-static"},
            {"code-full-check"}}

\* Four groups, the first two of them with the same input.
MCSources == {<<1, 1, 2, 3>>}
\* A complete split, one whose holdout repeats an input of the train split,
\* and one without a holdout.
MCSeeds == {<<"train", "train", "validation", "holdout">>,
            <<"train", "holdout", "validation", "validation">>,
            <<"train", "train", "validation", "validation">>}

MCWeak == {{}, {"holdout-benchmark"}}

Symmetry == Permutations(Compares) \union Permutations(Files) \union Permutations(Bytes)
==============================================================================
