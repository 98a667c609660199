---------------------------- MODULE MCRuleReview ----------------------------
(* Suggestions, reviews, runs and domains are interchangeable. *)
EXTENDS RuleReview, TLC

ReviewSymmetry ==
  Permutations(Suggestions) \cup Permutations(Reviews) \cup Permutations(Runs)
    \cup Permutations(Domains)

=============================================================================
