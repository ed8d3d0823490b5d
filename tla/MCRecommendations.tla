------------------------ MODULE MCRecommendations ------------------------
(* Recommendations on small instances.                                     *)
EXTENDS Recommendations, TLC
CONSTANTS ann, bob
MCSymmetry == Permutations(Workers)
=============================================================================
