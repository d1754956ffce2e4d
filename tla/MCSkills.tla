------------------------------ MODULE MCSkills -------------------------------
(***************************************************************************)
(* Skills for model checking: the learned skills are interchangeable.      *)
(***************************************************************************)
EXTENDS Skills, TLC

LearnedSymmetry == Permutations(Learned)
=============================================================================
