------------------------------ MODULE MCLearning -------------------------------
(***************************************************************************)
(* Two runs of two suggestions, two learn commands.  Narratives share      *)
(* their first word, share both words, or have a word twice.               *)
(***************************************************************************)
EXTENDS Learning, TLC

CONSTANTS w1, w2

Said == {<<w1, w1>>, <<w1, w2>>}

Interchangeable == Permutations(Runs) \cup Permutations(Learners)
===============================================================================
