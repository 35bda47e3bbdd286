----------------------------- MODULE MCQidPool ------------------------------
(* QidPool with a small pool and interchangeable query records.            *)
EXTENDS QidPool, TLC

Symmetry == Permutations(Holders)
=============================================================================
