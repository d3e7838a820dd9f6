---------------------------- MODULE MCThreadsLib ----------------------------
(* ThreadsLib for TLC: the threads other than Main are interchangeable.    *)
EXTENDS ThreadsLib, TLC

Symmetry == Permutations(Thread \ {Main})
=============================================================================
