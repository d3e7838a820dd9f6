--------------------------- MODULE MCBreakpoints ---------------------------
(***************************************************************************)
(* Breakpoints on two guest threads, which nothing tells apart: a          *)
(* permutation of the threads maps behaviours to behaviours.               *)
(***************************************************************************)
EXTENDS Breakpoints, TLC

Symmetry == Permutations(Thread)
=============================================================================
