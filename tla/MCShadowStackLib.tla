-------------------------- MODULE MCShadowStackLib --------------------------
(* ShadowStackLib with a few threads that are model values.                *)
EXTENDS ShadowStackLib, TLC

CONSTANTS t1, t2, t3

\* Only main is told apart from the other threads.
Symmetry == Permutations(Thread \ {Main})
=============================================================================
