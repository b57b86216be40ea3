------------------------- MODULE MCWorkContextCache -------------------------
(* A small request: a few calls, one or two asks, a short clock.           *)
EXTENDS WorkContextCache, TLC

\* Calls and keys are interchangeable: only for runs of safety properties.
Symmetry == Permutations(Calls) \cup Permutations(Keys)
=============================================================================
