------------------------------- MODULE MCAuth -------------------------------
(***************************************************************************)
(* Instances of Auth for TLC.                                              *)
(***************************************************************************)
EXTENDS Auth, TLC

CONSTANTS h1, h2, t1, t2, n1, n2

\* Handlers, tokens and nonces are interchangeable.
Symmetry == Permutations(Handlers) \cup Permutations(Tokens) \cup Permutations(Nonces)
=============================================================================
