------------------------------ MODULE MCTokens ------------------------------
(***************************************************************************)
(* Tokens for TLC: one user with two pairs, two keys, and a service whose  *)
(* clock is a tick behind.                                                 *)
(***************************************************************************)
EXTENDS Tokens, TLC

CONSTANTS k1, k2, s1, s2

MCKeys == {k1, k2}
MCSlots == {s1, s2}

\* Nothing tells the keys apart, nor the slots.
Symmetric == Permutations(MCKeys) \cup Permutations(MCSlots)
=============================================================================
