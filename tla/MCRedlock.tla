----------------------------- MODULE MCRedlock -----------------------------
(***************************************************************************)
(* Instances of Redlock for TLC.                                           *)
(***************************************************************************)
EXTENDS Redlock

CONSTANTS a, b

TwoUsers == {a, b}

\* What acquire copes with by itself, and everything that can go wrong.
Swallowed == {"set"}
Everything == {"set", "eval", "cancel", "restart"}
=============================================================================
