-------------------------- MODULE MCSingleNodeLock --------------------------
(***************************************************************************)
(* Instances of SingleNodeLock for TLC.                                    *)
(***************************************************************************)
EXTENDS SingleNodeLock

CONSTANTS a, b

TwoUsers == {a, b}

\* Every command of a lock object may fail.
AnyCommand == {"set", "expire", "eval"}
=============================================================================
