----------------------------- MODULE MCGateway -----------------------------
(***************************************************************************)
(* Gateway for TLC: two requests for zrun-base, as many channel objects    *)
(* as can be alive, and a server that is started twice.                    *)
(***************************************************************************)
EXTENDS Gateway

CONSTANTS r1, r2, base, c1, c2

MCCalls == {r1, r2}
MCTargets == {base}
MCChannels == {c1, c2}
=============================================================================
