----------------------------- MODULE KeySetCache -----------------------------
(***************************************************************************)
(* What a JWKSProvider is to those who verify tokens with it: a place for  *)
(* one key set.  A key set is asked for only when there is none, one at a  *)
(* time; it is what the source publishes when it answers, arrives within   *)
(* Travel ticks or not at all, and is kept for TTL ticks at most.          *)
(*                                                                         *)
(* Time shows in recent, so a tick is a step as long as the source has     *)
(* changed within the last TTL + Travel of them; afterwards a key set is   *)
(* what the source publishes, however long it is kept.                     *)
(***************************************************************************)
EXTENDS Naturals

CONSTANTS
  KeySets,
  TTL,
  Travel

VARIABLES
  source,   \* the key set that is published
  recent,   \* the n such that it has changed less than n ticks ago
  cached,   \* the entry that is kept, if any
  coming    \* the entry on its way, if any

cacheVars == <<source, recent, cached, coming>>

Spans == 1..(TTL + Travel)

Entry(keys, left) == [keys |-> keys, left |-> left]

Init == source \in KeySets /\ recent = {} /\ cached = {} /\ coming = {}

Publish == source' \in KeySets /\ recent' = Spans /\ UNCHANGED <<cached, coming>>

Answer ==
  /\ cached = {} /\ coming = {}
  /\ coming' = {Entry(source, Travel)}
  /\ UNCHANGED <<source, recent, cached>>

Store ==
  /\ \E e \in coming : cached' = {Entry(e.keys, TTL)}
  /\ coming' = {}
  /\ UNCHANGED <<source, recent>>

Lose == coming' = {} /\ UNCHANGED <<source, recent, cached>>

Forget == cached' = {} /\ UNCHANGED <<source, recent, coming>>

Tick ==
  /\ \A e \in coming : e.left > 0
  /\ recent' = {n \in Spans : n - 1 \in recent}
  /\ cached' = {Entry(e.keys, e.left - 1) : e \in {d \in cached : d.left > 1}}
  /\ coming' = {Entry(e.keys, e.left - 1) : e \in coming}
  /\ UNCHANGED source

Next == Publish \/ Answer \/ Store \/ Lose \/ Forget \/ Tick

Spec == Init /\ [][Next]_cacheVars
=============================================================================
