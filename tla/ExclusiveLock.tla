---------------------------- MODULE ExclusiveLock ----------------------------
(***************************************************************************)
(* What a distributed lock promises (zrun_core.lock.protocols): at most    *)
(* one of its users is in the critical section, and only a user that is in *)
(* the critical section makes room for another one.                        *)
(***************************************************************************)
CONSTANTS
  Locks,   \* the users, each with a lock object of its own
  Nobody   \* none of them

VARIABLE owner

TypeOK == owner \in Locks \cup {Nobody}

Init == owner = Nobody

Take(l) == owner = Nobody /\ owner' = l

Give(l) == owner = l /\ owner' = Nobody

Next == \E l \in Locks : Take(l) \/ Give(l)

Spec == Init /\ [][Next]_owner
=============================================================================
