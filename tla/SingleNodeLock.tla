--------------------------- MODULE SingleNodeLock ---------------------------
(***************************************************************************)
(* zrun_core.lock.single: users that compete for one Redis key with a time *)
(* to live, each with a SingleNodeLock object it uses again and again the  *)
(* way `async with' and redis_lock do: acquire, the body, release.  The    *)
(* body runs whether or not acquire succeeded.                             *)
(*                                                                         *)
(* A token is fresh in every acquire, so the key holds the current token   *)
(* of one user, or a Stale one that no user has any more.  Time passes in  *)
(* ticks; a step of a coroutine that is ready, and a command on its way to *)
(* Redis, takes at most Delay ticks.                                       *)
(***************************************************************************)
EXTENDS Naturals

CONSTANTS
  Locks,        \* the users, each with its own SingleNodeLock
  Nobody, Stale,
  TTL,          \* ttl
  RenewAfter,   \* ttl * renewal_interval
  AutoRenewal,  \* auto_renewal
  Delay,        \* bound on the lateness of a step or a command
  Fallible,     \* commands Redis may fail: "set", "expire", "eval"
  MaxFaults     \* bound on failed commands and crashes

ASSUME LockAssumption ==
  /\ Nobody \notin Locks /\ Stale \notin Locks /\ Nobody # Stale
  /\ TTL \in Nat \ {0} /\ RenewAfter \in Nat /\ Delay \in Nat
  /\ AutoRenewal \in BOOLEAN
  /\ Fallible \subseteq {"set", "expire", "eval"}
  /\ MaxFaults \in Nat

VARIABLES
  holder,  \* whose token the key holds
  left,    \* ticks until the key expires
  user,    \* per user: where it is and the state of its SingleNodeLock
  dog,     \* per user: its _watchdog coroutine
  faults

vars == <<holder, left, user, dog, faults>>

-----------------------------------------------------------------------------
(* A user is outside, or in acquire: the SET is on its way (setting) or    *)
(* answered; or in the body; or in release: waiting for the watchdog       *)
(* (joining), the EVAL on its way (deleting) or answered (deleted).        *)
Busy == {"setting", "answered", "deleting", "deleted"}

Users ==
  [pc : Busy \cup {"out", "inside", "joining", "dead"},
   granted  : BOOLEAN,  \* what SET answered
   acquired : BOOLEAN,  \* _acquired
   stop     : BOOLEAN,  \* _stop_watchdog is set
   task     : BOOLEAN,  \* _watchdog_task is not None
   age      : 0..Delay]

(* The watchdog is over (or was never started), about to run (looping),    *)
(* asleep (waiting), has sent EXPIRE (renewing), has been told that there  *)
(* is no key (lost), or has ended with an exception (raised).              *)
Dogs ==
  [pc : {"over", "looping", "waiting", "renewing", "lost", "raised"},
   timer : 0..RenewAfter,
   age   : 0..Delay]

NoDog == [pc |-> "over", timer |-> 0, age |-> 0]

Init ==
  /\ holder = Nobody /\ left = 0
  /\ user = [l \in Locks |->
       [pc |-> "out", granted |-> FALSE, acquired |-> FALSE, stop |-> FALSE,
        task |-> FALSE, age |-> 0]]
  /\ dog = [l \in Locks |-> NoDog]
  /\ faults = 0

\* The user moves on and keeps the state of its lock object.
GoTo(l, pc) == user' = [user EXCEPT ![l].pc = pc, ![l].age = 0]

DogGoes(l, pc, timer) ==
  dog' = [dog EXCEPT ![l] = [pc |-> pc, timer |-> timer, age |-> 0]]

-----------------------------------------------------------------------------
(* What Redis does with a command. *)

\* Mutant of SetKey: SET without NX.
SetKeyAlways(l) == holder' = l /\ left' = TTL

\* Mutant of SetKey: PX in the wrong unit.
SetKeyTooLong(l) ==
  \/ holder = Nobody /\ holder' = l /\ left' = 1000 * TTL
  \/ holder # Nobody /\ UNCHANGED <<holder, left>>

\* SET key token NX PX.
SetKey(l) ==
  \/ holder = Nobody /\ holder' = l /\ left' = TTL
  \/ holder # Nobody /\ UNCHANGED <<holder, left>>

\* EXPIRE key ttl: whoever holds it.
ExpireKey ==
  /\ left' = IF holder = Nobody THEN left ELSE TTL
  /\ UNCHANGED holder

\* Mutant of DeleteKey: DEL without a look at the token.
DeleteAnyKey(l) ==
  \/ holder # Nobody /\ holder' = Nobody /\ left' = 0
  \/ holder = Nobody /\ UNCHANGED <<holder, left>>

\* RELEASE_SCRIPT.
DeleteKey(l) ==
  \/ holder = l /\ holder' = Nobody /\ left' = 0
  \/ holder # l /\ UNCHANGED <<holder, left>>

-----------------------------------------------------------------------------
(* acquire. *)

\* A new token: a key left behind by an earlier attempt is nobody's now.
Acquire(l) ==
  /\ user[l].pc = "out"
  /\ GoTo(l, "setting")
  /\ holder' = IF holder = l THEN Stale ELSE holder
  /\ UNCHANGED <<left, dog, faults>>

RedisSet(l) ==
  /\ user[l].pc = "setting"
  /\ SetKey(l)
  /\ user' = [user EXCEPT ![l].pc = "answered", ![l].age = 0,
                          ![l].granted = (holder = Nobody)]
  /\ UNCHANGED <<dog, faults>>

\* Mutant of Enter: whatever SET answered, the lock counts as acquired.
EnterAnyway(l) ==
  /\ user[l].pc = "answered"
  /\ user' = [user EXCEPT ![l].pc = "inside", ![l].age = 0,
                          ![l].acquired = TRUE, ![l].task = @ \/ AutoRenewal]
  /\ \/ AutoRenewal /\ DogGoes(l, "looping", 0)
     \/ ~AutoRenewal /\ UNCHANGED dog
  /\ UNCHANGED <<holder, left, faults>>

Enter(l) ==
  /\ user[l].pc = "answered"
  /\ LET watched == user[l].granted /\ AutoRenewal
     IN  /\ user' = [user EXCEPT ![l].pc = "inside", ![l].age = 0,
                                 ![l].acquired = user[l].granted,
                                 ![l].task = @ \/ watched]
         /\ \/ watched /\ DogGoes(l, "looping", 0)
            \/ ~watched /\ UNCHANGED dog
  /\ UNCHANGED <<holder, left, faults>>

-----------------------------------------------------------------------------
(* _watchdog and _renew. *)

\* Due(l): the watchdog can run, or waits for Redis.
Due(l) ==
  \/ dog[l].pc \in {"looping", "renewing", "lost"}
  \/ dog[l].pc = "waiting" /\ (dog[l].timer = 0 \/ user[l].stop)

\* The head of the while loop, up to wait_for.
DogLoops(l) ==
  /\ dog[l].pc = "looping"
  /\ \/ /\ user[l].acquired /\ ~user[l].stop
        /\ DogGoes(l, "waiting", RenewAfter)
     \/ /\ ~user[l].acquired \/ user[l].stop
        /\ DogGoes(l, "over", 0)
  /\ UNCHANGED <<holder, left, user, faults>>

DogStops(l) ==
  /\ dog[l].pc = "waiting" /\ user[l].stop
  /\ DogGoes(l, "over", 0)
  /\ UNCHANGED <<holder, left, user, faults>>

\* wait_for has timed out: renew, unless the lock has been given up.
DogWakes(l) ==
  /\ dog[l].pc = "waiting" /\ dog[l].timer = 0
  /\ DogGoes(l, IF user[l].acquired THEN "renewing" ELSE "looping", 0)
  /\ UNCHANGED <<holder, left, user, faults>>

\* Mutant of RedisExpire: the first renewal is the last one.
RedisExpireOnce(l) ==
  /\ dog[l].pc = "renewing"
  /\ ExpireKey
  /\ DogGoes(l, "over", 0)
  /\ UNCHANGED <<user, faults>>

RedisExpire(l) ==
  /\ dog[l].pc = "renewing"
  /\ ExpireKey
  /\ DogGoes(l, IF holder = Nobody THEN "lost" ELSE "looping", 0)
  /\ UNCHANGED <<user, faults>>

\* "lock_renewal_failed" is logged and the watchdog ends.
DogGivesUp(l) ==
  /\ dog[l].pc = "lost"
  /\ DogGoes(l, "over", 0)
  /\ UNCHANGED <<holder, left, user, faults>>

-----------------------------------------------------------------------------
(* release. *)

Leave(l) ==
  /\ user[l].pc = "inside"
  /\ user' = [user EXCEPT ![l].pc = IF user[l].task THEN "joining" ELSE "deleting",
                          ![l].stop = TRUE, ![l].age = 0]
  /\ UNCHANGED <<holder, left, dog, faults>>

Join(l) ==
  /\ user[l].pc = "joining" /\ dog[l].pc = "over"
  /\ user' = [user EXCEPT ![l].pc = "deleting", ![l].age = 0, ![l].task = FALSE]
  /\ UNCHANGED <<holder, left, dog, faults>>

\* Mutant of JoinTimesOut: the watchdog is not cancelled.
JoinShielded(l) ==
  /\ user[l].pc = "joining" /\ dog[l].pc \notin {"over", "raised"}
  /\ user' = [user EXCEPT ![l].pc = "deleting", ![l].age = 0, ![l].task = FALSE]
  /\ UNCHANGED <<holder, left, dog, faults>>

\* wait_for gives the watchdog one second and cancels it; an EXPIRE it has
\* sent may or may not have been executed.
JoinTimesOut(l) ==
  /\ user[l].pc = "joining" /\ dog[l].pc \notin {"over", "raised"}
  /\ user' = [user EXCEPT ![l].pc = "deleting", ![l].age = 0, ![l].task = FALSE]
  /\ DogGoes(l, "over", 0)
  /\ \/ UNCHANGED <<holder, left>>
     \/ dog[l].pc = "renewing" /\ ExpireKey
  /\ UNCHANGED faults

\* What the watchdog raised comes out of release, which ends there: the key
\* is not deleted, the event stays set and _acquired TRUE.
JoinRaises(l) ==
  /\ user[l].pc = "joining" /\ dog[l].pc = "raised"
  /\ GoTo(l, "out")
  /\ UNCHANGED <<holder, left, dog, faults>>

RedisDelete(l) ==
  /\ user[l].pc = "deleting"
  /\ DeleteKey(l)
  /\ GoTo(l, "deleted")
  /\ UNCHANGED <<dog, faults>>

Exit(l) ==
  /\ user[l].pc = "deleted"
  /\ user' = [user EXCEPT ![l].pc = "out", ![l].age = 0,
                          ![l].acquired = FALSE, ![l].stop = FALSE]
  /\ UNCHANGED <<holder, left, dog, faults>>

-----------------------------------------------------------------------------
(* Failures.  A command that fails may have been executed. *)

Fault == faults < MaxFaults /\ faults' = faults + 1

SetFails(l) ==
  /\ "set" \in Fallible /\ Fault
  /\ user[l].pc = "setting"
  /\ GoTo(l, "out")
  /\ SetKey(l) \/ UNCHANGED <<holder, left>>
  /\ UNCHANGED dog

\* Nobody catches the exception: the watchdog ends.
ExpireFails(l) ==
  /\ "expire" \in Fallible /\ Fault
  /\ dog[l].pc = "renewing"
  /\ DogGoes(l, "raised", 0)
  /\ ExpireKey \/ UNCHANGED <<holder, left>>
  /\ UNCHANGED user

\* release ends before it has reset the lock object.
EvalFails(l) ==
  /\ "eval" \in Fallible /\ Fault
  /\ user[l].pc = "deleting"
  /\ GoTo(l, "out")
  /\ DeleteKey(l) \/ UNCHANGED <<holder, left>>
  /\ UNCHANGED dog

\* The user's process dies; its key is left to expire.
Crash(l) ==
  /\ Fault
  /\ user[l].pc # "dead"
  /\ GoTo(l, "dead")
  /\ dog' = [dog EXCEPT ![l] = NoDog]
  /\ UNCHANGED <<holder, left>>

-----------------------------------------------------------------------------
(* Time. *)

Timely(l) ==
  /\ user[l].pc \in Busy => user[l].age < Delay
  /\ Due(l) => dog[l].age < Delay

Tick ==
  /\ \A l \in Locks : Timely(l)
  /\ left' = IF left = 0 THEN 0 ELSE left - 1
  /\ holder' = IF left <= 1 THEN Nobody ELSE holder
  /\ user' = [l \in Locks |->
       IF user[l].pc \in Busy THEN [user[l] EXCEPT !.age = @ + 1] ELSE user[l]]
  /\ dog' = [l \in Locks |->
       IF Due(l) THEN [dog[l] EXCEPT !.age = @ + 1]
       ELSE IF dog[l].pc = "waiting" THEN [dog[l] EXCEPT !.timer = @ - 1]
       ELSE dog[l]]
  /\ UNCHANGED faults

-----------------------------------------------------------------------------
Call(l) ==
  \/ RedisSet(l) \/ Enter(l)
  \/ Join(l) \/ JoinTimesOut(l) \/ JoinRaises(l) \/ RedisDelete(l) \/ Exit(l)

Watch(l) ==
  \/ DogLoops(l) \/ DogStops(l) \/ DogWakes(l) \/ RedisExpire(l)
  \/ DogGivesUp(l)

Fail(l) == SetFails(l) \/ ExpireFails(l) \/ EvalFails(l) \/ Crash(l)

Next ==
  \/ \E l \in Locks : Acquire(l) \/ Call(l) \/ Watch(l) \/ Leave(l) \/ Fail(l)
  \/ Tick

Spec == Init /\ [][Next]_vars

\* Redis answers, the event loop runs what is ready, time passes.  Nobody has
\* to come or to leave.
Fairness ==
  /\ \A l \in Locks : WF_vars(Call(l)) /\ WF_vars(Watch(l))
  /\ WF_vars(Tick)

FairSpec == Spec /\ Fairness

-----------------------------------------------------------------------------
(* Properties. *)

\* Every variable holds a value of its type.
TypeOK ==
  /\ holder \in Locks \cup {Nobody, Stale}
  /\ left \in 0..TTL
  /\ user \in [Locks -> Users]
  /\ dog \in [Locks -> Dogs]
  /\ faults \in 0..MaxFaults

\* The body of a user that has found lock.acquired true.
InCriticalSection(l) == user[l].pc = "inside" /\ user[l].acquired

\* `acquired' says that the lock "is currently held": throughout the body the
\* key holds the user's token, because the watchdog renews it in time.
HeldWhileInside == \A l \in Locks : InCriticalSection(l) => holder = l

\* RELEASE_SCRIPT "ensures only the lock owner can release" the lock: a key
\* that has time left goes away through nobody but the user whose token it
\* holds, however late commands and coroutines are.
OnlyOwnerReleases ==
  [][\A l \in Locks :
       holder = l /\ left > 1 /\ holder' = Nobody => user[l].pc = "deleting"]_vars

\* A watchdog does not outlive the body it guards: nothing renews the key for
\* a user that has moved on.
NoOrphanWatchdog ==
  \A l \in Locks :
    user[l].pc \notin {"inside", "joining"} => dog[l].pc \in {"over", "raised"}

\* The key of a user that has died becomes free: no other user's watchdog
\* keeps it alive.
DeadUsersKeyExpires ==
  \A l \in Locks : (holder = l /\ user[l].pc = "dead") ~> holder # l

\* The user in its critical section, if there is one.
Owner ==
  IF \E l \in Locks : InCriticalSection(l)
  THEN CHOOSE l \in Locks : InCriticalSection(l)
  ELSE Nobody

Exclusive == INSTANCE ExclusiveLock WITH owner <- Owner

\* At most one user is in its critical section, and only by leaving it (or by
\* dying in it) does it make room for the next one.
ImplementsLock == Exclusive!Spec
=============================================================================
