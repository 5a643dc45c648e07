------------------------ MODULE SingleNodeLockProofs ------------------------
(***************************************************************************)
(* Theorems about SingleNodeLock, for any number of users and any times.   *)
(***************************************************************************)
EXTENDS SingleNodeLock, Integers, TLAPS

-----------------------------------------------------------------------------
(* Types. *)

LEMMA InitType == Init => TypeOK
BY LockAssumption DEF Init, TypeOK, Users, Dogs, NoDog

LEMMA KeyType ==
  ASSUME TypeOK, NEW l \in Locks,
         \/ SetKey(l) \/ ExpireKey \/ DeleteKey(l) \/ UNCHANGED <<holder, left>>
  PROVE  holder' \in Locks \cup {Nobody, Stale} /\ left' \in 0..TTL
BY LockAssumption DEF TypeOK, SetKey, ExpireKey, DeleteKey

LEMMA CallType ==
  ASSUME TypeOK, NEW l \in Locks, Acquire(l) \/ Call(l) \/ Leave(l)
  PROVE  TypeOK'
<1>1. 0 \in 0..Delay /\ 0 \in 0..RenewAfter
  BY LockAssumption
<1>2. holder' \in Locks \cup {Nobody, Stale} /\ left' \in 0..TTL /\ faults' = faults
  <2>1. CASE Acquire(l)
    BY <2>1 DEF Acquire, TypeOK
  <2>2. CASE Call(l) \/ Leave(l)
    BY <2>2, KeyType DEF Call, Leave, RedisSet, Enter, Join, JoinTimesOut,
                         JoinRaises, RedisDelete, Exit
  <2> QED BY <2>1, <2>2
<1>3. user' \in [Locks -> Users]
  <2>1. PICK u \in Users : user' = [user EXCEPT ![l] = u]
    <3>1. user[l] \in Users
      BY DEF TypeOK
    <3>2. CASE Acquire(l) \/ RedisSet(l) \/ Enter(l)
      BY <1>1, <3>1, <3>2, LockAssumption
      DEF Acquire, RedisSet, Enter, GoTo, Users, Busy, TypeOK
    <3>3. CASE Join(l) \/ JoinTimesOut(l) \/ JoinRaises(l)
      BY <1>1, <3>1, <3>3 DEF Join, JoinTimesOut, JoinRaises, GoTo, Users, Busy,
                              TypeOK
    <3>4. CASE RedisDelete(l) \/ Exit(l) \/ Leave(l)
      BY <1>1, <3>1, <3>4 DEF RedisDelete, Exit, Leave, GoTo, Users, Busy, TypeOK
    <3> QED BY <3>2, <3>3, <3>4 DEF Call
  <2> QED BY <2>1 DEF TypeOK
<1>4. dog' \in [Locks -> Dogs]
  <2>1. UNCHANGED dog \/ DogGoes(l, "looping", 0) \/ DogGoes(l, "over", 0)
    BY DEF Acquire, Call, Leave, RedisSet, Enter, Join, JoinTimesOut, JoinRaises,
           RedisDelete, Exit
  <2> QED BY <1>1, <2>1 DEF DogGoes, Dogs, TypeOK
<1> QED
  BY <1>2, <1>3, <1>4 DEF TypeOK

LEMMA WatchType ==
  ASSUME TypeOK, NEW l \in Locks, Watch(l)
  PROVE  TypeOK'
<1>1. 0 \in 0..Delay /\ 0 \in 0..RenewAfter /\ RenewAfter \in 0..RenewAfter
  BY LockAssumption
<1>2. holder' \in Locks \cup {Nobody, Stale} /\ left' \in 0..TTL
      /\ UNCHANGED <<user, faults>>
  BY KeyType DEF Watch, DogLoops, DogStops, DogWakes, RedisExpire, DogGivesUp
<1>3. \E pc \in {"over", "looping", "waiting", "renewing", "lost"},
         timer \in 0..RenewAfter : DogGoes(l, pc, timer)
  BY <1>1 DEF Watch, DogLoops, DogStops, DogWakes, RedisExpire, DogGivesUp
<1>4. dog' \in [Locks -> Dogs]
  BY <1>1, <1>3 DEF DogGoes, Dogs, TypeOK
<1> QED
  BY <1>2, <1>4 DEF TypeOK

LEMMA FailType ==
  ASSUME TypeOK, NEW l \in Locks, Fail(l)
  PROVE  TypeOK'
<1>1. 0 \in 0..Delay /\ 0 \in 0..RenewAfter
  BY LockAssumption
<1>2. holder' \in Locks \cup {Nobody, Stale} /\ left' \in 0..TTL
  BY KeyType DEF Fail, SetFails, ExpireFails, EvalFails, Crash
<1>3. faults' \in 0..MaxFaults
  BY LockAssumption DEF Fail, SetFails, ExpireFails, EvalFails, Crash, Fault, TypeOK
<1>4. user' \in [Locks -> Users]
  <2>1. UNCHANGED user \/ \E pc \in {"out", "dead"} : GoTo(l, pc)
    BY DEF Fail, SetFails, ExpireFails, EvalFails, Crash
  <2> QED BY <1>1, <2>1 DEF GoTo, Users, TypeOK
<1>5. dog' \in [Locks -> Dogs]
  <2>1. UNCHANGED dog \/ DogGoes(l, "raised", 0) \/ dog' = [dog EXCEPT ![l] = NoDog]
    BY DEF Fail, SetFails, ExpireFails, EvalFails, Crash
  <2> QED BY <1>1, <2>1 DEF DogGoes, NoDog, Dogs, TypeOK
<1> QED
  BY <1>2, <1>3, <1>4, <1>5 DEF TypeOK

LEMMA TickType ==
  ASSUME TypeOK, Tick
  PROVE  TypeOK'
<1>1. holder' \in Locks \cup {Nobody, Stale} /\ left' \in 0..TTL /\ faults' = faults
  BY LockAssumption DEF Tick, TypeOK
<1>2. ASSUME NEW l \in Locks PROVE user'[l] \in Users
  <2>1. user[l] \in Users /\ Timely(l)
    BY DEF TypeOK, Tick
  <2>2. user[l].pc \in Busy => user[l].age + 1 \in 0..Delay
    BY <2>1, LockAssumption DEF Timely, Users
  <2> QED BY <2>1, <2>2 DEF Tick, Users
<1>3. ASSUME NEW l \in Locks PROVE dog'[l] \in Dogs
  <2>1. dog[l] \in Dogs /\ Timely(l)
    BY DEF TypeOK, Tick
  <2>2. Due(l) => dog[l].age + 1 \in 0..Delay
    BY <2>1, LockAssumption DEF Timely, Dogs
  <2>3. ~Due(l) /\ dog[l].pc = "waiting" => dog[l].timer - 1 \in 0..RenewAfter
    BY <2>1, LockAssumption DEF Due, Dogs
  <2> QED BY <2>1, <2>2, <2>3 DEF Tick, Dogs
<1> QED
  BY <1>1, <1>2, <1>3 DEF Tick, TypeOK

LEMMA NextType == TypeOK /\ [Next]_vars => TypeOK'
<1> SUFFICES ASSUME TypeOK, [Next]_vars PROVE TypeOK'
  OBVIOUS
<1>1. CASE UNCHANGED vars
  BY <1>1 DEF vars, TypeOK
<1> QED
  BY <1>1, CallType, WatchType, FailType, TickType DEF Next

\* Every variable of the lock keeps its type.
THEOREM TypeCorrectness == Spec => []TypeOK
BY InitType, NextType, PTL DEF Spec

-----------------------------------------------------------------------------
(* What holds however late things are and whatever fails. *)

\* A key with time left goes away only through the release of its own user.
THEOREM OwnerReleases == Spec => OnlyOwnerReleases
<1>1. TypeOK /\ [Next]_vars =>
        [\A l \in Locks :
           holder = l /\ left > 1 /\ holder' = Nobody => user[l].pc = "deleting"]_vars
  <2> SUFFICES ASSUME TypeOK, [Next]_vars, NEW l \in Locks,
                      holder = l, left > 1, holder' = Nobody
               PROVE  user[l].pc = "deleting"
    OBVIOUS
  <2>1. holder # Nobody /\ Stale # Nobody /\ left \in Nat
    BY LockAssumption DEF TypeOK
  <2>2. ASSUME NEW o \in Locks, Acquire(o) \/ Call(o) \/ Leave(o)
        PROVE  user[l].pc = "deleting"
    BY <2>1, <2>2 DEF Acquire, Call, Leave, RedisSet, Enter, Join, JoinTimesOut,
       JoinRaises, RedisDelete, Exit, SetKey, ExpireKey, DeleteKey
  <2>3. ASSUME NEW o \in Locks, Watch(o)
        PROVE  user[l].pc = "deleting"
    BY <2>1, <2>3 DEF Watch, DogLoops, DogStops, DogWakes, RedisExpire, DogGivesUp,
       ExpireKey
  <2>4. ASSUME NEW o \in Locks, Fail(o)
        PROVE  user[l].pc = "deleting"
    BY <2>1, <2>4 DEF Fail, SetFails, ExpireFails, EvalFails, Crash, SetKey,
       ExpireKey, DeleteKey
  <2>5. CASE Tick
    BY <2>1, <2>5 DEF Tick
  <2>6. CASE UNCHANGED vars
    BY <2>1, <2>6 DEF vars
  <2> QED BY <2>2, <2>3, <2>4, <2>5, <2>6 DEF Next
<1> QED
  BY InitType, NextType, <1>1, PTL DEF Spec, OnlyOwnerReleases

(***************************************************************************)
(* The watchdog ends before release goes on, and a lock object that has no *)
(* task to join has no watchdog at work.                                   *)
(***************************************************************************)
Guarded(l) ==
  /\ user[l].pc \notin {"inside", "joining"} => dog[l].pc \in {"over", "raised"}
  /\ user[l].pc = "inside" /\ ~user[l].task => dog[l].pc \in {"over", "raised"}

AllGuarded == \A l \in Locks : Guarded(l)

LEMMA InitGuarded == Init => AllGuarded
<1> SUFFICES ASSUME Init, NEW l \in Locks PROVE Guarded(l)
  BY DEF AllGuarded
<1>1. dog[l].pc = "over"
  BY DEF Init, NoDog
<1> QED BY <1>1 DEF Guarded

LEMMA NextGuarded == TypeOK /\ AllGuarded /\ [Next]_vars => AllGuarded'
<1> SUFFICES ASSUME TypeOK, AllGuarded, [Next]_vars, NEW l \in Locks
             PROVE  Guarded(l)'
  BY DEF AllGuarded
<1>1. user[l] \in Users /\ dog[l] \in Dogs /\ Guarded(l)
      /\ user \in [Locks -> Users] /\ dog \in [Locks -> Dogs]
  BY DEF TypeOK, AllGuarded
<1>2. ASSUME NEW o \in Locks, Acquire(o) \/ RedisSet(o) \/ Enter(o) \/ Leave(o)
      PROVE  Guarded(l)'
  BY <1>1, <1>2 DEF Acquire, RedisSet, Enter, Leave, GoTo, DogGoes, Guarded, Users
<1>3. ASSUME NEW o \in Locks,
             Join(o) \/ JoinTimesOut(o) \/ JoinRaises(o) \/ RedisDelete(o) \/ Exit(o)
      PROVE  Guarded(l)'
  BY <1>1, <1>3 DEF Join, JoinTimesOut, JoinRaises, RedisDelete, Exit, GoTo,
     DogGoes, Guarded, Users
<1>4. ASSUME NEW o \in Locks, Watch(o)
      PROVE  Guarded(l)'
  <2>1. /\ user' = user /\ dog[o].pc \notin {"over", "raised"}
        /\ \A k \in Locks \ {o} : dog'[k] = dog[k]
    BY <1>1, <1>4 DEF Watch, DogLoops, DogStops, DogWakes, RedisExpire, DogGivesUp,
       DogGoes
  <2> QED BY <1>1, <2>1 DEF Guarded
<1>5. ASSUME NEW o \in Locks, Fail(o)
      PROVE  Guarded(l)'
  BY <1>1, <1>5 DEF Fail, SetFails, ExpireFails, EvalFails, Crash, GoTo, DogGoes,
     NoDog, Guarded, Users
<1>6. CASE Tick
  <2>1. /\ user'[l].pc = user[l].pc /\ user'[l].task = user[l].task
        /\ dog'[l].pc = dog[l].pc
    BY <1>1, <1>6 DEF Tick, Users, Dogs
  <2> QED BY <1>1, <2>1 DEF Guarded
<1>7. CASE UNCHANGED vars
  BY <1>1, <1>7 DEF vars, Guarded
<1> QED
  BY <1>2, <1>3, <1>4, <1>5, <1>6, <1>7 DEF Next, Call

\* No watchdog outlives the body it guards.
THEOREM WatchdogsAreJoined == Spec => []NoOrphanWatchdog
<1>1. AllGuarded => NoOrphanWatchdog
  BY DEF AllGuarded, Guarded, NoOrphanWatchdog
<1> QED
  BY InitType, NextType, InitGuarded, NextGuarded, <1>1, PTL DEF Spec

-----------------------------------------------------------------------------
(* What holds when Redis executes every EXPIRE and EVAL and nothing is so  *)
(* late that the watchdog comes too late.                                  *)
(*                                                                         *)
(* The key's time is TTL when it is set and after every renewal.  Between  *)
(* two of these moments the watchdog sleeps RenewAfter ticks and up to     *)
(* four steps may be late: acquire's return, the watchdog's next turn, its *)
(* awakening and the EXPIRE.                                               *)

InTime ==
  /\ AutoRenewal
  /\ Fallible \subseteq {"set"}
  /\ RenewAfter + 4 * Delay < TTL

\* Time the key of l may have lost, given where the watchdog is.
Spent(l) ==
  CASE dog[l].pc = "looping"  -> dog[l].age + Delay
    [] dog[l].pc = "waiting"  -> dog[l].age + 2 * Delay + (RenewAfter - dog[l].timer)
    [] dog[l].pc = "renewing" -> dog[l].age + 3 * Delay + RenewAfter

\* A lock object that is not in use is as good as new.
Tidy(l) ==
  /\ dog[l].pc = "over"
  /\ ~user[l].acquired /\ ~user[l].stop /\ ~user[l].task

Leased(l) ==
  /\ dog[l].pc \in {"looping", "waiting", "renewing"}
  /\ user[l].task
  /\ holder = l /\ left + Spent(l) >= TTL

Fine(l) ==
  /\ user[l].pc \in {"out", "setting", "answered"} => Tidy(l)
  /\ user[l].pc = "answered" /\ user[l].granted =>
       holder = l /\ left + user[l].age >= TTL
  /\ user[l].pc = "inside" =>
       /\ ~user[l].stop
       /\ user[l].acquired => Leased(l)
       /\ ~user[l].acquired => ~user[l].task /\ dog[l].pc = "over"
  /\ user[l].pc \in {"deleting", "deleted"} =>
       ~user[l].task /\ dog[l].pc = "over"
  /\ dog[l].pc # "raised"

LeaseInv == \A l \in Locks : Fine(l)

LEMMA InitLease == Init => LeaseInv
<1> SUFFICES ASSUME Init, NEW l \in Locks PROVE Fine(l)
  BY DEF LeaseInv
<1>1. dog[l].pc = "over"
  BY DEF Init, NoDog
<1>2. user[l].pc = "out" /\ ~user[l].acquired /\ ~user[l].stop /\ ~user[l].task
  BY DEF Init
<1> QED BY <1>1, <1>2 DEF Fine, Tidy

\* A step of l that leaves the keys of the others alone, or renews them.
Spares(l) ==
  \A o \in Locks \ {l} :
    /\ user'[o] = user[o] /\ dog'[o] = dog[o]
    /\ holder = o => holder' = o /\ left' >= left

LEMMA OthersFine ==
  ASSUME TypeOK, TypeOK', LeaseInv, NEW l \in Locks, Spares(l), NEW o \in Locks, o # l
  PROVE  Fine(o)'
<1>1. /\ Fine(o) /\ user'[o] = user[o] /\ dog'[o] = dog[o]
      /\ holder = o => holder' = o /\ left' >= left
  BY DEF LeaseInv, Spares
<1>2. left \in Nat /\ left' \in Nat /\ user[o] \in Users /\ dog[o] \in Dogs
  BY LockAssumption DEF TypeOK
<1>3. dog[o].pc \in {"looping", "waiting", "renewing"}
        => Spent(o)' = Spent(o) /\ Spent(o) \in Int
  BY <1>1, <1>2, LockAssumption DEF Spent, Dogs
<1>4. Leased(o) => Leased(o)'
  BY <1>1, <1>2, <1>3, LockAssumption DEF Leased
<1>5. Tidy(o) => Tidy(o)'
  BY <1>1 DEF Tidy
<1>6. user[o].pc = "answered" /\ user[o].granted =>
        holder' = o /\ left' + user[o].age >= TTL
  BY <1>1, <1>2, LockAssumption DEF Fine, Users
<1> QED BY <1>1, <1>4, <1>5, <1>6 DEF Fine

LEMMA KeySpared ==
  ASSUME TypeOK, NEW l \in Locks, NEW o \in Locks, o # l, holder = o,
         SetKey(l) \/ ExpireKey \/ DeleteKey(l) \/ UNCHANGED <<holder, left>>
  PROVE  holder' = o /\ left' >= left
BY LockAssumption DEF TypeOK, SetKey, ExpireKey, DeleteKey

LEMMA StepSpares ==
  ASSUME TypeOK, NEW l \in Locks,
         Acquire(l) \/ Call(l) \/ Watch(l) \/ Leave(l) \/ Fail(l)
  PROVE  Spares(l)
<1> SUFFICES ASSUME NEW o \in Locks \ {l}
             PROVE  /\ user'[o] = user[o] /\ dog'[o] = dog[o]
                    /\ holder = o => holder' = o /\ left' >= left
  BY DEF Spares
<1>1. user \in [Locks -> Users] /\ dog \in [Locks -> Dogs] /\ left \in Nat
  BY LockAssumption DEF TypeOK
<1>2. CASE Acquire(l)
  BY <1>1, <1>2 DEF Acquire, GoTo
<1>3. CASE Call(l)
  BY <1>1, <1>3, KeySpared DEF Call, RedisSet, Enter, Join, JoinTimesOut,
     JoinRaises, RedisDelete, Exit, GoTo, DogGoes
<1>4. CASE Watch(l)
  BY <1>1, <1>4, KeySpared DEF Watch, DogLoops, DogStops, DogWakes, RedisExpire,
     DogGivesUp, DogGoes
<1>5. CASE Leave(l)
  BY <1>1, <1>5 DEF Leave
<1>6. CASE Fail(l)
  BY <1>1, <1>6, KeySpared DEF Fail, SetFails, ExpireFails, EvalFails, Crash, GoTo,
     DogGoes
<1> QED BY <1>2, <1>3, <1>4, <1>5, <1>6

LEMMA CallFine ==
  ASSUME InTime, TypeOK, LeaseInv, NEW l \in Locks, Acquire(l) \/ Call(l) \/ Leave(l)
  PROVE  Fine(l)'
<1>1. /\ user \in [Locks -> Users] /\ dog \in [Locks -> Dogs] /\ Fine(l)
      /\ user[l] \in Users /\ dog[l] \in Dogs
      /\ left \in Nat /\ TTL \in Nat /\ Delay \in Nat /\ l # Nobody
  BY LockAssumption DEF TypeOK, LeaseInv
<1>2. CASE Acquire(l)
  BY <1>1, <1>2 DEF Acquire, GoTo, Fine, Tidy, Users
<1>3. CASE RedisSet(l)
  <2>1. /\ dog' = dog /\ user'[l].pc = "answered" /\ user'[l].age = 0
        /\ user'[l].granted <=> holder = Nobody
        /\ user'[l].acquired = user[l].acquired /\ user'[l].stop = user[l].stop
        /\ user'[l].task = user[l].task
    BY <1>1, <1>3 DEF RedisSet, Users
  <2>2. holder = Nobody => holder' = l /\ left' = TTL
    BY <1>3 DEF RedisSet, SetKey
  <2> QED BY <1>1, <1>3, <2>1, <2>2 DEF RedisSet, Fine, Tidy
<1>4. CASE Enter(l)
  <2>1. /\ Tidy(l) /\ user'[l].pc = "inside" /\ ~user'[l].stop
        /\ user'[l].acquired = user[l].granted
        /\ user'[l].task = user[l].granted
        /\ UNCHANGED <<holder, left>>
    BY <1>1, <1>4 DEF Enter, Fine, Tidy, Users, InTime
  <2>2. CASE user[l].granted
    <3>1. dog'[l] = [pc |-> "looping", timer |-> 0, age |-> 0]
      BY <1>1, <1>4, <2>2 DEF Enter, DogGoes, InTime
    <3>2. holder = l /\ left + user[l].age >= TTL /\ user[l].age \in 0..Delay
      BY <1>1, <1>4, <2>2 DEF Enter, Fine, Users
    <3>3. Leased(l)'
      BY <1>1, <2>1, <2>2, <3>1, <3>2 DEF Leased, Spent
    <3> QED BY <2>1, <2>2, <3>1, <3>3 DEF Fine
  <2>3. CASE ~user[l].granted
    <3>1. dog'[l] = dog[l]
      BY <1>4, <2>3 DEF Enter
    <3> QED BY <2>1, <2>3, <3>1 DEF Fine, Tidy
  <2> QED BY <2>2, <2>3
<1>5. CASE Join(l) \/ JoinTimesOut(l)
  <2>1. /\ user'[l].pc = "deleting" /\ ~user'[l].task /\ dog'[l].pc = "over"
    BY <1>1, <1>5 DEF Join, JoinTimesOut, DogGoes, Users
  <2> QED BY <2>1 DEF Fine
<1>6. CASE JoinRaises(l)
  BY <1>1, <1>6 DEF JoinRaises, Fine
<1>7. CASE RedisDelete(l)
  BY <1>1, <1>7 DEF RedisDelete, GoTo, Fine, Users
<1>8. CASE Exit(l)
  BY <1>1, <1>8 DEF Exit, Fine, Tidy, Users
<1>9. CASE Leave(l)
  <2>1. /\ user[l].task => user'[l].pc = "joining"
        /\ ~user[l].task => user'[l].pc = "deleting"
        /\ user'[l].task = user[l].task /\ dog' = dog
    BY <1>1, <1>9 DEF Leave, Users
  <2>2. ~user[l].task => dog[l].pc = "over"
    BY <1>1, <1>9 DEF Leave, Fine, Leased
  <2> QED BY <1>1, <2>1, <2>2 DEF Fine, Users
<1> QED
  BY <1>2, <1>3, <1>4, <1>5, <1>6, <1>7, <1>8, <1>9 DEF Call

LEMMA WatchFine ==
  ASSUME InTime, TypeOK, LeaseInv, NEW l \in Locks, Watch(l)
  PROVE  Fine(l)'
<1>1. /\ user \in [Locks -> Users] /\ dog \in [Locks -> Dogs] /\ Fine(l)
      /\ user[l] \in Users /\ dog[l] \in Dogs
      /\ left \in Nat /\ TTL \in Nat /\ Delay \in Nat /\ RenewAfter \in Nat
      /\ l # Nobody
  BY LockAssumption DEF TypeOK, LeaseInv
<1>2. user' = user /\ dog[l].pc # "over"
  BY <1>1 DEF Watch, DogLoops, DogStops, DogWakes, RedisExpire, DogGivesUp
<1>3. user[l].pc \notin {"out", "setting", "answered", "deleting", "deleted"}
  BY <1>1, <1>2 DEF Fine, Tidy
<1>4. dog'[l].pc # "raised"
  BY <1>1 DEF Watch, DogLoops, DogStops, DogWakes, RedisExpire, DogGivesUp, DogGoes
<1>5. CASE user[l].pc = "inside"
  <2>1. ~user[l].stop /\ user[l].acquired /\ Leased(l)
    BY <1>1, <1>2, <1>5 DEF Fine, Users
  <2>2. CASE DogLoops(l)
    <3>1. dog'[l] = [pc |-> "waiting", timer |-> RenewAfter, age |-> 0]
          /\ UNCHANGED <<holder, left>> /\ dog[l].pc = "looping"
      BY <1>1, <2>1, <2>2 DEF DogLoops, DogGoes
    <3>2. left + dog[l].age + Delay >= TTL /\ dog[l].age \in 0..Delay
      BY <1>1, <2>1, <3>1 DEF Leased, Spent, Dogs
    <3>3. Leased(l)'
      BY <1>1, <1>2, <2>1, <3>1, <3>2 DEF Leased, Spent
    <3> QED BY <1>2, <1>4, <1>5, <2>1, <3>3 DEF Fine
  <2>3. CASE DogWakes(l)
    <3>1. dog'[l] = [pc |-> "renewing", timer |-> 0, age |-> 0]
          /\ UNCHANGED <<holder, left>> /\ dog[l].pc = "waiting" /\ dog[l].timer = 0
      BY <1>1, <2>1, <2>3 DEF DogWakes, DogGoes
    <3>2. left + dog[l].age + 2 * Delay + RenewAfter >= TTL /\ dog[l].age \in 0..Delay
      BY <1>1, <2>1, <3>1 DEF Leased, Spent, Dogs
    <3>3. Leased(l)'
      BY <1>1, <1>2, <2>1, <3>1, <3>2 DEF Leased, Spent
    <3> QED BY <1>2, <1>4, <1>5, <2>1, <3>3 DEF Fine
  <2>4. CASE RedisExpire(l)
    <3>1. holder = l
      BY <2>1 DEF Leased
    <3>2. dog'[l] = [pc |-> "looping", timer |-> 0, age |-> 0]
          /\ holder' = l /\ left' = TTL
      BY <1>1, <2>4, <3>1 DEF RedisExpire, ExpireKey, DogGoes
    <3>3. Leased(l)'
      BY <1>1, <1>2, <2>1, <3>2 DEF Leased, Spent
    <3> QED BY <1>2, <1>4, <1>5, <2>1, <3>3 DEF Fine
  <2> QED
    BY <2>1, <2>2, <2>3, <2>4 DEF Watch, DogStops, DogGivesUp, Leased
<1> QED
  BY <1>2, <1>3, <1>4, <1>5 DEF Fine

LEMMA FailFine ==
  ASSUME InTime, TypeOK, LeaseInv, NEW l \in Locks, Fail(l)
  PROVE  Fine(l)'
<1>1. user \in [Locks -> Users] /\ dog \in [Locks -> Dogs] /\ Fine(l)
      /\ user[l] \in Users
  BY DEF TypeOK, LeaseInv
<1>2. CASE SetFails(l)
  BY <1>1, <1>2 DEF SetFails, GoTo, Fine, Tidy, Users
<1>3. CASE Crash(l)
  BY <1>1, <1>3 DEF Crash, GoTo, NoDog, Fine, Users
<1> QED
  BY <1>2, <1>3 DEF Fail, ExpireFails, EvalFails, InTime

LEMMA TickFine ==
  ASSUME InTime, TypeOK, LeaseInv, NEW l \in Locks, Tick
  PROVE  Fine(l)'
<1>1. /\ user[l] \in Users /\ dog[l] \in Dogs /\ Fine(l) /\ Timely(l)
      /\ left \in Nat /\ TTL \in Nat /\ Delay \in Nat /\ RenewAfter \in Nat
      /\ RenewAfter + 4 * Delay < TTL
  BY LockAssumption DEF TypeOK, LeaseInv, Tick, InTime
<1>2. /\ user'[l] = IF user[l].pc \in Busy THEN [user[l] EXCEPT !.age = @ + 1]
                    ELSE user[l]
      /\ dog'[l] = IF Due(l) THEN [dog[l] EXCEPT !.age = @ + 1]
                   ELSE IF dog[l].pc = "waiting" THEN [dog[l] EXCEPT !.timer = @ - 1]
                   ELSE dog[l]
      /\ left > 1 => holder' = holder /\ left' = left - 1
  BY <1>1 DEF Tick
<1>3. /\ user'[l].pc = user[l].pc /\ user'[l].granted = user[l].granted
      /\ user'[l].acquired = user[l].acquired /\ user'[l].stop = user[l].stop
      /\ user'[l].task = user[l].task /\ dog'[l].pc = dog[l].pc
  BY <1>1, <1>2 DEF Users, Dogs
<1>4. user[l].pc = "answered" /\ user[l].granted =>
        holder' = l /\ left' + user'[l].age >= TTL
  <2> HAVE user[l].pc = "answered" /\ user[l].granted
  <2>1. holder = l /\ left + user[l].age >= TTL
    BY <1>1 DEF Fine
  <2>2. user[l].age \in 0..Delay /\ user[l].age < Delay
        /\ user'[l].age = user[l].age + 1
    BY <1>1, <1>2 DEF Timely, Busy, Users
  <2> QED BY <1>1, <1>2, <2>1, <2>2
<1>5. user[l].pc = "inside" /\ Leased(l) => Leased(l)'
  <2> HAVE user[l].pc = "inside" /\ Leased(l)
  <2>1. /\ dog[l].age \in 0..Delay /\ dog[l].timer \in 0..RenewAfter
        /\ Due(l) => dog[l].age < Delay
        /\ ~user[l].stop
    BY <1>1 DEF Timely, Dogs, Fine
  <2>2. Due(l) => dog'[l].age = dog[l].age + 1 /\ dog'[l].timer = dog[l].timer
    BY <1>1, <1>2 DEF Dogs
  <2>3. ~Due(l) => /\ dog[l].pc = "waiting" /\ dog[l].timer > 0
                   /\ dog'[l].age = dog[l].age /\ dog'[l].timer = dog[l].timer - 1
    BY <1>1, <1>2, <2>1 DEF Dogs, Due, Leased
  <2>4. left > 1 /\ left' = left - 1 /\ holder' = l
    <3>1. Spent(l) + 1 < TTL /\ Spent(l) \in Int
      BY <1>1, <2>1, <2>3 DEF Spent, Leased, Due
    <3>2. left + Spent(l) >= TTL /\ holder = l
      BY DEF Leased
    <3> QED BY <1>1, <1>2, <3>1, <3>2
  <2>5. Spent(l)' = Spent(l) + 1
    <3>1. CASE dog[l].pc = "looping"
      BY <1>1, <1>3, <2>1, <2>2, <3>1 DEF Spent, Due
    <3>2. CASE dog[l].pc = "renewing"
      BY <1>1, <1>3, <2>1, <2>2, <3>2 DEF Spent, Due
    <3>3. CASE dog[l].pc = "waiting"
      BY <1>1, <1>3, <2>1, <2>2, <2>3, <3>3 DEF Spent
    <3> QED BY <3>1, <3>2, <3>3 DEF Leased
  <2>6. Spent(l) \in Int
    BY <1>1, <2>1 DEF Spent, Leased
  <2> QED BY <1>1, <1>3, <2>4, <2>5, <2>6 DEF Leased
<1>6. Tidy(l) => Tidy(l)'
  BY <1>3 DEF Tidy
<1> QED
  BY <1>1, <1>3, <1>4, <1>5, <1>6 DEF Fine

LEMMA NextLease == InTime /\ TypeOK /\ LeaseInv /\ [Next]_vars => LeaseInv'
<1> SUFFICES ASSUME InTime, TypeOK, LeaseInv, [Next]_vars PROVE LeaseInv'
  OBVIOUS
<1>1. ASSUME NEW l \in Locks,
             Acquire(l) \/ Call(l) \/ Watch(l) \/ Leave(l) \/ Fail(l)
      PROVE  LeaseInv'
  <2>1. TypeOK' /\ Spares(l)
    BY <1>1, NextType, StepSpares DEF Next
  <2>2. Fine(l)'
    BY <1>1, CallFine, WatchFine, FailFine
  <2> QED BY <2>1, <2>2, OthersFine DEF LeaseInv
<1>2. CASE Tick
  BY <1>2, TickFine DEF LeaseInv
<1>3. CASE UNCHANGED vars
  BY <1>3 DEF vars, LeaseInv, Fine, Tidy, Leased, Spent
<1> QED
  BY <1>1, <1>2, <1>3 DEF Next

\* Throughout the body the key holds the user's token.
THEOREM WatchdogHolds ==
  ASSUME InTime
  PROVE  Spec => []HeldWhileInside
<1>1. LeaseInv => HeldWhileInside
  BY DEF LeaseInv, Fine, Leased, HeldWhileInside, InCriticalSection
<1>2. InTime
  OBVIOUS
<1> QED
  BY InitType, NextType, InitLease, NextLease, <1>1, <1>2, PTL DEF Spec

-----------------------------------------------------------------------------
(* The lock implements ExclusiveLock.  A step of one user leaves the others *)
(* where they are, and the key holds one token at a time: that is enough,   *)
(* whatever the step is.                                                    *)

LEMMA OwnerInside ==
  ASSUME HeldWhileInside
  PROVE  /\ \A l \in Locks : InCriticalSection(l) => Owner = l
         /\ Owner = Nobody <=> \A l \in Locks : ~InCriticalSection(l)
BY LockAssumption DEF HeldWhileInside, Owner

LEMMA StepImplements ==
  ASSUME TypeOK, HeldWhileInside, HeldWhileInside', Next
  PROVE  Exclusive!Next \/ UNCHANGED Owner
<1>1. /\ \A l \in Locks : InCriticalSection(l) => Owner = l
      /\ Owner = Nobody <=> \A l \in Locks : ~InCriticalSection(l)
  BY OwnerInside
<1>2. /\ \A l \in Locks : InCriticalSection(l)' => Owner' = l
      /\ Owner' = Nobody <=> \A l \in Locks : ~InCriticalSection(l)'
  BY LockAssumption DEF HeldWhileInside, Owner
<1>3. ASSUME NEW l \in Locks,
             Acquire(l) \/ Call(l) \/ Watch(l) \/ Leave(l) \/ Fail(l)
      PROVE  Exclusive!Next \/ UNCHANGED Owner
  <2>1. \A o \in Locks \ {l} : InCriticalSection(o)' = InCriticalSection(o)
    BY <1>3, StepSpares DEF Spares, InCriticalSection
  <2>2. CASE \E o \in Locks \ {l} : InCriticalSection(o)
    BY <1>1, <1>2, <2>1, <2>2
  <2>3. CASE \A o \in Locks \ {l} : ~InCriticalSection(o)
    <3>1. Owner = IF InCriticalSection(l) THEN l ELSE Nobody
      BY <1>1, <2>3
    <3>2. Owner' = IF InCriticalSection(l)' THEN l ELSE Nobody
      BY <1>2, <2>1, <2>3
    <3> QED BY <3>1, <3>2 DEF Exclusive!Next, Exclusive!Take, Exclusive!Give
  <2> QED BY <2>2, <2>3
<1>4. CASE Tick
  <2>1. ASSUME NEW l \in Locks
        PROVE  InCriticalSection(l)' = InCriticalSection(l)
    BY <1>4 DEF Tick, TypeOK, Users, InCriticalSection
  <2> QED BY <1>1, <1>2, <2>1
<1> QED
  BY <1>3, <1>4 DEF Next

\* The lock keeps the promise of ExclusiveLock.
THEOREM LockImplemented ==
  ASSUME InTime
  PROVE  Spec => ImplementsLock
<1>1. Init => Exclusive!Init
  BY DEF Init, Owner, InCriticalSection, Exclusive!Init
<1>2. TypeOK /\ HeldWhileInside /\ HeldWhileInside' /\ [Next]_vars
        => [Exclusive!Next]_Owner
  <2> SUFFICES ASSUME TypeOK, HeldWhileInside, HeldWhileInside', [Next]_vars
               PROVE  Exclusive!Next \/ UNCHANGED Owner
    OBVIOUS
  <2>1. CASE UNCHANGED vars
    BY <2>1 DEF vars, Owner, InCriticalSection
  <2> QED BY <2>1, StepImplements
<1>3. Spec => []TypeOK
  BY TypeCorrectness
<1>4. Spec => []HeldWhileInside
  BY WatchdogHolds
<1> QED
  BY <1>1, <1>2, <1>3, <1>4, PTL DEF Spec, ImplementsLock, Exclusive!Spec
=============================================================================
