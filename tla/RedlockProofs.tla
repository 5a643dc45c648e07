---------------------------- MODULE RedlockProofs ----------------------------
(***************************************************************************)
(* Theorems about Redlock, for any number of users and of nodes.           *)
(***************************************************************************)
EXTENDS Redlock, FiniteSetTheorems, TLAPS

\* Two quorums share a node.
LEMMA QuorumsIntersect ==
  ASSUME NEW Q \in SUBSET Nodes, NEW R \in SUBSET Nodes,
         Cardinality(Q) >= Quorum, Cardinality(R) >= Quorum
  PROVE  Q \cap R # {}
<1>1. IsFiniteSet(Nodes) /\ Cardinality(Nodes) = N
  BY FS_Interval, RedlockAssumption DEF Nodes
<1>2. Cardinality(Q) \in Nat /\ Cardinality(R) \in Nat
  BY <1>1, FS_Subset, FS_CardinalityType
<1>3. Cardinality(Q) + Cardinality(R) > Cardinality(Nodes)
  BY <1>1, <1>2, RedlockAssumption DEF Quorum
<1> QED
  BY <1>1, <1>3, FS_MajoritiesIntersect

-----------------------------------------------------------------------------
(* Types. *)

LEMMA SmallNats == 1 \in 1..(N + 1) /\ 0 \in 0..TTL /\ N \in Nat /\ TTL \in Nat
BY RedlockAssumption

LEMMA OutsideType ==
  ASSUME NEW pc \in {"out", "trying", "inside", "dead"}
  PROVE  [Outside EXCEPT !.pc = pc] \in Users
BY SmallNats DEF Outside, Users

LEMMA InitType == Init => TypeOK
<1> SUFFICES ASSUME Init PROVE TypeOK
  OBVIOUS
<1>1. Outside \in Users
  BY SmallNats DEF Outside, Users
<1> QED BY <1>1, RedlockAssumption DEF Init, TypeOK

\* What the commands do to the nodes.
LEMMA NodesType ==
  ASSUME TypeOK, NEW l \in Locks,
         \/ \E n \in Nodes : SetKey(l, n)
         \/ \E nodes \in SUBSET Nodes : DeleteKeys(l, nodes)
         \/ UNCHANGED <<key, left>>
  PROVE  key' \in [Nodes -> Locks \cup {Nobody, Stale}] /\ left' \in [Nodes -> 0..TTL]
<1>1. ASSUME NEW n \in Nodes, SetKey(l, n)
      PROVE  key' \in [Nodes -> Locks \cup {Nobody, Stale}] /\ left' \in [Nodes -> 0..TTL]
  <2>1. (TTL - Drift)..TTL \subseteq 0..TTL
    BY RedlockAssumption
  <2> QED BY <1>1, <2>1 DEF SetKey, TypeOK
<1>2. ASSUME NEW nodes \in SUBSET Nodes, DeleteKeys(l, nodes)
      PROVE  key' \in [Nodes -> Locks \cup {Nobody, Stale}] /\ left' \in [Nodes -> 0..TTL]
  BY <1>2, SmallNats DEF DeleteKeys, TypeOK
<1> QED BY <1>1, <1>2 DEF TypeOK

\* Only the user that takes the step moves.
LEMMA UserType ==
  ASSUME TypeOK, NEW l \in Locks, NEW u \in Users, Becomes(l, u)
  PROVE  user' \in [Locks -> Users]
BY DEF TypeOK, Becomes

LEMMA CallType ==
  ASSUME TypeOK, NEW l \in Locks, Acquire(l) \/ Call(l) \/ Leave(l)
  PROVE  TypeOK'
<1>0. user[l] \in Users /\ faults \in 0..MaxFaults
  BY DEF TypeOK
<1>1. CASE Acquire(l)
  <2>1. user' \in [Locks -> Users]
    BY <1>1, OutsideType, UserType DEF Acquire
  <2> QED BY <1>1, <2>1 DEF Acquire, TypeOK
<1>2. ASSUME NEW n \in Nodes, NodeGrants(l, n) \/ NodeRefuses(l, n)
      PROVE  TypeOK'
  <2>1. user[l].node + 1 \in 1..(N + 1)
    BY <1>2, SmallNats DEF NodeGrants, NodeRefuses, Asks, Nodes
  <2>2. user' \in [Locks -> Users]
    BY <1>0, <1>2, <2>1, UserType DEF NodeGrants, NodeRefuses, Users
  <2> QED BY <1>0, <1>2, <2>2, NodesType DEF NodeGrants, NodeRefuses, TypeOK
<1>3. ASSUME NEW n \in Nodes, NodeDeletes(l, n)
      PROVE  TypeOK'
  <2>1. user' \in [Locks -> Users]
    BY <1>0, <1>3, UserType DEF NodeDeletes, Users
  <2> QED BY <1>0, <1>3, <2>1, NodesType DEF NodeDeletes, TypeOK
<1>4. CASE Succeed(l) \/ GiveUp(l) \/ Leave(l) \/ Gather(l)
  <2>1. user' \in [Locks -> Users]
    <3>1. CASE Succeed(l)
      BY <1>0, <3>1, SmallNats, UserType DEF Succeed, Users
    <3>2. CASE GiveUp(l)
      <4>1. [Outside EXCEPT !.pc = "undoing", !.pending = Nodes] \in Users
        BY SmallNats DEF Outside, Users
      <4> QED BY <3>2, <4>1, UserType DEF GiveUp
    <3>3. CASE Leave(l)
      <4>1. /\ [Outside EXCEPT !.pc = "releasing", !.pending = Nodes] \in Users
            /\ Outside \in Users
        BY SmallNats DEF Outside, Users
      <4> QED BY <3>3, <4>1, UserType DEF Leave
    <3>4. CASE Gather(l)
      <4>1. Outside \in Users
        BY SmallNats DEF Outside, Users
      <4> QED BY <3>4, <4>1, OutsideType, UserType DEF Gather
    <3> QED BY <1>4, <3>1, <3>2, <3>3, <3>4
  <2> QED BY <1>0, <1>4, <2>1 DEF Succeed, GiveUp, Leave, Gather, TypeOK
<1> QED
  BY <1>1, <1>2, <1>3, <1>4 DEF Call

LEMMA FailType ==
  ASSUME TypeOK, NEW l \in Locks, Fail(l)
  PROVE  TypeOK'
<1>0. user[l] \in Users /\ faults' \in 0..MaxFaults
  <2>1. faults < MaxFaults /\ faults' = faults + 1
    BY DEF Fail, SetFails, EvalFails, Cancel, Crash, Fault
  <2> QED BY <2>1, RedlockAssumption DEF TypeOK
<1>1. ASSUME NEW n \in Nodes, SetFails(l, n)
      PROVE  TypeOK'
  <2>1. user[l].node + 1 \in 1..(N + 1)
    BY <1>1, SmallNats DEF SetFails, Asks, Nodes
  <2>2. user' \in [Locks -> Users]
    BY <1>0, <1>1, <2>1, UserType DEF SetFails, Users
  <2> QED BY <1>0, <1>1, <2>2, NodesType DEF SetFails, TypeOK
<1>2. ASSUME NEW n \in Nodes, EvalFails(l, n)
      PROVE  TypeOK'
  <2>1. user' \in [Locks -> Users]
    BY <1>0, <1>2, UserType DEF EvalFails, Users
  <2> QED BY <1>0, <1>2, <2>1, NodesType DEF EvalFails, TypeOK
<1>3. CASE Cancel(l)
  <2>1. user' \in [Locks -> Users]
    <3>1. Outside \in Users
      BY SmallNats DEF Outside, Users
    <3> QED BY <1>3, <3>1, UserType DEF Cancel
  <2>2. user[l].pending \subseteq Nodes
    BY <1>0 DEF Users
  <2> QED BY <1>0, <1>3, <2>1, <2>2, NodesType DEF Cancel, TypeOK
<1>4. CASE Crash(l)
  <2>1. user' \in [Locks -> Users]
    BY <1>4, OutsideType, UserType DEF Crash
  <2> QED BY <1>0, <1>4, <2>1 DEF Crash, TypeOK
<1> QED
  BY <1>1, <1>2, <1>3, <1>4 DEF Fail

LEMMA NextType == TypeOK /\ [Next]_vars => TypeOK'
<1> SUFFICES ASSUME TypeOK, [Next]_vars PROVE TypeOK'
  OBVIOUS
<1>1. ASSUME NEW l \in Locks, Step(l) PROVE TypeOK'
  BY <1>1, CallType, FailType DEF Step
<1>2. ASSUME NEW n \in Nodes, Restart(n) PROVE TypeOK'
  BY <1>2, RedlockAssumption DEF Restart, Fault, TypeOK
<1>3. CASE Tick
  <2>1. key' \in [Nodes -> Locks \cup {Nobody, Stale}]
    BY <1>3 DEF Tick, TypeOK
  <2>2. ASSUME NEW n \in Nodes PROVE left'[n] \in 0..TTL
    BY <1>3, SmallNats DEF Tick, TypeOK
  <2>3. ASSUME NEW l \in Locks PROVE user'[l] \in Users
    <3>1. user[l] \in Users
      BY DEF TypeOK
    <3>2. user[l].clock < TTL => user[l].clock + 1 \in 0..TTL
      BY <3>1, SmallNats DEF Users
    <3> QED BY <1>3, <3>1, <3>2 DEF Tick, Users
  <2> QED BY <1>3, <2>1, <2>2, <2>3 DEF Tick, TypeOK
<1>4. CASE UNCHANGED vars
  BY <1>4 DEF vars, TypeOK
<1> QED
  BY <1>1, <1>2, <1>3, <1>4 DEF Next

\* Every variable of the lock keeps its type.
THEOREM TypeCorrectness == Spec => []TypeOK
BY InitType, NextType, PTL DEF Spec

-----------------------------------------------------------------------------
(* What the nodes do, whatever fails. *)

\* What a step of l does to node n: the key goes to l when it is free, or
\* leaves l; the time of a key that stays is not touched.
NodeStep(l, n) ==
  \/ key'[n] = key[n] /\ left'[n] = left[n]
  \/ key[n] = Nobody /\ key'[n] = l
     /\ left'[n] \in (TTL - Drift)..TTL
  \/ key[n] = l /\ key'[n] = Nobody
     /\ user[l].pc \in {"undoing", "releasing"} /\ n \in user[l].pending
  \/ key[n] = l /\ key'[n] = Stale /\ left'[n] = left[n] /\ user[l].pc = "out"

LEMMA SetStep ==
  ASSUME TypeOK, NEW l \in Locks, NEW m \in Nodes,
         SetKey(l, m) \/ UNCHANGED <<key, left>>
  PROVE  \A n \in Nodes : NodeStep(l, n)
BY DEF SetKey, TypeOK, NodeStep

LEMMA DeleteStep ==
  ASSUME TypeOK, NEW l \in Locks, user[l].pc \in {"undoing", "releasing"},
         NEW nodes \in SUBSET user[l].pending,
         DeleteKeys(l, nodes) \/ UNCHANGED <<key, left>>
  PROVE  \A n \in Nodes : NodeStep(l, n)
BY DEF DeleteKeys, TypeOK, NodeStep

LEMMA NodesStep ==
  ASSUME TypeOK, NEW l \in Locks, Step(l)
  PROVE  \A n \in Nodes : NodeStep(l, n)
<1>1. CASE Acquire(l)
  BY <1>1 DEF Acquire, NodeStep
<1>2. ASSUME NEW m \in Nodes, NodeGrants(l, m) \/ NodeRefuses(l, m) \/ SetFails(l, m)
      PROVE  \A n \in Nodes : NodeStep(l, n)
  BY <1>2, SetStep DEF NodeGrants, NodeRefuses, SetFails
<1>3. ASSUME NEW m \in Nodes, NodeDeletes(l, m) \/ EvalFails(l, m)
      PROVE  \A n \in Nodes : NodeStep(l, n)
  <2>1. /\ user[l].pc \in {"undoing", "releasing"} /\ {m} \in SUBSET user[l].pending
        /\ DeleteKeys(l, {m}) \/ UNCHANGED <<key, left>>
    BY <1>3 DEF NodeDeletes, EvalFails, Deletes
  <2> QED BY <2>1, DeleteStep
<1>4. CASE Cancel(l)
  BY <1>4, SetStep, DeleteStep DEF Cancel
<1>5. CASE Succeed(l) \/ GiveUp(l) \/ Gather(l) \/ Leave(l) \/ Crash(l)
  BY <1>5 DEF Succeed, GiveUp, Gather, Leave, Crash, NodeStep
<1> QED
  BY <1>1, <1>2, <1>3, <1>4, <1>5 DEF Step, Call, Fail

LEMMA OthersStay ==
  ASSUME TypeOK, NEW l \in Locks, Step(l)
  PROVE  \A o \in Locks \ {l} : user'[o] = user[o]
<1>1. \E u : Becomes(l, u)
  BY DEF Step, Acquire, Call, Leave, Fail, NodeGrants, NodeRefuses, NodeDeletes,
     Succeed, GiveUp, Gather, SetFails, EvalFails, Cancel, Crash
<1> QED
  BY <1>1 DEF Becomes, TypeOK

\* A key with time left goes away only through the release of its own user.
THEOREM OwnerReleases == "restart" \notin Fallible => (Spec => OnlyOwnerReleases)
<1> SUFFICES ASSUME "restart" \notin Fallible PROVE Spec => OnlyOwnerReleases
  OBVIOUS
<1>1. TypeOK /\ [Next]_vars =>
        [\A l \in Locks, n \in Nodes :
           key[n] = l /\ left[n] # 1 /\ key'[n] = Nobody =>
             user[l].pc \in {"undoing", "releasing"}]_vars
  <2> SUFFICES ASSUME TypeOK, [Next]_vars, NEW l \in Locks, NEW n \in Nodes,
                      key[n] = l, left[n] # 1, key'[n] = Nobody
               PROVE  user[l].pc \in {"undoing", "releasing"}
    OBVIOUS
  <2>1. l # Nobody /\ Stale # Nobody
    BY RedlockAssumption
  <2>2. ASSUME NEW o \in Locks, Step(o)
        PROVE  user[l].pc \in {"undoing", "releasing"}
    <3>1. NodeStep(o, n)
      BY <2>2, NodesStep
    <3> QED BY <2>1, <3>1, RedlockAssumption DEF NodeStep
  <2>3. ~Tick /\ ~UNCHANGED vars
    BY <2>1 DEF Tick, vars
  <2> QED BY <2>2, <2>3 DEF Next, Restart
<1> QED
  BY InitType, NextType, <1>1, PTL DEF Spec, OnlyOwnerReleases

(***************************************************************************)
(* No token is left behind: outside of a call the user's token is on no    *)
(* node, and _release_all has yet to ask every node it is on.              *)
(***************************************************************************)
Swept(l) ==
  \A n \in Nodes :
    key[n] = l => \/ user[l].pc \in {"trying", "dead"}
                  \/ user[l].pc = "inside" /\ user[l].token
                  \/ user[l].pc \in {"undoing", "releasing"} /\ n \in user[l].pending

AllSwept == \A l \in Locks : Swept(l)

EvalsSucceed == "eval" \notin Fallible /\ "cancel" \notin Fallible

LEMMA StepSwept ==
  ASSUME EvalsSucceed, TypeOK, AllSwept, NEW l \in Locks, Step(l)
  PROVE  AllSwept'
<1>0. /\ user \in [Locks -> Users] /\ user[l] \in Users /\ Swept(l)
      /\ \A n \in Nodes : NodeStep(l, n)
      /\ l # Nobody /\ l # Stale
  BY NodesStep, RedlockAssumption DEF TypeOK, AllSwept
<1>1. ASSUME NEW o \in Locks \ {l} PROVE Swept(o)'
  <2>1. user'[o] = user[o] /\ Swept(o) /\ o # Nobody /\ o # Stale
    BY OthersStay, RedlockAssumption DEF AllSwept
  <2>2. \A n \in Nodes : key'[n] = o => key[n] = o
    BY <1>0, <2>1 DEF NodeStep
  <2> QED BY <2>1, <2>2 DEF Swept
<1>2. Swept(l)'
  <2>1. CASE Acquire(l)
    BY <1>0, <2>1 DEF Acquire, Becomes, Outside, Swept
  <2>2. ASSUME NEW m \in Nodes, NodeGrants(l, m) \/ NodeRefuses(l, m) \/ SetFails(l, m)
        PROVE  Swept(l)'
    <3>1. user'[l].pc = "trying"
      BY <1>0, <2>2 DEF NodeGrants, NodeRefuses, SetFails, Asks, Becomes, Users
    <3> QED BY <3>1 DEF Swept
  <2>3. ASSUME NEW m \in Nodes, NodeDeletes(l, m)
        PROVE  Swept(l)'
    <3>1. /\ user'[l].pc = user[l].pc /\ user[l].pc \in {"undoing", "releasing"}
          /\ user'[l].pending = user[l].pending \ {m}
      BY <1>0, <2>3 DEF NodeDeletes, Deletes, Becomes, Users
    <3>2. \A n \in Nodes : key'[n] = l => key[n] = l /\ n # m
      BY <1>0, <2>3 DEF NodeDeletes, DeleteKeys
    <3> QED BY <1>0, <3>1, <3>2 DEF Swept
  <2>4. CASE Gather(l)
    <3>1. key' = key /\ \A n \in Nodes : key[n] # l
      BY <1>0, <2>4 DEF Gather, Swept
    <3> QED BY <3>1 DEF Swept
  <2>5. CASE Leave(l)
    <3>1. CASE user[l].token
      <4>1. user'[l].pc = "releasing" /\ user'[l].pending = Nodes
        BY <1>0, <2>5, <3>1 DEF Leave, Becomes, Outside
      <4> QED BY <4>1 DEF Swept
    <3>2. CASE ~user[l].token
      <4>1. key' = key /\ \A n \in Nodes : key[n] # l
        BY <1>0, <2>5, <3>2 DEF Leave, Swept
      <4> QED BY <4>1 DEF Swept
    <3> QED BY <3>1, <3>2
  <2>6. CASE Succeed(l)
    BY <1>0, <2>6 DEF Succeed, Becomes, Users, Swept
  <2>7. CASE GiveUp(l)
    BY <1>0, <2>7 DEF GiveUp, Becomes, Outside, Swept
  <2>8. CASE Crash(l)
    BY <1>0, <2>8 DEF Crash, Becomes, Outside, Swept
  <2> QED
    BY <2>1, <2>2, <2>3, <2>4, <2>5, <2>6, <2>7, <2>8
       DEF Step, Call, Fail, EvalsSucceed, EvalFails, Cancel
<1> QED BY <1>1, <1>2 DEF AllSwept

\* A failed acquire, and a release, leave no token on any node.
THEOREM TokensAreSwept ==
  ASSUME EvalsSucceed
  PROVE  Spec => []NothingLeftBehind
<1>1. Init => AllSwept
  BY RedlockAssumption DEF Init, AllSwept, Swept
<1>2. TypeOK /\ AllSwept /\ [Next]_vars => AllSwept'
  <2> SUFFICES ASSUME TypeOK, AllSwept, [Next]_vars PROVE AllSwept'
    OBVIOUS
  <2>1. ASSUME NEW l \in Locks, Step(l) PROVE AllSwept'
    BY <2>1, StepSwept
  <2>2. ASSUME NEW m \in Nodes, Restart(m) PROVE AllSwept'
    <3>1. user' = user /\ \A n \in Nodes, l \in Locks : key'[n] = l => key[n] = l
      BY <2>2, RedlockAssumption DEF Restart, TypeOK
    <3> QED BY <3>1 DEF AllSwept, Swept
  <2>3. CASE Tick
    <3>1. \A n \in Nodes, l \in Locks : key'[n] = l => key[n] = l
      BY <2>3, RedlockAssumption DEF Tick
    <3>2. ASSUME NEW l \in Locks
          PROVE  /\ user'[l].pc = user[l].pc /\ user'[l].token = user[l].token
                 /\ user'[l].pending = user[l].pending
      BY <2>3 DEF Tick, TypeOK, Users
    <3> QED BY <3>1, <3>2 DEF AllSwept, Swept
  <2>4. CASE UNCHANGED vars
    BY <2>4 DEF vars, AllSwept, Swept
  <2> QED BY <2>1, <2>2, <2>3, <2>4 DEF Next
<1>3. AllSwept => NothingLeftBehind
  BY DEF AllSwept, Swept, NothingLeftBehind
<1> QED
  BY InitType, NextType, <1>1, <1>2, <1>3, PTL DEF Spec

-----------------------------------------------------------------------------
(* Mutual exclusion, as long as no node forgets its keys.  A node that has *)
(* granted the key keeps it for TTL - Drift ticks at least, and the user's *)
(* clock started before it asked: until clock + Drift reaches TTL, a       *)
(* quorum of nodes holds the token, and two quorums share a node.          *)

Kept(l, n) == key[n] = l /\ left[n] + user[l].clock + Drift >= TTL

OnTime(l) == user[l].clock + Drift < TTL

HasQuorum(l) ==
  \E Q \in SUBSET Nodes : Cardinality(Q) >= Quorum /\ \A n \in Q : Kept(l, n)

Promised(l) ==
  /\ user[l].pc = "trying" /\ OnTime(l) => \A n \in user[l].got : Kept(l, n)
  /\ InCriticalSection(l) => HasQuorum(l)

AllPromised == \A l \in Locks : Promised(l)

\* A step of l takes no key from another user.
LEMMA OthersKept ==
  ASSUME TypeOK, AllPromised, NEW l \in Locks, Step(l), NEW o \in Locks \ {l}
  PROVE  Promised(o)'
<1>1. user'[o] = user[o] /\ o # Nobody /\ o # Stale /\ Promised(o)
  BY OthersStay, RedlockAssumption DEF AllPromised
<1>2. \A n \in Nodes : Kept(o, n) => Kept(o, n)'
  <2> SUFFICES ASSUME NEW n \in Nodes, Kept(o, n) PROVE Kept(o, n)'
    OBVIOUS
  <2>1. key'[n] = o /\ left'[n] = left[n]
    BY <1>1, NodesStep DEF NodeStep, Kept
  <2> QED BY <1>1, <2>1 DEF Kept
<1>3. user[o] \in Users
  BY DEF TypeOK
<1> QED
  BY <1>1, <1>2, <1>3 DEF Promised, HasQuorum, InCriticalSection, Acquired, OnTime, Users

LEMMA StepPromised ==
  ASSUME TypeOK, AllPromised, NEW l \in Locks, Step(l)
  PROVE  Promised(l)'
<1>1. /\ user \in [Locks -> Users] /\ user[l] \in Users /\ Promised(l)
      /\ key \in [Nodes -> Locks \cup {Nobody, Stale}] /\ left \in [Nodes -> 0..TTL]
      /\ l # Nobody /\ TTL \in Nat /\ Drift \in Nat
  BY RedlockAssumption DEF TypeOK, AllPromised
<1>2. ASSUME NEW m \in Nodes, NodeGrants(l, m) \/ NodeRefuses(l, m) \/ SetFails(l, m)
      PROVE  Promised(l)'
  <2>1. /\ user[l].pc = "trying" /\ user'[l].pc = "trying"
        /\ user'[l].clock = user[l].clock
    <3>1. CASE NodeGrants(l, m)
      BY <1>1, <3>1 DEF NodeGrants, Asks, Becomes, Users
    <3>2. CASE NodeRefuses(l, m)
      BY <1>1, <3>2 DEF NodeRefuses, Asks, Becomes, Users
    <3>3. CASE SetFails(l, m)
      BY <1>1, <3>3 DEF SetFails, Asks, Becomes, Users
    <3> QED BY <1>2, <3>1, <3>2, <3>3
  <2>2. SetKey(l, m) \/ UNCHANGED <<key, left>>
    BY <1>2 DEF NodeGrants, NodeRefuses, SetFails
  <2>3. \A n \in Nodes : Kept(l, n) => Kept(l, n)'
    BY <1>1, <2>1, <2>2 DEF Kept, SetKey
  <2>4. \/ user'[l].got = user[l].got
        \/ user'[l].got = user[l].got \cup {m} /\ SetKey(l, m)
    BY <1>1, <1>2 DEF NodeGrants, NodeRefuses, SetFails, Becomes, Users
  <2>5. SetKey(l, m) => Kept(l, m)'
    <3> HAVE SetKey(l, m)
    <3>1. key'[m] = l /\ left'[m] \in (TTL - Drift)..TTL
      BY <1>1 DEF SetKey
    <3>2. user'[l].clock \in 0..TTL
      BY <1>1, <2>1 DEF Users
    <3> QED BY <1>1, <3>1, <3>2 DEF Kept
  <2>6. OnTime(l)' => OnTime(l)
    BY <2>1 DEF OnTime
  <2>7. user[l].got \subseteq Nodes
    BY <1>1 DEF Users
  <2> QED
    BY <1>1, <2>1, <2>3, <2>4, <2>5, <2>6, <2>7 DEF Promised, InCriticalSection, Acquired
<1>3. CASE Succeed(l)
  <2>1. /\ user[l].pc = "trying" /\ user'[l].pc = "inside"
        /\ user'[l].clock = user[l].clock /\ UNCHANGED <<key, left>>
        /\ Cardinality(user[l].got) >= Quorum /\ user[l].got \subseteq Nodes
    BY <1>1, <1>3 DEF Succeed, Asked, Won, Becomes, Users
  <2>2. OnTime(l)' => HasQuorum(l)'
    <3> HAVE OnTime(l)'
    <3>1. \A n \in user[l].got : Kept(l, n)'
      BY <1>1, <2>1 DEF Promised, OnTime, Kept
    <3> QED BY <2>1, <3>1 DEF HasQuorum
  <2> QED BY <2>1, <2>2 DEF Promised, InCriticalSection, OnTime
<1>4. CASE Acquire(l)
  BY <1>1, <1>4 DEF Acquire, Becomes, Outside, Promised, InCriticalSection, Acquired
<1>5. CASE GiveUp(l) \/ Gather(l) \/ Leave(l) \/ Cancel(l) \/ Crash(l)
  <2>1. user'[l].pc # "trying" /\ ~user'[l].token
    <3>1. CASE GiveUp(l) \/ Cancel(l) \/ Crash(l)
      <4>1. CASE Becomes(l, Outside)
        BY <1>1, <4>1 DEF Becomes, Outside
      <4>2. CASE Becomes(l, [Outside EXCEPT !.pc = "undoing", !.pending = Nodes])
        BY <1>1, <4>2 DEF Becomes, Outside
      <4>3. CASE Becomes(l, [Outside EXCEPT !.pc = "dead"])
        BY <1>1, <4>3 DEF Becomes, Outside
      <4> QED BY <3>1, <4>1, <4>2, <4>3 DEF GiveUp, Cancel, Crash
    <3>2. CASE Gather(l)
      BY <1>1, <3>2 DEF Gather, Becomes, Outside
    <3>3. CASE Leave(l)
      BY <1>1, <3>3 DEF Leave, Becomes, Outside
    <3> QED BY <1>5, <3>1, <3>2, <3>3
  <2> QED BY <2>1 DEF Promised, InCriticalSection, Acquired
<1>6. ASSUME NEW m \in Nodes, NodeDeletes(l, m) \/ EvalFails(l, m)
      PROVE  Promised(l)'
  <2>1. user'[l].pc \in {"undoing", "releasing"}
    BY <1>1, <1>6 DEF NodeDeletes, EvalFails, Deletes, Becomes, Users
  <2> QED BY <2>1 DEF Promised, InCriticalSection, Acquired
<1> QED
  BY <1>2, <1>3, <1>4, <1>5, <1>6 DEF Step, Call, Fail

LEMMA TickPromised ==
  ASSUME TypeOK, AllPromised, NEW l \in Locks, Tick
  PROVE  Promised(l)'
<1>1. /\ user[l] \in Users /\ Promised(l)
      /\ left \in [Nodes -> 0..TTL] /\ TTL \in Nat /\ Drift \in Nat
  BY RedlockAssumption DEF TypeOK, AllPromised
<1>2. /\ user'[l].pc = user[l].pc /\ user'[l].token = user[l].token
      /\ user'[l].got = user[l].got
  BY <1>1 DEF Tick, Users
<1>3. ASSUME user[l].pc = "trying" \/ user[l].token, OnTime(l)'
      PROVE  OnTime(l) /\ \A n \in Nodes : Kept(l, n) => Kept(l, n)'
  <2>1. user[l].clock \in Nat /\ user[l].clock <= TTL
    BY <1>1 DEF Users
  <2>2. user'[l].clock = IF user[l].clock < TTL THEN user[l].clock + 1 ELSE user[l].clock
    BY <1>1, <1>3 DEF Tick, Users
  <2>3. user'[l].clock = user[l].clock + 1 /\ user[l].clock + 1 + Drift < TTL
    BY <1>1, <1>3, <2>1, <2>2 DEF OnTime
  <2>4. OnTime(l)
    BY <1>1, <2>1, <2>3 DEF OnTime
  <2>5. ASSUME NEW n \in Nodes, Kept(l, n) PROVE Kept(l, n)'
    <3>1. left[n] \in Nat /\ left[n] > 1
      BY <1>1, <2>1, <2>3, <2>5 DEF Kept
    <3>2. key'[n] = key[n] /\ left'[n] = left[n] - 1
      BY <3>1 DEF Tick
    <3> QED BY <1>1, <2>1, <2>3, <2>5, <3>1, <3>2 DEF Kept
  <2> QED BY <2>4, <2>5
<1>4. user[l].got \subseteq Nodes
  BY <1>1 DEF Users
<1> QED
  BY <1>1, <1>2, <1>3, <1>4 DEF Promised, HasQuorum, InCriticalSection, Acquired, OnTime

NodesRemember == "restart" \notin Fallible

LEMMA NextPromised ==
  NodesRemember /\ TypeOK /\ AllPromised /\ [Next]_vars => AllPromised'
<1> SUFFICES ASSUME NodesRemember, TypeOK, AllPromised, [Next]_vars PROVE AllPromised'
  OBVIOUS
<1>1. ASSUME NEW l \in Locks, Step(l) PROVE AllPromised'
  BY <1>1, OthersKept, StepPromised DEF AllPromised
<1>2. CASE Tick
  BY <1>2, TickPromised DEF AllPromised
<1>3. CASE UNCHANGED vars
  BY <1>3 DEF vars, AllPromised, Promised, HasQuorum, Kept, OnTime, InCriticalSection,
     Acquired
<1> QED
  BY <1>1, <1>2, <1>3 DEF Next, Restart, NodesRemember

MutualExclusion ==
  \A l, o \in Locks : InCriticalSection(l) /\ InCriticalSection(o) => l = o

LEMMA PromisedExclusion == AllPromised => MutualExclusion
<1> SUFFICES ASSUME AllPromised, NEW l \in Locks, NEW o \in Locks,
                    InCriticalSection(l), InCriticalSection(o)
             PROVE  l = o
  BY DEF MutualExclusion
<1>1. PICK Q \in SUBSET Nodes : Cardinality(Q) >= Quorum /\ \A n \in Q : Kept(l, n)
  BY DEF AllPromised, Promised, HasQuorum
<1>2. PICK R \in SUBSET Nodes : Cardinality(R) >= Quorum /\ \A n \in R : Kept(o, n)
  BY DEF AllPromised, Promised, HasQuorum
<1>3. PICK n \in Nodes : n \in Q /\ n \in R
  BY <1>1, <1>2, QuorumsIntersect
<1> QED BY <1>1, <1>2, <1>3 DEF Kept

LEMMA InitPromised == Init => AllPromised
BY DEF Init, Outside, AllPromised, Promised, InCriticalSection, Acquired

\* At most one user at a time is in the part of its body the lock protects.
THEOREM RedlockExcludes ==
  ASSUME NodesRemember
  PROVE  Spec => []MutualExclusion
<1>1. NodesRemember
  OBVIOUS
<1> QED
  BY InitType, NextType, InitPromised, NextPromised, PromisedExclusion, <1>1, PTL DEF Spec

-----------------------------------------------------------------------------
(* Redlock implements ExclusiveLock: every step of a user, and every tick, *)
(* takes the lock, gives it back or leaves its owner alone.                *)

\* Nobody enters while another user leaves.
LEMMA OneMoves ==
  ASSUME TypeOK, Next
  PROVE  \/ \E l \in Locks : \A o \in Locks \ {l} :
              InCriticalSection(o)' = InCriticalSection(o)
         \/ \A o \in Locks : InCriticalSection(o)' => InCriticalSection(o)
<1>1. ASSUME NEW l \in Locks, Step(l)
      PROVE  \A o \in Locks \ {l} : InCriticalSection(o)' = InCriticalSection(o)
  BY <1>1, OthersStay DEF InCriticalSection, Acquired
<1>2. ASSUME NEW m \in Nodes, Restart(m)
      PROVE  \A o \in Locks : InCriticalSection(o)' => InCriticalSection(o)
  BY <1>2 DEF Restart, InCriticalSection, Acquired
<1>3. ASSUME Tick, NEW o \in Locks, InCriticalSection(o)'
      PROVE  InCriticalSection(o)
  <2>1. /\ user[o] \in Users /\ user[o].clock \in Nat
        /\ TTL \in Nat /\ Drift \in Nat
    BY RedlockAssumption DEF TypeOK, Users
  <2>2. /\ user'[o].pc = user[o].pc /\ user'[o].token = user[o].token
        /\ user'[o].clock \in {user[o].clock, user[o].clock + 1}
    BY <1>3, <2>1 DEF Tick, Users
  <2> QED BY <1>3, <2>1, <2>2 DEF InCriticalSection, Acquired
<1> QED
  BY <1>1, <1>2, <1>3 DEF Next

LEMMA OwnerInside ==
  ASSUME MutualExclusion
  PROVE  /\ \A l \in Locks : InCriticalSection(l) => Owner = l
         /\ Owner = Nobody <=> \A l \in Locks : ~InCriticalSection(l)
BY RedlockAssumption DEF MutualExclusion, Owner

LEMMA StepImplements ==
  ASSUME TypeOK, MutualExclusion, MutualExclusion', Next
  PROVE  Exclusive!Next \/ UNCHANGED Owner
<1>1. /\ \A l \in Locks : InCriticalSection(l) => Owner = l
      /\ Owner = Nobody <=> \A l \in Locks : ~InCriticalSection(l)
  BY OwnerInside
<1>2. /\ \A l \in Locks : InCriticalSection(l)' => Owner' = l
      /\ Owner' = Nobody <=> \A l \in Locks : ~InCriticalSection(l)'
  BY RedlockAssumption DEF MutualExclusion, Owner
<1>3. ASSUME NEW l \in Locks,
             \A o \in Locks \ {l} : InCriticalSection(o)' = InCriticalSection(o)
      PROVE  Exclusive!Next \/ UNCHANGED Owner
  <2>1. CASE \E o \in Locks \ {l} : InCriticalSection(o)
    BY <1>1, <1>2, <1>3, <2>1
  <2>2. CASE \A o \in Locks \ {l} : ~InCriticalSection(o)
    <3>1. Owner = IF InCriticalSection(l) THEN l ELSE Nobody
      BY <1>1, <2>2
    <3>2. Owner' = IF InCriticalSection(l)' THEN l ELSE Nobody
      BY <1>2, <1>3, <2>2
    <3> QED BY <3>1, <3>2 DEF Exclusive!Next, Exclusive!Take, Exclusive!Give
  <2> QED BY <2>1, <2>2
<1>4. ASSUME \A o \in Locks : InCriticalSection(o)' => InCriticalSection(o)
      PROVE  Exclusive!Next \/ UNCHANGED Owner
  <2>1. CASE Owner' = Nobody
    <3>1. CASE Owner = Nobody
      BY <2>1, <3>1
    <3>2. CASE Owner # Nobody
      <4>1. PICK l \in Locks : Owner = l
        BY <1>1, <3>2
      <4> QED BY <2>1, <4>1 DEF Exclusive!Next, Exclusive!Give
    <3> QED BY <3>1, <3>2
  <2>2. CASE Owner' # Nobody
    BY <1>1, <1>2, <1>4, <2>2
  <2> QED BY <2>1, <2>2
<1> QED
  BY <1>3, <1>4, OneMoves

\* The lock keeps the promise of ExclusiveLock.
THEOREM RedlockImplemented ==
  ASSUME NodesRemember
  PROVE  Spec => ImplementsLock
<1>1. Init => Exclusive!Init
  BY DEF Init, Outside, Owner, InCriticalSection, Acquired, Exclusive!Init
<1>2. TypeOK /\ MutualExclusion /\ MutualExclusion' /\ [Next]_vars
        => [Exclusive!Next]_Owner
  <2> SUFFICES ASSUME TypeOK, MutualExclusion, MutualExclusion', [Next]_vars
               PROVE  Exclusive!Next \/ UNCHANGED Owner
    OBVIOUS
  <2>1. CASE UNCHANGED vars
    BY <2>1 DEF vars, Owner, InCriticalSection, Acquired
  <2> QED BY <2>1, StepImplements
<1>3. Spec => []TypeOK
  BY TypeCorrectness
<1>4. Spec => []MutualExclusion
  BY RedlockExcludes
<1> QED
  BY <1>1, <1>2, <1>3, <1>4, PTL DEF Spec, ImplementsLock, Exclusive!Spec
=============================================================================
