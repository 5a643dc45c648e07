--------------------------- MODULE GatewayProofs ---------------------------
(***************************************************************************)
(* Gateway for every set of requests, targets and channels and every       *)
(* bound: it implements the pool, and what a caller may conclude from its  *)
(* answer holds.                                                           *)
(***************************************************************************)
EXTENDS Gateway, FiniteSetTheorems, TLAPS

-----------------------------------------------------------------------------
(* The inductive invariant.  A user counts for a target, whichever channel *)
(* it was given for it; so the count never exceeds the borrowers, and      *)
(* equals them as long as close_all has taken nothing away.                *)

UsersOf(t) == Cardinality(Borrowers(t))

PooledIsOpen ==
  /\ \A t \in Targets : Pooled(t) => pool[t].channel \in open
  /\ \A c \in open : \E t \in Targets : pool[t].channel = c
  /\ \A s, t \in Targets : Pooled(s) /\ pool[s].channel = pool[t].channel => s = t

CountedAreThere ==
  \A t \in Targets :
    /\ Pooled(t) <=> pool[t].count > 0
    /\ pool[t].count <= UsersOf(t)

NobodyIsMissed ==
  ~swept =>
    /\ \A t \in Targets : pool[t].count = UsersOf(t)
    /\ \A u \in Users : Borrows(u) => lease[u].channel = pool[lease[u].target].channel

PoolInv == PoolTypeOK /\ PooledIsOpen /\ CountedAreThere /\ NobodyIsMissed

-----------------------------------------------------------------------------
(* How many borrow. *)

\* The borrowers of a target are finitely many.
LEMMA BorrowersFinite ==
  ASSUME NEW t \in Targets
  PROVE  /\ IsFiniteSet(Borrowers(t)) /\ UsersOf(t) \in Nat
         /\ UsersOf(t) = 0 <=> Borrowers(t) = {}
<1>1. Borrowers(t) \in SUBSET Users
  BY DEF Borrowers
<1>2. IsFiniteSet(Borrowers(t))
  BY <1>1, PoolAssumption, FS_Subset
<1> QED
  BY <1>2, FS_CardinalityType, FS_EmptySet DEF UsersOf

\* get_channel adds one borrower, to its target.
LEMMA GetChannelAddsOne ==
  ASSUME PoolTypeOK, NEW u \in Users, NEW t \in Targets, GetChannel(u, t)
  PROVE  /\ \A s \in Targets : UsersOf(s)' = IF s = t THEN UsersOf(s) + 1 ELSE UsersOf(s)
         /\ \A v \in Users : v # u => lease'[v] = lease[v]
         /\ Borrows(u)' /\ lease'[u].target = t
<1>1. PICK c \in Channels : lease' = [lease EXCEPT ![u] = [channel |-> c, target |-> t]]
  BY DEF GetChannel, Reuse, Create, Pooled, PoolTypeOK
<1>2. /\ \A v \in Users : v # u => lease'[v] = lease[v]
      /\ lease'[u] = [channel |-> c, target |-> t]
  BY <1>1 DEF PoolTypeOK
<1>3. lease'[u] # NoLease
  BY <1>2, PoolAssumption
<1>4. ~Borrows(u)
  BY DEF GetChannel
<1>5. ASSUME NEW s \in Targets
      PROVE  UsersOf(s)' = IF s = t THEN UsersOf(s) + 1 ELSE UsersOf(s)
  <2>1. CASE s = t
    <3>1. Borrowers(s)' = Borrowers(s) \cup {u}
      BY <1>2, <1>3, <2>1 DEF Borrowers, Borrows
    <3>2. u \notin Borrowers(s)
      BY <1>4 DEF Borrowers
    <3> QED
      BY <2>1, <3>1, <3>2, BorrowersFinite, FS_AddElement DEF UsersOf
  <2>2. CASE s # t
    <3>1. Borrowers(s)' = Borrowers(s)
      BY <1>2, <1>3, <1>4, <2>2 DEF Borrowers, Borrows
    <3> QED
      BY <2>2, <3>1 DEF UsersOf
  <2> QED
    BY <2>1, <2>2
<1> QED
  BY <1>2, <1>3, <1>5 DEF Borrows

\* release_channel takes one borrower away, from the target it was given.
LEMMA ReleaseTakesOne ==
  ASSUME PoolTypeOK, NEW u \in Users, ReleaseChannel(u)
  PROVE  /\ \A s \in Targets : UsersOf(s)' =
              IF s = lease[u].target THEN UsersOf(s) - 1 ELSE UsersOf(s)
         /\ \A v \in Users : v # u => lease'[v] = lease[v]
         /\ ~Borrows(u)' /\ u \in Borrowers(lease[u].target) /\ lease[u].target \in Targets
<1>1. /\ Borrows(u) /\ lease[u] \in [channel : Channels, target : Targets]
      /\ \A v \in Users : v # u => lease'[v] = lease[v]
      /\ lease'[u] = NoLease
  BY DEF ReleaseChannel, PoolTypeOK, Borrows
<1>2. u \in Borrowers(lease[u].target)
  BY <1>1 DEF Borrowers
<1>3. ASSUME NEW s \in Targets
      PROVE  UsersOf(s)' = IF s = lease[u].target THEN UsersOf(s) - 1 ELSE UsersOf(s)
  <2>1. CASE s = lease[u].target
    <3>1. Borrowers(s)' = Borrowers(s) \ {u}
      BY <1>1, <2>1 DEF Borrowers, Borrows
    <3> QED
      BY <1>2, <2>1, <3>1, BorrowersFinite, FS_RemoveElement DEF UsersOf
  <2>2. CASE s # lease[u].target
    <3>1. Borrowers(s)' = Borrowers(s)
      BY <1>1, <2>2 DEF Borrowers, Borrows
    <3> QED
      BY <2>2, <3>1 DEF UsersOf
  <2> QED
    BY <2>1, <2>2
<1> QED
  BY <1>1, <1>2, <1>3 DEF Borrows

-----------------------------------------------------------------------------
(* Every operation keeps the invariant. *)

LEMMA InitPoolInv == PoolInit => PoolInv
<1> SUFFICES ASSUME PoolInit PROVE PoolInv
  OBVIOUS
<1> USE DEF PoolInit, Empty
<1>1. PoolTypeOK
  BY DEF PoolTypeOK
<1>2. PooledIsOpen
  BY DEF PooledIsOpen, Pooled
<1>3. \A t \in Targets : UsersOf(t) = 0
  BY BorrowersFinite DEF Borrowers, Borrows
<1>4. CountedAreThere
  BY <1>3 DEF CountedAreThere, Pooled
<1>5. NobodyIsMissed
  BY <1>3 DEF NobodyIsMissed, Borrows
<1> QED
  BY <1>1, <1>2, <1>4, <1>5 DEF PoolInv

LEMMA GetChannelPoolInv ==
  ASSUME PoolInv, NEW u \in Users, NEW t \in Targets, GetChannel(u, t)
  PROVE  PoolInv'
<1> USE DEF PoolInv
<1>1. /\ \A s \in Targets : UsersOf(s) \in Nat
      /\ \A s \in Targets : UsersOf(s)' = IF s = t THEN UsersOf(s) + 1 ELSE UsersOf(s)
      /\ \A v \in Users : v # u => lease'[v] = lease[v]
      /\ Borrows(u)' /\ lease'[u].target = t
  BY GetChannelAddsOne, BorrowersFinite
<1>2. CASE Reuse(u, t)
  <2>1. /\ pool[t].channel \in Channels /\ pool'[t].channel = pool[t].channel
        /\ pool'[t].count = pool[t].count + 1
        /\ \A s \in Targets : s # t => pool'[s] = pool[s]
        /\ lease'[u].channel = pool[t].channel /\ open' = open
    BY <1>2 DEF Reuse, PoolTypeOK, Pooled
  <2>2. PoolTypeOK'
    BY <1>2 DEF GetChannel, Reuse, PoolTypeOK, Pooled
  <2>3. PooledIsOpen'
    BY <2>1 DEF PooledIsOpen, Pooled
  <2>4. CountedAreThere'
    BY <1>1, <1>2, <2>1 DEF CountedAreThere, Pooled, Reuse, PoolTypeOK
  <2>5. NobodyIsMissed'
    BY <1>1, <2>1 DEF NobodyIsMissed, Borrows, GetChannel, PoolTypeOK
  <2> QED
    BY <2>2, <2>3, <2>4, <2>5
<1>3. CASE Create(u, t)
  <2>1. PICK c \in Channels :
          /\ ~Pooled(t) /\ New(c)
          /\ pool' = [pool EXCEPT ![t] = [channel |-> c, count |-> 1]]
          /\ lease' = [lease EXCEPT ![u] = [channel |-> c, target |-> t]]
          /\ open' = open \cup {c}
    BY <1>3 DEF Create
  <2>2. /\ pool'[t] = [channel |-> c, count |-> 1]
        /\ \A s \in Targets : s # t => pool'[s] = pool[s]
        /\ lease'[u].channel = c
    BY <2>1 DEF PoolTypeOK
  <2>3. PoolTypeOK'
    BY <2>1 DEF GetChannel, PoolTypeOK
  <2>4. PooledIsOpen'
    <3>1. c # NoChannel /\ \A s \in Targets : pool[s].channel # c
      BY <2>1, PoolAssumption DEF New
    <3>2. \A d \in open : \E s \in Targets : s # t /\ pool[s].channel = d
      BY <2>1, PoolAssumption DEF PooledIsOpen, Pooled, PoolTypeOK
    <3> QED
      BY <2>1, <2>2, <3>1, <3>2 DEF PooledIsOpen, Pooled
  <2>5. CountedAreThere'
    BY <1>1, <2>1, <2>2, PoolAssumption DEF CountedAreThere, Pooled
  <2>6. NobodyIsMissed'
    <3> SUFFICES ASSUME ~swept
                 PROVE  /\ \A s \in Targets : pool'[s].count = UsersOf(s)'
                        /\ \A v \in Users : Borrows(v)' =>
                             lease'[v].channel = pool'[lease'[v].target].channel
      BY DEF NobodyIsMissed, GetChannel
    <3>1. pool[t].count = 0
      BY <2>1 DEF CountedAreThere, PoolTypeOK
    <3>2. Borrowers(t) = {}
      BY <3>1, BorrowersFinite DEF NobodyIsMissed
    <3>3. \A v \in Users : Borrows(v) => lease[v].target # t /\ lease[v].target \in Targets
      BY <3>2 DEF Borrowers, PoolTypeOK, Borrows
    <3> QED
      BY <1>1, <2>2, <3>1, <3>3 DEF NobodyIsMissed, Borrows
  <2> QED
    BY <2>3, <2>4, <2>5, <2>6
<1> QED
  BY <1>2, <1>3 DEF GetChannel

LEMMA ReleaseChannelPoolInv ==
  ASSUME PoolInv, NEW u \in Users, ReleaseChannel(u)
  PROVE  PoolInv'
<1> USE DEF PoolInv
<1>0. PICK t \in Targets : t = lease[u].target
  BY ReleaseTakesOne
<1>1. /\ \A s \in Targets : UsersOf(s) \in Nat /\ UsersOf(s)' \in Nat
      /\ \A s \in Targets : UsersOf(s)' = IF s = t THEN UsersOf(s) - 1 ELSE UsersOf(s)
      /\ \A v \in Users : v # u => lease'[v] = lease[v]
      /\ ~Borrows(u)' /\ u \in Borrowers(t)
  <2>1. \A s \in Targets : UsersOf(s) \in Nat /\ UsersOf(s)' \in Nat
    <3>1. \A s \in Targets : UsersOf(s) \in Nat /\ (u \in Borrowers(s) => UsersOf(s) > 0)
      BY BorrowersFinite
    <3> QED
      BY <3>1, ReleaseTakesOne
  <2> QED
    BY <1>0, <2>1, ReleaseTakesOne
<1>2. GiveBack(t)
  BY <1>0 DEF ReleaseChannel
<1>3. PoolTypeOK'
  BY <1>1, <1>2 DEF ReleaseChannel, GiveBack, PoolTypeOK, Empty, Pooled
<1>4. PooledIsOpen' /\ CountedAreThere'
  <2>1. CASE /\ pool[t].count > 1
             /\ pool' = [pool EXCEPT ![t].count = @ - 1] /\ open' = open
    <3>1. /\ pool'[t].channel = pool[t].channel /\ pool'[t].count = pool[t].count - 1
          /\ \A s \in Targets : s # t => pool'[s] = pool[s]
      BY <1>1, <2>1 DEF PoolTypeOK
    <3> QED
      BY <1>1, <2>1, <3>1 DEF PooledIsOpen, CountedAreThere, Pooled, PoolTypeOK
  <2>2. CASE /\ Pooled(t) /\ pool[t].count <= 1
             /\ pool' = [pool EXCEPT ![t] = Empty] /\ open' = open \ {pool[t].channel}
    <3>1. /\ pool'[t] = Empty /\ \A s \in Targets : s # t => pool'[s] = pool[s]
      BY <1>1, <2>2 DEF PoolTypeOK
    <3>2. PooledIsOpen'
      BY <1>1, <2>2, <3>1, PoolAssumption DEF PooledIsOpen, Pooled, Empty, PoolTypeOK
    <3>3. CountedAreThere'
      BY <1>1, <3>1 DEF CountedAreThere, Pooled, Empty
    <3> QED
      BY <3>2, <3>3
  <2>3. CASE ~Pooled(t) /\ UNCHANGED <<pool, open>>
    <3>1. pool[t].count = 0
      BY <1>1, <2>3 DEF CountedAreThere, PoolTypeOK
    <3> QED
      BY <1>1, <2>3, <3>1 DEF PooledIsOpen, CountedAreThere, Pooled
  <2> QED
    BY <1>2, <2>1, <2>2, <2>3 DEF GiveBack
<1>5. NobodyIsMissed'
  <2> SUFFICES ASSUME ~swept' PROVE NobodyIsMissed'
    BY DEF NobodyIsMissed
  <2>1. CASE \A v \in Users \ {u} : ~Borrows(v)
    <3>1. \A v \in Users : ~Borrows(v)'
      BY <1>1, <2>1 DEF Borrows
    <3>2. \A s \in Targets : UsersOf(s)' = 0
      <4>1. \A s \in Targets : Borrowers(s)' = {}
        BY <3>1 DEF Borrowers
      <4> QED
        BY <4>1, FS_EmptySet DEF UsersOf
    <3>3. \A s \in Targets : pool'[s].count = 0
      BY <1>3, <1>4, <3>2 DEF CountedAreThere, PoolTypeOK
    <3> QED
      BY <3>1, <3>2, <3>3 DEF NobodyIsMissed
  <2>2. CASE ~swept
    <3>1. pool[t].count = UsersOf(t) /\ Pooled(t) /\ UsersOf(t) > 0
      <4>1. UsersOf(t) > 0
        BY <1>1, BorrowersFinite
      <4> QED
        BY <1>1, <2>2, <4>1 DEF NobodyIsMissed, CountedAreThere
    <3>4. \A v \in Users : Borrows(v)' =>
             /\ lease'[v] = lease[v] /\ lease[v].target \in Targets
             /\ lease[v].channel = pool[lease[v].target].channel
      BY <1>1, <2>2 DEF NobodyIsMissed, Borrows, PoolTypeOK
    <3>2. CASE pool[t].count > 1
      <4>1. /\ pool'[t].channel = pool[t].channel /\ pool'[t].count = pool[t].count - 1
            /\ \A s \in Targets : s # t => pool'[s] = pool[s]
        BY <1>1, <1>2, <3>1, <3>2 DEF GiveBack, PoolTypeOK
      <4>2. \A s \in Targets : pool'[s].count = UsersOf(s)'
        BY <1>1, <2>2, <3>1, <4>1 DEF NobodyIsMissed
      <4> QED
        BY <3>4, <4>1, <4>2 DEF NobodyIsMissed
    <3>3. CASE pool[t].count <= 1
      <4>1. /\ pool'[t] = Empty /\ \A s \in Targets : s # t => pool'[s] = pool[s]
        BY <1>1, <1>2, <3>1, <3>3 DEF GiveBack, PoolTypeOK
      <4>2. UsersOf(t)' = 0
        BY <1>1, <3>1, <3>3
      <4>3. Borrowers(t)' = {}
        <5>1. IsFiniteSet(Borrowers(t)')
          BY PoolAssumption, FS_Subset DEF Borrowers
        <5> QED
          BY <4>2, <5>1, FS_EmptySet DEF UsersOf
      <4>4. \A v \in Users : Borrows(v)' => lease'[v].target # t
        BY <4>3 DEF Borrowers
      <4>5. \A s \in Targets : pool'[s].count = UsersOf(s)'
        BY <1>1, <2>2, <3>1, <4>1, <4>2 DEF NobodyIsMissed, Empty
      <4> QED
        BY <3>4, <4>1, <4>4, <4>5 DEF NobodyIsMissed
    <3> QED
      BY <1>1, <3>2, <3>3 DEF PoolTypeOK
  <2> QED
    BY <2>1, <2>2 DEF ReleaseChannel
<1> QED
  BY <1>3, <1>4, <1>5

LEMMA CloseAllPoolInv ==
  ASSUME PoolInv, CloseAll
  PROVE  PoolInv'
<1> USE DEF PoolInv
<1>1. /\ \A t \in Targets : pool'[t] = Empty
      /\ open' = {}
  BY DEF CloseAll, PooledIsOpen
<1>2. PoolTypeOK'
  BY DEF CloseAll, PoolTypeOK, Empty
<1>3. PooledIsOpen'
  BY <1>1 DEF PooledIsOpen, Pooled, Empty
<1>4. \A t \in Targets : UsersOf(t)' = UsersOf(t) /\ UsersOf(t) \in Nat
  BY BorrowersFinite DEF CloseAll, UsersOf, Borrowers, Borrows
<1>5. CountedAreThere'
  BY <1>1, <1>4 DEF CountedAreThere, Pooled, Empty
<1>6. NobodyIsMissed'
  <2> SUFFICES ASSUME ~swept' PROVE NobodyIsMissed'
    BY DEF NobodyIsMissed
  <2>1. \A u \in Users : ~Borrows(u) /\ ~Borrows(u)'
    BY DEF CloseAll, Borrows
  <2>2. \A t \in Targets : UsersOf(t) = 0
    BY <2>1, BorrowersFinite DEF Borrowers
  <2> QED
    BY <1>1, <1>4, <2>1, <2>2 DEF NobodyIsMissed, Empty
<1> QED
  BY <1>2, <1>3, <1>5, <1>6

LEMMA StutterPoolInv ==
  ASSUME PoolInv, UNCHANGED poolVars
  PROVE  PoolInv'
BY DEF PoolInv, poolVars, PoolTypeOK, PooledIsOpen, CountedAreThere, NobodyIsMissed,
       Pooled, UsersOf, Borrowers, Borrows

\* The invariant says what the properties of the pool promise.
LEMMA PoolInvSuffices == PoolInv => PoolTypeOK /\ InUseOpen /\ NothingLeaks
<1> SUFFICES ASSUME PoolInv PROVE InUseOpen /\ NothingLeaks
  BY DEF PoolInv
<1> USE DEF PoolInv
<1>1. InUseOpen
  <2> SUFFICES ASSUME ~swept, NEW u \in Users, Borrows(u)
               PROVE  lease[u].channel \in open
    BY DEF InUseOpen
  <2>1. /\ lease[u] \in [channel : Channels, target : Targets]
        /\ lease[u].channel = pool[lease[u].target].channel
    BY DEF NobodyIsMissed, Borrows, PoolTypeOK
  <2> QED
    BY <2>1, PoolAssumption DEF PooledIsOpen, Pooled
<1>2. NothingLeaks
  <2>1. ASSUME NEW t \in Targets, Borrowers(t) = {} PROVE ~Pooled(t)
    BY <2>1, BorrowersFinite DEF CountedAreThere, PoolTypeOK
  <2> QED
    BY <2>1 DEF NothingLeaks, PooledIsOpen
<1> QED
  BY <1>1, <1>2

\* The pool keeps its promises in every run of its operations, however many
\* coroutines use it for however many targets.
THEOREM PoolCorrect == PoolSpec => [](PoolTypeOK /\ InUseOpen /\ NothingLeaks)
<1>1. PoolInit => PoolInv
  BY InitPoolInv
<1>2. PoolInv /\ [PoolNext]_poolVars => PoolInv'
  BY GetChannelPoolInv, ReleaseChannelPoolInv, CloseAllPoolInv, StutterPoolInv
     DEF PoolNext
<1>3. PoolInv => PoolTypeOK /\ InUseOpen /\ NothingLeaks
  BY PoolInvSuffices
<1> QED
  BY <1>1, <1>2, <1>3, PTL DEF PoolSpec

-----------------------------------------------------------------------------
(* The requests use the pool as ChannelPool says. *)

\* Every step of the gateway is a step of the pool or none of its business.
THEOREM ImplementsPool == Spec => PoolSpec
<1>1. Init => PoolInit
  BY DEF Init
<1>2. [Next]_vars => [PoolNext]_poolVars
  <2> SUFFICES ASSUME Next, ~UNCHANGED poolVars PROVE PoolNext
    BY DEF vars
  <2>1. \/ \E r \in Calls : Unblock(r) \/ Return(r) \/ \E t \in Targets : Borrow(r, t)
        \/ Sweep
    BY DEF Next, SkuRoute, CallBlocking, Call, Finish, BackOff, Retry, ServerStep
  <2> QED
    BY <2>1, GatewayAssumption
       DEF Unblock, Return, Borrow, Sweep, PoolNext
<1> QED
  BY <1>1, <1>2, PTL DEF Spec, PoolSpec

\* So the channel a request borrows is open until close_all comes, whatever
\* other requests release meanwhile.
THEOREM PoolHolds == Spec => []InUseOpen
BY ImplementsPool, PoolCorrect, PTL

\* And when the requests for a target have all released theirs, its channel is
\* closed, also after a close_all and though the last release raises.
THEOREM PoolIsTidy == Spec => []NothingLeaks
BY ImplementsPool, PoolCorrect, PTL

-----------------------------------------------------------------------------
(* The inductive invariant.  A handler of a request, whether it still has  *)
(* the client or is an orphan, is good for one execution, and there is one *)
(* handler per attempt.                                                    *)

Pending(r) == reply[r] = "sent" \/ handler[r] = "running"

HandlerInv(r) ==
  /\ handler[r] \in Running => reply[r] = "waiting"
  /\ handler[r] = "committed" => executed[r] > 0
  /\ reply[r] = "OK" /\ r \notin overlapped => executed[r] > 0

\* What has been executed for a request, and what its orphans still may.
Done(r) == executed[r] + orphans[r]

AttemptInv(r) ==
  /\ request[r].pc \in {"idle", "holding"} => reply[r] = "none" /\ Done(r) = 0
  /\ request[r].pc = "backoff" => Answered(r) /\ request[r].attempt < MaxRetries
  /\ request[r].pc \in {"backoff", "bare"} => request[r].again
  /\ ~request[r].again => request[r].attempt = 0
  /\ Done(r) <= request[r].attempt + 1
  /\ Pending(r) => Done(r) <= request[r].attempt

CallInv == \A r \in Calls : HandlerInv(r) /\ AttemptInv(r)

GatewayTypeOK == ServerTypeOK /\ request \in [Calls -> Requests]

GatewayInv == GatewayTypeOK /\ CallInv

-----------------------------------------------------------------------------
LEMMA InitGatewayInv == Init => GatewayInv
<1> SUFFICES ASSUME Init PROVE GatewayInv
  OBVIOUS
<1>0. ServerInit /\ request = [r \in Calls |-> Idle(0)]
  BY DEF Init
<1> USE DEF ServerInit
<1>1. ServerTypeOK
  <2>1. starts \in 0..MaxStarts /\ losses \in 0..MaxLosses
    BY <1>0, ServerAssumption
  <2> QED
    BY <1>0, <2>1 DEF ServerTypeOK, Phases, Replies
<1>2. request \in [Calls -> Requests]
  BY <1>0, GatewayAssumption DEF Requests, Idle
<1>3. CallInv
  BY <1>0 DEF CallInv, HandlerInv, AttemptInv, Done, Pending, Running, Idle
<1> QED
  BY <1>1, <1>2, <1>3 DEF GatewayInv, GatewayTypeOK

\* What the invariant says of a call depends on its own request, reply, handlers
\* and count, and is not hurt when another comes to overlap it.
LEMMA SameCall ==
  ASSUME CallInv, NEW c \in Calls,
         reply'[c] = reply[c], handler'[c] = handler[c], orphans'[c] = orphans[c],
         executed'[c] = executed[c], request'[c] = request[c],
         c \in overlapped => c \in overlapped'
  PROVE  HandlerInv(c)' /\ AttemptInv(c)'
BY DEF CallInv, HandlerInv, AttemptInv, Done, Pending, Answered

\* A handler that is abandoned is an orphan, with one execution ahead as before,
\* or a stray that was executed already.
LEMMA AbandonKeepsCalls ==
  ASSUME GatewayInv, NEW C \in SUBSET Calls, Abandon(C),
         HangUp(C) \/ UNCHANGED reply, UNCHANGED <<historyVars, request>>
  PROVE  /\ reply' \in [Calls -> Replies]
         /\ handler' \in [Calls -> {"none"} \cup Running]
         /\ orphans' \in [Calls -> Nat] /\ strays' \in Nat
         /\ CallInv'
<1> USE DEF GatewayInv, GatewayTypeOK, ServerTypeOK, Replies, historyVars
<1>1. /\ reply' \in [Calls -> Replies]
      /\ handler' \in [Calls -> {"none"} \cup Running]
      /\ orphans' \in [Calls -> Nat]
  BY DEF Abandon, HangUp
<1>2. strays' \in Nat
  <2> DEFINE D == {c \in C : handler[c] = "committed"}
  <2>1. D \subseteq Calls /\ IsFiniteSet(Calls)
    BY ServerAssumption
  <2>2. Cardinality(D) \in Nat
    BY <2>1, FS_Subset, FS_CardinalityType
  <2>3. strays' = strays + Cardinality(D)
    BY DEF Abandon
  <2> HIDE DEF D
  <2> QED
    BY <2>2, <2>3
<1>3. ASSUME NEW c \in Calls PROVE HandlerInv(c)' /\ AttemptInv(c)'
  <2>1. HandlerInv(c) /\ AttemptInv(c)
    BY DEF CallInv
  <2>2. /\ \/ handler'[c] = handler[c] /\ orphans'[c] = orphans[c]
           \/ /\ handler'[c] = "none"
              /\ orphans'[c] = IF handler[c] = "running" THEN orphans[c] + 1 ELSE orphans[c]
        /\ \/ reply'[c] = reply[c]
           \/ reply[c] \in {"sent", "waiting"} /\ reply'[c] = "UNAVAILABLE"
        /\ handler'[c] \in Running => reply'[c] = "waiting"
    BY <2>1 DEF Abandon, HangUp, HandlerInv, Running
  <2>3. HandlerInv(c)'
    BY <2>1, <2>2 DEF HandlerInv
  <2>4. AttemptInv(c)'
    BY <2>1, <2>2, GatewayAssumption
       DEF AttemptInv, HandlerInv, Done, Pending, Answered, Running, Requests
  <2> QED
    BY <2>3, <2>4
<1> QED
  BY <1>1, <1>2, <1>3 DEF CallInv

LEMMA ProcessKeepsInv ==
  ASSUME GatewayInv, ProcessStep, UNCHANGED request
  PROVE  GatewayInv'
<1> USE DEF GatewayInv, GatewayTypeOK
<1>1. CASE Launch \/ BeginServing \/ Signal \/ Stop
  <2> USE DEF Launch, BeginServing, Signal, Stop, Fresh
  <2>1. UNCHANGED callVars
    BY <1>1 DEF callVars
  <2>2. ServerTypeOK'
    <3>1. starts' \in 0..MaxStarts
      BY <1>1, ServerAssumption DEF ServerTypeOK
    <3> QED
      BY <1>1, <2>1, <3>1 DEF ServerTypeOK, Phases, callVars, orphanVars, historyVars
  <2>3. CallInv'
    BY <2>1, SameCall DEF CallInv, callVars, orphanVars, historyVars
  <2> QED
    BY <2>2, <2>3
<1>2. CASE Crash \/ CancelTasks
  <2>1. /\ Abandon(Calls)
        /\ HangUp(Calls) \/ UNCHANGED reply
        /\ UNCHANGED <<historyVars, losses>>
    BY <1>2 DEF Crash, CancelTasks
  <2>2. ServerTypeOK'
    BY <1>2, <2>1, AbandonKeepsCalls
       DEF ServerTypeOK, Crash, CancelTasks, processVars, historyVars
  <2> QED
    BY <2>1, <2>2, AbandonKeepsCalls
<1>3. CASE Exit \/ Kill
  <2>1. /\ reply' \in [Calls -> Replies]
        /\ UNCHANGED <<executed, overlapped, starts, losses>>
    BY <1>3 DEF Exit, Kill, HangUp, ServerTypeOK, Replies, historyVars
  <2>2. ServerTypeOK'
    <3>1. /\ handler' \in [Calls -> {"none"} \cup Running]
          /\ orphans' \in [Calls -> Nat] /\ strays' \in Nat
      BY <1>3 DEF Exit, Kill, ServerTypeOK, orphanVars
    <3> QED
      BY <1>3, <2>1, <3>1 DEF Exit, Kill, Fresh, ServerTypeOK, Phases
  <2>3. ASSUME NEW c \in Calls PROVE HandlerInv(c)' /\ AttemptInv(c)'
    <3>1. HandlerInv(c) /\ AttemptInv(c)
      BY DEF CallInv
    <3>2. /\ handler'[c] = "none" /\ orphans'[c] = 0 /\ orphans[c] \in Nat
          /\ executed' = executed /\ overlapped' = overlapped
          /\ \/ reply'[c] = reply[c]
             \/ reply[c] \in {"sent", "waiting"} /\ reply'[c] = "UNAVAILABLE"
      BY <1>3, <2>1 DEF Exit, Kill, HangUp, ServerTypeOK, Active, orphanVars
    <3>3. /\ executed[c] \in Nat /\ Done(c)' = executed[c]
          /\ Done(c)' <= Done(c) /\ Done(c) \in Nat /\ Done(c)' \in Nat
      BY <3>2 DEF Done, ServerTypeOK
    <3>4. HandlerInv(c)'
      BY <3>1, <3>2 DEF HandlerInv, Running
    <3>5. AttemptInv(c)'
      BY <3>1, <3>2, <3>3, GatewayAssumption
         DEF AttemptInv, Pending, Answered, Running, Requests
    <3> QED
      BY <3>4, <3>5
  <2> QED
    BY <2>2, <2>3 DEF CallInv
<1>4. CASE StrayEnds
  <2>1. ServerTypeOK'
    BY <1>4 DEF StrayEnds, ServerTypeOK, processVars, historyVars
  <2>2. CallInv'
    BY <1>4, SameCall DEF StrayEnds, CallInv, historyVars
  <2> QED
    BY <2>1, <2>2
<1> QED
  BY <1>1, <1>2, <1>3, <1>4 DEF ProcessStep

\* A step of a call leaves the others alone, but for overlapping them.
LEMMA OneCallKeepsInv ==
  ASSUME GatewayInv, NEW c \in Calls, ServerTypeOK', request' \in [Calls -> Requests],
         \A d \in Calls \ {c} : /\ reply'[d] = reply[d] /\ handler'[d] = handler[d]
                                /\ orphans'[d] = orphans[d]
                                /\ executed'[d] = executed[d] /\ request'[d] = request[d]
                                /\ d \in overlapped => d \in overlapped',
         HandlerInv(c)', AttemptInv(c)'
  PROVE  GatewayInv'
BY SameCall DEF GatewayInv, GatewayTypeOK, CallInv

LEMMA CallStepKeepsInv ==
  ASSUME GatewayInv, NEW c \in Calls, CallStep(c) \/ Fail(c, AbortedStatus),
         UNCHANGED request
  PROVE  GatewayInv'
<1> USE DEF GatewayInv, GatewayTypeOK
<1>0. HandlerInv(c) /\ AttemptInv(c)
  BY DEF CallInv
<1>1. CASE \/ Refuse(c) \/ Dispatch(c) \/ Commit(c) \/ Respond(c)
           \/ OrphanEnds(c) \/ Fail(c, AbortedStatus)
  <2> USE DEF Refuse, Dispatch, Commit, Respond, OrphanEnds, Fail, Answer,
              AbortedStatus, ServerTypeOK, orphanVars, historyVars
  <2>1. UNCHANGED processVars /\ UNCHANGED <<losses, strays>>
    BY <1>1
  <2>2. ServerTypeOK'
    <3>1. /\ reply' \in [Calls -> Replies] /\ handler' \in [Calls -> {"none"} \cup Running]
          /\ orphans' \in [Calls -> Nat] /\ executed' \in [Calls -> Nat]
      BY <1>1 DEF Replies, Running
    <3>2. overlapped' \subseteq Calls
      BY <1>1 DEF Active
    <3> QED
      BY <2>1, <3>1, <3>2 DEF processVars
  <2>3. \A d \in Calls \ {c} : /\ reply'[d] = reply[d] /\ handler'[d] = handler[d]
                               /\ orphans'[d] = orphans[d]
                               /\ executed'[d] = executed[d] /\ request'[d] = request[d]
                               /\ d \in overlapped => d \in overlapped'
    BY <1>1
  <2>4. HandlerInv(c)'
    BY <1>0, <1>1 DEF HandlerInv, Running
  <2>5. AttemptInv(c)'
    BY <1>0, <1>1, GatewayAssumption
       DEF HandlerInv, AttemptInv, Done, Pending, Answered, Running, Requests
  <2> QED
    BY <2>2, <2>3, <2>4, <2>5, OneCallKeepsInv
<1>2. CASE LoseConnection(c)
  <2>1. Abandon({c}) /\ HangUp({c}) /\ UNCHANGED <<historyVars, processVars>>
    BY <1>2 DEF LoseConnection
  <2>2. ServerTypeOK'
    BY <1>2, <2>1, AbandonKeepsCalls, ServerAssumption
       DEF ServerTypeOK, LoseConnection, processVars, historyVars
  <2> QED
    BY <2>1, <2>2, AbandonKeepsCalls
<1> QED
  BY <1>1, <1>2 DEF CallStep

\* A request begins with nothing attempted.
LEMMA BeginsAfresh ==
  ASSUME request \in [Calls -> Requests], NEW r \in Calls,
         NEW pc \in {"holding"} \cup Calling, Begins(r, pc)
  PROVE  /\ request' \in [Calls -> Requests]
         /\ request'[r].pc = pc /\ request'[r].attempt = 0
         /\ request'[r].again <=> pc = "bare"
<1> DEFINE q == [pc |-> pc, attempt |-> 0, again |-> pc = "bare", answer |-> 0]
<1>1. q \in Requests
  BY GatewayAssumption DEF Requests, Calling
<1>2. request' = [request EXCEPT ![r] = q]
  BY DEF Begins
<1>3. request'[r] = q
  BY <1>2
<1> QED
  BY <1>1, <1>2, <1>3

LEMMA RequestKeepsInv ==
  ASSUME GatewayInv, NEW r \in Calls,
         \/ SkuRoute(r) \/ CallBlocking(r) \/ Unblock(r) \/ Return(r)
         \/ Call(r) \/ Finish(r) \/ BackOff(r) \/ Retry(r)
         \/ \E t \in Targets : Borrow(r, t)
  PROVE  GatewayInv'
<1> USE DEF GatewayInv, GatewayTypeOK
<1>0. HandlerInv(r) /\ AttemptInv(r) /\ request[r] \in Requests
  BY DEF CallInv
<1>1. CASE SkuRoute(r) \/ Unblock(r) \/ Return(r) \/ Finish(r)
  <2>1. PICK status \in {200, InternalStatus} \cup BffStatuses : Ends(r, status)
    BY <1>1 DEF SkuRoute, Unblock, Return, Finish, BffStatus, InternalStatus, BffStatuses
  <2>2. request[r].pc = "idle" \/ request[r].pc = "holding" \/ Answered(r)
    BY <1>1 DEF SkuRoute, Unblock, Return, Finish
  <2>3. handler[r] \notin Running
    BY <1>0, <2>2 DEF HandlerInv, AttemptInv, Answered
  <2>4. ServerTypeOK' /\ request' \in [Calls -> Requests]
    BY <2>1, GatewayAssumption
       DEF Ends, Forget, Idle, Requests, ServerTypeOK, Replies, processVars
  <2>5. \A d \in Calls \ {r} : /\ reply'[d] = reply[d] /\ handler'[d] = handler[d]
                               /\ orphans'[d] = orphans[d]
                               /\ executed'[d] = executed[d] /\ request'[d] = request[d]
                               /\ d \in overlapped => d \in overlapped'
    BY <2>1 DEF Ends, Forget, ServerTypeOK
  <2>6. HandlerInv(r)' /\ AttemptInv(r)'
    BY <2>1, <2>3
       DEF Ends, Forget, Idle, HandlerInv, AttemptInv, Done, Pending, Running, ServerTypeOK
  <2> QED
    BY <2>4, <2>5, <2>6, OneCallKeepsInv
<1>2. CASE \/ CallBlocking(r) \/ Call(r) \/ BackOff(r) \/ Retry(r)
           \/ \E t \in Targets : Borrow(r, t)
  <2> USE DEF CallBlocking, Call, BackOff, Retry, Borrow, Goes, Send, Calling
  <2>1. UNCHANGED <<processVars, handler, orphans, strays, executed, overlapped, losses>>
    BY <1>2 DEF serverVars, processVars, orphanVars, historyVars
  <2>2. request' \in [Calls -> Requests]
    <3>1. CASE Call(r) \/ \E t \in Targets : Borrow(r, t)
      BY <3>1, BeginsAfresh
    <3>2. CASE CallBlocking(r) \/ BackOff(r)
      BY <1>0, <3>2 DEF Requests
    <3>3. CASE Retry(r)
        <5>1. /\ request' = [request EXCEPT ![r] =
                   [request[r] EXCEPT !.pc = "bare", !.attempt = request[r].attempt + 1]]
              /\ request[r].attempt + 1 \in 0..MaxRetries
          BY <1>0, <3>3, GatewayAssumption DEF AttemptInv, Requests
        <5> QED
          BY <1>0, <5>1 DEF Requests
    <3> QED
      BY <1>2, <3>1, <3>2, <3>3
  <2>3. ServerTypeOK'
    BY <1>2, <2>1 DEF ServerTypeOK, Replies, processVars, serverVars
  <2>4. \A d \in Calls \ {r} : reply'[d] = reply[d] /\ request'[d] = request[d]
    BY <1>2 DEF ServerTypeOK, serverVars, Begins
  <2>5. HandlerInv(r)'
    BY <1>0, <1>2, <2>1 DEF HandlerInv, AttemptInv, ServerTypeOK, serverVars, Answered, Running
  <2>6. AttemptInv(r)'
    <3>1. /\ Done(r) \in Nat /\ Done(r)' = Done(r)
          /\ request[r].attempt \in Nat
      BY <1>0, <2>1, GatewayAssumption DEF Done, ServerTypeOK, Requests
    <3>2. CASE Call(r) \/ CallBlocking(r) \/ Retry(r)
      <4>1. reply'[r] = "sent" /\ handler'[r] \notin Running
        BY <1>0, <2>1, <3>2 DEF HandlerInv, AttemptInv, ServerTypeOK, Answered
      <4>2. /\ Done(r) <= request'[r].attempt
            /\ request'[r].pc \notin {"idle", "holding", "backoff"}
            /\ request'[r].pc = "bare" => request'[r].again
            /\ ~request'[r].again => request'[r].attempt = 0
        <5>1. CASE Call(r)
          BY <1>0, <3>1, <5>1, BeginsAfresh DEF AttemptInv
        <5>2. CASE CallBlocking(r)
          BY <1>0, <3>1, <5>2 DEF AttemptInv, Requests
        <5>3. CASE Retry(r)
          BY <1>0, <3>1, <5>3 DEF AttemptInv, Requests
        <5> QED
          BY <3>2, <5>1, <5>2, <5>3
      <4>3. request'[r].attempt \in Nat
        BY <2>2, GatewayAssumption DEF Requests
      <4> QED
        BY <3>1, <4>1, <4>2, <4>3 DEF AttemptInv
    <3>3. CASE BackOff(r)
      BY <1>0, <2>1, <3>1, <3>3
         DEF AttemptInv, Pending, serverVars, Answered, Requests
    <3>4. CASE \E t \in Targets : Borrow(r, t)
      <4>1. /\ request[r].pc = "idle" /\ reply' = reply
            /\ request'[r].pc = "holding" /\ request'[r].attempt = 0
            /\ ~request'[r].again
        BY <3>4, BeginsAfresh DEF serverVars
      <4>2. reply'[r] = "none" /\ Done(r)' = 0 /\ handler'[r] \notin Running
        BY <1>0, <2>1, <3>1, <4>1 DEF AttemptInv, HandlerInv
      <4> QED
        BY <4>1, <4>2 DEF AttemptInv, Pending, Running
    <3> QED
      BY <1>2, <3>2, <3>3, <3>4
  <2> QED
    BY <2>1, <2>2, <2>3, <2>4, <2>5, <2>6, OneCallKeepsInv
<1> QED
  BY <1>1, <1>2

\* Every step keeps the invariant.
LEMMA NextKeepsGatewayInv == GatewayInv /\ [Next]_vars => GatewayInv'
<1> SUFFICES ASSUME GatewayInv, [Next]_vars PROVE GatewayInv'
  OBVIOUS
<1>1. CASE Next
  <2>1. CASE Sweep \/ UNCHANGED <<serverVars, request>>
    BY <2>1, SameCall
       DEF Sweep, GatewayInv, GatewayTypeOK, ServerTypeOK, serverVars, CallInv
  <2> QED
    BY <1>1, <2>1, RequestKeepsInv, CallStepKeepsInv, ProcessKeepsInv DEF Next, ServerStep
<1>2. CASE UNCHANGED vars
  BY <1>2, SameCall
     DEF vars, GatewayInv, GatewayTypeOK, ServerTypeOK, serverVars, CallInv
<1> QED
  BY <1>1, <1>2

LEMMA GatewayInvariant == Spec => []GatewayInv
BY InitGatewayInv, NextKeepsGatewayInv, PTL DEF Spec

-----------------------------------------------------------------------------
(* The theorems. *)

\* Every variable of the gateway, its pool and its server keeps its type.
THEOREM TypeCorrect == Spec => []TypeOK
<1>1. GatewayInv /\ PoolTypeOK => TypeOK
  BY DEF GatewayInv, GatewayTypeOK, TypeOK
<1> QED
  BY <1>1, GatewayInvariant, ImplementsPool, PoolCorrect, PTL

\* No call is executed more often than it is attempted.
THEOREM ExecutionsAreBounded == Spec => []ExecutionsBounded
<1>1. GatewayInv => ExecutionsBounded
  <2> SUFFICES ASSUME GatewayInv, NEW r \in Calls
               PROVE  /\ executed[r] <= request[r].attempt + 1
                      /\ ~request[r].again => executed[r] <= 1
    BY DEF ExecutionsBounded
  <2>1. AttemptInv(r) /\ executed[r] \in Nat /\ orphans[r] \in Nat
        /\ request[r].attempt \in Nat
    BY GatewayAssumption DEF GatewayInv, GatewayTypeOK, ServerTypeOK, CallInv, Requests
  <2> QED
    BY <2>1 DEF AttemptInv, Done
<1> QED
  BY <1>1, GatewayInvariant, PTL

\* A 200 for a call that had the server to itself says that it was executed.
THEOREM AnswerIsHonest == Spec => AnswerTellsOutcome
<1>1. ASSUME GatewayInv, Next, NEW r \in Calls, r \notin overlapped,
             request[r].pc \in Calling, request'[r] = Idle(200)
      PROVE  executed[r] > 0
  <2> USE <1>1 DEF GatewayInv, GatewayTypeOK, ServerTypeOK
  <2>1. request'[r].pc = "idle" /\ request'[r].answer = 200
    BY DEF Idle
  <2>2. Finish(r)
    <3> USE <2>1 DEF Calling
    <3>1. ~(Sweep \/ ServerStep)
      BY DEF Sweep, ServerStep
    <3>2. ASSUME NEW q \in Calls,
                 \/ SkuRoute(q) \/ CallBlocking(q) \/ Unblock(q) \/ Return(q)
                 \/ Call(q) \/ BackOff(q) \/ Retry(q)
                 \/ \E t \in Targets : Borrow(q, t)
          PROVE  FALSE
      <4>1. request[q].pc \notin Calling \/ BackOff(q)
        BY <3>2 DEF SkuRoute, CallBlocking, Unblock, Return, Call, Retry, Borrow
      <4>2. q # r => request'[r] = request[r]
        BY <3>2 DEF SkuRoute, CallBlocking, Unblock, Return, Call, BackOff, Retry, Borrow,
                    Begins, Goes, Ends
      <4>3. BackOff(q) => request'[q].pc = "backoff"
        BY DEF BackOff, Goes
      <4> QED
        BY <4>1, <4>2, <4>3
    <3>3. PICK q \in Calls : Finish(q)
      BY <3>1, <3>2 DEF Next
    <3> QED
      BY <3>3 DEF Finish, Ends
  <2>3. reply[r] = "OK"
    BY <2>1, <2>2 DEF Finish, Ends, Idle, BffStatus, InternalStatus, BffStatuses
  <2> QED
    BY <2>3 DEF CallInv, HandlerInv
<1>2. GatewayInv /\ [Next]_vars =>
        [\A r \in Calls \ overlapped :
           request[r].pc \in Calling /\ request'[r] = Idle(200) => executed[r] > 0]_vars
  BY <1>1
<1> QED
  BY <1>2, GatewayInvariant, PTL DEF Spec, AnswerTellsOutcome
=============================================================================
