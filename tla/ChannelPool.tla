----------------------------- MODULE ChannelPool -----------------------------
(***************************************************************************)
(* zrun_core.grpc.client: coroutines that borrow gRPC channels from one    *)
(* GrpcClientManager, which keeps a channel per target and counts who uses *)
(* it.                                                                     *)
(*                                                                         *)
(* No coroutine is suspended inside `async with self._lock': create_channel*)
(* makes a synchronous channel, whose close() has no awaitable result, and *)
(* `await None' raises at once.  Every operation is one step.              *)
(***************************************************************************)
EXTENDS Naturals, FiniteSets

CONSTANTS
  Users,      \* coroutines, each with at most one channel at a time
  Targets,    \* addresses of services
  Channels,   \* channel objects
  NoChannel,
  NoLease

ASSUME PoolAssumption ==
  /\ NoChannel \notin Channels
  /\ NoLease \notin [channel : Channels, target : Targets]
  /\ IsFiniteSet(Users)

VARIABLES
  pool,   \* per target: the channel of _channels and its count of _ref_counts
  open,   \* the channels that are not closed
  lease,  \* per user: the channel it was given, and for which target
  swept   \* history: close_all met a channel in use that is not given back yet

poolVars == <<pool, open, lease, swept>>

-----------------------------------------------------------------------------
Empty == [channel |-> NoChannel, count |-> 0]

Pooled(t) == pool[t].channel # NoChannel

Borrows(u) == lease[u] # NoLease

Borrowers(t) == {u \in Users : Borrows(u) /\ lease[u].target = t}

\* An object that nobody refers to any more.
New(c) ==
  /\ \A t \in Targets : pool[t].channel # c
  /\ \A u \in Users : Borrows(u) => lease[u].channel # c

PoolInit ==
  /\ pool = [t \in Targets |-> Empty]
  /\ open = {}
  /\ lease = [u \in Users |-> NoLease]
  /\ swept = FALSE

\* get_channel finds the channel of the target.
Reuse(u, t) ==
  /\ Pooled(t)
  /\ pool' = [pool EXCEPT ![t].count = @ + 1]
  /\ lease' = [lease EXCEPT ![u] = [channel |-> pool[t].channel, target |-> t]]
  /\ UNCHANGED open

\* get_channel creates it.
Create(u, t) ==
  /\ ~Pooled(t)
  /\ \E c \in Channels :
       /\ New(c)
       /\ pool' = [pool EXCEPT ![t] = [channel |-> c, count |-> 1]]
       /\ lease' = [lease EXCEPT ![u] = [channel |-> c, target |-> t]]
       /\ open' = open \cup {c}

GetChannel(u, t) ==
  /\ ~Borrows(u)
  /\ Reuse(u, t) \/ Create(u, t)
  /\ UNCHANGED swept

\* Mutant of GiveBack: the channel goes when at most one user is left.
GiveBackEarly(t) ==
  \/ /\ pool[t].count > 2
     /\ pool' = [pool EXCEPT ![t].count = @ - 1] /\ UNCHANGED open
  \/ /\ Pooled(t) /\ pool[t].count <= 2
     /\ pool' = [pool EXCEPT ![t] = Empty] /\ open' = open \ {pool[t].channel}
  \/ ~Pooled(t) /\ UNCHANGED <<pool, open>>

\* Mutant of GiveBack: nothing is closed before the count is below zero.
GiveBackLate(t) ==
  \/ /\ pool[t].count > 0
     /\ pool' = [pool EXCEPT ![t].count = @ - 1] /\ UNCHANGED open
  \/ /\ Pooled(t) /\ pool[t].count <= 0
     /\ pool' = [pool EXCEPT ![t] = Empty] /\ open' = open \ {pool[t].channel}
  \/ ~Pooled(t) /\ UNCHANGED <<pool, open>>

\* release_channel: the last user closes the channel, and then `await' raises;
\* a target that is not in the pool is only worth a warning.
GiveBack(t) ==
  \/ /\ pool[t].count > 1
     /\ pool' = [pool EXCEPT ![t].count = @ - 1] /\ UNCHANGED open
  \/ /\ Pooled(t) /\ pool[t].count <= 1
     /\ pool' = [pool EXCEPT ![t] = Empty] /\ open' = open \ {pool[t].channel}
  \/ ~Pooled(t) /\ UNCHANGED <<pool, open>>

ReleaseChannel(u) ==
  /\ Borrows(u)
  /\ GiveBack(lease[u].target)
  /\ lease' = [lease EXCEPT ![u] = NoLease]
  /\ swept' = (swept /\ \E v \in Users \ {u} : Borrows(v))

\* close_all.
CloseAll ==
  /\ open' = open \ {pool[t].channel : t \in Targets}
  /\ pool' = [t \in Targets |-> Empty]
  /\ swept' = \E u \in Users : Borrows(u)
  /\ UNCHANGED lease

PoolNext ==
  \/ \E u \in Users, t \in Targets : GetChannel(u, t)
  \/ \E u \in Users : ReleaseChannel(u)
  \/ CloseAll

PoolSpec == PoolInit /\ [][PoolNext]_poolVars

-----------------------------------------------------------------------------
(* Properties. *)

\* Every variable of the pool holds a value of its type.
PoolTypeOK ==
  /\ pool \in [Targets -> [channel : Channels \cup {NoChannel}, count : Nat]]
  /\ open \subseteq Channels
  /\ lease \in [Users -> [channel : Channels, target : Targets] \cup {NoLease}]
  /\ swept \in BOOLEAN

\* A channel that somebody borrows is open, as long as everybody has given
\* back what close_all took away: the count follows the borrowers although
\* release_channel is told a target and not a channel, and leaves by an
\* exception when it closes one.
InUseOpen ==
  ~swept => \A u \in Users : Borrows(u) => lease[u].channel \in open

\* When nobody borrows a channel for a target, none is in the pool, and what is
\* not in the pool is closed: a release that comes after close_all and counts
\* against a channel another user has opened since cannot leave one behind.
NothingLeaks ==
  /\ \A t \in Targets : Borrowers(t) = {} => ~Pooled(t)
  /\ \A c \in open : \E t \in Targets : pool[t].channel = c
=============================================================================
