------------------------------ MODULE Redlock ------------------------------
(***************************************************************************)
(* zrun_core.lock.distributed: users that compete for one key on N Redis   *)
(* nodes, each with a Redlock object it uses again and again the way       *)
(* `async with' does: acquire, the body, release.  The body runs whether   *)
(* or not acquire succeeded, and nothing renews the key.                   *)
(*                                                                         *)
(* A token is fresh in every acquire, so a node's key holds the current    *)
(* token of one user, or a Stale one that no user has any more.  Time      *)
(* passes in ticks, without a bound on how late a step may be.  The clock  *)
(* of a node may be fast: it drops a key up to Drift ticks early.          *)
(***************************************************************************)
EXTENDS Integers, FiniteSets

CONSTANTS
  Locks,      \* the users, each with its own Redlock
  Nobody, Stale,
  N,          \* len(clients)
  TTL,        \* ttl
  Drift,      \* what a node's clock gains in TTL ticks
  Fallible,   \* what may fail: "set", "eval"; may happen: "cancel", "restart"
  MaxFaults   \* bound on faults

ASSUME RedlockAssumption ==
  /\ Nobody \notin Locks /\ Stale \notin Locks /\ Nobody # Stale
  /\ N \in Nat \ {0}
  /\ TTL \in Nat \ {0} /\ Drift \in 0..(TTL - 1)
  /\ Fallible \subseteq {"set", "eval", "cancel", "restart"}
  /\ MaxFaults \in Nat

VARIABLES
  key,    \* per node: whose token its key holds
  left,   \* per node: ticks until the key expires, 0 for never
  user,   \* per user: where it is and the state of its Redlock
  faults

vars == <<key, left, user, faults>>

-----------------------------------------------------------------------------
Nodes == 1..N

\* Mutant of Quorum: one short of a majority.
Half == N \div 2

Quorum == N \div 2 + 1

(* A user is outside, or in acquire: asking one node after the other       *)
(* (trying) or taking a partial lock back (undoing); or in the body; or in *)
(* release (releasing).                                                    *)
Users ==
  [pc : {"out", "trying", "undoing", "inside", "releasing", "dead"},
   node : 1..(N + 1),        \* the client the for loop has reached
   got : SUBSET Nodes,       \* acquired_count, with the nodes it counts
   clock : 0..TTL,           \* ticks since start_ms
   token : BOOLEAN,          \* _token is not None
   pending : SUBSET Nodes]   \* EVALs of _release_all without an answer

Outside ==
  [pc |-> "out", node |-> 1, got |-> {}, clock |-> 0, token |-> FALSE,
   pending |-> {}]

Init ==
  /\ key = [n \in Nodes |-> Nobody]
  /\ left = [n \in Nodes |-> 0]
  /\ user = [l \in Locks |-> Outside]
  /\ faults = 0

Becomes(l, u) == user' = [user EXCEPT ![l] = u]

-----------------------------------------------------------------------------
(* What a node does with a command. *)

\* Mutant of SetKey: SET without PX.
SetForever(l, n) ==
  /\ key[n] = Nobody
  /\ key' = [key EXCEPT ![n] = l]
  /\ UNCHANGED left

\* Mutant of SetKey: PX in the wrong unit.
SetTooLong(l, n) ==
  /\ key[n] = Nobody
  /\ key' = [key EXCEPT ![n] = l]
  /\ left' = [left EXCEPT ![n] = 1000 * TTL]

\* SET key token NX PX, when the key is free.
SetKey(l, n) ==
  /\ key[n] = Nobody
  /\ key' = [key EXCEPT ![n] = l]
  /\ \E ticks \in (TTL - Drift)..TTL : left' = [left EXCEPT ![n] = ticks]

\* Mutant of DeleteKeys: DEL without a look at the token.
DeleteAnyKeys(l, nodes) ==
  /\ key' = [n \in Nodes |-> IF n \in nodes THEN Nobody ELSE key[n]]
  /\ left' = [n \in Nodes |-> IF n \in nodes THEN 0 ELSE left[n]]

\* RELEASE_SCRIPT on some nodes.
DeleteKeys(l, nodes) ==
  LET freed == {n \in nodes : key[n] = l}
  IN  /\ key' = [n \in Nodes |-> IF n \in freed THEN Nobody ELSE key[n]]
      /\ left' = [n \in Nodes |-> IF n \in freed THEN 0 ELSE left[n]]

-----------------------------------------------------------------------------
(* acquire. *)

\* A new token: what an earlier attempt has left on a node is nobody's now.
Acquire(l) ==
  /\ user[l].pc = "out"
  /\ Becomes(l, [Outside EXCEPT !.pc = "trying"])
  /\ key' = [n \in Nodes |-> IF key[n] = l THEN Stale ELSE key[n]]
  /\ UNCHANGED <<left, faults>>

Asks(l, n) == user[l].pc = "trying" /\ user[l].node = n /\ n \in Nodes

NodeGrants(l, n) ==
  /\ Asks(l, n)
  /\ SetKey(l, n)
  /\ Becomes(l, [user[l] EXCEPT !.node = @ + 1, !.got = @ \cup {n}])
  /\ UNCHANGED faults

NodeRefuses(l, n) ==
  /\ Asks(l, n) /\ key[n] # Nobody
  /\ Becomes(l, [user[l] EXCEPT !.node = @ + 1])
  /\ UNCHANGED <<key, left, faults>>

Won(l) == Cardinality(user[l].got) >= Quorum /\ user[l].clock < TTL

Asked(l) == user[l].pc = "trying" /\ user[l].node = N + 1

Succeed(l) ==
  /\ Asked(l) /\ Won(l)
  /\ Becomes(l, [user[l] EXCEPT !.pc = "inside", !.node = 1, !.got = {},
                                !.token = TRUE])
  /\ UNCHANGED <<key, left, faults>>

\* Mutant of GiveUp: only the nodes that were counted are told.
GiveUpCounted(l) ==
  /\ Asked(l) /\ ~Won(l)
  /\ Becomes(l, [Outside EXCEPT !.pc = "undoing", !.pending = user[l].got])
  /\ UNCHANGED <<key, left, faults>>

GiveUp(l) ==
  /\ Asked(l) /\ ~Won(l)
  /\ Becomes(l, [Outside EXCEPT !.pc = "undoing", !.pending = Nodes])
  /\ UNCHANGED <<key, left, faults>>

-----------------------------------------------------------------------------
(* release and _release_all: the EVALs run in parallel. *)

Leave(l) ==
  /\ user[l].pc = "inside"
  /\ Becomes(l, IF user[l].token
                THEN [Outside EXCEPT !.pc = "releasing", !.pending = Nodes]
                ELSE Outside)
  /\ UNCHANGED <<key, left, faults>>

Deletes(l, n) == user[l].pc \in {"undoing", "releasing"} /\ n \in user[l].pending

NodeDeletes(l, n) ==
  /\ Deletes(l, n)
  /\ DeleteKeys(l, {n})
  /\ Becomes(l, [user[l] EXCEPT !.pending = @ \ {n}])
  /\ UNCHANGED faults

\* acquire returns FALSE, and the body runs; or release is over.
Gather(l) ==
  /\ user[l].pc \in {"undoing", "releasing"} /\ user[l].pending = {}
  /\ Becomes(l, IF user[l].pc = "undoing" THEN [Outside EXCEPT !.pc = "inside"]
                ELSE Outside)
  /\ UNCHANGED <<key, left, faults>>

-----------------------------------------------------------------------------
(* Faults.  A command that fails may have been executed. *)

Fault == faults < MaxFaults /\ faults' = faults + 1

\* The exception is logged, and the loop goes on.
SetFails(l, n) ==
  /\ "set" \in Fallible /\ Fault
  /\ Asks(l, n)
  /\ SetKey(l, n) \/ UNCHANGED <<key, left>>
  /\ Becomes(l, [user[l] EXCEPT !.node = @ + 1])

\* gather collects the exception.
EvalFails(l, n) ==
  /\ "eval" \in Fallible /\ Fault
  /\ Deletes(l, n)
  /\ DeleteKeys(l, {n}) \/ UNCHANGED <<key, left>>
  /\ Becomes(l, [user[l] EXCEPT !.pending = @ \ {n}])

\* The user's task is cancelled while it waits for an answer: no except
\* clause catches that, and nothing is undone.
Cancel(l) ==
  /\ "cancel" \in Fallible /\ Fault
  /\ \/ /\ \E n \in Nodes : Asks(l, n) /\ (SetKey(l, n) \/ UNCHANGED <<key, left>>)
     \/ /\ user[l].pc \in {"undoing", "releasing"} /\ user[l].pending # {}
        /\ \E nodes \in SUBSET user[l].pending : DeleteKeys(l, nodes)
  /\ Becomes(l, Outside)

\* The user's process dies; its keys are left to expire.
Crash(l) ==
  /\ Fault
  /\ user[l].pc # "dead"
  /\ Becomes(l, [Outside EXCEPT !.pc = "dead"])
  /\ UNCHANGED <<key, left>>

\* A node without persistence restarts, and its key is gone.
Restart(n) ==
  /\ "restart" \in Fallible /\ Fault
  /\ key[n] # Nobody
  /\ key' = [key EXCEPT ![n] = Nobody]
  /\ left' = [left EXCEPT ![n] = 0]
  /\ UNCHANGED user

-----------------------------------------------------------------------------
(* Time.  The clock of a user stops to matter once TTL ticks have passed. *)

Tick ==
  /\ key' = [n \in Nodes |-> IF left[n] = 1 THEN Nobody ELSE key[n]]
  /\ left' = [n \in Nodes |-> IF left[n] = 0 THEN 0 ELSE left[n] - 1]
  /\ user' = [l \in Locks |->
       IF (user[l].pc = "trying" \/ user[l].token) /\ user[l].clock < TTL
       THEN [user[l] EXCEPT !.clock = @ + 1] ELSE user[l]]
  /\ UNCHANGED faults

-----------------------------------------------------------------------------
Call(l) ==
  \/ \E n \in Nodes : NodeGrants(l, n) \/ NodeRefuses(l, n) \/ NodeDeletes(l, n)
  \/ Succeed(l) \/ GiveUp(l) \/ Gather(l)

Fail(l) ==
  \/ \E n \in Nodes : SetFails(l, n) \/ EvalFails(l, n)
  \/ Cancel(l) \/ Crash(l)

Step(l) == Acquire(l) \/ Call(l) \/ Leave(l) \/ Fail(l)

Next ==
  \/ \E l \in Locks : Step(l)
  \/ \E n \in Nodes : Restart(n)
  \/ Tick

Spec == Init /\ [][Next]_vars

\* Time passes; nobody has to do anything.
FairSpec == Spec /\ WF_vars(Tick)

-----------------------------------------------------------------------------
(* Properties. *)

\* Every variable holds a value of its type.
TypeOK ==
  /\ key \in [Nodes -> Locks \cup {Nobody, Stale}]
  /\ left \in [Nodes -> 0..TTL]
  /\ user \in [Locks -> Users]
  /\ faults \in 0..MaxFaults

\* The body of a user that has found lock.acquired true.
Acquired(l) == user[l].pc = "inside" /\ user[l].token

\* The part of the body the lock protects, drift of the nodes' clocks deducted.
InCriticalSection(l) == Acquired(l) /\ user[l].clock + Drift < TTL

Owner ==
  IF \E l \in Locks : InCriticalSection(l)
  THEN CHOOSE l \in Locks : InCriticalSection(l)
  ELSE Nobody

Exclusive == INSTANCE ExclusiveLock WITH owner <- Owner

\* At most one user is in the protected part of its body, and only by leaving
\* it, by dying or by running out of time does it make room for the next one.
ImplementsLock == Exclusive!Spec

\* RELEASE_SCRIPT deletes a user's own token only: a key that has time left
\* goes away through nobody but the user whose token it holds.
OnlyOwnerReleases ==
  [][\A l \in Locks, n \in Nodes :
       key[n] = l /\ left[n] # 1 /\ key'[n] = Nobody =>
         user[l].pc \in {"undoing", "releasing"}]_vars

\* A failed acquire takes back what it got, and what it may have got without
\* being told: a user without the lock and without a command on its way has
\* left its token on no node.
NothingLeftBehind ==
  \A l \in Locks :
    user[l].pc = "out" \/ (user[l].pc = "inside" /\ ~user[l].token)
      => \A n \in Nodes : key[n] # l

\* A token that its user has left on a node, by dying, by being cancelled or
\* because a node did not answer, expires.
AbandonedKeysExpire ==
  \A n \in Nodes :
    /\ key[n] = Stale ~> key[n] # Stale
    /\ \A l \in Locks :
         (key[n] = l /\ user[l].pc \in {"dead", "out"}) ~> key[n] # l
=============================================================================
