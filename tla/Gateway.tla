------------------------------ MODULE Gateway ------------------------------
(***************************************************************************)
(* zrun_bff.clients and its PDA routes: requests on the event loop of the  *)
(* BFF that borrow a channel from the pool or call zrun-base, and the      *)
(* process that answers them.                                              *)
(*                                                                         *)
(* A channel of the pool is synchronous: its stub blocks the event loop    *)
(* until the call is over, and awaiting what it returns raises.  A caller  *)
(* that brings a grpc.aio channel of its own awaits the call.              *)
(***************************************************************************)
EXTENDS ChannelPool, ServerProcess, ErrorMapping

CONSTANTS
  Base,        \* the address of zrun-base
  MaxRetries   \* max_retries

ASSUME GatewayAssumption ==
  /\ Users = Calls /\ Base \in Targets
  /\ MaxRetries \in Nat

VARIABLE
  request  \* what each is doing, or how the last one was answered

vars == <<poolVars, serverVars, request>>

-----------------------------------------------------------------------------
(* A request is not there (idle), has a channel of the pool and awaits     *)
(* something (holding), blocks the event loop in a stub of the pool's      *)
(* channel (blocked), or calls over a channel of its own: by a method of   *)
(* BaseSkuClient (client), by such a method in retry_with_backoff          *)
(* (wrapped), or by a bare stub in retry_with_backoff (bare), which sleeps *)
(* between two attempts (backoff).                                         *)
Calling == {"client", "wrapped", "bare"}

Requests ==
  [pc      : {"idle", "holding", "blocked", "backoff"} \cup Calling,
   attempt : 0..MaxRetries,
   again   : BOOLEAN,  \* history: a bare stub calls, in retry_with_backoff
   answer  : {0, 200, InternalStatus} \cup BffStatuses]  \* when it is idle

Idle(status) ==
  [pc |-> "idle", attempt |-> 0, again |-> FALSE, answer |-> status]

Init ==
  /\ PoolInit /\ ServerInit
  /\ request = [r \in Calls |-> Idle(0)]

\* Nothing else runs on the event loop while a synchronous stub waits.
LoopFree == \A r \in Calls : request[r].pc # "blocked"

Begins(r, pc) ==
  request' = [request EXCEPT ![r] =
    [pc |-> pc, attempt |-> 0, again |-> pc = "bare", answer |-> 0]]

Goes(r, pc) == request' = [request EXCEPT ![r].pc = pc]

\* The request is answered, whatever its calls still do on the server.
Ends(r, status) == request' = [request EXCEPT ![r] = Idle(status)] /\ Forget(r)

\* What the client sees of its call.
Answered(r) == reply[r] \notin {"none", "sent", "waiting"}

-----------------------------------------------------------------------------
(* Over channels of the pool. *)

\* A route of zrun_bff.api.pda.sku: get_sku_client yields a coroutine, which
\* has no methods, so the route raises before it calls anything.  The channel
\* is borrowed and given back without an await, so the pool is as before.
SkuRoute(r) ==
  /\ LoopFree /\ request[r].pc = "idle"
  /\ Ends(r, InternalStatus)
  /\ UNCHANGED poolVars

\* get_base_channel and its like, up to the yield.
Borrow(r, t) ==
  /\ LoopFree /\ request[r].pc = "idle"
  /\ GetChannel(r, t)
  /\ Begins(r, "holding")
  /\ UNCHANGED serverVars

\* BaseSkuClient over the channel, the way get_base_channel documents it.
CallBlocking(r) ==
  /\ LoopFree /\ request[r].pc = "holding" /\ lease[r].target = Base
  /\ Goes(r, "blocked")
  /\ Send(r)
  /\ UNCHANGED poolVars

\* The stub returns or raises.  Either way an exception that is no AioRpcError
\* leaves BaseSkuClient as an InternalError, and `finally' gives the channel
\* back.
Unblock(r) ==
  /\ request[r].pc = "blocked" /\ Answered(r)
  /\ ReleaseChannel(r)
  /\ Ends(r, InternalStatus)

\* The body ends, or its task is cancelled; when the channel is closed,
\* release_channel raises.
Return(r) ==
  /\ LoopFree /\ request[r].pc = "holding"
  /\ ReleaseChannel(r)
  /\ \/ /\ ~Pooled(lease[r].target) \/ pool[lease[r].target].count > 1
        /\ Ends(r, 200)
     \/ Ends(r, InternalStatus)

Sweep ==
  /\ LoopFree
  /\ CloseAll
  /\ UNCHANGED <<serverVars, request>>

-----------------------------------------------------------------------------
(* Over a channel of the caller's own. *)

Call(r) ==
  /\ LoopFree /\ request[r].pc = "idle"
  /\ \E pc \in Calling : Begins(r, pc)
  /\ Send(r)
  /\ UNCHANGED poolVars

\* The call is over and the request with it: the method's decorator makes a
\* BFFError of an AioRpcError; retry_with_backoff makes an InternalError of
\* whatever is no AioRpcError, that BFFError included.
Finish(r) ==
  /\ LoopFree /\ request[r].pc \in Calling /\ Answered(r)
  /\ \/ reply[r] = "OK" /\ Ends(r, 200)
     \/ /\ reply[r] # "OK"
        /\ \/ request[r].pc = "client" /\ Ends(r, BffStatus(reply[r]))
           \/ request[r].pc = "wrapped" /\ Ends(r, InternalStatus)
           \/ /\ request[r].pc = "bare"
              /\ reply[r] \notin Retryable \/ request[r].attempt = MaxRetries
              /\ Ends(r, BffStatus(reply[r]))
  /\ UNCHANGED poolVars

\* Mutant of BackOff: an error of the BFF is as good as one of gRPC.
BackOffAnyError(r) ==
  /\ LoopFree /\ request[r].pc \in {"bare", "wrapped"} /\ Answered(r)
  /\ reply[r] \in Retryable /\ request[r].attempt < MaxRetries
  /\ Goes(r, "backoff")
  /\ UNCHANGED <<poolVars, serverVars>>

\* Mutant of BackOff: max_retries is compared the wrong way.
BackOffOnceMore(r) ==
  /\ LoopFree /\ request[r].pc = "bare" /\ Answered(r)
  /\ reply[r] \in Retryable /\ request[r].attempt <= MaxRetries
  /\ Goes(r, "backoff")
  /\ UNCHANGED <<poolVars, serverVars>>

\* retry_with_backoff sleeps.
BackOff(r) ==
  /\ LoopFree /\ request[r].pc = "bare" /\ Answered(r)
  /\ reply[r] \in Retryable /\ request[r].attempt < MaxRetries
  /\ Goes(r, "backoff")
  /\ UNCHANGED <<poolVars, serverVars>>

\* Mutant of Retry: the attempts are not counted.
RetryForever(r) ==
  /\ LoopFree /\ request[r].pc = "backoff"
  /\ Goes(r, "bare")
  /\ Send(r)
  /\ UNCHANGED poolVars

\* ... and calls again, whether or not the server has executed the last call.
Retry(r) ==
  /\ LoopFree /\ request[r].pc = "backoff"
  /\ request' = [request EXCEPT ![r].pc = "bare", ![r].attempt = @ + 1]
  /\ Send(r)
  /\ UNCHANGED poolVars
-----------------------------------------------------------------------------
ServerStep ==
  /\ \/ ProcessStep
     \/ \E c \in Calls : CallStep(c) \/ Fail(c, AbortedStatus)
  /\ UNCHANGED <<poolVars, request>>

Next ==
  \/ \E r \in Calls :
       \/ SkuRoute(r) \/ CallBlocking(r) \/ Unblock(r) \/ Return(r)
       \/ Call(r) \/ Finish(r) \/ BackOff(r) \/ Retry(r)
       \/ \E t \in Targets : Borrow(r, t)
  \/ Sweep
  \/ ServerStep

Spec == Init /\ [][Next]_vars

\* The coroutine of a request gets its turn.
Resume(r) == Unblock(r) \/ Return(r) \/ Finish(r) \/ BackOff(r) \/ Retry(r)

\* The event loop of the BFF runs what is ready in its order, however often
\* others block it in between, and a body that holds a channel ends.  The server
\* is as fair as ServerFairness says.
FairSpec ==
  /\ Spec
  /\ ServerFairness
  /\ \A r \in Calls : SF_vars(Resume(r))

-----------------------------------------------------------------------------
(* Properties. *)

\* Every variable holds a value of its type.
TypeOK ==
  /\ PoolTypeOK /\ ServerTypeOK
  /\ request \in [Calls -> Requests]

\* One request executes at most once on zrun-base, and with retry_with_backoff
\* around a bare stub at most once per attempt, wherever connections break and
\* processes die; around a method of BaseSkuClient nothing is sent again.
ExecutionsBounded ==
  \A r \in Calls :
    /\ executed[r] <= request[r].attempt + 1
    /\ ~request[r].again => executed[r] <= 1

\* A caller that is answered 200 over its own channel, and whose call no other
\* overlapped on the server, knows that it was executed, at the last attempt or
\* before.  How often, ExecutionsBounded says; any other answer leaves it open.
AnswerTellsOutcome ==
  [][\A r \in Calls \ overlapped :
       request[r].pc \in Calling /\ request'[r] = Idle(200) => executed[r] > 0]_vars

\* No call has a deadline, so a handler that hangs keeps its request, and behind
\* a synchronous stub every request.  If none does, every request ends, whether
\* the server answers, dies or is not there.
RequestsEnd ==
  (\A c \in Calls : []<>(handler[c] # "running")) =>
    \A r \in Calls : request[r].pc # "idle" ~> request[r].pc = "idle"
=============================================================================
