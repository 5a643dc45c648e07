---------------------------- MODULE ServerProcess ----------------------------
(***************************************************************************)
(* zrun_core.grpc.server and zrun_base.main: the process of a gRPC service *)
(* from run_service to its exit, the calls it is sent, and the health it   *)
(* reports.                                                                *)
(*                                                                         *)
(* grpc.aio, grpc_health and asyncio are external.  What the module takes  *)
(* from them:                                                              *)
(*  - start() is resumed before the first call is dispatched, and a        *)
(*    HealthServicer is born SERVING;                                      *)
(*  - a call above maximum_concurrent_rpcs is refused;                     *)
(*  - wait_for_termination awaits the future that tells the end of the     *)
(*    shutdown, and cancelling it cancels that future, so stop(grace) then *)
(*    refuses new calls and raises CancelledError without waiting;         *)
(*  - when its main loop fails, the server cancels all calls;              *)
(*  - a cancelled call or task goes on until the CancelledError reaches it,*)
(*    and a COMMIT under way may take effect;                              *)
(*  - asyncio.run cancels the tasks that main leaves, and awaits them.     *)
(***************************************************************************)
EXTENDS Naturals, FiniteSets, Functions

CONSTANTS
  Calls,       \* clients of the process, each waits for at most one call
  MaxWorkers,  \* max_workers
  MaxStarts,   \* bound on the starts of the process
  MaxLosses    \* bound on broken connections

ASSUME ServerAssumption ==
  /\ IsFiniteSet(Calls)
  /\ MaxWorkers \in Nat \ {0} /\ MaxStarts \in Nat /\ MaxLosses \in Nat

VARIABLES
  phase,       \* how far run_service is
  health,      \* what the HealthServicer reports
  registered,  \* the servicers are registered
  signalled,   \* _shutdown_event is set
  crashed,     \* the main loop of grpc.aio has ended by itself
  engine,      \* the engine of the database is disposed of or not
  reply,       \* per client: what it has been answered
  handler,     \* per client: the coroutine on the server that answers it
  orphans,     \* per client: its handlers that can answer nobody any more
  strays,      \* the other handlers, with no commit ahead that concerns a client
  executed,    \* history: per client: how often its call was committed
  overlapped,  \* history: clients whose call another handler overlaps
  starts, losses

serverVars ==
  <<phase, health, registered, signalled, crashed, engine, reply, handler,
    orphans, strays, executed, overlapped, starts, losses>>

processVars == <<phase, health, registered, signalled, crashed, engine, starts>>

orphanVars == <<orphans, strays>>

historyVars == <<executed, overlapped>>

callVars == <<reply, handler, orphanVars, historyVars, losses>>

-----------------------------------------------------------------------------
(* The process is not there (down), binds and starts (listening), serves,  *)
(* and is on its way out with the engine disposed of (closing).            *)
Phases == {"down", "listening", "serving", "closing"}

Running == {"running", "committed"}

ServerInit ==
  /\ phase = "down" /\ health = "SERVING" /\ registered = FALSE
  /\ signalled = FALSE /\ crashed = FALSE /\ engine = "open"
  /\ reply = [c \in Calls |-> "none"]
  /\ handler = [c \in Calls |-> "none"]
  /\ orphans = [c \in Calls |-> 0] /\ strays = 0
  /\ executed = [c \in Calls |-> 0] /\ overlapped = {}
  /\ starts = 0 /\ losses = 0

Active == {c \in Calls : handler[c] # "none"}

\* The handlers grpc.aio counts.
Busy == Cardinality(Active) + FoldFunction(+, 0, orphans) + strays

\* What the clients C wait for will not come.
HangUp(C) ==
  reply' = [c \in Calls |->
    IF c \in C /\ reply[c] \in {"sent", "waiting"} THEN "UNAVAILABLE" ELSE reply[c]]

\* The handlers of the clients C are cancelled: whatever they still do, they
\* answer nobody.
Abandon(C) ==
  /\ handler' = [c \in Calls |-> IF c \in C THEN "none" ELSE handler[c]]
  /\ orphans' = [c \in Calls |->
       IF c \in C /\ handler[c] = "running" THEN orphans[c] + 1 ELSE orphans[c]]
  /\ strays' = strays + Cardinality({c \in C : handler[c] = "committed"})

-----------------------------------------------------------------------------
(* run_service. *)

\* The state of a process that has just started, or is no more.
Fresh ==
  /\ health' = "SERVING" /\ registered' = FALSE
  /\ signalled' = FALSE /\ crashed' = FALSE /\ engine' = "open"

\* main, and server.start up to its first await: the engine is there, the health
\* service is registered, the port is open, unless somebody else has it.
Launch ==
  /\ phase = "down" /\ starts < MaxStarts
  /\ starts' = starts + 1
  /\ phase' \in {"listening", "down"}
  /\ Fresh
  /\ UNCHANGED callVars

\* The rest of start, and run_service up to where it waits: mark_healthy, the
\* signal handlers, the servicers.  No await lies between.
BeginServing ==
  /\ phase = "listening"
  /\ phase' = "serving" /\ health' = "SERVING" /\ registered' = TRUE
  /\ UNCHANGED <<signalled, crashed, engine, starts, callVars>>

\* SIGTERM or SIGINT.  Before its handler is there it ends the process.
Signal ==
  /\ \/ phase = "listening" /\ phase' = "down" /\ UNCHANGED signalled
     \/ phase \notin {"down", "listening"} /\ signalled' = TRUE /\ UNCHANGED phase
  /\ UNCHANGED <<health, registered, crashed, engine, starts, callVars>>

\* The main loop of grpc.aio ends, and grpc.aio shuts its server down.
Crash ==
  /\ phase = "serving" /\ ~crashed
  /\ crashed' = TRUE
  /\ HangUp(Calls) /\ Abandon(Calls)
  /\ UNCHANGED <<phase, health, registered, signalled, engine, starts,
                 historyVars, losses>>

\* Mutant of Stop: wait_for_termination waits for both of its tasks.
StopAfterBoth ==
  /\ phase = "serving" /\ signalled /\ crashed
  /\ phase' = "closing" /\ health' = "NOT_SERVING" /\ engine' = "disposed"
  /\ UNCHANGED <<registered, signalled, crashed, starts, callVars>>

\* wait_for_termination returns, whichever of its tasks is done; stop withdraws
\* health and refuses calls, and the engine is disposed of, whatever handlers
\* there are: after a signal, wait_for_termination has cancelled what the grace
\* period waits for, so that stop catches a CancelledError before any of them gets
\* its turn; after a crash all calls are cancelled and nothing is waited for.
Stop ==
  /\ phase = "serving" /\ (signalled \/ crashed)
  /\ phase' = "closing" /\ health' = "NOT_SERVING" /\ engine' = "disposed"
  /\ UNCHANGED <<registered, signalled, crashed, starts, callVars>>

\* main has returned, and asyncio.run cancels the tasks that are left.
CancelTasks ==
  /\ phase = "closing" /\ Active # {}
  /\ Abandon(Calls)
  /\ UNCHANGED <<processVars, reply, historyVars, losses>>

\* ... and the process ends when they have, and with it its connections.
Exit ==
  /\ phase = "closing" /\ Active = {}
  /\ strays = 0 /\ \A c \in Calls : orphans[c] = 0
  /\ phase' = "down"
  /\ Fresh /\ HangUp(Calls)
  /\ UNCHANGED <<starts, handler, orphanVars, historyVars, losses>>

\* The process is killed.
Kill ==
  /\ phase # "down"
  /\ phase' = "down"
  /\ Fresh /\ HangUp(Calls)
  /\ handler' = [c \in Calls |-> "none"]
  /\ orphans' = [c \in Calls |-> 0] /\ strays' = 0
  /\ UNCHANGED <<starts, historyVars, losses>>

-----------------------------------------------------------------------------
(* A call. *)

\* A client sends it.  Handlers of its earlier ones may still go on.
Send(c) ==
  /\ reply' = [reply EXCEPT ![c] = "sent"]
  /\ UNCHANGED <<processVars, handler, orphanVars, historyVars, losses>>

\* Nobody listens, or the server is shutting down.
Refuse(c) ==
  /\ reply[c] = "sent"
  /\ phase \notin {"listening", "serving"} \/ crashed
  /\ reply' = [reply EXCEPT ![c] = "UNAVAILABLE"]
  /\ UNCHANGED <<processVars, handler, orphanVars, historyVars, losses>>

\* The call gets a task, up to max_workers of them.
Dispatch(c) ==
  /\ reply[c] = "sent" /\ phase = "serving" /\ ~crashed
  /\ \/ /\ Busy < MaxWorkers
        /\ handler' = [handler EXCEPT ![c] = "running"]
        /\ reply' = [reply EXCEPT ![c] = "waiting"]
        /\ overlapped' = IF Busy = 0 THEN overlapped \ {c}
                         ELSE overlapped \cup Active \cup {c}
     \/ /\ Busy >= MaxWorkers
        /\ reply' = [reply EXCEPT ![c] = "RESOURCE_EXHAUSTED"]
        /\ UNCHANGED <<handler, overlapped>>
  /\ UNCHANGED <<processVars, orphanVars, executed, losses>>

\* What the handler wrote is committed, by its own transaction or, when calls
\* overlap, by that of another.
Commit(c) ==
  /\ handler[c] = "running"
  /\ handler' = [handler EXCEPT ![c] = "committed"]
  /\ executed' = [executed EXCEPT ![c] = @ + 1]
  /\ UNCHANGED <<processVars, reply, orphanVars, overlapped, losses>>

\* The handler is done and answers.
Answer(c, code) ==
  /\ handler' = [handler EXCEPT ![c] = "none"]
  /\ reply' = [reply EXCEPT ![c] = code]
  /\ UNCHANGED <<processVars, orphanVars, historyVars, losses>>

\* The servicer catches an exception, domain error or not; one of the COMMIT
\* itself may come although it took effect.
Fail(c, code) == handler[c] \in Running /\ Answer(c, code)

\* Mutant of Respond: the servicer does not commit before it answers.
RespondEarly(c) == handler[c] \in Running /\ Answer(c, "OK")

\* ... with OK when its work is committed.  What a call wrote that another
\* overlaps may be lost in that one's transaction, and it answers all the same.
Respond(c) ==
  /\ handler[c] \in IF c \in overlapped THEN Running ELSE {"committed"}
  /\ Answer(c, "OK")

\* A cancelled handler ends, with its transaction committed or rolled back.
OrphanEnds(c) ==
  /\ orphans[c] > 0
  /\ orphans' = [orphans EXCEPT ![c] = @ - 1]
  /\ executed' \in {executed, [executed EXCEPT ![c] = @ + 1]}
  /\ UNCHANGED <<processVars, reply, handler, strays, overlapped, losses>>

StrayEnds ==
  /\ strays > 0
  /\ strays' = strays - 1
  /\ UNCHANGED <<processVars, reply, handler, orphans, historyVars, losses>>

\* The connection breaks, on the way there, while the handler runs, or on the
\* way back.
LoseConnection(c) ==
  /\ reply[c] \in {"sent", "waiting"} /\ losses < MaxLosses
  /\ losses' = losses + 1
  /\ HangUp({c}) /\ Abandon({c})
  /\ UNCHANGED <<processVars, historyVars>>

\* A client is no longer interested in its calls.
Forget(c) ==
  /\ reply' = [reply EXCEPT ![c] = "none"]
  /\ executed' = [executed EXCEPT ![c] = 0]
  /\ orphans' = [orphans EXCEPT ![c] = 0]
  /\ strays' = strays + orphans[c]
  /\ overlapped' = overlapped \ {c}
  /\ UNCHANGED <<processVars, handler, losses>>

-----------------------------------------------------------------------------
ProcessStep ==
  \/ Launch \/ BeginServing \/ Signal \/ Crash \/ Stop
  \/ CancelTasks \/ Exit \/ Kill \/ StrayEnds

CallStep(c) ==
  \/ Refuse(c) \/ Dispatch(c) \/ Commit(c) \/ Respond(c)
  \/ OrphanEnds(c) \/ LoseConnection(c)

\* The event loop of the process runs on, a call that cannot be delivered is
\* refused, and a cancelled handler ends.  Any other may hang.
GoOn ==
  BeginServing \/ Stop \/ CancelTasks \/ Exit \/ StrayEnds

ServerFairness ==
  /\ WF_serverVars(GoOn)
  /\ \A c \in Calls :
       /\ WF_serverVars(Refuse(c) \/ Dispatch(c))
       /\ WF_serverVars((handler[c] = "committed" /\ Respond(c)) \/ OrphanEnds(c))

-----------------------------------------------------------------------------
(* Properties. *)

Replies == {"none", "sent", "waiting", "OK", "UNKNOWN", "UNAVAILABLE",
            "RESOURCE_EXHAUSTED"}

\* Every variable of the process holds a value of its type.
ServerTypeOK ==
  /\ phase \in Phases /\ health \in {"SERVING", "NOT_SERVING"}
  /\ registered \in BOOLEAN /\ signalled \in BOOLEAN /\ crashed \in BOOLEAN
  /\ engine \in {"open", "disposed"}
  /\ reply \in [Calls -> Replies]
  /\ handler \in [Calls -> {"none"} \cup Running]
  /\ orphans \in [Calls -> Nat] /\ strays \in Nat
  /\ executed \in [Calls -> Nat] /\ overlapped \subseteq Calls
  /\ starts \in 0..MaxStarts /\ losses \in 0..MaxLosses

\* A signal that comes while the service runs ends the process, even if a
\* handler hangs.
SignalEndsService == signalled ~> phase = "down"
=============================================================================
