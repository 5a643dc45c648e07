----------------------------- MODULE SkuService -----------------------------
(***************************************************************************)
(* zrun-base: SkuServicer, SkuLogic and SkuRepository serving concurrent   *)
(* RPCs on one asyncio event loop.                                         *)
(*                                                                         *)
(* Every servicer method runs inside _with_repo, which points the one      *)
(* shared SkuLogic at the repository of its own session and puts the       *)
(* previous one back on the way out.  A coroutine runs without             *)
(* interruption from one await to the next, so a step is either the        *)
(* database executing a statement (Exec..) or the event loop resuming a    *)
(* coroutine up to its next await (After.., Finish).                       *)
(***************************************************************************)
EXTENDS SkuDatabase, Functions

CONSTANTS
  Workload,  \* the requests the clients may send
  MaxRpcs,   \* ServiceConfig.max_workers: maximum_concurrent_rpcs
  MaxFaults  \* bound on lost statements and crashes

ASSUME ServiceAssumption ==
  /\ Workload \subseteq Calls
  /\ MaxRpcs \in Nat \ {0}
  /\ MaxFaults \in Nat

VARIABLES
  queue,       \* per session: RPCs whose statement its connection has to run
  repo,        \* SkuLogic._repo: the owner of the session it works through
  frame,       \* the coroutine of every RPC
  overlapped,  \* history: RPCs that were in flight together with another one
  faults

vars == <<dbVars, queue, repo, frame, overlapped, faults>>

-----------------------------------------------------------------------------
(* The coroutine of an RPC: where it is suspended (pc), original_repo      *)
(* (saved), the session it awaits (via), what came back (status, found,    *)
(* snap, loaded) and what it will answer.                                  *)

Queries  == {"get_by_id", "get_by_code", "reload", "list"}
Writes   == {"insert", "update"}
Endings  == {"commit", "rollback"}
Body     == Queries \cup Writes
Outcomes == {"ok", "conflict", "notfound", "invalid", "error"}

FirstQuery(c) ==
  CASE c.op = "create" -> "get_by_code"
    [] c.op = "list"   -> "list"
    [] OTHER           -> "get_by_id"

Idle ==
  [pc |-> "idle", call |-> NoCall, saved |-> Startup, via |-> Startup,
   status |-> "none", found |-> None, snap |-> NoRow, loaded |-> NoRow,
   outcome |-> "none"]

Frames ==
  [pc      : {"idle", "done"} \cup Body \cup Endings,
   call    : Calls \cup {NoCall},
   saved   : Sessions,
   via     : Sessions,
   status  : {"none", "sent", "answered", "conflict", "error", "detached"},
   found   : Ids \cup {None},
   snap    : Row \cup {NoRow},
   loaded  : Row \cup {NoRow},
   outcome : Outcomes \cup {"none"}]

Active(r) == frame[r].pc \notin {"idle", "done"}
InFlight  == {r \in Requests : Active(r)}
InBody(r) == frame[r].pc \in Body

Init ==
  /\ DbInit
  /\ queue = [s \in Sessions |-> <<>>]
  /\ repo = Startup
  /\ frame = [r \in Requests |-> Idle]
  /\ overlapped = {}
  /\ faults = 0

-----------------------------------------------------------------------------
(* Sessions as the coroutines meet them. *)

Ending(s) == s \in Requests /\ frame[s].pc \in Endings /\ frame[s].status = "sent"

\* A failed session, or one that is committing, raises; one whose connection
\* is at work raises or lines the statement up, as the work in progress is.
Accepts(s) == sess[s] # "failed" /\ ~Ending(s)
Refuses(s) == ~Accepts(s) \/ queue[s] # <<>>

\* RPC r suspends on a statement of session s.  A session nobody has begun
\* begins a transaction of its own.
Await(r, point, s) ==
  /\ Accepts(s)
  /\ frame' = [frame EXCEPT ![r] =
                 [@ EXCEPT !.pc = point, !.via = s, !.status = "sent"]]
  /\ queue' = [queue EXCEPT ![s] = Append(@, r)]
  /\ sess' = [sess EXCEPT ![s] = IF @ = "closed" THEN "autobegun" ELSE @]
  /\ UNCHANGED <<db, txn, doomed, repo>>

\* The session of r closes and r answers; whoever else was using it gets an
\* error, and a row loaded through it no longer belongs to a session.
CloseAndAnswer(r, outcome, pending) ==
  /\ frame' = [q \in Requests |->
       CASE q = r -> [frame[r] EXCEPT !.pc = "done", !.outcome = outcome]
         [] q # r /\ InBody(q) /\ frame[q].via = r /\ frame[q].status = "sent"
              -> [frame[q] EXCEPT !.status = "error"]
         [] q # r /\ frame[q].pc = "reload" /\ frame[q].via = r
              /\ frame[q].status = "answered"
              -> [frame[q] EXCEPT !.status = "detached"]
         [] OTHER -> frame[q]]
  /\ queue' = [queue EXCEPT ![r] = <<>>]
  /\ Discard(r, "closed", pending)
  /\ UNCHANGED db

\* What r may answer when neither COMMIT nor ROLLBACK is sent: a busy session
\* raises; a transaction that a failed flush has rolled back is closed without
\* an error, even where r believes it commits, one that has lost its
\* connection raises then.
Unsent(r, ending, outcome) ==
  IF queue[r] # <<>> THEN {"error"}
  ELSE {outcome} \cup (IF ending = "commit" THEN {"error"} ELSE {})

\* The finally clause of _with_repo, then the end of session.begin(): COMMIT
\* or ROLLBACK is sent, unless the session has failed or is busy.
LeaveHaving(r, ending, outcome, pending) ==
  /\ repo' = frame[r].saved
  /\ \/ /\ sess[r] = "begun" /\ queue[r] = <<>>
        /\ frame' = [frame EXCEPT ![r] =
                       [@ EXCEPT !.pc = ending, !.via = r, !.status = "sent",
                                 !.outcome = outcome]]
        /\ queue' = [queue EXCEPT ![r] = <<r>>]
        /\ doomed' = pending
        /\ UNCHANGED <<db, txn, sess>>
     \/ /\ sess[r] # "begun" \/ queue[r] # <<>>
        /\ \E answer \in Unsent(r, ending, outcome) :
             CloseAndAnswer(r, answer, pending)

Leave(r, ending, outcome) == LeaveHaving(r, ending, outcome, doomed)

Send(r, point, s) ==
  \/ Await(r, point, s)
  \/ Refuses(s) /\ Leave(r, "rollback", "error")

-----------------------------------------------------------------------------
(* SkuServicer: a request arrives. *)

\* Mutant of Start: the logic keeps the repository it has.
StartUnswapped(r, c) ==
  /\ frame[r].pc = "idle"
  /\ ~Incomplete(c)
  /\ Cardinality(InFlight) < MaxRpcs
  /\ frame' = [frame EXCEPT ![r] =
                 [@ EXCEPT !.pc = FirstQuery(c), !.call = c, !.saved = repo,
                           !.via = r, !.status = "sent"]]
  /\ sess' = [sess EXCEPT ![r] = "begun"]
  /\ queue' = [queue EXCEPT ![r] = <<r>>]
  /\ overlapped' = IF InFlight = {} THEN overlapped
                   ELSE overlapped \cup InFlight \cup {r}
  /\ UNCHANGED <<db, txn, doomed, repo, faults>>

\* Everything up to the first query runs without a suspension: the session
\* is opened, the pointer swapped, and the query goes through it.
Start(r, c) ==
  /\ frame[r].pc = "idle"
  /\ ~Incomplete(c)
  /\ Cardinality(InFlight) < MaxRpcs
  /\ frame' = [frame EXCEPT ![r] =
                 [@ EXCEPT !.pc = FirstQuery(c), !.call = c, !.saved = repo,
                           !.via = r, !.status = "sent"]]
  /\ repo' = r
  /\ sess' = [sess EXCEPT ![r] = "begun"]
  /\ queue' = [queue EXCEPT ![r] = <<r>>]
  /\ overlapped' = IF InFlight = {} THEN overlapped
                   ELSE overlapped \cup InFlight \cup {r}
  /\ UNCHANGED <<db, txn, doomed, faults>>

\* ValidationError before the first query: swapped and put back unobserved.
Reject(r, c) ==
  /\ frame[r].pc = "idle"
  /\ Incomplete(c)
  /\ Cardinality(InFlight) < MaxRpcs
  /\ frame' = [frame EXCEPT ![r] =
                 [@ EXCEPT !.pc = "done", !.call = c, !.outcome = "invalid"]]
  /\ UNCHANGED <<dbVars, queue, repo, overlapped, faults>>

-----------------------------------------------------------------------------
(* SkuLogic and SkuRepository, from one await to the next. *)

Resumes(r, point) == frame[r].pc = point /\ frame[r].status = "answered"

\* Mutant of ApplyUpdate: a new name alone does not count as an update.
ApplyCodeUpdate(r) ==
  LET c == frame[r].call
      existing == frame[r].snap
  IN  \/ ~ChangesCode(c, existing) /\ Leave(r, "commit", "ok")
      \/ /\ ChangesCode(c, existing)
         /\ ~Valid(Updated(c, existing))
         /\ Leave(r, "rollback", "invalid")
      \/ /\ ChangesCode(c, existing)
         /\ Valid(Updated(c, existing))
         /\ Send(r, "reload", repo)

\* update_sku past its code check: nothing to do, ValidationError, or
\* repo.update, through whatever repository is current.
ApplyUpdate(r) ==
  LET c == frame[r].call
      existing == frame[r].snap
  IN  \/ ~HasUpdates(c, existing) /\ Leave(r, "commit", "ok")
      \/ /\ HasUpdates(c, existing)
         /\ ~Valid(Updated(c, existing))
         /\ Leave(r, "rollback", "invalid")
      \/ /\ HasUpdates(c, existing)
         /\ Valid(Updated(c, existing))
         /\ Send(r, "reload", repo)

AfterGetById(r) ==
  LET c == frame[r].call
      existing == frame[r].snap
  IN  /\ Resumes(r, "get_by_id")
      /\ \/ existing = NoRow /\ Leave(r, "rollback", "notfound")
         \/ existing # NoRow /\ c.op = "get" /\ Leave(r, "commit", "ok")
         \/ existing # NoRow /\ c.op = "delete" /\ Send(r, "reload", repo)
         \/ /\ existing # NoRow /\ c.op = "update"
            /\ \/ ChangesCode(c, existing) /\ Send(r, "get_by_code", repo)
               \/ ~ChangesCode(c, existing) /\ ApplyUpdate(r)
      /\ UNCHANGED <<overlapped, faults>>

AfterGetByCode(r) ==
  LET c == frame[r].call
      other == frame[r].found
  IN  /\ Resumes(r, "get_by_code")
      /\ \/ /\ c.op = "create"
            /\ \/ other # None /\ Leave(r, "rollback", "conflict")
               \/ /\ other = None /\ ~Valid(Created(c))
                  /\ Leave(r, "rollback", "invalid")
               \/ other = None /\ Valid(Created(c)) /\ Send(r, "insert", repo)
         \/ /\ c.op = "update"
            /\ \/ other \notin {None, c.id} /\ Leave(r, "rollback", "conflict")
               \/ other \in {None, c.id} /\ ApplyUpdate(r)
      /\ UNCHANGED <<overlapped, faults>>

\* repo.update and repo.delete hold their own repository's session, whatever
\* SkuLogic._repo has become.  Once that session is closed the loaded row is
\* detached: the flush finds nothing to do; the delete re-attaches the row to
\* a transaction nobody will commit.  Marking a row as deleted sends nothing, so
\* it succeeds whatever has become of the session.
AfterReload(r) ==
  LET c == frame[r].call
      s == frame[r].via
  IN  /\ frame[r].pc = "reload"
      /\ frame[r].status \in {"answered", "detached"}
      /\ \/ frame[r].loaded = NoRow /\ Leave(r, "rollback", "notfound")
         \/ /\ frame[r].loaded # NoRow /\ c.op = "update"
            /\ \/ frame[r].status = "answered" /\ Send(r, "update", s)
               \/ frame[r].status = "detached" /\ Leave(r, "commit", "ok")
         \/ /\ frame[r].loaded # NoRow /\ c.op = "delete"
            /\ LeaveHaving(r, "commit", "ok", [doomed EXCEPT ![s] = @ \cup {c.id}])
      /\ UNCHANGED <<overlapped, faults>>

AfterWrite(r) ==
  /\ \E w \in Writes : Resumes(r, w)
  /\ Leave(r, "commit", "ok")
  /\ UNCHANGED <<overlapped, faults>>

AfterList(r) ==
  /\ Resumes(r, "list")
  /\ Leave(r, "commit", "ok")
  /\ UNCHANGED <<overlapped, faults>>

\* Mutant of AfterError: the IntegrityError is swallowed.
AfterOtherError(r) ==
  /\ InBody(r) /\ frame[r].status = "error"
  /\ Leave(r, "rollback", "error")
  /\ UNCHANGED <<overlapped, faults>>

\* A statement raised: IntegrityError has become ConflictError.
AfterError(r) ==
  /\ InBody(r) /\ frame[r].status \in {"conflict", "error"}
  /\ Leave(r, "rollback", frame[r].status)
  /\ UNCHANGED <<overlapped, faults>>

\* Mutant of Finish: only a COMMIT that succeeded is answered.
FinishAnswered(r) ==
  /\ frame[r].pc \in Endings /\ frame[r].status = "answered"
  /\ CloseAndAnswer(r, frame[r].outcome, doomed)
  /\ UNCHANGED <<repo, overlapped, faults>>

\* COMMIT or ROLLBACK has come back: the session closes, the RPC answers.
Finish(r) ==
  /\ frame[r].pc \in Endings /\ frame[r].status # "sent"
  /\ CloseAndAnswer(r, IF frame[r].status = "error" THEN "error"
                       ELSE frame[r].outcome, doomed)
  /\ UNCHANGED <<repo, overlapped, faults>>

Resume(r) ==
  \/ AfterGetById(r) \/ AfterGetByCode(r) \/ AfterReload(r) \/ AfterWrite(r)
  \/ AfterList(r) \/ AfterError(r) \/ Finish(r)

-----------------------------------------------------------------------------
(* The database works off the statements of a connection in order. *)

Running(s) == frame[Head(queue[s])]

Runs(s, points) == queue[s] # <<>> /\ Running(s).pc \in points

\* The head of the queue gets its answer, its frame becoming f.
Answer(s, f) ==
  /\ queue' = [queue EXCEPT ![s] = Tail(@)]
  /\ frame' = [frame EXCEPT ![Head(queue[s])] = [f EXCEPT !.status = "answered"]]
  /\ UNCHANGED <<repo, overlapped>>

\* The statement fails and takes the transaction of its session with it; the
\* statements lined up behind it fail too.
Fail(s, why) ==
  /\ frame' = [q \in Requests |->
       CASE q = Head(queue[s]) -> [frame[q] EXCEPT !.status = why]
         [] q \in Range(Tail(queue[s])) -> [frame[q] EXCEPT !.status = "error"]
         [] OTHER -> frame[q]]
  /\ queue' = [queue EXCEPT ![s] = <<>>]
  /\ Discard(s, "failed", doomed)
  /\ UNCHANGED <<repo, overlapped>>

Holders(s, code) ==
  {i \in Ids : View(s)[i] # NoRow /\ View(s)[i].code = code}

ExecSelect(s) ==
  /\ Runs(s, Queries)
  /\ LET f == Running(s)
         holders == Holders(s, NormalizeCode(f.call.code))
     IN  Answer(s,
           CASE f.pc = "get_by_id" -> [f EXCEPT !.snap = View(s)[f.call.id]]
             [] f.pc = "reload"    -> [f EXCEPT !.loaded = View(s)[f.call.id]]
             [] f.pc = "get_by_code" ->
                  [f EXCEPT !.found = IF holders = {} THEN None
                                      ELSE CHOOSE i \in holders : TRUE]
             [] f.pc = "list"      -> f)
  /\ Flush(s)
  /\ UNCHANGED faults

ExecInsert(s) ==
  /\ Runs(s, {"insert"})
  /\ LET id  == Head(queue[s])
         row == Created(Running(s).call)
     IN  /\ Unlocked(s, id) /\ CodeUnlocked(s, row.code)
         /\ \/ /\ ~CodeTaken(s, id, row.code)
               /\ WriteRow(s, id, row)
               /\ Answer(s, Running(s))
            \/ /\ CodeTaken(s, id, row.code)
               /\ CanFlush(s)
               /\ Fail(s, "conflict") /\ UNCHANGED db
  /\ UNCHANGED faults

\* Mutant of ExecUpdate: the row is written again if it has gone.
ExecUpsert(s) ==
  /\ Runs(s, {"update"})
  /\ LET f   == Running(s)
         row == Updated(f.call, f.snap)
     IN  /\ Unlocked(s, f.call.id) /\ CanFlush(s)
         /\ CodeUnlocked(s, row.code)
         /\ ~CodeTaken(s, f.call.id, row.code)
         /\ WriteRow(s, f.call.id, row)
         /\ Answer(s, f)
  /\ UNCHANGED faults

\* The UPDATE sets the columns in which the new row differs from the one that
\* was loaded, in whatever the row has become; without a row to update it is
\* a StaleDataError.
ExecUpdate(s) ==
  /\ Runs(s, {"update"})
  /\ LET f   == Running(s)
         id  == f.call.id
         new == Updated(f.call, f.snap)
         now == View(s)[id]
         row == [code |-> IF new.code # f.loaded.code THEN new.code ELSE now.code,
                 name |-> IF new.name # f.loaded.name THEN new.name ELSE now.name]
     IN  /\ Unlocked(s, id) /\ CanFlush(s)
         /\ \/ now = NoRow /\ Fail(s, "error") /\ UNCHANGED db
            \/ /\ now # NoRow
               /\ row.code # now.code => CodeUnlocked(s, row.code)
               /\ \/ /\ row.code # now.code /\ CodeTaken(s, id, row.code)
                     /\ Fail(s, "conflict") /\ UNCHANGED db
                  \/ /\ ~(row.code # now.code /\ CodeTaken(s, id, row.code))
                     /\ WriteRow(s, id, row)
                     /\ Answer(s, f)
  /\ UNCHANGED faults

ExecCommit(s) ==
  /\ Runs(s, {"commit"})
  /\ Commit(s, "closed")
  /\ Answer(s, Running(s))
  /\ UNCHANGED faults

ExecRollback(s) ==
  /\ Runs(s, {"rollback"})
  /\ Rollback(s, "closed")
  /\ Answer(s, Running(s))
  /\ UNCHANGED faults

Exec(s) ==
  \/ ExecSelect(s) \/ ExecInsert(s) \/ ExecUpdate(s)
  \/ ExecCommit(s) \/ ExecRollback(s)

-----------------------------------------------------------------------------
(* Faults. *)

\* The connection of s is lost with a statement in progress (or the client
\* gives the RPC up): a COMMIT may or may not have taken effect.
Lose(s) ==
  /\ faults < MaxFaults
  /\ queue[s] # <<>>
  /\ Fail(s, "error")
  /\ \/ UNCHANGED db
     \/ Running(s).pc = "commit" /\ CanFlush(s) /\ db' = View(s)
  /\ faults' = faults + 1

\* The process dies and is started again: committed rows are all that is left.
Crash ==
  /\ faults < MaxFaults
  /\ InFlight # {}
  /\ frame' = [r \in Requests |->
                 IF Active(r) THEN [frame[r] EXCEPT !.pc = "done",
                                                    !.outcome = "error"]
                 ELSE frame[r]]
  /\ queue' = [s \in Sessions |-> <<>>]
  /\ repo' = Startup
  /\ txn' = [s \in Sessions |-> Blank]
  /\ doomed' = [s \in Sessions |-> {}]
  /\ sess' = [s \in Sessions |-> "closed"]
  /\ faults' = faults + 1
  /\ UNCHANGED <<db, overlapped>>

\* A session nothing refers to any more is garbage collected, and the
\* connection it had taken is dropped.
Collect(s) ==
  /\ s \in Requests /\ frame[s].pc = "done"
  /\ sess[s] \in {"autobegun", "failed"}
  /\ queue[s] = <<>>
  /\ repo # s
  /\ \A q \in InFlight : frame[q].saved # s /\ frame[q].via # s
  /\ Rollback(s, "closed")
  /\ UNCHANGED <<queue, repo, frame, overlapped, faults>>

-----------------------------------------------------------------------------
Next ==
  \/ \E r \in Requests, c \in Workload : Start(r, c) \/ Reject(r, c)
  \/ \E r \in Requests : Resume(r)
  \/ \E s \in Sessions : Exec(s) \/ Lose(s) \/ Collect(s)
  \/ Crash

\* The event loop resumes every coroutine that can go on, and the database
\* executes every statement that is not waiting for a lock.
Fairness ==
  /\ \A r \in Requests : WF_vars(Resume(r))
  /\ \A s \in Sessions : WF_vars(Exec(s))

Spec == Init /\ [][Next]_vars

FairSpec == Spec /\ Fairness

-----------------------------------------------------------------------------
(* Properties. *)

\* Every variable holds a value of its type.
TypeOK ==
  /\ DbTypeOK
  /\ queue \in [Sessions -> Seq(Requests)]
  /\ repo \in Sessions
  /\ frame \in [Requests -> Frames]
  /\ overlapped \in SUBSET Requests
  /\ faults \in 0..MaxFaults

\* Two committed SKUs never share a code, although create_sku and update_sku
\* look the code up and write it in separate statements, in transactions that
\* other RPCs may have joined.
UniqueCodes == UniqueIn(db)

\* _with_repo: an RPC that no other RPC has overlapped works through its own
\* session from the first statement to the last, however earlier RPCs have
\* left SkuLogic._repo.
SoloIsolation ==
  \A r \in InFlight \ overlapped :
    frame[r].via = r /\ (InBody(r) => repo = r)

\* The rows an RPC has asked for, as db shows them.
InEffect(rows, r) ==
  LET c == frame[r].call
  IN  CASE c.op = "create" -> rows[r] = Created(c)
        [] c.op = "update" -> rows[c.id] # NoRow
                                /\ rows[c.id] = Updated(c, rows[c.id])
        [] c.op = "delete" -> rows[c.id] = NoRow
        [] c.op \in {"get", "list"} -> TRUE

\* An RPC that no other RPC has overlapped is answered "ok" only when the
\* committed rows are what it asked for.
SoloDurability ==
  [][\A r \in Requests \ overlapped :
       Active(r) /\ ~Active(r)' /\ frame'[r].outcome = "ok" => InEffect(db', r)]_vars

\* A deleted SKU never comes back: no update that read it before, on whatever
\* session, writes its row again.
NoResurrection == [][\A i \in Seeds : db[i] = NoRow => db'[i] = NoRow]_vars

\* _with_repo gives every RPC "transaction isolation": whatever statement it
\* awaits runs in its own session.
TransactionPerRequest == \A r \in InFlight : frame[r].via = r

\* Every RPC that has started is answered.
EveryRpcAnswered == \A r \in Requests : Active(r) ~> ~Active(r)

\* As long as every statement stays in its RPC's own session, every RPC that
\* has started is answered, however the RPCs contend for a row or a code.
AnsweredWhenIsolated ==
  []TransactionPerRequest => \A r \in Requests : Active(r) ~> ~Active(r)

(***************************************************************************)
(* One RPC at a time, the service keeps the promise of SkuStore.  A request *)
(* takes effect when the database executes its COMMIT.                     *)
(***************************************************************************)
Stage(r) ==
  LET f == frame[r]
  IN  CASE f.pc = "idle" -> "new"
        [] f.pc = "done" -> "answered"
        [] f.pc = "commit" /\ f.status = "answered" -> "performed"
        [] f.pc = "commit" /\ f.status = "error" -> "doubtful"
        [] OTHER -> "open"

Store == INSTANCE SkuStore WITH
  rows   <- db,
  call   <- [r \in Requests |-> frame[r].call],
  stage  <- [r \in Requests |-> Stage(r)],
  answer <- [r \in Requests |-> IF frame[r].pc = "done" THEN frame[r].outcome
                                ELSE "none"]

\* With one RPC at a time the service implements SkuStore.
ImplementsStore == Store!Spec
=============================================================================
