-------------------------- MODULE SkuServiceProofs --------------------------
(***************************************************************************)
(* Theorems about SkuService, for any number of RPCs, SKUs, codes and      *)
(* faults.                                                                 *)
(***************************************************************************)
EXTENDS SkuService, SequenceTheorems, FiniteSetTheorems, TLAPS

\* What the place where a coroutine is suspended says about its request.
Prepared(f) ==
  /\ f.pc # "idle" => f.call \in Calls
  /\ f.pc \in Body => ~Incomplete(f.call)
  /\ f.pc = "get_by_id" => f.call.op \in {"get", "update", "delete"}
  /\ f.pc = "get_by_code" =>
       \/ f.call.op = "create"
       \/ f.call.op = "update" /\ f.call.code # Absent /\ f.snap \in Row
  /\ f.pc = "insert" => f.call.op = "create" /\ Valid(Created(f.call))
  /\ f.pc = "reload" =>
       \/ f.call.op = "delete"
       \/ f.call.op = "update" /\ f.snap \in Row /\ Valid(Updated(f.call, f.snap))
  /\ f.pc = "update" =>
       /\ f.call.op = "update" /\ f.snap \in Row /\ f.loaded \in Row
       /\ Valid(Updated(f.call, f.snap))
  /\ f.pc \in Endings => f.outcome \in Outcomes

FramesPrepared == \A r \in Requests : Prepared(frame[r])

Core ==
  /\ DbTypeOK
  /\ queue \in [Sessions -> Seq(Requests)]
  /\ repo \in Sessions
  /\ frame \in [Requests -> Frames]
  /\ FramesPrepared

TypeInv == Core /\ overlapped \in SUBSET Requests /\ faults \in 0..MaxFaults

-----------------------------------------------------------------------------
(* Rows. *)

LEMMA CreatedRow ==
  ASSUME NEW c \in Calls, c.op = "create", ~Incomplete(c), Valid(Created(c))
  PROVE  Created(c) \in Row
<1>1. c.code \in RawCodes /\ c.name \in Names \cup {BadName}
  BY DEF Calls, Incomplete, RawName
<1>2. Normalized[c.code] \in Codes \cup {BadCode}
  BY <1>1, DomainAssumption
<1> QED
  BY <1>1, <1>2 DEF Created, NormalizeCode, Valid, Row

LEMMA UpdatedRow ==
  ASSUME NEW c \in Calls, c.op = "update", NEW row \in Row,
         Valid(Updated(c, row))
  PROVE  Updated(c, row) \in Row
<1>1. c.code \in RawCodes \cup {Absent} /\ c.name \in Names \cup {BadName, Absent}
  BY DEF Calls, RawName
<1>2. c.code # Absent => Normalized[c.code] \in Codes \cup {BadCode}
  BY <1>1, DomainAssumption
<1> QED
  BY <1>1, <1>2 DEF Updated, NormalizeCode, Valid, Row

LEMMA CallId ==
  ASSUME NEW c \in Calls, c.op \in {"get", "update", "delete"}, ~Incomplete(c)
  PROVE  c.id \in Ids
BY DEF Calls, Incomplete

LEMMA ViewType ==
  ASSUME DbTypeOK, NEW s \in Sessions
  PROVE  /\ Written(s) \in [Ids -> Row \cup {NoRow, Untouched}]
         /\ View(s) \in [Ids -> Row \cup {NoRow}]
<1>1. Written(s) \in [Ids -> Row \cup {NoRow, Untouched}]
  BY DEF DbTypeOK, Written
<1>2. View(s) \in [Ids -> Row \cup {NoRow}]
  BY <1>1 DEF View, Overlay, DbTypeOK
<1> QED BY <1>1, <1>2

LEMMA DiscardType ==
  ASSUME DbTypeOK, NEW s \in Sessions, NEW m \in {"closed", "failed"},
         NEW pending \in [Sessions -> SUBSET Ids],
         Discard(s, m, pending), db' \in [Ids -> Row \cup {NoRow}]
  PROVE  DbTypeOK'
<1>1. Blank \in [Ids -> Row \cup {NoRow, Untouched}]
  BY DEF Blank
<1> QED
  BY <1>1 DEF DbTypeOK, Discard

-----------------------------------------------------------------------------
(* The steps the actions of a coroutine are made of. *)

LEMMA AwaitType ==
  ASSUME Core, NEW r \in Requests, NEW point \in Body, NEW s \in Sessions,
         Await(r, point, s),
         Prepared([frame[r] EXCEPT !.pc = point, !.via = s, !.status = "sent"])
  PROVE  Core'
<1> DEFINE f == [frame[r] EXCEPT !.pc = point, !.via = s, !.status = "sent"]
<1>1. f \in Frames
  BY DEF Core, Frames
<1>2. frame' = [frame EXCEPT ![r] = f]
  BY DEF Await
<1>3. frame' \in [Requests -> Frames] /\ FramesPrepared'
  BY <1>1, <1>2 DEF Core, FramesPrepared
<1>4. queue' \in [Sessions -> Seq(Requests)]
  BY DEF Await, Core
<1>5. DbTypeOK' /\ repo' \in Sessions
  BY DEF Await, Core, DbTypeOK
<1> QED
  BY <1>3, <1>4, <1>5 DEF Core

LEMMA CloseAndAnswerType ==
  ASSUME Core, NEW r \in Requests, Active(r),
         NEW outcome \in Outcomes, NEW pending \in [Sessions -> SUBSET Ids],
         CloseAndAnswer(r, outcome, pending), repo' \in Sessions
  PROVE  Core'
<1>1. DbTypeOK'
  <2>1. r \in Sessions BY DEF Sessions
  <2>2. db' \in [Ids -> Row \cup {NoRow}] BY DEF CloseAndAnswer, Core, DbTypeOK
  <2> QED BY <2>1, <2>2, DiscardType DEF CloseAndAnswer, Core
<1>2. queue' \in [Sessions -> Seq(Requests)]
  <2>1. queue' = [queue EXCEPT ![r] = <<>>]
    BY DEF CloseAndAnswer
  <2> QED BY <2>1, EmptySeq DEF Core
<1>3. ASSUME NEW q \in Requests
      PROVE  frame'[q] \in Frames /\ Prepared(frame'[q])
  <2> frame[q] \in Frames /\ Prepared(frame[q])
    BY DEF Core, FramesPrepared
  <2>1. \/ frame'[q] = [frame[q] EXCEPT !.pc = "done", !.outcome = outcome]
           /\ q = r
        \/ frame'[q] = [frame[q] EXCEPT !.status = "error"]
        \/ frame'[q] = [frame[q] EXCEPT !.status = "detached"]
        \/ frame'[q] = frame[q]
    BY DEF CloseAndAnswer
  <2>2. ASSUME NEW st \in {"error", "detached"}
        PROVE  LET f == [frame[q] EXCEPT !.status = st]
               IN  f \in Frames /\ Prepared(f)
    BY <2>2 DEF Frames, Prepared
  <2>3. CASE frame'[q] = [frame[q] EXCEPT !.pc = "done", !.outcome = outcome]
             /\ q = r
    BY <2>3 DEF Frames, Prepared, Active, Body, Queries, Writes
  <2> QED BY <2>1, <2>2, <2>3
<1>4. frame' \in [Requests -> Frames] /\ FramesPrepared'
  BY <1>3 DEF CloseAndAnswer, FramesPrepared
<1> QED
  BY <1>1, <1>2, <1>4 DEF Core

LEMMA LeaveHavingType ==
  ASSUME Core, NEW r \in Requests, Active(r), NEW ending \in Endings,
         NEW outcome \in Outcomes, NEW pending \in [Sessions -> SUBSET Ids],
         LeaveHaving(r, ending, outcome, pending)
  PROVE  Core'
<1>1. repo' \in Sessions
  BY DEF LeaveHaving, Core, Frames
<1>2. CASE \E answer \in Unsent(r, ending, outcome) : CloseAndAnswer(r, answer, pending)
  <2>1. Unsent(r, ending, outcome) \subseteq Outcomes
    BY DEF Unsent, Outcomes
  <2> QED BY <1>1, <1>2, <2>1, CloseAndAnswerType
<1>3. CASE /\ frame' = [frame EXCEPT ![r] =
                 [@ EXCEPT !.pc = ending, !.via = r, !.status = "sent",
                           !.outcome = outcome]]
           /\ queue' = [queue EXCEPT ![r] = <<r>>]
           /\ doomed' = pending
           /\ UNCHANGED <<db, txn, sess>>
  <2> DEFINE f == [frame[r] EXCEPT !.pc = ending, !.via = r, !.status = "sent",
                                   !.outcome = outcome]
  <2>1. f \in Frames
    <3>1. frame[r] \in Frames /\ r \in Sessions
      BY DEF Core, Sessions
    <3> QED BY <3>1 DEF Frames
  <2>2. Prepared(f)
    BY DEF Core, FramesPrepared, Prepared, Frames, Active, Body, Queries,
           Writes, Endings
  <2>3. frame' \in [Requests -> Frames] /\ FramesPrepared'
    BY <1>3, <2>1, <2>2 DEF Core, FramesPrepared
  <2>4. queue' \in [Sessions -> Seq(Requests)]
    BY <1>3 DEF Core, Sessions
  <2>5. DbTypeOK'
    BY <1>3 DEF Core, DbTypeOK
  <2> QED BY <1>1, <2>3, <2>4, <2>5 DEF Core
<1> QED
  BY <1>2, <1>3 DEF LeaveHaving

LEMMA LeaveType ==
  ASSUME Core, NEW r \in Requests, Active(r), NEW ending \in Endings,
         NEW outcome \in Outcomes, Leave(r, ending, outcome)
  PROVE  Core'
<1> doomed \in [Sessions -> SUBSET Ids]
  BY DEF Core, DbTypeOK
<1> QED
  BY LeaveHavingType DEF Leave

LEMMA SendType ==
  ASSUME Core, NEW r \in Requests, Active(r), NEW point \in Body,
         NEW s \in Sessions, Send(r, point, s),
         Prepared([frame[r] EXCEPT !.pc = point, !.via = s, !.status = "sent"])
  PROVE  Core'
<1>1. CASE Await(r, point, s)
  BY <1>1, AwaitType
<1>2. CASE Leave(r, "rollback", "error")
  BY <1>2, LeaveType DEF Endings, Outcomes
<1> QED
  BY <1>1, <1>2 DEF Send

-----------------------------------------------------------------------------
(* TypeInv is inductive. *)

LEMMA InitType == Init => TypeInv
<1> SUFFICES ASSUME Init PROVE TypeInv
  OBVIOUS
<1>1. DbTypeOK
  BY DEF Init, DbInit, DbTypeOK, InitialRows, Blank
<1>2. queue \in [Sessions -> Seq(Requests)]
  BY EmptySeq DEF Init
<1>3. Idle \in Frames /\ Prepared(Idle)
  BY DEF Idle, Frames, Sessions, Prepared, Body, Queries, Writes, Endings
<1>4. frame \in [Requests -> Frames] /\ FramesPrepared
  BY <1>3 DEF Init, FramesPrepared
<1> QED
  BY <1>1, <1>2, <1>4, ServiceAssumption DEF Init, TypeInv, Core, Sessions

LEMMA StartType ==
  ASSUME TypeInv, NEW r \in Requests, NEW c \in Calls, Start(r, c)
  PROVE  TypeInv'
<1> DEFINE f == [frame[r] EXCEPT !.pc = FirstQuery(c), !.call = c,
                                 !.saved = repo, !.via = r, !.status = "sent"]
<1>1. frame[r] \in Frames /\ r \in Sessions /\ repo \in Sessions
  BY DEF TypeInv, Core, Sessions
<1>2. FirstQuery(c) \in Body
  BY DEF FirstQuery, Body, Queries
<1>3. f \in Frames
  BY <1>1, <1>2 DEF Frames
<1>4. Prepared(f)
  BY <1>1 DEF Frames, Prepared, Start, FirstQuery, Calls, Endings
<1>5. frame' = [frame EXCEPT ![r] = f]
  BY DEF Start
<1>6. frame' \in [Requests -> Frames] /\ FramesPrepared'
  BY <1>3, <1>4, <1>5 DEF TypeInv, Core, FramesPrepared
<1>7. queue' \in [Sessions -> Seq(Requests)]
  BY DEF Start, TypeInv, Core, Sessions
<1>8. DbTypeOK'
  BY DEF Start, TypeInv, Core, DbTypeOK
<1> QED
  BY <1>1, <1>6, <1>7, <1>8 DEF TypeInv, Core, Start, InFlight

LEMMA RejectType ==
  ASSUME TypeInv, NEW r \in Requests, NEW c \in Calls, Reject(r, c)
  PROVE  TypeInv'
<1> DEFINE f == [frame[r] EXCEPT !.pc = "done", !.call = c,
                                 !.outcome = "invalid"]
<1>1. frame[r] \in Frames
  BY DEF TypeInv, Core
<1>2. f \in Frames /\ f.pc = "done" /\ f.call = c
  BY <1>1 DEF Frames, Outcomes
<1>3. Prepared(f)
  <2> HIDE DEF f
  <2> QED BY <1>2 DEF Prepared, Body, Queries, Writes, Endings
<1>4. frame' = [frame EXCEPT ![r] = f]
  BY DEF Reject
<1>5. frame' \in [Requests -> Frames] /\ FramesPrepared'
  BY <1>2, <1>3, <1>4 DEF TypeInv, Core, FramesPrepared
<1> QED
  BY <1>5 DEF TypeInv, Core, DbTypeOK, Reject, dbVars

LEMMA ApplyUpdateType ==
  ASSUME Core, NEW r \in Requests, frame[r].pc \in {"get_by_id", "get_by_code"},
         frame[r].call.op = "update", frame[r].snap \in Row, ApplyUpdate(r)
  PROVE  Core'
<1> DEFINE c == frame[r].call
           existing == frame[r].snap
<1>1. frame[r] \in Frames /\ Prepared(frame[r]) /\ Active(r) /\ repo \in Sessions
  BY DEF Core, FramesPrepared, Active
<1>2. CASE Leave(r, "commit", "ok")
  BY <1>1, <1>2, LeaveType DEF Endings, Outcomes
<1>3. CASE Leave(r, "rollback", "invalid")
  BY <1>1, <1>3, LeaveType DEF Endings, Outcomes
<1>4. CASE Valid(Updated(c, existing)) /\ Send(r, "reload", repo)
  <2>1. "reload" \in Body
    BY DEF Body, Queries
  <2>2. Prepared([frame[r] EXCEPT !.pc = "reload", !.via = repo, !.status = "sent"])
    BY <1>1, <1>4 DEF Prepared, Frames, Body, Queries, Writes, Endings
  <2> QED BY <1>1, <1>4, <2>1, <2>2, SendType
<1> QED
  BY <1>2, <1>3, <1>4 DEF ApplyUpdate

LEMMA AfterGetByIdType ==
  ASSUME Core, NEW r \in Requests, AfterGetById(r)
  PROVE  Core'
<1> DEFINE c == frame[r].call
           existing == frame[r].snap
<1>1. /\ frame[r] \in Frames /\ Prepared(frame[r]) /\ repo \in Sessions
      /\ frame[r].pc = "get_by_id" /\ Active(r)
  BY DEF Core, FramesPrepared, Active, AfterGetById, Resumes
<1>2. CASE Leave(r, "rollback", "notfound")
  BY <1>1, <1>2, LeaveType DEF Endings, Outcomes
<1>3. CASE Leave(r, "commit", "ok")
  BY <1>1, <1>3, LeaveType DEF Endings, Outcomes
<1>4. CASE c.op = "delete" /\ Send(r, "reload", repo)
  <2>1. "reload" \in Body
    BY DEF Body, Queries
  <2>2. Prepared([frame[r] EXCEPT !.pc = "reload", !.via = repo, !.status = "sent"])
    BY <1>1, <1>4 DEF Prepared, Frames, Body, Queries, Writes, Endings
  <2> QED BY <1>1, <1>4, <2>1, <2>2, SendType
<1>5. CASE /\ existing # NoRow /\ c.op = "update" /\ ChangesCode(c, existing)
           /\ Send(r, "get_by_code", repo)
  <2>1. "get_by_code" \in Body
    BY DEF Body, Queries
  <2>2. Prepared([frame[r] EXCEPT !.pc = "get_by_code", !.via = repo,
                                  !.status = "sent"])
    BY <1>1, <1>5 DEF Prepared, Frames, Body, Queries, Writes, Endings,
                        ChangesCode
  <2> QED BY <1>1, <1>5, <2>1, <2>2, SendType
<1>6. CASE existing # NoRow /\ c.op = "update" /\ ApplyUpdate(r)
  BY <1>1, <1>6, ApplyUpdateType DEF Frames
<1> QED
  BY <1>2, <1>3, <1>4, <1>5, <1>6 DEF AfterGetById

LEMMA AfterGetByCodeType ==
  ASSUME Core, NEW r \in Requests, AfterGetByCode(r)
  PROVE  Core'
<1> DEFINE c == frame[r].call
<1>1. /\ frame[r] \in Frames /\ Prepared(frame[r]) /\ repo \in Sessions
      /\ frame[r].pc = "get_by_code" /\ Active(r)
  BY DEF Core, FramesPrepared, Active, AfterGetByCode, Resumes
<1>2. CASE Leave(r, "rollback", "conflict") \/ Leave(r, "rollback", "invalid")
  BY <1>1, <1>2, LeaveType DEF Endings, Outcomes
<1>3. CASE c.op = "create" /\ Valid(Created(c)) /\ Send(r, "insert", repo)
  <2>1. "insert" \in Body
    BY DEF Body, Writes
  <2>2. Prepared([frame[r] EXCEPT !.pc = "insert", !.via = repo, !.status = "sent"])
    BY <1>1, <1>3 DEF Prepared, Frames, Body, Queries, Writes, Endings
  <2> QED BY <1>1, <1>3, <2>1, <2>2, SendType
<1>4. CASE c.op = "update" /\ ApplyUpdate(r)
  BY <1>1, <1>4, ApplyUpdateType DEF Prepared
<1> QED
  BY <1>2, <1>3, <1>4 DEF AfterGetByCode

LEMMA AfterReloadType ==
  ASSUME Core, NEW r \in Requests, AfterReload(r)
  PROVE  Core'
<1> DEFINE c == frame[r].call
           s == frame[r].via
<1>1. /\ frame[r] \in Frames /\ Prepared(frame[r]) /\ s \in Sessions
      /\ frame[r].pc = "reload" /\ Active(r)
  BY DEF Core, FramesPrepared, Frames, Active, AfterReload
<1>2. CASE Leave(r, "rollback", "notfound") \/ Leave(r, "commit", "ok")
  BY <1>1, <1>2, LeaveType DEF Endings, Outcomes
<1>3. CASE frame[r].loaded # NoRow /\ c.op = "update" /\ Send(r, "update", s)
  <2>1. "update" \in Body
    BY DEF Body, Writes
  <2>2. Prepared([frame[r] EXCEPT !.pc = "update", !.via = s, !.status = "sent"])
    BY <1>1, <1>3 DEF Prepared, Frames, Body, Queries, Writes, Endings
  <2> QED BY <1>1, <1>3, <2>1, <2>2, SendType
<1>4. CASE /\ c.op = "delete"
           /\ LeaveHaving(r, "commit", "ok", [doomed EXCEPT ![s] = @ \cup {c.id}])
  <2>1. c \in Calls /\ ~Incomplete(c)
    BY <1>1 DEF Prepared, Body, Queries
  <2>2. c.id \in Ids
    BY <1>4, <2>1, CallId
  <2>3. [doomed EXCEPT ![s] = @ \cup {c.id}] \in [Sessions -> SUBSET Ids]
    BY <2>2 DEF Core, DbTypeOK
  <2> QED
    BY <1>1, <1>4, <2>3, LeaveHavingType DEF Endings, Outcomes
<1> QED
  BY <1>2, <1>3, <1>4 DEF AfterReload

LEMMA ResumeType ==
  ASSUME TypeInv, NEW r \in Requests, Resume(r)
  PROVE  TypeInv'
<1>1. Core /\ frame[r] \in Frames /\ Prepared(frame[r]) /\ repo \in Sessions
  BY DEF TypeInv, Core, FramesPrepared
<1>2. CASE AfterGetById(r)
  BY <1>1, <1>2, AfterGetByIdType DEF AfterGetById, TypeInv
<1>3. CASE AfterGetByCode(r)
  BY <1>1, <1>3, AfterGetByCodeType DEF AfterGetByCode, TypeInv
<1>4. CASE AfterReload(r)
  BY <1>1, <1>4, AfterReloadType DEF AfterReload, TypeInv
<1>5. CASE AfterWrite(r) \/ AfterList(r) \/ AfterError(r)
  <2>1. Active(r) /\ UNCHANGED <<overlapped, faults>>
    BY <1>5 DEF AfterWrite, AfterList, AfterError, Resumes, Active, InBody,
                Body, Queries, Writes
  <2>2. CASE Leave(r, "commit", "ok")
    BY <1>1, <2>1, <2>2, LeaveType DEF Endings, Outcomes, TypeInv
  <2>3. CASE frame[r].status \in {"conflict", "error"}
             /\ Leave(r, "rollback", frame[r].status)
    BY <1>1, <2>1, <2>3, LeaveType DEF Endings, Outcomes, TypeInv
  <2> QED BY <1>5, <2>2, <2>3 DEF AfterWrite, AfterList, AfterError
<1>6. CASE Finish(r)
  <2> DEFINE outcome == IF frame[r].status = "error" THEN "error"
                        ELSE frame[r].outcome
  <2>1. Active(r) /\ doomed \in [Sessions -> SUBSET Ids]
    BY <1>1, <1>6 DEF Finish, Active, Endings, Core, DbTypeOK
  <2>2. frame[r].outcome # "none" => outcome \in Outcomes
    BY <1>1 DEF Frames, Outcomes
  <2>3. frame[r].outcome # "none"
    BY <1>1, <1>6 DEF Prepared, Finish, Outcomes
  <2> QED
    BY <1>1, <1>6, <2>1, <2>2, <2>3, CloseAndAnswerType DEF Finish, TypeInv
<1> QED
  BY <1>2, <1>3, <1>4, <1>5, <1>6 DEF Resume

LEMMA AnswerType ==
  ASSUME TypeInv, NEW s \in Sessions, queue[s] # <<>>, NEW f \in Frames,
         Prepared(f), Answer(s, f), DbTypeOK', faults' = faults
  PROVE  TypeInv'
<1> DEFINE g == [f EXCEPT !.status = "answered"]
<1>1. queue[s] \in Seq(Requests)
  BY DEF TypeInv, Core
<1>2. Head(queue[s]) \in Requests /\ Tail(queue[s]) \in Seq(Requests)
  BY <1>1, HeadTailProperties
<1>3. g \in Frames /\ Prepared(g)
  BY DEF Frames, Prepared
<1>4. frame' = [frame EXCEPT ![Head(queue[s])] = g]
  BY DEF Answer
<1>5. frame' \in [Requests -> Frames] /\ FramesPrepared'
  BY <1>2, <1>3, <1>4 DEF TypeInv, Core, FramesPrepared
<1>6. queue' \in [Sessions -> Seq(Requests)]
  BY <1>2 DEF Answer, TypeInv, Core
<1> QED
  BY <1>5, <1>6 DEF Answer, TypeInv, Core

LEMMA FailType ==
  ASSUME TypeInv, NEW s \in Sessions, NEW why \in {"conflict", "error"},
         Fail(s, why), db' \in [Ids -> Row \cup {NoRow}], faults' \in 0..MaxFaults
  PROVE  TypeInv'
<1>1. DbTypeOK'
  BY DiscardType DEF Fail, TypeInv, Core, DbTypeOK
<1>2. queue' \in [Sessions -> Seq(Requests)]
  <2>1. queue' = [queue EXCEPT ![s] = <<>>]
    BY DEF Fail
  <2> QED BY <2>1, EmptySeq DEF TypeInv, Core
<1>3. ASSUME NEW q \in Requests
      PROVE  frame'[q] \in Frames /\ Prepared(frame'[q])
  <2> frame[q] \in Frames /\ Prepared(frame[q])
    BY DEF TypeInv, Core, FramesPrepared
  <2>1. \/ \E st \in {"conflict", "error"} :
             frame'[q] = [frame[q] EXCEPT !.status = st]
        \/ frame'[q] = frame[q]
    BY DEF Fail
  <2>2. ASSUME NEW st \in {"conflict", "error"}
        PROVE  LET f == [frame[q] EXCEPT !.status = st]
               IN  f \in Frames /\ Prepared(f)
    BY <2>2 DEF Frames, Prepared
  <2> QED BY <2>1, <2>2
<1>4. frame' \in [Requests -> Frames] /\ FramesPrepared'
  BY <1>3 DEF Fail, FramesPrepared
<1> QED
  BY <1>1, <1>2, <1>4 DEF Fail, TypeInv, Core

\* What an executing statement finds at the head of the queue.
LEMMA RunningType ==
  ASSUME TypeInv, NEW s \in Sessions, NEW points, Runs(s, points)
  PROVE  /\ queue[s] # <<>> /\ Head(queue[s]) \in Requests
         /\ Running(s) \in Frames /\ Prepared(Running(s))
         /\ Running(s).pc \in points
<1>1. queue[s] # <<>> /\ queue[s] \in Seq(Requests)
  BY DEF TypeInv, Core, Runs
<1>2. Head(queue[s]) \in Requests
  BY <1>1, HeadTailProperties
<1> QED
  BY <1>1, <1>2 DEF Running, Runs, TypeInv, Core, FramesPrepared

LEMMA FlushType ==
  ASSUME DbTypeOK, NEW s \in Sessions, Flush(s)
  PROVE  DbTypeOK'
BY ViewType DEF Flush, DbTypeOK

LEMMA WriteRowType ==
  ASSUME DbTypeOK, NEW s \in Sessions, NEW i \in Ids, NEW row \in Row,
         WriteRow(s, i, row)
  PROVE  DbTypeOK'
BY ViewType DEF WriteRow, DbTypeOK

LEMMA ExecSelectType ==
  ASSUME TypeInv, NEW s \in Sessions, ExecSelect(s)
  PROVE  TypeInv'
<1> DEFINE f == Running(s)
           holders == Holders(s, NormalizeCode(f.call.code))
<1>1. /\ queue[s] # <<>> /\ f \in Frames /\ Prepared(f) /\ f.pc \in Queries
  BY RunningType DEF ExecSelect, Runs
<1>2. DbTypeOK /\ View(s) \in [Ids -> Row \cup {NoRow}]
  BY ViewType DEF TypeInv, Core
<1>3. DbTypeOK' /\ faults' = faults
  BY <1>2, FlushType DEF ExecSelect
<1>4. f.call \in Calls /\ ~Incomplete(f.call)
  BY <1>1 DEF Prepared, Body, Queries
<1>5. CASE f.pc = "get_by_id"
  <2>1. f.call.id \in Ids
    BY <1>1, <1>4, <1>5, CallId DEF Prepared
  <2>2. LET g == [f EXCEPT !.snap = View(s)[f.call.id]]
        IN  g \in Frames /\ Prepared(g)
    BY <1>1, <1>2, <1>5, <2>1 DEF Frames, Prepared
  <2>3. Answer(s, [f EXCEPT !.snap = View(s)[f.call.id]])
    BY <1>5 DEF ExecSelect
  <2> QED BY <1>1, <1>3, <2>2, <2>3, AnswerType
<1>6. CASE f.pc = "reload"
  <2>1. f.call.id \in Ids
    BY <1>1, <1>4, <1>6, CallId DEF Prepared
  <2>2. LET g == [f EXCEPT !.loaded = View(s)[f.call.id]]
        IN  g \in Frames /\ Prepared(g)
    BY <1>1, <1>2, <1>6, <2>1 DEF Frames, Prepared
  <2>3. Answer(s, [f EXCEPT !.loaded = View(s)[f.call.id]])
    BY <1>6 DEF ExecSelect
  <2> QED BY <1>1, <1>3, <2>2, <2>3, AnswerType
<1>7. CASE f.pc = "get_by_code"
  <2> DEFINE found == IF holders = {} THEN None ELSE CHOOSE i \in holders : TRUE
             g == [f EXCEPT !.found = found]
  <2>1. holders \subseteq Ids
    BY DEF Holders
  <2>2. found \in Ids \cup {None}
    <3> HIDE DEF holders
    <3> QED BY <2>1
  <2>3. g \in Frames /\ Prepared(g)
    <3> HIDE DEF found
    <3> QED BY <1>1, <1>7, <2>2 DEF Frames, Prepared
  <2>4. Answer(s, g)
    BY <1>7 DEF ExecSelect
  <2> QED BY <1>1, <1>3, <2>3, <2>4, AnswerType
<1>8. CASE f.pc = "list"
  <2>1. Answer(s, f)
    BY <1>8 DEF ExecSelect
  <2> QED BY <1>1, <1>3, <2>1, AnswerType
<1> QED
  BY <1>1, <1>5, <1>6, <1>7, <1>8 DEF Queries

LEMMA ExecInsertType ==
  ASSUME TypeInv, NEW s \in Sessions, ExecInsert(s)
  PROVE  TypeInv'
<1> DEFINE f == Running(s)
           id == Head(queue[s])
           row == Created(f.call)
<1>1. /\ queue[s] # <<>> /\ id \in Requests
      /\ f \in Frames /\ Prepared(f) /\ f.pc = "insert"
  BY RunningType DEF ExecInsert
<1>2. f.call \in Calls /\ f.call.op = "create" /\ ~Incomplete(f.call) /\ Valid(row)
  BY <1>1 DEF Prepared, Body, Writes
<1>3. row \in Row /\ id \in Ids
  BY <1>1, <1>2, CreatedRow DEF Ids
<1>4. CASE WriteRow(s, id, row) /\ Answer(s, f)
  BY <1>1, <1>3, <1>4, WriteRowType, AnswerType DEF TypeInv, Core, ExecInsert
<1>5. CASE Fail(s, "conflict") /\ UNCHANGED db
  BY <1>5, FailType DEF TypeInv, Core, DbTypeOK, ExecInsert
<1> QED
  BY <1>4, <1>5 DEF ExecInsert

\* The row an UPDATE leaves behind.
UpdateResult(s, f) ==
  LET new == Updated(f.call, f.snap)
      now == View(s)[f.call.id]
  IN  [code |-> IF new.code # f.loaded.code THEN new.code ELSE now.code,
       name |-> IF new.name # f.loaded.name THEN new.name ELSE now.name]

\* What ExecUpdate does, in terms of that row.
LEMMA ExecUpdateCases ==
  ASSUME TypeInv, NEW s \in Sessions, ExecUpdate(s)
  PROVE  LET f == Running(s)
             id == f.call.id
             row == UpdateResult(s, f)
         IN  /\ queue[s] # <<>> /\ f \in Frames /\ Prepared(f)
             /\ id \in Ids /\ faults' = faults
             /\ \/ Fail(s, "error") /\ UNCHANGED db
                \/ Fail(s, "conflict") /\ UNCHANGED db
                \/ /\ View(s)[id] \in Row /\ row \in Row /\ Unlocked(s, id)
                   /\ row.code # View(s)[id].code =>
                        CodeUnlocked(s, row.code) /\ ~CodeTaken(s, id, row.code)
                   /\ WriteRow(s, id, row)
                   /\ Answer(s, f)
<1> DEFINE f == Running(s)
           id == f.call.id
           row == UpdateResult(s, f)
<1>1. /\ queue[s] # <<>> /\ f \in Frames /\ Prepared(f) /\ f.pc = "update"
  BY RunningType DEF ExecUpdate
<1>2. /\ f.call \in Calls /\ f.call.op = "update" /\ ~Incomplete(f.call)
      /\ f.snap \in Row /\ f.loaded \in Row /\ Valid(Updated(f.call, f.snap))
  BY <1>1 DEF Prepared, Body, Writes
<1>3. id \in Ids /\ Updated(f.call, f.snap) \in Row
  BY <1>2, CallId, UpdatedRow
<1>4. View(s)[id] \in Row \cup {NoRow}
  BY <1>3, ViewType DEF TypeInv, Core
<1>5. View(s)[id] # NoRow => row \in Row
  BY <1>2, <1>3, <1>4 DEF UpdateResult, Row
<1> QED
  BY <1>1, <1>3, <1>4, <1>5 DEF ExecUpdate, UpdateResult

LEMMA ExecUpdateType ==
  ASSUME TypeInv, NEW s \in Sessions, ExecUpdate(s)
  PROVE  TypeInv'
<1> DEFINE f == Running(s)
           id == f.call.id
           row == UpdateResult(s, f)
<1>1. /\ queue[s] # <<>> /\ f \in Frames /\ Prepared(f)
      /\ id \in Ids /\ faults' = faults
  BY ExecUpdateCases
<1>2. CASE \E why \in {"conflict", "error"} : Fail(s, why) /\ UNCHANGED db
  BY <1>1, <1>2, FailType DEF TypeInv, Core, DbTypeOK
<1>3. CASE row \in Row /\ WriteRow(s, id, row) /\ Answer(s, f)
  BY <1>1, <1>3, WriteRowType, AnswerType DEF TypeInv, Core
<1> QED
  BY <1>2, <1>3, ExecUpdateCases

LEMMA ExecEndingType ==
  ASSUME TypeInv, NEW s \in Sessions, ExecCommit(s) \/ ExecRollback(s)
  PROVE  TypeInv'
<1> DEFINE f == Running(s)
<1>1. /\ queue[s] # <<>> /\ f \in Frames /\ Prepared(f)
  BY RunningType DEF ExecCommit, ExecRollback
<1>2. db' \in [Ids -> Row \cup {NoRow}]
  BY ViewType DEF ExecCommit, ExecRollback, Commit, Rollback, TypeInv, Core,
                  DbTypeOK
<1>3. DbTypeOK'
  <2>1. Discard(s, "closed", doomed) /\ doomed \in [Sessions -> SUBSET Ids]
    BY DEF ExecCommit, ExecRollback, Commit, Rollback, TypeInv, Core, DbTypeOK
  <2> QED BY <1>2, <2>1, DiscardType DEF TypeInv, Core
<1>4. Answer(s, f) /\ faults' = faults
  BY DEF ExecCommit, ExecRollback
<1> QED
  BY <1>1, <1>3, <1>4, AnswerType

LEMMA FaultType ==
  ASSUME TypeInv, Crash \/ \E s \in Sessions : Lose(s) \/ Collect(s)
  PROVE  TypeInv'
<1>1. ASSUME NEW s \in Sessions, Lose(s)
      PROVE  TypeInv'
  <2>1. db' \in [Ids -> Row \cup {NoRow}]
    BY <1>1, ViewType DEF Lose, TypeInv, Core, DbTypeOK
  <2>2. faults' \in 0..MaxFaults
    BY <1>1, ServiceAssumption DEF Lose, TypeInv
  <2> QED BY <1>1, <2>1, <2>2, FailType DEF Lose
<1>2. ASSUME NEW s \in Sessions, Collect(s)
      PROVE  TypeInv'
  <2>1. DbTypeOK'
    BY <1>2, DiscardType DEF Collect, Rollback, TypeInv, Core, DbTypeOK
  <2> QED BY <1>2, <2>1 DEF Collect, TypeInv, Core, FramesPrepared
<1>3. CASE Crash
  <2>1. DbTypeOK'
    BY <1>3 DEF Crash, TypeInv, Core, DbTypeOK, Blank
  <2>2. queue' \in [Sessions -> Seq(Requests)] /\ repo' \in Sessions
    BY <1>3, EmptySeq DEF Crash, Sessions
  <2>3. ASSUME NEW q \in Requests
        PROVE  frame'[q] \in Frames /\ Prepared(frame'[q])
    <3>1. frame[q] \in Frames /\ Prepared(frame[q])
      BY DEF TypeInv, Core, FramesPrepared
    <3>2. CASE ~Active(q)
      BY <1>3, <3>1, <3>2 DEF Crash
    <3>3. CASE Active(q)
      <4>1. frame'[q] = [frame[q] EXCEPT !.pc = "done", !.outcome = "error"]
        BY <1>3, <3>3 DEF Crash
      <4>2. frame[q].call \in Calls
        BY <3>1, <3>3 DEF Prepared, Active
      <4> QED BY <3>1, <4>1, <4>2 DEF Frames, Prepared, Body, Queries, Writes,
                                      Endings, Outcomes
    <3> QED BY <3>2, <3>3
  <2>4. frame' \in [Requests -> Frames] /\ FramesPrepared'
    BY <1>3, <2>3 DEF Crash, FramesPrepared
  <2>5. overlapped' \in SUBSET Requests /\ faults' \in 0..MaxFaults
    <3>1. overlapped' = overlapped /\ faults' = faults + 1 /\ faults < MaxFaults
      BY <1>3 DEF Crash
    <3> QED BY <3>1, ServiceAssumption DEF TypeInv
  <2> QED BY <2>1, <2>2, <2>4, <2>5 DEF TypeInv, Core
<1> QED BY <1>1, <1>2, <1>3

LEMMA NextType == TypeInv /\ [Next]_vars => TypeInv'
<1> SUFFICES ASSUME TypeInv, [Next]_vars PROVE TypeInv'
  OBVIOUS
<1>1. ASSUME NEW r \in Requests, NEW c \in Workload, Start(r, c) \/ Reject(r, c)
      PROVE  TypeInv'
  BY <1>1, ServiceAssumption, StartType, RejectType
<1>2. ASSUME NEW r \in Requests, Resume(r)
      PROVE  TypeInv'
  BY <1>2, ResumeType
<1>3. ASSUME NEW s \in Sessions, Exec(s)
      PROVE  TypeInv'
  BY <1>3, ExecSelectType, ExecInsertType, ExecUpdateType, ExecEndingType
  DEF Exec
<1>4. CASE Crash \/ \E s \in Sessions : Lose(s) \/ Collect(s)
  BY <1>4, FaultType
<1>5. CASE UNCHANGED vars
  BY <1>5 DEF vars, dbVars, TypeInv, Core, DbTypeOK, FramesPrepared
<1> QED
  BY <1>1, <1>2, <1>3, <1>4, <1>5 DEF Next

\* Every variable of the service keeps its type, for any number of RPCs.
THEOREM TypeCorrectness == Spec => []TypeOK
<1>1. TypeInv => TypeOK
  BY DEF TypeInv, Core, TypeOK
<1> QED
  BY InitType, NextType, <1>1, PTL DEF Spec

-----------------------------------------------------------------------------
(* SoloIsolation.  An RPC that nobody has overlapped is the only one in    *)
(* flight, so nobody has moved the pointer since its Start.                *)

SoloInv ==
  \A r \in InFlight \ overlapped :
    /\ InFlight = {r}
    /\ frame[r].via = r
    /\ InBody(r) => repo = r

SameElsewhere(r) ==
  /\ \A p \in Requests \ {r} :
       frame'[p].pc = frame[p].pc /\ frame'[p].via = frame[p].via
  /\ \A p \in Requests : frame'[p].saved = frame[p].saved

\* Where RPC r may be after a step of its own.
Moves(r) ==
  \/ /\ InBody(r) /\ frame'[r].pc \in Body
     /\ frame'[r].via \in {repo, frame[r].via} /\ repo' = repo
  \/ frame'[r].pc \in Endings /\ frame'[r].via = r
  \/ frame'[r].pc = "done"

LEMMA CloseAndAnswerMoves ==
  ASSUME Core, NEW r \in Requests, NEW outcome, NEW pending,
         CloseAndAnswer(r, outcome, pending)
  PROVE  SameElsewhere(r) /\ Moves(r)
<1>1. frame'[r].pc = "done" /\ frame'[r].saved = frame[r].saved
  <2>1. frame'[r] = [frame[r] EXCEPT !.pc = "done", !.outcome = outcome]
    BY DEF CloseAndAnswer
  <2> QED BY <2>1 DEF Core, Frames
<1>2. ASSUME NEW p \in Requests \ {r}
      PROVE  /\ frame'[p].pc = frame[p].pc /\ frame'[p].via = frame[p].via
             /\ frame'[p].saved = frame[p].saved
  <2>1. \/ \E st \in {"error", "detached"} :
             frame'[p] = [frame[p] EXCEPT !.status = st]
        \/ frame'[p] = frame[p]
    BY DEF CloseAndAnswer
  <2> QED BY <2>1 DEF Core, Frames
<1> QED BY <1>1, <1>2 DEF SameElsewhere, Moves

LEMMA LeaveHavingMoves ==
  ASSUME Core, NEW r \in Requests, NEW ending \in Endings, NEW outcome, NEW pending,
         LeaveHaving(r, ending, outcome, pending)
  PROVE  SameElsewhere(r) /\ Moves(r)
<1>1. CASE frame' = [frame EXCEPT ![r] =
                       [@ EXCEPT !.pc = ending, !.via = r, !.status = "sent",
                                 !.outcome = outcome]]
  BY <1>1 DEF SameElsewhere, Moves, Core, Frames
<1> QED
  BY <1>1, CloseAndAnswerMoves DEF LeaveHaving

LEMMA SendMoves ==
  ASSUME Core, NEW r \in Requests, InBody(r), NEW point \in Body,
         NEW s \in {repo, frame[r].via}, Send(r, point, s)
  PROVE  SameElsewhere(r) /\ Moves(r)
<1>1. CASE Await(r, point, s)
  BY <1>1 DEF Await, SameElsewhere, Moves, Core, Frames
<1>2. CASE Leave(r, "rollback", "error")
  BY <1>2, LeaveHavingMoves DEF Leave, Endings
<1> QED
  BY <1>1, <1>2 DEF Send

\* What a step of a coroutine is made of.  A delete adds to what its
\* session has pending, and to nothing else.
LEMMA ResumeForms ==
  ASSUME TypeInv, NEW r \in Requests, Resume(r)
  PROVE  /\ Active(r) /\ frame[r].status # "sent"
         /\ overlapped' = overlapped /\ faults' = faults
         /\ \/ \E ending \in Endings : \E outcome, pending :
                 /\ LeaveHaving(r, ending, outcome, pending)
                 /\ DOMAIN pending = Sessions
                 /\ \A s \in Sessions \ {frame[r].via} : pending[s] = doomed[s]
            \/ /\ InBody(r)
               /\ \E point \in Body, s \in {repo, frame[r].via} : Send(r, point, s)
            \/ /\ repo' = repo
               /\ \E outcome : CloseAndAnswer(r, outcome, doomed)
<1> DEFINE Leaves(pending) ==
             \E ending \in Endings : \E outcome : LeaveHaving(r, ending, outcome, pending)
<1>1. /\ Active(r) /\ frame[r].status # "sent"
      /\ overlapped' = overlapped /\ faults' = faults
  BY DEF Resume, AfterGetById, AfterGetByCode, AfterReload, AfterWrite,
         AfterList, AfterError, Finish, Resumes, Active, InBody, Body,
         Queries, Writes, Endings
<1>2. \A outcome : /\ Leave(r, "commit", outcome) => Leaves(doomed)
                   /\ Leave(r, "rollback", outcome) => Leaves(doomed)
  BY DEF Leave, Endings
<1>3. {"get_by_code", "reload", "insert", "update"} \subseteq Body
  BY DEF Body, Queries, Writes
<1> HIDE DEF Leaves
<1>4. \/ Leaves(doomed)
      \/ Leaves([doomed EXCEPT ![frame[r].via] = @ \cup {frame[r].call.id}])
      \/ /\ InBody(r)
         /\ \E point \in Body, s \in {repo, frame[r].via} : Send(r, point, s)
      \/ repo' = repo /\ \E outcome : CloseAndAnswer(r, outcome, doomed)
  <2>1. CASE AfterGetById(r)
    BY <1>2, <1>3, <2>1 DEF AfterGetById, ApplyUpdate, Resumes, InBody, Body, Queries
  <2>2. CASE AfterGetByCode(r)
    BY <1>2, <1>3, <2>2 DEF AfterGetByCode, ApplyUpdate, Resumes, InBody, Body, Queries
  <2>3. CASE AfterReload(r)
    BY <1>2, <1>3, <2>3 DEF AfterReload, InBody, Body, Queries, Leaves, Endings
  <2>4. CASE AfterWrite(r) \/ AfterList(r) \/ AfterError(r)
    BY <1>2, <2>4 DEF AfterWrite, AfterList, AfterError
  <2>5. CASE Finish(r)
    BY <2>5 DEF Finish
  <2> QED BY <2>1, <2>2, <2>3, <2>4, <2>5 DEF Resume
<1>5. ASSUME NEW pending, Leaves(pending), DOMAIN pending = Sessions,
             \A s \in Sessions \ {frame[r].via} : pending[s] = doomed[s]
      PROVE  \E ending \in Endings : \E outcome, later :
               /\ LeaveHaving(r, ending, outcome, later)
               /\ DOMAIN later = Sessions
               /\ \A s \in Sessions \ {frame[r].via} : later[s] = doomed[s]
  BY <1>5 DEF Leaves
<1>6. LET pending == [doomed EXCEPT ![frame[r].via] = @ \cup {frame[r].call.id}]
      IN  /\ DOMAIN pending = Sessions /\ DOMAIN doomed = Sessions
          /\ \A s \in Sessions \ {frame[r].via} : pending[s] = doomed[s]
  BY DEF TypeInv, Core, DbTypeOK
<1> QED
  BY <1>1, <1>4, <1>5, <1>6

LEMMA ResumeMoves ==
  ASSUME TypeInv, NEW r \in Requests, Resume(r)
  PROVE  /\ Active(r) /\ SameElsewhere(r) /\ Moves(r)
         /\ overlapped' = overlapped
<1>1. Core /\ repo \in Sessions /\ frame[r].via \in Sessions
  BY DEF TypeInv, Core, Frames
<1> QED
  BY <1>1, ResumeForms, LeaveHavingMoves, SendMoves, CloseAndAnswerMoves

\* The database's steps, lost statements and garbage collection leave every
\* coroutine where it is.
LEMMA DatabaseMoves ==
  ASSUME TypeInv, NEW s \in Sessions, Exec(s) \/ Lose(s) \/ Collect(s)
  PROVE  /\ \A p \in Requests :
              /\ frame'[p].pc = frame[p].pc /\ frame'[p].via = frame[p].via
              /\ frame'[p].saved = frame[p].saved
         /\ UNCHANGED <<repo, overlapped>>
<1> DEFINE Same == /\ \A p \in Requests : /\ frame'[p].pc = frame[p].pc
                                          /\ frame'[p].via = frame[p].via
                                          /\ frame'[p].saved = frame[p].saved
                   /\ UNCHANGED <<repo, overlapped>>
<1>1. frame \in [Requests -> Frames]
  BY DEF TypeInv, Core
<1>2. ASSUME NEW why, Fail(s, why) PROVE Same
  <2>1. ASSUME NEW p \in Requests
        PROVE  \/ \E st \in {why, "error"} :
                    frame'[p] = [frame[p] EXCEPT !.status = st]
               \/ frame'[p] = frame[p]
    BY <1>2 DEF Fail
  <2> QED BY <1>1, <1>2, <2>1 DEF Fail, Frames
<1>3. ASSUME NEW f \in Frames, Answer(s, f), queue[s] # <<>>,
             f.pc = Running(s).pc, f.via = Running(s).via,
             f.saved = Running(s).saved
      PROVE  Same
  <2>1. Head(queue[s]) \in Requests
    BY <1>3, HeadTailProperties DEF TypeInv, Core
  <2> QED BY <1>1, <1>3, <2>1 DEF Answer, Running, Frames
<1>4. CASE ExecSelect(s)
  <2> DEFINE f == Running(s)
  <2>1. f \in Frames /\ f.pc \in Queries /\ queue[s] # <<>>
    BY <1>4, RunningType DEF ExecSelect, Runs
  <2>2. PICK snap, loaded, found :
          \/ Answer(s, [f EXCEPT !.snap = snap])
          \/ Answer(s, [f EXCEPT !.loaded = loaded])
          \/ Answer(s, [f EXCEPT !.found = found])
          \/ Answer(s, f)
    BY <1>4, <2>1 DEF ExecSelect, Queries
  <2>3. Head(queue[s]) \in Requests
    BY <2>1, HeadTailProperties DEF TypeInv, Core
  <2>4. ASSUME NEW g, g.pc = f.pc, g.via = f.via, g.saved = f.saved, Answer(s, g),
               \E a, b, c : g \in {f, [f EXCEPT !.snap = a], [f EXCEPT !.loaded = b],
                                   [f EXCEPT !.found = c]}
        PROVE  Same
    <3>1. frame' = [frame EXCEPT ![Head(queue[s])] =
                      [g EXCEPT !.status = "answered"]]
      BY <2>4 DEF Answer
    <3>2. [g EXCEPT !.status = "answered"].pc = f.pc
          /\ [g EXCEPT !.status = "answered"].via = f.via
          /\ [g EXCEPT !.status = "answered"].saved = f.saved
      BY <2>1, <2>4 DEF Frames
    <3> QED BY <1>1, <2>3, <2>4, <3>1, <3>2 DEF Answer, Running
  <2> QED BY <2>1, <2>2, <2>4 DEF Frames
<1>5. CASE ExecInsert(s) \/ ExecCommit(s) \/ ExecRollback(s)
  <2>1. Running(s) \in Frames /\ queue[s] # <<>>
    BY <1>5, RunningType DEF ExecInsert, ExecCommit, ExecRollback
  <2> QED BY <1>2, <1>3, <1>5, <2>1 DEF ExecInsert, ExecCommit, ExecRollback
<1>6. CASE ExecUpdate(s)
  BY <1>2, <1>3, <1>6, ExecUpdateCases
<1>7. CASE Lose(s) \/ Collect(s)
  BY <1>2, <1>7 DEF Lose, Collect
<1> QED
  BY <1>4, <1>5, <1>6, <1>7 DEF Exec

LEMMA InitSolo == Init => SoloInv
BY DEF Init, SoloInv, InFlight, Active, Idle

LEMMA NextSolo == TypeInv /\ SoloInv /\ [Next]_vars => SoloInv'
<1> SUFFICES ASSUME TypeInv, SoloInv, [Next]_vars PROVE SoloInv'
  OBVIOUS
<1>1. frame \in [Requests -> Frames] /\ frame' \in [Requests -> Frames]
  BY NextType DEF TypeInv, Core
<1>2. ASSUME NEW r \in Requests, NEW c \in Workload, Start(r, c)
      PROVE  SoloInv'
  <2>1. /\ frame'[r].pc \in Body /\ frame'[r].via = r /\ repo' = r
        /\ \A p \in Requests \ {r} : frame'[p] = frame[p]
    BY <1>1, <1>2 DEF Start, FirstQuery, Body, Queries, Frames
  <2>2. InFlight' = InFlight \cup {r}
    BY <2>1 DEF InFlight, Active, Body, Queries, Writes
  <2>3. CASE InFlight = {}
    BY <2>1, <2>2, <2>3 DEF SoloInv
  <2>4. CASE InFlight # {}
    BY <1>2, <2>2, <2>4 DEF SoloInv, Start
  <2> QED BY <2>3, <2>4
<1>3. ASSUME NEW r \in Requests, NEW c \in Workload, Reject(r, c)
      PROVE  SoloInv'
  <2>1. \A p \in Requests : p # r => frame'[p] = frame[p]
    BY <1>1, <1>3 DEF Reject
  <2>2. frame[r].pc = "idle" /\ frame'[r].pc = "done"
    BY <1>1, <1>3 DEF Reject, Frames
  <2>3. InFlight' = InFlight /\ r \notin InFlight
    BY <2>1, <2>2 DEF InFlight, Active
  <2> QED BY <1>3, <2>1, <2>3 DEF SoloInv, Reject, InBody, InFlight
<1>4. ASSUME NEW r \in Requests, Resume(r)
      PROVE  SoloInv'
  <2>1. /\ r \in InFlight /\ SameElsewhere(r) /\ Moves(r)
        /\ overlapped' = overlapped
    BY <1>4, ResumeMoves DEF InFlight
  <2>2. InFlight' \subseteq InFlight
    BY <2>1 DEF InFlight, Active, SameElsewhere
  <2>3. CASE r \in overlapped
    BY <2>1, <2>2, <2>3 DEF SoloInv
  <2>4. CASE r \notin overlapped
    <3>1. InFlight = {r} /\ frame[r].via = r /\ (InBody(r) => repo = r)
      BY <2>1, <2>4 DEF SoloInv
    <3>2. InFlight' # {} => /\ InFlight' = {r} /\ frame'[r].via = r
                            /\ InBody(r)' => repo' = r
      BY <2>1, <2>2, <3>1 DEF Moves, InFlight, Active, InBody, Body, Queries,
                              Writes, Endings
    <3> QED BY <3>2 DEF SoloInv
  <2> QED BY <2>3, <2>4
<1>5. ASSUME NEW s \in Sessions, Exec(s) \/ Lose(s) \/ Collect(s)
      PROVE  SoloInv'
  BY <1>5, DatabaseMoves DEF SoloInv, InFlight, Active, InBody
<1>6. CASE Crash
  <2>1. \A p \in Requests : frame'[p].pc \in {"idle", "done"}
    BY <1>1, <1>6 DEF Crash, Active, Frames
  <2> QED BY <2>1 DEF SoloInv, InFlight, Active
<1>7. CASE UNCHANGED vars
  BY <1>7 DEF vars, SoloInv, InFlight, Active, InBody
<1> QED
  BY <1>2, <1>3, <1>4, <1>5, <1>6, <1>7 DEF Next

\* An RPC that no other one has overlapped works in its own session
\* throughout, whatever RPCs before it have left in SkuLogic._repo.
THEOREM SoloIsolated == Spec => []SoloIsolation
<1>1. SoloInv => SoloIsolation
  BY DEF SoloInv, SoloIsolation
<1> QED
  BY InitType, NextType, InitSolo, NextSolo, <1>1, PTL DEF Spec

LEMMA NeverOverlapped ==
  ASSUME MaxRpcs = 1
  PROVE  Spec => [](overlapped = {})
<1> DEFINE Inv == overlapped = {}
<1>1. Init => Inv
  BY DEF Init
<1>2. TypeInv /\ Inv /\ [Next]_vars => Inv'
  <2> SUFFICES ASSUME TypeInv, Inv, [Next]_vars PROVE Inv'
    OBVIOUS
  <2>1. ASSUME NEW r \in Requests, NEW c \in Workload, Start(r, c)
        PROVE  Inv'
    <3>1. IsFiniteSet(InFlight)
      BY DomainAssumption, FS_Subset DEF InFlight
    <3>2. Cardinality(InFlight) = 0
      BY <2>1, <3>1, FS_CardinalityType DEF Start
    <3>3. InFlight = {}
      BY <3>1, <3>2, FS_EmptySet
    <3> QED BY <2>1, <3>3 DEF Start
  <2>2. ASSUME NEW r \in Requests, Resume(r)
        PROVE  Inv'
    BY <2>2, ResumeMoves
  <2>3. ASSUME NEW s \in Sessions, Exec(s) \/ Lose(s) \/ Collect(s)
        PROVE  Inv'
    BY <2>3, DatabaseMoves
  <2> QED
    BY <2>1, <2>2, <2>3 DEF Next, Reject, Crash, vars
<1> QED
  BY InitType, NextType, <1>1, <1>2, PTL DEF Spec

\* With maximum_concurrent_rpcs = 1 every RPC keeps to its own transaction.
THEOREM SerialIsolated ==
  ASSUME MaxRpcs = 1
  PROVE  Spec => []TransactionPerRequest
<1>1. SoloInv /\ overlapped = {} => TransactionPerRequest
  BY DEF SoloInv, TransactionPerRequest
<1> QED
  BY InitType, NextType, InitSolo, NextSolo, NeverOverlapped, <1>1, PTL DEF Spec
=============================================================================
