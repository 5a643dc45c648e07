--------------------------- MODULE SkuStoreProofs ---------------------------
(***************************************************************************)
(* What an RPC that no other one has overlapped does to the rows, and that *)
(* one RPC at a time implements SkuStore, for any number of RPCs, SKUs,    *)
(* codes and faults.                                                       *)
(*                                                                         *)
(* Progress says what such an RPC has read, decided and written at every   *)
(* place where it may be suspended.  StoreMove says what a step of it is   *)
(* to the client.  Every step of the RPC keeps the one and is the other.   *)
(***************************************************************************)
EXTENDS SkuServiceProofs, SkuPromise

Rows == [Ids -> Row \cup {NoRow}]

-----------------------------------------------------------------------------
(* The promise. *)

\* The store's operators, which it has from SkuPromise, are the service's.
LEMMA SamePromise ==
  /\ \A rows, r, c : Store!Verdict(rows, r, c) = Verdict(rows, r, c)
  /\ \A rows, r, c : Store!Effect(rows, r, c) = Effect(rows, r, c)
  /\ \A c : Store!Incomplete(c) <=> Incomplete(c)
  /\ Store!Calls = Calls /\ Store!InitialRows = InitialRows
<1>1. /\ Store!Ids = Ids
      /\ \A c : Store!Incomplete(c) <=> Incomplete(c)
      /\ \A row : Store!Valid(row) <=> Valid(row)
      /\ \A c : Store!Created(c) = Created(c)
      /\ \A c, row : Store!ChangesCode(c, row) <=> ChangesCode(c, row)
      /\ \A c, row : Store!HasUpdates(c, row) <=> HasUpdates(c, row)
      /\ \A c, row : Store!Updated(c, row) = Updated(c, row)
      /\ \A raw : Store!NormalizeCode(raw) = NormalizeCode(raw)
  BY DEF Ids, Incomplete, Valid, Created, ChangesCode, HasUpdates, Updated,
         NormalizeCode, Store!Ids, Store!Incomplete, Store!Valid, Store!Created,
         Store!ChangesCode, Store!HasUpdates, Store!Updated, Store!NormalizeCode
<1>2. \A rows, code, id : Store!Taken(rows, code, id) <=> Taken(rows, code, id)
  BY <1>1 DEF Taken, Store!Taken
<1>3. \A rows, r, c :
        /\ Store!Missing(rows, c) <=> Missing(rows, c)
        /\ Store!Conflicting(rows, r, c) <=> Conflicting(rows, r, c)
        /\ Store!Malformed(rows, c) <=> Malformed(rows, c)
  BY <1>1, <1>2 DEF Missing, Conflicting, Malformed, Store!Missing,
                    Store!Conflicting, Store!Malformed
<1>4. \A rows, r, c : Store!Verdict(rows, r, c) = Verdict(rows, r, c)
  BY <1>1, <1>3 DEF Verdict, Store!Verdict
<1>5. \A rows, r, c : Store!Effect(rows, r, c) = Effect(rows, r, c)
  BY <1>1 DEF Effect, Store!Effect
<1>6. Store!Calls = Calls /\ Store!InitialRows = InitialRows
  <2>1. Store!Row = Row /\ Store!RawName = RawName
    BY DEF Row, RawName, Store!Row, Store!RawName
  <2>2. \A rows : Store!UniqueIn(rows) <=> UniqueIn(rows)
    BY <1>1 DEF UniqueIn, Store!UniqueIn
  <2> QED
    BY <1>1, <2>1, <2>2 DEF Calls, InitialRows, Store!Calls, Store!InitialRows
<1> QED
  BY <1>1, <1>4, <1>5, <1>6

\* Stage and InEffect, one place or operation at a time.
StageOf(f) ==
  IF f.pc = "idle" THEN "new"
  ELSE IF f.pc = "done" THEN "answered"
  ELSE IF f.pc = "commit" /\ f.status = "answered" THEN "performed"
  ELSE IF f.pc = "commit" /\ f.status = "error" THEN "doubtful"
  ELSE "open"

LEMMA StageIsStageOf == \A r : Stage(r) = StageOf(frame[r])
<1> SUFFICES ASSUME NEW r PROVE Stage(r) = StageOf(frame[r])
  OBVIOUS
<1> QED BY Zenon DEF Stage, StageOf

Achieved(rows, r, c) ==
  /\ c.op = "create" => rows[r] = Created(c)
  /\ c.op = "update" => rows[c.id] # NoRow /\ rows[c.id] = Updated(c, rows[c.id])
  /\ c.op = "delete" => rows[c.id] = NoRow

LEMMA AchievedInEffect ==
  ASSUME NEW rows, NEW r \in Requests, frame[r].call \in Calls,
         Achieved(rows, r, frame[r].call)
  PROVE  InEffect(rows, r)
<1> DEFINE op == frame[r].call.op
<1>1. op \in {"create", "get", "update", "delete", "list"}
  BY DEF Calls
<1>2. CASE op = "create"
  BY <1>2, Zenon DEF InEffect, Achieved
<1>3. CASE op = "update"
  BY <1>3, Zenon DEF InEffect, Achieved
<1>4. CASE op = "delete"
  BY <1>4, Zenon DEF InEffect, Achieved
<1>5. CASE op \in {"get", "list"}
  BY <1>5, Zenon DEF InEffect, Achieved
<1> QED BY <1>1, <1>2, <1>3, <1>4, <1>5

\* What a request that is due "ok" leaves is what it asked for, and stays so.
LEMMA EffectAchieves ==
  ASSUME NEW rows \in Rows, NEW r \in Requests, NEW c \in Calls,
         Verdict(rows, r, c) = "ok"
  PROVE  Achieved(Effect(rows, r, c), r, c)
<1>1. ~Incomplete(c) /\ ~Missing(rows, c) /\ ~Malformed(rows, c) /\ r \in Ids
  BY DEF Verdict, Ids
<1>2. CASE c.op = "create"
  BY <1>1, <1>2 DEF Achieved, Effect
<1>3. CASE c.op = "delete"
  <2>1. c.id \in Ids
    BY <1>1, <1>3, CallId
  <2> QED BY <1>3, <2>1 DEF Achieved, Effect
<1>4. CASE c.op = "update"
  <2> DEFINE row == rows[c.id]
             new == Updated(c, row)
  <2>1. c.id \in Ids /\ row \in Row
    BY <1>1, <1>4, CallId DEF Missing, Rows
  <2>2. Effect(rows, r, c)[c.id] = new
    BY <1>4, <2>1 DEF Effect
  <2>3. new \in Row
    <3>1. CASE HasUpdates(c, row)
      BY <1>1, <1>4, <2>1, <3>1, UpdatedRow DEF Malformed
    <3>2. CASE ~HasUpdates(c, row)
      <4>1. new = row
        BY <2>1, <3>2 DEF HasUpdates, ChangesCode, Updated, Row
      <4> QED BY <2>1, <4>1
    <3> QED BY <3>1, <3>2
  <2>4. Updated(c, new) = new
    BY DEF Updated
  <2> QED BY <1>4, <2>2, <2>3, <2>4, DomainAssumption DEF Achieved
<1>5. CASE c.op \in {"get", "list"}
  BY <1>5 DEF Achieved
<1> QED BY <1>2, <1>3, <1>4, <1>5 DEF Calls

-----------------------------------------------------------------------------
(* What a session sees. *)

LEMMA ViewOf ==
  ASSUME DbTypeOK, NEW s \in Sessions
  PROVE  /\ View(s) \in Rows
         /\ \A i \in Ids : View(s)[i] = IF i \in doomed[s] THEN NoRow
                                        ELSE IF txn[s][i] = Untouched THEN db[i]
                                        ELSE txn[s][i]
BY ViewType, DatabaseAssumption DEF View, Written, Overlay, Rows

LEMMA NextViewOf ==
  ASSUME DbTypeOK', NEW s \in Sessions
  PROVE  /\ View(s)' \in Rows
         /\ \A i \in Ids : View(s)'[i] = IF i \in doomed'[s] THEN NoRow
                                         ELSE IF txn'[s][i] = Untouched THEN db'[i]
                                         ELSE txn'[s][i]
BY DatabaseAssumption DEF View, Written, Overlay, Rows, DbTypeOK

\* A session that has written nothing sees the committed rows.
LEMMA BlankView ==
  ASSUME DbTypeOK, NEW s \in Sessions, txn[s] = Blank, doomed[s] = {}
  PROVE  View(s) = db
<1>1. \A i \in Ids : View(s)[i] = db[i]
  BY ViewOf DEF Blank
<1> QED BY <1>1, ViewOf DEF Rows, DbTypeOK

LEMMA SameView ==
  ASSUME DbTypeOK, DbTypeOK', NEW s \in Sessions,
         db' = db, txn'[s] = txn[s], doomed'[s] = doomed[s]
  PROVE  View(s)' = View(s)
BY ViewOf, NextViewOf DEF Rows

\* A flush changes nothing of what the session sees.
LEMMA FlushView ==
  ASSUME DbTypeOK, DbTypeOK', NEW s \in Sessions, Flush(s)
  PROVE  View(s)' = View(s) /\ db' = db
<1>1. /\ \A i \in Ids : txn'[s][i] = IF i \in doomed[s] THEN NoRow ELSE txn[s][i]
      /\ doomed'[s] = {} /\ db' = db
  BY DEF Flush, Written, DbTypeOK
<1>2. \A i \in Ids : View(s)'[i] = View(s)[i]
  BY <1>1, ViewOf, NextViewOf, DatabaseAssumption
<1> QED BY <1>1, <1>2, ViewOf, NextViewOf DEF Rows

LEMMA WriteView ==
  ASSUME DbTypeOK, DbTypeOK', NEW s \in Sessions, NEW i \in Ids, NEW row \in Row,
         WriteRow(s, i, row)
  PROVE  View(s)' = [View(s) EXCEPT ![i] = row] /\ db' = db
<1>1. /\ \A j \in Ids : txn'[s][j] = IF j = i THEN row
                                     ELSE IF j \in doomed[s] THEN NoRow
                                     ELSE txn[s][j]
      /\ doomed'[s] = {} /\ db' = db
  BY DEF WriteRow, Written, DbTypeOK
<1>2. \A j \in Ids : View(s)'[j] = IF j = i THEN row ELSE View(s)[j]
  BY <1>1, ViewOf, NextViewOf, DatabaseAssumption
<1> QED BY <1>1, <1>2, ViewOf, NextViewOf DEF Rows

LEMMA DoomView ==
  ASSUME DbTypeOK, DbTypeOK', NEW s \in Sessions, NEW i \in Ids,
         UNCHANGED <<db, txn>>, doomed' = [doomed EXCEPT ![s] = @ \cup {i}]
  PROVE  View(s)' = [View(s) EXCEPT ![i] = NoRow]
<1>1. doomed'[s] = doomed[s] \cup {i}
  BY DEF DbTypeOK
<1>2. \A j \in Ids : View(s)'[j] = IF j = i THEN NoRow ELSE View(s)[j]
  BY <1>1, ViewOf, NextViewOf, DatabaseAssumption
<1> QED BY <1>2, ViewOf, NextViewOf DEF Rows

-----------------------------------------------------------------------------
(* The progress of an RPC r that works alone, with frame f, committed rows *)
(* and what its session sees of them.                                      *)

\* What it has read is what is there: nobody else commits meanwhile.
Reading(f, rows, view) ==
  LET c == f.call
      answered == f.status = "answered"
  IN  /\ f.pc \in Queries /\ f.status # "error" => view = rows
      /\ f.pc \in Writes /\ f.status = "sent" => view = rows
      /\ f.pc = "get_by_id" /\ answered => f.snap = rows[c.id]
      /\ f.pc = "get_by_code" /\ answered =>
           IF f.found = None THEN ~Taken(rows, NormalizeCode(c.code), None)
           ELSE /\ f.found \in Ids /\ rows[f.found] # NoRow
                /\ rows[f.found].code = NormalizeCode(c.code)
      /\ f.pc \in {"get_by_code", "reload", "update"} /\ c.op = "update" =>
           f.snap = rows[c.id]
      /\ f.pc = "update" \/ (f.pc = "reload" /\ answered) => f.loaded = rows[c.id]

\* It goes on as long as the verdict is "ok", and leaves with the verdict.
Deciding(r, f, rows) ==
  LET c == f.call
  IN  /\ f.pc \in {"get_by_code", "insert"} /\ c.op = "create" => rows[r] = NoRow
      /\ f.pc = "get_by_code" /\ c.op = "update" => ChangesCode(c, f.snap)
      /\ f.pc = "list" => c.op = "list"
      /\ f.pc \in {"reload"} \cup Writes => Verdict(rows, r, c) = "ok"
      /\ f.pc = "commit" => f.outcome = "ok"
      /\ f.pc = "commit" /\ f.status = "sent" => Verdict(rows, r, c) = "ok"
      /\ f.pc = "rollback" => f.outcome \in {"error", Verdict(rows, r, c)} \ {"ok"}

\* What it has written is what it was asked for, and so is what it commits.
Writing(r, f, rows, view) ==
  LET c == f.call
  IN  /\ f.pc \in Writes /\ f.status = "answered" => view = Effect(rows, r, c)
      /\ f.pc = "commit" /\ f.status = "sent" => view = Effect(rows, r, c)
      /\ f.pc = "commit" /\ f.status = "answered" => Achieved(rows, r, c)

Progress(r, f, rows, view) ==
  /\ f.status \in {"sent", "answered", "error"}
  /\ Reading(f, rows, view) /\ Deciding(r, f, rows) /\ Writing(r, f, rows, view)

\* The step of SkuStore that RPC r takes when its frame f becomes g and rows
\* become after; the first is no step at all.
StoreMove(r, f, rows, g, after) ==
  /\ g.call = f.call
  /\ \/ StageOf(g) = StageOf(f) /\ g.pc # "done" /\ after = rows
     \/ /\ StageOf(f) = "open" /\ Verdict(rows, r, f.call) = "ok"
        /\ \/ StageOf(g) = "performed" /\ after = Effect(rows, r, f.call)
           \/ StageOf(g) = "doubtful" /\ after \in {rows, Effect(rows, r, f.call)}
     \/ /\ g.pc = "done" /\ after = rows
        /\ \/ g.outcome = "error"
           \/ g.outcome = "ok" /\ StageOf(f) = "performed"
           \/ /\ g.outcome = Verdict(rows, r, f.call) /\ g.outcome # "ok"
              /\ StageOf(f) = "open"

-----------------------------------------------------------------------------
(* Queues. *)

\* A connection works for RPCs that wait for it, and for each of them once.
Waits(q, s) == Active(q) /\ frame[q].via = s /\ frame[q].status = "sent"

QueueAt(s) ==
  \A i \in 1..Len(queue[s]) :
    /\ Waits(queue[s][i], s)
    /\ \A j \in 1..Len(queue[s]) : i # j => queue[s][j] # queue[s][i]

QueueInv == \A s \in Sessions : QueueAt(s)

\* RPC r is the only one in flight, and works in its own session.
Alone(r) == InFlight = {r} /\ frame[r].via = r /\ (InBody(r) => repo = r)

LEMMA AloneType ==
  ASSUME TypeInv, NEW r \in Requests, Alone(r)
  PROVE  /\ Active(r) /\ r \in Sessions /\ r \in Ids
         /\ frame[r] \in Frames /\ Prepared(frame[r])
         /\ frame[r].call \in Calls
         /\ db \in Rows /\ View(r) \in Rows /\ DbTypeOK
         /\ \A q \in Requests \ {r} : ~Active(q)
<1>1. Active(r) /\ r \in Sessions /\ r \in Ids
  BY DEF Alone, InFlight, Sessions, Ids
<1>2. frame[r] \in Frames /\ Prepared(frame[r]) /\ DbTypeOK
  BY DEF TypeInv, Core, FramesPrepared
<1>3. frame[r].call \in Calls
  BY <1>1, <1>2 DEF Prepared, Active
<1>4. db \in Rows /\ View(r) \in Rows
  BY <1>1, <1>2, ViewOf DEF DbTypeOK, Rows
<1> QED
  BY <1>1, <1>2, <1>3, <1>4 DEF Alone, InFlight

\* Once its statement has been answered nothing is under way.
LEMMA AloneQueueEmpty ==
  ASSUME TypeInv, QueueInv, NEW r \in Requests, Alone(r), frame[r].status # "sent"
  PROVE  queue[r] = <<>>
<1>1. r \in Sessions /\ queue[r] \in Seq(Requests)
  BY AloneType DEF TypeInv, Core
<1>2. SUFFICES ASSUME queue[r] # <<>> PROVE FALSE
  OBVIOUS
<1>3. 1 \in 1..Len(queue[r]) /\ queue[r][1] \in Requests
  BY <1>1, <1>2
<1>4. Active(queue[r][1]) /\ frame[queue[r][1]].status = "sent"
  BY <1>1, <1>3 DEF QueueInv, QueueAt, Waits
<1>5. queue[r][1] = r
  BY <1>3, <1>4, AloneType
<1> QED BY <1>4, <1>5

\* Whatever the database executes is the statement r waits for.
LEMMA AloneRuns ==
  ASSUME TypeInv, QueueInv, NEW r \in Requests, Alone(r),
         NEW s \in Sessions, queue[s] # <<>>
  PROVE  /\ s = r /\ Head(queue[s]) = r /\ Running(s) = frame[r]
         /\ frame[r].status = "sent" /\ Tail(queue[s]) = <<>>
<1>1. queue[s] \in Seq(Requests)
  BY DEF TypeInv, Core
<1>2. \A i \in 1..Len(queue[s]) : queue[s][i] = r
  <2> SUFFICES ASSUME NEW i \in 1..Len(queue[s]) PROVE queue[s][i] = r
    OBVIOUS
  <2>1. queue[s][i] \in Requests /\ Active(queue[s][i])
    BY <1>1 DEF QueueInv, QueueAt, Waits
  <2> QED BY <2>1, AloneType
<1>3. 1 \in 1..Len(queue[s]) /\ Head(queue[s]) = queue[s][1]
  BY <1>1
<1>4. Head(queue[s]) = r /\ frame[r].via = s /\ frame[r].status = "sent"
  BY <1>2, <1>3 DEF QueueInv, QueueAt, Waits
<1>5. Len(queue[s]) = 1
  <2> SUFFICES ASSUME Len(queue[s]) # 1 PROVE FALSE
    OBVIOUS
  <2> DEFINE n == Len(queue[s])
  <2>1. n \in Nat /\ 1 <= n /\ n # 1
    BY <1>1, <1>3, LenProperties
  <2>2. 2 \in 1..n
    <3> HIDE DEF n
    <3> QED BY <2>1
  <2>3. queue[s][1] # queue[s][2]
    BY <1>3, <2>2 DEF QueueInv, QueueAt, Waits
  <2> QED BY <1>2, <1>3, <2>2, <2>3
<1>6. Tail(queue[s]) = <<>>
  <2>1. Tail(queue[s]) \in Seq(Requests) /\ Len(Tail(queue[s])) = 0
    BY <1>1, <1>5, HeadTailProperties
  <2> QED BY <2>1, EmptySeq
<1> QED
  BY <1>4, <1>6 DEF Alone, Running

-----------------------------------------------------------------------------
(* What the steps of an RPC that is alone do, seen from outside.           *)

OthersStand(r) == \A q \in Requests \ {r} : frame'[q] = frame[q]

\* The step of r is one of the store, and r is where it should be.
Advances(r) ==
  /\ OthersStand(r)
  /\ StoreMove(r, frame[r], db, frame'[r], db')
  /\ frame'[r].pc # "done" => Progress(r, frame'[r], db', View(r)')

LEMMA AloneAnswers ==
  ASSUME TypeInv, NEW r \in Requests, Alone(r), NEW outcome, NEW pending,
         CloseAndAnswer(r, outcome, pending)
  PROVE  /\ frame'[r] = [frame[r] EXCEPT !.pc = "done", !.outcome = outcome]
         /\ OthersStand(r) /\ db' = db
<1>1. frame'[r] = [frame[r] EXCEPT !.pc = "done", !.outcome = outcome] /\ db' = db
  BY DEF CloseAndAnswer
<1>2. ASSUME NEW q \in Requests \ {r}
      PROVE  frame'[q] = frame[q]
  <2>1. frame[q].pc \in {"idle", "done"}
    BY AloneType DEF Active
  <2>2. ~InBody(q) /\ frame[q].pc # "reload"
    BY <2>1 DEF InBody, Body, Queries, Writes
  <2> QED BY <2>2, Zenon DEF CloseAndAnswer
<1> QED BY <1>1, <1>2 DEF OthersStand

LEMMA AloneLeaves ==
  ASSUME TypeInv, NEW r \in Requests, Alone(r), queue[r] = <<>>,
         NEW ending \in Endings, NEW outcome, NEW pending,
         LeaveHaving(r, ending, outcome, pending)
  PROVE  /\ OthersStand(r) /\ db' = db
         /\ \/ /\ frame'[r] = [frame[r] EXCEPT !.pc = ending, !.via = r,
                                               !.status = "sent", !.outcome = outcome]
               /\ txn' = txn /\ doomed' = pending
            \/ /\ sess[r] # "begun"
               /\ \E answer \in Unsent(r, ending, outcome) :
                    frame'[r] = [frame[r] EXCEPT !.pc = "done", !.outcome = answer]
<1>1. CASE /\ sess[r] # "begun"
           /\ \E answer \in Unsent(r, ending, outcome) :
                CloseAndAnswer(r, answer, pending)
  <2>1. PICK answer \in Unsent(r, ending, outcome) : CloseAndAnswer(r, answer, pending)
    BY <1>1
  <2> QED BY <1>1, <2>1, AloneAnswers
<1>2. CASE /\ frame' = [frame EXCEPT ![r] =
                 [@ EXCEPT !.pc = ending, !.via = r, !.status = "sent",
                           !.outcome = outcome]]
           /\ doomed' = pending /\ UNCHANGED <<db, txn>>
  BY <1>2 DEF TypeInv, Core, OthersStand
<1> QED BY <1>1, <1>2 DEF LeaveHaving

\* It commits when it has done what is due.
LEMMA AloneCommits ==
  ASSUME TypeInv, TypeInv', NEW r \in Requests, Alone(r), queue[r] = <<>>,
         InBody(r), NEW pending, LeaveHaving(r, "commit", "ok", pending),
         Verdict(db, r, frame[r].call) = "ok", sess[r] = "begun",
         UNCHANGED <<db, txn>> /\ doomed' = pending
           => View(r)' = Effect(db, r, frame[r].call)
  PROVE  Advances(r)
<1> DEFINE f == frame[r]
           g == [f EXCEPT !.pc = "commit", !.via = r, !.status = "sent",
                          !.outcome = "ok"]
<1>1. f \in Frames /\ f.pc \in Body
  BY AloneType DEF InBody
<1>2. OthersStand(r) /\ db' = db
  BY AloneLeaves DEF Endings
<1>3. CASE frame'[r] = g /\ txn' = txn /\ doomed' = pending
  <2>1. g.pc = "commit" /\ g.status = "sent" /\ g.outcome = "ok" /\ g.call = f.call
    BY <1>1 DEF Frames
  <2>2. View(r)' = Effect(db, r, f.call)
    BY <1>2, <1>3
  <2>3. Progress(r, g, db, View(r)')
    <3> HIDE DEF g
    <3> QED BY <2>1, <2>2 DEF Progress, Reading, Deciding, Writing, Queries, Writes
  <2>4. StoreMove(r, f, db, g, db)
    <3> HIDE DEF g
    <3> QED BY <1>1, <2>1 DEF StoreMove, StageOf, Body, Queries, Writes
  <2> QED BY <1>2, <1>3, <2>3, <2>4 DEF Advances
<1> QED
  BY <1>3, AloneLeaves DEF Endings

\* It rolls back with an error or with a reason that holds.
LEMMA AloneRollsBack ==
  ASSUME TypeInv, TypeInv', NEW r \in Requests, Alone(r), queue[r] = <<>>,
         InBody(r), NEW outcome \in {"error", Verdict(db, r, frame[r].call)} \ {"ok"},
         Leave(r, "rollback", outcome)
  PROVE  Advances(r)
<1> DEFINE f == frame[r]
           g == [f EXCEPT !.pc = "rollback", !.via = r, !.status = "sent",
                          !.outcome = outcome]
<1>1. f \in Frames /\ f.pc \in Body
  BY AloneType DEF InBody
<1>2. OthersStand(r) /\ db' = db
  BY AloneLeaves DEF Endings, Leave
<1>3. CASE frame'[r] = g
  <2>1. g.pc = "rollback" /\ g.status = "sent" /\ g.outcome = outcome
        /\ g.call = f.call
    BY <1>1 DEF Frames
  <2>2. Progress(r, g, db, View(r)')
    <3> HIDE DEF g
    <3> QED BY <2>1 DEF Progress, Reading, Deciding, Writing, Queries, Writes
  <2>3. StoreMove(r, f, db, g, db)
    <3> HIDE DEF g
    <3> QED BY <1>1, <2>1 DEF StoreMove, StageOf, Body, Queries, Writes
  <2> QED BY <1>2, <1>3, <2>2, <2>3 DEF Advances
<1>4. CASE frame'[r] = [f EXCEPT !.pc = "done", !.outcome = outcome]
  <2>1. frame'[r].pc = "done" /\ frame'[r].outcome = outcome
        /\ frame'[r].call = f.call
    BY <1>1, <1>4 DEF Frames
  <2>2. StageOf(f) = "open"
    BY <1>1 DEF StageOf, Body, Queries, Writes
  <2> QED BY <1>2, <2>1, <2>2 DEF Advances, StoreMove
<1>5. \A answer \in Unsent(r, "rollback", outcome) : answer = outcome
  BY DEF Unsent
<1>6. \/ frame'[r] = g
      \/ \E answer \in Unsent(r, "rollback", outcome) :
           frame'[r] = [f EXCEPT !.pc = "done", !.outcome = answer]
  BY AloneLeaves DEF Endings, Leave
<1> HIDE DEF f, g
<1> QED BY <1>3, <1>4, <1>5, <1>6 DEF f

\* It goes on to its next statement.
LEMMA AloneSends ==
  ASSUME TypeInv, TypeInv', NEW r \in Requests, Alone(r), queue[r] = <<>>,
         InBody(r), NEW point \in Body, Send(r, point, r),
         Progress(r, [frame[r] EXCEPT !.pc = point, !.via = r, !.status = "sent"],
                  db, View(r))
  PROVE  Advances(r)
<1> DEFINE f == frame[r]
           g == [f EXCEPT !.pc = point, !.via = r, !.status = "sent"]
<1>1. f \in Frames /\ f.pc \in Body /\ DbTypeOK /\ DbTypeOK' /\ r \in Sessions
  BY AloneType DEF InBody, TypeInv, Core
<1>2. CASE Await(r, point, r)
  <2>1. frame'[r] = g /\ OthersStand(r) /\ UNCHANGED <<db, txn, doomed>>
    BY <1>2 DEF Await, TypeInv, Core, OthersStand
  <2>2. View(r)' = View(r)
    BY <1>1, <2>1, SameView
  <2>3. g.pc = point /\ g.call = f.call
    BY <1>1 DEF Frames
  <2>4. StoreMove(r, f, db, g, db)
    <3> HIDE DEF g
    <3> QED BY <1>1, <2>3 DEF StoreMove, StageOf, Body, Queries, Writes
  <2> QED BY <2>1, <2>2, <2>4 DEF Advances
<1>3. CASE Leave(r, "rollback", "error")
  BY <1>3, AloneRollsBack
<1> QED BY <1>2, <1>3 DEF Send

-----------------------------------------------------------------------------
(* Every resumption of an RPC that is alone advances it. *)

\* Its transaction is open as long as no statement of it has failed.
Begun(r) ==
  /\ InBody(r) => sess[r] \in {"begun", "failed"}
  /\ InBody(r) /\ frame[r].status \in {"sent", "answered"} => sess[r] = "begun"

AloneHere(r) ==
  /\ TypeInv /\ TypeInv' /\ QueueInv /\ Alone(r) /\ Begun(r)
  /\ Progress(r, frame[r], db, View(r))

\* An RPC with nothing to write leaves the rows alone.
LEMMA NothingToWrite ==
  ASSUME NEW rows \in Rows, NEW r, NEW c,
         \/ c.op \in {"get", "list"}
         \/ /\ c.op = "update" /\ c.id \in Ids /\ rows[c.id] \in Row
            /\ ~HasUpdates(c, rows[c.id])
  PROVE  Effect(rows, r, c) = rows
<1>1. CASE c.op \in {"get", "list"}
  BY <1>1 DEF Effect, Rows
<1>2. CASE /\ c.op = "update" /\ c.id \in Ids /\ rows[c.id] \in Row
           /\ ~HasUpdates(c, rows[c.id])
  <2>1. Updated(c, rows[c.id]) = rows[c.id]
    BY <1>2 DEF HasUpdates, ChangesCode, Updated, Row
  <2> QED BY <1>2, <2>1 DEF Effect, Rows
<1> QED BY <1>1, <1>2

LEMMA AloneApplyUpdate ==
  ASSUME NEW r \in Requests, AloneHere(r), queue[r] = <<>>,
         frame[r].pc \in {"get_by_id", "get_by_code"}, frame[r].status = "answered",
         frame[r].call.op = "update", frame[r].snap = db[frame[r].call.id],
         frame[r].snap # NoRow, ~Conflicting(db, r, frame[r].call),
         ApplyUpdate(r)
  PROVE  Advances(r)
<1> DEFINE f == frame[r]
           c == f.call
           existing == f.snap
<1>1. /\ f \in Frames /\ c \in Calls /\ db \in Rows /\ DbTypeOK /\ DbTypeOK'
      /\ r \in Sessions /\ Prepared(f) /\ repo = r
      /\ TypeInv /\ TypeInv' /\ Alone(r) /\ InBody(r) /\ View(r) = db
      /\ sess[r] = "begun"
  BY AloneType DEF AloneHere, Alone, TypeInv, Core, InBody, Body, Queries,
                   Progress, Reading, Begun
<1>2. ~Incomplete(c) /\ c.id \in Ids /\ existing \in Row /\ ~Missing(db, c)
  <2>1. ~Incomplete(c)
    BY <1>1 DEF Prepared, InBody
  <2> QED BY <1>1, <2>1, CallId DEF Frames, Missing
<1>3. CASE ~HasUpdates(c, existing) /\ Leave(r, "commit", "ok")
  <2>1. Verdict(db, r, c) = "ok"
    BY <1>2, <1>3 DEF Verdict, Malformed
  <2>2. Effect(db, r, c) = db
    BY <1>1, <1>2, <1>3, NothingToWrite
  <2>3. UNCHANGED <<db, txn, doomed>> => View(r)' = View(r)
    BY <1>1, SameView
  <2> QED BY <1>1, <1>3, <2>1, <2>2, <2>3, AloneCommits DEF Leave
<1>4. CASE HasUpdates(c, existing) /\ ~Valid(Updated(c, existing))
           /\ Leave(r, "rollback", "invalid")
  <2>1. Verdict(db, r, c) = "invalid"
    BY <1>2, <1>4 DEF Verdict, Malformed
  <2> QED BY <1>1, <1>4, <2>1, AloneRollsBack
<1>5. CASE Valid(Updated(c, existing)) /\ Send(r, "reload", repo)
  <2>1. Verdict(db, r, c) = "ok"
    BY <1>2, <1>5 DEF Verdict, Malformed
  <2> DEFINE g == [f EXCEPT !.pc = "reload", !.via = r, !.status = "sent"]
  <2>2. /\ g.pc = "reload" /\ g.status = "sent" /\ g.call = c
        /\ g.snap = existing
    BY <1>1 DEF Frames
  <2>3. Progress(r, g, db, View(r))
    <3> HIDE DEF g
    <3> QED BY <1>1, <2>1, <2>2
            DEF Progress, Reading, Deciding, Writing, Queries, Writes
  <2>4. "reload" \in Body
    BY DEF Body, Queries
  <2> QED BY <1>1, <1>5, <2>3, <2>4, AloneSends
<1> QED
  BY <1>3, <1>4, <1>5 DEF ApplyUpdate

LEMMA AloneGetById ==
  ASSUME NEW r \in Requests, AloneHere(r), AfterGetById(r)
  PROVE  Advances(r)
<1> DEFINE f == frame[r]
           c == f.call
           existing == f.snap
<1>1. /\ f.pc = "get_by_id" /\ f.status = "answered"
      /\ f \in Frames /\ c \in Calls /\ db \in Rows /\ DbTypeOK /\ DbTypeOK'
      /\ r \in Sessions /\ Prepared(f) /\ repo = r /\ queue[r] = <<>>
      /\ TypeInv /\ TypeInv' /\ Alone(r) /\ InBody(r) /\ View(r) = db
      /\ existing = db[c.id] /\ sess[r] = "begun"
  BY AloneType, AloneQueueEmpty
  DEF AfterGetById, Resumes, AloneHere, Alone, TypeInv, Core, InBody, Body,
      Queries, Progress, Reading, Begun
<1>2. /\ ~Incomplete(c) /\ c.op \in {"get", "update", "delete"} /\ c.id \in Ids
      /\ Missing(db, c) <=> existing = NoRow
  <2>1. ~Incomplete(c) /\ c.op \in {"get", "update", "delete"}
    BY <1>1 DEF Prepared, InBody
  <2> QED BY <1>1, <2>1, CallId DEF Missing
<1>3. CASE existing = NoRow /\ Leave(r, "rollback", "notfound")
  <2>1. Verdict(db, r, c) = "notfound"
    BY <1>2, <1>3 DEF Verdict
  <2> QED BY <1>1, <1>3, <2>1, AloneRollsBack
<1>4. CASE existing # NoRow /\ c.op = "get" /\ Leave(r, "commit", "ok")
  <2>1. Verdict(db, r, c) = "ok"
    BY <1>2, <1>4 DEF Verdict, Conflicting, Malformed
  <2>2. Effect(db, r, c) = db
    BY <1>1, <1>4, NothingToWrite
  <2>3. UNCHANGED <<db, txn, doomed>> => View(r)' = View(r)
    BY <1>1, SameView
  <2> QED BY <1>1, <1>4, <2>1, <2>2, <2>3, AloneCommits DEF Leave
<1>5. CASE existing # NoRow /\ c.op = "delete" /\ Send(r, "reload", repo)
  <2>1. Verdict(db, r, c) = "ok"
    BY <1>2, <1>5 DEF Verdict, Conflicting, Malformed
  <2> DEFINE g == [f EXCEPT !.pc = "reload", !.via = r, !.status = "sent"]
  <2>2. g.pc = "reload" /\ g.status = "sent" /\ g.call = c
    BY <1>1 DEF Frames
  <2>3. Progress(r, g, db, View(r))
    <3> HIDE DEF g
    <3> QED BY <1>1, <1>5, <2>1, <2>2
            DEF Progress, Reading, Deciding, Writing, Queries, Writes
  <2>4. "reload" \in Body
    BY DEF Body, Queries
  <2> QED BY <1>1, <1>5, <2>3, <2>4, AloneSends
<1>6. CASE /\ existing # NoRow /\ c.op = "update" /\ ChangesCode(c, existing)
           /\ Send(r, "get_by_code", repo)
  <2> DEFINE g == [f EXCEPT !.pc = "get_by_code", !.via = r, !.status = "sent"]
  <2>1. /\ g.pc = "get_by_code" /\ g.status = "sent" /\ g.call = c
        /\ g.snap = existing
    BY <1>1 DEF Frames
  <2>2. Progress(r, g, db, View(r))
    <3> HIDE DEF g
    <3> QED BY <1>1, <1>6, <2>1
            DEF Progress, Reading, Deciding, Writing, Queries, Writes
  <2>3. "get_by_code" \in Body
    BY DEF Body, Queries
  <2> QED BY <1>1, <1>6, <2>2, <2>3, AloneSends
<1>7. CASE /\ existing # NoRow /\ c.op = "update" /\ ~ChangesCode(c, existing)
           /\ ApplyUpdate(r)
  <2>1. ~Conflicting(db, r, c)
    BY <1>1, <1>7 DEF Conflicting
  <2> QED BY <1>1, <1>7, <2>1, AloneApplyUpdate
<1> QED
  BY <1>3, <1>4, <1>5, <1>6, <1>7 DEF AfterGetById

LEMMA AloneGetByCode ==
  ASSUME NEW r \in Requests, AloneHere(r), AfterGetByCode(r)
  PROVE  Advances(r)
<1> DEFINE f == frame[r]
           c == f.call
           code == NormalizeCode(c.code)
           other == f.found
<1>1. /\ f.pc = "get_by_code" /\ f.status = "answered"
      /\ f \in Frames /\ c \in Calls /\ db \in Rows /\ r \in Ids
      /\ Prepared(f) /\ repo = r /\ queue[r] = <<>>
      /\ TypeInv /\ TypeInv' /\ Alone(r) /\ InBody(r) /\ View(r) = db
      /\ ~Incomplete(c) /\ f.via = r
  BY AloneType, AloneQueueEmpty
  DEF AfterGetByCode, Resumes, AloneHere, Alone, InBody, Body, Queries,
      Progress, Reading, Prepared
<1>2. IF other = None THEN ~Taken(db, code, None)
      ELSE other \in Ids /\ db[other] # NoRow /\ db[other].code = code
  BY <1>1 DEF AloneHere, Progress, Reading
<1>3. None \notin Ids
  BY DatabaseAssumption
<1>4. ASSUME c.op = "create"
      PROVE  /\ db[r] = NoRow /\ ~Missing(db, c)
             /\ Conflicting(db, r, c) <=> other # None
  <2>1. db[r] = NoRow
    BY <1>1, <1>4 DEF AloneHere, Progress, Deciding
  <2>2. Conflicting(db, r, c) <=> Taken(db, code, r)
    BY <1>4 DEF Conflicting, Created
  <2>3. Taken(db, code, r) <=> other # None
    BY <1>2, <1>3, <2>1 DEF Taken
  <2> QED BY <1>4, <2>1, <2>2, <2>3 DEF Missing
<1>5. CASE c.op = "create" /\ other # None /\ Leave(r, "rollback", "conflict")
  <2>1. Verdict(db, r, c) = "conflict"
    BY <1>1, <1>4, <1>5 DEF Verdict
  <2> QED BY <1>1, <1>5, <2>1, AloneRollsBack
<1>6. CASE /\ c.op = "create" /\ other = None /\ ~Valid(Created(c))
           /\ Leave(r, "rollback", "invalid")
  <2>1. Verdict(db, r, c) = "invalid"
    BY <1>1, <1>4, <1>6 DEF Verdict, Malformed
  <2> QED BY <1>1, <1>6, <2>1, AloneRollsBack
<1>7. CASE /\ c.op = "create" /\ other = None /\ Valid(Created(c))
           /\ Send(r, "insert", repo)
  <2>1. Verdict(db, r, c) = "ok"
    BY <1>1, <1>4, <1>7 DEF Verdict, Malformed
  <2> DEFINE g == [f EXCEPT !.pc = "insert", !.via = r, !.status = "sent"]
  <2>2. g.pc = "insert" /\ g.status = "sent" /\ g.call = c
    BY <1>1 DEF Frames
  <2>3. Progress(r, g, db, View(r))
    <3> HIDE DEF g
    <3> QED BY <1>1, <1>4, <1>7, <2>1, <2>2
            DEF Progress, Reading, Deciding, Writing, Queries, Writes
  <2>4. "insert" \in Body
    BY DEF Body, Writes
  <2> QED BY <1>1, <1>7, <2>3, <2>4, AloneSends
<1>8. ASSUME c.op = "update"
      PROVE  /\ f.snap = db[c.id] /\ f.snap \in Row /\ c.id \in Ids
             /\ ~Missing(db, c) /\ other # c.id
             /\ Conflicting(db, r, c) <=> other # None
  <2>1. f.snap = db[c.id] /\ ChangesCode(c, f.snap) /\ f.snap \in Row
    BY <1>1, <1>8 DEF AloneHere, Progress, Reading, Deciding, Prepared
  <2>2. c.id \in Ids /\ ~Missing(db, c)
    BY <1>1, <1>8, <2>1, CallId, DomainAssumption DEF Missing
  <2>3. other # c.id
    BY <1>2, <1>3, <2>1, <2>2 DEF ChangesCode
  <2>4. Conflicting(db, r, c) <=> Taken(db, code, c.id)
    BY <1>8, <2>1 DEF Conflicting
  <2>5. Taken(db, code, c.id) <=> other # None
    BY <1>2, <1>3, <2>3 DEF Taken
  <2> QED BY <2>1, <2>2, <2>3, <2>4, <2>5
<1>9. CASE c.op = "update" /\ other \notin {None, c.id}
           /\ Leave(r, "rollback", "conflict")
  <2>1. Verdict(db, r, c) = "conflict"
    BY <1>1, <1>8, <1>9 DEF Verdict
  <2> QED BY <1>1, <1>9, <2>1, AloneRollsBack
<1>10. CASE c.op = "update" /\ other \in {None, c.id} /\ ApplyUpdate(r)
  <2>1. ~Conflicting(db, r, c) /\ f.snap = db[c.id] /\ f.snap # NoRow
    BY <1>8, <1>10, DomainAssumption
  <2> QED BY <1>1, <1>10, <2>1, AloneApplyUpdate
<1> QED
  BY <1>5, <1>6, <1>7, <1>9, <1>10 DEF AfterGetByCode

LEMMA AloneReload ==
  ASSUME NEW r \in Requests, AloneHere(r), AfterReload(r)
  PROVE  Advances(r)
<1> DEFINE f == frame[r]
           c == f.call
<1>1. /\ f.pc = "reload" /\ f.status = "answered"
      /\ f \in Frames /\ c \in Calls /\ db \in Rows /\ DbTypeOK /\ DbTypeOK'
      /\ r \in Sessions /\ r \in Ids /\ Prepared(f) /\ queue[r] = <<>>
      /\ TypeInv /\ TypeInv' /\ Alone(r) /\ InBody(r) /\ View(r) = db
      /\ ~Incomplete(c) /\ f.via = r /\ sess[r] = "begun"
  BY AloneType, AloneQueueEmpty
  DEF AfterReload, AloneHere, Alone, TypeInv, Core, InBody, Body, Queries,
      Progress, Reading, Prepared, Begun
<1>2. /\ Verdict(db, r, c) = "ok" /\ f.loaded = db[c.id]
      /\ c.op = "update" => f.snap = db[c.id]
  BY <1>1 DEF AloneHere, Progress, Reading, Deciding
<1>3. c.op \in {"update", "delete"} /\ c.id \in Ids /\ f.loaded # NoRow
  <2>1. c.op \in {"update", "delete"}
    BY <1>1 DEF Prepared
  <2>2. ~Missing(db, c)
    BY <1>2 DEF Verdict
  <2> QED BY <1>1, <1>2, <2>1, <2>2, CallId DEF Missing
<1>4. CASE c.op = "update" /\ Send(r, "update", f.via)
  <2> DEFINE g == [f EXCEPT !.pc = "update", !.via = r, !.status = "sent"]
  <2>1. /\ g.pc = "update" /\ g.status = "sent" /\ g.call = c
        /\ g.snap = f.snap /\ g.loaded = f.loaded
    BY <1>1 DEF Frames
  <2>2. Progress(r, g, db, View(r))
    <3> HIDE DEF g
    <3> QED BY <1>1, <1>2, <1>4, <2>1
            DEF Progress, Reading, Deciding, Writing, Queries, Writes
  <2>3. "update" \in Body
    BY DEF Body, Writes
  <2> QED BY <1>1, <1>4, <2>2, <2>3, AloneSends
<1>5. CASE /\ c.op = "delete"
           /\ LeaveHaving(r, "commit", "ok",
                          [doomed EXCEPT ![f.via] = @ \cup {c.id}])
  <2> DEFINE pending == [doomed EXCEPT ![r] = @ \cup {c.id}]
  <2>1. Effect(db, r, c) = [db EXCEPT ![c.id] = NoRow]
    BY <1>1, <1>3, <1>5 DEF Effect, Rows
  <2>2. UNCHANGED <<db, txn>> /\ doomed' = pending
          => View(r)' = Effect(db, r, c)
    BY <1>1, <1>3, <2>1, DoomView
  <2> HIDE DEF pending
  <2>3. LeaveHaving(r, "commit", "ok", pending)
    BY <1>1, <1>5 DEF pending
  <2> QED BY <1>1, <1>2, <2>2, <2>3, AloneCommits
<1> QED
  BY <1>1, <1>3, <1>4, <1>5 DEF AfterReload

LEMMA AloneLeavesBody ==
  ASSUME NEW r \in Requests, AloneHere(r),
         AfterWrite(r) \/ AfterList(r) \/ AfterError(r)
  PROVE  Advances(r)
<1> DEFINE f == frame[r]
           c == f.call
<1>1. /\ f \in Frames /\ c \in Calls /\ db \in Rows /\ DbTypeOK /\ DbTypeOK'
      /\ r \in Sessions /\ Prepared(f) /\ queue[r] = <<>>
      /\ TypeInv /\ TypeInv' /\ Alone(r) /\ InBody(r) /\ ~Incomplete(c)
      /\ f.status \in {"answered", "error"}
      /\ f.status = "answered" => sess[r] = "begun"
  <2>1. InBody(r) /\ f.status \in {"answered", "error", "conflict"}
    BY DEF AfterWrite, AfterList, AfterError, Resumes, InBody, Body, Queries,
           Writes
  <2> QED BY <2>1, AloneType, AloneQueueEmpty
          DEF AloneHere, TypeInv, Core, Progress, Prepared, InBody, Begun
<1>2. UNCHANGED <<db, txn, doomed>> => View(r)' = View(r)
  BY <1>1, SameView
<1>3. CASE AfterWrite(r)
  <2>1. f.pc \in Writes /\ f.status = "answered" /\ Leave(r, "commit", "ok")
    BY <1>3 DEF AfterWrite, Resumes
  <2>2. Verdict(db, r, c) = "ok" /\ View(r) = Effect(db, r, c)
    BY <2>1 DEF AloneHere, Progress, Deciding, Writing
  <2> QED BY <1>1, <1>2, <2>1, <2>2, AloneCommits DEF Leave
<1>4. CASE AfterList(r)
  <2>1. f.pc = "list" /\ f.status = "answered" /\ Leave(r, "commit", "ok")
    BY <1>4 DEF AfterList, Resumes
  <2>2. c.op = "list" /\ View(r) = db
    BY <2>1 DEF AloneHere, Progress, Reading, Deciding, Queries
  <2>3. Verdict(db, r, c) = "ok"
    BY <1>1, <2>2 DEF Verdict, Missing, Conflicting, Malformed
  <2>4. Effect(db, r, c) = db
    BY <1>1, <2>2, NothingToWrite
  <2> QED BY <1>1, <1>2, <2>1, <2>2, <2>3, <2>4, AloneCommits DEF Leave
<1>5. CASE AfterError(r)
  <2>1. Leave(r, "rollback", "error")
    BY <1>1, <1>5 DEF AfterError
  <2> QED BY <1>1, <2>1, AloneRollsBack
<1> QED
  BY <1>3, <1>4, <1>5

LEMMA AloneFinishes ==
  ASSUME NEW r \in Requests, AloneHere(r), Finish(r)
  PROVE  Advances(r)
<1> DEFINE f == frame[r]
           outcome == IF f.status = "error" THEN "error" ELSE f.outcome
<1>1. f \in Frames /\ f.pc \in Endings /\ f.status \in {"answered", "error"}
  BY AloneType DEF AloneHere, Finish, Progress
<1>2. /\ frame'[r] = [f EXCEPT !.pc = "done", !.outcome = outcome]
      /\ OthersStand(r) /\ db' = db
  BY AloneAnswers DEF AloneHere, Finish
<1>3. frame'[r].pc = "done" /\ frame'[r].outcome = outcome
      /\ frame'[r].call = f.call
  BY <1>1, <1>2 DEF Frames
<1>4. /\ f.pc = "commit" => f.outcome = "ok"
      /\ f.pc = "rollback" =>
           f.outcome \in {"error", Verdict(db, r, f.call)} \ {"ok"}
  BY DEF AloneHere, Progress, Deciding
<1> QED
  BY <1>1, <1>2, <1>3, <1>4 DEF Advances, StoreMove, StageOf, Endings

LEMMA AloneResumes ==
  ASSUME NEW r \in Requests, AloneHere(r), Resume(r)
  PROVE  Advances(r)
BY AloneGetById, AloneGetByCode, AloneReload, AloneLeavesBody, AloneFinishes
DEF Resume

-----------------------------------------------------------------------------
(* Every statement the database executes meanwhile advances it too. *)

LEMMA AloneAnswered ==
  ASSUME NEW r \in Requests, AloneHere(r), NEW s \in Sessions, queue[s] # <<>>,
         NEW g, Answer(s, g)
  PROVE  frame'[r] = [g EXCEPT !.status = "answered"] /\ OthersStand(r)
BY AloneRuns DEF AloneHere, Answer, TypeInv, Core, OthersStand

LEMMA AloneFailed ==
  ASSUME NEW r \in Requests, AloneHere(r), NEW s \in Sessions, queue[s] # <<>>,
         NEW why, Fail(s, why)
  PROVE  frame'[r] = [frame[r] EXCEPT !.status = why] /\ OthersStand(r)
<1>1. Head(queue[s]) = r /\ Tail(queue[s]) = <<>>
  BY AloneRuns DEF AloneHere
<1>2. \A q : q \notin Range(Tail(queue[s]))
  BY <1>1 DEF Range
<1>3. frame'[r] = [frame[r] EXCEPT !.status = why]
  <2>1. ASSUME NEW q \in Requests, q = Head(queue[s])
        PROVE  frame'[q] = [frame[q] EXCEPT !.status = why]
    BY <1>2, <2>1, Zenon DEF Fail
  <2> QED BY <1>1, <2>1
<1>4. ASSUME NEW q \in Requests \ {r}
      PROVE  frame'[q] = frame[q]
  <2>1. q # Head(queue[s])
    BY <1>1
  <2> QED BY <1>2, <2>1, Zenon DEF Fail
<1> QED BY <1>3, <1>4 DEF OthersStand

\* What the database executes for r, and what r and its session are then.
LEMMA AloneStatement ==
  ASSUME NEW r \in Requests, AloneHere(r), NEW s \in Sessions, queue[s] # <<>>
  PROVE  /\ s = r /\ Head(queue[s]) = r /\ Running(s) = frame[r]
         /\ frame[r].status = "sent" /\ StageOf(frame[r]) = "open"
         /\ frame[r] \in Frames /\ Prepared(frame[r]) /\ frame[r].call \in Calls
         /\ db \in Rows /\ View(r) \in Rows /\ DbTypeOK /\ DbTypeOK'
         /\ r \in Sessions /\ r \in Ids
BY AloneType, AloneRuns
DEF AloneHere, TypeInv, Core, StageOf, Active

\* A statement that fails leaves r with an error, and in doubt if it was the
\* COMMIT.
LEMMA AloneLoses ==
  ASSUME NEW r \in Requests, AloneHere(r), NEW s \in Sessions, queue[s] # <<>>,
         Fail(s, "error"),
         db' = db \/ (frame[r].pc = "commit" /\ db' = View(r))
  PROVE  Advances(r)
<1> DEFINE f == frame[r]
           g == [f EXCEPT !.status = "error"]
<1>1. f \in Frames /\ f.status = "sent" /\ StageOf(f) = "open"
  BY AloneStatement
<1>2. frame'[r] = g /\ OthersStand(r)
  BY AloneFailed
<1>3. /\ g.pc = f.pc /\ g.status = "error" /\ g.call = f.call
      /\ g.outcome = f.outcome /\ g.snap = f.snap /\ g.loaded = f.loaded
  BY <1>1 DEF Frames
<1>4. f.pc = "commit" => /\ Verdict(db, r, f.call) = "ok"
                         /\ View(r) = Effect(db, r, f.call)
  BY <1>1 DEF AloneHere, Progress, Deciding, Writing
<1>5. Progress(r, g, db', View(r)')
  <2>1. Reading(f, db, View(r)) /\ Deciding(r, f, db)
    BY DEF AloneHere, Progress
  <2> HIDE DEF g
  <2>2. CASE f.pc = "commit"
    BY <1>3, <2>1, <2>2 DEF Progress, Reading, Deciding, Writing, Queries, Writes
  <2>3. CASE db' = db
    <3>1. Reading(g, db, View(r)')
      BY <1>1, <1>3, <2>1 DEF Reading, Queries, Writes
    <3>2. Deciding(r, g, db)
      BY <1>1, <1>3, <2>1 DEF Deciding
    <3> QED BY <1>3, <2>3, <3>1, <3>2 DEF Progress, Writing
  <2> QED BY <2>2, <2>3
<1>6. StoreMove(r, f, db, g, db')
  <2> HIDE DEF g
  <2>1. CASE f.pc = "commit"
    BY <1>1, <1>3, <1>4, <2>1 DEF StoreMove, StageOf
  <2>2. CASE f.pc # "commit"
    BY <1>1, <1>3, <2>2 DEF StoreMove, StageOf
  <2> QED BY <2>1, <2>2
<1> QED BY <1>2, <1>5, <1>6 DEF Advances

LEMMA AloneSelects ==
  ASSUME NEW r \in Requests, AloneHere(r), NEW s \in Sessions, ExecSelect(s)
  PROVE  Advances(r)
<1> DEFINE f == frame[r]
           c == f.call
           holders == Holders(s, NormalizeCode(c.code))
<1>1. queue[s] # <<>> /\ f.pc \in Queries
  <2>1. queue[s] # <<>> /\ Running(s).pc \in Queries
    BY DEF ExecSelect, Runs
  <2> QED BY <2>1, AloneStatement
<1>2. /\ s = r /\ Running(s) = f /\ f.status = "sent" /\ StageOf(f) = "open"
      /\ f \in Frames /\ Prepared(f) /\ c \in Calls
      /\ db \in Rows /\ DbTypeOK /\ DbTypeOK' /\ r \in Sessions
  BY <1>1, AloneStatement
<1>3. View(r) = db /\ Reading(f, db, View(r)) /\ Deciding(r, f, db)
  BY <1>1, <1>2 DEF AloneHere, Progress, Reading
<1>4. View(r)' = db /\ db' = db
  BY <1>2, <1>3, FlushView DEF ExecSelect
<1>5. ~Incomplete(c)
  BY <1>1, <1>2 DEF Prepared, Body
<1>6. ASSUME NEW g, frame'[r] = [g EXCEPT !.status = "answered"], OthersStand(r),
             g \in Frames, g.pc = f.pc, g.call = c,
             g.pc = "get_by_id" => g.snap = db[c.id],
             g.pc \in {"get_by_code", "reload"} => g.snap = f.snap,
             g.pc = "get_by_code" =>
               IF g.found = None THEN ~Taken(db, NormalizeCode(c.code), None)
               ELSE /\ g.found \in Ids /\ db[g.found] # NoRow
                    /\ db[g.found].code = NormalizeCode(c.code),
             g.pc = "reload" => g.loaded = db[c.id]
      PROVE  Advances(r)
  <2> DEFINE h == [g EXCEPT !.status = "answered"]
  <2>1. /\ h.pc = f.pc /\ h.status = "answered" /\ h.call = c
        /\ h.snap = g.snap /\ h.found = g.found /\ h.loaded = g.loaded
    BY <1>6 DEF Frames
  <2>2. Progress(r, h, db, db)
    <3> HIDE DEF h
    <3>1. Reading(h, db, db)
      BY <1>1, <1>3, <1>6, <2>1 DEF Reading, Queries, Writes
    <3>2. Deciding(r, h, db)
      BY <1>1, <1>3, <1>6, <2>1 DEF Deciding, Queries, Writes
    <3>3. Writing(r, h, db, db)
      BY <1>1, <2>1 DEF Writing, Queries, Writes
    <3> QED BY <2>1, <3>1, <3>2, <3>3 DEF Progress
  <2>3. StoreMove(r, f, db, h, db)
    <3> HIDE DEF h
    <3> QED BY <1>1, <1>2, <2>1 DEF StoreMove, StageOf, Queries
  <2> QED BY <1>4, <1>6, <2>2, <2>3 DEF Advances
<1>7. CASE f.pc = "get_by_id"
  <2> DEFINE g == [f EXCEPT !.snap = View(s)[c.id]]
  <2>1. Answer(s, g)
    BY <1>2, <1>7 DEF ExecSelect
  <2>2. frame'[r] = [g EXCEPT !.status = "answered"] /\ OthersStand(r)
    BY <1>1, <2>1, AloneAnswered
  <2>3. c.id \in Ids
    BY <1>2, <1>5, <1>7, CallId DEF Prepared
  <2>4. g \in Frames /\ g.pc = f.pc /\ g.call = c /\ g.snap = db[c.id]
    BY <1>2, <1>3, <2>3 DEF Frames, Rows
  <2> HIDE DEF g
  <2> QED BY <1>6, <1>7, <2>2, <2>4
<1>8. CASE f.pc = "reload"
  <2> DEFINE g == [f EXCEPT !.loaded = View(s)[c.id]]
  <2>1. Answer(s, g)
    BY <1>2, <1>8 DEF ExecSelect
  <2>2. frame'[r] = [g EXCEPT !.status = "answered"] /\ OthersStand(r)
    BY <1>1, <2>1, AloneAnswered
  <2>3. c.id \in Ids
    BY <1>2, <1>5, <1>8, CallId DEF Prepared
  <2>4. /\ g \in Frames /\ g.pc = f.pc /\ g.call = c /\ g.snap = f.snap
        /\ g.loaded = db[c.id]
    BY <1>2, <1>3, <2>3 DEF Frames, Rows
  <2> HIDE DEF g
  <2> QED BY <1>6, <1>8, <2>2, <2>4
<1>9. CASE f.pc = "get_by_code"
  <2> DEFINE found == IF holders = {} THEN None ELSE CHOOSE i \in holders : TRUE
             g == [f EXCEPT !.found = found]
  <2>1. Answer(s, g)
    BY <1>2, <1>9 DEF ExecSelect
  <2>2. frame'[r] = [g EXCEPT !.status = "answered"] /\ OthersStand(r)
    BY <1>1, <2>1, AloneAnswered
  <2>3. holders = {i \in Ids : db[i] # NoRow /\ db[i].code = NormalizeCode(c.code)}
    BY <1>2, <1>3 DEF Holders
  <2>4. found = None => holders = {}
    <3> HIDE DEF holders
    <3>1. holders \subseteq Ids /\ None \notin Ids
      BY <2>3, DatabaseAssumption
    <3> QED BY <3>1
  <2>5. found # None => found \in holders
    <3> HIDE DEF holders
    <3> QED OBVIOUS
  <2> HIDE DEF found, holders
  <2>6. IF found = None THEN ~Taken(db, NormalizeCode(c.code), None)
        ELSE /\ found \in Ids /\ db[found] # NoRow
             /\ db[found].code = NormalizeCode(c.code)
    BY <2>3, <2>4, <2>5 DEF Taken
  <2>7. /\ g \in Frames /\ g.pc = f.pc /\ g.call = c /\ g.snap = f.snap
        /\ g.found = found
    BY <1>2, <2>6 DEF Frames
  <2> HIDE DEF g
  <2> QED BY <1>6, <1>9, <2>2, <2>6, <2>7
<1>10. CASE f.pc = "list"
  <2>1. Answer(s, f)
    BY <1>2, <1>10 DEF ExecSelect
  <2>2. frame'[r] = [f EXCEPT !.status = "answered"] /\ OthersStand(r)
    BY <1>1, <2>1, AloneAnswered
  <2> QED BY <1>2, <1>6, <1>10, <2>2
<1> QED
  BY <1>1, <1>7, <1>8, <1>9, <1>10 DEF Queries

\* What the writes of r have in common: the statement answers, the session
\* sees what r was asked for, and nothing else has changed.
LEMMA AloneWritten ==
  ASSUME NEW r \in Requests, AloneHere(r), frame[r].pc \in Writes,
         queue[r] # <<>>, Answer(r, frame[r]), db' = db,
         View(r)' = Effect(db, r, frame[r].call)
  PROVE  Advances(r)
<1> DEFINE f == frame[r]
           g == [f EXCEPT !.status = "answered"]
<1>1. f \in Frames /\ f.status = "sent" /\ r \in Sessions
  BY AloneType, AloneStatement DEF AloneHere
<1>2. frame'[r] = g /\ OthersStand(r)
  BY <1>1, AloneAnswered
<1>3. /\ g.pc = f.pc /\ g.status = "answered" /\ g.call = f.call
      /\ g.snap = f.snap /\ g.loaded = f.loaded
  BY <1>1 DEF Frames
<1>4. Reading(f, db, View(r)) /\ Deciding(r, f, db)
  BY DEF AloneHere, Progress
<1> HIDE DEF g
<1>5. Reading(g, db, View(r)')
  BY <1>1, <1>3, <1>4 DEF Reading, Queries, Writes
<1>6. Deciding(r, g, db)
  BY <1>3, <1>4 DEF Deciding, Writes
<1>7. Writing(r, g, db, View(r)')
  BY <1>3 DEF Writing, Writes
<1>8. StoreMove(r, f, db, g, db)
  BY <1>1, <1>3 DEF StoreMove, StageOf, Writes
<1> QED
  BY <1>2, <1>3, <1>5, <1>6, <1>7, <1>8 DEF Advances, Progress

LEMMA AloneInserts ==
  ASSUME NEW r \in Requests, AloneHere(r), NEW s \in Sessions, ExecInsert(s)
  PROVE  Advances(r)
<1> DEFINE f == frame[r]
           c == f.call
           row == Created(c)
<1>1. queue[s] # <<>> /\ Running(s).pc = "insert"
  BY DEF ExecInsert, Runs
<1>2. /\ s = r /\ Head(queue[s]) = r /\ Running(s) = f /\ f.status = "sent"
      /\ Prepared(f) /\ c \in Calls /\ db \in Rows /\ DbTypeOK /\ DbTypeOK'
      /\ r \in Sessions /\ r \in Ids /\ f.pc = "insert"
  BY <1>1, AloneStatement
<1>3. row \in Row /\ c.op = "create"
  BY <1>2, CreatedRow DEF Prepared, Body, Writes
<1>4. View(r) = db /\ ~Conflicting(db, r, c)
  BY <1>2 DEF AloneHere, Progress, Reading, Deciding, Verdict, Writes
<1>5. ~CodeTaken(r, r, row.code)
  BY <1>3, <1>4 DEF Conflicting, Taken, CodeTaken
<1>6. WriteRow(r, r, row) /\ Answer(r, f)
  BY <1>2, <1>5 DEF ExecInsert
<1>7. Effect(db, r, c) = [db EXCEPT ![r] = row]
  BY <1>2, <1>3 DEF Effect, Rows
<1>8. View(r)' = Effect(db, r, c) /\ db' = db
  BY <1>2, <1>3, <1>4, <1>6, <1>7, WriteView
<1> QED
  BY <1>1, <1>2, <1>6, <1>8, AloneWritten DEF Writes

LEMMA AloneUpdates ==
  ASSUME NEW r \in Requests, AloneHere(r), NEW s \in Sessions, ExecUpdate(s)
  PROVE  Advances(r)
<1> DEFINE f == frame[r]
           c == f.call
           new == Updated(c, f.snap)
           row == UpdateResult(s, f)
<1>1. queue[s] # <<>> /\ Running(s).pc = "update"
  BY DEF ExecUpdate, Runs
<1>2. /\ s = r /\ Running(s) = f /\ f.status = "sent"
      /\ Prepared(f) /\ c \in Calls /\ db \in Rows /\ DbTypeOK /\ DbTypeOK'
      /\ r \in Sessions /\ r \in Ids /\ f.pc = "update"
  BY <1>1, AloneStatement
<1>3. c.op = "update" /\ f.snap \in Row /\ ~Incomplete(c) /\ Valid(new)
  BY <1>2 DEF Prepared, Body, Writes
<1>4. c.id \in Ids /\ new \in Row
  BY <1>2, <1>3, CallId, UpdatedRow
<1>5. /\ View(r) = db /\ ~Conflicting(db, r, c)
      /\ f.snap = db[c.id] /\ f.loaded = db[c.id]
  BY <1>2, <1>3 DEF AloneHere, Progress, Reading, Deciding, Verdict, Writes
<1>6. row = new /\ View(s)[c.id] = db[c.id]
  BY <1>2, <1>3, <1>4, <1>5 DEF UpdateResult, Row
<1>7. ~(row.code # db[c.id].code /\ CodeTaken(s, c.id, row.code))
  <2> SUFFICES ASSUME row.code # db[c.id].code, CodeTaken(s, c.id, row.code)
               PROVE  FALSE
    OBVIOUS
  <2>1. ChangesCode(c, db[c.id]) /\ row.code = NormalizeCode(c.code)
    BY <1>5, <1>6 DEF Updated, ChangesCode
  <2>2. Taken(db, row.code, c.id)
    BY <1>2, <1>5 DEF CodeTaken, Taken
  <2> QED BY <1>3, <1>5, <2>1, <2>2 DEF Conflicting
<1>8. CASE Fail(s, "error") /\ db' = db
  BY <1>1, <1>8, AloneLoses
<1>9. CASE WriteRow(s, c.id, row) /\ Answer(s, f)
  <2>1. Effect(db, r, c) = [db EXCEPT ![c.id] = row]
    BY <1>2, <1>3, <1>4, <1>5, <1>6 DEF Effect, Rows
  <2>2. View(r)' = Effect(db, r, c) /\ db' = db
    BY <1>2, <1>4, <1>5, <1>6, <1>9, <2>1, WriteView
  <2> QED BY <1>1, <1>2, <1>9, <2>2, AloneWritten DEF Writes
<1> QED
  BY <1>2, <1>6, <1>7, <1>8, <1>9 DEF ExecUpdate, UpdateResult

\* Its COMMIT puts into effect what it was asked for.
LEMMA AloneEnds ==
  ASSUME NEW r \in Requests, AloneHere(r), NEW s \in Sessions,
         ExecCommit(s) \/ ExecRollback(s)
  PROVE  Advances(r)
<1> DEFINE f == frame[r]
           c == f.call
           g == [f EXCEPT !.status = "answered"]
<1>1. queue[s] # <<>> /\ Answer(s, Running(s))
  BY DEF ExecCommit, ExecRollback, Runs
<1>2. /\ s = r /\ Running(s) = f /\ f.status = "sent" /\ StageOf(f) = "open"
      /\ f \in Frames /\ c \in Calls /\ db \in Rows
  BY <1>1, AloneStatement
<1>3. frame'[r] = g /\ OthersStand(r)
  BY <1>1, <1>2, AloneAnswered
<1>4. g.pc = f.pc /\ g.status = "answered" /\ g.call = c /\ g.outcome = f.outcome
  BY <1>2 DEF Frames
<1>5. Deciding(r, f, db) /\ Writing(r, f, db, View(r))
  BY DEF AloneHere, Progress
<1> HIDE DEF g
<1>6. CASE ExecCommit(s)
  <2>1. f.pc = "commit" /\ db' = View(r)
    BY <1>2, <1>6 DEF ExecCommit, Runs, Commit
  <2>2. f.outcome = "ok" /\ Verdict(db, r, c) = "ok" /\ db' = Effect(db, r, c)
    BY <1>2, <1>5, <2>1 DEF Deciding, Writing
  <2>3. Achieved(db', r, c)
    BY <1>2, <2>2, EffectAchieves
  <2>4. Progress(r, g, db', View(r)')
    BY <1>4, <2>1, <2>2, <2>3
    DEF Progress, Reading, Deciding, Writing, Queries, Writes
  <2>5. StoreMove(r, f, db, g, db')
    BY <1>2, <1>4, <2>1, <2>2 DEF StoreMove, StageOf
  <2> QED BY <1>3, <2>4, <2>5 DEF Advances
<1>7. CASE ExecRollback(s)
  <2>1. f.pc = "rollback" /\ db' = db
    BY <1>2, <1>7 DEF ExecRollback, Runs, Rollback
  <2>2. Progress(r, g, db', View(r)')
    BY <1>4, <1>5, <2>1
    DEF Progress, Reading, Deciding, Writing, Queries, Writes
  <2>3. StoreMove(r, f, db, g, db')
    BY <1>2, <1>4, <2>1 DEF StoreMove, StageOf
  <2> QED BY <1>3, <2>2, <2>3 DEF Advances
<1> QED BY <1>6, <1>7

LEMMA AloneExecutes ==
  ASSUME NEW r \in Requests, AloneHere(r), NEW s \in Sessions,
         Exec(s) \/ Lose(s)
  PROVE  Advances(r)
<1>1. CASE Lose(s)
  <2>1. queue[s] # <<>> /\ Fail(s, "error")
    BY <1>1 DEF Lose
  <2>2. s = r /\ Running(s) = frame[r]
    BY <2>1, AloneStatement
  <2> QED BY <1>1, <2>1, <2>2, AloneLoses DEF Lose
<1> QED
  BY <1>1, AloneSelects, AloneInserts, AloneUpdates, AloneEnds DEF Exec

-----------------------------------------------------------------------------
(* QueueInv is inductive. *)

LEMMA EmptyQueue ==
  ASSUME NEW s \in Sessions, queue'[s] = <<>>
  PROVE  QueueAt(s)'
BY DEF QueueAt

LEMMA SingleQueue ==
  ASSUME NEW s \in Sessions, NEW r \in Requests, queue'[s] = <<r>>, Waits(r, s)'
  PROVE  QueueAt(s)'
BY DEF QueueAt

\* Nobody who waits for s does anything meanwhile.
LEMMA KeptQueue ==
  ASSUME TypeInv, NEW s \in Sessions, QueueAt(s), queue'[s] = queue[s],
         \A q \in Requests : Waits(q, s) => frame'[q] = frame[q]
  PROVE  QueueAt(s)'
<1> SUFFICES ASSUME NEW i \in 1..Len(queue[s]) PROVE Waits(queue[s][i], s)'
  BY DEF QueueAt
<1>1. queue[s][i] \in Requests /\ Waits(queue[s][i], s)
  BY DEF TypeInv, Core, QueueAt
<1> QED BY <1>1 DEF Waits, Active

LEMMA LongerQueue ==
  ASSUME TypeInv, NEW s \in Sessions, QueueAt(s), NEW r \in Requests,
         queue'[s] = Append(queue[s], r), ~Waits(r, s), Waits(r, s)',
         \A q \in Requests : Waits(q, s) => frame'[q] = frame[q]
  PROVE  QueueAt(s)'
<1> DEFINE n == Len(queue[s])
<1>1. queue[s] \in Seq(Requests) /\ n \in Nat
  BY LenProperties DEF TypeInv, Core
<1>2. /\ Len(queue'[s]) = n + 1 /\ queue'[s][n + 1] = r
      /\ \A i \in 1..n : queue'[s][i] = queue[s][i]
  BY <1>1, AppendProperties
<1>3. ASSUME NEW i \in 1..n
      PROVE  /\ Waits(queue[s][i], s)' /\ queue[s][i] # r
             /\ \A j \in 1..n : i # j => queue[s][j] # queue[s][i]
  <2>1. queue[s][i] \in Requests /\ Waits(queue[s][i], s)
    BY <1>1 DEF QueueAt
  <2> QED BY <2>1 DEF Waits, Active, QueueAt
<1> HIDE DEF n
<1>4. \A i \in 1..(n + 1) : i \in 1..n \/ i = n + 1
  BY <1>1
<1> QED BY <1>2, <1>3, <1>4 DEF QueueAt

LEMMA ShorterQueue ==
  ASSUME TypeInv, NEW s \in Sessions, QueueAt(s), queue[s] # <<>>,
         queue'[s] = Tail(queue[s]),
         \A q \in Requests \ {Head(queue[s])} : frame'[q] = frame[q]
  PROVE  QueueAt(s)'
<1> DEFINE n == Len(queue[s])
<1>1. queue[s] \in Seq(Requests) /\ n \in Nat /\ n >= 1
  BY LenProperties, EmptySeq DEF TypeInv, Core
<1>2. /\ Len(queue'[s]) = n - 1 /\ Head(queue[s]) = queue[s][1]
      /\ \A i \in 1..(n - 1) : queue'[s][i] = queue[s][i + 1]
  BY <1>1, HeadTailProperties
<1>3. ASSUME NEW i \in 1..n, i # 1, NEW q, q = queue[s][i]
      PROVE  /\ Waits(q, s)'
             /\ \A j \in 1..n : i # j => queue[s][j] # q
  <2>1. q \in Requests /\ Waits(q, s)
    BY <1>1, <1>3 DEF QueueAt
  <2>2. q # Head(queue[s])
    BY <1>1, <1>2, <1>3 DEF QueueAt
  <2>3. frame'[q] = frame[q]
    BY <2>1, <2>2
  <2>4. Waits(q, s)'
    BY <2>1, <2>3 DEF Waits, Active
  <2> QED BY <1>3, <2>4 DEF QueueAt
<1> HIDE DEF n
<1>4. ASSUME NEW i \in 1..(n - 1)
      PROVE  /\ Waits(queue[s][i], s)'
             /\ \A j \in 1..(n - 1) : i # j => queue'[s][j] # queue'[s][i]
  <2>1. i + 1 \in 1..n /\ i + 1 # 1
    BY <1>1
  <2>2. \A j \in 1..(n - 1) : j + 1 \in 1..n /\ (i # j => i + 1 # j + 1)
    BY <1>1
  <2>3. PICK q : q = queue[s][i + 1]
    OBVIOUS
  <2>4. q = queue'[s][i]
    BY <1>2, <2>3
  <2>5. Waits(q, s)' /\ \A j \in 1..n : i + 1 # j => queue[s][j] # q
    BY <1>3, <2>1, <2>3
  <2> QED BY <1>2, <2>2, <2>4, <2>5 DEF Waits, Active
<1> QED BY <1>2, <1>4 DEF QueueAt

LEMMA CloseQueues ==
  ASSUME TypeInv, QueueInv, NEW r \in Requests, frame[r].status # "sent",
         NEW outcome, NEW pending, CloseAndAnswer(r, outcome, pending)
  PROVE  QueueInv'
<1> SUFFICES ASSUME NEW s \in Sessions PROVE QueueAt(s)'
  BY DEF QueueInv
<1>1. r \in Sessions /\ queue' = [queue EXCEPT ![r] = <<>>]
  BY DEF Sessions, CloseAndAnswer
<1>2. CASE s = r
  BY <1>1, <1>2, EmptyQueue DEF TypeInv, Core
<1>3. CASE s # r
  <2>1. ASSUME NEW q \in Requests, Waits(q, s)
        PROVE  frame'[q] = frame[q]
    <3>1. q # r /\ frame[q].via # r
      BY <1>3, <2>1 DEF Waits
    <3> QED BY <3>1, Zenon DEF CloseAndAnswer
  <2>2. queue'[s] = queue[s]
    BY <1>1, <1>3 DEF TypeInv, Core
  <2> QED BY <2>1, <2>2, KeptQueue DEF QueueInv
<1> QED BY <1>2, <1>3

LEMMA LeaveQueues ==
  ASSUME TypeInv, QueueInv, NEW r \in Requests, frame[r].status # "sent",
         NEW ending \in Endings, NEW outcome, NEW pending,
         LeaveHaving(r, ending, outcome, pending)
  PROVE  QueueInv'
<1>1. CASE \E answer : CloseAndAnswer(r, answer, pending)
  BY <1>1, CloseQueues
<1>2. CASE /\ frame' = [frame EXCEPT ![r] =
                 [@ EXCEPT !.pc = ending, !.via = r, !.status = "sent",
                           !.outcome = outcome]]
           /\ queue' = [queue EXCEPT ![r] = <<r>>]
  <2> SUFFICES ASSUME NEW s \in Sessions PROVE QueueAt(s)'
    BY DEF QueueInv
  <2>1. \A q \in Requests : Waits(q, s) => frame'[q] = frame[q]
    BY <1>2 DEF Waits, TypeInv, Core
  <2>2. Waits(r, r)'
    BY <1>2 DEF Waits, Active, Endings, TypeInv, Core, Frames
  <2>3. CASE s = r
    BY <1>2, <2>2, <2>3, SingleQueue DEF TypeInv, Core
  <2>4. CASE s # r
    BY <1>2, <2>1, <2>4, KeptQueue DEF QueueInv, TypeInv, Core
  <2> QED BY <2>3, <2>4
<1> QED BY <1>1, <1>2 DEF LeaveHaving

LEMMA SendQueues ==
  ASSUME TypeInv, QueueInv, NEW r \in Requests, frame[r].status # "sent",
         NEW point \in Body, NEW t \in Sessions, Send(r, point, t)
  PROVE  QueueInv'
<1>1. CASE Await(r, point, t)
  <2> SUFFICES ASSUME NEW s \in Sessions PROVE QueueAt(s)'
    BY DEF QueueInv
  <2>1. \A q \in Requests : Waits(q, s) => frame'[q] = frame[q]
    BY <1>1 DEF Await, Waits, TypeInv, Core
  <2>2. ~Waits(r, t) /\ Waits(r, t)'
    BY <1>1 DEF Await, Waits, Active, Body, Queries, Writes, TypeInv, Core, Frames
  <2>3. CASE s = t
    <3>1. queue'[t] = Append(queue[t], r)
      BY <1>1 DEF Await, TypeInv, Core
    <3> QED BY <2>1, <2>2, <2>3, <3>1, LongerQueue DEF QueueInv
  <2>4. CASE s # t
    BY <1>1, <2>1, <2>4, KeptQueue DEF Await, QueueInv, TypeInv, Core
  <2> QED BY <2>3, <2>4
<1>2. CASE Leave(r, "rollback", "error")
  BY <1>2, LeaveQueues DEF Leave, Endings
<1> QED BY <1>1, <1>2 DEF Send

LEMMA ResumeQueues ==
  ASSUME TypeInv, QueueInv, NEW r \in Requests, Resume(r)
  PROVE  QueueInv'
<1>1. repo \in Sessions /\ frame[r].via \in Sessions
  BY DEF TypeInv, Core, Frames
<1> QED
  BY <1>1, ResumeForms, LeaveQueues, SendQueues, CloseQueues

\* What the database does comes down to an answer or a failure.
LEMMA ExecForms ==
  ASSUME NEW s \in Sessions, Exec(s) \/ Lose(s)
  PROVE  queue[s] # <<>> /\ ((\E f : Answer(s, f)) \/ (\E why : Fail(s, why)))
BY DEF Exec, ExecSelect, ExecInsert, ExecUpdate, ExecCommit, ExecRollback, Lose, Runs

LEMMA ExecQueues ==
  ASSUME TypeInv, QueueInv, NEW s \in Sessions, Exec(s) \/ Lose(s)
  PROVE  QueueInv'
<1> DEFINE h == Head(queue[s])
<1>1. queue[s] # <<>> /\ queue[s] \in Seq(Requests)
  BY ExecForms DEF TypeInv, Core
<1>2. h \in Requests /\ \A i \in 1..Len(queue[s]) : Waits(queue[s][i], s)
  BY <1>1, HeadTailProperties DEF QueueInv, QueueAt
<1>3. Waits(h, s)
  <2>1. 1 \in 1..Len(queue[s]) /\ h = queue[s][1]
    BY <1>1
  <2> QED BY <1>2, <2>1
<1>4. \A q \in Range(Tail(queue[s])) : Waits(q, s)
  <2> SUFFICES ASSUME NEW i \in DOMAIN Tail(queue[s])
               PROVE  Waits(Tail(queue[s])[i], s)
    BY DEF Range
  <2>1. i + 1 \in 1..Len(queue[s]) /\ Tail(queue[s])[i] = queue[s][i + 1]
    BY <1>1, HeadTailProperties, LenProperties
  <2> QED BY <1>2, <2>1
<1> HIDE DEF h
<1>5. CASE \E f : Answer(s, f)
  <2> SUFFICES ASSUME NEW t \in Sessions PROVE QueueAt(t)'
    BY DEF QueueInv
  <2>1. /\ queue' = [queue EXCEPT ![s] = Tail(@)]
        /\ \A q \in Requests \ {h} : frame'[q] = frame[q]
    BY <1>2, <1>5 DEF Answer, TypeInv, Core, h
  <2>2. CASE t = s
    BY <1>1, <2>1, <2>2, ShorterQueue DEF QueueInv, TypeInv, Core, h
  <2>3. CASE t # s
    <3>1. queue'[t] = queue[t]
      BY <2>1, <2>3 DEF TypeInv, Core
    <3>2. \A q \in Requests : Waits(q, t) => frame'[q] = frame[q]
      BY <1>3, <2>1, <2>3 DEF Waits
    <3> QED BY <3>1, <3>2, KeptQueue DEF QueueInv
  <2> QED BY <2>2, <2>3
<1>6. CASE \E why : Fail(s, why)
  <2> SUFFICES ASSUME NEW t \in Sessions PROVE QueueAt(t)'
    BY DEF QueueInv
  <2>1. queue' = [queue EXCEPT ![s] = <<>>]
    BY <1>6 DEF Fail
  <2>2. CASE t = s
    BY <2>1, <2>2, EmptyQueue DEF TypeInv, Core
  <2>3. CASE t # s
    <3>1. queue'[t] = queue[t]
      BY <2>1, <2>3 DEF TypeInv, Core
    <3>2. ASSUME NEW q \in Requests, Waits(q, t)
          PROVE  frame'[q] = frame[q]
      <4>1. q # Head(queue[s]) /\ q \notin Range(Tail(queue[s]))
        BY <1>3, <1>4, <2>3, <3>2 DEF Waits, h
      <4> QED BY <1>6, <4>1, Zenon DEF Fail
    <3> QED BY <3>1, <3>2, KeptQueue DEF QueueInv
  <2> QED BY <2>2, <2>3
<1> QED BY <1>5, <1>6, ExecForms

LEMMA InitQueue == Init => QueueInv
BY DEF Init, QueueInv, QueueAt

LEMMA NextQueue == TypeInv /\ QueueInv /\ [Next]_vars => QueueInv'
<1> SUFFICES ASSUME TypeInv, QueueInv, [Next]_vars PROVE QueueInv'
  OBVIOUS
<1>1. ASSUME NEW r \in Requests, NEW c \in Workload, Start(r, c)
      PROVE  QueueInv'
  <2> SUFFICES ASSUME NEW s \in Sessions PROVE QueueAt(s)'
    BY DEF QueueInv
  <2>1. \A q \in Requests : Waits(q, s) => frame'[q] = frame[q]
    BY <1>1 DEF Start, Waits, Active, TypeInv, Core
  <2>2. Waits(r, r)'
    BY <1>1 DEF Start, FirstQuery, Waits, Active, TypeInv, Core, Frames
  <2>3. CASE s = r
    BY <1>1, <2>2, <2>3, SingleQueue DEF Start, TypeInv, Core
  <2>4. CASE s # r
    BY <1>1, <2>1, <2>4, KeptQueue DEF Start, QueueInv, TypeInv, Core
  <2> QED BY <2>3, <2>4
<1>2. ASSUME NEW r \in Requests, NEW c \in Workload, Reject(r, c)
      PROVE  QueueInv'
  <2>1. \A q \in Requests : Active(q) => frame'[q] = frame[q]
    BY <1>2 DEF Reject, Active, TypeInv, Core
  <2> QED BY <1>2, <2>1, KeptQueue DEF Reject, QueueInv, Waits
<1>3. CASE Crash
  BY <1>3, EmptyQueue DEF Crash, QueueInv
<1>4. ASSUME NEW s \in Sessions, Collect(s)
      PROVE  QueueInv'
  BY <1>4, KeptQueue DEF Collect, QueueInv
<1>5. CASE UNCHANGED vars
  BY <1>5, KeptQueue DEF vars, QueueInv
<1> QED
  BY <1>1, <1>2, <1>3, <1>4, <1>5, ResumeQueues, ExecQueues DEF Next

-----------------------------------------------------------------------------
(* An RPC that has not arrived has left no trace: no session but its own   *)
(* could hold a row with its id, and nobody uses its session.              *)

Fresh(r) ==
  /\ txn[r] = Blank /\ doomed[r] = {} /\ repo # r
  /\ db[r] = NoRow /\ \A s \in Sessions : txn[s][r] \notin Row
  /\ \A q \in Requests : frame[q].via # r /\ frame[q].saved # r

IdleInv == \A r \in Requests : frame[r].pc = "idle" => Fresh(r)

LEMMA FreshUnseen ==
  ASSUME TypeInv, NEW r \in Requests, Fresh(r), NEW s \in Sessions
  PROVE  View(s)[r] = NoRow /\ Written(s)[r] \notin Row
<1>1. DbTypeOK /\ r \in Ids
  BY DEF TypeInv, Core, Ids
<1>2. txn[s][r] \in {NoRow, Untouched} /\ db[r] = NoRow
  BY <1>1 DEF DbTypeOK, Fresh
<1> QED
  BY <1>1, <1>2, ViewOf, DomainAssumption, DatabaseAssumption DEF Written

LEMMA InitIdle == Init => IdleInv
BY DatabaseAssumption
DEF Init, DbInit, InitialRows, IdleInv, Fresh, Blank, Idle, Sessions, Ids, Row

\* What a session that is not r's does to the rows it has written.
LEMMA FreshTxn ==
  ASSUME TypeInv, NEW r \in Requests, Fresh(r), NEW s \in Sessions \ {r},
         NEW pending, pending[r] = {},
         \/ UNCHANGED <<txn, doomed>>
         \/ Flush(s)
         \/ \E m : Discard(s, m, pending) /\ DOMAIN pending = Sessions
         \/ \E i \in Ids \ {r}, row \in Row : WriteRow(s, i, row)
  PROVE  /\ txn'[r] = Blank /\ doomed'[r] = {}
         /\ \A o \in Sessions : txn'[o][r] \notin Row
<1>1. r \in Ids /\ r \in Sessions /\ DbTypeOK
  BY DEF Ids, Sessions, TypeInv, Core
<1>2. Blank[r] \notin Row
  BY <1>1, DatabaseAssumption DEF Blank
<1>3. Written(s)[r] \notin Row
  BY FreshUnseen
<1>4. CASE UNCHANGED <<txn, doomed>>
  BY <1>4 DEF Fresh
<1>5. CASE Flush(s)
  BY <1>1, <1>3, <1>5 DEF Fresh, Flush, DbTypeOK
<1>6. CASE \E m : Discard(s, m, pending) /\ DOMAIN pending = Sessions
  BY <1>1, <1>2, <1>6 DEF Fresh, Discard, DbTypeOK
<1>7. CASE \E i \in Ids \ {r}, row \in Row : WriteRow(s, i, row)
  BY <1>1, <1>3, <1>7 DEF Fresh, WriteRow, Written, DbTypeOK
<1> QED BY <1>4, <1>5, <1>6, <1>7

LEMMA IdleResume ==
  ASSUME TypeInv, IdleInv, NEW q \in Requests, Resume(q)
  PROVE  IdleInv'
<1> SUFFICES ASSUME NEW r \in Requests, frame'[r].pc = "idle"
             PROVE  Fresh(r)'
  BY DEF IdleInv
<1>1. Active(q) /\ SameElsewhere(q) /\ Moves(q)
  BY ResumeMoves
<1>2. r # q /\ frame[r].pc = "idle" /\ Fresh(r)
  BY <1>1 DEF Moves, SameElsewhere, Body, Queries, Writes, Endings, IdleInv
<1>3. /\ q \in Sessions \ {r} /\ frame[q].via # r /\ frame[q].saved # r /\ repo # r
      /\ r \in Sessions /\ doomed[r] = {} /\ DOMAIN doomed = Sessions
  BY <1>2 DEF Fresh, Sessions, TypeInv, Core, DbTypeOK
<1>4. \A p \in Requests : frame'[p].saved # r
  BY <1>1, <1>2 DEF SameElsewhere, Fresh
<1>5. ASSUME frame'[q].via # r
      PROVE  \A p \in Requests : frame'[p].via # r
  BY <1>1, <1>2, <1>5 DEF SameElsewhere, Fresh
<1>6. ASSUME NEW outcome, NEW pending, DOMAIN pending = Sessions, pending[r] = {},
             CloseAndAnswer(q, outcome, pending), repo' # r
      PROVE  Fresh(r)'
  <2>1. frame'[q].via = frame[q].via
    <3>1. frame'[q] = [frame[q] EXCEPT !.pc = "done", !.outcome = outcome]
      BY <1>6 DEF CloseAndAnswer
    <3> QED BY <3>1 DEF TypeInv, Core, Frames
  <2>2. /\ txn'[r] = Blank /\ doomed'[r] = {}
        /\ \A o \in Sessions : txn'[o][r] \notin Row
    BY <1>2, <1>3, <1>6, FreshTxn DEF CloseAndAnswer
  <2> QED BY <1>2, <1>3, <1>4, <1>5, <1>6, <2>1, <2>2 DEF Fresh, CloseAndAnswer
<1>7. ASSUME NEW ending \in Endings, NEW outcome, NEW pending,
             DOMAIN pending = Sessions, pending[r] = {},
             LeaveHaving(q, ending, outcome, pending)
      PROVE  Fresh(r)'
  <2>1. repo' # r
    BY <1>3, <1>7 DEF LeaveHaving
  <2>2. CASE /\ frame' = [frame EXCEPT ![q] =
                   [@ EXCEPT !.pc = ending, !.via = q, !.status = "sent",
                             !.outcome = outcome]]
             /\ doomed' = pending /\ UNCHANGED <<db, txn>>
    <3>1. frame'[q].via = q
      BY <2>2 DEF TypeInv, Core, Frames
    <3> QED BY <1>2, <1>3, <1>4, <1>5, <1>7, <2>1, <2>2, <3>1 DEF Fresh
  <2> QED BY <1>6, <1>7, <2>1, <2>2 DEF LeaveHaving
<1>8. ASSUME NEW point \in Body, NEW s \in {repo, frame[q].via}, Send(q, point, s)
      PROVE  Fresh(r)'
  <2>1. CASE Await(q, point, s)
    <3>1. frame'[q].via = s /\ s # r
      BY <1>3, <2>1 DEF Await, TypeInv, Core, Frames
    <3> QED BY <1>2, <1>4, <1>5, <2>1, <3>1 DEF Fresh, Await
  <2>2. CASE Leave(q, "rollback", "error")
    BY <1>3, <1>7, <2>2 DEF Leave, Endings
  <2> QED BY <1>8, <2>1, <2>2 DEF Send
<1>9. CASE \E ending \in Endings : \E outcome, pending :
             /\ LeaveHaving(q, ending, outcome, pending)
             /\ DOMAIN pending = Sessions
             /\ \A s \in Sessions \ {frame[q].via} : pending[s] = doomed[s]
  BY <1>3, <1>7, <1>9
<1>10. CASE repo' = repo /\ \E outcome : CloseAndAnswer(q, outcome, doomed)
  BY <1>3, <1>6, <1>10
<1> QED BY <1>8, <1>9, <1>10, ResumeForms

LEMMA IdleDatabase ==
  ASSUME TypeInv, QueueInv, IdleInv,
         NEW s \in Sessions, Exec(s) \/ Lose(s) \/ Collect(s)
  PROVE  IdleInv'
<1> SUFFICES ASSUME NEW r \in Requests, frame'[r].pc = "idle"
             PROVE  Fresh(r)'
  BY DEF IdleInv
<1>1. /\ frame[r].pc = "idle" /\ Fresh(r) /\ repo' = repo
      /\ \A q \in Requests : frame'[q].via # r /\ frame'[q].saved # r
  BY DatabaseMoves DEF IdleInv, Fresh
<1>2. s # r
  <2>1. CASE Collect(s)
    BY <1>1, <2>1 DEF Collect
  <2>2. CASE queue[s] # <<>>
    <3>1. queue[s] \in Seq(Requests)
      BY DEF TypeInv, Core
    <3>2. 1 \in 1..Len(queue[s]) /\ queue[s][1] \in Requests
      BY <2>2, <3>1
    <3>3. frame[queue[s][1]].via = s
      BY <3>2 DEF QueueInv, QueueAt, Waits
    <3> QED BY <1>1, <3>2, <3>3 DEF Fresh
  <2> QED BY <2>1, <2>2, ExecForms
<1>3. s \in Sessions \ {r} /\ doomed[r] = {} /\ DOMAIN doomed = Sessions
      /\ View(s)[r] = NoRow /\ r \in Ids /\ DbTypeOK
  BY <1>1, <1>2, FreshUnseen DEF Fresh, TypeInv, Core, DbTypeOK, Ids
<1>4. db'[r] = NoRow
  <2>1. db' = db \/ db' = View(s)
    BY DEF Exec, ExecSelect, ExecInsert, ExecUpdate, ExecCommit, ExecRollback,
           Flush, WriteRow, Commit, Rollback, Lose, Collect
  <2> QED BY <1>1, <1>3, <2>1 DEF Fresh
<1>5. \/ UNCHANGED <<txn, doomed>>
      \/ Flush(s)
      \/ \E m : Discard(s, m, doomed)
      \/ \E i \in Ids \ {r}, row \in Row : WriteRow(s, i, row)
  <2>1. CASE ExecInsert(s)
    <3>1. /\ Head(queue[s]) \in Requests /\ Prepared(Running(s))
          /\ Running(s).pc = "insert"
      BY <2>1, RunningType DEF ExecInsert
    <3>2. Head(queue[s]) # r /\ Head(queue[s]) \in Ids
      BY <1>1, <3>1 DEF Running, Ids
    <3>3. Created(Running(s).call) \in Row
      BY <3>1, CreatedRow DEF Prepared, Body, Writes
    <3> QED BY <2>1, <3>2, <3>3 DEF ExecInsert, Fail
  <2>2. CASE ExecUpdate(s)
    <3> DEFINE id == Running(s).call.id
               row == UpdateResult(s, Running(s))
    <3>1. CASE \E why \in {"error", "conflict"} : Fail(s, why)
      BY <3>1 DEF Fail
    <3>2. CASE /\ View(s)[id] \in Row /\ row \in Row /\ id \in Ids
               /\ WriteRow(s, id, row)
      BY <1>3, <3>2, DomainAssumption
    <3> QED BY <2>2, <3>1, <3>2, ExecUpdateCases
  <2>3. CASE ExecSelect(s)
    BY <2>3 DEF ExecSelect
  <2>4. CASE ExecCommit(s) \/ ExecRollback(s)
    BY <2>4 DEF ExecCommit, ExecRollback, Commit, Rollback
  <2>5. CASE Lose(s) \/ Collect(s)
    BY <2>5 DEF Lose, Collect, Fail, Rollback
  <2> QED BY <2>1, <2>2, <2>3, <2>4, <2>5 DEF Exec
<1>6. /\ txn'[r] = Blank /\ doomed'[r] = {}
      /\ \A o \in Sessions : txn'[o][r] \notin Row
  BY <1>1, <1>3, <1>5, FreshTxn
<1> QED BY <1>1, <1>4, <1>6 DEF Fresh

LEMMA NextIdle == TypeInv /\ QueueInv /\ IdleInv /\ [Next]_vars => IdleInv'
<1> SUFFICES ASSUME TypeInv, QueueInv, IdleInv, [Next]_vars PROVE IdleInv'
  OBVIOUS
<1>1. ASSUME NEW q \in Requests, NEW c \in Workload, Start(q, c)
      PROVE  IdleInv'
  <2> SUFFICES ASSUME NEW r \in Requests, frame'[r].pc = "idle"
               PROVE  Fresh(r)'
    BY DEF IdleInv
  <2>1. /\ frame'[q].pc \in Body /\ frame'[q].via = q /\ frame'[q].saved = repo
        /\ \A p \in Requests \ {q} : frame'[p] = frame[p]
        /\ UNCHANGED <<db, txn, doomed>> /\ repo' = q
    BY <1>1 DEF Start, FirstQuery, Body, Queries, TypeInv, Core, Frames
  <2>2. r # q
    BY <2>1 DEF Body, Queries, Writes
  <2>3. Fresh(r)
    BY <2>1, <2>2 DEF IdleInv
  <2> QED BY <2>1, <2>2, <2>3 DEF Fresh
<1>2. ASSUME NEW q \in Requests, NEW c \in Workload, Reject(q, c)
      PROVE  IdleInv'
  <2> SUFFICES ASSUME NEW r \in Requests, frame'[r].pc = "idle"
               PROVE  Fresh(r)'
    BY DEF IdleInv
  <2>1. /\ frame'[q].pc = "done"
        /\ frame'[q].via = frame[q].via /\ frame'[q].saved = frame[q].saved
        /\ \A p \in Requests \ {q} : frame'[p] = frame[p]
        /\ UNCHANGED <<db, txn, doomed, repo>>
    BY <1>2 DEF Reject, dbVars, TypeInv, Core, Frames
  <2>2. Fresh(r)
    BY <2>1 DEF IdleInv
  <2> QED BY <2>1, <2>2 DEF Fresh
<1>3. CASE Crash
  <2> SUFFICES ASSUME NEW r \in Requests, frame'[r].pc = "idle"
               PROVE  Fresh(r)'
    BY DEF IdleInv
  <2>1. \A q \in Requests : /\ frame'[q].via = frame[q].via
                            /\ frame'[q].saved = frame[q].saved
                            /\ frame'[q].pc \in {frame[q].pc, "done"}
    BY <1>3 DEF Crash, TypeInv, Core, Frames
  <2>2. Fresh(r)
    BY <2>1 DEF IdleInv
  <2>3. /\ db' = db /\ repo' # r /\ txn'[r] = Blank /\ doomed'[r] = {}
        /\ \A s \in Sessions : txn'[s][r] = Untouched
    BY <1>3, DatabaseAssumption DEF Crash, Sessions, Blank, Ids
  <2> QED BY <2>1, <2>2, <2>3, DatabaseAssumption DEF Fresh
<1>4. CASE UNCHANGED vars
  BY <1>4 DEF vars, dbVars, IdleInv, Fresh
<1> QED
  BY <1>1, <1>2, <1>3, <1>4, IdleResume, IdleDatabase DEF Next

-----------------------------------------------------------------------------
(* SoloProgress is inductive. *)

SoloProgress == \A r \in InFlight \ overlapped : Progress(r, frame[r], db, View(r))

SoloBegun == \A r \in InFlight \ overlapped : Begun(r)

SoloIInv ==
  TypeInv /\ SoloInv /\ QueueInv /\ IdleInv /\ SoloBegun /\ SoloProgress

LEMMA SoloAloneHere ==
  ASSUME SoloIInv, TypeInv', NEW r \in InFlight \ overlapped
  PROVE  AloneHere(r)
BY DEF SoloIInv, SoloInv, SoloBegun, SoloProgress, AloneHere, Alone

\* An RPC begins with the committed rows before it.
LEMMA StartProgress ==
  ASSUME TypeInv, TypeInv', IdleInv, NEW r \in Requests, NEW c \in Calls, Start(r, c)
  PROVE  Progress(r, frame'[r], db', View(r)')
<1> DEFINE g == frame'[r]
<1>1. /\ g.pc = FirstQuery(c) /\ g.call = c /\ g.status = "sent"
      /\ UNCHANGED <<db, txn, doomed>> /\ Fresh(r) /\ r \in Sessions
  BY DEF Start, TypeInv, Core, Frames, Sessions, IdleInv
<1>2. View(r)' = View(r) /\ View(r) = db
  BY <1>1, SameView, BlankView DEF TypeInv, Core, Fresh
<1>3. /\ c.op = "create" => FirstQuery(c) = "get_by_code"
      /\ c.op = "list" => FirstQuery(c) = "list"
      /\ c.op \in {"get", "update", "delete"} => FirstQuery(c) = "get_by_id"
      /\ c.op \in {"create", "get", "update", "delete", "list"}
  BY DEF FirstQuery, Calls
<1> HIDE DEF g
<1> QED
  BY <1>1, <1>2, <1>3
  DEF g, Fresh, Progress, Reading, Deciding, Writing, Queries, Writes

LEMMA InitProgress == Init => SoloProgress
BY DEF Init, SoloProgress, InFlight, Active, Idle

LEMMA NextProgress == SoloIInv /\ [Next]_vars => SoloProgress'
<1> SUFFICES ASSUME SoloIInv, [Next]_vars PROVE SoloProgress'
  OBVIOUS
<1>1. TypeInv /\ TypeInv' /\ SoloInv /\ IdleInv
  BY NextType DEF SoloIInv
<1>2. ASSUME NEW q \in Requests, NEW c \in Workload, Start(q, c)
      PROVE  SoloProgress'
  <2>1. /\ \A p \in Requests \ {q} : frame'[p] = frame[p]
        /\ overlapped' = IF InFlight = {} THEN overlapped
                         ELSE overlapped \cup InFlight \cup {q}
    BY <1>1, <1>2 DEF Start, TypeInv, Core
  <2>2. InFlight' \subseteq InFlight \cup {q}
    BY <2>1 DEF InFlight, Active
  <2>3. Progress(q, frame'[q], db', View(q)')
    BY <1>1, <1>2, StartProgress, ServiceAssumption
  <2> QED BY <2>1, <2>2, <2>3 DEF SoloProgress
<1>3. ASSUME NEW q \in Requests, NEW c \in Workload, Reject(q, c)
      PROVE  SoloProgress'
  <2>1. /\ \A p \in Requests \ {q} : frame'[p] = frame[p]
        /\ frame'[q].pc = "done" /\ UNCHANGED <<db, txn, doomed, overlapped>>
    BY <1>1, <1>3 DEF Reject, dbVars, TypeInv, Core, Frames
  <2>2. InFlight' \subseteq InFlight \ {q}
    BY <2>1 DEF InFlight, Active
  <2>3. \A r \in Requests : View(r)' = View(r)
    BY <1>1, <2>1, SameView DEF TypeInv, Core, Sessions
  <2> QED BY <2>1, <2>2, <2>3 DEF SoloProgress, SoloIInv, InFlight
<1>4. ASSUME NEW q \in Requests, Resume(q)
      PROVE  SoloProgress'
  <2>1. /\ q \in InFlight /\ SameElsewhere(q) /\ overlapped' = overlapped
    BY <1>1, <1>4, ResumeMoves DEF InFlight
  <2>2. InFlight' \subseteq InFlight
    BY <2>1 DEF InFlight, Active, SameElsewhere
  <2>3. CASE q \in overlapped
    BY <1>1, <2>1, <2>2, <2>3 DEF SoloInv, SoloProgress
  <2>4. CASE q \notin overlapped
    <3>1. Advances(q) /\ InFlight = {q}
      BY <1>1, <1>4, <2>1, <2>4, SoloAloneHere, AloneResumes
      DEF AloneHere, Alone
    <3> QED BY <2>2, <3>1 DEF Advances, SoloProgress, InFlight, Active
  <2> QED BY <2>3, <2>4
<1>5. ASSUME NEW s \in Sessions, Exec(s) \/ Lose(s)
      PROVE  SoloProgress'
  <2>1. InFlight' = InFlight /\ overlapped' = overlapped
    BY <1>1, <1>5, DatabaseMoves DEF InFlight, Active
  <2>2. ASSUME NEW r \in InFlight \ overlapped
        PROVE  Progress(r, frame'[r], db', View(r)')
    <3>1. r \in Requests /\ Advances(r)
      BY <1>1, <1>5, SoloAloneHere, AloneExecutes DEF InFlight
    <3>2. frame'[r].pc # "done"
      BY <2>1 DEF InFlight, Active
    <3> QED BY <3>1, <3>2 DEF Advances
  <2> QED BY <2>1, <2>2 DEF SoloProgress
<1>6. ASSUME NEW s \in Sessions, Collect(s)
      PROVE  SoloProgress'
  <2>1. /\ UNCHANGED <<db, frame, overlapped>> /\ s \notin InFlight
        /\ \A r \in Sessions \ {s} : txn'[r] = txn[r] /\ doomed'[r] = doomed[r]
    BY <1>1, <1>6 DEF Collect, Rollback, Discard, InFlight, Active, TypeInv,
                      Core, DbTypeOK
  <2>2. \A r \in InFlight : View(r)' = View(r)
    BY <1>1, <2>1, SameView DEF TypeInv, Core, Sessions, InFlight
  <2> QED BY <2>1, <2>2 DEF SoloProgress, SoloIInv, InFlight, Active
<1>7. CASE Crash
  <2>1. \A r \in Requests : frame'[r].pc \in {"idle", "done"}
    BY <1>1, <1>7 DEF Crash, Active, TypeInv, Core, Frames
  <2> QED BY <2>1 DEF SoloProgress, InFlight, Active
<1>8. CASE UNCHANGED vars
  <2>1. \A r \in Requests : View(r)' = View(r)
    BY <1>1, <1>8, SameView DEF vars, dbVars, TypeInv, Core, Sessions
  <2> QED BY <1>8, <2>1 DEF vars, dbVars, SoloProgress, SoloIInv, InFlight, Active
<1> QED
  BY <1>2, <1>3, <1>4, <1>5, <1>6, <1>7, <1>8 DEF Next

LEMMA NextBegun == SoloIInv /\ [Next]_vars => SoloBegun'
<1> SUFFICES ASSUME SoloIInv, [Next]_vars, NEW r \in InFlight' \ overlapped'
             PROVE  Begun(r)'
  BY DEF SoloBegun
<1>1. /\ TypeInv /\ TypeInv' /\ SoloInv /\ QueueInv
      /\ r \in Requests /\ r \in Sessions /\ Active(r)'
      /\ sess \in [Sessions -> {"closed", "begun", "autobegun", "failed"}]
  BY NextType DEF SoloIInv, InFlight, Sessions, TypeInv, Core, DbTypeOK
<1>2. ASSUME frame'[r] = frame[r], sess'[r] = sess[r], r \notin overlapped
      PROVE  Begun(r)'
  <2>1. Begun(r)
    BY <1>1, <1>2 DEF SoloIInv, SoloBegun, InFlight, Active
  <2> QED BY <1>2, <2>1 DEF Begun, InBody
<1>3. ASSUME NEW q \in Requests, NEW c \in Workload, Start(q, c) \/ Reject(q, c)
      PROVE  Begun(r)'
  <2>1. CASE q = r
    <3>1. CASE Start(q, c)
      <4>1. sess'[r] = "begun"
        BY <1>1, <2>1, <3>1 DEF Start
      <4> QED BY <4>1 DEF Begun
    <3>2. CASE Reject(q, c)
      BY <1>1, <2>1, <3>2 DEF Reject, Active, TypeInv, Core, Frames
    <3> QED BY <1>3, <3>1, <3>2
  <2>2. CASE q # r
    <3>1. frame'[r] = frame[r] /\ sess'[r] = sess[r] /\ overlapped \subseteq overlapped'
      BY <1>1, <1>3, <2>2 DEF Start, Reject, TypeInv, Core, dbVars
    <3> QED BY <1>2, <3>1
  <2> QED BY <2>1, <2>2
<1>4. ASSUME NEW q \in Requests, Resume(q)
      PROVE  Begun(r)'
  <2>1. Active(q) /\ SameElsewhere(q) /\ overlapped' = overlapped
    BY <1>1, <1>4, ResumeMoves
  <2>2. r \in InFlight \ overlapped
    BY <1>1, <2>1 DEF SameElsewhere, InFlight, Active
  <2>3. AloneHere(r) /\ Alone(r) /\ Begun(r) /\ q = r
    BY <1>1, <2>1, <2>2, SoloAloneHere DEF AloneHere, Alone, InFlight
  <2>4. ASSUME NEW outcome, NEW pending, CloseAndAnswer(r, outcome, pending)
        PROVE  FALSE
    <3>1. frame'[r] = [frame[r] EXCEPT !.pc = "done", !.outcome = outcome]
      BY <1>1, <2>3, <2>4, AloneAnswers
    <3> QED BY <1>1, <3>1 DEF Active, TypeInv, Core, Frames
  <2>5. ASSUME NEW ending \in Endings, NEW outcome, NEW pending,
               LeaveHaving(r, ending, outcome, pending)
        PROVE  Begun(r)'
    <3>1. frame' = [frame EXCEPT ![r] = [@ EXCEPT !.pc = ending, !.via = r,
                                          !.status = "sent", !.outcome = outcome]]
      BY <2>4, <2>5 DEF LeaveHaving
    <3>2. frame'[r].pc \in Endings
      BY <1>1, <3>1 DEF TypeInv, Core, Frames
    <3> QED BY <3>2 DEF Begun, InBody, Body, Queries, Writes, Endings
  <2>6. ASSUME NEW point \in Body, NEW s \in {repo, frame[r].via}, InBody(r),
               Send(r, point, s)
        PROVE  Begun(r)'
    <3>1. CASE Await(r, point, s)
      <4>1. s = r /\ sess[r] = "begun"
        BY <2>3, <2>6, <3>1 DEF Alone, Await, Accepts, Begun
      <4>2. sess'[r] = "begun"
        BY <1>1, <3>1, <4>1 DEF Await
      <4> QED BY <4>2 DEF Begun
    <3>2. CASE Leave(r, "rollback", "error")
      BY <2>5, <3>2 DEF Leave, Endings
    <3> QED BY <2>6, <3>1, <3>2 DEF Send
  <2> QED BY <1>1, <1>4, <2>3, <2>4, <2>5, <2>6, ResumeForms
<1>5. ASSUME NEW s \in Sessions, Exec(s) \/ Lose(s)
      PROVE  Begun(r)'
  <2>1. InFlight' = InFlight /\ overlapped' = overlapped
    BY <1>1, <1>5, DatabaseMoves DEF InFlight, Active
  <2>2. AloneHere(r) /\ Alone(r) /\ Begun(r) /\ queue[s] # <<>>
    BY <1>1, <1>5, <2>1, SoloAloneHere, ExecForms DEF AloneHere
  <2>3. s = r /\ Running(s) = frame[r] /\ frame[r].status = "sent" /\ frame[r] \in Frames
    BY <1>1, <1>5, <2>2, AloneStatement
  <2>4. ASSUME NEW why \in {"conflict", "error"}, Fail(s, why)
        PROVE  Begun(r)'
    <3>1. frame'[r] = [frame[r] EXCEPT !.status = why]
      BY <1>1, <1>5, <2>2, <2>4, AloneFailed
    <3>2. frame'[r].status = why /\ sess'[r] = "failed"
      BY <1>1, <2>3, <2>4, <3>1 DEF Fail, Discard, Frames
    <3> QED BY <3>2 DEF Begun
  <2>5. frame'[r].pc = frame[r].pc
    BY <1>1, <1>5, DatabaseMoves
  <2>6. CASE ~InBody(r)
    BY <2>5, <2>6 DEF Begun, InBody
  <2>7. CASE InBody(r) /\ sess' = sess
    BY <2>2, <2>3, <2>7 DEF Begun
  <2>8. CASE InBody(r)
    <3>1. frame[r].pc \notin {"commit", "rollback"}
      BY <2>8 DEF InBody, Body, Queries, Writes
    <3>2. CASE ExecSelect(s)
      BY <2>7, <2>8, <3>2 DEF ExecSelect, Flush
    <3>3. CASE ExecInsert(s)
      BY <2>4, <2>7, <2>8, <3>3 DEF ExecInsert, WriteRow
    <3>4. CASE ExecUpdate(s)
      BY <2>4, <2>7, <2>8, <3>4 DEF ExecUpdate, WriteRow
    <3>5. CASE ExecCommit(s) \/ ExecRollback(s)
      BY <2>3, <3>1, <3>5 DEF ExecCommit, ExecRollback, Runs
    <3>6. CASE Lose(s)
      BY <2>4, <3>6 DEF Lose
    <3> QED BY <1>5, <3>2, <3>3, <3>4, <3>5, <3>6 DEF Exec
  <2> QED BY <2>6, <2>8
<1>6. ASSUME NEW s \in Sessions, Collect(s)
      PROVE  Begun(r)'
  <2>1. frame' = frame /\ overlapped' = overlapped /\ frame[s].pc = "done"
        /\ sess' = [sess EXCEPT ![s] = "closed"]
    BY <1>6 DEF Collect, Rollback, Discard
  <2> QED BY <1>1, <1>2, <2>1 DEF Active
<1>7. CASE Crash
  BY <1>1, <1>7 DEF Crash, Active, TypeInv, Core, Frames
<1>8. CASE UNCHANGED vars
  BY <1>1, <1>2, <1>8 DEF vars, dbVars
<1> QED
  BY <1>3, <1>4, <1>5, <1>6, <1>7, <1>8 DEF Next

LEMMA SoloInvariance == Spec => []SoloIInv
<1>1. Init => SoloIInv
  BY InitType, InitSolo, InitQueue, InitIdle, InitProgress
  DEF SoloIInv, Init, SoloBegun, InFlight, Active, Idle
<1>2. SoloIInv /\ [Next]_vars => SoloIInv'
  BY NextType, NextSolo, NextQueue, NextIdle, NextBegun, NextProgress DEF SoloIInv
<1> QED
  BY <1>1, <1>2, PTL DEF Spec

-----------------------------------------------------------------------------
\* An RPC that no other one has overlapped is answered "ok" only when the
\* committed rows are what it asked for, whatever statements, connections and
\* processes were lost on the way.
THEOREM AnswersAreDurable == Spec => SoloDurability
<1> DEFINE Durable ==
             \A r \in Requests \ overlapped :
               Active(r) /\ ~Active(r)' /\ frame'[r].outcome = "ok" => InEffect(db', r)
<1>1. SoloIInv /\ TypeInv' /\ [Next]_vars => Durable
  <2> SUFFICES ASSUME SoloIInv, TypeInv', [Next]_vars, NEW r \in Requests \ overlapped,
                      Active(r), ~Active(r)', frame'[r].outcome = "ok"
               PROVE  InEffect(db', r)
    OBVIOUS
  <2>1. /\ TypeInv /\ AloneHere(r) /\ frame[r].call \in Calls
        /\ frame'[r].pc \in {"idle", "done"}
    BY SoloAloneHere, AloneType DEF SoloIInv, InFlight, Active, AloneHere
  <2>2. ASSUME NEW q \in Requests, Resume(q)
        PROVE  InEffect(db', r)
    <3>1. q = r /\ Moves(r)
      BY <2>1, <2>2, ResumeMoves DEF SameElsewhere, Active
    <3>2. Advances(r) /\ frame'[r].pc = "done"
      BY <2>1, <2>2, <3>1, AloneResumes
      DEF Moves, Body, Queries, Writes, Endings
    <3>3. StageOf(frame[r]) = "performed" /\ db' = db
      BY <2>1, <3>2 DEF Advances, StoreMove, StageOf, Active
    <3>4. frame[r].pc = "commit" /\ frame[r].status = "answered"
      BY <3>3 DEF StageOf
    <3>5. Achieved(db, r, frame[r].call)
      BY <2>1, <3>4 DEF AloneHere, Progress, Writing
    <3> QED BY <2>1, <3>3, <3>5, AchievedInEffect
  <2>3. ASSUME NEW q \in Requests, NEW c \in Workload, Start(q, c) \/ Reject(q, c)
        PROVE  FALSE
    <3>1. q # r
      BY <2>3 DEF Start, Reject, Active
    <3>2. frame'[r] = frame[r]
      BY <2>3, <3>1 DEF Start, Reject, SoloIInv, TypeInv, Core
    <3> QED BY <3>2 DEF Active
  <2>4. ASSUME NEW s \in Sessions, Exec(s) \/ Lose(s) \/ Collect(s)
        PROVE  FALSE
    BY <2>1, <2>4, DatabaseMoves DEF Active
  <2>5. CASE Crash
    <3>1. frame[r] \in Frames
      BY <2>1 DEF TypeInv, Core
    <3>2. frame'[r] = [frame[r] EXCEPT !.pc = "done", !.outcome = "error"]
      BY <2>5 DEF Crash
    <3> QED BY <3>1, <3>2 DEF Frames
  <2>6. CASE UNCHANGED vars
    BY <2>6 DEF vars, Active
  <2> QED BY <2>2, <2>3, <2>4, <2>5, <2>6 DEF Next
<1>2. SoloIInv => TypeInv
  BY DEF SoloIInv
<1> QED
  BY <1>1, <1>2, SoloInvariance, PTL DEF Spec, SoloDurability

-----------------------------------------------------------------------------
(* One RPC at a time, every step is one of SkuStore or none. *)

LEMMA NextStage == ASSUME NEW r PROVE Stage(r)' = StageOf(frame'[r])
BY Zenon DEF Stage, StageOf

\* The state of the store after a step, when only RPC r has changed.
LEMMA StoreAfter ==
  ASSUME TypeInv, NEW r \in Requests, OthersStand(r)
  PROVE  LET call   == [q \in Requests |-> frame[q].call]
             stage  == [q \in Requests |-> Stage(q)]
             answer == [q \in Requests |-> IF frame[q].pc = "done"
                                           THEN frame[q].outcome ELSE "none"]
             g == frame'[r]
         IN  /\ call' = [call EXCEPT ![r] = g.call]
             /\ stage' = [stage EXCEPT ![r] = StageOf(g)]
             /\ answer' = [answer EXCEPT ![r] = IF g.pc = "done" THEN g.outcome
                                                ELSE "none"]
             /\ call[r] = frame[r].call
             /\ stage[r] = StageOf(frame[r])
             /\ answer[r] = IF frame[r].pc = "done" THEN frame[r].outcome
                            ELSE "none"
<1>1. \A q \in Requests : /\ Stage(q) = StageOf(frame[q])
                          /\ Stage(q)' = StageOf(frame'[q])
  BY StageIsStageOf, NextStage
<1>2. \A q \in Requests \ {r} : frame'[q] = frame[q]
  BY DEF OthersStand
<1> QED BY <1>1, <1>2

\* A move of an RPC is a step of the store.
LEMMA MoveIsStep ==
  ASSUME TypeInv, NEW r \in Requests, OthersStand(r), Active(r),
         StoreMove(r, frame[r], db, frame'[r], db')
  PROVE  [Store!Next]_(Store!storeVars)
<1> DEFINE f == frame[r]
           g == frame'[r]
           call   == [q \in Requests |-> frame[q].call]
           stage  == [q \in Requests |-> Stage(q)]
           answer == [q \in Requests |-> IF frame[q].pc = "done"
                                         THEN frame[q].outcome ELSE "none"]
<1>1. /\ call' = [call EXCEPT ![r] = g.call]
      /\ stage' = [stage EXCEPT ![r] = StageOf(g)]
      /\ answer' = [answer EXCEPT ![r] = IF g.pc = "done" THEN g.outcome
                                         ELSE "none"]
      /\ call[r] = f.call /\ stage[r] = StageOf(f) /\ answer[r] = "none"
      /\ f.pc \notin {"idle", "done"} /\ g.call = f.call
  BY StoreAfter DEF Active, StoreMove
<1>2. call' = call /\ (g.pc # "done" => answer' = answer)
  BY <1>1
<1>3. StageOf(f) \in {"open", "performed", "doubtful"}
  BY <1>1 DEF StageOf
<1>4. CASE StageOf(g) = StageOf(f) /\ g.pc # "done" /\ db' = db
  <2>1. stage' = stage
    BY <1>1, <1>4
  <2> QED BY <1>2, <1>4, <2>1 DEF Store!storeVars
<1>5. CASE /\ StageOf(f) = "open" /\ Verdict(db, r, f.call) = "ok"
           /\ StageOf(g) = "performed" /\ db' = Effect(db, r, f.call)
  <2>1. g.pc # "done"
    BY <1>5 DEF StageOf
  <2>2. Store!Perform(r)
    BY <1>1, <1>2, <1>5, <2>1, SamePromise DEF Store!Perform
  <2> QED BY <2>2 DEF Store!Next
<1>6. CASE /\ StageOf(f) = "open" /\ Verdict(db, r, f.call) = "ok"
           /\ StageOf(g) = "doubtful" /\ db' \in {db, Effect(db, r, f.call)}
  <2>1. g.pc # "done"
    BY <1>6 DEF StageOf
  <2>2. Store!Doubt(r)
    BY <1>1, <1>2, <1>6, <2>1, SamePromise DEF Store!Doubt
  <2> QED BY <2>2 DEF Store!Next
<1>7. CASE /\ g.pc = "done" /\ db' = db
           /\ \/ g.outcome = "error"
              \/ g.outcome = "ok" /\ StageOf(f) = "performed"
              \/ /\ g.outcome = Verdict(db, r, f.call) /\ g.outcome # "ok"
                 /\ StageOf(f) = "open"
  <2>1. StageOf(g) = "answered"
    BY <1>7 DEF StageOf
  <2>2. Store!Reply(r)
    BY <1>1, <1>2, <1>3, <1>7, <2>1, SamePromise DEF Store!Reply
  <2> QED BY <2>2 DEF Store!Next
<1> QED
  BY <1>4, <1>5, <1>6, <1>7 DEF StoreMove

\* So is the arrival of an RPC.
LEMMA ArrivalIsStep ==
  ASSUME TypeInv, NEW r \in Requests, NEW c \in Calls, Start(r, c) \/ Reject(r, c)
  PROVE  Store!Next
<1> DEFINE g == frame'[r]
           call   == [q \in Requests |-> frame[q].call]
           stage  == [q \in Requests |-> Stage(q)]
           answer == [q \in Requests |-> IF frame[q].pc = "done"
                                         THEN frame[q].outcome ELSE "none"]
<1>1. frame[r] \in Frames /\ frame[r].pc = "idle" /\ OthersStand(r) /\ db' = db
  BY DEF Start, Reject, dbVars, TypeInv, Core, OthersStand
<1>2. /\ call' = [call EXCEPT ![r] = g.call]
      /\ stage' = [stage EXCEPT ![r] = StageOf(g)]
      /\ answer' = [answer EXCEPT ![r] = IF g.pc = "done" THEN g.outcome
                                         ELSE "none"]
      /\ stage[r] = "new" /\ answer[r] = "none"
  BY <1>1, StoreAfter DEF StageOf
<1>3. CASE Start(r, c)
  <2>1. g.call = c /\ g.pc \in Queries /\ g.pc # "done"
    BY <1>1, <1>3 DEF Start, FirstQuery, Queries, TypeInv, Core, Frames
  <2>2. StageOf(g) = "open"
    BY <2>1 DEF StageOf, Queries
  <2>3. answer' = answer
    BY <1>2, <2>1
  <2>4. Store!Receive(r, c)
    BY <1>1, <1>2, <2>1, <2>2, <2>3 DEF Store!Receive
  <2> QED BY <2>4, SamePromise DEF Store!Next
<1>4. CASE Reject(r, c)
  <2>1. g.call = c /\ g.pc = "done" /\ g.outcome = "invalid" /\ Incomplete(c)
    BY <1>1, <1>4 DEF Reject, TypeInv, Core, Frames
  <2>2. StageOf(g) = "answered"
    BY <2>1 DEF StageOf
  <2>3. Store!Receive(r, c)
    BY <1>1, <1>2, <2>1, <2>2, SamePromise DEF Store!Receive
  <2> QED BY <2>3, SamePromise DEF Store!Next
<1> QED BY <1>3, <1>4

LEMMA SerialSteps ==
  ASSUME SoloIInv, TypeInv', overlapped = {}, [Next]_vars
  PROVE  [Store!Next]_(Store!storeVars)
<1>1. TypeInv /\ SoloInv
  BY DEF SoloIInv
<1>2. ASSUME NEW r \in Requests, NEW c \in Workload, Start(r, c) \/ Reject(r, c)
      PROVE  Store!Next
  BY <1>1, <1>2, ArrivalIsStep, ServiceAssumption
<1>3. ASSUME NEW r \in Requests, AloneHere(r), Advances(r)
      PROVE  [Store!Next]_(Store!storeVars)
  BY <1>1, <1>3, MoveIsStep, AloneType DEF Advances, AloneHere
<1>4. ASSUME NEW r \in Requests, Resume(r)
      PROVE  [Store!Next]_(Store!storeVars)
  <2>1. r \in InFlight
    BY <1>1, <1>4, ResumeMoves DEF InFlight
  <2> QED BY <1>3, <1>4, <2>1, SoloAloneHere, AloneResumes
<1>5. ASSUME frame' = frame, db' = db
      PROVE  UNCHANGED Store!storeVars
  BY <1>5, StageIsStageOf, NextStage DEF Store!storeVars
<1>6. ASSUME NEW s \in Sessions, Exec(s) \/ Lose(s)
      PROVE  [Store!Next]_(Store!storeVars)
  <2>1. /\ queue[s] # <<>> /\ queue[s] \in Seq(Requests)
    BY <1>1, <1>6, ExecForms DEF TypeInv, Core
  <2>2. 1 \in 1..Len(queue[s]) /\ queue[s][1] \in Requests
    BY <2>1
  <2>3. PICK r \in Requests : r \in InFlight
    BY <2>2 DEF SoloIInv, QueueInv, QueueAt, Waits, InFlight
  <2> QED BY <1>3, <1>6, <2>3, SoloAloneHere, AloneExecutes
<1>7. CASE Crash
  <2>1. PICK r \in Requests : r \in InFlight
    BY <1>7 DEF Crash, InFlight
  <2>2. AloneHere(r) /\ Active(r) /\ \A q \in Requests \ {r} : ~Active(q)
    BY <2>1, SoloAloneHere, AloneType DEF AloneHere
  <2>3. OthersStand(r) /\ db' = db
    BY <1>7, <2>2 DEF Crash, OthersStand
  <2>4. frame[r] \in Frames
    BY <1>1 DEF TypeInv, Core
  <2>5. frame'[r] = [frame[r] EXCEPT !.pc = "done", !.outcome = "error"]
    BY <1>7, <2>2 DEF Crash
  <2>6. StoreMove(r, frame[r], db, frame'[r], db')
    BY <2>3, <2>4, <2>5 DEF StoreMove, Frames
  <2> QED BY <1>1, <2>2, <2>3, <2>6, MoveIsStep
<1>8. ASSUME NEW s \in Sessions, Collect(s)
      PROVE  UNCHANGED Store!storeVars
  BY <1>5, <1>8 DEF Collect, Rollback
<1>9. CASE UNCHANGED vars
  BY <1>5, <1>9 DEF vars, dbVars
<1> QED
  BY <1>2, <1>4, <1>6, <1>7, <1>8, <1>9 DEF Next

\* With maximum_concurrent_rpcs = 1 the service keeps the promise of SkuStore:
\* a request takes effect at its COMMIT or not at all, a refusal names a reason
\* that holds at that moment, and "error" is all that leaves a client in doubt.
THEOREM SerialImplementsStore ==
  ASSUME MaxRpcs = 1
  PROVE  Spec => ImplementsStore
<1>1. Init => Store!Init
  <2> SUFFICES ASSUME Init PROVE Store!Init
    OBVIOUS
  <2>1. \A r \in Requests : /\ frame[r].call = NoCall /\ frame[r].pc = "idle"
                            /\ Stage(r) = "new"
    BY StageIsStageOf DEF Init, Idle, StageOf
  <2>2. db \in InitialRows
    BY DEF Init, DbInit
  <2> QED BY <2>1, <2>2, SamePromise DEF Store!Init
<1>2. SoloIInv /\ TypeInv' /\ overlapped = {} /\ [Next]_vars
        => [Store!Next]_(Store!storeVars)
  BY SerialSteps
<1>3. SoloIInv => TypeInv
  BY DEF SoloIInv
<1> QED
  BY <1>1, <1>2, <1>3, SoloInvariance, NeverOverlapped, PTL
  DEF Spec, ImplementsStore, Store!Spec

=============================================================================
