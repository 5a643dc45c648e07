---------------------------- MODULE SkuRowsProofs ----------------------------
(***************************************************************************)
(* What becomes of the rows: two SKUs never share a code, and a deleted    *)
(* SKU never comes back, for any number of RPCs, in whatever way they      *)
(* interleave, swap each other's repository or fail.                       *)
(*                                                                         *)
(* The argument has two halves.  EveryStep shows that whatever a coroutine *)
(* does, the rows only see five kinds of effect.  RowsInv is preserved by  *)
(* each of them.                                                           *)
(***************************************************************************)
EXTENDS SkuServiceProofs

(***************************************************************************)
(* The effects of a step on the rows.                                      *)
(***************************************************************************)
RowsAlone == UNCHANGED <<db, txn>>

Abandon == db' = db /\ \E S \in SUBSET Sessions :
             txn' = [s \in Sessions |-> IF s \in S THEN Blank ELSE txn[s]]

CommitOf(s) ==
  /\ CanFlush(s)
  /\ db' = View(s)
  /\ txn' = [txn EXCEPT ![s] = Blank]

FlushOf(s) ==
  /\ CanFlush(s)
  /\ db' = db
  /\ txn' = [txn EXCEPT ![s] = Written(s)]

\* A write that has been granted the locks it needs: an update leaves the
\* code alone or finds it free, an insert finds it free.
WriteOf(s, i, row) ==
  /\ CanFlush(s) /\ Unlocked(s, i)
  /\ i \in Requests \/ View(s)[i] \in Row
  /\ \/ View(s)[i] \in Row /\ row.code = View(s)[i].code
     \/ CodeUnlocked(s, row.code) /\ ~CodeTaken(s, i, row.code)
  /\ db' = db
  /\ txn' = [txn EXCEPT ![s] = [Written(s) EXCEPT ![i] = row]]

RowsEffect ==
  \/ RowsAlone
  \/ Abandon
  \/ \E s \in Sessions : CommitOf(s) \/ FlushOf(s)
  \/ \E s \in Sessions, i \in Ids, row \in Row : WriteOf(s, i, row)

-----------------------------------------------------------------------------
(* Every step has one of these effects. *)

LEMMA DiscardAbandons ==
  ASSUME DbTypeOK, NEW s \in Sessions, NEW m, NEW pending,
         Discard(s, m, pending), db' = db
  PROVE  Abandon
<1>1. txn' = [o \in Sessions |-> IF o \in {s} THEN Blank ELSE txn[o]]
  BY DEF Discard, DbTypeOK
<1> QED BY <1>1 DEF Abandon

LEMMA LeaveHavingEffect ==
  ASSUME DbTypeOK, NEW r \in Requests, NEW ending, NEW outcome, NEW pending,
         LeaveHaving(r, ending, outcome, pending)
  PROVE  RowsEffect
<1>1. r \in Sessions
  BY DEF Sessions
<1> QED
  BY <1>1, DiscardAbandons DEF LeaveHaving, CloseAndAnswer, RowsEffect, RowsAlone

LEMMA SendEffect ==
  ASSUME DbTypeOK, NEW r \in Requests, NEW point, NEW s, Send(r, point, s)
  PROVE  RowsEffect
BY LeaveHavingEffect DEF Send, Leave, Await, RowsEffect, RowsAlone

LEMMA ResumeEffect ==
  ASSUME TypeInv, NEW r \in Requests, Resume(r)
  PROVE  RowsEffect
<1>1. DbTypeOK
  BY DEF TypeInv, Core
<1>2. ASSUME NEW ending, NEW outcome, Leave(r, ending, outcome)
      PROVE  RowsEffect
  BY <1>1, <1>2, LeaveHavingEffect DEF Leave
<1>3. ASSUME NEW point, NEW s, Send(r, point, s)
      PROVE  RowsEffect
  BY <1>1, <1>3, SendEffect
<1>4. CASE AfterGetById(r)
  BY <1>2, <1>3, <1>4 DEF AfterGetById, ApplyUpdate
<1>5. CASE AfterGetByCode(r)
  BY <1>2, <1>3, <1>5 DEF AfterGetByCode, ApplyUpdate
<1>6. CASE AfterReload(r)
  BY <1>1, <1>2, <1>3, <1>6, LeaveHavingEffect DEF AfterReload
<1>7. CASE AfterWrite(r) \/ AfterList(r) \/ AfterError(r)
  BY <1>2, <1>7 DEF AfterWrite, AfterList, AfterError
<1>8. CASE Finish(r)
  <2>1. r \in Sessions
    BY DEF Sessions
  <2> QED BY <1>1, <1>8, <2>1, DiscardAbandons
          DEF Finish, CloseAndAnswer, RowsEffect
<1> QED
  BY <1>4, <1>5, <1>6, <1>7, <1>8 DEF Resume

LEMMA ExecEffect ==
  ASSUME TypeInv, NEW s \in Sessions, Exec(s)
  PROVE  RowsEffect
<1>1. DbTypeOK
  BY DEF TypeInv, Core
<1>2. ASSUME NEW why, Fail(s, why), db' = db
      PROVE  RowsEffect
  BY <1>1, <1>2, DiscardAbandons DEF Fail, RowsEffect
<1>3. CASE ExecSelect(s)
  BY <1>3 DEF ExecSelect, Flush, RowsEffect, FlushOf
<1>4. CASE ExecInsert(s)
  <2> DEFINE f == Running(s)
             id == Head(queue[s])
             row == Created(f.call)
  <2>1. /\ queue[s] # <<>> /\ id \in Requests
        /\ f \in Frames /\ Prepared(f) /\ f.pc = "insert"
    BY <1>4, RunningType DEF ExecInsert
  <2>2. f.call \in Calls /\ f.call.op = "create" /\ ~Incomplete(f.call)
        /\ Valid(row)
    BY <2>1 DEF Prepared, Body, Writes
  <2>3. row \in Row /\ id \in Ids
    BY <2>1, <2>2, CreatedRow DEF Ids
  <2>4. CASE /\ Unlocked(s, id) /\ CodeUnlocked(s, row.code)
             /\ ~CodeTaken(s, id, row.code) /\ WriteRow(s, id, row)
    <3>1. WriteOf(s, id, row)
      BY <2>1, <2>4 DEF WriteOf, WriteRow
    <3> QED BY <2>3, <3>1 DEF RowsEffect
  <2> QED BY <1>2, <1>4, <2>4 DEF ExecInsert
<1>5. CASE ExecUpdate(s)
  <2> DEFINE f == Running(s)
             id == f.call.id
             row == UpdateResult(s, f)
  <2>1. id \in Ids
    BY <1>5, ExecUpdateCases
  <2>2. CASE /\ View(s)[id] \in Row /\ row \in Row /\ Unlocked(s, id)
             /\ row.code # View(s)[id].code =>
                  CodeUnlocked(s, row.code) /\ ~CodeTaken(s, id, row.code)
             /\ WriteRow(s, id, row)
    <3>1. WriteOf(s, id, row)
      BY <2>2 DEF WriteOf, WriteRow
    <3> QED BY <2>1, <2>2, <3>1 DEF RowsEffect
  <2> QED BY <1>2, <1>5, <2>2, ExecUpdateCases
<1>6. CASE ExecCommit(s)
  BY <1>6 DEF ExecCommit, Commit, Discard, RowsEffect, CommitOf
<1>7. CASE ExecRollback(s)
  BY <1>1, <1>7, DiscardAbandons DEF ExecRollback, Rollback, RowsEffect
<1> QED
  BY <1>3, <1>4, <1>5, <1>6, <1>7 DEF Exec

LEMMA EveryStep ==
  ASSUME TypeInv, [Next]_vars
  PROVE  RowsEffect
<1>1. DbTypeOK
  BY DEF TypeInv, Core
<1>2. ASSUME NEW r \in Requests, NEW c \in Workload, Start(r, c) \/ Reject(r, c)
      PROVE  RowsEffect
  BY <1>2 DEF Start, Reject, dbVars, RowsEffect, RowsAlone
<1>3. ASSUME NEW s \in Sessions, Lose(s)
      PROVE  RowsEffect
  <2>1. CASE UNCHANGED db
    BY <1>1, <1>3, <2>1, DiscardAbandons DEF Lose, Fail, RowsEffect
  <2>2. CASE CanFlush(s) /\ db' = View(s)
    BY <1>3, <2>2 DEF Lose, Fail, Discard, RowsEffect, CommitOf
  <2> QED BY <1>3, <2>1, <2>2 DEF Lose
<1>4. ASSUME NEW s \in Sessions, Collect(s)
      PROVE  RowsEffect
  BY <1>1, <1>4, DiscardAbandons DEF Collect, Rollback, RowsEffect
<1>5. CASE Crash
  <2>1. txn' = [s \in Sessions |-> IF s \in Sessions THEN Blank ELSE txn[s]]
    BY <1>5 DEF Crash
  <2> QED BY <1>5, <2>1 DEF Crash, RowsEffect, Abandon
<1>6. CASE UNCHANGED vars
  BY <1>6 DEF vars, dbVars, RowsEffect, RowsAlone
<1> QED
  BY <1>2, <1>3, <1>4, <1>5, <1>6, ResumeEffect, ExecEffect DEF Next

-----------------------------------------------------------------------------
(* The invariant.  UniqueIn(db) alone is not inductive: a COMMIT publishes *)
(* what its transaction has written, so the rows each transaction would    *)
(* leave must be free of clashes already, and so must the writes of any    *)
(* two open transactions be, whichever commits first.                      *)

Exclusive ==
  \A s, o \in Sessions, i \in Ids :
    s # o /\ txn[s][i] # Untouched => txn[o][i] = Untouched

EachUnique == \A s \in Sessions : UniqueIn(Overlay(db, txn[s]))

NoClash ==
  \A s, o \in Sessions, i, j \in Ids :
    s # o /\ i # j /\ txn[s][i] \in Row /\ txn[o][j] \in Row
      => txn[s][i].code # txn[o][j].code

\* Only a SKU that is there is written again.
NoRevival ==
  \A s \in Sessions, i \in Seeds : txn[s][i] \in Row => db[i] # NoRow

RowsInv == UniqueIn(db) /\ Exclusive /\ EachUnique /\ NoClash /\ NoRevival

LEMMA Distinct ==
  /\ Untouched # NoRow /\ Untouched \notin Row /\ NoRow \notin Row
  /\ \A i \in Ids : Blank[i] = Untouched
  /\ \A rows \in [Ids -> Row \cup {NoRow}] : Overlay(rows, Blank) = rows
BY DomainAssumption, DatabaseAssumption DEF Blank, Overlay

\* The pending deletes of s only take rows away from what s sees.
LEMMA ViewUnique ==
  ASSUME DbTypeOK, NEW s \in Sessions, UniqueIn(Overlay(db, txn[s]))
  PROVE  UniqueIn(View(s))
BY Distinct DEF UniqueIn, View, Written, Overlay, DbTypeOK

LEMMA InitRows == Init => RowsInv
<1> SUFFICES ASSUME Init PROVE RowsInv
  OBVIOUS
<1>1. db \in [Ids -> Row \cup {NoRow}] /\ UniqueIn(db)
  BY DEF Init, DbInit, InitialRows
<1>2. \A s \in Sessions : txn[s] = Blank
  BY DEF Init, DbInit
<1>3. \A s \in Sessions : Overlay(db, txn[s]) = db
  BY <1>1, <1>2, Distinct
<1>4. \A s \in Sessions, i \in Ids : txn[s][i] = Untouched
  BY <1>2, Distinct
<1>5. NoRevival
  BY <1>4, Distinct DEF NoRevival, Ids
<1> QED
  BY <1>1, <1>3, <1>4, <1>5, Distinct DEF RowsInv, Exclusive, EachUnique, NoClash

LEMMA AbandonRows ==
  ASSUME DbTypeOK, RowsInv, Abandon
  PROVE  RowsInv'
<1>1. \A s \in Sessions : txn'[s] \in {Blank, txn[s]}
  BY DEF Abandon
<1>2. \A s \in Sessions, i \in Ids : txn'[s][i] \in {Untouched, txn[s][i]}
  BY <1>1, Distinct
<1>3. db' = db
  BY DEF Abandon
<1>4. ASSUME NEW s \in Sessions
      PROVE  UniqueIn(Overlay(db, txn'[s]))
  <2>1. Overlay(db, txn'[s]) \in {db, Overlay(db, txn[s])}
    BY <1>1, Distinct DEF DbTypeOK
  <2> QED BY <2>1 DEF RowsInv, EachUnique
<1>5. EachUnique'
  BY <1>3, <1>4 DEF EachUnique
<1>6. UniqueIn(db)'
  BY <1>3 DEF RowsInv, UniqueIn
<1>7. Exclusive'
  BY <1>2 DEF RowsInv, Exclusive
<1>8. NoClash'
  BY <1>2, Distinct DEF RowsInv, NoClash
<1>9. NoRevival'
  BY <1>2, <1>3, Distinct DEF RowsInv, NoRevival, Ids
<1> QED
  BY <1>5, <1>6, <1>7, <1>8, <1>9 DEF RowsInv

LEMMA WriteRows ==
  ASSUME DbTypeOK, RowsInv, NEW s \in Sessions, NEW i \in Ids, NEW row \in Row,
         WriteOf(s, i, row)
  PROVE  RowsInv'
<1> DEFINE new == [Written(s) EXCEPT ![i] = row]
<1>1. /\ Written(s) \in [Ids -> Row \cup {NoRow, Untouched}]
      /\ View(s) \in [Ids -> Row \cup {NoRow}]
      /\ \A j \in Ids : Written(s)[j] = IF j \in doomed[s] THEN NoRow
                                        ELSE txn[s][j]
  BY ViewType DEF Written
<1>2. /\ db' = db
      /\ \A j \in Ids : txn'[s][j] = IF j = i THEN row ELSE Written(s)[j]
      /\ \A o \in Sessions : o # s => txn'[o] = txn[o]
      /\ txn'[s] = new
  BY <1>1 DEF WriteOf, DbTypeOK
<1>3. \A o \in Sessions, j \in Ids :
        o # s /\ txn'[s][j] # Untouched => txn[o][j] = Untouched
  BY <1>1, <1>2 DEF WriteOf, CanFlush, Unlocked, RowsInv, Exclusive
<1>4. Exclusive'
  <2> SUFFICES ASSUME NEW p \in Sessions, NEW o \in Sessions, p # o,
                      NEW j \in Ids, txn'[p][j] # Untouched
               PROVE  txn'[o][j] = Untouched
    BY DEF Exclusive
  <2>1. CASE p = s
    <3>1. txn'[o] = txn[o]
      BY <1>2, <2>1
    <3> QED BY <1>3, <2>1, <3>1
  <2>2. CASE o = s
    <3>1. txn'[p] = txn[p]
      BY <1>2, <2>2
    <3> QED BY <1>3, <2>2, <3>1
  <2>3. CASE p # s /\ o # s
    <3>1. txn'[p] = txn[p] /\ txn'[o] = txn[o]
      BY <1>2, <2>3
    <3> QED BY <3>1 DEF RowsInv, Exclusive
  <2> QED BY <2>1, <2>2, <2>3
<1>5. UniqueIn(View(s))
  BY ViewUnique DEF RowsInv, EachUnique
<1>6. UniqueIn(Overlay(db, new))
  <2>1. \A j \in Ids : Overlay(db, new)[j] = IF j = i THEN row ELSE View(s)[j]
    BY <1>1, Distinct DEF Overlay, View
  <2>2. \A j \in Ids \ {i} : View(s)[j] # NoRow => View(s)[j].code # row.code
    <3>1. CASE View(s)[i] \in Row /\ row.code = View(s)[i].code
      BY <1>5, <3>1, Distinct DEF UniqueIn
    <3>2. CASE ~CodeTaken(s, i, row.code)
      BY <3>2 DEF CodeTaken
    <3> QED BY <3>1, <3>2 DEF WriteOf
  <2> QED BY <1>5, <2>1, <2>2 DEF UniqueIn
<1>7. EachUnique'
  BY <1>2, <1>6 DEF EachUnique, RowsInv
<1>8. ASSUME NEW o \in Sessions, o # s, NEW j \in Ids, j # i, txn[o][j] \in Row
      PROVE  row.code # txn[o][j].code
  <2>1. CASE CodeUnlocked(s, row.code)
    BY <1>8, <2>1, Distinct DEF CodeUnlocked
  <2>2. CASE View(s)[i] \in Row /\ row.code = View(s)[i].code
    <3>1. CASE txn[s][i] = Untouched
      <4>1. View(s)[i] = db[i]
        BY <2>2, <3>1, Distinct DEF View, Overlay, Written
      <4>2. Overlay(db, txn[o])[i] = db[i] /\ Overlay(db, txn[o])[j] = txn[o][j]
        BY <1>8, Distinct DEF Overlay, WriteOf, Unlocked
      <4>3. UniqueIn(Overlay(db, txn[o]))
        BY DEF RowsInv, EachUnique
      <4> QED BY <1>8, <2>2, <4>1, <4>2, <4>3, Distinct DEF UniqueIn
    <3>2. CASE txn[s][i] # Untouched
      <4>1. View(s)[i] = txn[s][i]
        BY <2>2, <3>2, Distinct DEF View, Overlay, Written
      <4> QED BY <1>8, <2>2, <4>1 DEF RowsInv, NoClash
    <3> QED BY <3>1, <3>2
  <2> QED BY <2>1, <2>2 DEF WriteOf
<1>9. ASSUME NEW o \in Sessions, o # s, NEW j \in Ids, NEW k \in Ids, j # k,
             txn'[s][k] \in Row, txn[o][j] \in Row
      PROVE  txn'[s][k].code # txn[o][j].code
  <2>1. CASE k = i
    BY <1>2, <1>8, <1>9, <2>1
  <2>2. CASE k # i
    <3>1. txn'[s][k] = txn[s][k]
      BY <1>1, <1>2, <1>9, <2>2, Distinct
    <3> QED BY <1>9, <3>1 DEF RowsInv, NoClash
  <2> QED BY <2>1, <2>2
<1>10. NoClash'
  <2> SUFFICES ASSUME NEW p \in Sessions, NEW o \in Sessions, p # o,
                      NEW k \in Ids, NEW j \in Ids, k # j,
                      txn'[p][k] \in Row, txn'[o][j] \in Row
               PROVE  txn'[p][k].code # txn'[o][j].code
    BY DEF NoClash
  <2>1. CASE p = s
    <3>1. txn'[o] = txn[o] /\ txn'[p] = txn'[s]
      BY <1>2, <2>1
    <3> QED BY <1>9, <2>1, <3>1
  <2>2. CASE o = s
    <3>1. txn'[p] = txn[p] /\ txn'[o] = txn'[s]
      BY <1>2, <2>2
    <3> QED BY <1>9, <2>2, <3>1
  <2>3. CASE p # s /\ o # s
    <3>1. txn'[p] = txn[p] /\ txn'[o] = txn[o]
      BY <1>2, <2>3
    <3> QED BY <3>1 DEF RowsInv, NoClash
  <2> QED BY <2>1, <2>2, <2>3
<1>11. NoRevival'
  <2> SUFFICES ASSUME NEW o \in Sessions, NEW k \in Seeds, txn'[o][k] \in Row
               PROVE  db[k] # NoRow
    BY <1>2 DEF NoRevival
  <2>1. k \in Ids
    BY DEF Ids
  <2>2. CASE txn[o][k] \in Row
    BY <2>2 DEF RowsInv, NoRevival
  <2>3. CASE txn[o][k] \notin Row
    <3>1. o = s /\ k = i
      BY <1>1, <1>2, <2>1, <2>3, Distinct
    <3>2. View(s)[k] \in Row
      BY <3>1, DomainAssumption DEF WriteOf
    <3>3. View(s)[k] = db[k]
      BY <2>1, <2>3, <3>1, <3>2, Distinct DEF View, Overlay, Written
    <3> QED BY <3>2, <3>3, Distinct
  <2> QED BY <2>2, <2>3
<1> QED
  BY <1>2, <1>4, <1>7, <1>10, <1>11 DEF RowsInv

LEMMA FlushRows ==
  ASSUME DbTypeOK, RowsInv, NEW s \in Sessions, FlushOf(s)
  PROVE  RowsInv'
<1>1. \A j \in Ids : Written(s)[j] = IF j \in doomed[s] THEN NoRow ELSE txn[s][j]
  BY DEF Written
<1>2. /\ db' = db /\ txn'[s] = Written(s)
      /\ \A o \in Sessions : o # s => txn'[o] = txn[o]
  BY DEF FlushOf, DbTypeOK
<1>3. Exclusive'
  BY <1>1, <1>2 DEF FlushOf, CanFlush, Unlocked, RowsInv, Exclusive
<1>4. UniqueIn(Overlay(db, Written(s)))
  BY ViewUnique DEF RowsInv, EachUnique, View
<1>5. EachUnique'
  BY <1>2, <1>4 DEF EachUnique, RowsInv
<1>6. \A o \in Sessions, j \in Ids : txn'[o][j] \in Row => txn'[o][j] = txn[o][j]
  BY <1>1, <1>2, Distinct
<1>7. NoClash'
  BY <1>6 DEF RowsInv, NoClash
<1>8. NoRevival'
  BY <1>2, <1>6 DEF RowsInv, NoRevival, Ids
<1> QED
  BY <1>2, <1>3, <1>5, <1>7, <1>8 DEF RowsInv

LEMMA CommitRows ==
  ASSUME DbTypeOK, RowsInv, NEW s \in Sessions, CommitOf(s)
  PROVE  RowsInv'
<1>1. /\ View(s) \in [Ids -> Row \cup {NoRow}]
      /\ \A j \in Ids : View(s)[j] = IF Written(s)[j] = Untouched THEN db[j]
                                     ELSE Written(s)[j]
      /\ \A j \in Ids : Written(s)[j] = IF j \in doomed[s] THEN NoRow
                                        ELSE txn[s][j]
  BY ViewType DEF Written, View, Overlay
<1>2. /\ db' = View(s) /\ txn'[s] = Blank
      /\ \A o \in Sessions : o # s => txn'[o] = txn[o]
  BY DEF CommitOf, DbTypeOK
<1>3. \A o \in Sessions, j \in Ids :
        o # s /\ txn[o][j] # Untouched => View(s)[j] = db[j]
  BY <1>1 DEF CommitOf, CanFlush, Unlocked, RowsInv, Exclusive
<1>4. UniqueIn(View(s))
  BY ViewUnique DEF RowsInv, EachUnique
<1>5. ASSUME NEW o \in Sessions, o # s
      PROVE  UniqueIn(Overlay(View(s), txn[o]))
  <2> DEFINE after  == Overlay(View(s), txn[o])
             before == Overlay(db, txn[o])
  <2>1. \A j \in Ids : /\ after[j] = IF txn[o][j] = Untouched THEN View(s)[j]
                                     ELSE txn[o][j]
                       /\ before[j] = IF txn[o][j] = Untouched THEN db[j]
                                      ELSE txn[o][j]
    BY DEF Overlay
  <2>2. UniqueIn(before)
    BY DEF RowsInv, EachUnique
  <2>3. \A j \in Ids : txn[o][j] \in Row \cup {NoRow, Untouched}
    BY DEF DbTypeOK
  <2>4. ASSUME NEW i \in Ids, NEW j \in Ids, i # j,
               after[i] # NoRow, after[j] # NoRow, txn[o][i] # Untouched
        PROVE  after[i].code # after[j].code
    <3>1. txn[o][i] \in Row /\ after[i] = txn[o][i] /\ before[i] = txn[o][i]
      BY <2>1, <2>3, <2>4
    <3>2. CASE txn[o][j] # Untouched \/ View(s)[j] = db[j]
      <4>1. after[j] = before[j]
        BY <2>1, <3>2
      <4> QED BY <2>2, <2>4, <3>1, <4>1 DEF UniqueIn
    <3>3. CASE txn[o][j] = Untouched /\ View(s)[j] # db[j]
      <4>1. after[j] = Written(s)[j] /\ Written(s)[j] = txn[s][j]
            /\ txn[s][j] \in Row
        BY <1>1, <2>1, <2>4, <3>3 DEF DbTypeOK
      <4> QED BY <1>5, <2>4, <3>1, <4>1 DEF RowsInv, NoClash
    <3> QED BY <3>2, <3>3
  <2>5. ASSUME NEW i \in Ids, NEW j \in Ids, i # j,
               after[i] # NoRow, after[j] # NoRow
        PROVE  after[i].code # after[j].code
    <3>1. CASE txn[o][i] = Untouched /\ txn[o][j] = Untouched
      BY <1>4, <2>1, <2>5, <3>1 DEF UniqueIn
    <3>2. CASE txn[o][i] # Untouched \/ txn[o][j] # Untouched
      BY <2>4, <2>5, <3>2
    <3> QED BY <3>1, <3>2
  <2>6. UniqueIn(after)
    <3> HIDE DEF after
    <3> QED BY <2>5 DEF UniqueIn
  <2> QED BY <2>6
<1>6. EachUnique'
  BY <1>1, <1>2, <1>4, <1>5, Distinct DEF EachUnique
<1>7. \A o \in Sessions, j \in Ids :
        txn'[o][j] # Untouched => o # s /\ txn'[o][j] = txn[o][j]
  BY <1>2, Distinct
<1>8. Exclusive'
  BY <1>2, <1>7 DEF RowsInv, Exclusive
<1>9. NoClash'
  BY <1>7, Distinct DEF RowsInv, NoClash
<1>10. NoRevival'
  BY <1>2, <1>3, <1>7, Distinct DEF RowsInv, NoRevival, Ids
<1> QED
  BY <1>2, <1>4, <1>6, <1>8, <1>9, <1>10 DEF RowsInv

LEMMA NextRows == TypeInv /\ RowsInv /\ [Next]_vars => RowsInv'
<1> SUFFICES ASSUME TypeInv, RowsInv, [Next]_vars PROVE RowsInv'
  OBVIOUS
<1>1. DbTypeOK
  BY DEF TypeInv, Core
<1>2. CASE RowsAlone
  BY <1>2 DEF RowsAlone, RowsInv, UniqueIn, Exclusive, EachUnique, NoClash,
              NoRevival
<1> QED
  BY <1>1, <1>2, EveryStep, AbandonRows, CommitRows, FlushRows, WriteRows
  DEF RowsEffect

-----------------------------------------------------------------------------
\* Two committed SKUs never share a code, although an RPC looks the code up
\* and writes it in separate statements and may work in the transaction of
\* another RPC.
THEOREM CodesAreUnique == Spec => []UniqueCodes
<1>1. RowsInv => UniqueCodes
  BY DEF RowsInv, UniqueCodes
<1> QED
  BY InitType, NextType, InitRows, NextRows, <1>1, PTL DEF Spec

\* A deleted SKU never comes back, whatever an update or a delete read before.
THEOREM DeletedForGood == Spec => NoResurrection
<1>1. TypeInv /\ RowsInv /\ [Next]_vars
        => [\A i \in Seeds : db[i] = NoRow => db'[i] = NoRow]_vars
  <2> SUFFICES ASSUME TypeInv, RowsInv, [Next]_vars,
                      NEW i \in Seeds, db[i] = NoRow
               PROVE  db'[i] = NoRow
    OBVIOUS
  <2>1. i \in Ids
    BY DEF Ids
  <2>2. ASSUME NEW s \in Sessions, CommitOf(s)
        PROVE  db'[i] = NoRow
    <3>1. txn[s][i] \in {NoRow, Untouched}
      BY <2>1 DEF TypeInv, Core, DbTypeOK, RowsInv, NoRevival
    <3> QED BY <2>1, <2>2, <3>1 DEF CommitOf, View, Overlay, Written
  <2>3. CASE db' = db
    BY <2>3
  <2> QED BY <2>2, <2>3, EveryStep
          DEF RowsEffect, RowsAlone, Abandon, FlushOf, WriteOf
<1> QED
  BY InitType, NextType, InitRows, NextRows, <1>1, PTL DEF Spec, NoResurrection
=============================================================================
