---------------------------- MODULE SkuDatabase ----------------------------
(***************************************************************************)
(* The database as zrun-base uses it: the skus table (one unique column,   *)
(* code), and one SQLAlchemy session per owner with the transaction the    *)
(* session has open on PostgreSQL at its default level, READ COMMITTED.    *)
(*                                                                         *)
(* A session is named after its owner: the RPC that opened it in           *)
(* SkuServicer._with_repo, or Startup for the one main() opens.            *)
(***************************************************************************)
EXTENDS SkuDomain, Sequences

CONSTANTS
  Startup,    \* owner of the session opened in main()
  Untouched,  \* this transaction has not written that row
  None        \* no id

ASSUME DatabaseAssumption ==
  /\ Startup \notin Requests
  /\ Untouched \notin Row \cup {NoRow}
  /\ None \notin Ids

Sessions == Requests \cup {Startup}

VARIABLES
  db,      \* the committed row of every id
  txn,     \* per session: the rows its open transaction has written
  doomed,  \* per session: ids passed to session.delete and not yet flushed
  sess     \* per session: "closed", "begun" (inside session.begin()),
           \* "autobegun" (begun by a statement, so nobody ends it) or
           \* "failed" (rolled back by an error, until its owner leaves)

dbVars == <<db, txn, doomed, sess>>

Blank == [i \in Ids |-> Untouched]

DbTypeOK ==
  /\ db     \in [Ids -> Row \cup {NoRow}]
  /\ txn    \in [Sessions -> [Ids -> Row \cup {NoRow, Untouched}]]
  /\ doomed \in [Sessions -> SUBSET Ids]
  /\ sess   \in [Sessions -> {"closed", "begun", "autobegun", "failed"}]

DbInit ==
  /\ db \in InitialRows
  /\ txn    = [s \in Sessions |-> Blank]
  /\ doomed = [s \in Sessions |-> {}]
  /\ sess   = [s \in Sessions |-> "closed"]

(***************************************************************************)
(* What a statement of session s works on.  Every statement but ROLLBACK   *)
(* first flushes the session's pending deletes.                            *)
(***************************************************************************)
Written(s) == [i \in Ids |-> IF i \in doomed[s] THEN NoRow ELSE txn[s][i]]

Overlay(rows, writes) ==
  [i \in Ids |-> IF writes[i] = Untouched THEN rows[i] ELSE writes[i]]

View(s) == Overlay(db, Written(s))

\* A row written by an open transaction stays locked until that transaction
\* ends; a DELETE or UPDATE of it by another session waits.
Unlocked(s, i) == \A o \in Sessions \ {s} : txn[o][i] = Untouched

CanFlush(s) == \A i \in doomed[s] : Unlocked(s, i)

\* The unique index makes a writer of code c wait for every other open
\* transaction that has added, changed or removed a row with that code.
CodeUnlocked(s, c) ==
  \A o \in Sessions \ {s}, i \in Ids :
    txn[o][i] # Untouched =>
      \A row \in {db[i], txn[o][i]} \ {NoRow} : row.code # c

\* Mutant of CodeTaken: the column is not declared unique.
NeverTaken(s, i, c) == FALSE

CodeTaken(s, i, c) ==
  \E j \in Ids \ {i} : View(s)[j] # NoRow /\ View(s)[j].code = c

(***************************************************************************)
(* Statements.                                                             *)
(***************************************************************************)
Flush(s) ==
  /\ CanFlush(s)
  /\ txn' = [txn EXCEPT ![s] = Written(s)]
  /\ doomed' = [doomed EXCEPT ![s] = {}]
  /\ UNCHANGED <<db, sess>>

WriteRow(s, i, row) ==
  /\ CanFlush(s)
  /\ txn' = [txn EXCEPT ![s] = [Written(s) EXCEPT ![i] = row]]
  /\ doomed' = [doomed EXCEPT ![s] = {}]
  /\ UNCHANGED <<db, sess>>

\* The transaction of s is over and s is left in mode m; pending is what had
\* been passed to delete in every session.
Discard(s, m, pending) ==
  /\ txn' = [txn EXCEPT ![s] = Blank]
  /\ doomed' = [pending EXCEPT ![s] = {}]
  /\ sess' = [sess EXCEPT ![s] = m]

Rollback(s, m) == Discard(s, m, doomed) /\ UNCHANGED db

\* Mutant of Commit: pending deletes are not flushed.
CommitUnflushed(s, m) ==
  /\ CanFlush(s)
  /\ db' = Overlay(db, txn[s])
  /\ Discard(s, m, doomed)

Commit(s, m) ==
  /\ CanFlush(s)
  /\ db' = View(s)
  /\ Discard(s, m, doomed)
=============================================================================
