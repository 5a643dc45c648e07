----------------------------- MODULE SkuPromise -----------------------------
(***************************************************************************)
(* What a client of the SKU service is due: the verdict on the request c   *)
(* of RPC r when the SKUs are rows, and the rows it leaves when it is "ok". *)
(***************************************************************************)
EXTENDS SkuDomain

Taken(rows, code, id) ==
  \E i \in Ids \ {id} : rows[i] # NoRow /\ rows[i].code = code

\* The reasons to refuse a request.
Missing(rows, c) ==
  c.op \in {"get", "update", "delete"} /\ rows[c.id] = NoRow

Conflicting(rows, r, c) ==
  \/ c.op = "create" /\ Taken(rows, Created(c).code, r)
  \/ /\ c.op = "update" /\ ChangesCode(c, rows[c.id])
     /\ Taken(rows, NormalizeCode(c.code), c.id)

Malformed(rows, c) ==
  \/ c.op = "create" /\ ~Valid(Created(c))
  \/ /\ c.op = "update" /\ HasUpdates(c, rows[c.id])
     /\ ~Valid(Updated(c, rows[c.id]))

\* The first reason in this order is the one that is given.
Verdict(rows, r, c) ==
  IF Incomplete(c) THEN "invalid"
  ELSE IF Missing(rows, c) THEN "notfound"
  ELSE IF Conflicting(rows, r, c) THEN "conflict"
  ELSE IF Malformed(rows, c) THEN "invalid"
  ELSE "ok"

Effect(rows, r, c) ==
  [i \in Ids |-> IF c.op = "create" /\ i = r THEN Created(c)
                 ELSE IF c.op = "update" /\ i = c.id THEN Updated(c, rows[i])
                 ELSE IF c.op = "delete" /\ i = c.id THEN NoRow
                 ELSE rows[i]]
=============================================================================
