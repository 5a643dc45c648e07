------------------------------ MODULE SkuDomain ------------------------------
(***************************************************************************)
(* SKUs, the requests about them, and the pure part of SkuLogic: what the  *)
(* logic makes of a request's fields and when it refuses them.             *)
(*                                                                         *)
(* A code arrives raw and is normalised; a name is kept as it is stripped. *)
(* Timestamps are left out: nothing depends on them but the order of a     *)
(* listing.                                                                *)
(***************************************************************************)
EXTENDS Naturals, FiniteSets

CONSTANTS
  Requests,    \* the RPCs; uuid4 gives the SKU created by r the id r
  Seeds,       \* ids of SKUs that may exist when the service starts
  RawCodes,    \* non-empty codes as they arrive in a request
  Normalized,  \* what strip().upper() makes of each of them
  Codes,       \* normalised codes that satisfy _SKU_CODE_PATTERN
  BadCode,     \* stands for every normalised code that does not
  Names,       \* names that satisfy SkuDomain.validate
  BadName,     \* stands for every name that does not
  Absent,      \* an empty field of a request
  NoCall,      \* the RPC has not arrived
  NoRow        \* no such SKU

Ids == Requests \cup Seeds
Row == [code : Codes, name : Names]

ASSUME DomainAssumption ==
  /\ IsFiniteSet(Requests)
  /\ Requests \cap Seeds = {}
  /\ Normalized \in [RawCodes -> Codes \cup {BadCode}]
  /\ BadCode \notin Codes
  /\ BadName \notin Names
  /\ Absent \notin RawCodes \cup Names \cup {BadName} \cup Ids
  /\ NoRow \notin Row

-----------------------------------------------------------------------------
RawName == Names \cup {BadName, Absent}

Calls ==
  [op : {"create"}, code : RawCodes \cup {Absent}, name : RawName]
    \cup [op : {"get", "delete"}, id : Ids \cup {Absent}]
    \cup [op : {"update"}, id : Ids \cup {Absent},
          code : RawCodes \cup {Absent}, name : RawName]
    \cup [op : {"list"}]

ASSUME NoCallAssumption == NoCall \notin Calls

NormalizeCode(raw) == Normalized[raw]

\* Refused by _validate_non_empty_string before the first query.
Incomplete(c) ==
  \/ c.op = "create" /\ (c.code = Absent \/ c.name = Absent)
  \/ c.op \in {"get", "update", "delete"} /\ c.id = Absent

Valid(row) == row.code # BadCode /\ row.name # BadName

Created(c) == [code |-> NormalizeCode(c.code), name |-> c.name]

ChangesCode(c, row) == c.code # Absent /\ NormalizeCode(c.code) # row.code

HasUpdates(c, row) == ChangesCode(c, row) \/ c.name # Absent

\* Mutant of Updated: the code is stored as it arrived.
UpdatedRaw(c, row) ==
  [code |-> IF c.code = Absent THEN row.code ELSE c.code,
   name |-> IF c.name = Absent THEN row.name ELSE c.name]

Updated(c, row) ==
  [code |-> IF c.code = Absent THEN row.code ELSE NormalizeCode(c.code),
   name |-> IF c.name = Absent THEN row.name ELSE c.name]

\* The unique constraint on SkuModel.code.
UniqueIn(rows) ==
  \A i, j \in Ids :
    i # j /\ rows[i] # NoRow /\ rows[j] # NoRow => rows[i].code # rows[j].code

\* What the skus table may hold before any of the requests has arrived.
InitialRows ==
  {rows \in [Ids -> Row \cup {NoRow}] :
     UniqueIn(rows) /\ \A r \in Requests : rows[r] = NoRow}
=============================================================================
