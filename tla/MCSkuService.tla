---------------------------- MODULE MCSkuService ----------------------------
(***************************************************************************)
(* Instances of SkuService for TLC.                                        *)
(***************************************************************************)
EXTENDS SkuService, TLC

CONSTANTS r1, s1, low, second, bad, A, B, n1, n2

\* low and A are the same code once normalised, second is another one and bad
\* is none.
MCRawCodes == {low, second, bad}
MCNormalized == low :> A @@ second :> B @@ bad :> BadCode

\* Every kind of request, naming the SKU that is there from the start or the
\* one that r1 may create.
EveryKind ==
  [op : {"create"}, code : MCRawCodes, name : {n1}]
    \cup [op : {"create"}, code : {low}, name : {Absent, BadName}]
    \cup [op : {"get", "delete"}, id : {r1, s1}]
    \cup [op : {"update"}, id : {r1, s1}, code : {second, Absent},
          name : {n2, Absent, BadName}]
    \cup [op : {"update"}, id : {s1, Absent}, code : {low, bad}, name : {n2}]
    \cup [op : {"list"}]

\* The requests that compete for one code or for one SKU.
CodeWriters ==
  [op : {"create"}, code : {low}, name : {n1}]
    \cup [op : {"delete"}, id : {s1}]
    \cup [op : {"update"}, id : {s1}, code : {low}, name : {Absent}]

Writers ==
  CodeWriters \cup [op : {"update"}, id : {s1}, code : {Absent}, name : {n2}]

Interchangeable == Permutations(Requests)
=============================================================================
