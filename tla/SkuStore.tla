------------------------------ MODULE SkuStore ------------------------------
(***************************************************************************)
(* What the SKU service promises its clients: every request takes effect   *)
(* at one moment, on the rows as they are at that moment, and its answer   *)
(* tells the truth.  "ok" means that it took effect, a refusal names a     *)
(* reason that holds and means that it did not, and "error" leaves the     *)
(* client in doubt.                                                        *)
(***************************************************************************)
EXTENDS SkuPromise

VARIABLES
  rows,    \* the SKUs
  call,    \* the request of every RPC
  stage,   \* "new", "open", "performed", "doubtful" or "answered"
  answer

storeVars == <<rows, call, stage, answer>>

Init ==
  /\ rows \in InitialRows
  /\ call = [r \in Requests |-> NoCall]
  /\ stage = [r \in Requests |-> "new"]
  /\ answer = [r \in Requests |-> "none"]

Receive(r, c) ==
  /\ stage[r] = "new"
  /\ call' = [call EXCEPT ![r] = c]
  /\ \/ stage' = [stage EXCEPT ![r] = "open"] /\ UNCHANGED answer
     \/ /\ Incomplete(c)
        /\ stage' = [stage EXCEPT ![r] = "answered"]
        /\ answer' = [answer EXCEPT ![r] = "invalid"]
  /\ UNCHANGED rows

Perform(r) ==
  /\ stage[r] = "open" /\ Verdict(rows, r, call[r]) = "ok"
  /\ rows' = Effect(rows, r, call[r])
  /\ stage' = [stage EXCEPT ![r] = "performed"]
  /\ UNCHANGED <<call, answer>>

\* The request fails at the very moment it takes effect, or does not.
Doubt(r) ==
  /\ stage[r] = "open" /\ Verdict(rows, r, call[r]) = "ok"
  /\ rows' \in {rows, Effect(rows, r, call[r])}
  /\ stage' = [stage EXCEPT ![r] = "doubtful"]
  /\ UNCHANGED <<call, answer>>

Reply(r) ==
  /\ \/ /\ stage[r] \in {"open", "performed", "doubtful"}
        /\ answer' = [answer EXCEPT ![r] = "error"]
     \/ /\ stage[r] = "performed"
        /\ answer' = [answer EXCEPT ![r] = "ok"]
     \/ /\ stage[r] = "open" /\ Verdict(rows, r, call[r]) # "ok"
        /\ answer' = [answer EXCEPT ![r] = Verdict(rows, r, call[r])]
  /\ stage' = [stage EXCEPT ![r] = "answered"]
  /\ UNCHANGED <<rows, call>>

Next ==
  \E r \in Requests :
    \/ \E c \in Calls : Receive(r, c)
    \/ Perform(r) \/ Doubt(r) \/ Reply(r)

Spec == Init /\ [][Next]_storeVars
=============================================================================
