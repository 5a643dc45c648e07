---------------------------- MODULE JwksProvider ----------------------------
(***************************************************************************)
(* zrun_core.auth.jwks and .verification: coroutines that verify tokens    *)
(* with the keys an identity provider publishes, through one JWKSProvider  *)
(* that fetches the key set under a lock and keeps it for TTL ticks.       *)
(*                                                                         *)
(* A token is the kid it names; what jose makes of its signature and its   *)
(* claims is open.  A key set is a set of kids.  The identity provider     *)
(* publishes and withdraws keys as it likes, and its answer to a request   *)
(* travels for at most Travel ticks.                                       *)
(***************************************************************************)
EXTENDS Naturals, Sequences, SequencesExt

CONSTANTS
  Calls,      \* coroutines, each in at most one verification at a time
  Kids,       \* key ids
  TTL,        \* cache_ttl_seconds
  Travel,     \* bound on the way of an answer
  KeptAlive,  \* somebody holds the provider between verifications
  Nobody

ASSUME JwksAssumption ==
  /\ Nobody \notin Calls
  /\ TTL \in Nat \ {0} /\ Travel \in Nat
  /\ KeptAlive \in BOOLEAN

VARIABLES
  published,   \* the keys the identity provider publishes
  age,         \* per kid: ticks since it was published or withdrawn
  left,        \* ticks until the entry of _cache expires, 0 when there is none
  index,       \* the kids of _key_index
  matched,     \* history: _key_index was built from the entry of _cache
  holder,      \* who holds _lock
  queue,       \* who waits for it, first come first served
  call,        \* per coroutine: its verification
  sinceFetch   \* history: ticks since the last key set was stored

vars ==
  <<published, age, left, index, matched, holder, queue, call, sinceFetch>>

-----------------------------------------------------------------------------
\* Time is counted up to the point where nothing depends on it any more.
Horizon == TTL + Travel

(* A call is over or was never made (idle), waits for _lock (waiting), has *)
(* sent its GET (fetching), or the answer is on its way (answered).        *)
Frames ==
  [pc       : {"idle", "waiting", "fetching", "answered"},
   kid      : Kids,
   response : SUBSET Kids,
   travel   : 0..Travel,
   outcome  : {"none", "accepted", "invalid", "unknown", "error", "cancelled"}]

Init ==
  /\ published \in SUBSET Kids
  /\ age = [k \in Kids |-> Horizon]
  /\ left = 0 /\ index = {} /\ matched = TRUE
  /\ holder = Nobody /\ queue = <<>>
  /\ call \in [Calls -> {f \in Frames :
       f.pc = "idle" /\ f.response = {} /\ f.travel = 0 /\ f.outcome = "none"}]
  /\ sinceFetch = TTL

Over(k, outcome) ==
  [pc |-> "idle", kid |-> k, response |-> {}, travel |-> 0, outcome |-> outcome]

\* verify_jwt_with_jwks after `await get_jwks()': the kid is looked up in the
\* index, and jose verifies the token with the key.
Judge(c, k, keys) ==
  \/ k \in keys /\ \E o \in {"accepted", "invalid"} :
       call' = [call EXCEPT ![c] = Over(k, o)]
  \/ k \notin keys /\ call' = [call EXCEPT ![c] = Over(k, "unknown")]

Goes(c, k, pc) ==
  call' = [call EXCEPT ![c] = [Over(k, "none") EXCEPT !.pc = pc]]

-----------------------------------------------------------------------------
(* get_jwks. *)

\* A call comes in: the entry is there, or the lock is free, or it is not.
Verify(c, k) ==
  /\ call[c].pc = "idle"
  /\ \/ left > 0 /\ Judge(c, k, index) /\ UNCHANGED <<holder, queue>>
     \/ /\ left = 0 /\ holder = Nobody /\ queue = <<>>
        /\ Goes(c, k, "fetching")
        /\ holder' = c /\ UNCHANGED queue
     \/ /\ left = 0 /\ (holder # Nobody \/ queue # <<>>)
        /\ Goes(c, k, "waiting")
        /\ queue' = Append(queue, c) /\ UNCHANGED holder
  /\ UNCHANGED <<published, age, left, index, matched, sinceFetch>>

\* The lock is free and c is the next in line.
InTurn(c) ==
  call[c].pc = "waiting" /\ holder = Nobody /\ queue # <<>> /\ Head(queue) = c

\* Mutant of Resume: no second look at the cache.
ResumeUnchecked(c) ==
  /\ InTurn(c)
  /\ queue' = Tail(queue)
  /\ Goes(c, call[c].kid, "fetching") /\ holder' = c
  /\ UNCHANGED <<published, age, left, index, matched, sinceFetch>>

\* The lock is c's: another coroutine may have fetched meanwhile.
Resume(c) ==
  /\ InTurn(c)
  /\ queue' = Tail(queue)
  /\ \/ left > 0 /\ Judge(c, call[c].kid, index) /\ UNCHANGED holder
     \/ left = 0 /\ Goes(c, call[c].kid, "fetching") /\ holder' = c
  /\ UNCHANGED <<published, age, left, index, matched, sinceFetch>>

\* Mutant of Store: the index is added to.
StoreMerged(keys) ==
  /\ left' = TTL /\ sinceFetch' = 0
  /\ index' = index \cup keys /\ matched' = TRUE

\* The cache entry and the index are replaced.
Store(keys) ==
  /\ left' = TTL /\ sinceFetch' = 0
  /\ index' = keys /\ matched' = TRUE

Arrive(c) ==
  /\ call[c].pc = "answered"
  /\ Store(call[c].response)
  /\ Judge(c, call[c].kid, call[c].response)
  /\ holder' = Nobody
  /\ UNCHANGED <<published, age, queue>>

\* "keys" is no list of keys: the entry is stored before the index is built, so
\* the old index stays beside the new entry.
ArriveMalformed(c) ==
  /\ call[c].pc = "answered"
  /\ left' = TTL /\ sinceFetch' = 0
  /\ matched' = FALSE
  /\ call' = [call EXCEPT ![c] = Over(call[c].kid, "error")]
  /\ holder' = Nobody
  /\ UNCHANGED <<published, age, index, queue>>

\* Mutant of FetchFails: the lock is not given back.
FetchFailsLocked(c) ==
  /\ call[c].pc \in {"fetching", "answered"}
  /\ call' = [call EXCEPT ![c] = Over(call[c].kid, "error")]
  /\ UNCHANGED <<published, age, left, index, matched, holder, queue, sinceFetch>>

\* A time-out, a network error, a bad status, an answer that is no key set.
FetchFails(c) ==
  /\ call[c].pc \in {"fetching", "answered"}
  /\ call' = [call EXCEPT ![c] = Over(call[c].kid, "error")]
  /\ holder' = Nobody
  /\ UNCHANGED <<published, age, left, index, matched, queue, sinceFetch>>

\* Mutant of Cancel: a cancelled waiter stays in the queue.
CancelInLine(c) ==
  /\ \/ call[c].pc = "waiting" /\ UNCHANGED <<holder, queue>>
     \/ /\ call[c].pc \in {"fetching", "answered"}
        /\ holder' = Nobody /\ UNCHANGED queue
  /\ call' = [call EXCEPT ![c] = Over(call[c].kid, "cancelled")]
  /\ UNCHANGED <<published, age, left, index, matched, sinceFetch>>

\* The task is cancelled where it waits; `async with' gives the lock back.
Cancel(c) ==
  /\ \/ /\ call[c].pc = "waiting"
        /\ \E i \in 1..Len(queue) : queue[i] = c /\ queue' = RemoveAt(queue, i)
        /\ UNCHANGED holder
     \/ /\ call[c].pc \in {"fetching", "answered"}
        /\ holder' = Nobody /\ UNCHANGED queue
  /\ call' = [call EXCEPT ![c] = Over(call[c].kid, "cancelled")]
  /\ UNCHANGED <<published, age, left, index, matched, sinceFetch>>

-----------------------------------------------------------------------------
(* The identity provider, time, and the life of the provider object.       *)

\* The identity provider answers with what it publishes now.
Serve(c) ==
  /\ call[c].pc = "fetching"
  /\ call' = [call EXCEPT ![c].pc = "answered", ![c].response = published,
                          ![c].travel = Travel]
  /\ UNCHANGED <<published, age, left, index, matched, holder, queue, sinceFetch>>

Rotate(k) ==
  /\ \/ k \in published /\ published' = published \ {k}
     \/ k \notin published /\ published' = published \cup {k}
  /\ age' = [age EXCEPT ![k] = 0]
  /\ UNCHANGED <<left, index, matched, holder, queue, call, sinceFetch>>

\* Mutant of Pass: a cache without a time to live.
PassForever ==
  /\ age' = [k \in Kids |-> IF age[k] < Horizon THEN age[k] + 1 ELSE Horizon]
  /\ sinceFetch' = IF sinceFetch < TTL THEN sinceFetch + 1 ELSE TTL
  /\ UNCHANGED <<published, left, index, matched>>

\* TTLCache lets the entry expire.
Pass ==
  /\ left' = IF left > 0 THEN left - 1 ELSE 0
  /\ age' = [k \in Kids |-> IF age[k] < Horizon THEN age[k] + 1 ELSE Horizon]
  /\ sinceFetch' = IF sinceFetch < TTL THEN sinceFetch + 1 ELSE TTL
  /\ UNCHANGED <<published, index, matched>>

Tick ==
  /\ \A c \in Calls : call[c].pc = "answered" => call[c].travel > 0
  /\ Pass
  /\ call' = [c \in Calls |-> IF call[c].pc = "answered"
                              THEN [call[c] EXCEPT !.travel = @ - 1] ELSE call[c]]
  /\ UNCHANGED <<holder, queue>>

\* The entry expires between `in' and `[]': KeyError, which
\* verify_jwt_with_jwks turns into an error of its own.
ExpiresUnder(c, k) ==
  /\ left = 1
  /\ Pass
  /\ \/ call[c].pc = "idle" /\ UNCHANGED queue
     \/ InTurn(c) /\ k = call[c].kid /\ queue' = Tail(queue)
  /\ call' = [call EXCEPT ![c] = Over(k, "error")]
  /\ UNCHANGED holder

\* _jwks_providers of zrun_bff.auth.casdoor holds the provider weakly: it may
\* go with its cache whenever no verification is under way.
Collect ==
  /\ ~KeptAlive
  /\ \A c \in Calls : call[c].pc = "idle"
  /\ left' = 0 /\ index' = {} /\ matched' = TRUE
  /\ UNCHANGED <<published, age, holder, queue, call, sinceFetch>>

-----------------------------------------------------------------------------
Next ==
  \/ \E c \in Calls, k \in Kids : Verify(c, k) \/ ExpiresUnder(c, k)
  \/ \E c \in Calls :
       \/ Resume(c) \/ Serve(c) \/ Arrive(c) \/ ArriveMalformed(c)
       \/ FetchFails(c) \/ Cancel(c)
  \/ \E k \in Kids : Rotate(k)
  \/ Tick
  \/ Collect

Spec == Init /\ [][Next]_vars

\* The event loop resumes whom it has woken, and httpx ends every request: the
\* answer comes or the timeout does.
FairSpec ==
  /\ Spec
  /\ \A c \in Calls :
       /\ WF_vars(Resume(c))
       /\ WF_vars(Arrive(c) \/ ArriveMalformed(c) \/ FetchFails(c))

-----------------------------------------------------------------------------
(* Properties. *)

\* Every variable holds a value of its type.
TypeOK ==
  /\ published \in SUBSET Kids
  /\ age \in [Kids -> 0..Horizon]
  /\ left \in 0..TTL
  /\ index \in SUBSET Kids /\ matched \in BOOLEAN
  /\ holder \in Calls \cup {Nobody}
  /\ queue \in Seq(Calls)
  /\ call \in [Calls -> Frames]
  /\ sinceFetch \in 0..TTL

Fetching(c) == call[c].pc \in {"fetching", "answered"}

\* The double-checked lock of get_jwks: however many calls miss the cache at
\* once, one of them fetches, and none does while an entry is there.
OneFetch ==
  /\ \A c, d \in Calls : Fetching(c) /\ Fetching(d) => c = d
  /\ (\E c \in Calls : Fetching(c)) => left = 0

\* The lock is held by a call that fetches, or by none, and whoever waits for it
\* is in its queue, once: however calls fail, are cancelled in the queue or find
\* the entry when it is their turn, nobody is left behind.
WaitersAreInLine ==
  /\ holder # Nobody => Fetching(holder)
  /\ Range(queue) = {c \in Calls : call[c].pc = "waiting"}
  /\ IsInjective(queue)

\* As long as the identity provider answers with lists of keys: a token passes
\* only with a key that is published, or was until less than one TTL and the
\* way of an answer ago, although _key_index never expires.
AcceptedKeyIsRecent ==
  [][\A c \in Calls :
       matched' /\ call[c].outcome # "accepted" /\ call'[c].outcome = "accepted" =>
         LET k == call'[c].kid IN k \in published \/ age[k] < Horizon]_vars

\* Likewise, "Key not found in JWKS" is said of a key only if it is not
\* published, or was not less than one TTL and the way of an answer ago:
\* nothing fetches on an unknown kid, but nothing keeps an old key set either.
UnknownKeyIsNew ==
  [][\A c \in Calls :
       matched' /\ call[c].outcome # "unknown" /\ call'[c].outcome = "unknown" =>
         LET k == call'[c].kid IN k \notin published \/ age[k] < Horizon]_vars

(* The spans within which a key was published or withdrawn, the key set    *)
(* that is served, with what is left of its time, and the one on its way.  *)
(* An index that does not come from the entry is no key set.               *)
Recent == {n \in 1..Horizon : \E k \in Kids : age[k] < n}

Served == IF left > 0 /\ matched THEN {[keys |-> index, left |-> left]} ELSE {}

OnItsWay ==
  {[keys |-> call[c].response, left |-> call[c].travel] :
     c \in {d \in Calls : call[d].pc = "answered"}}

KeySet ==
  INSTANCE KeySetCache WITH KeySets <- SUBSET Kids,
                            source <- published, recent <- Recent,
                            cached <- Served, coming <- OnItsWay

\* However many calls meet in get_jwks, are cancelled or fail there, whatever is
\* published meanwhile and whenever the entry expires: together they are a cache
\* of one key set, which is replaced as a whole and dropped in time.
ImplementsKeySetCache == KeySet!Spec

\* "TTL-based caching to reduce network calls": between two key sets that are
\* fetched lies the TTL.
FetchedOncePerTTL == [][left' > left => sinceFetch = TTL]_vars

\* Every verification ends, however many fetches fail and whoever is cancelled
\* while others wait for the lock.
EveryCallAnswered ==
  \A c \in Calls : call[c].pc # "idle" ~> call[c].pc = "idle"
=============================================================================
