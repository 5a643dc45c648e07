----------------------------- MODULE JwksProofs -----------------------------
(***************************************************************************)
(* Theorems about JwksProvider, for any number of calls and keys and any   *)
(* times.                                                                  *)
(***************************************************************************)
EXTENDS JwksProvider, SequenceTheorems, TLAPS

-----------------------------------------------------------------------------
(* Types. *)

LEMMA Times ==
  /\ Horizon \in Nat /\ 0 \in 0..Horizon /\ Horizon \in 0..Horizon
  /\ 0 \in 0..TTL /\ TTL \in 0..TTL
  /\ 0 \in 0..Travel /\ Travel \in 0..Travel
BY JwksAssumption DEF Horizon

LEMMA OverType ==
  ASSUME NEW k \in Kids,
         NEW o \in {"none", "accepted", "invalid", "unknown", "error", "cancelled"}
  PROVE  Over(k, o) \in Frames
BY Times DEF Over, Frames

\* What Judge and Goes make of a call.
LEMMA JudgeType ==
  ASSUME TypeOK, NEW c \in Calls, NEW k \in Kids, NEW keys, Judge(c, k, keys)
  PROVE  call' \in [Calls -> Frames]
<1>1. PICK o \in {"accepted", "invalid", "unknown"} :
        call' = [call EXCEPT ![c] = Over(k, o)]
  BY DEF Judge
<1>2. Over(k, o) \in Frames
  BY OverType
<1> QED BY <1>1, <1>2 DEF TypeOK

LEMMA GoesType ==
  ASSUME TypeOK, NEW c \in Calls, NEW k \in Kids,
         NEW pc \in {"waiting", "fetching"}, Goes(c, k, pc)
  PROVE  call' \in [Calls -> Frames]
<1>1. [Over(k, "none") EXCEPT !.pc = pc] \in Frames
  BY Times DEF Over, Frames
<1> QED BY <1>1 DEF TypeOK, Goes

LEMMA KidType ==
  ASSUME TypeOK, NEW c \in Calls
  PROVE  call[c] \in Frames /\ call[c].kid \in Kids /\ call[c].response \in SUBSET Kids
BY DEF TypeOK, Frames

LEMMA PassType ==
  ASSUME TypeOK, Pass
  PROVE  /\ published' \in SUBSET Kids /\ age' \in [Kids -> 0..Horizon]
         /\ left' \in 0..TTL /\ index' \in SUBSET Kids /\ matched' \in BOOLEAN
         /\ sinceFetch' \in 0..TTL
BY Times, JwksAssumption DEF Pass, TypeOK

LEMMA VerifyType ==
  ASSUME TypeOK, NEW c \in Calls, NEW k \in Kids, Verify(c, k)
  PROVE  TypeOK'
<1>1. call' \in [Calls -> Frames]
  BY JudgeType, GoesType DEF Verify
<1>2. /\ holder' = holder \/ holder' = c
      /\ queue' = queue \/ queue' = Append(queue, c)
  BY DEF Verify
<1>3. holder' \in Calls \cup {Nobody} /\ queue' \in Seq(Calls)
  BY <1>2 DEF TypeOK
<1> QED BY <1>1, <1>3 DEF Verify, TypeOK

LEMMA ResumeType ==
  ASSUME TypeOK, NEW c \in Calls, Resume(c)
  PROVE  TypeOK'
<1>1. call' \in [Calls -> Frames]
  BY JudgeType, GoesType, KidType DEF Resume
<1>2. holder' \in Calls \cup {Nobody} /\ queue' \in Seq(Calls)
  BY DEF Resume, InTurn, TypeOK
<1> QED BY <1>1, <1>2 DEF Resume, TypeOK

LEMMA ArriveType ==
  ASSUME TypeOK, NEW c \in Calls, Arrive(c) \/ ArriveMalformed(c)
  PROVE  TypeOK'
<1>1. CASE Arrive(c)
  <2>1. call' \in [Calls -> Frames]
    BY <1>1, JudgeType, KidType DEF Arrive
  <2> QED BY <1>1, <2>1, Times, KidType DEF Arrive, Store, TypeOK
<1>2. CASE ArriveMalformed(c)
  <2>1. Over(call[c].kid, "error") \in Frames
    BY OverType, KidType
  <2> QED BY <1>2, <2>1, Times DEF ArriveMalformed, TypeOK
<1> QED BY <1>1, <1>2

LEMMA EndType ==
  ASSUME TypeOK, NEW c \in Calls, FetchFails(c) \/ Cancel(c)
  PROVE  TypeOK'
<1>1. /\ Over(call[c].kid, "error") \in Frames
      /\ Over(call[c].kid, "cancelled") \in Frames
  BY OverType, KidType
<1>2. CASE FetchFails(c)
  BY <1>1, <1>2 DEF FetchFails, TypeOK
<1>3. CASE Cancel(c)
  <2>1. ASSUME NEW i \in 1..Len(queue), queue' = RemoveAt(queue, i)
        PROVE  queue' \in Seq(Calls)
    <3>1. queue \in Seq(Calls) /\ Len(queue) \in Nat
      BY DEF TypeOK
    <3>2. SubSeq(queue, 1, i - 1) \in Seq(Calls)
      BY <3>1
    <3>3. SubSeq(queue, i + 1, Len(queue)) \in Seq(Calls)
      BY <3>1
    <3> QED BY <2>1, <3>2, <3>3 DEF RemoveAt
  <2>2. queue' \in Seq(Calls)
    BY <1>3, <2>1 DEF Cancel, TypeOK
  <2>3. holder' \in Calls \cup {Nobody}
    BY <1>3 DEF Cancel, TypeOK
  <2> QED BY <1>1, <1>3, <2>2, <2>3 DEF Cancel, TypeOK
<1> QED BY <1>2, <1>3

LEMMA ServeType ==
  ASSUME TypeOK, NEW c \in Calls, Serve(c)
  PROVE  TypeOK'
<1>1. [call[c] EXCEPT !.pc = "answered", !.response = published,
                      !.travel = Travel] \in Frames
  BY Times, KidType DEF Frames, TypeOK
<1>2. call' = [call EXCEPT ![c] = [call[c] EXCEPT !.pc = "answered",
                 !.response = published, !.travel = Travel]]
  BY DEF Serve, TypeOK
<1> QED BY <1>1, <1>2 DEF Serve, TypeOK

LEMMA TimeType ==
  ASSUME TypeOK, Tick \/ \E c \in Calls, k \in Kids : ExpiresUnder(c, k)
  PROVE  TypeOK'
<1>1. CASE Tick
  <2>1. ASSUME NEW c \in Calls, call[c].pc = "answered"
        PROVE  [call[c] EXCEPT !.travel = @ - 1] \in Frames
    <3>1. call[c].travel \in 1..Travel
      BY <1>1, <2>1, KidType DEF Tick, Frames
    <3>2. call[c].travel - 1 \in 0..Travel
      BY <3>1, JwksAssumption
    <3> QED BY <3>2, KidType DEF Frames
  <2>2. call' \in [Calls -> Frames]
    BY <1>1, <2>1, KidType DEF Tick
  <2> QED BY <1>1, <2>2, PassType DEF Tick, TypeOK
<1>2. ASSUME NEW c \in Calls, NEW k \in Kids, ExpiresUnder(c, k)
      PROVE  TypeOK'
  <2>1. Over(k, "error") \in Frames
    BY OverType
  <2>2. call' \in [Calls -> Frames]
    BY <1>2, <2>1 DEF ExpiresUnder, TypeOK
  <2>3. queue' \in Seq(Calls)
    <3>1. queue' = queue \/ (queue # <<>> /\ queue' = Tail(queue))
      BY <1>2 DEF ExpiresUnder, InTurn
    <3>2. queue \in Seq(Calls)
      BY DEF TypeOK
    <3>3. CASE queue' = queue
      BY <3>2, <3>3
    <3>4. CASE queue # <<>> /\ queue' = Tail(queue)
      BY <3>2, <3>4
    <3> QED BY <3>1, <3>3, <3>4
  <2> QED BY <1>2, <2>2, <2>3, PassType DEF ExpiresUnder, TypeOK
<1> QED BY <1>1, <1>2

LEMMA TypeStep == TypeOK /\ [Next]_vars => TypeOK'
<1> SUFFICES ASSUME TypeOK, [Next]_vars PROVE TypeOK'
  OBVIOUS
<1>1. ASSUME NEW c \in Calls, NEW k \in Kids, Verify(c, k) PROVE TypeOK'
  BY <1>1, VerifyType
<1>2. ASSUME NEW c \in Calls, Resume(c) PROVE TypeOK'
  BY <1>2, ResumeType
<1>3. ASSUME NEW c \in Calls, Serve(c) PROVE TypeOK'
  BY <1>3, ServeType
<1>4. ASSUME NEW c \in Calls, Arrive(c) \/ ArriveMalformed(c) PROVE TypeOK'
  BY <1>4, ArriveType
<1>5. ASSUME NEW c \in Calls, FetchFails(c) \/ Cancel(c) PROVE TypeOK'
  BY <1>5, EndType
<1>6. ASSUME NEW k \in Kids, Rotate(k) PROVE TypeOK'
  BY <1>6, Times DEF Rotate, TypeOK
<1>7. CASE Tick \/ \E c \in Calls, k \in Kids : ExpiresUnder(c, k)
  BY <1>7, TimeType
<1>8. CASE Collect
  BY <1>8, Times DEF Collect, TypeOK
<1>9. CASE UNCHANGED vars
  BY <1>9 DEF vars, TypeOK
<1> QED BY <1>1, <1>2, <1>3, <1>4, <1>5, <1>6, <1>7, <1>8, <1>9 DEF Next

LEMMA InitType == Init => TypeOK
BY Times DEF Init, TypeOK

\* Every variable holds a value of its type.
THEOREM TypeCorrectness == Spec => []TypeOK
BY InitType, TypeStep, PTL DEF Spec

-----------------------------------------------------------------------------
(* The lock: who fetches holds it, and nothing is cached meanwhile.        *)

LockInv == \A c \in Calls : Fetching(c) => holder = c /\ left = 0

\* What Judge and Goes make of who fetches.
LEMMA JudgeEnds ==
  ASSUME TypeOK, NEW c \in Calls, NEW k \in Kids, NEW keys, Judge(c, k, keys)
  PROVE  /\ ~Fetching(c)'
         /\ \A d \in Calls : d # c => call'[d] = call[d]
BY DEF Judge, Over, Fetching, TypeOK

LEMMA GoesOn ==
  ASSUME TypeOK, NEW c \in Calls, NEW k \in Kids,
         NEW pc \in {"waiting", "fetching"}, Goes(c, k, pc)
  PROVE  /\ call'[c].pc = pc /\ call'[c].outcome = "none"
         /\ \A d \in Calls : d # c => call'[d] = call[d]
BY DEF Goes, Over, TypeOK

\* The ends that say nothing of a key.
LEMMA QuietEnd ==
  ASSUME TypeOK, NEW c \in Calls, NEW k \in Kids,
         ArriveMalformed(c) \/ FetchFails(c) \/ Cancel(c) \/ ExpiresUnder(c, k)
  PROVE  \E q \in Kids, o \in {"error", "cancelled"} :
           call' = [call EXCEPT ![c] = Over(q, o)]
<1>1. call[c].kid \in Kids
  BY KidType
<1>2. CASE ArriveMalformed(c)
  BY <1>1, <1>2 DEF ArriveMalformed
<1>3. CASE FetchFails(c)
  BY <1>1, <1>3 DEF FetchFails
<1>4. CASE Cancel(c)
  BY <1>1, <1>4 DEF Cancel
<1>5. CASE ExpiresUnder(c, k)
  BY <1>5 DEF ExpiresUnder
<1> QED BY <1>2, <1>3, <1>4, <1>5

\* A call leaves get_jwks: the others stay as they are.
LEMMA EndsOne ==
  ASSUME TypeOK, NEW c \in Calls, NEW k, NEW o, call' = [call EXCEPT ![c] = Over(k, o)]
  PROVE  /\ ~Fetching(c)' /\ call'[c].outcome = o
         /\ \A d \in Calls : d # c => call'[d] = call[d]
BY DEF Over, Fetching, TypeOK

LEMMA LockStep == TypeOK /\ LockInv /\ [Next]_vars => LockInv'
<1> SUFFICES ASSUME TypeOK, LockInv, [Next]_vars, NEW d \in Calls, Fetching(d)'
             PROVE  holder' = d /\ left' = 0
  BY DEF LockInv
<1> USE JwksAssumption
<1>1. ASSUME NEW c \in Calls, NEW k \in Kids, Verify(c, k)
      PROVE  holder' = d /\ left' = 0
  <2>1. CASE d = c
    BY <1>1, <2>1, JudgeEnds, GoesOn DEF Verify, Fetching
  <2>2. CASE d # c
    <3>1. call'[d] = call[d]
      BY <1>1, <2>2, JudgeEnds, GoesOn DEF Verify
    <3>2. holder = d /\ left = 0
      BY <3>1 DEF LockInv, Fetching
    <3> QED BY <1>1, <3>2 DEF Verify
  <2> QED BY <2>1, <2>2
<1>2. ASSUME NEW c \in Calls, Resume(c)
      PROVE  holder' = d /\ left' = 0
  <2>1. CASE d = c
    BY <1>2, <2>1, JudgeEnds, GoesOn, KidType DEF Resume, Fetching
  <2>2. CASE d # c
    <3>1. call'[d] = call[d]
      BY <1>2, <2>2, JudgeEnds, GoesOn, KidType DEF Resume
    <3> QED BY <1>2, <3>1 DEF LockInv, Fetching, Resume, InTurn
  <2> QED BY <2>1, <2>2
<1>3. ASSUME NEW c \in Calls, Serve(c)
      PROVE  holder' = d /\ left' = 0
  <2>1. Fetching(d)
    BY <1>3 DEF Serve, Fetching, TypeOK
  <2> QED BY <1>3, <2>1 DEF Serve, LockInv
<1>4. ASSUME NEW c \in Calls, Arrive(c) \/ ArriveMalformed(c) \/ FetchFails(c)
      PROVE  FALSE
  <2>1. Fetching(c) /\ holder = c
    BY <1>4 DEF Arrive, ArriveMalformed, FetchFails, Fetching, LockInv
  <2>2. d # c /\ call'[d] = call[d]
    BY <1>4, JudgeEnds, EndsOne, KidType DEF Arrive, ArriveMalformed, FetchFails
  <2> QED BY <2>1, <2>2 DEF LockInv, Fetching
<1>5. ASSUME NEW c \in Calls, Cancel(c)
      PROVE  holder' = d /\ left' = 0
  <2>1. d # c /\ call'[d] = call[d]
    BY <1>5, EndsOne DEF Cancel
  <2>2. holder = d /\ left = 0
    BY <2>1 DEF LockInv, Fetching
  <2>3. ~Fetching(c)
    BY <2>1, <2>2 DEF LockInv
  <2> QED BY <1>5, <2>2, <2>3 DEF Cancel, Fetching
<1>6. ASSUME NEW k \in Kids, Rotate(k)
      PROVE  holder' = d /\ left' = 0
  BY <1>6 DEF Rotate, LockInv, Fetching
<1>7. CASE Tick
  <2>1. Fetching(d)
    BY <1>7, KidType DEF Tick, Fetching, Frames
  <2> QED BY <1>7, <2>1 DEF Tick, Pass, LockInv
<1>8. ASSUME NEW c \in Calls, NEW k \in Kids, ExpiresUnder(c, k)
      PROVE  FALSE
  <2>1. d # c /\ call'[d] = call[d]
    BY <1>8, EndsOne DEF ExpiresUnder
  <2> QED BY <1>8, <2>1 DEF ExpiresUnder, LockInv, Fetching
<1>9. CASE Collect \/ UNCHANGED vars
  BY <1>9 DEF Collect, vars, LockInv, Fetching
<1> QED BY <1>1, <1>2, <1>3, <1>4, <1>5, <1>6, <1>7, <1>8, <1>9 DEF Next

LEMMA LockHeld == Spec => []LockInv
<1>1. Init => LockInv
  BY DEF Init, LockInv, Fetching
<1> QED BY <1>1, LockStep, TypeCorrectness, PTL DEF Spec

\* The double-checked lock of get_jwks: one call at most fetches, and none does
\* while an entry is there.
THEOREM SingleFlight == Spec => []OneFetch
<1>1. LockInv => OneFetch
  BY DEF LockInv, OneFetch
<1> QED BY <1>1, LockHeld, PTL

-----------------------------------------------------------------------------
(* How old a key set can be: one that is cached and one on its way.        *)

\* The key set says of k what has been true within the last n ticks.
SaidOf(k, keys, n) ==
  (k \in keys /\ k \notin published) \/ (k \notin keys /\ k \in published)
    => age[k] <= n

CachedInv ==
  left > 0 /\ matched => \A k \in Kids : SaidOf(k, index, TTL - left + Travel)

TravelInv ==
  \A c \in Calls : call[c].pc = "answered" =>
    \A k \in Kids : SaidOf(k, call[c].response, Travel - call[c].travel)

\* A change of a key counts from zero, and a tick makes it one tick older.
LEMMA RotateAges ==
  ASSUME TypeOK, NEW r \in Kids, Rotate(r), NEW k \in Kids
  PROVE  \/ age'[k] = 0
         \/ age'[k] = age[k] /\ (k \in published' <=> k \in published)
BY DEF Rotate, TypeOK

LEMMA PassAges ==
  ASSUME TypeOK, Pass, NEW k \in Kids
  PROVE  /\ age[k] \in Nat /\ age'[k] \in Nat /\ age'[k] <= age[k] + 1
         /\ published' = published
BY Times DEF Pass, TypeOK

LEMMA TravelStep == TypeOK /\ LockInv /\ TravelInv /\ [Next]_vars => TravelInv'
<1> SUFFICES ASSUME TypeOK, LockInv, TravelInv, [Next]_vars,
                    NEW d \in Calls, call'[d].pc = "answered", NEW k \in Kids
             PROVE  SaidOf(k, call[d].response, Travel - call[d].travel)'
  BY DEF TravelInv
<1> USE JwksAssumption
<1>1. ASSUME call'[d] = call[d], UNCHANGED <<published, age>>
      PROVE  SaidOf(k, call[d].response, Travel - call[d].travel)'
  BY <1>1 DEF TravelInv, SaidOf
<1>2. ASSUME NEW c \in Calls, NEW q \in Kids, Verify(c, q)
      PROVE  call'[d] = call[d] /\ UNCHANGED <<published, age>>
  BY <1>2, JudgeEnds, GoesOn DEF Verify, Fetching
<1>3. ASSUME NEW c \in Calls, Resume(c)
      PROVE  call'[d] = call[d] /\ UNCHANGED <<published, age>>
  BY <1>3, JudgeEnds, GoesOn, KidType DEF Resume, Fetching
<1>4. ASSUME NEW c \in Calls, Arrive(c) \/ ArriveMalformed(c) \/ FetchFails(c)
      PROVE  call'[d] = call[d] /\ UNCHANGED <<published, age>>
  BY <1>4, JudgeEnds, EndsOne, KidType
  DEF Arrive, ArriveMalformed, FetchFails, Fetching
<1>5. ASSUME NEW c \in Calls, Cancel(c)
      PROVE  call'[d] = call[d] /\ UNCHANGED <<published, age>>
  BY <1>5, EndsOne DEF Cancel, Fetching
<1>6. ASSUME NEW c \in Calls, Serve(c)
      PROVE  SaidOf(k, call[d].response, Travel - call[d].travel)'
  <2>1. CASE c = d
    <3>1. call'[d].response = published /\ published' = published
      BY <1>6, <2>1 DEF Serve, TypeOK
    <3> QED BY <3>1 DEF SaidOf
  <2>2. CASE c # d
    <3>1. call'[d] = call[d] /\ UNCHANGED <<published, age>>
      BY <1>6, <2>2 DEF Serve, TypeOK
    <3> QED BY <3>1, <1>1
  <2> QED BY <2>1, <2>2
<1>7. ASSUME NEW r \in Kids, Rotate(r)
      PROVE  SaidOf(k, call[d].response, Travel - call[d].travel)'
  <2>1. call' = call
    BY <1>7 DEF Rotate
  <2>2. Travel - call[d].travel \in Nat
    BY KidType DEF Frames
  <2>3. SaidOf(k, call[d].response, Travel - call[d].travel)
    BY <2>1 DEF TravelInv
  <2> QED BY <1>7, <2>1, <2>2, <2>3, RotateAges DEF SaidOf
<1>8. CASE Tick
  <2>1. /\ call[d].pc = "answered" /\ call'[d].response = call[d].response
        /\ call'[d].travel = call[d].travel - 1
    BY <1>8, KidType DEF Tick, Frames
  <2>2. SaidOf(k, call[d].response, Travel - call[d].travel)
    BY <2>1 DEF TravelInv
  <2>3. Travel - call[d].travel \in Nat
    BY KidType DEF Frames
  <2>4. Travel - (call[d].travel - 1) = Travel - call[d].travel + 1
    BY KidType DEF Frames
  <2>5. age[k] \in Nat /\ age'[k] \in Nat /\ age'[k] <= age[k] + 1
        /\ published' = published
    BY <1>8, PassAges DEF Tick
  <2> QED BY <2>1, <2>2, <2>3, <2>4, <2>5 DEF SaidOf
<1>9. ASSUME NEW c \in Calls, NEW q \in Kids, ExpiresUnder(c, q)
      PROVE  FALSE
  <2>1. d # c /\ call'[d] = call[d]
    BY <1>9, EndsOne DEF ExpiresUnder, Fetching
  <2> QED BY <1>9, <2>1 DEF ExpiresUnder, LockInv, Fetching
<1>10. CASE Collect \/ UNCHANGED vars
  BY <1>1, <1>10 DEF Collect, vars
<1> QED BY <1>1, <1>2, <1>3, <1>4, <1>5, <1>6, <1>7, <1>8, <1>9, <1>10 DEF Next

LEMMA CachedStep ==
  TypeOK /\ LockInv /\ TravelInv /\ CachedInv /\ [Next]_vars => CachedInv'
<1> SUFFICES ASSUME TypeOK, LockInv, TravelInv, CachedInv, [Next]_vars,
                    left' > 0, matched', NEW k \in Kids
             PROVE  SaidOf(k, index, TTL - left + Travel)'
  BY DEF CachedInv
<1> USE JwksAssumption
<1>1. ASSUME UNCHANGED <<published, age, left, index, matched>>
      PROVE  SaidOf(k, index, TTL - left + Travel)'
  BY <1>1 DEF CachedInv, SaidOf
<1>2. ASSUME NEW c \in Calls, NEW q \in Kids, Verify(c, q)
      PROVE  UNCHANGED <<published, age, left, index, matched>>
  BY <1>2 DEF Verify
<1>3. ASSUME NEW c \in Calls, Resume(c) \/ Serve(c) \/ FetchFails(c) \/ Cancel(c)
      PROVE  UNCHANGED <<published, age, left, index, matched>>
  BY <1>3 DEF Resume, Serve, FetchFails, Cancel
<1>4. ASSUME NEW c \in Calls, Arrive(c)
      PROVE  SaidOf(k, index, TTL - left + Travel)'
  <2>1. SaidOf(k, call[c].response, Travel - call[c].travel)
    BY <1>4 DEF Arrive, TravelInv
  <2>2. call[c].travel \in 0..Travel /\ age[k] \in Nat
    BY KidType, Times DEF Frames, TypeOK
  <2>3. index' = call[c].response /\ left' = TTL /\ UNCHANGED <<published, age>>
    BY <1>4 DEF Arrive, Store
  <2> QED BY <2>1, <2>2, <2>3 DEF SaidOf
<1>5. ASSUME NEW c \in Calls, ArriveMalformed(c)
      PROVE  FALSE
  BY <1>5 DEF ArriveMalformed
<1>6. ASSUME NEW r \in Kids, Rotate(r)
      PROVE  SaidOf(k, index, TTL - left + Travel)'
  <2>1. UNCHANGED <<left, index, matched>> /\ left \in 0..TTL
    BY <1>6 DEF Rotate, TypeOK
  <2>2. SaidOf(k, index, TTL - left + Travel)
    BY <2>1 DEF CachedInv
  <2> QED BY <1>6, <2>1, <2>2, RotateAges DEF SaidOf
<1>7. ASSUME Pass
      PROVE  SaidOf(k, index, TTL - left + Travel)'
  <2>1. left \in 0..TTL
    BY DEF TypeOK
  <2>2. left' = left - 1 /\ left > 0
    BY <1>7, <2>1 DEF Pass
  <2>3. UNCHANGED <<index, matched>>
    BY <1>7 DEF Pass
  <2>4. SaidOf(k, index, TTL - left + Travel)
    BY <2>2, <2>3 DEF CachedInv
  <2> QED BY <1>7, <2>1, <2>2, <2>3, <2>4, PassAges DEF SaidOf
<1>8. CASE Tick \/ \E c \in Calls, q \in Kids : ExpiresUnder(c, q)
  BY <1>7, <1>8 DEF Tick, ExpiresUnder
<1>9. CASE Collect
  BY <1>9 DEF Collect
<1>10. CASE UNCHANGED vars
  BY <1>1, <1>10 DEF vars
<1> QED BY <1>1, <1>2, <1>3, <1>4, <1>5, <1>6, <1>8, <1>9, <1>10 DEF Next

FreshInv == TypeOK /\ LockInv /\ TravelInv /\ CachedInv

LEMMA FreshHeld == Spec => []FreshInv
<1>1. Init => FreshInv
  BY InitType DEF Init, FreshInv, LockInv, TravelInv, CachedInv, Fetching
<1>2. FreshInv /\ [Next]_vars => FreshInv'
  BY TypeStep, LockStep, TravelStep, CachedStep DEF FreshInv
<1> QED BY <1>1, <1>2, PTL DEF Spec

\* What a verification says of a key has been true within the last TTL and the
\* way of an answer.
LEMMA Verdict ==
  ASSUME FreshInv, [Next]_vars, matched', NEW c \in Calls,
         call'[c].outcome # call[c].outcome,
         call'[c].outcome \in {"accepted", "unknown"}
  PROVE  /\ call'[c].outcome = "accepted" =>
              call'[c].kid \in published \/ age[call'[c].kid] < Horizon
         /\ call'[c].outcome = "unknown" =>
              call'[c].kid \notin published \/ age[call'[c].kid] < Horizon
<1> USE JwksAssumption
<1> DEFINE Said(k, keys) ==
             /\ call'[c].kid = k
             /\ call'[c].outcome = "accepted" => k \in keys
             /\ call'[c].outcome = "unknown" => k \notin keys
<1>1. ASSUME NEW k \in Kids, NEW keys, Judge(c, k, keys)
      PROVE  Said(k, keys)
  BY <1>1 DEF Judge, Over, FreshInv, TypeOK
<1>2. ASSUME NEW d \in Calls, NEW k \in Kids, d # c,
             Verify(d, k) \/ Resume(d) \/ Arrive(d) \/ ArriveMalformed(d)
               \/ FetchFails(d) \/ Cancel(d) \/ ExpiresUnder(d, k)
      PROVE  FALSE
  <2>1. TypeOK /\ call[d].kid \in Kids
    BY KidType DEF FreshInv
  <2>2. CASE Verify(d, k) \/ Resume(d)
    BY <1>2, <2>1, <2>2, JudgeEnds, GoesOn DEF Verify, Resume
  <2>3. CASE Arrive(d)
    BY <1>2, <2>1, <2>3, JudgeEnds DEF Arrive
  <2>4. CASE ArriveMalformed(d) \/ FetchFails(d) \/ Cancel(d) \/ ExpiresUnder(d, k)
    BY <1>2, <2>1, <2>4, QuietEnd, EndsOne
  <2> QED BY <1>2, <2>2, <2>3, <2>4
<1>3. ASSUME left > 0, matched, NEW k \in Kids, Said(k, index)
      PROVE  /\ call'[c].outcome = "accepted" => k \in published \/ age[k] < Horizon
             /\ call'[c].outcome = "unknown" => k \notin published \/ age[k] < Horizon
  <2>1. SaidOf(k, index, TTL - left + Travel)
    BY <1>3 DEF FreshInv, CachedInv
  <2>2. /\ age[k] \in Nat /\ Horizon \in Nat
        /\ TTL - left + Travel \in Nat /\ TTL - left + Travel < Horizon
    BY <1>3, Times DEF FreshInv, TypeOK, Horizon
  <2> QED BY <1>3, <2>1, <2>2 DEF SaidOf
<1>4. ASSUME NEW k \in Kids, Verify(c, k)
      PROVE  left > 0 /\ matched /\ Judge(c, k, index)
  BY <1>4, GoesOn DEF Verify, FreshInv
<1>5. ASSUME Resume(c)
      PROVE  left > 0 /\ matched /\ Judge(c, call[c].kid, index)
  BY <1>5, GoesOn, KidType DEF Resume, FreshInv
<1>6. ASSUME Arrive(c)
      PROVE  LET k == call'[c].kid
             IN  /\ call'[c].outcome = "accepted" => k \in published \/ age[k] < Horizon
                 /\ call'[c].outcome = "unknown" => k \notin published \/ age[k] < Horizon
  <2> DEFINE k == call[c].kid
  <2>1. k \in Kids /\ call[c].travel \in 0..Travel /\ age[k] \in Nat
    BY KidType, Times DEF FreshInv, Frames, TypeOK
  <2>2. Said(k, call[c].response)
    BY <1>1, <1>6, <2>1 DEF Arrive
  <2>3. SaidOf(k, call[c].response, Travel - call[c].travel)
    BY <1>6, <2>1 DEF Arrive, FreshInv, TravelInv
  <2>4. /\ Travel - call[c].travel \in Nat /\ Horizon \in Nat
        /\ Travel - call[c].travel < Horizon
    BY <2>1 DEF Horizon
  <2> QED BY <2>1, <2>2, <2>3, <2>4 DEF SaidOf
<1>7. ASSUME NEW k \in Kids,
             ArriveMalformed(c) \/ FetchFails(c) \/ Cancel(c) \/ ExpiresUnder(c, k)
      PROVE  FALSE
  <2>1. call'[c].outcome \in {"error", "cancelled"}
    BY <1>7, QuietEnd, EndsOne DEF FreshInv
  <2> QED BY <2>1
<1>8. ASSUME \/ \E d \in Calls : Serve(d)
             \/ \E k \in Kids : Rotate(k)
             \/ Tick \/ Collect \/ UNCHANGED vars
      PROVE  FALSE
  <2>1. CASE \E d \in Calls : Serve(d)
    BY <2>1 DEF Serve, FreshInv, TypeOK
  <2>2. CASE Tick
    BY <2>2, KidType DEF Tick, FreshInv, Frames
  <2>3. CASE (\E k \in Kids : Rotate(k)) \/ Collect \/ UNCHANGED vars
    BY <2>3 DEF Rotate, Collect, vars
  <2> QED BY <1>8, <2>1, <2>2, <2>3
<1>9. ASSUME NEW k \in Kids, Verify(c, k)
      PROVE  k = call'[c].kid /\ Said(k, index) /\ left > 0 /\ matched
  BY <1>1, <1>4, <1>9
<1>10. ASSUME Resume(c)
       PROVE  /\ call[c].kid = call'[c].kid /\ call[c].kid \in Kids
              /\ Said(call[c].kid, index) /\ left > 0 /\ matched
  <2>1. call[c].kid \in Kids
    BY KidType DEF FreshInv
  <2> QED BY <1>1, <1>5, <1>10, <2>1
<1> HIDE DEF Said
<1>11. CASE \E k \in Kids : Verify(c, k)
  BY <1>3, <1>9, <1>11
<1>12. CASE Resume(c)
  BY <1>3, <1>10, <1>12
<1>13. CASE Arrive(c)
  BY <1>6, <1>13
<1>14. Kids # {}
  BY KidType DEF FreshInv
<1> QED BY <1>2, <1>7, <1>8, <1>11, <1>12, <1>13, <1>14 DEF Next

\* As long as answers are lists of keys, a token is accepted only with a key
\* that is published, or was less than TTL + Travel ago.
THEOREM AcceptedRecently == Spec => AcceptedKeyIsRecent
<1>1. FreshInv /\ [Next]_vars =>
        [\A c \in Calls :
           matched' /\ call[c].outcome # "accepted" /\ call'[c].outcome = "accepted" =>
             LET k == call'[c].kid IN k \in published \/ age[k] < Horizon]_vars
  BY Verdict
<1> QED BY <1>1, FreshHeld, PTL DEF Spec, AcceptedKeyIsRecent

\* Likewise, a key is unknown only if it is not published, or was not less than
\* TTL + Travel ago.
THEOREM UnknownRecently == Spec => UnknownKeyIsNew
<1>1. FreshInv /\ [Next]_vars =>
        [\A c \in Calls :
           matched' /\ call[c].outcome # "unknown" /\ call'[c].outcome = "unknown" =>
             LET k == call'[c].kid IN k \notin published \/ age[k] < Horizon]_vars
  BY Verdict
<1> QED BY <1>1, FreshHeld, PTL DEF Spec, UnknownKeyIsNew

-----------------------------------------------------------------------------
(* How often the key set is fetched.                                       *)

CountInv == left + sinceFetch >= TTL

\* If somebody holds the provider between verifications, a TTL lies between two
\* key sets that are fetched.
THEOREM FetchedOnce == KeptAlive /\ Spec => FetchedOncePerTTL
<1> SUFFICES ASSUME KeptAlive PROVE Spec => FetchedOncePerTTL
  OBVIOUS
<1> USE JwksAssumption
<1>1. Init => CountInv
  BY DEF Init, CountInv
<1>2. TypeOK /\ CountInv /\ [Next]_vars => CountInv'
  <2> SUFFICES ASSUME TypeOK, CountInv, [Next]_vars PROVE CountInv'
    OBVIOUS
  <2>1. CASE UNCHANGED <<left, sinceFetch>>
    BY <2>1 DEF CountInv
  <2>2. CASE left' = TTL /\ sinceFetch' = 0
    BY <2>2 DEF CountInv
  <2>3. CASE Pass
    BY <2>3 DEF Pass, CountInv, TypeOK
  <2> QED
    BY <2>1, <2>2, <2>3
    DEF Next, Verify, Resume, Serve, Arrive, Store, ArriveMalformed, FetchFails, Cancel,
        Rotate, Tick, ExpiresUnder, Collect, vars
<1>3. TypeOK /\ LockInv /\ CountInv /\ [Next]_vars => [left' > left => sinceFetch = TTL]_vars
  <2> SUFFICES ASSUME TypeOK, LockInv, CountInv, Next, left' > left PROVE sinceFetch = TTL
    OBVIOUS
  <2>1. PICK c \in Calls : Arrive(c) \/ ArriveMalformed(c)
    <3>1. left \in Nat /\ ~UNCHANGED left /\ ~(left' = 0)
      BY DEF TypeOK
    <3>2. ~Pass
      BY <3>1 DEF Pass
    <3> QED BY <3>1, <3>2 DEF Next, Verify, Resume, Serve, FetchFails, Cancel, Rotate,
                              Tick, ExpiresUnder, Collect
  <2>2. left = 0
    BY <2>1 DEF Arrive, ArriveMalformed, LockInv, Fetching
  <2> QED BY <2>2 DEF CountInv, TypeOK
<1> QED BY <1>1, <1>2, <1>3, TypeCorrectness, LockHeld, PTL DEF Spec, FetchedOncePerTTL
-----------------------------------------------------------------------------
(* All calls together are a cache of one key set.                          *)

\* An entry that is on its way is the only one, and then nothing is served.
LEMMA OneOnItsWay ==
  ASSUME LockInv, NEW c \in Calls, call[c].pc = "answered"
  PROVE  /\ OnItsWay = {[keys |-> call[c].response, left |-> call[c].travel]}
         /\ Served = {}
<1>1. \A d \in Calls : call[d].pc = "answered" => d = c
  BY JwksAssumption DEF LockInv, Fetching
<1>2. left = 0
  BY DEF LockInv, Fetching
<1> QED BY <1>1, <1>2 DEF OnItsWay, Served

\* A call that fetches keeps the others from having an answer.
LEMMA NoneOnItsWay ==
  ASSUME LockInv, NEW c \in Calls, call[c].pc = "fetching"
  PROVE  OnItsWay = {} /\ Served = {}
<1>1. \A d \in Calls : Fetching(d) => d = c
  BY DEF LockInv, Fetching
<1>2. left = 0
  BY DEF LockInv, Fetching
<1> QED BY <1>1, <1>2 DEF OnItsWay, Served, Fetching

\* What a call does before it has an answer is not seen.
LEMMA SameOnItsWay ==
  ASSUME NEW c \in Calls, call[c].pc # "answered", call'[c].pc # "answered",
         \A d \in Calls : d # c => call'[d] = call[d]
  PROVE  OnItsWay' = OnItsWay
<1>1. \A d \in Calls : call'[d].pc = "answered" <=> call[d].pc = "answered"
  OBVIOUS
<1>2. \A d \in Calls : call[d].pc = "answered" => call'[d] = call[d]
  OBVIOUS
<1> QED BY <1>1, <1>2 DEF OnItsWay

\* And when the one that has it ends, nothing is on its way.
LEMMA EndOnItsWay ==
  ASSUME LockInv, NEW c \in Calls, call[c].pc = "answered", call'[c].pc # "answered",
         \A d \in Calls : d # c => call'[d] = call[d]
  PROVE  OnItsWay' = {}
<1>1. \A d \in Calls : call[d].pc = "answered" => d = c
  BY DEF LockInv, Fetching
<1>2. \A d \in Calls : call'[d].pc # "answered"
  BY <1>1
<1> QED BY <1>2 DEF OnItsWay

\* A tick makes the spans, the entry and its way one tick longer or shorter.
LEMMA RecentPasses ==
  ASSUME TypeOK, Pass
  PROVE  Recent' = {n \in 1..Horizon : n - 1 \in Recent}
<1> SUFFICES ASSUME NEW n \in 1..Horizon
             PROVE  n \in Recent' <=> n - 1 \in Recent
  BY DEF Recent
<1> USE Times
<1>1. ASSUME NEW k \in Kids
      PROVE  age'[k] < n <=> n - 1 \in 1..Horizon /\ age[k] < n - 1
  <2>1. age[k] \in 0..Horizon /\ Horizon \in Nat
    BY DEF TypeOK
  <2>2. age'[k] = IF age[k] < Horizon THEN age[k] + 1 ELSE Horizon
    BY DEF Pass
  <2> QED BY <2>1, <2>2
<1> QED BY <1>1 DEF Recent

LEMMA ServedPasses ==
  ASSUME TypeOK, Pass
  PROVE  Served' = {[keys |-> e.keys, left |-> e.left - 1] : e \in {d \in Served : d.left > 1}}
<1> USE JwksAssumption
<1>1. left \in 0..TTL /\ left' = (IF left > 0 THEN left - 1 ELSE 0)
      /\ matched' = matched /\ index' = index
  BY DEF TypeOK, Pass
<1>2. CASE left > 1 /\ matched
  <2>1. Served = {[keys |-> index, left |-> left]}
    BY <1>1, <1>2 DEF Served
  <2>2. Served' = {[keys |-> index, left |-> left - 1]}
    BY <1>1, <1>2 DEF Served
  <2> DEFINE entry == [keys |-> index, left |-> left]
             Later(e) == [keys |-> e.keys, left |-> e.left - 1]
  <2>3. {d \in Served : d.left > 1} = {entry}
    BY <1>2, <2>1
  <2>4. Later(entry) = [keys |-> index, left |-> left - 1]
    OBVIOUS
  <2>5. {Later(e) : e \in {d \in Served : d.left > 1}} = {Later(entry)}
    <3> HIDE DEF entry, Later
    <3> QED BY <2>3
  <2> QED BY <2>2, <2>4, <2>5
<1>3. CASE ~(left > 1 /\ matched)
  <2>1. Served' = {}
    BY <1>1, <1>3 DEF Served
  <2>2. {d \in Served : d.left > 1} = {}
    BY <1>1, <1>3 DEF Served
  <2> QED BY <2>1, <2>2
<1> QED BY <1>2, <1>3

LEMMA WayPasses ==
  ASSUME TypeOK, Tick
  PROVE  /\ \A e \in OnItsWay : e.left > 0
         /\ OnItsWay' = {[keys |-> e.keys, left |-> e.left - 1] : e \in OnItsWay}
<1>1. \A c \in Calls : call[c].pc = "answered" =>
        /\ call[c].travel > 0
        /\ call'[c] = [call[c] EXCEPT !.travel = @ - 1]
  BY DEF Tick
<1>2. \A c \in Calls : call[c].pc # "answered" => call'[c] = call[c]
  BY DEF Tick
<1>3. \A c \in Calls : call[c] \in Frames
  BY KidType
<1>4. \A c \in Calls :
        /\ call'[c].pc = call[c].pc
        /\ call[c].pc = "answered" =>
             /\ call'[c].response = call[c].response
             /\ call'[c].travel = call[c].travel - 1
  BY <1>1, <1>2, <1>3 DEF Frames
<1> DEFINE Sent(c) == [keys |-> call[c].response, left |-> call[c].travel]
           Later(e) == [keys |-> e.keys, left |-> e.left - 1]
           Ready == {d \in Calls : call[d].pc = "answered"}
<1>5. OnItsWay = {Sent(c) : c \in Ready}
  BY DEF OnItsWay
<1>6. OnItsWay' = {Later(Sent(c)) : c \in Ready}
  <2>1. OnItsWay' = {[keys |-> call'[c].response, left |-> call'[c].travel] :
                       c \in {d \in Calls : call'[d].pc = "answered"}}
    BY DEF OnItsWay
  <2>2. {d \in Calls : call'[d].pc = "answered"} = Ready
    BY <1>4
  <2>3. \A c \in Ready :
          [keys |-> call'[c].response, left |-> call'[c].travel] = Later(Sent(c))
    BY <1>4
  <2> QED BY <2>1, <2>2, <2>3
<1>7. \A e \in OnItsWay : e.left > 0
  <2>1. \A c \in Ready : Sent(c).left > 0
    BY <1>1
  <2> HIDE DEF Sent, Ready
  <2> QED BY <1>5, <2>1
<1>8. OnItsWay' = {Later(e) : e \in OnItsWay}
  <2> HIDE DEF Sent, Later, Ready
  <2> QED BY <1>5, <1>6
<1> QED BY <1>7, <1>8
\* Every step of a call, of the identity provider or of time is a step of the
\* cache or is not seen there.
LEMMA KeySetStep ==
  ASSUME TypeOK, LockInv, [Next]_vars
  PROVE  [KeySet!Next]_(KeySet!cacheVars)
<1> USE DEF KeySet!cacheVars
<1>1. UNCHANGED age => UNCHANGED Recent
  BY DEF Recent
<1>2. UNCHANGED <<left, index, matched>> => UNCHANGED Served
  BY DEF Served
<1>3. ASSUME NEW c \in Calls, NEW k \in Kids, Verify(c, k)
      PROVE  UNCHANGED KeySet!cacheVars
  <2>1. /\ call[c].pc # "answered" /\ call'[c].pc # "answered"
        /\ \A d \in Calls : d # c => call'[d] = call[d]
    BY <1>3, JudgeEnds, GoesOn DEF Verify, Fetching
  <2> QED BY <1>1, <1>2, <1>3, <2>1, SameOnItsWay DEF Verify
<1>4. ASSUME NEW c \in Calls, Resume(c)
      PROVE  UNCHANGED KeySet!cacheVars
  <2>1. /\ call[c].pc # "answered" /\ call'[c].pc # "answered"
        /\ \A d \in Calls : d # c => call'[d] = call[d]
    BY <1>4, JudgeEnds, GoesOn, KidType DEF Resume, InTurn, Fetching
  <2> QED BY <1>1, <1>2, <1>4, <2>1, SameOnItsWay DEF Resume
<1>5. ASSUME NEW c \in Calls, Serve(c)
      PROVE  KeySet!Answer
  <2>1. OnItsWay = {} /\ Served = {}
    BY <1>5, NoneOnItsWay DEF Serve
  <2>2. UNCHANGED <<published, Recent, Served>>
    BY <1>1, <1>2, <1>5 DEF Serve
  <2>3. /\ call'[c].pc = "answered"
        /\ call'[c].response = published /\ call'[c].travel = Travel
        /\ \A d \in Calls : d # c => call'[d] = call[d]
    BY <1>5, KidType DEF Serve, TypeOK, Frames
  <2>4. OnItsWay' = {[keys |-> published, left |-> Travel]}
    <3>1. \A d \in Calls : call'[d].pc = "answered" => d = c
      BY <2>1, <2>3 DEF OnItsWay
    <3> QED BY <2>3, <3>1 DEF OnItsWay
  <2> QED BY <2>1, <2>2, <2>4 DEF KeySet!Answer, KeySet!Entry
<1>6. ASSUME NEW c \in Calls, Arrive(c)
      PROVE  KeySet!Store
  <2>1. OnItsWay = {[keys |-> call[c].response, left |-> call[c].travel]}
    BY <1>6, OneOnItsWay DEF Arrive
  <2>2. Served' = {[keys |-> call[c].response, left |-> TTL]}
    BY <1>6, JwksAssumption DEF Arrive, Store, Served
  <2>3. OnItsWay' = {}
    <3>1. /\ ~Fetching(c)'
          /\ \A d \in Calls : d # c => call'[d] = call[d]
      BY <1>6, JudgeEnds, KidType DEF Arrive
    <3> QED BY <1>6, <3>1, EndOnItsWay DEF Arrive, Fetching
  <2>4. UNCHANGED <<published, Recent>>
    BY <1>1, <1>6 DEF Arrive
  <2> QED BY <2>1, <2>2, <2>3, <2>4 DEF KeySet!Store, KeySet!Entry
<1>7. ASSUME NEW c \in Calls, ArriveMalformed(c)
      PROVE  KeySet!Lose
  <2>1. Served = {} /\ Served' = {}
    BY <1>7, OneOnItsWay DEF ArriveMalformed, Served
  <2>2. OnItsWay' = {}
    BY <1>7, EndsOne, KidType, EndOnItsWay DEF ArriveMalformed, Fetching
  <2> QED BY <1>1, <1>7, <2>1, <2>2 DEF ArriveMalformed, KeySet!Lose
<1>8. ASSUME NEW c \in Calls, FetchFails(c) \/ Cancel(c)
      PROVE  KeySet!Lose \/ UNCHANGED KeySet!cacheVars
  <2>1. UNCHANGED <<published, Recent, Served>>
    BY <1>1, <1>2, <1>8 DEF FetchFails, Cancel
  <2>2. /\ call'[c].pc # "answered"
        /\ \A d \in Calls : d # c => call'[d] = call[d]
    BY <1>8, EndsOne DEF FetchFails, Cancel, Fetching
  <2>3. CASE call[c].pc = "answered"
    BY <2>1, <2>2, <2>3, EndOnItsWay DEF KeySet!Lose
  <2>4. CASE call[c].pc # "answered"
    BY <2>1, <2>2, <2>4, SameOnItsWay
  <2> QED BY <2>3, <2>4
<1>9. ASSUME NEW k \in Kids, Rotate(k)
      PROVE  KeySet!Publish
  <2>1. published' \in SUBSET Kids
    BY <1>9 DEF Rotate, TypeOK
  <2>2. Recent' = KeySet!Spans
    <3>1. age'[k] = 0
      BY <1>9 DEF Rotate, TypeOK
    <3> QED BY <3>1, Times, JwksAssumption DEF Recent, KeySet!Spans, Horizon
  <2>3. UNCHANGED <<Served, OnItsWay>>
    BY <1>2, <1>9 DEF Rotate, OnItsWay
  <2> QED BY <2>1, <2>2, <2>3 DEF KeySet!Publish
<1>10. CASE Tick
  <2>1. Pass /\ UNCHANGED published
    BY <1>10 DEF Tick, Pass
  <2>2. Recent' = {n \in KeySet!Spans : n - 1 \in Recent}
    BY <2>1, RecentPasses DEF KeySet!Spans, Horizon
  <2>3. Served' = {KeySet!Entry(e.keys, e.left - 1) : e \in {d \in Served : d.left > 1}}
    BY <2>1, ServedPasses DEF KeySet!Entry
  <2>4. /\ \A e \in OnItsWay : e.left > 0
        /\ OnItsWay' = {KeySet!Entry(e.keys, e.left - 1) : e \in OnItsWay}
    BY <1>10, WayPasses DEF KeySet!Entry
  <2> QED BY <2>1, <2>2, <2>3, <2>4 DEF KeySet!Tick, KeySet!Next
<1>11. ASSUME NEW c \in Calls, NEW k \in Kids, ExpiresUnder(c, k)
       PROVE  KeySet!Tick
  <2>1. Pass /\ UNCHANGED published
    BY <1>11 DEF ExpiresUnder, Pass
  <2>2. \A d \in Calls : call[d].pc # "answered"
    BY <1>11 DEF ExpiresUnder, LockInv, Fetching
  <2>3. call'[c].pc # "answered" /\ \A d \in Calls : d # c => call'[d] = call[d]
    BY <1>11, EndsOne DEF ExpiresUnder, Fetching
  <2>4. OnItsWay = {} /\ OnItsWay' = {}
    BY <2>2, <2>3 DEF OnItsWay
  <2> QED BY <2>1, <2>4, RecentPasses, ServedPasses
          DEF KeySet!Tick, KeySet!Entry, KeySet!Spans, Horizon
<1>12. CASE Collect
  <2>1. Served' = {}
    BY <1>12 DEF Collect, Served
  <2>2. UNCHANGED <<published, Recent, OnItsWay>>
    BY <1>12 DEF Collect, Recent, OnItsWay
  <2> QED BY <2>1, <2>2 DEF KeySet!Forget, KeySet!Next
<1>13. CASE UNCHANGED vars
  BY <1>1, <1>2, <1>13 DEF vars, OnItsWay
<1> QED BY <1>3, <1>4, <1>5, <1>6, <1>7, <1>8, <1>9, <1>10, <1>11, <1>12, <1>13
        DEF Next, KeySet!Next

\* However many calls meet in get_jwks, are cancelled or fail there, together
\* they are a cache of one key set.
THEOREM KeySetCacheImplemented == Spec => ImplementsKeySetCache
<1>1. Init => KeySet!Init
  <2> SUFFICES ASSUME Init PROVE KeySet!Init
    OBVIOUS
  <2>1. Recent = {}
    BY Times DEF Init, Recent
  <2>2. Served = {} /\ OnItsWay = {}
    BY DEF Init, Served, OnItsWay
  <2> QED BY <2>1, <2>2 DEF Init, KeySet!Init
<1>2. TypeOK /\ LockInv /\ [Next]_vars => [KeySet!Next]_(KeySet!cacheVars)
  BY KeySetStep
<1> QED BY <1>1, <1>2, TypeCorrectness, LockHeld, PTL
        DEF Spec, ImplementsKeySetCache, KeySet!Spec
-----------------------------------------------------------------------------
(* The queue of the lock: who waits is in it, once.                        *)

Waiters == {c \in Calls : call[c].pc = "waiting"}

\* The queue holds the members of W, each once.
LinesUp(q, W) == Range(q) = W /\ IsInjective(q)

\* What holds of every place of the line and of every member of W.
LEMMA Places ==
  ASSUME NEW q \in Seq(Calls), NEW W
  PROVE  LinesUp(q, W) <=>
           /\ \A i \in 1..Len(q) : q[i] \in W
           /\ \A w \in W : \E i \in 1..Len(q) : q[i] = w
           /\ \A i, j \in 1..Len(q) : q[i] = q[j] => i = j
<1>1. DOMAIN q = 1..Len(q)
  OBVIOUS
<1>2. IsInjective(q) <=> \A i, j \in 1..Len(q) : q[i] = q[j] => i = j
  BY <1>1 DEF IsInjective
<1>3. Range(q) = {q[i] : i \in 1..Len(q)}
  BY <1>1 DEF Range
<1> QED BY <1>2, <1>3 DEF LinesUp

\* Whoever comes stands at the end.
LEMMA LastInLine ==
  ASSUME NEW q \in Seq(Calls), NEW W, LinesUp(q, W), NEW c \in Calls, c \notin W
  PROVE  LinesUp(Append(q, c), W \cup {c})
<1> DEFINE r == Append(q, c)
<1>1. r \in Seq(Calls) /\ Len(r) = Len(q) + 1 /\ Len(q) \in Nat
  OBVIOUS
<1>2. \A i \in 1..Len(r) : r[i] = IF i <= Len(q) THEN q[i] ELSE c
  OBVIOUS
<1>3. /\ \A i \in 1..Len(q) : q[i] \in W
      /\ \A w \in W : \E i \in 1..Len(q) : q[i] = w
      /\ \A i, j \in 1..Len(q) : q[i] = q[j] => i = j
  BY Places
<1> HIDE DEF r
<1>4. \A i \in 1..Len(r) : r[i] \in W \cup {c}
  BY <1>1, <1>2, <1>3
<1>5. \A w \in W \cup {c} : \E i \in 1..Len(r) : r[i] = w
  <2>1. r[Len(r)] = c /\ Len(r) \in 1..Len(r)
    BY <1>1, <1>2
  <2>2. \A i \in 1..Len(q) : i \in 1..Len(r) /\ r[i] = q[i]
    BY <1>1, <1>2
  <2> QED BY <1>3, <2>1, <2>2
<1>6. \A i, j \in 1..Len(r) : r[i] = r[j] => i = j
  BY <1>1, <1>2, <1>3
<1>7. LinesUp(r, W \cup {c})
  BY <1>1, <1>4, <1>5, <1>6, Places
<1> QED BY <1>7 DEF r

\* Whoever leaves a place closes it.
LEMMA LeavesPlace ==
  ASSUME NEW q \in Seq(Calls), NEW W, LinesUp(q, W), NEW n \in 1..Len(q),
         NEW r \in Seq(Calls), Len(r) = Len(q) - 1,
         \A i \in 1..Len(r) : r[i] = IF i < n THEN q[i] ELSE q[i + 1]
  PROVE  LinesUp(r, W \ {q[n]})
<1>1. Len(q) \in Nat /\ Len(r) \in Nat
  OBVIOUS
<1>2. /\ \A i \in 1..Len(q) : q[i] \in W
      /\ \A w \in W : \E i \in 1..Len(q) : q[i] = w
      /\ \A i, j \in 1..Len(q) : q[i] = q[j] => i = j
  BY Places
<1>3. \A i \in 1..Len(r) : r[i] \in W \ {q[n]}
  BY <1>1, <1>2
<1>4. ASSUME NEW w \in W \ {q[n]}
      PROVE  \E i \in 1..Len(r) : r[i] = w
  <2>1. PICK i \in 1..Len(q) : q[i] = w
    BY <1>2
  <2>2. CASE i < n
    <3>1. i \in 1..Len(r) /\ r[i] = w
      BY <1>1, <2>1, <2>2
    <3> QED BY <3>1
  <2>3. CASE i > n
    <3>1. i - 1 \in 1..Len(r) /\ ~(i - 1 < n) /\ (i - 1) + 1 = i
      BY <1>1, <2>3
    <3>2. r[i - 1] = w
      BY <2>1, <3>1
    <3> QED BY <3>1, <3>2
  <2> QED BY <2>1, <2>2, <2>3
<1>5. ASSUME NEW i \in 1..Len(r), NEW j \in 1..Len(r), r[i] = r[j]
      PROVE  i = j
  <2> DEFINE Old(m) == IF m < n THEN m ELSE m + 1
  <2>1. Old(i) \in 1..Len(q) /\ Old(j) \in 1..Len(q) /\ (Old(i) = Old(j) => i = j)
    BY <1>1
  <2>2. r[i] = q[Old(i)] /\ r[j] = q[Old(j)]
    OBVIOUS
  <2> HIDE DEF Old
  <2> QED BY <1>2, <1>5, <2>1, <2>2
<1> QED BY <1>3, <1>4, <1>5, Places

LEMMA FirstLeaves ==
  ASSUME NEW q \in Seq(Calls), NEW W, LinesUp(q, W), q # <<>>
  PROVE  LinesUp(Tail(q), W \ {Head(q)})
<1>1. /\ Tail(q) \in Seq(Calls) /\ Len(Tail(q)) = Len(q) - 1
      /\ 1 \in 1..Len(q) /\ Head(q) = q[1]
  OBVIOUS
<1>2. \A i \in 1..Len(Tail(q)) : Tail(q)[i] = IF i < 1 THEN q[i] ELSE q[i + 1]
  OBVIOUS
<1>3. LinesUp(Tail(q), W \ {q[1]})
  <2> DEFINE r == Tail(q)
  <2> HIDE DEF r
  <2>1. /\ r \in Seq(Calls) /\ Len(r) = Len(q) - 1
        /\ \A i \in 1..Len(r) : r[i] = IF i < 1 THEN q[i] ELSE q[i + 1]
    BY <1>1, <1>2 DEF r
  <2>2. LinesUp(r, W \ {q[1]})
    BY <1>1, <2>1, LeavesPlace
  <2> QED BY <2>2 DEF r
<1> QED BY <1>1, <1>3

LEMMA OneLeaves ==
  ASSUME NEW q \in Seq(Calls), NEW W, LinesUp(q, W), NEW n \in 1..Len(q)
  PROVE  LinesUp(RemoveAt(q, n), W \ {q[n]})
<1> DEFINE before == SubSeq(q, 1, n - 1)
           behind == SubSeq(q, n + 1, Len(q))
           r == before \o behind
<1>1. /\ before \in Seq(Calls) /\ Len(before) = n - 1
      /\ \A i \in 1..(n - 1) : before[i] = q[i]
  OBVIOUS
<1>2. /\ behind \in Seq(Calls) /\ Len(behind) = Len(q) - n
      /\ \A i \in 1..(Len(q) - n) : behind[i] = q[i + n]
  OBVIOUS
<1> HIDE DEF before, behind
<1>3. /\ r \in Seq(Calls) /\ Len(r) = Len(q) - 1
      /\ \A i \in 1..Len(r) : r[i] = IF i <= Len(before) THEN before[i]
                                     ELSE behind[i - Len(before)]
  <2>1. n \in Nat /\ Len(q) \in Nat
    OBVIOUS
  <2>2. /\ before \o behind \in Seq(Calls)
        /\ Len(before \o behind) = Len(before) + Len(behind)
        /\ \A i \in 1..(Len(before) + Len(behind)) :
             (before \o behind)[i] = IF i <= Len(before) THEN before[i]
                                     ELSE behind[i - Len(before)]
    BY <1>1, <1>2, ConcatProperties
  <2> QED BY <1>1, <1>2, <2>1, <2>2
<1>4. \A i \in 1..Len(r) : r[i] = IF i < n THEN q[i] ELSE q[i + 1]
  <2> HIDE DEF r
  <2> QED BY <1>1, <1>2, <1>3
<1>5. LinesUp(r, W \ {q[n]})
  <2> HIDE DEF r
  <2> QED BY <1>3, <1>4, LeavesPlace
<1> QED BY <1>5 DEF RemoveAt, r, before, behind

\* How the calls that wait become more or fewer.
LEMMA NoWaiter ==
  ASSUME TypeOK, NEW c \in Calls, NEW k, NEW o, call' = [call EXCEPT ![c] = Over(k, o)]
  PROVE  Waiters' = Waiters \ {c}
BY DEF Waiters, Over, TypeOK

LEMMA JudgedIsNoWaiter ==
  ASSUME TypeOK, NEW c \in Calls, NEW k \in Kids, NEW keys, Judge(c, k, keys)
  PROVE  Waiters' = Waiters \ {c}
BY NoWaiter DEF Judge

LEMMA GoesToLine ==
  ASSUME TypeOK, NEW c \in Calls, NEW k \in Kids,
         NEW pc \in {"waiting", "fetching"}, Goes(c, k, pc)
  PROVE  Waiters' = IF pc = "waiting" THEN Waiters \cup {c} ELSE Waiters \ {c}
BY GoesOn DEF Waiters

\* Whoever holds the lock fetches, and whoever waits for it is in its line.
LEMMA LineStep ==
  ASSUME TypeOK, LockInv, WaitersAreInLine, [Next]_vars
  PROVE  WaitersAreInLine'
<1> USE JwksAssumption
<1>1. /\ holder # Nobody => holder \in Calls /\ Fetching(holder)
      /\ LinesUp(queue, Waiters) /\ queue \in Seq(Calls)
  BY DEF WaitersAreInLine, LinesUp, Waiters, TypeOK
<1> SUFFICES /\ holder' # Nobody => Fetching(holder)'
             /\ LinesUp(queue', Waiters')
  BY DEF WaitersAreInLine, LinesUp, Waiters
<1>2. ASSUME NEW c \in Calls, ~Fetching(c), \A d \in Calls : d # c => call'[d] = call[d],
             UNCHANGED holder
      PROVE  holder' # Nobody => Fetching(holder)'
  BY <1>1, <1>2 DEF Fetching
<1>3. ASSUME NEW c \in Calls, NEW k \in Kids, Verify(c, k)
      PROVE  /\ holder' # Nobody => Fetching(holder)'
             /\ LinesUp(queue', Waiters')
  <2>1. c \notin Waiters /\ ~Fetching(c)
    BY <1>3 DEF Verify, Waiters, Fetching
  <2>2. CASE Judge(c, k, index) /\ UNCHANGED <<holder, queue>>
    BY <1>1, <1>2, <2>1, <2>2, JudgeEnds, JudgedIsNoWaiter
  <2>3. CASE Goes(c, k, "fetching") /\ holder' = c /\ UNCHANGED queue
    BY <1>1, <2>1, <2>3, GoesOn, GoesToLine DEF Fetching
  <2>4. CASE Goes(c, k, "waiting") /\ queue' = Append(queue, c) /\ UNCHANGED holder
    <3>1. Waiters' = Waiters \cup {c}
      BY <2>4, GoesToLine
    <3>2. LinesUp(queue', Waiters')
      BY <1>1, <2>1, <2>4, <3>1, LastInLine
    <3> QED BY <1>2, <2>1, <2>4, <3>2, GoesOn
  <2> QED BY <1>3, <2>2, <2>3, <2>4 DEF Verify
<1>4. ASSUME NEW c \in Calls, Resume(c)
      PROVE  /\ holder' # Nobody => Fetching(holder)'
             /\ LinesUp(queue', Waiters')
  <2>1. call[c].kid \in Kids /\ ~Fetching(c)
    BY <1>4, KidType DEF Resume, InTurn, Fetching
  <2>2. LinesUp(Tail(queue), Waiters \ {c})
    BY <1>1, <1>4, FirstLeaves DEF Resume, InTurn
  <2>3. CASE Judge(c, call[c].kid, index) /\ UNCHANGED holder
    BY <1>2, <1>4, <2>1, <2>2, <2>3, JudgeEnds, JudgedIsNoWaiter DEF Resume
  <2>4. CASE Goes(c, call[c].kid, "fetching") /\ holder' = c
    BY <1>4, <2>1, <2>2, <2>4, GoesOn, GoesToLine DEF Resume, Fetching
  <2> QED BY <1>4, <2>3, <2>4 DEF Resume
<1>5. ASSUME NEW c \in Calls, Arrive(c) \/ ArriveMalformed(c) \/ FetchFails(c)
      PROVE  /\ holder' # Nobody => Fetching(holder)'
             /\ LinesUp(queue', Waiters')
  <2>1. Waiters' = Waiters \ {c}
    BY <1>5, NoWaiter, JudgedIsNoWaiter, KidType DEF Arrive, ArriveMalformed, FetchFails
  <2>2. c \notin Waiters
    BY <1>5 DEF Arrive, ArriveMalformed, FetchFails, Waiters
  <2>3. holder' = Nobody /\ UNCHANGED queue
    BY <1>5 DEF Arrive, ArriveMalformed, FetchFails
  <2>4. Waiters' = Waiters
    BY <2>1, <2>2
  <2> QED BY <1>1, <2>3, <2>4
<1>6. ASSUME NEW c \in Calls, Cancel(c)
      PROVE  /\ holder' # Nobody => Fetching(holder)'
             /\ LinesUp(queue', Waiters')
  <2>1. Waiters' = Waiters \ {c} /\ \A d \in Calls : d # c => call'[d] = call[d]
    BY <1>6, NoWaiter, EndsOne DEF Cancel
  <2>2. CASE call[c].pc = "waiting"
    <3>1. ~Fetching(c) /\ UNCHANGED holder
      BY <1>6, <2>2 DEF Cancel, Fetching
    <3>2. PICK n \in 1..Len(queue) : queue[n] = c /\ queue' = RemoveAt(queue, n)
      BY <1>6, <2>2 DEF Cancel
    <3>3. LinesUp(queue', Waiters')
      BY <1>1, <2>1, <3>2, OneLeaves
    <3> QED BY <1>2, <2>1, <3>1, <3>3
  <2>3. CASE call[c].pc \in {"fetching", "answered"}
    <3>1. c \notin Waiters /\ holder' = Nobody /\ UNCHANGED queue
      BY <1>6, <2>3 DEF Cancel, Waiters
    <3>2. Waiters' = Waiters
      BY <2>1, <3>1
    <3> QED BY <1>1, <3>1, <3>2
  <2> QED BY <1>6, <2>2, <2>3 DEF Cancel
<1>7. ASSUME \/ \E c \in Calls : Serve(c)
             \/ \E k \in Kids : Rotate(k)
             \/ Tick \/ Collect \/ UNCHANGED vars
      PROVE  /\ holder' # Nobody => Fetching(holder)'
             /\ LinesUp(queue', Waiters')
  <2>1. UNCHANGED <<holder, queue>>
    BY <1>7 DEF Serve, Rotate, Tick, Collect, vars
  <2>2. ASSUME NEW d \in Calls
        PROVE  /\ call'[d].pc = "waiting" <=> call[d].pc = "waiting"
               /\ Fetching(d) => Fetching(d)'
    <3>1. CASE \E c \in Calls : Serve(c)
      BY <3>1, KidType DEF Serve, TypeOK, Frames, Fetching
    <3>2. CASE Tick
      BY <3>2, KidType DEF Tick, Frames, Fetching
    <3>3. CASE (\E k \in Kids : Rotate(k)) \/ Collect \/ UNCHANGED vars
      BY <3>3 DEF Rotate, Collect, vars, Fetching
    <3> QED BY <1>7, <3>1, <3>2, <3>3
  <2>3. Waiters' = Waiters
    BY <2>2 DEF Waiters
  <2> QED BY <1>1, <2>1, <2>2, <2>3
<1>8. ASSUME NEW c \in Calls, NEW k \in Kids, ExpiresUnder(c, k)
      PROVE  /\ holder' # Nobody => Fetching(holder)'
             /\ LinesUp(queue', Waiters')
  <2>1. Waiters' = Waiters \ {c} /\ \A d \in Calls : d # c => call'[d] = call[d]
    BY <1>8, NoWaiter, EndsOne DEF ExpiresUnder
  <2>2. ~Fetching(c) /\ UNCHANGED holder
    BY <1>8 DEF ExpiresUnder, InTurn, Fetching
  <2>3. CASE call[c].pc = "idle" /\ UNCHANGED queue
    <3>1. Waiters' = Waiters
      BY <2>1, <2>3 DEF Waiters
    <3> QED BY <1>1, <1>2, <2>1, <2>2, <2>3, <3>1
  <2>4. CASE InTurn(c) /\ queue' = Tail(queue)
    <3>1. LinesUp(queue', Waiters')
      BY <1>1, <2>1, <2>4, FirstLeaves DEF InTurn
    <3> QED BY <1>2, <2>1, <2>2, <3>1
  <2> QED BY <1>8, <2>3, <2>4 DEF ExpiresUnder
<1> QED BY <1>3, <1>4, <1>5, <1>6, <1>7, <1>8 DEF Next

\* However calls fail or are cancelled in the queue of the lock, nobody is left
\* behind in it.
THEOREM NobodyIsLeftBehind == Spec => []WaitersAreInLine
<1>1. Init => WaitersAreInLine
  <2> SUFFICES ASSUME Init PROVE WaitersAreInLine
    OBVIOUS
  <2>1. queue = <<>> /\ queue \in Seq(Calls) /\ holder = Nobody /\ Waiters = {}
    BY DEF Init, Waiters
  <2>2. Range(queue) = {} /\ IsInjective(queue)
    BY <2>1 DEF Range, IsInjective
  <2> QED BY <2>1, <2>2 DEF WaitersAreInLine, Waiters
<1> QED BY <1>1, LineStep, TypeCorrectness, LockHeld, PTL DEF Spec
=============================================================================
