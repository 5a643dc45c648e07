---------------------------- MODULE TokensProofs ----------------------------
(***************************************************************************)
(* What Tokens promises, for any number of users, keys, slots and services *)
(* and for any life times.                                                 *)
(***************************************************************************)
EXTENDS Tokens, TLAPS

USE TokensAssumption

-----------------------------------------------------------------------------
(* Types. *)

LEMMA GenerateTyped ==
  ASSUME TypeOK, NEW t \in Slots, NEW user \in Users, NEW scope \in SUBSET Scopes,
         NEW key \in Keys \cup {NoKey}, Generate(t, user, scope, key)
  PROVE  pairs' \in [Slots -> Pairs \cup {NoPair}]
<1>1. [user |-> user, scope |-> scope, access |-> key, refresh |-> NoKey, age |-> 0]
        \in Pairs
  BY DEF Pairs, Generate
<1> QED BY <1>1 DEF TypeOK, Generate

LEMMA WholeTyped ==
  ASSUME TypeOK, NEW s \in Slots, pairs[s] # NoPair
  PROVE  /\ pairs[s] \in Pairs
         /\ pairs[s].user \in Users /\ pairs[s].scope \in SUBSET Scopes
         /\ pairs[s].access \in Keys /\ pairs[s].refresh \in Keys \cup {NoKey}
         /\ pairs[s].age \in 0..(RefreshLife + Lag)
<1>1. pairs[s] \in Pairs BY DEF TypeOK
<1> QED BY <1>1 DEF Pairs

LEMMA TypesKept == ASSUME TypeOK, [Next]_vars PROVE TypeOK'
<1>1. ASSUME NEW s \in Slots, NEW t \in Slots, Refresh(s, t) PROVE TypeOK'
  <2>1. pairs[s] # NoPair BY <1>1 DEF Refresh, Renewable, Whole
  <2>2. Generate(t, pairs[s].user, pairs[s].scope, file) BY <1>1 DEF Refresh
  <2>3. pairs' \in [Slots -> Pairs \cup {NoPair}]
    BY <2>1, <2>2, WholeTyped, GenerateTyped DEF TypeOK
  <2> QED BY <1>1, <2>2, <2>3 DEF TypeOK, Refresh, Generate, serviceVars
<1>2. ASSUME NEW t \in Slots, NEW u \in Users, Login(t, u) PROVE TypeOK'
  <2>1. pairs' \in [Slots -> Pairs \cup {NoPair}]
    BY <1>2, GenerateTyped DEF TypeOK, Login
  <2>2. granted' \subseteq Users \X SUBSET Scopes BY <1>2 DEF TypeOK, Login
  <2> QED BY <1>2, <2>1, <2>2 DEF TypeOK, Login, Generate, serviceVars
<1>3. ASSUME NEW t \in Slots, Complete(t) PROVE TypeOK'
  <2>1. CASE file # NoKey /\ pairs' = [pairs EXCEPT ![t].refresh = file]
    <3>1. pairs[t] \in Pairs BY <1>3, WholeTyped DEF Complete
    <3>2. [pairs[t] EXCEPT !.refresh = file] \in Pairs
      BY <3>1, <2>1 DEF Pairs, TypeOK
    <3>3. pairs' \in [Slots -> Pairs \cup {NoPair}] BY <2>1, <3>2 DEF TypeOK
    <3> QED BY <1>3, <3>3 DEF TypeOK, Complete, serviceVars
  <2>2. CASE file = NoKey /\ pairs' = [pairs EXCEPT ![t] = NoPair]
    BY <1>3, <2>2 DEF TypeOK, Complete, serviceVars
  <2> QED BY <1>3, <2>1, <2>2 DEF Complete
<1>4. ASSUME NEW s \in Slots, NEW life \in {AccessLife, RefreshLife}, Enter(s, life)
      PROVE  TypeOK'
  <2>1. visit' \in Visits BY <1>4 DEF Enter, Visits, BffAccepts
  <2> QED BY <1>4, <2>1 DEF TypeOK, Enter, serviceVars
<1>5. ASSUME Admit PROVE TypeOK'
  <2>1. visit' \in Visits BY <1>5 DEF Admit, Visits, TypeOK
  <2> QED BY <1>5, <2>1 DEF TypeOK, Admit, serviceVars
<1>6. ASSUME Leave PROVE TypeOK' BY <1>6 DEF TypeOK, Leave, serviceVars
<1>7. ASSUME NEW x \in Services, Serve(x) PROVE TypeOK'
  BY <1>7 DEF TypeOK, Serve, issuerVars, Entries
<1>8. ASSUME NEW x \in Services, Arrive(x) PROVE TypeOK'
  <2>1. coming[x].key \in Keys BY <1>8 DEF TypeOK, Arrive, Entries
  <2>2. [key |-> coming[x].key, left |-> TTL] \in Entries(TTL) BY <2>1 DEF Entries
  <2>3. Nothing \in Entries(Travel) BY DEF Entries
  <2> QED BY <1>8, <2>2, <2>3 DEF TypeOK, Arrive, issuerVars
<1>9. ASSUME NEW k \in Keys \cup {NoKey}, Rotate(k) PROVE TypeOK'
  <2>1. visit' \in Visits \cup {NoVisit} BY <1>9 DEF TypeOK, Rotate, Visits
  <2> QED BY <1>9, <2>1 DEF TypeOK, Rotate, Horizon, serviceVars
<1>10. ASSUME NEW scope \in SUBSET Scopes, Restart(scope) PROVE TypeOK'
  BY <1>10 DEF TypeOK, Restart, serviceVars
<1>11. ASSUME Tick PROVE TypeOK'
  <2>1. since' \in 0..Horizon BY <1>11 DEF TypeOK, Tick, Horizon
  <2>2. \A s \in Slots : Whole(s) /\ pairs[s].age < RefreshLife + Lag =>
          [pairs[s] EXCEPT !.age = @ + 1] \in Pairs
    BY DEF TypeOK, Pairs, Whole
  <2>3. pairs' \in [Slots -> Pairs \cup {NoPair}] BY <1>11, <2>2 DEF Tick
  <2>4. visit' \in Visits \cup {NoVisit} BY <1>11 DEF TypeOK, Tick
  <2>5. ASSUME NEW x \in Services PROVE Older(cache[x]) \in Entries(TTL)
    BY DEF TypeOK, Older, Entries, Nothing
  <2>6. cache' \in [Services -> Entries(TTL)] BY <1>11, <2>5 DEF Tick
  <2>7. ASSUME NEW x \in Services, coming[x] # Nothing
        PROVE  [coming[x] EXCEPT !.left = @ - 1] \in Entries(Travel)
    BY <1>11, <2>7 DEF TypeOK, Tick, Entries
  <2>8. Nothing \in Entries(Travel) BY DEF Entries
  <2>9. coming' \in [Services -> Entries(Travel)] BY <1>11, <2>7, <2>8 DEF Tick
  <2> QED BY <1>11, <2>1, <2>3, <2>4, <2>6, <2>9 DEF TypeOK, Tick
<1>12. CASE UNCHANGED vars BY <1>12 DEF TypeOK, vars
<1> QED BY <1>1, <1>2, <1>3, <1>4, <1>5, <1>6, <1>7, <1>8, <1>9, <1>10, <1>11, <1>12
  DEF Next

LEMMA TypesFirst == Init => TypeOK
BY DEF Init, TypeOK, Entries, Nothing, Horizon

\* Every variable of the issuer and its services keeps its type.
THEOREM TypeCorrect == Spec => []TypeOK
BY TypesFirst, TypesKept, PTL DEF Spec

-----------------------------------------------------------------------------
(* Scopes.  The scopes of a pair are the very ones of a login.             *)

Granted ==
  \A s \in Slots :
    pairs[s] # NoPair => <<pairs[s].user, pairs[s].scope>> \in granted

LEMMA GrantedKept == ASSUME TypeOK, Granted, [Next]_vars PROVE Granted'
<1>1. ASSUME NEW s \in Slots, NEW t \in Slots, Refresh(s, t) PROVE Granted'
  <2>1. pairs[s] # NoPair BY <1>1 DEF Refresh, Renewable, Whole
  <2> QED BY <1>1, <2>1 DEF Granted, Refresh, Generate, TypeOK
<1>2. ASSUME NEW t \in Slots, NEW u \in Users, Login(t, u) PROVE Granted'
  BY <1>2 DEF Granted, Login, Generate, TypeOK
<1>3. ASSUME NEW t \in Slots, Complete(t) PROVE Granted'
  <2>1. \A s \in Slots : pairs'[s] # NoPair =>
          /\ pairs[s] # NoPair
          /\ pairs'[s].user = pairs[s].user /\ pairs'[s].scope = pairs[s].scope
    BY <1>3, WholeTyped DEF Complete, TypeOK, Pairs
  <2> QED BY <1>3, <2>1 DEF Granted, Complete
<1>4. ASSUME NEW scope \in SUBSET Scopes, Restart(scope) PROVE Granted'
  BY <1>4 DEF Granted, Restart, Whole
<1>5. ASSUME Tick PROVE Granted'
  <2>1. \A s \in Slots : pairs'[s] # NoPair =>
          /\ pairs[s] # NoPair
          /\ pairs'[s].user = pairs[s].user /\ pairs'[s].scope = pairs[s].scope
    BY <1>5, WholeTyped DEF Tick, TypeOK, Pairs, Whole
  <2>2. granted' = granted BY <1>5 DEF Tick
  <2> QED BY <2>1, <2>2 DEF Granted
<1>6. CASE UNCHANGED <<pairs, granted>> BY <1>6 DEF Granted
<1> QED BY <1>1, <1>2, <1>3, <1>4, <1>5, <1>6
  DEF Next, vars, Enter, Admit, Leave, Serve, Arrive, Rotate, issuerVars

\* A pair lets its user do nothing that the user was not given at a login, by
\* require_any or by require_all, however often it is renewed.
THEOREM GrantsBacked == Spec => []GrantBacksPair
<1>1. Init => Granted BY DEF Init, Granted
<1>2. TypeOK /\ Granted /\ [Next]_vars => Granted' BY GrantedKept
<1>3. Granted => GrantBacksPair
  <2> SUFFICES ASSUME Granted, NEW s \in Slots, pairs[s] # NoPair
               PROVE  \E g \in granted :
                 /\ g[1] = pairs[s].user
                 /\ \A required \in SUBSET Scopes :
                      /\ AllowsAny(pairs[s].scope, required) => AllowsAny(g[2], required)
                      /\ AllowsAll(pairs[s].scope, required) => AllowsAll(g[2], required)
    BY DEF GrantBacksPair
  <2>1. <<pairs[s].user, pairs[s].scope>> \in granted BY DEF Granted
  <2> WITNESS <<pairs[s].user, pairs[s].scope>> \in granted
  <2> QED OBVIOUS
<1> QED BY <1>1, <1>2, <1>3, TypeCorrect, PTL DEF Spec

-----------------------------------------------------------------------------
(* Keys.  A key set that is not the file's was served before the file      *)
(* changed, and its time runs out.                                         *)

OnTheWay ==
  \A x \in Services : coming[x] # Nothing /\ coming[x].key # file =>
    since + coming[x].left <= Travel

Cached ==
  \A x \in Services : cache[x].left > 0 /\ cache[x].key # file =>
    since + cache[x].left <= Horizon

LEMMA KeySetsKept ==
  ASSUME TypeOK, OnTheWay, Cached, [Next]_vars
  PROVE  OnTheWay' /\ Cached'
<1>1. ASSUME NEW x \in Services, Serve(x) PROVE OnTheWay' /\ Cached'
  BY <1>1 DEF OnTheWay, Cached, Serve, TypeOK, issuerVars
<1>2. ASSUME NEW x \in Services, Arrive(x) PROVE OnTheWay' /\ Cached'
  <2>1. OnTheWay'
    BY <1>2 DEF OnTheWay, Arrive, TypeOK, issuerVars
  <2>2. coming[x].left \in 0..Travel /\ since \in 0..Horizon
    BY <1>2 DEF Arrive, TypeOK, Entries, Nothing
  <2>3. coming[x].key # file => since <= Travel
    BY <1>2, <2>2 DEF OnTheWay, Arrive, Horizon
  <2>4. Cached'
    BY <1>2, <2>2, <2>3 DEF Cached, Arrive, TypeOK, Horizon, issuerVars
  <2> QED BY <2>1, <2>4
<1>3. ASSUME NEW k \in Keys \cup {NoKey}, Rotate(k) PROVE OnTheWay' /\ Cached'
  <2>1. \A x \in Services : coming[x].left \in 0..Travel /\ cache[x].left \in 0..TTL
    BY DEF TypeOK, Entries, Nothing
  <2> QED BY <1>3, <2>1 DEF OnTheWay, Cached, Rotate, Horizon, serviceVars
<1>4. ASSUME Tick PROVE OnTheWay' /\ Cached'
  <2>1. \A x \in Services : coming[x].left \in 0..Travel /\ cache[x].left \in 0..TTL
    BY DEF TypeOK, Entries, Nothing
  <2>2. since \in 0..Horizon /\ Horizon \in Nat BY DEF TypeOK, Horizon
  <2>3. since' <= since + 1 /\ since' \in 0..Horizon BY <1>4, <2>2 DEF Tick
  <2>4. OnTheWay'
    <3> SUFFICES ASSUME NEW x \in Services, coming'[x] # Nothing, coming'[x].key # file
                 PROVE  since' + coming'[x].left <= Travel
      BY <1>4 DEF OnTheWay, Tick
    <3>1. coming[x] # Nothing /\ coming'[x] = [coming[x] EXCEPT !.left = @ - 1]
      BY <1>4 DEF Tick
    <3>2. coming[x] \in [key : Keys, left : 0..Travel] BY <3>1 DEF TypeOK, Entries
    <3>3. coming'[x].left = coming[x].left - 1 /\ coming'[x].key = coming[x].key
      BY <3>1, <3>2
    <3> QED BY <2>1, <2>2, <2>3, <3>1, <3>3 DEF OnTheWay
  <2>5. Cached'
    <3> SUFFICES ASSUME NEW x \in Services, cache'[x].left > 0, cache'[x].key # file
                 PROVE  since' + cache'[x].left <= Horizon
      BY <1>4 DEF Cached, Tick, Horizon
    <3>1. cache'[x] = Older(cache[x]) BY <1>4 DEF Tick
    <3>2. cache[x].left > 1 BY <2>1, <3>1 DEF Older, Nothing
    <3>3. cache[x] \in [key : Keys, left : 0..TTL] BY <3>2 DEF TypeOK, Entries, Nothing
    <3>4. cache'[x].left = cache[x].left - 1 /\ cache'[x].key = cache[x].key
      BY <3>1, <3>2, <3>3 DEF Older
    <3> QED BY <2>1, <2>2, <2>3, <3>2, <3>4 DEF Cached
  <2> QED BY <2>4, <2>5
<1>5. CASE UNCHANGED <<file, since, cache, coming>> BY <1>5 DEF OnTheWay, Cached, Horizon
<1> QED BY <1>1, <1>2, <1>3, <1>4, <1>5
  DEF Next, vars, Refresh, Generate, Login, Complete, Enter, Admit, Leave, Restart, serviceVars

\* A service that has a key set agrees with the BFF about every token, once the
\* key file has rested for the TTL and the way of a key set.
THEOREM KeysSpread == Spec => []ServicesAgree
<1>1. Init => OnTheWay /\ Cached BY DEF Init, OnTheWay, Cached, Nothing
<1>2. TypeOK /\ OnTheWay /\ Cached /\ [Next]_vars => OnTheWay' /\ Cached'
  BY KeySetsKept
<1>3. TypeOK /\ Cached => ServicesAgree
  <2> SUFFICES ASSUME TypeOK, Cached, since = Horizon, NEW x \in Services, NEW s \in Slots,
                      NEW life \in {AccessLife, RefreshLife}, cache[x].left > 0, Whole(s)
               PROVE  /\ BffAccepts(s, life) /\ pairs[s].age >= Lag =>
                            ServiceAccepts(x, s, life)
                      /\ ServiceAccepts(x, s, life) =>
                            BffAccepts(s, life) \/ pairs[s].age > life
    BY DEF ServicesAgree
  <2>1. cache[x].left \in Nat /\ Horizon \in Nat
    BY DEF TypeOK, Entries, Nothing, Horizon
  <2>2. cache[x].key = file BY <2>1 DEF Cached
  <2>3. pairs[s].age \in Nat BY WholeTyped DEF Whole
  <2> QED BY <2>2, <2>3 DEF BffAccepts, ServiceAccepts
<1> QED BY <1>1, <1>2, <1>3, TypeCorrect, PTL DEF Spec

-----------------------------------------------------------------------------
(* New pairs.  A pair is younger than the last change of the file, or it   *)
(* carries the key the file had before.                                    *)

SignedByFile ==
  \A s \in Slots : pairs[s] # NoPair /\ since > pairs[s].age =>
    pairs[s].access = file /\ pairs[s].refresh \in {file, NoKey}

LEMMA SignedByFileKept ==
  ASSUME TypeOK, SignedByFile, [Next]_vars
  PROVE  SignedByFile'
<1>1. ASSUME NEW t \in Slots, NEW user, NEW scope, Generate(t, user, scope, file)
      PROVE  SignedByFile'
  BY <1>1 DEF SignedByFile, Generate, TypeOK
<1>2. ASSUME NEW t \in Slots, Complete(t) PROVE SignedByFile'
  <2>1. pairs[t].age \in Nat /\ pairs[t] \in Pairs BY <1>2, WholeTyped DEF Complete
  <2>2. CASE pairs' = [pairs EXCEPT ![t].refresh = file]
    <3>1. pairs'[t].refresh = file /\ pairs'[t].access = pairs[t].access
            /\ pairs'[t].age = pairs[t].age /\ pairs[t] # NoPair
      BY <1>2, <2>1, <2>2 DEF TypeOK, Pairs, Complete
    <3>2. \A s \in Slots \ {t} : pairs'[s] = pairs[s] BY <2>2 DEF TypeOK
    <3>3. file' = file /\ since' = since BY <1>2 DEF Complete
    <3> QED BY <3>1, <3>2, <3>3 DEF SignedByFile
  <2>3. CASE pairs' = [pairs EXCEPT ![t] = NoPair]
    BY <1>2, <2>3 DEF SignedByFile, Complete, TypeOK
  <2> QED BY <1>2, <2>2, <2>3 DEF Complete
<1>3. ASSUME NEW k \in Keys \cup {NoKey}, Rotate(k) PROVE SignedByFile'
  <2>1. \A s \in Slots : pairs[s] # NoPair => pairs[s].age \in Nat BY WholeTyped
  <2> QED BY <1>3, <2>1 DEF SignedByFile, Rotate
<1>4. ASSUME NEW scope \in SUBSET Scopes, Restart(scope) PROVE SignedByFile'
  BY <1>4 DEF SignedByFile, Restart
<1>5. ASSUME Tick PROVE SignedByFile'
  <2> SUFFICES ASSUME NEW s \in Slots, pairs'[s] # NoPair, since' > pairs'[s].age
               PROVE  pairs'[s].access = file /\ pairs'[s].refresh \in {file, NoKey}
    BY <1>5 DEF SignedByFile, Tick
  <2>1. /\ pairs[s] # NoPair
        /\ pairs'[s] = [pairs[s] EXCEPT !.age = @ + 1]
    BY <1>5 DEF Tick, Whole
  <2>2. pairs[s] \in Pairs /\ pairs[s].age \in Nat BY <2>1, WholeTyped
  <2>3. /\ pairs'[s].age = pairs[s].age + 1
        /\ pairs'[s].access = pairs[s].access /\ pairs'[s].refresh = pairs[s].refresh
    BY <2>1, <2>2 DEF Pairs
  <2>4. since > pairs[s].age
    <3>1. since \in 0..Horizon /\ Horizon \in Nat BY DEF TypeOK, Horizon
    <3>2. since' = IF since < Horizon THEN since + 1 ELSE Horizon BY <1>5 DEF Tick
    <3> QED BY <2>2, <2>3, <3>1, <3>2
  <2> QED BY <2>1, <2>3, <2>4 DEF SignedByFile
<1>6. CASE UNCHANGED <<file, since, pairs>> BY <1>6 DEF SignedByFile
<1> QED BY <1>1, <1>2, <1>3, <1>4, <1>5, <1>6
  DEF Next, vars, Refresh, Login, Enter, Admit, Leave, Serve, Arrive, issuerVars

\* Both tokens of a pair that was issued after the last change of the key file
\* carry the key the BFF verifies with.
THEOREM PairsWork == Spec => []NewPairsWork
<1>1. Init => SignedByFile BY DEF Init, SignedByFile
<1>2. TypeOK /\ SignedByFile /\ [Next]_vars => SignedByFile' BY SignedByFileKept
<1>3. SignedByFile => NewPairsWork BY DEF SignedByFile, NewPairsWork, Whole
<1> QED BY <1>1, <1>2, <1>3, TypeCorrect, PTL DEF Spec

-----------------------------------------------------------------------------
(* Visits.  While the file stays, a token that is refused at the middleware *)
(* stays refused.                                                           *)

ContextFirst ==
  visit # NoVisit =>
    /\ Whole(visit.slot)
    /\ ~visit.changed =>
         /\ BffAccepts(visit.slot, visit.life) => visit.context
         /\ visit.admitted => visit.context

LEMMA SameVisit ==
  ASSUME TypeOK, ContextFirst, visit # NoVisit, visit' = visit, file' = file,
         pairs'[visit.slot] = pairs[visit.slot]
  PROVE  ContextFirst'
BY DEF ContextFirst, Whole, BffAccepts, Signer

LEMMA ContextFirstKept ==
  ASSUME TypeOK, ContextFirst, [Next]_vars
  PROVE  ContextFirst'
<1>1. visit # NoVisit => visit \in Visits BY DEF TypeOK
<1>2. ASSUME NEW t \in Slots, NEW user, NEW scope, NEW key, Generate(t, user, scope, key)
      PROVE  ContextFirst'
  <2>1. visit # NoVisit => pairs'[visit.slot] = pairs[visit.slot]
    BY <1>1, <1>2 DEF Generate, TypeOK, Visits
  <2>2. visit' = visit /\ file' = file BY <1>2 DEF Generate
  <2> QED BY <2>1, <2>2, SameVisit DEF ContextFirst
<1>3. ASSUME NEW t \in Slots, Complete(t) PROVE ContextFirst'
  <2>1. visit # NoVisit => pairs'[visit.slot] = pairs[visit.slot]
    BY <1>1, <1>3 DEF Complete, TypeOK, Visits, ContextFirst, Whole
  <2>2. visit' = visit /\ file' = file BY <1>3 DEF Complete
  <2> QED BY <2>1, <2>2, SameVisit DEF ContextFirst
<1>4. ASSUME NEW s \in Slots, NEW life \in {AccessLife, RefreshLife}, Enter(s, life)
      PROVE  ContextFirst'
  <2>1. /\ visit'.slot = s /\ visit'.life = life /\ visit'.admitted = FALSE
        /\ visit'.context = BffAccepts(s, life)
        /\ file' = file /\ pairs' = pairs /\ Whole(s)
    BY <1>4 DEF Enter
  <2> QED BY <2>1 DEF ContextFirst, Whole, BffAccepts, Signer
<1>5. ASSUME Admit PROVE ContextFirst'
  <2>1. /\ visit'.slot = visit.slot /\ visit'.life = visit.life
        /\ visit'.context = visit.context /\ visit'.changed = visit.changed
        /\ visit # NoVisit /\ file' = file /\ pairs' = pairs
        /\ BffAccepts(visit.slot, visit.life)
    BY <1>1, <1>5 DEF Admit, Visits
  <2> QED BY <2>1 DEF ContextFirst, Whole, BffAccepts, Signer
<1>6. ASSUME NEW k \in Keys \cup {NoKey}, Rotate(k) PROVE ContextFirst'
  <2>1. CASE visit = NoVisit BY <1>6, <2>1 DEF Rotate, ContextFirst
  <2>2. CASE visit # NoVisit
    <3>1. visit'.slot = visit.slot /\ visit'.changed /\ pairs' = pairs
      BY <1>1, <1>6, <2>2 DEF Rotate, Visits
    <3> QED BY <2>2, <3>1 DEF ContextFirst, Whole
  <2> QED BY <2>1, <2>2
<1>7. CASE visit' = NoVisit BY <1>7 DEF ContextFirst
<1>8. ASSUME Tick PROVE ContextFirst'
  <2>1. CASE visit' = NoVisit BY <2>1 DEF ContextFirst
  <2>2. CASE visit' # NoVisit
    <3>1. visit' = visit /\ visit # NoVisit /\ visit.slot \in Slots
            /\ pairs'[visit.slot] # NoPair /\ file' = file
      BY <1>1, <1>8, <2>2 DEF Tick, Visits
    <3>2. /\ pairs[visit.slot] # NoPair
          /\ pairs'[visit.slot] = [pairs[visit.slot] EXCEPT !.age = @ + 1]
      BY <1>8, <3>1 DEF Tick, Whole
    <3>3. pairs[visit.slot] \in Pairs BY <3>1, <3>2, WholeTyped
    <3>4. /\ pairs'[visit.slot].age = pairs[visit.slot].age + 1
          /\ pairs[visit.slot].age \in Nat
          /\ pairs'[visit.slot].access = pairs[visit.slot].access
          /\ pairs'[visit.slot].refresh = pairs[visit.slot].refresh
      BY <3>2, <3>3 DEF Pairs
    <3>5. visit.life \in Nat BY <1>1, <3>1 DEF Visits
    <3>6. BffAccepts(visit.slot, visit.life)' => BffAccepts(visit.slot, visit.life)
      BY <3>1, <3>4, <3>5 DEF BffAccepts, Signer
    <3>7. Whole(visit.slot)' BY <3>1, <3>4 DEF ContextFirst, Whole
    <3> QED BY <3>1, <3>6, <3>7 DEF ContextFirst
  <2> QED BY <2>1, <2>2
<1>9. CASE UNCHANGED <<file, pairs, visit>>
  BY <1>9, SameVisit DEF ContextFirst
<1> QED BY <1>2, <1>3, <1>4, <1>5, <1>6, <1>7, <1>8, <1>9
  DEF Next, vars, Refresh, Login, Leave, Restart, Serve, Arrive, issuerVars

\* A request that is admitted has its user context, unless the key file has
\* changed between the middleware and the route.
THEOREM ContextComesFirst == Spec => []AdmittedHasContext
<1>1. Init => ContextFirst BY DEF Init, ContextFirst
<1>2. TypeOK /\ ContextFirst /\ [Next]_vars => ContextFirst' BY ContextFirstKept
<1>3. ContextFirst => AdmittedHasContext BY DEF ContextFirst, AdmittedHasContext
<1> QED BY <1>1, <1>2, <1>3, TypeCorrect, PTL DEF Spec
-----------------------------------------------------------------------------
(* Key sets, seen from a service: a cache of one of them.                  *)

\* An entry without time left is gone.
Dropped == \A x \in Services : cache[x].left = 0 => cache[x] = Nothing

LEMMA DroppedKept == ASSUME TypeOK, Dropped, [Next]_vars PROVE Dropped'
<1>1. ASSUME NEW x \in Services, Arrive(x) PROVE Dropped'
  BY <1>1 DEF Dropped, Arrive, TypeOK
<1>2. ASSUME Tick PROVE Dropped'
  <2> SUFFICES ASSUME NEW x \in Services, cache'[x].left = 0
               PROVE  cache'[x] = Nothing
    BY DEF Dropped, Nothing
  <2>1. cache'[x] = Older(cache[x]) BY <1>2 DEF Tick
  <2>2. cache[x] \in Entries(TTL) BY DEF TypeOK
  <2>3. cache[x].left > 1 => cache'[x].left = cache[x].left - 1 /\ cache[x].left \in Nat
    BY <2>1, <2>2 DEF Older, Entries, Nothing
  <2> QED BY <2>1, <2>3 DEF Older
<1>3. CASE UNCHANGED cache BY <1>3 DEF Dropped, Nothing
<1> QED BY <1>1, <1>2, <1>3
  DEF Next, vars, Refresh, Generate, Login, Complete, Enter, Admit, Leave, Serve, Rotate,
      Restart, serviceVars, issuerVars

\* What an entry becomes in a tick, as a set of at most one entry.
LEMMA OlderEntered ==
  ASSUME NEW entry \in Entries(TTL), entry.left = 0 => entry = Nothing
  PROVE  Entered(Older(entry)) =
           {[keys |-> e.keys, left |-> e.left - 1] : e \in {d \in Entered(entry) : d.left > 1}}
<1> DEFINE Later(e) == [keys |-> e.keys, left |-> e.left - 1]
           Old == {d \in Entered(entry) : d.left > 1}
<1>1. CASE entry.left > 1
  <2>1. entry \in [key : Keys, left : 0..TTL] /\ entry # Nothing
    BY <1>1 DEF Entries, Nothing
  <2>2. Old = {[keys |-> entry.key, left |-> entry.left]}
    BY <1>1, <2>1 DEF Entered
  <2>3. /\ Older(entry) # Nothing
        /\ Older(entry).key = entry.key /\ Older(entry).left = entry.left - 1
    BY <1>1, <2>1 DEF Older, Nothing
  <2>4. Entered(Older(entry)) = {[keys |-> entry.key, left |-> entry.left - 1]}
    BY <2>3 DEF Entered
  <2>5. Later([keys |-> entry.key, left |-> entry.left])
          = [keys |-> entry.key, left |-> entry.left - 1]
    OBVIOUS
  <2>6. {Later(e) : e \in Old} = {Later([keys |-> entry.key, left |-> entry.left])}
    <3> HIDE DEF Later, Old
    <3> QED BY <2>2
  <2> QED BY <2>4, <2>5, <2>6
<1>2. CASE ~(entry.left > 1)
  <2>1. Entered(Older(entry)) = {}
    BY <1>2 DEF Older, Entered
  <2>2. Old = {}
    BY <1>2 DEF Entered
  <2> QED BY <2>1, <2>2
<1> QED BY <1>1, <1>2

LEMMA TravelEntered ==
  ASSUME NEW entry \in Entries(Travel), entry # Nothing
  PROVE  Entered([entry EXCEPT !.left = @ - 1]) =
           {[keys |-> e.keys, left |-> e.left - 1] : e \in Entered(entry)}
<1> DEFINE Later(e) == [keys |-> e.keys, left |-> e.left - 1]
           sent == [keys |-> entry.key, left |-> entry.left]
           next == [entry EXCEPT !.left = @ - 1]
<1>1. entry \in [key : Keys, left : 0..Travel]
  BY DEF Entries
<1>2. next # Nothing /\ next.key = entry.key /\ next.left = entry.left - 1
  BY <1>1 DEF Nothing
<1>3. Later(sent) = [keys |-> entry.key, left |-> entry.left - 1]
  OBVIOUS
<1>4. Entered(next) = {Later(sent)}
  BY <1>2, <1>3 DEF Entered
<1>5. Entered(entry) = {sent}
  BY DEF Entered
<1>6. {Later(e) : e \in {sent}} = {Later(sent)}
  <2> HIDE DEF Later, sent
  <2> QED OBVIOUS
<1> QED BY <1>4, <1>5, <1>6

LEMMA RecentTicks ==
  ASSUME TypeOK, Tick
  PROVE  {n \in 1..Horizon : since' < n} =
           {n \in 1..Horizon : n - 1 \in {m \in 1..Horizon : since < m}}
<1>1. since \in 0..Horizon /\ Horizon \in Nat
  BY DEF TypeOK, Horizon
<1>2. since' = IF since < Horizon THEN since + 1 ELSE Horizon
  BY DEF Tick
<1> QED BY <1>1, <1>2
\* Every step is, to every service, a step of the cache or of no concern.
LEMMA KeySetStep ==
  ASSUME TypeOK, Dropped, [Next]_vars, NEW x \in Services
  PROVE  [KeySet(x)!Next]_(KeySet(x)!cacheVars)
<1>1. UNCHANGED <<file, since, cache, coming>> => UNCHANGED KeySet(x)!cacheVars
  BY DEF KeySet!cacheVars, Entered
<1>2. ASSUME NEW y \in Services, Serve(y)
      PROVE  KeySet(x)!Answer \/ UNCHANGED KeySet(x)!cacheVars
  <2>1. CASE y = x
    <3>1. /\ cache[x] = Nothing /\ coming[x] = Nothing
          /\ coming'[x] = [key |-> file, left |-> Travel]
          /\ UNCHANGED <<file, since, cache>>
      BY <1>2, <2>1 DEF Serve, Dropped, TypeOK, issuerVars
    <3>2. coming'[x] # Nothing
      BY <1>2, <3>1 DEF Serve, Nothing
    <3>3. Entered(cache[x]) = {} /\ Entered(coming[x]) = {}
      BY <3>1 DEF Entered
    <3>4. Entered(coming'[x]) = {[keys |-> file, left |-> Travel]}
      BY <3>1, <3>2 DEF Entered
    <3> QED BY <3>1, <3>3, <3>4 DEF KeySet!Answer, KeySet!Entry
  <2>2. CASE y # x
    <3>1. cache'[x] = cache[x] /\ coming'[x] = coming[x] /\ UNCHANGED <<file, since>>
      BY <1>2, <2>2 DEF Serve, TypeOK, issuerVars
    <3> QED BY <3>1 DEF KeySet!cacheVars
  <2> QED BY <2>1, <2>2
<1>3. ASSUME NEW y \in Services, Arrive(y)
      PROVE  KeySet(x)!Store \/ KeySet(x)!Lose \/ UNCHANGED KeySet(x)!cacheVars
  <2>1. CASE y = x
    <3>1. /\ coming[x] # Nothing /\ coming'[x] = Nothing
          /\ UNCHANGED <<file, since>>
      BY <1>3, <2>1 DEF Arrive, TypeOK, issuerVars
    <3>2. Entered(coming'[x]) = {}
      BY <3>1 DEF Entered
    <3>3. CASE cache' = cache
      BY <3>1, <3>2, <3>3 DEF KeySet!Lose
    <3>4. CASE cache' = [cache EXCEPT ![x] = [key |-> coming[x].key, left |-> TTL]]
      <4>1. Entered(coming[x]) = {[keys |-> coming[x].key, left |-> coming[x].left]}
        BY <3>1 DEF Entered
      <4>2. cache'[x] = [key |-> coming[x].key, left |-> TTL]
        BY <3>4 DEF TypeOK
      <4>3. cache'[x] # Nothing
        BY <4>2 DEF Nothing
      <4>4. Entered(cache'[x]) = {[keys |-> coming[x].key, left |-> TTL]}
        BY <4>2, <4>3 DEF Entered
      <4> QED BY <3>1, <3>2, <4>1, <4>4 DEF KeySet!Store, KeySet!Entry
    <3> QED BY <1>3, <2>1, <3>3, <3>4 DEF Arrive
  <2>2. CASE y # x
    <3>1. cache'[x] = cache[x] /\ coming'[x] = coming[x] /\ UNCHANGED <<file, since>>
      BY <1>3, <2>2 DEF Arrive, TypeOK, issuerVars
    <3> QED BY <3>1 DEF KeySet!cacheVars
  <2> QED BY <2>1, <2>2
<1>4. ASSUME NEW k \in Keys \cup {NoKey}, Rotate(k)
      PROVE  KeySet(x)!Publish
  <2>1. /\ file' \in Keys \cup {NoKey} /\ since' = 0
        /\ cache' = cache /\ coming' = coming
    BY <1>4 DEF Rotate, serviceVars
  <2>2. {n \in 1..Horizon : since' < n} = 1..(TTL + Travel)
    BY <2>1 DEF Horizon
  <2> QED BY <2>1, <2>2 DEF KeySet!Publish, KeySet!Spans, Entered
<1>5. ASSUME Tick
      PROVE  KeySet(x)!Tick
  <2>1. file' = file
    BY <1>5 DEF Tick
  <2>2. {n \in 1..Horizon : since' < n} =
          {n \in 1..(TTL + Travel) : n - 1 \in {m \in 1..Horizon : since < m}}
    BY <1>5, RecentTicks DEF Horizon
  <2>3. Entered(cache'[x]) =
          {[keys |-> e.keys, left |-> e.left - 1] :
             e \in {d \in Entered(cache[x]) : d.left > 1}}
    <3>1. cache'[x] = Older(cache[x]) /\ cache[x] \in Entries(TTL)
      BY <1>5 DEF Tick, TypeOK
    <3>2. cache[x].left = 0 => cache[x] = Nothing
      BY DEF Dropped
    <3> QED BY <3>1, <3>2, OlderEntered
  <2>4. /\ \A e \in Entered(coming[x]) : e.left > 0
        /\ Entered(coming'[x]) =
             {[keys |-> e.keys, left |-> e.left - 1] : e \in Entered(coming[x])}
    <3>1. CASE coming[x] = Nothing
      <4>1. coming'[x] = Nothing
        BY <1>5, <3>1 DEF Tick
      <4>2. Entered(coming[x]) = {} /\ Entered(coming'[x]) = {}
        BY <3>1, <4>1 DEF Entered
      <4> QED BY <4>2
    <3>2. CASE coming[x] # Nothing
      <4>1. /\ coming'[x] = [coming[x] EXCEPT !.left = @ - 1]
            /\ coming[x] \in Entries(Travel) /\ coming[x].left > 0
        BY <1>5, <3>2 DEF Tick, TypeOK
      <4>2. \A e \in Entered(coming[x]) : e.left > 0
        BY <4>1 DEF Entered
      <4> QED BY <3>2, <4>1, <4>2, TravelEntered
    <3> QED BY <3>1, <3>2
  <2> QED BY <2>1, <2>2, <2>3, <2>4 DEF KeySet!Tick, KeySet!Entry, KeySet!Spans
<1>6. CASE UNCHANGED <<file, since, cache, coming>>
  BY <1>1, <1>6
<1> QED BY <1>2, <1>3, <1>4, <1>5, <1>6
  DEF KeySet!Next, Next, vars, Refresh, Generate, Login, Complete, Enter, Admit, Leave,
      Restart, serviceVars

\* A service is given nothing, and keeps nothing, that a cache of one key set
\* would not give it and drop in time; JwksProvider implements the same cache.
THEOREM ServicesCacheOne == Spec => ServicesCacheKeySet
<1>1. Init => \A x \in Services : KeySet(x)!Init
  <2> SUFFICES ASSUME Init, NEW x \in Services PROVE KeySet(x)!Init
    OBVIOUS
  <2>1. {n \in 1..Horizon : since < n} = {}
    BY DEF Init, Horizon
  <2>2. Entered(cache[x]) = {} /\ Entered(coming[x]) = {}
    BY DEF Init, Entered
  <2> QED BY <2>1, <2>2 DEF Init, KeySet!Init
<1>2. Init => Dropped
  BY DEF Init, Dropped
<1>3. TypeOK /\ Dropped /\ [Next]_vars => Dropped'
  BY DroppedKept
<1>4. TypeOK /\ Dropped /\ [Next]_vars =>
        [\A x \in Services : [KeySet(x)!Next]_(KeySet(x)!cacheVars)]_vars
  BY KeySetStep
<1> QED BY <1>1, <1>2, <1>3, <1>4, TypeCorrect, PTL DEF Spec, ServicesCacheKeySet
=============================================================================
