------------------------------- MODULE Tokens -------------------------------
(***************************************************************************)
(* zrun_bff.auth and zrun_core.auth: the token pairs the BFF issues and    *)
(* renews, the requests it admits with them, and the services that verify  *)
(* them with the key set of the BFF, while somebody replaces the key file  *)
(* and time passes.                                                        *)
(*                                                                         *)
(* The kid in a token and in the key set is a setting, "key-1" whatever    *)
(* key it names, so a token is verified with the key that is cached.  How  *)
(* a service comes to cache one key set at a time is in JwksProvider.      *)
(* jose takes a token from nbf to exp, both included, with no leeway.      *)
(***************************************************************************)
EXTENDS Naturals

CONSTANTS
  Users, Scopes,
  Keys,        \* private keys, each with its public key
  NoKey,       \* there is no such file
  Slots,       \* places where clients keep their token pairs
  NoPair, NoVisit,
  Services,    \* services with an AuthInterceptor
  AccessLife,  \* jwt_expiration_seconds
  RefreshLife, \* jwt_refresh_expiration_seconds
  TTL,         \* cache_ttl_seconds of the services
  Travel,      \* bound on the way of a key set
  Lag          \* how far the clocks of the services are behind

Pairs == [user : Users, scope : SUBSET Scopes, access : Keys,
          refresh : Keys \cup {NoKey}, age : 0..(RefreshLife + Lag)]

Visits == [slot : Slots, life : {AccessLife, RefreshLife}, context : BOOLEAN,
           admitted : BOOLEAN, changed : BOOLEAN]

ASSUME TokensAssumption ==
  /\ NoKey \notin Keys /\ NoPair \notin Pairs /\ NoVisit \notin Visits
  /\ AccessLife \in Nat /\ RefreshLife \in Nat /\ AccessLife < RefreshLife
  /\ TTL \in Nat \ {0} /\ Travel \in Nat /\ Lag \in Nat

VARIABLES
  file,     \* what jwt_private_key reads
  since,    \* ticks since it changed
  default,  \* default_scopes, cached by get_config
  granted,  \* history: who was given which scopes at a login
  pairs,    \* per slot: a pair of tokens; its refresh token may still be missing
  visit,    \* a request between UserContextMiddleware and its answer
  cache,    \* per service: the key of the key set it has, and for how long
  coming    \* per service: the key on the way to it, and for how long at most

vars == <<file, since, default, granted, pairs, visit, cache, coming>>

issuerVars == <<file, since, default, granted, pairs, visit>>

serviceVars == <<cache, coming>>

-----------------------------------------------------------------------------
\* Time is counted up to the point where nothing depends on it any more.
Horizon == TTL + Travel

Nothing == [key |-> NoKey, left |-> 0]

Init ==
  /\ file \in Keys /\ since = Horizon
  /\ default \in SUBSET Scopes
  /\ granted = {}
  /\ pairs = [s \in Slots |-> NoPair]
  /\ visit = NoVisit
  /\ cache = [x \in Services |-> Nothing]
  /\ coming = [x \in Services |-> Nothing]

Whole(s) == pairs[s] # NoPair /\ pairs[s].refresh # NoKey

\* generate_token_pair is at its second generate_token.  It awaits nothing, so
\* the BFF does nothing else.
Busy == \E s \in Slots : pairs[s] # NoPair /\ pairs[s].refresh = NoKey

\* The key that signed the token of s that lives that long.
Signer(s, life) == IF life = AccessLife THEN pairs[s].access ELSE pairs[s].refresh

\* verify_jwt_with_config: what the file says now, and no word of token_type.
BffAccepts(s, life) == Signer(s, life) = file /\ pairs[s].age <= life

\* _validate_token, while the key set is there.
ServiceAccepts(x, s, life) ==
  /\ Signer(s, life) = cache[x].key
  /\ Lag <= pairs[s].age /\ pairs[s].age <= life + Lag

\* check_scope_any and check_scope_all.
AllowsAny(scope, required) == scope \cap required # {}

AllowsAll(scope, required) == required \subseteq scope

-----------------------------------------------------------------------------
(* Pairs. *)

\* generate_token_pair up to the access token.
Generate(t, user, scope, key) ==
  /\ ~Busy /\ (visit # NoVisit => visit.slot # t)
  /\ key # NoKey
  /\ pairs' = [pairs EXCEPT ![t] =
       [user |-> user, scope |-> scope, access |-> key, refresh |-> NoKey, age |-> 0]]
  /\ UNCHANGED <<file, since, default, visit, serviceVars>>

\* The end of oauth_callback, when Casdoor has vouched for the user.
Login(t, user) ==
  /\ Generate(t, user, default, file)
  /\ granted' = granted \cup {<<user, default>>}

Renewable(s) == Whole(s) /\ pairs[s].age <= RefreshLife

\* Mutant of Refresh: a renewed pair has the scopes of the day.
RefreshDefault(s, t) ==
  /\ Renewable(s)
  /\ Generate(t, pairs[s].user, default, file)
  /\ UNCHANGED granted

\* Mutant of Refresh: the key that verified the old token signs the new one.
RefreshSameKey(s, t) ==
  /\ Renewable(s)
  /\ Generate(t, pairs[s].user, pairs[s].scope, pairs[s].refresh)
  /\ UNCHANGED granted

\* refresh_access_token.  The key it verifies with may come from a file of its
\* own, which holds whatever somebody puts there, so any signature may pass or
\* not.  The old pair stays as good as it was.
Refresh(s, t) ==
  /\ Renewable(s)
  /\ Generate(t, pairs[s].user, pairs[s].scope, file)
  /\ UNCHANGED granted

\* The rest of generate_token_pair: the file is read again.  If it is gone the
\* request fails and nobody gets the access token.
Complete(t) ==
  /\ pairs[t] # NoPair /\ pairs[t].refresh = NoKey
  /\ \/ file # NoKey /\ pairs' = [pairs EXCEPT ![t].refresh = file]
     \/ file = NoKey /\ pairs' = [pairs EXCEPT ![t] = NoPair]
  /\ UNCHANGED <<file, since, default, granted, visit, serviceVars>>

-----------------------------------------------------------------------------
(* A request with a token of either type. *)

\* Mutant of Enter: the middleware takes access tokens only.
EnterAccessOnly(s, life) ==
  /\ ~Busy /\ visit = NoVisit /\ Whole(s)
  /\ visit' = [slot |-> s, life |-> life, admitted |-> FALSE, changed |-> FALSE,
               context |-> BffAccepts(s, life) /\ life = AccessLife]
  /\ UNCHANGED <<file, since, default, granted, pairs, serviceVars>>

\* UserContextMiddleware: whatever is wrong, the request goes on without a user
\* context, and its gRPC calls without metadata.
Enter(s, life) ==
  /\ ~Busy /\ visit = NoVisit /\ Whole(s)
  /\ visit' = [slot |-> s, life |-> life, admitted |-> FALSE, changed |-> FALSE,
               context |-> BffAccepts(s, life)]
  /\ UNCHANGED <<file, since, default, granted, pairs, serviceVars>>

\* get_current_user and require_any or require_all let it in.
Admit ==
  /\ ~Busy /\ visit # NoVisit /\ ~visit.admitted
  /\ BffAccepts(visit.slot, visit.life)
  /\ visit' = [visit EXCEPT !.admitted = TRUE]
  /\ UNCHANGED <<file, since, default, granted, pairs, serviceVars>>

\* They answer 401 or 403, or, when the key file is gone, 500; or the route has
\* answered.
Leave ==
  /\ ~Busy /\ visit # NoVisit
  /\ visit' = NoVisit
  /\ UNCHANGED <<file, since, default, granted, pairs, serviceVars>>

-----------------------------------------------------------------------------
(* The key set. *)

\* Mutant of Serve: a service asks again while it has a key set.
ServeEagerly(x) ==
  /\ ~Busy /\ coming[x] = Nothing
  /\ file # NoKey
  /\ coming' = [coming EXCEPT ![x] = [key |-> file, left |-> Travel]]
  /\ UNCHANGED <<issuerVars, cache>>

\* jwks_endpoint answers a service whose cache has expired; without a key file
\* it fails.
Serve(x) ==
  /\ ~Busy /\ cache[x].left = 0 /\ coming[x] = Nothing
  /\ file # NoKey
  /\ coming' = [coming EXCEPT ![x] = [key |-> file, left |-> Travel]]
  /\ UNCHANGED <<issuerVars, cache>>

\* The service stores it, or does not get it.
Arrive(x) ==
  /\ coming[x] # Nothing
  /\ \/ cache' = [cache EXCEPT ![x] = [key |-> coming[x].key, left |-> TTL]]
     \/ UNCHANGED cache
  /\ coming' = [coming EXCEPT ![x] = Nothing]
  /\ UNCHANGED issuerVars

-----------------------------------------------------------------------------
(* The file, the process, the time. *)

\* Somebody replaces the key file, or takes it away.
Rotate(k) ==
  /\ k # file
  /\ file' = k /\ since' = 0
  /\ visit' = IF visit = NoVisit THEN NoVisit ELSE [visit EXCEPT !.changed = TRUE]
  /\ UNCHANGED <<default, granted, pairs, serviceVars>>

\* The BFF is started again, with other default scopes perhaps.
Restart(scope) ==
  /\ default' = scope
  /\ pairs' = [s \in Slots |-> IF Whole(s) THEN pairs[s] ELSE NoPair]
  /\ visit' = NoVisit
  /\ UNCHANGED <<file, since, granted, serviceVars>>

\* Mutant of Older: the cache forgets to expire.
OlderForever(entry) == entry

\* What is left of a cache entry a tick later.
Older(entry) ==
  IF entry.left > 1 THEN [entry EXCEPT !.left = @ - 1] ELSE Nothing

\* Pairs that nobody accepts any more are forgotten.
Tick ==
  /\ ~Busy
  /\ \A x \in Services : coming[x] # Nothing => coming[x].left > 0
  /\ since' = IF since < Horizon THEN since + 1 ELSE Horizon
  /\ pairs' = [s \in Slots |->
       IF Whole(s) /\ pairs[s].age < RefreshLife + Lag
       THEN [pairs[s] EXCEPT !.age = @ + 1] ELSE NoPair]
  /\ visit' = IF visit # NoVisit /\ pairs'[visit.slot] = NoPair THEN NoVisit ELSE visit
  /\ cache' = [x \in Services |-> Older(cache[x])]
  /\ coming' = [x \in Services |->
       IF coming[x] = Nothing THEN Nothing ELSE [coming[x] EXCEPT !.left = @ - 1]]
  /\ UNCHANGED <<file, default, granted>>

-----------------------------------------------------------------------------
Next ==
  \/ \E s, t \in Slots : Refresh(s, t)
  \/ \E s \in Slots : \/ Complete(s)
                      \/ \E u \in Users : Login(s, u)
                      \/ \E life \in {AccessLife, RefreshLife} : Enter(s, life)
  \/ Admit \/ Leave
  \/ \E x \in Services : Serve(x) \/ Arrive(x)
  \/ \E k \in Keys \cup {NoKey} : Rotate(k)
  \/ \E scope \in SUBSET Scopes : Restart(scope)
  \/ Tick

Spec == Init /\ [][Next]_vars

-----------------------------------------------------------------------------
(* Properties. *)

Entries(most) ==
  [key : Keys, left : 0..most] \cup {Nothing}

\* Every variable holds a value of its type.
TypeOK ==
  /\ file \in Keys \cup {NoKey} /\ since \in 0..Horizon
  /\ default \in SUBSET Scopes /\ granted \subseteq Users \X SUBSET Scopes
  /\ pairs \in [Slots -> Pairs \cup {NoPair}]
  /\ visit \in Visits \cup {NoVisit}
  /\ cache \in [Services -> Entries(TTL)]
  /\ coming \in [Services -> Entries(Travel)]

\* Whatever a pair lets its user do, by require_any or by require_all, the user
\* was given at a login: renewing a pair adds nothing, although the default
\* scopes may have changed meanwhile.
GrantBacksPair ==
  \A s \in Slots : pairs[s] # NoPair =>
    \E g \in granted :
      /\ g[1] = pairs[s].user
      /\ \A required \in SUBSET Scopes :
           /\ AllowsAny(pairs[s].scope, required) => AllowsAny(g[2], required)
           /\ AllowsAll(pairs[s].scope, required) => AllowsAll(g[2], required)

\* When the key file has not changed for the TTL and the way of a key set, a
\* service that has a key set agrees with the BFF about every token, but for
\* what its clock is behind: it refuses the token that long at first, and takes
\* it that long after its end.
ServicesAgree ==
  since = Horizon =>
    \A x \in Services, s \in Slots, life \in {AccessLife, RefreshLife} :
      cache[x].left > 0 /\ Whole(s) =>
        /\ BffAccepts(s, life) /\ pairs[s].age >= Lag => ServiceAccepts(x, s, life)
        /\ ServiceAccepts(x, s, life) => BffAccepts(s, life) \/ pairs[s].age > life

Entered(entry) ==
  IF entry = Nothing THEN {} ELSE {[keys |-> entry.key, left |-> entry.left]}

KeySet(x) ==
  INSTANCE KeySetCache WITH KeySets <- Keys \cup {NoKey},
                            source <- file, recent <- {n \in 1..Horizon : since < n},
                            cached <- Entered(cache[x]), coming <- Entered(coming[x])

\* To every service the BFF is the source of a cache of one key set: the bounds
\* on its JWKSProvider that JwksProvider implements hold here as well, whatever
\* files replace each other and whoever starts the BFF again.
ServicesCacheKeySet ==
  /\ \A x \in Services : KeySet(x)!Init
  /\ [][\A x \in Services : [KeySet(x)!Next]_(KeySet(x)!cacheVars)]_vars

\* A pair that was issued after the last change of the key file works: both of
\* its tokens carry the key the BFF verifies with, although the file is read
\* once for each.
NewPairsWork ==
  \A s \in Slots : Whole(s) /\ since > pairs[s].age =>
    pairs[s].access = file /\ pairs[s].refresh = file

\* A request that is admitted has its user context, so its gRPC calls carry the
\* user, unless the key file has changed between the middleware and the route.
AdmittedHasContext ==
  visit # NoVisit => (visit.admitted /\ ~visit.changed => visit.context)
=============================================================================
