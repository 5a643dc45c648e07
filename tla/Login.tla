-------------------------------- MODULE Login --------------------------------
(***************************************************************************)
(* zrun_bff.auth: the OAuth login of one browser with several tabs, the    *)
(* session it keeps in a signed cookie, and Casdoor, which is modelled     *)
(* from what the BFF asks of it.                                           *)
(*                                                                         *)
(* A session holds the state parameter of a login, or nothing.  Browsers   *)
(* share nothing, so there is one; it may have a cookie, and pages of      *)
(* Casdoor, from the time of an earlier build.                             *)
(***************************************************************************)
CONSTANTS
  Tabs,
  States,     \* state parameters
  NoState,    \* none of them
  Issuers     \* what a token of Casdoor may say in iss

VARIABLES
  cookie,     \* the state in the session cookie
  issued,     \* the state parameters that were drawn
  page,       \* per tab: the state with which it is at Casdoor
  dict,       \* the session objects, one per request
  request,    \* per tab: its request to the BFF
  newest      \* history: the state of the login whose callback is due

vars == <<cookie, issued, page, dict, request, newest>>

-----------------------------------------------------------------------------
(* A request has the two variables of SessionMiddleware.dispatch, which    *)
(* name the session object of a tab; state is the query parameter of the   *)
(* callback and, in the answer to a login, of the redirection.             *)
Idle == [step |-> "idle"]

Requests ==
  [step : {"login", "callback", "exchange", "verify", "issue", "answer"},
   state : States \cup {NoState},
   session : Tabs, session_data : Tabs,
   reply : {"none", "redirect", "missing", "invalid", "unauthorized", "error", "pair"}]

Init ==
  /\ cookie \in States \cup {NoState}
  /\ issued = {cookie} \ {NoState}
  /\ page \in [Tabs -> issued \cup {NoState}]
  /\ dict = [t \in Tabs |-> NoState]
  /\ request = [t \in Tabs |-> Idle]
  /\ newest = NoState

\* SessionMiddleware.dispatch up to call_next: request.state.session is the
\* object that was loaded.
Load(t, step, state) ==
  /\ dict' = [dict EXCEPT ![t] = cookie]
  /\ request' = [request EXCEPT ![t] =
       [step |-> step, state |-> state, reply |-> "none",
        session |-> t, session_data |-> t]]

Visit(t) ==
  /\ request[t] = Idle
  /\ Load(t, "login", NoState)
  /\ page' = [page EXCEPT ![t] = NoState]
  /\ UNCHANGED <<cookie, issued, newest>>

\* Casdoor sends the tab to the callback, with the state it came with.
Return(t) ==
  /\ request[t] = Idle /\ page[t] # NoState
  /\ Load(t, "callback", page[t])
  /\ page' = [page EXCEPT ![t] = NoState]
  /\ UNCHANGED <<cookie, issued, newest>>

Answer(t, reply) ==
  request' = [request EXCEPT ![t].step = "answer", ![t].reply = reply]

Proceed(t, step) == request' = [request EXCEPT ![t].step = step]

-----------------------------------------------------------------------------
\* login_redirect.  Two draws of token_urlsafe never agree.
LoginRedirect(t) ==
  /\ request[t].step = "login"
  /\ \E state \in States \ issued :
       /\ issued' = issued \cup {state}
       /\ dict' = [dict EXCEPT ![request[t].session] = state]
       /\ request' = [request EXCEPT ![t].step = "answer", ![t].state = state,
                                     ![t].reply = "redirect"]
  /\ UNCHANGED <<cookie, page, newest>>

\* oauth_callback up to the exchange: the state leaves the session.
OAuthCallback(t) ==
  LET stored == dict[request[t].session] IN
  /\ request[t].step = "callback"
  /\ dict' = [dict EXCEPT ![request[t].session] = NoState]
  /\ \/ stored = NoState /\ Answer(t, "missing")
     \/ stored # NoState /\ request[t].state # stored /\ Answer(t, "invalid")
     \/ stored # NoState /\ request[t].state = stored /\ Proceed(t, "exchange")
  /\ UNCHANGED <<cookie, issued, page, newest>>

\* The answer of the token endpoint: an error status or no access_token is 401;
\* what httpx or json() raise otherwise is caught by nobody.
Exchange(t) ==
  /\ request[t].step = "exchange"
  /\ \/ Proceed(t, "verify")
     \/ Answer(t, "unauthorized")
     \/ Answer(t, "error")
  /\ UNCHANGED <<cookie, issued, page, dict, newest>>

\* jose compares iss with the issuer it is given, which is the empty string.
IssuerAccepted(iss) == iss = ""

\* verify_casdoor_token_async and the test of sub.
VerifyCasdoorToken(t) ==
  /\ request[t].step = "verify"
  /\ \/ \E iss \in Issuers : IssuerAccepted(iss) /\ Proceed(t, "issue")
     \/ Answer(t, "unauthorized")
  /\ UNCHANGED <<cookie, issued, page, dict, newest>>

\* generate_token_pair, or 500 when there is no key to sign with.
IssuePair(t) ==
  /\ request[t].step = "issue"
  /\ Answer(t, "pair") \/ Answer(t, "error")
  /\ UNCHANGED <<cookie, issued, page, dict, newest>>

-----------------------------------------------------------------------------
\* _session_modified, of the two variables of dispatch.
SessionModified(t) == dict[request[t].session] # dict[request[t].session_data]

\* The rest of dispatch; an empty session deletes the cookie.  After an answer
\* to a login the tab is at Casdoor and the callback of that login is due; a
\* callback leaves none due.
Respond(t) ==
  /\ request[t].step = "answer"
  /\ cookie' = IF SessionModified(t) THEN dict[request[t].session] ELSE cookie
  /\ request' = [request EXCEPT ![t] = Idle]
  /\ dict' = [dict EXCEPT ![t] = NoState]
  /\ IF request[t].reply = "redirect"
       THEN /\ page' = [page EXCEPT ![t] = request[t].state]
            /\ newest' = request[t].state
       ELSE newest' = NoState /\ UNCHANGED page
  /\ UNCHANGED issued

-----------------------------------------------------------------------------
Next ==
  \E t \in Tabs :
    \/ Visit(t) \/ Return(t)
    \/ LoginRedirect(t) \/ OAuthCallback(t)
    \/ Exchange(t) \/ VerifyCasdoorToken(t) \/ IssuePair(t)
    \/ Respond(t)

Spec == Init /\ [][Next]_vars

-----------------------------------------------------------------------------
(* Properties. *)

\* "Generates a secure state parameter ... and stores it in the session.  The
\* state is verified in the callback endpoint.": the callback of the browser's
\* newest login, when no other callback has come between, finds a state in its
\* session, and is not answered that it is missing.
StateIsVerified ==
  \A t \in Tabs :
    request[t] # Idle => (request[t].reply = "missing" => request[t].state # newest)
=============================================================================
