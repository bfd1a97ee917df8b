------------------------------- MODULE ApiClient -------------------------------
(***************************************************************************)
(* One browser against RefreshTokens: the axios instance with its 401      *)
(* interceptor (web/src/lib/api.ts) and the session of AuthContext.tsx.    *)
(* Calls of the page run concurrently; each that is answered 401 posts its *)
(* own refresh.  The cookie jar is shared, the access token is a variable  *)
(* of the page.  A hard navigation (window.location, reload) abandons the  *)
(* calls of the page, whose requests the server still finishes.            *)
(***************************************************************************)
EXTENDS RefreshTokens

VARIABLES
  cookie,    \* the refresh_token cookie, or NoToken
  page,      \* "app", "login", or "opening" until the first refresh settles
  access,    \* accessToken of the page: "none", "valid" or "expired"
  call,      \* call[r]: what the browser uses r for
  carry,     \* carry[r]: the access token the call was sent with
  torn       \* a navigation abandoned calls in flight (history)

clientVars == <<cookie, page, access, call, carry, torn>>
vars == <<serverVars, clientVars>>

Calls == {"quiet", "sent", "renewing", "resent", "login", "logout", "opening", "abandoned"}

CInit ==
  /\ Init
  /\ cookie = NoToken
  /\ page = "login"
  /\ access = "none"
  /\ call = [r \in Reqs |-> "quiet"]
  /\ carry = [r \in Reqs |-> "none"]
  /\ torn = FALSE

\* The bound on posts leaves every call that was sent its one renewal.
Room == posts + Cardinality({q \in Reqs : call[q] = "sent"}) < MaxPosts

Becomes(r, c) == call' = [call EXCEPT ![r] = c]

\* A navigation: everything in flight but r is abandoned.
OnlyKeeps(r, c) ==
  /\ torn' = (torn \/ \E q \in Reqs \ {r} : call[q] # "quiet")
  /\ call' = [q \in Reqs |-> IF q = r THEN c
                              ELSE IF call[q] = "quiet" THEN "quiet" ELSE "abandoned"]

----------------------------------------------------------------------------
(* A call of the page and the 401 interceptor *)

Send(r) ==
  /\ page = "app" /\ call[r] = "quiet" /\ At(r, "idle")
  /\ Room
  /\ Becomes(r, "sent")
  /\ carry' = [carry EXCEPT ![r] = access]
  /\ UNCHANGED <<serverVars, cookie, page, access, torn>>

Accepted(r) == carry[r] = "valid" /\ active

Answered(r) ==
  /\ call[r] \in {"sent", "resent"} /\ Accepted(r)
  /\ Becomes(r, "quiet")
  /\ UNCHANGED <<serverVars, cookie, page, access, carry, torn>>

\* First 401: the interceptor posts a refresh with the cookie there is now.
Renew(r) ==
  /\ call[r] = "sent" /\ ~Accepted(r)
  /\ Becomes(r, "renewing")
  /\ Post(r, cookie)
  /\ UNCHANGED <<cookie, page, access, carry, torn>>

\* Slip: the _retry mark forgotten, so that a second 401 renews again.
GiveUpRenews(r) ==
  /\ call[r] = "resent" /\ ~Accepted(r)
  /\ Becomes(r, "renewing")
  /\ Post(r, cookie)
  /\ UNCHANGED <<cookie, page, access, carry, torn>>

\* Second 401 (_retry is set): the caller gets the error.
GiveUp(r) ==
  /\ call[r] = "resent" /\ ~Accepted(r)
  /\ Becomes(r, "quiet")
  /\ UNCHANGED <<serverVars, cookie, page, access, carry, torn>>

\* Slip: the new cookie of the answer not stored (withCredentials missing).
RenewedDropsCookie(r) ==
  /\ call[r] = "renewing" /\ At(r, "answered")
  /\ access' = "valid"
  /\ Becomes(r, "resent")
  /\ carry' = [carry EXCEPT ![r] = "valid"]
  /\ Deliver(r)
  /\ UNCHANGED <<cookie, page, torn>>

Renewed(r) ==
  /\ call[r] = "renewing" /\ At(r, "answered")
  /\ cookie' = reply[r]
  /\ access' = "valid"
  /\ Becomes(r, "resent")
  /\ carry' = [carry EXCEPT ![r] = "valid"]
  /\ Deliver(r)
  /\ UNCHANGED <<page, torn>>

\* The catch branch, whatever the error: the access token is dropped and,
\* unless the page is /login already, the browser navigates there.
RenewRefused(r) ==
  /\ call[r] = "renewing" /\ At(r, "refused")
  /\ access' = "none"
  /\ page' = "login"
  /\ IF page = "login" THEN Becomes(r, "quiet") /\ UNCHANGED torn ELSE OnlyKeeps(r, "quiet")
  /\ Deliver(r)
  /\ UNCHANGED <<cookie, carry>>

----------------------------------------------------------------------------
(* AuthContext: login, logout, the refresh of a page that opens *)

Login(r) ==
  /\ page = "login" /\ call[r] = "quiet" /\ Room
  /\ LoginCheck(r)
  /\ Becomes(r, "login")
  /\ UNCHANGED <<cookie, page, access, carry, torn>>

\* GET /auth/me follows; when it fails the form stays, with the token it was given.
LoginDone(r) ==
  /\ call[r] = "login"
  /\ \/ /\ At(r, "answered")
        /\ cookie' = reply[r] /\ access' = "valid" /\ page' \in {"app", "login"}
     \/ /\ At(r, "refused")
        /\ UNCHANGED <<cookie, access, page>>
  /\ Becomes(r, "quiet")
  /\ Deliver(r)
  /\ UNCHANGED <<carry, torn>>

LogoutStart(r) ==
  /\ page = "app" /\ call[r] = "quiet" /\ \A q \in Reqs : call[q] # "logout"
  /\ PostLogout(r, cookie)
  /\ Becomes(r, "logout")
  /\ UNCHANGED <<cookie, page, access, carry, torn>>

\* The finally block runs even when the request failed; the layout pushes
\* /login without a navigation, so the other calls go on.
LogoutDone(r) ==
  /\ call[r] = "logout" /\ pc[r] \in {"left", "refused"}
  /\ cookie' = IF At(r, "left") THEN NoToken ELSE cookie
  /\ access' = "none"
  /\ page' = "login"
  /\ Becomes(r, "quiet")
  /\ Deliver(r)
  /\ UNCHANGED <<carry, torn>>

\* A private route is loaded: refresh() runs before anything else.
Open(r) ==
  /\ page # "opening" /\ call[r] = "quiet" /\ Room
  /\ Post(r, cookie)
  /\ OnlyKeeps(r, "opening")
  /\ page' = "opening"
  /\ access' = "none"
  /\ UNCHANGED <<cookie, carry>>

\* GET /auth/me follows; when it fails the page has no user and drops the token.
Opened(r) ==
  /\ call[r] = "opening"
  /\ \/ /\ At(r, "answered") /\ cookie' = reply[r]
        /\ \/ access' = "valid" /\ page' = "app"
           \/ access' = "none" /\ page' = "login"
     \/ /\ At(r, "refused")
        /\ access' = "none" /\ page' = "login" /\ UNCHANGED cookie
  /\ Becomes(r, "quiet")
  /\ Deliver(r)
  /\ UNCHANGED <<carry, torn>>

----------------------------------------------------------------------------
(* The answers nobody waits for, and time *)

\* Set-Cookie of an abandoned request takes effect or not, depending on
\* whether the browser cancelled it before the headers came.
Forget(r) ==
  /\ call[r] = "abandoned"
  /\ \/ /\ pc[r] \in {"answered", "refused", "left"}
        /\ cookie' \in {cookie} \cup
             (CASE At(r, "answered") -> {reply[r]}
                [] At(r, "left")     -> {NoToken}
                [] OTHER             -> {})
        /\ Deliver(r)
     \/ At(r, "idle") /\ UNCHANGED <<serverVars, cookie>>
  /\ Becomes(r, "quiet")
  /\ UNCHANGED <<page, access, carry, torn>>

\* Fifteen minutes pass.
ExpireAccess ==
  /\ access = "valid" /\ access' = "expired"
  /\ UNCHANGED <<serverVars, cookie, page, call, carry, torn>>

Settle(r) ==
  \/ Answered(r) \/ Renew(r) \/ GiveUp(r) \/ Renewed(r) \/ RenewRefused(r)
  \/ LoginDone(r) \/ LogoutDone(r) \/ Opened(r) \/ Forget(r)
  \/ Serve(r) /\ UNCHANGED clientVars

CNext ==
  \/ \E r \in Reqs : Settle(r) \/ Send(r) \/ Login(r) \/ LogoutStart(r) \/ Open(r)
  \/ ExpireAccess
  \/ Around /\ UNCHANGED clientVars

CSpec == CInit /\ [][CNext]_vars

\* The server finishes what it accepted and the browser runs its callbacks;
\* the user and the clock owe nothing.
CFairSpec == CSpec /\ \A r \in Reqs : WF_vars(Settle(r))

----------------------------------------------------------------------------
(* Properties *)

ClientTypeOK ==
  /\ RTTypeOK
  /\ cookie \in Tokens \cup {NoToken}
  /\ page \in {"app", "login", "opening"}
  /\ access \in {"none", "valid", "expired"}
  /\ call \in [Reqs -> Calls]
  /\ torn \in BOOLEAN
  /\ carry \in [Reqs -> {"none", "valid", "expired"}]

\* Rotation under way for the token the cookie holds: it was deleted and the
\* answer with its successor has not reached the browser.
Rotating == \E r \in Reqs : pc[r] \in {"deleted", "minted", "answered"} /\ held[r] = cookie

\* However the page's refreshes interleave and in whatever order their
\* answers arrive, the cookie that stays names a key of Redis or is about to
\* be replaced.  (Two answers that carry the same string, issued in the same
\* second, are the exception; so are losses, logouts and abandoned calls.)
CookieStaysUsable ==
  cookie # NoToken /\ ~ended /\ ~torn /\ issued[cookie] = 1 => cookie \in keys \/ Rotating

\* Every call of a page settles: one renewal, one retry, then the caller gets
\* its answer.
CallsSettle == \A r \in Reqs : (call[r] = "sent") ~> (call[r] = "quiet")

\* auth.py:268: /refresh renews without a new login; while nothing fails and
\* nobody logs out, the interceptor sends nobody to /login.
NoSpuriousLogin ==
  [][\A r \in Reqs : RenewRefused(r) /\ page = "app" => ended \/ faults > 0]_vars

\* auth.py:370: logout invalidates the token and removes the cookie; it comes
\* back with a login only.
LogoutRemovesCookie ==
  [][cookie = NoToken /\ cookie' # NoToken =>
       \E r \in Reqs : pc[r] = "answered" /\ pc'[r] = "idle" /\ held[r] = NoToken]_vars
=============================================================================
