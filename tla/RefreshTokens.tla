---------------------------- MODULE RefreshTokens ----------------------------
(***************************************************************************)
(* Server side of the sessions of one user (routers/auth.py login, refresh *)
(* and logout, core/security.py): which refresh tokens Redis knows.  Every *)
(* request is a coroutine, and each action runs from one await on Redis or *)
(* on the database to the next.  The token is a JWT of subject, type and   *)
(* expiry in whole seconds, with no other claim: the tokens a user is      *)
(* given in one second are the same string, so a token is its second.      *)
(***************************************************************************)
EXTENDS Naturals, FiniteSets

CONSTANTS
  Reqs,        \* requests that can be in flight at the same time
  MaxTime,     \* bound: seconds that pass
  MaxPosts,    \* bound: login and refresh requests ever sent
  MaxFaults    \* bound: evicted keys and requests that die half way

ASSUME RefreshTokensAssumption ==
  /\ IsFiniteSet(Reqs)
  /\ MaxTime \in Nat \ {0}
  /\ MaxPosts \in Nat
  /\ MaxFaults \in Nat

Tokens  == 1..MaxTime
NoToken == 0

VARIABLES
  now,       \* the second it is
  keys,      \* refresh:<token> keys in Redis
  active,    \* users.is_active
  pc,        \* pc[r]: where request r is
  held,      \* held[r]: the token the request came with
  reply,     \* reply[r]: the token created for the answer
  issued,    \* issued[t]: how many times t was stored (history)
  granted,   \* granted[t]: refreshes answered with a new token for t (history)
  posts,     \* requests sent so far (bounded by MaxPosts)
  ended,     \* some session was logged out (history)
  faults     \* failures so far (bounded by MaxFaults)

serverVars == <<now, keys, active, pc, held, reply, issued, granted, posts, ended, faults>>

Working == {"posted", "found", "allowed", "deleted", "verified", "minted", "leaving"}
Steps   == Working \cup {"idle", "answered", "refused", "left"}

Init ==
  /\ now = 1
  /\ keys = {}
  /\ active = TRUE
  /\ pc = [r \in Reqs |-> "idle"]
  /\ held = [r \in Reqs |-> NoToken]
  /\ reply = [r \in Reqs |-> NoToken]
  /\ issued = [t \in Tokens |-> 0]
  /\ granted = [t \in Tokens |-> 0]
  /\ posts = 0
  /\ ended = FALSE
  /\ faults = 0

At(r, step) == pc[r] = step
Goto(r, step) == pc' = [pc EXCEPT ![r] = step]

----------------------------------------------------------------------------
(* Requests leave a browser, answers reach it *)

Post(r, t) ==
  /\ At(r, "idle") /\ posts < MaxPosts
  /\ Goto(r, "posted")
  /\ held' = [held EXCEPT ![r] = t]
  /\ posts' = posts + 1
  /\ UNCHANGED <<now, keys, active, reply, issued, granted, ended, faults>>

PostLogout(r, t) ==
  /\ At(r, "idle")
  /\ Goto(r, "leaving")
  /\ held' = [held EXCEPT ![r] = t]
  /\ UNCHANGED <<now, keys, active, reply, issued, granted, posts, ended, faults>>

Deliver(r) ==
  /\ pc[r] \in {"answered", "refused", "left"}
  /\ Goto(r, "idle")
  /\ held' = [held EXCEPT ![r] = NoToken]
  /\ reply' = [reply EXCEPT ![r] = NoToken]
  /\ UNCHANGED <<now, keys, active, issued, granted, posts, ended, faults>>

----------------------------------------------------------------------------
(* refresh_token *)

\* Slip: the old token deleted as soon as it was found, before the user is
\* looked up.
RefreshGetConsumes(r) ==
  /\ At(r, "posted")
  /\ Goto(r, IF held[r] \in keys THEN "found" ELSE "refused")
  /\ keys' = keys \ {held[r]}
  /\ UNCHANGED <<now, active, held, reply, issued, granted, posts, ended, faults>>

RefreshGet(r) ==
  /\ At(r, "posted")
  /\ Goto(r, IF held[r] \in keys THEN "found" ELSE "refused")
  /\ UNCHANGED <<now, keys, active, held, reply, issued, granted, posts, ended, faults>>

RefreshUser(r) ==
  /\ At(r, "found")
  /\ Goto(r, IF active THEN "allowed" ELSE "refused")
  /\ UNCHANGED <<now, keys, active, held, reply, issued, granted, posts, ended, faults>>

\* Slip: the new token issued, the old one left to its TTL.
RefreshKeeps(r) ==
  /\ At(r, "allowed")
  /\ Goto(r, "deleted")
  /\ UNCHANGED <<now, keys, active, held, reply, issued, granted, posts, ended, faults>>

\* DEL does not tell whether the key was still there.
RefreshDelete(r) ==
  /\ At(r, "allowed")
  /\ keys' = keys \ {held[r]}
  /\ Goto(r, "deleted")
  /\ UNCHANGED <<now, active, held, reply, issued, granted, posts, ended, faults>>

----------------------------------------------------------------------------
(* login, and the end that login and refresh share *)

LoginCheck(r) ==
  /\ At(r, "idle") /\ posts < MaxPosts
  /\ active
  /\ Goto(r, "verified")
  /\ posts' = posts + 1
  /\ UNCHANGED <<now, keys, active, held, reply, issued, granted, ended, faults>>

\* Slip: the expiry rounded up.
MintAhead(r) ==
  /\ pc[r] \in {"verified", "deleted"}
  /\ reply' = [reply EXCEPT ![r] = now + 1]
  /\ Goto(r, "minted")
  /\ UNCHANGED <<now, keys, active, held, issued, granted, posts, ended, faults>>

\* create_refresh_token: the expiry is cut to whole seconds.
Mint(r) ==
  /\ pc[r] \in {"verified", "deleted"}
  /\ reply' = [reply EXCEPT ![r] = now]
  /\ Goto(r, "minted")
  /\ UNCHANGED <<now, keys, active, held, issued, granted, posts, ended, faults>>

Store(r) ==
  /\ At(r, "minted")
  /\ keys' = keys \cup {reply[r]}
  /\ issued' = [issued EXCEPT ![reply[r]] = @ + 1]
  /\ granted' = IF held[r] = NoToken THEN granted ELSE [granted EXCEPT ![held[r]] = @ + 1]
  /\ Goto(r, "answered")
  /\ UNCHANGED <<now, active, held, reply, posts, ended, faults>>

----------------------------------------------------------------------------
(* logout, and what happens around the handlers *)

Logout(r) ==
  /\ At(r, "leaving")
  /\ keys' = keys \ {held[r]}
  /\ ended' = TRUE
  /\ Goto(r, "left")
  /\ UNCHANGED <<now, active, held, reply, issued, granted, posts, faults>>

Tick ==
  /\ now < MaxTime
  /\ now' = now + 1
  /\ UNCHANGED <<keys, active, pc, held, reply, issued, granted, posts, ended, faults>>

\* update_user_status: an administrator (de)activates the user.
SwitchUser ==
  /\ faults < MaxFaults
  /\ faults' = faults + 1
  /\ active' = ~active
  /\ UNCHANGED <<now, keys, pc, held, reply, issued, granted, posts, ended>>

\* The 30-day TTL, or allkeys-lru under memory pressure.
Lose(t) ==
  /\ t \in keys /\ faults < MaxFaults
  /\ keys' = keys \ {t}
  /\ faults' = faults + 1
  /\ ended' = TRUE
  /\ UNCHANGED <<now, active, pc, held, reply, issued, granted, posts>>

\* The worker, Redis or the network fails: the browser sees an error, also when
\* the answer is lost after the new key was stored or the old one deleted.
Interrupt(r) ==
  /\ pc[r] \in Working \cup {"answered", "left"} /\ faults < MaxFaults
  /\ Goto(r, "refused")
  /\ faults' = faults + 1
  /\ ended' = TRUE
  /\ UNCHANGED <<now, keys, active, held, reply, issued, granted, posts>>

Serve(r) ==
  \/ RefreshGet(r) \/ RefreshUser(r) \/ RefreshDelete(r)
  \/ Mint(r) \/ Store(r) \/ Logout(r)

Around == Tick \/ SwitchUser \/ (\E t \in Tokens : Lose(t)) \/ (\E r \in Reqs : Interrupt(r))

\* On its own the server faces browsers that present, in any order, tokens
\* that an answer has carried to them.
Carried(t) == issued[t] > 0 /\ \A q \in Reqs : reply[q] # t

Next ==
  \/ Around
  \/ \E r \in Reqs :
       \/ Serve(r) \/ LoginCheck(r) \/ Deliver(r)
       \/ \E t \in Tokens : Carried(t) /\ (Post(r, t) \/ PostLogout(r, t))

Spec == Init /\ [][Next]_serverVars

----------------------------------------------------------------------------
(* Properties *)

RTTypeOK ==
  /\ now \in Tokens
  /\ keys \in SUBSET Tokens
  /\ active \in BOOLEAN
  /\ pc \in [Reqs -> Steps]
  /\ held \in [Reqs -> Tokens \cup {NoToken}]
  /\ reply \in [Reqs -> Tokens \cup {NoToken}]
  /\ issued \in [Tokens -> Nat]
  /\ granted \in [Tokens -> Nat]
  /\ posts \in Nat
  /\ ended \in BOOLEAN
  /\ faults \in Nat

\* Refreshes that found t in Redis and have not stored its successor yet.
Readers(t) == {r \in Reqs : pc[r] \in {"found", "allowed", "deleted", "minted"} /\ held[r] = t}

\* A stored token buys at most one new token per request that can be in flight
\* at once: get and delete are two calls, but after the first delete nobody
\* else finds it.
RotationBounded ==
  \A t \in Tokens : granted[t] + Cardinality(Readers(t)) <= Cardinality(Reqs) * issued[t]

\* Rotation alone never ends the last session of a user: whatever refreshes
\* interleave, also with a deactivation, a token is in Redis or is about to be.
SessionSurvivesRotation ==
  ~ended /\ (\E t \in Tokens : issued[t] > 0) =>
     keys # {} \/ \E r \in Reqs : pc[r] \in {"deleted", "minted"}
=============================================================================
