------------------------ MODULE RefreshTokens_proofs ------------------------
(***************************************************************************)
(* Proofs about RefreshTokens, and about ApiClient as far as its server    *)
(* goes, for any number of requests, seconds and failures.  What a browser *)
(* may do is widened to ServerStep, of which the steps of both             *)
(* specifications are instances.                                           *)
(***************************************************************************)
EXTENDS ApiClient, FiniteSetTheorems, TLAPS

Asked(r) == \E t \in Tokens \cup {NoToken} : Post(r, t) \/ PostLogout(r, t)
ServerStep == Around \/ \E r \in Reqs : Serve(r) \/ LoginCheck(r) \/ Deliver(r) \/ Asked(r)

LEMMA NextIsServerStep == Next => ServerStep
  BY DEF Next, ServerStep, Asked

----------------------------------------------------------------------------
(* Types *)

\* A request without a cookie is idle or a login; a created token is a token.
RequestShape ==
  /\ \A r \in Reqs : pc[r] \in {"idle", "verified"} => held[r] = NoToken
  /\ \A r \in Reqs : pc[r] \in {"minted", "answered"} => reply[r] \in Tokens

ServerType == RTTypeOK /\ RequestShape

LEMMA TypeInit == Init => ServerType
<1> SUFFICES ASSUME Init PROVE ServerType
  OBVIOUS
<1> USE RefreshTokensAssumption DEF Init, Tokens, NoToken, Steps, Working
<1>1. now \in Tokens
  OBVIOUS
<1>5. keys \in SUBSET Tokens
  OBVIOUS
<1>6. active \in BOOLEAN /\ ended \in BOOLEAN
  OBVIOUS
<1>2. pc \in [Reqs -> Steps]
  OBVIOUS
<1>3. /\ held \in [Reqs -> Tokens \cup {NoToken}] /\ reply \in [Reqs -> Tokens \cup {NoToken}]
      /\ issued \in [Tokens -> Nat] /\ granted \in [Tokens -> Nat]
      /\ posts \in Nat /\ faults \in Nat
  OBVIOUS
<1>4. RequestShape
  BY DEF RequestShape
<1> QED  BY <1>1, <1>2, <1>3, <1>4, <1>5, <1>6 DEF ServerType, RTTypeOK

LEMMA TokenFacts == NoToken \notin Tokens /\ \A t \in Tokens : t \in Nat
  BY RefreshTokensAssumption DEF NoToken, Tokens

LEMMA TypeServe ==
  ASSUME ServerType, NEW r \in Reqs, Serve(r)
  PROVE  ServerType'
<1> USE RefreshTokensAssumption DEF ServerType, RTTypeOK, RequestShape, Tokens, NoToken, Steps, Working, At, Goto
<1>1. CASE RefreshGet(r)  BY <1>1 DEF RefreshGet
<1>2. CASE RefreshUser(r)  BY <1>2 DEF RefreshUser
<1>3. CASE RefreshDelete(r)  BY <1>3 DEF RefreshDelete
<1>4. CASE Mint(r)  BY <1>4 DEF Mint
<1>5. CASE Store(r)
  <2>1. reply[r] \in Tokens
    BY <1>5 DEF Store
  <2> HIDE DEF Tokens, NoToken
  <2>2. issued' \in [Tokens -> Nat]
    BY <1>5, <2>1 DEF Store
  <2>3. granted' \in [Tokens -> Nat]
    BY <1>5 DEF Store
  <2>4. keys' \in SUBSET Tokens /\ pc' \in [Reqs -> Steps]
    BY <1>5, <2>1 DEF Store
  <2>5. RequestShape'
    BY <1>5 DEF Store
  <2> QED  BY <1>5, <2>2, <2>3, <2>4, <2>5 DEF Store
<1>6. CASE Logout(r)  BY <1>6 DEF Logout
<1> QED  BY <1>1, <1>2, <1>3, <1>4, <1>5, <1>6 DEF Serve

LEMMA TypeAround ==
  ASSUME ServerType, Around
  PROVE  ServerType'
<1> USE RefreshTokensAssumption DEF ServerType, RTTypeOK, RequestShape, Tokens, NoToken, Steps, Working, At, Goto
<1>1. CASE Tick  BY <1>1 DEF Tick
<1>2. CASE SwitchUser  BY <1>2 DEF SwitchUser
<1>3. ASSUME NEW t \in Tokens, Lose(t)
      PROVE  ServerType'
  BY <1>3 DEF Lose
<1>4. ASSUME NEW r \in Reqs, Interrupt(r)
      PROVE  ServerType'
  BY <1>4, SMTT(30) DEF Interrupt
<1> QED  BY <1>1, <1>2, <1>3, <1>4 DEF Around

LEMMA TypeStep == ServerType /\ [ServerStep]_serverVars => ServerType'
<1> SUFFICES ASSUME ServerType, [ServerStep]_serverVars PROVE ServerType'
  OBVIOUS
<1> USE RefreshTokensAssumption DEF ServerType, RTTypeOK, RequestShape, Tokens, NoToken, Steps, Working, At, Goto
<1>1. ASSUME NEW r \in Reqs, LoginCheck(r)
      PROVE  ServerType'
  BY <1>1, SMTT(30) DEF LoginCheck
<1>2. ASSUME NEW r \in Reqs, Deliver(r)
      PROVE  ServerType'
  BY <1>2 DEF Deliver
<1>3. ASSUME NEW r \in Reqs, Asked(r)
      PROVE  ServerType'
  <2> HIDE DEF Tokens, NoToken
  <2>1. PICK t \in Tokens \cup {NoToken} : Post(r, t) \/ PostLogout(r, t)
    BY <1>3 DEF Asked
  <2>2. held' \in [Reqs -> Tokens \cup {NoToken}] /\ pc' \in [Reqs -> Steps] /\ posts' \in Nat
    BY <2>1 DEF Post, PostLogout
  <2>3. RequestShape'
    BY <2>1 DEF Post, PostLogout
  <2> QED  BY <2>1, <2>2, <2>3 DEF Post, PostLogout
<1>4. CASE UNCHANGED serverVars
  BY <1>4 DEF serverVars
<1> QED  BY <1>1, <1>2, <1>3, <1>4, TypeServe, TypeAround DEF ServerStep

\* No login, refresh, logout or failure leaves the declared shape of the Redis
\* keys, the requests and the counters.
THEOREM SessionTypes == Spec => []RTTypeOK
<1>1. ServerType => RTTypeOK
  BY DEF ServerType
<1>2. ServerType /\ [Next]_serverVars => ServerType'
  BY TypeStep, NextIsServerStep
<1>3. QED  BY <1>1, <1>2, TypeInit, PTL DEF Spec

----------------------------------------------------------------------------
(* A session survives rotation *)

LEMMA SurvivalStep ==
  ServerType /\ SessionSurvivesRotation /\ [ServerStep]_serverVars => SessionSurvivesRotation'
<1> SUFFICES ASSUME ServerType, SessionSurvivesRotation, [ServerStep]_serverVars
             PROVE  SessionSurvivesRotation'
  OBVIOUS
<1> USE DEF ServerType, RTTypeOK, RequestShape, SessionSurvivesRotation, Tokens, Working, Steps, At, Goto
<1>1. ASSUME NEW r \in Reqs, RefreshGet(r) \/ RefreshUser(r) \/ LoginCheck(r) \/ Deliver(r) \/ Asked(r)
      PROVE  SessionSurvivesRotation'
  BY <1>1 DEF RefreshGet, RefreshUser, LoginCheck, Deliver, Asked, Post, PostLogout
<1>2. ASSUME NEW r \in Reqs, RefreshDelete(r)
      PROVE  SessionSurvivesRotation'
  BY <1>2 DEF RefreshDelete
<1>3. ASSUME NEW r \in Reqs, Mint(r)
      PROVE  SessionSurvivesRotation'
  BY <1>3 DEF Mint
<1>4. ASSUME NEW r \in Reqs, Store(r)
      PROVE  SessionSurvivesRotation'
  <2>1. keys' # {}
    BY <1>4 DEF Store
  <2> QED  BY <2>1
<1>5. ASSUME NEW r \in Reqs, Logout(r) \/ Interrupt(r)
      PROVE  SessionSurvivesRotation'
  BY <1>5 DEF Logout, Interrupt
<1>6. ASSUME Tick \/ SwitchUser \/ (\E t \in Tokens : Lose(t)) \/ UNCHANGED serverVars
      PROVE  SessionSurvivesRotation'
  BY <1>6 DEF Tick, SwitchUser, Lose, serverVars
<1> QED  BY <1>1, <1>2, <1>3, <1>4, <1>5, <1>6 DEF ServerStep, Serve, Around

\* As long as nobody logs out and nothing fails, refreshes that race, even with
\* a deactivation, never leave a user who logged in without any session.
THEOREM SessionSurvives == Spec => []SessionSurvivesRotation
<1>1. Init => SessionSurvivesRotation
  BY DEF Init, SessionSurvivesRotation
<1>2. ServerType /\ [Next]_serverVars => ServerType'
  BY TypeStep, NextIsServerStep
<1>3. ServerType /\ SessionSurvivesRotation /\ [Next]_serverVars => SessionSurvivesRotation'
  BY SurvivalStep, NextIsServerStep
<1>4. QED  BY <1>1, <1>2, <1>3, TypeInit, PTL DEF Spec

----------------------------------------------------------------------------
(* Rotation is bounded *)

\* Readers that have deleted their token already.  While t is a key, another
\* round of Cardinality(Reqs) readers may still find it, so that much of what
\* t may buy has to be left.
Past(t) == {r \in Reqs : pc[r] \in {"deleted", "minted"} /\ held[r] = t}
Room1(t) == granted[t] + Cardinality(Readers(t)) <= Cardinality(Reqs) * issued[t]
Room2(t) == t \in keys => granted[t] + Cardinality(Past(t)) + Cardinality(Reqs) <= Cardinality(Reqs) * issued[t]
RotationInv == \A t \in Tokens : Room1(t) /\ Room2(t)

LEMMA CountReaders ==
  ASSUME NEW S \in SUBSET Reqs
  PROVE  /\ IsFiniteSet(S) /\ Cardinality(S) \in Nat
         /\ Cardinality(S) <= Cardinality(Reqs) /\ Cardinality(Reqs) \in Nat
<1>1. IsFiniteSet(Reqs)
  BY RefreshTokensAssumption
<1>2. IsFiniteSet(S) /\ Cardinality(S) <= Cardinality(Reqs)
  BY <1>1, FS_Subset
<1> QED  BY <1>1, <1>2, FS_CardinalityType

LEMMA ReaderSets ==
  ASSUME NEW t
  PROVE  /\ Readers(t) \in SUBSET Reqs /\ Past(t) \in SUBSET Reqs
         /\ Readers(t)' \in SUBSET Reqs /\ Past(t)' \in SUBSET Reqs
  BY DEF Readers, Past

LEMMA Fewer ==
  ASSUME NEW S \in SUBSET Reqs, NEW T \in SUBSET Reqs, S \subseteq T
  PROVE  Cardinality(S) <= Cardinality(T)
  BY CountReaders, FS_Subset

LEMMA OneMore ==
  ASSUME NEW S \in SUBSET Reqs, NEW T \in SUBSET Reqs, NEW r \in Reqs, S \subseteq T \cup {r}
  PROVE  Cardinality(S) <= Cardinality(T) + 1
<1>1. IsFiniteSet(T) /\ IsFiniteSet(T \cup {r})
      /\ Cardinality(T \cup {r}) = IF r \in T THEN Cardinality(T) ELSE Cardinality(T) + 1
  BY CountReaders, FS_AddElement
<1>2. Cardinality(S) <= Cardinality(T \cup {r})
  BY <1>1, FS_Subset
<1> QED  BY <1>1, <1>2, CountReaders

LEMMA OneLess ==
  ASSUME NEW S \in SUBSET Reqs, NEW T \in SUBSET Reqs, NEW r \in T, S \subseteq T \ {r}
  PROVE  Cardinality(S) + 1 <= Cardinality(T)
<1>1. IsFiniteSet(T) /\ T \ {r} \in SUBSET Reqs /\ r \in Reqs
  BY CountReaders
<1>2. Cardinality(T \ {r}) = Cardinality(T) - 1
  BY <1>1, FS_RemoveElement
<1>3. Cardinality(S) <= Cardinality(T \ {r})
  BY <1>1, Fewer
<1> QED  BY <1>1, <1>2, <1>3, CountReaders

\* Past readers and the rest: everything that reads t fits in the room that
\* a key leaves.
LEMMA KeyLeavesRoom ==
  ASSUME ServerType, NEW t \in Tokens, Room2(t), t \in keys, NEW S \in SUBSET Reqs, Past(t) \subseteq S
  PROVE  granted[t] + Cardinality(S) <= Cardinality(Reqs) * issued[t]
<1>1. Cardinality(S) <= Cardinality(Reqs) /\ Cardinality(S) \in Nat /\ Cardinality(Reqs) \in Nat
  BY CountReaders
<1>2. Cardinality(Past(t)) \in Nat
  BY ReaderSets, CountReaders
<1>3. granted[t] \in Nat /\ issued[t] \in Nat
  BY DEF ServerType, RTTypeOK
<1>4. granted[t] + Cardinality(Past(t)) + Cardinality(Reqs) <= Cardinality(Reqs) * issued[t]
  BY DEF Room2
<1>5. Cardinality(Reqs) * issued[t] \in Nat
  BY <1>1, <1>3
<1> QED  BY <1>1, <1>2, <1>3, <1>4, <1>5

LEMMA QuietStep ==
  ASSUME ServerType, NEW t \in Tokens, Room1(t), Room2(t),
         Readers(t)' \subseteq Readers(t), Past(t)' \subseteq Past(t), keys' \subseteq keys,
         UNCHANGED <<granted, issued>>
  PROVE  (Room1(t) /\ Room2(t))'
<1>1. /\ Cardinality(Readers(t)') <= Cardinality(Readers(t)) /\ Cardinality(Past(t)') <= Cardinality(Past(t))
  BY ReaderSets, Fewer
<1>2. /\ Cardinality(Readers(t)) \in Nat /\ Cardinality(Readers(t)') \in Nat
      /\ Cardinality(Past(t)) \in Nat /\ Cardinality(Past(t)') \in Nat /\ Cardinality(Reqs) \in Nat
  BY ReaderSets, CountReaders
<1>3. granted[t] \in Nat /\ issued[t] \in Nat /\ granted'[t] = granted[t] /\ issued'[t] = issued[t]
  BY DEF ServerType, RTTypeOK
<1>4. Cardinality(Reqs) * issued[t] \in Nat
  BY <1>2, <1>3
<1>5. Room1(t)'
  BY <1>1, <1>2, <1>3, <1>4 DEF Room1
<1>6. Room2(t)'
  BY <1>1, <1>2, <1>3, <1>4 DEF Room2
<1> QED  BY <1>5, <1>6

LEMMA RotationGet ==
  ASSUME ServerType, NEW t \in Tokens, Room1(t), Room2(t), NEW r \in Reqs, RefreshGet(r)
  PROVE  (Room1(t) /\ Room2(t))'
<1> USE DEF ServerType, RTTypeOK, At, Goto
<1>1. Past(t)' = Past(t) /\ keys' = keys /\ UNCHANGED <<granted, issued>>
  BY DEF RefreshGet, Past
<1>2. CASE held[r] = t /\ t \in keys
  <2>1. Past(t) \subseteq Readers(t)'
    BY <1>1 DEF Past, Readers
  <2>2. granted[t] + Cardinality(Readers(t)') <= Cardinality(Reqs) * issued[t]
    BY <1>2, <2>1, ReaderSets, KeyLeavesRoom
  <2> QED  BY <1>1, <2>2 DEF Room1, Room2
<1>3. CASE ~(held[r] = t /\ t \in keys)
  <2>1. Readers(t)' \subseteq Readers(t)
    BY <1>3 DEF RefreshGet, Readers
  <2> QED  BY <1>1, <2>1, QuietStep
<1> QED  BY <1>2, <1>3

LEMMA RotationDelete ==
  ASSUME ServerType, NEW t \in Tokens, Room1(t), Room2(t), NEW r \in Reqs, RefreshDelete(r)
  PROVE  (Room1(t) /\ Room2(t))'
<1> USE DEF ServerType, RTTypeOK, At, Goto
<1>1. Readers(t)' \subseteq Readers(t) /\ keys' \subseteq keys /\ UNCHANGED <<granted, issued>>
  BY DEF RefreshDelete, Readers
<1>2. CASE held[r] = t
  <2>1. t \notin keys'
    BY <1>2 DEF RefreshDelete
  <2>2. Readers(t)' = Readers(t)
    BY DEF RefreshDelete, Readers
  <2> QED  BY <1>1, <2>1, <2>2 DEF Room1, Room2
<1>3. CASE held[r] # t
  <2>1. Past(t)' \subseteq Past(t)
    BY <1>3 DEF RefreshDelete, Past
  <2> QED  BY <1>1, <2>1, QuietStep
<1> QED  BY <1>2, <1>3

\* A store moves its request from the readers to the grants.
LEMMA StoreMoves ==
  ASSUME ServerType, NEW t \in Tokens, NEW r \in Reqs, Store(r)
  PROVE  /\ granted'[t] + Cardinality(Readers(t)') <= granted[t] + Cardinality(Readers(t))
         /\ granted'[t] + Cardinality(Past(t)') <= granted[t] + Cardinality(Past(t))
         /\ granted'[t] \in Nat /\ Cardinality(Past(t)') <= Cardinality(Readers(t)')
<1> USE DEF ServerType, RTTypeOK, At, Goto
<1>0. granted[t] \in Nat /\ NoToken # t
  BY TokenFacts
<1>1. /\ Cardinality(Readers(t)) \in Nat /\ Cardinality(Readers(t)') \in Nat
      /\ Cardinality(Past(t)) \in Nat /\ Cardinality(Past(t)') \in Nat
  BY ReaderSets, CountReaders
<1>2. Past(t)' \subseteq Readers(t)'
  BY DEF Past, Readers
<1>3. Cardinality(Past(t)') <= Cardinality(Readers(t)')
  BY <1>2, ReaderSets, Fewer
<1>4. CASE held[r] = t
  <2>1. granted'[t] = granted[t] + 1
    BY <1>0, <1>4 DEF Store
  <2>2. r \in Readers(t) /\ Readers(t)' \subseteq Readers(t) \ {r}
    BY <1>4 DEF Store, Readers
  <2>3. r \in Past(t) /\ Past(t)' \subseteq Past(t) \ {r}
    BY <1>4 DEF Store, Past
  <2>4. Cardinality(Readers(t)') + 1 <= Cardinality(Readers(t))
    BY <2>2, ReaderSets, OneLess
  <2>5. Cardinality(Past(t)') + 1 <= Cardinality(Past(t))
    BY <2>3, ReaderSets, OneLess
  <2> QED  BY <1>0, <1>1, <1>3, <2>1, <2>4, <2>5
<1>5. CASE held[r] # t
  <2>1. granted'[t] = granted[t]
    BY <1>5 DEF Store
  <2>2. Readers(t)' \subseteq Readers(t) /\ Past(t)' \subseteq Past(t)
    BY DEF Store, Readers, Past
  <2>3. Cardinality(Readers(t)') <= Cardinality(Readers(t)) /\ Cardinality(Past(t)') <= Cardinality(Past(t))
    BY <2>2, ReaderSets, Fewer
  <2> QED  BY <1>0, <1>1, <1>3, <2>1, <2>3
<1> QED  BY <1>4, <1>5

LEMMA RotationStore ==
  ASSUME ServerType, RequestShape, NEW t \in Tokens, Room1(t), Room2(t), NEW r \in Reqs, Store(r)
  PROVE  (Room1(t) /\ Room2(t))'
<1>1. /\ Cardinality(Readers(t)) \in Nat /\ Cardinality(Readers(t)') \in Nat
      /\ Cardinality(Past(t)) \in Nat /\ Cardinality(Past(t)') \in Nat /\ Cardinality(Reqs) \in Nat
  BY ReaderSets, CountReaders
<1>2. granted[t] \in Nat /\ issued[t] \in Nat
  BY DEF ServerType, RTTypeOK
<1>3. /\ granted'[t] + Cardinality(Readers(t)') <= granted[t] + Cardinality(Readers(t))
      /\ granted'[t] + Cardinality(Past(t)') <= granted[t] + Cardinality(Past(t))
      /\ granted'[t] \in Nat /\ Cardinality(Past(t)') <= Cardinality(Readers(t)')
  BY StoreMoves
<1>4. Cardinality(Reqs) * issued[t] \in Nat
  BY <1>1, <1>2
<1>5. CASE reply[r] = t
  <2>1. issued'[t] = issued[t] + 1
    BY <1>5 DEF Store, ServerType, RTTypeOK
  <2>2. Cardinality(Reqs) * issued'[t] = Cardinality(Reqs) * issued[t] + Cardinality(Reqs)
    BY <1>1, <1>2, <2>1
  <2>3. Room1(t)'
    BY <1>1, <1>2, <1>3, <1>4, <2>2 DEF Room1
  <2>4. Room2(t)'
    BY <1>1, <1>2, <1>3, <1>4, <2>2 DEF Room1, Room2
  <2> QED  BY <2>3, <2>4
<1>6. CASE reply[r] # t
  <2>1. issued'[t] = issued[t] /\ (t \in keys' => t \in keys)
    BY <1>6 DEF Store, ServerType, RTTypeOK
  <2>2. Room1(t)'
    BY <1>1, <1>2, <1>3, <1>4, <2>1 DEF Room1
  <2>3. Room2(t)'
    BY <1>1, <1>2, <1>3, <1>4, <2>1 DEF Room2
  <2> QED  BY <2>2, <2>3
<1> QED  BY <1>5, <1>6

LEMMA RotationStep ==
  ServerType /\ RotationInv /\ [ServerStep]_serverVars => RotationInv'
<1> SUFFICES ASSUME ServerType, RotationInv, [ServerStep]_serverVars, NEW t \in Tokens
             PROVE  (Room1(t) /\ Room2(t))'
  BY DEF RotationInv, Tokens
<1>0. Room1(t) /\ Room2(t)
  BY DEF RotationInv
<1> DEFINE Quiet == /\ Readers(t)' \subseteq Readers(t) /\ Past(t)' \subseteq Past(t)
                    /\ keys' \subseteq keys /\ UNCHANGED <<granted, issued>>
<1>q. Quiet => (Room1(t) /\ Room2(t))'
  BY <1>0, QuietStep
<1> USE DEF ServerType, RTTypeOK, RequestShape, At, Goto, Readers, Past
<1>1. ASSUME NEW r \in Reqs, RefreshGet(r) \/ RefreshDelete(r) \/ Store(r)
      PROVE  (Room1(t) /\ Room2(t))'
  BY <1>0, <1>1, RotationGet, RotationDelete, RotationStore DEF ServerType
<1>2. ASSUME NEW r \in Reqs, RefreshUser(r) \/ Logout(r) \/ Interrupt(r) \/ Deliver(r)
      PROVE  Quiet
  BY <1>2 DEF RefreshUser, Logout, Interrupt, Deliver
<1>3. ASSUME NEW r \in Reqs, Mint(r)
      PROVE  Quiet
  BY <1>3, TokenFacts DEF Mint
<1>4. ASSUME NEW r \in Reqs, LoginCheck(r) \/ Asked(r)
      PROVE  Quiet
  BY <1>4 DEF LoginCheck, Asked, Post, PostLogout
<1>5. ASSUME Tick \/ SwitchUser \/ (\E s \in Tokens : Lose(s)) \/ UNCHANGED serverVars
      PROVE  Quiet
  BY <1>5 DEF Tick, SwitchUser, Lose, serverVars
<1> QED  BY <1>1, <1>2, <1>3, <1>4, <1>5, <1>q DEF ServerStep, Serve, Around

LEMMA RotationInit == Init => RotationInv
<1> SUFFICES ASSUME Init, NEW t \in Tokens PROVE Room1(t) /\ Room2(t)
  BY DEF RotationInv
<1>1. Readers(t) = {} /\ t \notin keys /\ granted[t] = 0 /\ issued[t] = 0
  BY DEF Init, Readers
<1>2. Cardinality(Readers(t)) = 0 /\ Cardinality(Reqs) \in Nat
  BY <1>1, FS_EmptySet, CountReaders
<1> QED  BY <1>1, <1>2 DEF Room1, Room2

LEMMA RotationMeans == RotationInv => RotationBounded
  BY DEF RotationInv, RotationBounded, Room1

\* However many refreshes race for one token, each time it was issued it buys
\* at most one new token per request the server runs at once.
THEOREM RotationIsBounded == Spec => []RotationBounded
<1>1. ServerType /\ RotationInv /\ [Next]_serverVars => ServerType' /\ RotationInv'
  BY TypeStep, RotationStep, NextIsServerStep
<1>2. QED  BY <1>1, TypeInit, RotationInit, RotationMeans, PTL DEF Spec

----------------------------------------------------------------------------
(* The same server behind the browser of ApiClient *)

LEMMA ClientStep == ServerType /\ cookie \in Tokens \cup {NoToken} /\ [CNext]_vars =>
  [ServerStep]_serverVars /\ (cookie \in Tokens \cup {NoToken})'
<1> SUFFICES ASSUME ServerType, cookie \in Tokens \cup {NoToken}, [CNext]_vars
             PROVE  [ServerStep]_serverVars /\ (cookie \in Tokens \cup {NoToken})'
  OBVIOUS
<1> USE DEF ServerStep
<1>1. ASSUME NEW r \in Reqs, Send(r) \/ Answered(r) \/ GiveUp(r)
      PROVE  UNCHANGED serverVars /\ cookie' = cookie
  BY <1>1 DEF Send, Answered, GiveUp
<1>2. ASSUME NEW r \in Reqs, Renew(r) \/ Open(r) \/ LogoutStart(r)
      PROVE  Asked(r) /\ cookie' = cookie
  BY <1>2 DEF Renew, Open, LogoutStart, Asked
<1>3. ASSUME NEW r \in Reqs, Login(r)
      PROVE  LoginCheck(r) /\ cookie' = cookie
  BY <1>3 DEF Login
<1>4. ASSUME NEW r \in Reqs, Renewed(r) \/ RenewRefused(r) \/ LoginDone(r) \/ LogoutDone(r) \/ Opened(r)
      PROVE  Deliver(r) /\ cookie' \in Tokens \cup {NoToken}
  BY <1>4 DEF Renewed, RenewRefused, LoginDone, LogoutDone, Opened, ServerType, RTTypeOK
<1>5. ASSUME NEW r \in Reqs, Forget(r)
      PROVE  (Deliver(r) \/ UNCHANGED serverVars) /\ cookie' \in Tokens \cup {NoToken}
  BY <1>5 DEF Forget, ServerType, RTTypeOK
<1>6. ASSUME NEW r \in Reqs, Serve(r) /\ UNCHANGED clientVars
      PROVE  Serve(r) /\ cookie' = cookie
  BY <1>6 DEF clientVars
<1>7. CASE ExpireAccess  BY <1>7 DEF ExpireAccess
<1>8. CASE Around /\ UNCHANGED clientVars  BY <1>8 DEF clientVars
<1>9. CASE UNCHANGED vars  BY <1>9 DEF vars, clientVars
<1> QED  BY <1>1, <1>2, <1>3, <1>4, <1>5, <1>6, <1>7, <1>8, <1>9 DEF CNext, Settle

\* The browser of ApiClient, with its concurrent interceptors, lost answers
\* and abandoned pages, stays within what the server was proved to withstand.
THEOREM ClientKeepsServer == CSpec => [](RotationBounded /\ SessionSurvivesRotation)
<1> DEFINE J == /\ ServerType /\ cookie \in Tokens \cup {NoToken}
                /\ RotationInv /\ SessionSurvivesRotation
<1>1. CInit => J
  BY TypeInit, RotationInit DEF CInit, Init, SessionSurvivesRotation
<1>2. J /\ [CNext]_vars => J'
  BY ClientStep, TypeStep, RotationStep, SurvivalStep
<1>3. J => RotationBounded /\ SessionSurvivesRotation
  BY RotationMeans
<1>4. QED  BY <1>1, <1>2, <1>3, PTL DEF CSpec

\* What the browser keeps of its own.
BrowserTypes ==
  /\ page \in {"app", "login", "opening"}
  /\ access \in {"none", "valid", "expired"}
  /\ call \in [Reqs -> Calls]
  /\ torn \in BOOLEAN
  /\ carry \in [Reqs -> {"none", "valid", "expired"}]

LEMMA BrowserStep == BrowserTypes /\ [CNext]_vars => BrowserTypes'
<1> SUFFICES ASSUME BrowserTypes, [CNext]_vars PROVE BrowserTypes'
  OBVIOUS
<1> USE DEF BrowserTypes, Becomes, OnlyKeeps, Calls
<1>1. ASSUME NEW r \in Reqs, Send(r) \/ Answered(r) \/ GiveUp(r)
      PROVE  BrowserTypes'
  BY <1>1 DEF Send, Answered, GiveUp
<1>2. ASSUME NEW r \in Reqs, Renew(r) \/ LogoutStart(r) \/ Login(r)
      PROVE  BrowserTypes'
  BY <1>2 DEF Renew, LogoutStart, Login
<1>3. ASSUME NEW r \in Reqs, Open(r)
      PROVE  BrowserTypes'
  BY <1>3 DEF Open
<1>4. ASSUME NEW r \in Reqs, Renewed(r) \/ LoginDone(r) \/ LogoutDone(r) \/ Opened(r)
      PROVE  BrowserTypes'
  BY <1>4 DEF Renewed, LoginDone, LogoutDone, Opened
<1>5. ASSUME NEW r \in Reqs, RenewRefused(r)
      PROVE  BrowserTypes'
  BY <1>5 DEF RenewRefused
<1>6. ASSUME NEW r \in Reqs, Forget(r)
      PROVE  BrowserTypes'
  BY <1>6 DEF Forget
<1>7. ASSUME NEW r \in Reqs, Serve(r) /\ UNCHANGED clientVars
      PROVE  BrowserTypes'
  BY <1>7 DEF clientVars
<1>8. CASE ExpireAccess  BY <1>8 DEF ExpireAccess
<1>9. CASE Around /\ UNCHANGED clientVars  BY <1>9 DEF clientVars
<1>10. CASE UNCHANGED vars  BY <1>10 DEF vars, clientVars
<1> QED  BY <1>1, <1>2, <1>3, <1>4, <1>5, <1>6, <1>7, <1>8, <1>9, <1>10 DEF CNext, Settle

\* No navigation, interceptor or abandoned answer leaves the declared shape of
\* the browser's calls, or puts anything in the cookie jar but a token.
THEOREM ClientTypes == CSpec => []ClientTypeOK
<1> DEFINE J == ServerType /\ cookie \in Tokens \cup {NoToken} /\ BrowserTypes
<1>1. CInit => J
  <2> SUFFICES ASSUME CInit PROVE J
    OBVIOUS
  <2>1. ServerType
    BY TypeInit DEF CInit
  <2>2. cookie \in Tokens \cup {NoToken} /\ BrowserTypes
    BY DEF CInit, BrowserTypes, Calls
  <2> QED  BY <2>1, <2>2
<1>2. J /\ [CNext]_vars => J'
  BY ClientStep, TypeStep, BrowserStep
<1>3. J => ClientTypeOK
  BY DEF ClientTypeOK, BrowserTypes, ServerType
<1>4. QED  BY <1>1, <1>2, <1>3, PTL DEF CSpec

----------------------------------------------------------------------------
(* The cookie that stays names a key *)

Carries(r, t) == pc[r] = "answered" /\ reply[r] = t

\* A token that was never stored is nowhere near the browser.
Unissued ==
  \A t \in Tokens : issued[t] = 0 =>
    cookie # t /\ \A r \in Reqs : held[r] # t /\ ~Carries(r, t)

\* A token stored once and on its way to the browser: only this answer carries
\* it, nobody has presented it yet, so nobody can have deleted its key.
OnItsWay ==
  \A r \in Reqs : pc[r] = "answered" /\ issued[reply[r]] = 1 =>
    /\ reply[r] \in keys /\ cookie # reply[r]
    /\ \A q \in Reqs : held[q] # reply[r] /\ (Carries(q, reply[r]) => q = r)

Attended == \A r \in Reqs : call[r] # "abandoned"

Faithful == Attended /\ OnItsWay /\ CookieStaysUsable
CookieInv == Unissued /\ (~ended /\ ~torn => Faithful)

CookieTypes == ServerType /\ cookie \in Tokens \cup {NoToken} /\ BrowserTypes

LEMMA CookieInit == CInit => CookieInv
<1> SUFFICES ASSUME CInit PROVE CookieInv
  OBVIOUS
<1>1. \A t \in Tokens : t # NoToken
  BY TokenFacts
<1> QED  BY <1>1 DEF CInit, Init, CookieInv, Unissued, Faithful, Attended, OnItsWay, CookieStaysUsable, Carries

\* The server works on request r; the browser waits.
LEMMA CookieServe ==
  ASSUME CookieTypes, CookieInv, NEW r \in Reqs, Serve(r), UNCHANGED clientVars
  PROVE  CookieInv'
<1> USE DEF CookieTypes, ServerType, RTTypeOK, clientVars
<1>1. CASE RefreshGet(r) \/ RefreshUser(r)
  <2>1. /\ \A q \in Reqs : q # r => pc'[q] = pc[q]
        /\ pc[r] \in {"posted", "found"} /\ pc'[r] \notin {"deleted", "minted", "answered"}
        /\ UNCHANGED <<keys, held, reply, issued, ended, cookie, torn, call>>
    BY <1>1 DEF RefreshGet, RefreshUser, At, Goto
  <2> QED
    BY <2>1 DEF CookieInv, Unissued, Faithful, Attended, OnItsWay, CookieStaysUsable, Carries, Rotating
<1>2. CASE RefreshDelete(r)
  <2>1. /\ pc' = [pc EXCEPT ![r] = "deleted"] /\ pc[r] = "allowed"
        /\ keys' = keys \ {held[r]}
        /\ UNCHANGED <<held, reply, issued, ended, cookie, torn, call>>
    BY <1>2 DEF RefreshDelete, At, Goto
  <2>2. Unissued'
    BY <2>1 DEF CookieInv, Unissued, Carries
  <2>3. ASSUME ~ended, ~torn PROVE Attended' /\ OnItsWay'
    BY <2>1, <2>3 DEF CookieInv, Faithful, Attended, OnItsWay, Carries
  <2>4. ASSUME ~ended, ~torn PROVE CookieStaysUsable'
    BY <2>1, <2>4 DEF CookieInv, Faithful, CookieStaysUsable, Rotating
  <2> QED  BY <2>1, <2>2, <2>3, <2>4 DEF CookieInv, Faithful
<1>3. CASE Mint(r)
  <2>1. /\ pc' = [pc EXCEPT ![r] = "minted"] /\ pc[r] \in {"verified", "deleted"}
        /\ reply' = [reply EXCEPT ![r] = now]
        /\ UNCHANGED <<keys, held, issued, ended, cookie, torn, call>>
    BY <1>3 DEF Mint, Goto
  <2>2. Unissued'
    BY <2>1 DEF CookieInv, Unissued, Carries
  <2>3. ASSUME ~ended, ~torn PROVE Attended' /\ OnItsWay'
    BY <2>1, <2>3 DEF CookieInv, Faithful, Attended, OnItsWay, Carries
  <2>4. ASSUME ~ended, ~torn PROVE CookieStaysUsable'
    <3>1. Rotating => Rotating'
      BY <2>1 DEF Rotating
    <3> QED  BY <2>1, <2>4, <3>1 DEF CookieInv, Faithful, CookieStaysUsable
  <2> QED  BY <2>1, <2>2, <2>3, <2>4 DEF CookieInv, Faithful
<1>4. CASE Store(r)
  <2> DEFINE s == reply[r]
  <2>1. /\ pc' = [pc EXCEPT ![r] = "answered"] /\ pc[r] = "minted"
        /\ keys' = keys \cup {s}
        /\ issued' = [issued EXCEPT ![s] = @ + 1]
        /\ UNCHANGED <<held, reply, ended, cookie, torn, call>>
    BY <1>4 DEF Store, At, Goto
  <2>2. s \in Tokens /\ issued[s] \in Nat /\ issued'[s] = issued[s] + 1
    BY <2>1 DEF RequestShape
  <2>3. \A t \in Tokens : t # s => issued'[t] = issued[t]
    BY <2>1, <2>2
  <2>4. issued'[s] # 0 /\ (issued'[s] = 1 => issued[s] = 0)
    BY <2>2
  <2>5. \A q \in Reqs : pc'[q] = "answered" => q = r \/ pc[q] = "answered"
    BY <2>1
  <2> HIDE DEF s
  <2>6. Unissued'
    <3> SUFFICES ASSUME NEW t \in Tokens, issued'[t] = 0
                 PROVE  cookie' # t /\ \A q \in Reqs : held'[q] # t /\ ~Carries(q, t)'
      BY Zenon DEF Unissued
    <3>1. t # s /\ issued[t] = 0
      BY <2>3, <2>4
    <3>2. cookie # t /\ \A q \in Reqs : held[q] # t /\ ~Carries(q, t)
      BY <3>1 DEF CookieInv, Unissued
    <3>3. \A q \in Reqs : ~Carries(q, t)'
      BY <2>1, <2>5, <3>1, <3>2 DEF Carries, s
    <3> QED  BY <2>1, <3>2, <3>3
  <2>7. ASSUME ~ended, ~torn PROVE Attended' /\ OnItsWay'
    <3>1. Attended'
      BY <2>1, <2>7 DEF CookieInv, Faithful, Attended
    <3>2. ASSUME NEW p \in Reqs, pc'[p] = "answered", issued'[reply[p]] = 1
          PROVE  /\ reply[p] \in keys' /\ cookie # reply[p]
                 /\ \A q \in Reqs : held[q] # reply[p] /\ (Carries(q, reply[p])' => q = p)
      <4>1. CASE reply[p] = s
        <5>1. cookie # s /\ \A q \in Reqs : held[q] # s /\ ~Carries(q, s)
          BY <2>2, <2>4, <3>2, <4>1 DEF CookieInv, Unissued
        <5>2. \A q \in Reqs : pc'[q] = "answered" /\ reply[q] = s => q = r
          BY <2>5, <5>1 DEF Carries
        <5>3. p = r
          BY <3>2, <4>1, <5>2
        <5> QED  BY <2>1, <4>1, <5>1, <5>2, <5>3 DEF Carries
      <4>2. CASE reply[p] # s
        <5>1. p # r /\ pc[p] = "answered" /\ reply[p] \in Tokens
          BY <2>5, <3>2, <4>2 DEF s, RequestShape
        <5>2. issued[reply[p]] = 1
          BY <2>3, <3>2, <4>2, <5>1
        <5>3. /\ reply[p] \in keys /\ cookie # reply[p]
              /\ \A q \in Reqs : held[q] # reply[p] /\ (Carries(q, reply[p]) => q = p)
          BY <2>7, <5>1, <5>2 DEF CookieInv, Faithful, OnItsWay
        <5>4. \A q \in Reqs : Carries(q, reply[p])' => Carries(q, reply[p])
          BY <2>1, <2>5, <4>2 DEF Carries, s
        <5> QED  BY <2>1, <5>3, <5>4
      <4> QED  BY <4>1, <4>2
    <3>3. OnItsWay'
      BY <2>1, <3>2 DEF OnItsWay, Carries
    <3> QED  BY <3>1, <3>3
  <2>8. ASSUME ~ended, ~torn PROVE CookieStaysUsable'
    <3> SUFFICES ASSUME cookie # NoToken, issued'[cookie] = 1
                 PROVE  cookie \in keys' \/ Rotating'
      BY <2>1 DEF CookieStaysUsable
    <3>1. CASE cookie = s
      BY <2>1, <3>1
    <3>2. CASE cookie # s
      <4>1. issued[cookie] = 1
        BY <2>3, <3>2
      <4>2. cookie \in keys \/ Rotating
        BY <2>8, <4>1 DEF CookieInv, Faithful, CookieStaysUsable
      <4>3. Rotating => Rotating'
        BY <2>1 DEF Rotating
      <4> QED  BY <2>1, <4>2, <4>3
    <3> QED  BY <3>1, <3>2
  <2> QED  BY <2>1, <2>6, <2>7, <2>8 DEF CookieInv, Faithful
<1>5. CASE Logout(r)
  <2>1. /\ pc' = [pc EXCEPT ![r] = "left"] /\ ended' = TRUE
        /\ UNCHANGED <<held, reply, issued, cookie>>
    BY <1>5 DEF Logout, At, Goto
  <2> QED  BY <2>1 DEF CookieInv, Unissued, Carries
<1> QED  BY <1>1, <1>2, <1>3, <1>4, <1>5 DEF Serve

LEMMA CookieAround ==
  ASSUME CookieTypes, CookieInv, Around, UNCHANGED clientVars
  PROVE  CookieInv'
<1> USE DEF CookieTypes, ServerType, RTTypeOK, clientVars
<1>1. CASE Tick \/ SwitchUser
  BY <1>1 DEF Tick, SwitchUser, CookieInv, Unissued, Faithful, Attended, OnItsWay, CookieStaysUsable, Carries, Rotating
<1>2. ASSUME NEW t \in Tokens, Lose(t) PROVE CookieInv'
  BY <1>2 DEF Lose, CookieInv, Unissued, Carries
<1>3. ASSUME NEW r \in Reqs, Interrupt(r) PROVE CookieInv'
  <2>1. /\ pc' = [pc EXCEPT ![r] = "refused"] /\ ended' = TRUE
        /\ UNCHANGED <<held, reply, issued, cookie>>
    BY <1>3 DEF Interrupt, Goto
  <2> QED  BY <2>1 DEF CookieInv, Unissued, Carries
<1> QED  BY <1>1, <1>2, <1>3 DEF Around

\* The browser presents the cookie it has, or none, and abandons nothing
\* unless the page is torn.
LEMMA CookieAsk ==
  ASSUME CookieTypes, CookieInv, NEW r \in Reqs,
         \/ Post(r, cookie) \/ PostLogout(r, cookie) \/ LoginCheck(r)
         \/ UNCHANGED serverVars,
         cookie' = cookie, ~torn' => ~torn /\ (Attended => Attended')
  PROVE  CookieInv'
<1> USE DEF CookieTypes, ServerType, RTTypeOK
<1>1. /\ UNCHANGED <<keys, reply, issued, ended>>
      /\ \A q \in Reqs : held'[q] \in {held[q], cookie}
      /\ \A q \in Reqs : pc'[q] # pc[q] => pc[q] = "idle" /\ pc'[q] \in {"posted", "leaving", "verified"}
      /\ \A q \in Reqs : pc[q] # "idle" => held'[q] = held[q]
  BY DEF Post, PostLogout, LoginCheck, serverVars, At, Goto
<1>2. Unissued'
  BY <1>1 DEF CookieInv, Unissued, Carries
<1>3. ASSUME ~ended, ~torn' PROVE Faithful'
  <2>1. Faithful /\ Attended'
    BY <1>3 DEF CookieInv, Faithful
  <2>2. OnItsWay'
    BY <1>1, <2>1 DEF Faithful, OnItsWay, Carries
  <2>3. Rotating => Rotating'
    BY <1>1 DEF Rotating
  <2>4. CookieStaysUsable'
    BY <1>1, <1>3, <2>1, <2>3 DEF Faithful, CookieStaysUsable
  <2> QED  BY <2>1, <2>2, <2>4 DEF Faithful
<1> QED  BY <1>1, <1>2, <1>3 DEF CookieInv

\* The browser takes an answer: the cookie becomes the token it carries, goes
\* with a logout, or stays when no token came.
LEMMA CookieTake ==
  ASSUME CookieTypes, CookieInv, NEW r \in Reqs, Deliver(r),
         cookie' \in {cookie, NoToken, reply[r]},
         pc[r] # "answered" => cookie' \in {cookie, NoToken},
         ~torn' => ~torn /\ (Attended => Attended' /\ (pc[r] = "answered" => cookie' = reply[r]))
  PROVE  CookieInv'
<1> USE DEF CookieTypes, ServerType, RTTypeOK
<1>1. /\ pc' = [pc EXCEPT ![r] = "idle"] /\ pc[r] \in {"answered", "refused", "left"}
      /\ held' = [held EXCEPT ![r] = NoToken] /\ reply' = [reply EXCEPT ![r] = NoToken]
      /\ UNCHANGED <<keys, issued, ended>>
  BY DEF Deliver, Goto
<1>2. NoToken \notin Tokens
  BY TokenFacts
<1>3. Unissued'
  <2> SUFFICES ASSUME NEW t \in Tokens, issued[t] = 0
               PROVE  cookie' # t /\ \A q \in Reqs : held'[q] # t /\ ~Carries(q, t)'
    BY <1>1 DEF Unissued
  <2>1. cookie # t /\ \A q \in Reqs : held[q] # t /\ ~Carries(q, t)
    BY DEF CookieInv, Unissued
  <2>2. cookie' # t
    BY <1>1, <1>2, <2>1 DEF Carries
  <2> QED  BY <1>1, <1>2, <2>1, <2>2 DEF Carries
<1>4. ASSUME ~ended, ~torn' PROVE Faithful'
  <2>1. Faithful /\ Attended' /\ (pc[r] = "answered" => cookie' = reply[r])
    BY <1>4 DEF CookieInv, Faithful
  <2>2. OnItsWay'
    <3> SUFFICES ASSUME NEW p \in Reqs, p # r, pc[p] = "answered", issued[reply[p]] = 1
                 PROVE  /\ reply[p] \in keys /\ cookie' # reply[p]
                        /\ \A q \in Reqs : held'[q] # reply[p] /\ (Carries(q, reply[p])' => q = p)
      BY <1>1 DEF OnItsWay, Carries
    <3>1. /\ reply[p] \in keys /\ cookie # reply[p] /\ reply[p] \in Tokens
          /\ \A q \in Reqs : held[q] # reply[p] /\ (Carries(q, reply[p]) => q = p)
      BY <2>1 DEF Faithful, OnItsWay, RequestShape
    <3>2. cookie' # reply[p]
      BY <1>1, <1>2, <3>1 DEF Carries
    <3> QED  BY <1>1, <1>2, <3>1, <3>2 DEF Carries
  <2>3. CookieStaysUsable'
    <3> SUFFICES ASSUME cookie' # NoToken, issued[cookie'] = 1
                 PROVE  cookie' \in keys \/ Rotating'
      BY <1>1 DEF CookieStaysUsable
    <3>1. CASE pc[r] = "answered"
      BY <2>1, <3>1 DEF Faithful, OnItsWay
    <3>2. CASE pc[r] # "answered"
      <4>1. cookie' = cookie /\ (cookie \in keys \/ Rotating)
        BY <1>4, <2>1, <3>2 DEF Faithful, CookieStaysUsable, CookieInv
      <4>2. Rotating => Rotating'
        BY <1>1, <3>2, <4>1 DEF Rotating
      <4> QED  BY <4>1, <4>2
    <3> QED  BY <3>1, <3>2
  <2> QED  BY <2>1, <2>2, <2>3 DEF Faithful
<1> QED  BY <1>1, <1>3, <1>4 DEF CookieInv

LEMMA CookieNext == CookieTypes /\ CookieInv /\ [CNext]_vars => CookieInv'
<1> SUFFICES ASSUME CookieTypes, CookieInv, [CNext]_vars PROVE CookieInv'
  OBVIOUS
<1> USE DEF CookieTypes, BrowserTypes, ServerType, RTTypeOK, Becomes, OnlyKeeps, Attended, At
<1>1. ASSUME NEW r \in Reqs, Send(r) \/ Answered(r) \/ GiveUp(r) PROVE CookieInv'
  <2>1. UNCHANGED serverVars /\ cookie' = cookie /\ torn' = torn /\ (Attended => Attended')
    BY <1>1 DEF Send, Answered, GiveUp
  <2> QED  BY <2>1, CookieAsk
<1>2. ASSUME NEW r \in Reqs, Renew(r) \/ LogoutStart(r) \/ Login(r) PROVE CookieInv'
  <2>1. /\ Post(r, cookie) \/ PostLogout(r, cookie) \/ LoginCheck(r)
        /\ cookie' = cookie /\ torn' = torn /\ (Attended => Attended')
    BY <1>2 DEF Renew, LogoutStart, Login
  <2> QED  BY <2>1, CookieAsk
<1>3. ASSUME NEW r \in Reqs, Open(r) PROVE CookieInv'
  <2>1. /\ Post(r, cookie) /\ cookie' = cookie
        /\ ~torn' => ~torn /\ (Attended => Attended')
    BY <1>3 DEF Open
  <2> QED  BY <2>1, CookieAsk
<1>4. ASSUME NEW r \in Reqs, Renewed(r) \/ LoginDone(r) \/ LogoutDone(r) \/ Opened(r)
      PROVE  CookieInv'
  <2>1. Deliver(r) /\ torn' = torn /\ (Attended => Attended')
    BY <1>4 DEF Renewed, LoginDone, LogoutDone, Opened
  <2>2. /\ pc[r] = "answered" => cookie' = reply[r]
        /\ pc[r] # "answered" => cookie' \in {cookie, NoToken}
    BY <1>4 DEF Renewed, LoginDone, LogoutDone, Opened
  <2>3. cookie' \in {cookie, NoToken, reply[r]}
    BY <2>2
  <2> QED  BY <2>1, <2>2, <2>3, CookieTake
<1>5. ASSUME NEW r \in Reqs, RenewRefused(r) PROVE CookieInv'
  <2>1. /\ Deliver(r) /\ cookie' = cookie /\ pc[r] # "answered"
        /\ ~torn' => ~torn /\ (Attended => Attended')
    BY <1>5, ZenonT(30) DEF RenewRefused
  <2> QED  BY <2>1, CookieTake
<1>6. ASSUME NEW r \in Reqs, Forget(r) PROVE CookieInv'
  <2>1. call[r] = "abandoned" /\ torn' = torn /\ ~Attended
    BY <1>6 DEF Forget
  <2>2. CASE UNCHANGED <<serverVars, cookie>>
    <3>1. UNCHANGED serverVars /\ cookie' = cookie
      BY <2>2
    <3>2. ~torn' => ~torn /\ (Attended => Attended')
      BY <2>1
    <3> QED  BY <3>1, <3>2, CookieAsk
  <2>3. CASE Deliver(r) /\ ~UNCHANGED <<serverVars, cookie>>
    <3>1. /\ pc[r] \in {"answered", "refused", "left"}
          /\ cookie' \in {cookie} \cup
               (CASE At(r, "answered") -> {reply[r]}
                  [] At(r, "left")     -> {NoToken}
                  [] OTHER             -> {})
      BY <1>6, <2>3, Zenon DEF Forget
    <3>2. /\ cookie' \in {cookie, NoToken, reply[r]}
          /\ pc[r] # "answered" => cookie' \in {cookie, NoToken}
      BY <3>1
    <3> QED  BY <2>1, <2>3, <3>2, CookieTake
  <2> QED  BY <1>6, <2>2, <2>3 DEF Forget
<1>7. ASSUME NEW r \in Reqs, Serve(r), UNCHANGED clientVars PROVE CookieInv'
  BY <1>7, CookieServe
<1>8. CASE ExpireAccess
  BY <1>8 DEF ExpireAccess, serverVars, CookieInv, Unissued, Faithful, OnItsWay, CookieStaysUsable, Carries, Rotating
<1>9. CASE Around /\ UNCHANGED clientVars  BY <1>9, CookieAround
<1>10. CASE UNCHANGED vars
  BY <1>10 DEF vars, clientVars, serverVars, CookieInv, Unissued, Faithful, OnItsWay, CookieStaysUsable, Carries, Rotating
<1> QED  BY <1>1, <1>2, <1>3, <1>4, <1>5, <1>6, <1>7, <1>8, <1>9, <1>10 DEF CNext, Settle

\* However many interceptors refresh at once and in whatever order their
\* answers arrive, the cookie names a key of Redis or is about to be replaced.
THEOREM CookieUsable == CSpec => []CookieStaysUsable
<1>1. CInit => CookieTypes /\ CookieInv
  <2> SUFFICES ASSUME CInit PROVE CookieTypes /\ CookieInv
    OBVIOUS
  <2>1. ServerType
    BY TypeInit DEF CInit
  <2>2. cookie \in Tokens \cup {NoToken} /\ BrowserTypes
    BY DEF CInit, BrowserTypes, Calls
  <2> QED  BY <2>1, <2>2, CookieInit DEF CookieTypes
<1>2. CookieTypes /\ CookieInv /\ [CNext]_vars => (CookieTypes /\ CookieInv)'
  BY ClientStep, TypeStep, BrowserStep, CookieNext DEF CookieTypes
<1>3. CookieTypes /\ CookieInv => CookieStaysUsable
  BY DEF CookieTypes, BrowserTypes, ServerType, RTTypeOK, CookieInv, Faithful, CookieStaysUsable
<1>4. QED  BY <1>1, <1>2, <1>3, PTL DEF CSpec
=============================================================================
