-------------------------- MODULE ScreenSizeProofs --------------------------
(* Theorems about ScreenSize, for every set of clients, of sizes and of      *)
(* scale factors.                                                            *)
EXTENDS ScreenSize, FiniteSetTheorems, TLAPS

Screens == Scaled \cup {Main}

\* The clients that use screen s, when their records are k.
Users(k, s) == {c \in Client : k[c].state # "gone" /\ k[c].scaledScreen = s}

\* All of TypeOK but that the counters stay between 0 and the number of clients.
Typed ==
  /\ running \in BOOLEAN /\ width \in Sizes
  /\ refs \in [Screens -> Int] /\ alive \subseteq Scaled
  /\ stale \in [Scaled -> SUBSET Areas] /\ unmarked \subseteq Areas
  /\ client \in [Client -> ClientState] /\ viewer \in [Client -> ViewerState]

Counted == \A s \in Screens : refs[s] = Cardinality(Users(client, s))
Listed == \A s \in Screens : refs[s] > 0 => s \in alive \cup {Main}

\* What the counters rest on.
Inv == Typed /\ Counted /\ Listed

-----------------------------------------------------------------------------
(* Screens and their users.                                                  *)

LEMMA SizesArePositive ==
  /\ Sizes \subseteq Nat \ {0} /\ Sizes \subseteq Int
  /\ Scaled \subseteq Int \ {0} /\ Main \notin Scaled
<1>1. \A n \in Nat, f \in Nat \ {0} : n \div f \in Int
  OBVIOUS
<1> QED BY <1>1, ScreenAssumption DEF Scaled, Main

LEMMA UsersFinite ==
  ASSUME NEW k, NEW s
  PROVE  /\ IsFiniteSet(Users(k, s))
         /\ Cardinality(Users(k, s)) \in 0 .. Cardinality(Client)
<1>1. IsFiniteSet(Client) /\ Users(k, s) \in SUBSET Client
  BY ScreenAssumption DEF Users
<1>2. /\ IsFiniteSet(Users(k, s))
      /\ Cardinality(Users(k, s)) <= Cardinality(Client)
  BY <1>1, FS_Subset
<1>3. Cardinality(Users(k, s)) \in Nat /\ Cardinality(Client) \in Nat
  BY <1>1, <1>2, FS_CardinalityType
<1> QED BY <1>2, <1>3

\* A client whose record becomes r is a user less of the screen it had ...
LEMMA UserLeft ==
  ASSUME NEW k \in [Client -> ClientState], NEW c \in Client, NEW r \in ClientState,
         k[c].state # "gone",
         r.state = "gone" \/ r.scaledScreen # k[c].scaledScreen
  PROVE  Cardinality(Users([k EXCEPT ![c] = r], k[c].scaledScreen))
           = Cardinality(Users(k, k[c].scaledScreen)) - 1
<1> DEFINE s == k[c].scaledScreen
           T == Users(k, s)
<1>1. c \in T /\ Users([k EXCEPT ![c] = r], s) = T \ {c}
  BY DEF Users
<1>2. IsFiniteSet(T)
  BY UsersFinite
<1> HIDE DEF T
<1>3. Cardinality(T \ {c}) = Cardinality(T) - 1
  BY <1>1, <1>2, FS_RemoveElement
<1> QED BY <1>1, <1>3 DEF T

\* ... and one more of the screen it has now ...
LEMMA UserCame ==
  ASSUME NEW k \in [Client -> ClientState], NEW c \in Client, NEW r \in ClientState,
         r.state # "gone",
         k[c].state = "gone" \/ r.scaledScreen # k[c].scaledScreen
  PROVE  Cardinality(Users([k EXCEPT ![c] = r], r.scaledScreen))
           = Cardinality(Users(k, r.scaledScreen)) + 1
<1> DEFINE s == r.scaledScreen
           T == Users(k, s)
<1>1. c \notin T /\ Users([k EXCEPT ![c] = r], s) = T \cup {c}
  BY DEF Users
<1>2. IsFiniteSet(T)
  BY UsersFinite
<1> HIDE DEF T
<1>3. Cardinality(T \cup {c}) = Cardinality(T) + 1
  BY <1>1, <1>2, FS_AddElement
<1> QED BY <1>1, <1>3 DEF T

\* ... and nothing to the others.
LEMMA UsersElsewhere ==
  ASSUME NEW k \in [Client -> ClientState], NEW c \in Client, NEW r \in ClientState,
         NEW s, k[c].state # "gone" => k[c].scaledScreen # s,
         r.state # "gone" => r.scaledScreen # s
  PROVE  Users([k EXCEPT ![c] = r], s) = Users(k, s)
BY DEF Users

\* Records that keep their screens keep the users.
LEMMA UsersKept ==
  ASSUME NEW k, NEW l,
         \A c \in Client : /\ k[c].state = "gone" <=> l[c].state = "gone"
                           /\ k[c].scaledScreen = l[c].scaledScreen
  PROVE  \A s : Users(k, s) = Users(l, s)
BY DEF Users

LEMMA UsersOfScreen ==
  \A s : {c \in Live : Screen(c) = s} = Users(client, s)
BY DEF Users, Live, Screen

LEMMA UsersOfScreenNext ==
  \A s : {c \in Live : Screen(c) = s}' = Users(client', s)
BY DEF Users, Live, Screen

-----------------------------------------------------------------------------
(* What the operations on records return.                                    *)

LEMMA FreshType == Fresh \in ClientState /\ NoViewer \in ViewerState
BY DEF Fresh, NoViewer, ClientState, ViewerState, Main, Reasons

LEMMA NewStreamClientType ==
  ASSUME NEW k \in ClientState
  PROVE  /\ NewStreamClient(k) \in ClientState
         /\ NewStreamClient(k).state = "init"
         /\ NewStreamClient(k).scaledScreen = Main
BY DEF NewStreamClient, Fresh, ClientState, Main, Reasons

LEMMA ToldType ==
  ASSUME NEW v \in ViewerState, NEW n \in Sizes \cup Scaled \cup {0}
  PROVE  /\ Told(v, n) \in ViewerState
         /\ Told(v, n).size = n /\ Told(v, n).missed = FALSE
         /\ Told(v, n).result = v.result
BY DEF Told, ViewerState

LEMMA SizeType ==
  ASSUME Typed, NEW s \in Screens
  PROVE  Size(s) \in Sizes \cup Scaled \cup {0}
BY DEF Typed, Size, Screens

LEMMA SendNewScaleSizeType ==
  ASSUME Typed, NEW k \in ClientState, NEW v \in ViewerState
  PROVE  /\ SendNewScaleSize(k, v)[1] \in ClientState
         /\ SendNewScaleSize(k, v)[2] \in ViewerState
         /\ SendNewScaleSize(k, v)[1].state = k.state
         /\ SendNewScaleSize(k, v)[1].scaledScreen = k.scaledScreen
         /\ SendNewScaleSize(k, v)[1].requestedDesktopSizeChange = k.requestedDesktopSizeChange
         /\ SendNewScaleSize(k, v)[1].lastDesktopSizeChangeError = k.lastDesktopSizeChangeError
         /\ SendNewScaleSize(k, v)[2].result = v.result
         /\ \/ SendNewScaleSize(k, v)[1].newFBSizePending
            \/ SendNewScaleSize(k, v)[2].size = Size(k.scaledScreen)
<1>1. k.scaledScreen \in Screens
  BY DEF ClientState, Screens
<1>2. Size(k.scaledScreen) \in Sizes \cup Scaled \cup {0}
  BY <1>1, SizeType
<1>3. CASE k.useNewFBSize /\ k.newFBSizePending
  <2>1. SendNewScaleSize(k, v) = <<k, v>>
    BY <1>3 DEF SendNewScaleSize
  <2> QED BY <2>1, <1>3
<1>4. CASE ~(k.useNewFBSize /\ k.newFBSizePending)
  <2> DEFINE r == [k EXCEPT !.newFBSizePending = FALSE]
             w == Told(v, Size(k.scaledScreen))
  <2>1. SendNewScaleSize(k, v) = <<r, w>>
    BY <1>4 DEF SendNewScaleSize
  <2>2. /\ r \in ClientState /\ r.state = k.state /\ r.scaledScreen = k.scaledScreen
        /\ r.requestedDesktopSizeChange = k.requestedDesktopSizeChange
        /\ r.lastDesktopSizeChangeError = k.lastDesktopSizeChangeError
    BY DEF ClientState
  <2>3. w \in ViewerState /\ w.result = v.result /\ w.size = Size(k.scaledScreen)
    BY <1>2, ToldType
  <2> HIDE DEF r, w
  <2> QED BY <2>1, <2>2, <2>3
<1> QED BY <1>3, <1>4

LEMMA NotifiedType ==
  ASSUME NEW k \in ClientState
  PROVE  /\ Notified(k) \in ClientState
         /\ Notified(k).state = k.state /\ Notified(k).scaledScreen = k.scaledScreen
BY DEF Notified, ClientState, Reasons

LEMMA RequestedType ==
  ASSUME client \in [Client -> ClientState], NEW c \in Client, NEW result \in {0, Refused}
  PROVE  /\ Requested(c, result) \in [Client -> ClientState]
         /\ \A d \in Client :
              /\ Requested(c, result)[d].state = client[d].state
              /\ Requested(c, result)[d].scaledScreen = client[d].scaledScreen
<1> DEFINE own == [client[c] EXCEPT !.requestedDesktopSizeChange = "client",
                     !.lastDesktopSizeChangeError = result,
                     !.newFBSizePending = @ \/ result # 0]
           its(d) == [client[d] EXCEPT !.requestedDesktopSizeChange = "other"]
<1>1. own \in ClientState
  BY DEF ClientState, Reasons
<1>2. own.state = client[c].state /\ own.scaledScreen = client[c].scaledScreen
  BY DEF ClientState
<1>3. ASSUME NEW d \in Client
      PROVE  /\ its(d) \in ClientState /\ its(d).state = client[d].state
             /\ its(d).scaledScreen = client[d].scaledScreen
  BY DEF ClientState, Reasons
<1>4. Requested(c, result) =
        [d \in Client |-> IF d = c THEN own
           ELSE IF d \in Live /\ result = 0 THEN its(d) ELSE client[d]]
  BY DEF Requested
<1> HIDE DEF own, its
<1> QED BY <1>1, <1>2, <1>3, <1>4

LEMMA FindType ==
  ASSUME Typed, NEW f \in Scales, width \div f # 0
  PROVE  Find(width \div f) \in Screens
BY DEF Typed, Find, Screens, Scaled

-----------------------------------------------------------------------------
(* Every step keeps the counters right.                                      *)

LEMMA InitCounts == Init => Inv
<1> SUFFICES ASSUME Init PROVE Inv
  OBVIOUS
<1>1. Typed
  BY FreshType DEF Init, Typed, Screens
<1>2. Counted
  <2>1. \A s : Users(client, s) = {}
    BY DEF Init, Users, Fresh
  <2> QED BY <2>1, FS_EmptySet DEF Init, Counted, Screens
<1>3. Listed
  BY DEF Init, Listed, Screens
<1> QED BY <1>1, <1>2, <1>3 DEF Inv

\* A step after which everyone uses the screen used before.
LEMMA SameUsers ==
  ASSUME Inv, Typed', refs' = refs, alive' = alive,
         \A c \in Client : /\ client[c].state = "gone" <=> client'[c].state = "gone"
                           /\ client[c].scaledScreen = client'[c].scaledScreen
  PROVE  Inv'
<1>1. \A s : Users(client, s) = Users(client', s)
  BY UsersKept
<1> QED BY <1>1 DEF Inv, Counted, Listed

LEMMA OnlyTyped ==
  ASSUME Typed, NEW c \in Client, NEW k \in ClientState, NEW v \in ViewerState, Only(c, k, v)
  PROVE  /\ client' \in [Client -> ClientState] /\ viewer' \in [Client -> ViewerState]
         /\ client'[c] = k /\ \A d \in Client \ {c} : client'[d] = client[d]
         /\ viewer'[c] = v /\ \A d \in Client \ {c} : viewer'[d] = viewer[d]
BY DEF Typed, Only

LEMMA ConnectCounts ==
  ASSUME Inv, NEW c \in Client, Connect(c)
  PROVE  Inv'
<1> DEFINE k == NewStreamClient(client[c])
<1>1. k \in ClientState /\ k.state = "init" /\ k.scaledScreen = Main
  BY NewStreamClientType DEF Inv, Typed
<1>2. client' = [client EXCEPT ![c] = k] /\ refs' = [refs EXCEPT ![Main] = refs[Main] + 1]
  BY DEF Connect, Only
<1>3. client[c].state = "gone" /\ client \in [Client -> ClientState]
  BY DEF Connect, Inv, Typed
<1>4. Typed'
  BY <1>1, OnlyTyped, FreshType DEF Connect, Inv, Typed, Screens
<1> HIDE DEF k
<1>5. Cardinality(Users(client', Main)) = Cardinality(Users(client, Main)) + 1
  BY <1>1, <1>2, <1>3, UserCame
<1>6. \A s \in Screens \ {Main} : Users(client', s) = Users(client, s)
  BY <1>1, <1>2, <1>3, UsersElsewhere
<1>7. Counted'
  BY <1>2, <1>5, <1>6 DEF Inv, Counted, Typed, Screens
<1>8. Listed'
  BY <1>2 DEF Connect, Inv, Listed, Typed, Screens
<1> QED BY <1>4, <1>7, <1>8 DEF Inv

LEMMA GoneCounts ==
  ASSUME Inv, NEW c \in Client, ClientConnectionGone(c)
  PROVE  Inv'
<1> DEFINE k == [Fresh EXCEPT !.newFBSizePending = client[c].newFBSizePending]
           s == Screen(c)
<1>1. k \in ClientState /\ k.state = "gone"
  BY DEF Inv, Typed, Fresh, ClientState, Main, Reasons
<1>2. /\ client' = [client EXCEPT ![c] = k]
      /\ refs' = [refs EXCEPT ![s] = refs[s] - 1]
  BY DEF ClientConnectionGone, Only, Left
<1>3. /\ client[c].state # "gone" /\ s = client[c].scaledScreen /\ s \in Screens
      /\ client \in [Client -> ClientState]
  BY DEF ClientConnectionGone, Live, Screen, Inv, Typed, ClientState, Screens
<1>4. Typed'
  <2>1. refs' \in [Screens -> Int]
    BY <1>2, <1>3 DEF Inv, Typed
  <2> QED BY <1>1, <2>1, OnlyTyped, FreshType DEF ClientConnectionGone, Inv, Typed
<1> HIDE DEF k, s
<1>5. Cardinality(Users(client', s)) = Cardinality(Users(client, s)) - 1
  BY <1>1, <1>2, <1>3, UserLeft
<1>6. \A t \in Screens \ {s} : Users(client', t) = Users(client, t)
  BY <1>1, <1>2, <1>3, UsersElsewhere, ZenonT(40)
<1>7. Counted'
  BY <1>2, <1>3, <1>5, <1>6 DEF Inv, Counted, Typed
<1>8. Listed'
  BY <1>2, <1>3 DEF ClientConnectionGone, Inv, Listed, Typed
<1> QED BY <1>4, <1>7, <1>8 DEF Inv

LEMMA ClientInitCounts ==
  ASSUME Inv, NEW c \in Client, ClientInit(c)
  PROVE  Inv'
<1> DEFINE k == [client[c] EXCEPT !.state = "normal"]
<1>1. k \in ClientState /\ k.state = "normal" /\ k.scaledScreen = client[c].scaledScreen
  BY DEF Inv, Typed, ClientState
<1>2. Told(viewer[c], width) \in ViewerState
  BY ToldType DEF Inv, Typed
<1>3. Only(c, k, Told(viewer[c], width)) /\ SameScreens /\ client[c].state # "gone"
  BY DEF ClientInit
<1> HIDE DEF k
<1>4. Typed'
  BY <1>1, <1>2, <1>3, OnlyTyped DEF SameScreens, Inv, Typed
<1> QED BY <1>1, <1>2, <1>3, <1>4, OnlyTyped, SameUsers DEF SameScreens, Inv

LEMMA SetEncodingsCounts ==
  ASSUME Inv, NEW c \in Client, NEW new \in BOOLEAN, NEW ext \in BOOLEAN,
         SetEncodings(c, new, ext)
  PROVE  Inv'
<1> DEFINE k == [client[c] EXCEPT !.useNewFBSize = new \/ ext, !.useExtDesktopSize = ext]
<1>1. k \in ClientState /\ k.state = client[c].state /\ k.scaledScreen = client[c].scaledScreen
  BY DEF Inv, Typed, ClientState
<1>2. Only(c, k, viewer[c]) /\ SameScreens /\ viewer[c] \in ViewerState
  BY DEF SetEncodings, Inv, Typed
<1> HIDE DEF k
<1>3. Typed'
  BY <1>1, <1>2, OnlyTyped DEF SameScreens, Inv, Typed
<1> QED BY <1>1, <1>2, <1>3, OnlyTyped, SameUsers DEF SameScreens, Inv

LEMMA RequestCounts ==
  ASSUME Inv, NEW c \in Client, FramebufferUpdateRequest(c)
  PROVE  Inv'
<1> DEFINE k == [client[c] EXCEPT !.newFBSizePending = TRUE]
<1>1. k \in ClientState /\ k.state = client[c].state /\ k.scaledScreen = client[c].scaledScreen
  BY DEF Inv, Typed, ClientState
<1>2. Only(c, k, viewer[c]) /\ SameScreens /\ viewer[c] \in ViewerState
  BY DEF FramebufferUpdateRequest, Inv, Typed
<1> HIDE DEF k
<1>3. Typed'
  BY <1>1, <1>2, OnlyTyped DEF SameScreens, Inv, Typed
<1> QED BY <1>1, <1>2, <1>3, OnlyTyped, SameUsers DEF SameScreens, Inv

LEMMA SendSizeCounts ==
  ASSUME Inv, NEW c \in Client, SendSize(c)
  PROVE  Inv'
<1> DEFINE k == Notified(client[c])
           t == Told(viewer[c], Size(Screen(c)))
           v == [t EXCEPT !.result = IF Answering(c) THEN NoAnswer ELSE t.result]
<1>1. k \in ClientState /\ k.state = client[c].state /\ k.scaledScreen = client[c].scaledScreen
  BY NotifiedType DEF Inv, Typed
<1>2. t \in ViewerState
  <2>1. Size(Screen(c)) \in Sizes \cup Scaled \cup {0}
    BY SizeType DEF Inv, Typed, Screen, ClientState, Screens
  <2> QED BY <2>1, ToldType DEF Inv, Typed
<1>3. Only(c, k, v) /\ SameScreens
  BY DEF SendSize
<1> HIDE DEF k, t
<1>4. v \in ViewerState
  BY <1>2 DEF ViewerState
<1> HIDE DEF v
<1>5. Typed'
  BY <1>1, <1>3, <1>4, OnlyTyped DEF SameScreens, Inv, Typed
<1> QED BY <1>1, <1>3, <1>4, <1>5, OnlyTyped, SameUsers DEF SameScreens, Inv

LEMMA SetDesktopSizeCounts ==
  ASSUME Inv, NEW c \in Client, NEW result \in {0, Refused}, SetDesktopSize(c, result)
  PROVE  Inv'
<1>1. client' = Requested(c, result) /\ SameScreens
  BY DEF SetDesktopSize
<1>2. viewer' \in [Client -> ViewerState]
  BY DEF SetDesktopSize, Inv, Typed, ViewerState
<1>3. client \in [Client -> ClientState]
  BY DEF Inv, Typed
<1>4. Typed'
  BY <1>1, <1>2, <1>3, RequestedType DEF SameScreens, Inv, Typed
<1> QED BY <1>1, <1>3, <1>4, RequestedType, SameUsers DEF SameScreens, Inv

\* The counters after c has moved to screen t.
LEMMA MovedType ==
  ASSUME Inv, NEW c \in Client, NEW t \in Screens
  PROVE  /\ Moved(c, t) \in [Screens -> Int]
         /\ t = Screen(c) => Moved(c, t) = refs
         /\ t # Screen(c) =>
              /\ Moved(c, t)[t] = refs[t] + 1
              /\ Moved(c, t)[Screen(c)] = refs[Screen(c)] - 1
         /\ \A s \in Screens \ {t, Screen(c)} : Moved(c, t)[s] = refs[s]
<1> DEFINE u == Screen(c)
           l == [refs EXCEPT ![u] = refs[u] - 1]
<1>1. u \in Screens /\ refs \in [Screens -> Int]
  BY DEF Inv, Typed, Screen, ClientState, Screens
<1>2. Moved(c, t) = [l EXCEPT ![t] = l[t] + 1]
  BY DEF Moved, Left
<1> HIDE DEF u
<1>3. l \in [Screens -> Int] /\ l[u] = refs[u] - 1 /\ \A s \in Screens \ {u} : l[s] = refs[s]
  BY <1>1
<1> HIDE DEF l
<1>4. t = u => [l EXCEPT ![t] = l[t] + 1] = refs
  <2> SUFFICES ASSUME t = u PROVE [l EXCEPT ![u] = l[u] + 1] = refs
    OBVIOUS
  <2>1. l[u] + 1 = refs[u]
    BY <1>1, <1>3
  <2> QED BY <1>1, <1>3, <2>1
<1>5. /\ [l EXCEPT ![t] = l[t] + 1] \in [Screens -> Int]
      /\ t # u => /\ [l EXCEPT ![t] = l[t] + 1][t] = refs[t] + 1
                  /\ [l EXCEPT ![t] = l[t] + 1][u] = refs[u] - 1
      /\ \A s \in Screens \ {t, u} : [l EXCEPT ![t] = l[t] + 1][s] = refs[s]
  BY <1>1, <1>3
<1> QED BY <1>2, <1>4, <1>5 DEF u

LEMMA MovedCounts ==
  ASSUME Inv, NEW c \in Client, NEW r \in ClientState,
         client[c].state # "gone", r.state # "gone",
         client' = [client EXCEPT ![c] = r], refs' = Moved(c, r.scaledScreen)
  PROVE  Counted'
<1> DEFINE t == r.scaledScreen
           u == client[c].scaledScreen
<1>1. /\ client \in [Client -> ClientState] /\ t \in Screens /\ u \in Screens
      /\ u = Screen(c)
  BY DEF Inv, Typed, ClientState, Screens, Screen
<1>2. \A s \in Screens \ {t, u} : Users(client', s) = Users(client, s)
  BY <1>1, UsersElsewhere
<1>3. CASE t = u
  <2>1. Users(client', t) = Users(client, t)
    BY <1>1, <1>3 DEF Users
  <2>2. refs' = refs
    BY <1>1, <1>3, MovedType
  <2> QED BY <1>2, <1>3, <2>1, <2>2 DEF Inv, Counted
<1>4. CASE t # u
  <2>1. Cardinality(Users(client', t)) = Cardinality(Users(client, t)) + 1
    BY <1>1, <1>4, UserCame
  <2>2. Cardinality(Users(client', u)) = Cardinality(Users(client, u)) - 1
    BY <1>1, <1>4, UserLeft
  <2>3. /\ refs'[t] = refs[t] + 1 /\ refs'[u] = refs[u] - 1
        /\ \A s \in Screens \ {t, u} : refs'[s] = refs[s]
    BY <1>1, <1>4, MovedType
  <2> HIDE DEF t, u
  <2> QED BY <1>1, <1>2, <2>1, <2>2, <2>3 DEF Inv, Counted
<1> QED BY <1>3, <1>4

\* What SetScale does, the two cases told apart.
LEMMA SetScaleCases ==
  ASSUME Inv, NEW c \in Client, NEW f \in Scales, SetScale(c, f)
  PROVE  \E k \in ClientState :
    /\ client[c].state = "normal" /\ k.state = "normal"
    /\ k.requestedDesktopSizeChange = client[c].requestedDesktopSizeChange
    /\ k.lastDesktopSizeChangeError = client[c].lastDesktopSizeChangeError
    /\ client' = [client EXCEPT ![c] = SendNewScaleSize(k, viewer[c])[1]]
    /\ viewer' = [viewer EXCEPT ![c] = SendNewScaleSize(k, viewer[c])[2]]
    /\ UNCHANGED <<running, width, unmarked>>
    /\ \/ k.scaledScreen = client[c].scaledScreen /\ UNCHANGED <<refs, alive, stale>>
       \/ /\ refs' = Moved(c, k.scaledScreen)
          /\ alive' = IF k.scaledScreen = Main THEN alive ELSE alive \cup {k.scaledScreen}
          /\ stale' = IF Refreshed(k.scaledScreen)
                        THEN [stale EXCEPT ![k.scaledScreen] = {}] ELSE stale
<1> DEFINE n == width \div f
           s == Find(n)
           k == [client[c] EXCEPT !.scaledScreen = s, !.newFBSizePending = TRUE]
<1>1. client[c] \in ClientState /\ client[c].state = "normal"
  BY DEF SetScale, Inv, Typed
<1>2. CASE n = 0
  <2>1. /\ client' = [client EXCEPT ![c] = SendNewScaleSize(client[c], viewer[c])[1]]
        /\ viewer' = [viewer EXCEPT ![c] = SendNewScaleSize(client[c], viewer[c])[2]]
        /\ UNCHANGED <<running, width, unmarked>> /\ UNCHANGED <<refs, alive, stale>>
    BY <1>2 DEF SetScale
  <2> QED BY <1>1, <2>1
<1>3. CASE n # 0
  <2>1. s \in Screens
    BY <1>3, FindType DEF Inv
  <2>2. /\ client' = [client EXCEPT ![c] = SendNewScaleSize(k, viewer[c])[1]]
        /\ viewer' = [viewer EXCEPT ![c] = SendNewScaleSize(k, viewer[c])[2]]
        /\ UNCHANGED <<running, width, unmarked>>
        /\ refs' = Moved(c, s)
        /\ alive' = IF s = Main THEN alive ELSE alive \cup {s}
        /\ stale' = IF Refreshed(s) THEN [stale EXCEPT ![s] = {}] ELSE stale
    BY <1>3 DEF SetScale
  <2> HIDE DEF n, s
  <2>3. /\ k \in ClientState /\ k.state = "normal" /\ k.scaledScreen = s
        /\ k.requestedDesktopSizeChange = client[c].requestedDesktopSizeChange
        /\ k.lastDesktopSizeChangeError = client[c].lastDesktopSizeChangeError
    BY <1>1, <2>1 DEF ClientState, Screens
  <2> HIDE DEF k
  <2> QED BY <1>1, <2>2, <2>3
<1> QED BY <1>2, <1>3

LEMMA SetScaleCounts ==
  ASSUME Inv, NEW c \in Client, NEW f \in Scales, SetScale(c, f)
  PROVE  Inv'
<1>1. PICK k \in ClientState :
        /\ client[c].state = "normal" /\ k.state = "normal"
        /\ client' = [client EXCEPT ![c] = SendNewScaleSize(k, viewer[c])[1]]
        /\ viewer' = [viewer EXCEPT ![c] = SendNewScaleSize(k, viewer[c])[2]]
        /\ UNCHANGED <<running, width, unmarked>>
        /\ \/ k.scaledScreen = client[c].scaledScreen /\ UNCHANGED <<refs, alive, stale>>
           \/ /\ refs' = Moved(c, k.scaledScreen)
              /\ alive' = IF k.scaledScreen = Main THEN alive ELSE alive \cup {k.scaledScreen}
              /\ stale' = IF Refreshed(k.scaledScreen)
                            THEN [stale EXCEPT ![k.scaledScreen] = {}] ELSE stale
  BY SetScaleCases
<1> DEFINE r == SendNewScaleSize(k, viewer[c])[1]
           v == SendNewScaleSize(k, viewer[c])[2]
<1>2. /\ r \in ClientState /\ v \in ViewerState
      /\ r.state = "normal" /\ r.scaledScreen = k.scaledScreen
  BY <1>1, SendNewScaleSizeType DEF Inv, Typed
<1>3. /\ client' = [client EXCEPT ![c] = r] /\ viewer' = [viewer EXCEPT ![c] = v]
      /\ client \in [Client -> ClientState] /\ viewer \in [Client -> ViewerState]
  BY <1>1 DEF Inv, Typed
<1> HIDE DEF r, v
<1>4. k.scaledScreen \in Screens /\ refs \in [Screens -> Int]
  BY DEF ClientState, Screens, Inv, Typed
<1>5. CASE k.scaledScreen = client[c].scaledScreen /\ UNCHANGED <<refs, alive, stale>>
  <2>1. Typed'
    BY <1>1, <1>2, <1>3, <1>5 DEF Inv, Typed
  <2> QED BY <1>1, <1>2, <1>3, <1>5, <2>1, SameUsers
<1>6. CASE /\ refs' = Moved(c, k.scaledScreen)
           /\ alive' = IF k.scaledScreen = Main THEN alive ELSE alive \cup {k.scaledScreen}
           /\ stale' = IF Refreshed(k.scaledScreen)
                         THEN [stale EXCEPT ![k.scaledScreen] = {}] ELSE stale
  <2>1. Counted'
    BY <1>1, <1>2, <1>3, <1>6, MovedCounts
  <2>2. stale' \in [Scaled -> SUBSET Areas] /\ alive' \subseteq Scaled
    BY <1>4, <1>6 DEF Inv, Typed, Screens
  <2>3. Typed'
    BY <1>1, <1>2, <1>3, <1>4, <1>6, <2>2, MovedType DEF Inv, Typed
  <2>4. Listed'
    <3>1. Screen(c) \in Screens
      BY <1>3 DEF Screen, ClientState, Screens
    <3>2. /\ refs'[k.scaledScreen] \in Int
          /\ \A s \in Screens \ {k.scaledScreen} : refs'[s] > 0 => refs[s] > 0
      BY <1>4, <1>6, <3>1, MovedType
    <3> QED BY <1>4, <1>6, <3>2 DEF Inv, Listed
  <2> QED BY <2>1, <2>3, <2>4 DEF Inv
<1> QED BY <1>1, <1>5, <1>6

LEMMA DrawCounts ==
  ASSUME Inv, NEW a \in Areas, Draw(a) \/ MarkRectAsModified(a)
  PROVE  Inv'
<1>1. Typed'
  <2>1. stale' \in [Scaled -> SUBSET Areas] /\ unmarked' \subseteq Areas
    BY DEF Draw, MarkRectAsModified, Inv, Typed
  <2>2. running' \in BOOLEAN
    BY DEF Draw, MarkRectAsModified, Inv, Typed
  <2> QED BY <2>1, <2>2 DEF Draw, MarkRectAsModified, Inv, Typed
<1>2. refs' = refs /\ alive' = alive /\ client' = client
  BY DEF Draw, MarkRectAsModified
<1> QED BY <1>1, <1>2, SameUsers

LEMMA NewFramebufferCounts ==
  ASSUME Inv, NEW n \in Sizes, NewFramebuffer(n)
  PROVE  Inv'
<1> DEFINE pending(c) == client[c].newFBSizePending \/ client[c].useNewFBSize
           k(c) == [client[c] EXCEPT !.newFBSizePending = pending(c)]
           missed(c) == viewer[c].missed \/ (Screen(c) = Main /\ ~client[c].useNewFBSize)
           v(c) == [viewer[c] EXCEPT !.missed = missed(c)]
<1>1. \A c \in Client : pending(c) \in BOOLEAN /\ missed(c) \in BOOLEAN
  BY DEF Inv, Typed, ClientState, ViewerState
<1>2. /\ client' = [c \in Client |-> IF c \in Live THEN k(c) ELSE client[c]]
      /\ viewer' = [c \in Client |-> v(c)]
  BY DEF NewFramebuffer
<1> HIDE DEF pending, missed
<1>3. ASSUME NEW c \in Client
      PROVE  /\ k(c) \in ClientState /\ v(c) \in ViewerState
             /\ k(c).state = client[c].state /\ k(c).scaledScreen = client[c].scaledScreen
  BY <1>1, SMTT(30) DEF Inv, Typed, ClientState, ViewerState
<1> HIDE DEF k, v
<1>4. \A c \in Client : /\ client[c].state = "gone" <=> client'[c].state = "gone"
                        /\ client[c].scaledScreen = client'[c].scaledScreen
  BY <1>2, <1>3
<1>5. client' \in [Client -> ClientState] /\ viewer' \in [Client -> ViewerState]
  BY <1>2, <1>3 DEF Inv, Typed
<1>6. Typed'
  BY <1>5 DEF NewFramebuffer, Inv, Typed
<1> QED BY <1>4, <1>6, SameUsers DEF NewFramebuffer

LEMMA ScreenCleanupCounts ==
  ASSUME Inv, ScreenCleanup
  PROVE  Inv'
<1> DEFINE k(c) == [Fresh EXCEPT !.newFBSizePending = client[c].newFBSizePending]
<1>1. \A c \in Client : k(c) \in ClientState /\ k(c).state = "gone"
  BY DEF Inv, Typed, Fresh, ClientState, Main, Reasons
<1>2. client' = [c \in Client |-> k(c)]
  BY DEF ScreenCleanup
<1> HIDE DEF k
<1>3. \A s : Cardinality(Users(client', s)) = 0
  BY <1>1, <1>2, FS_EmptySet DEF Users
<1>4. refs' = [s \in Screens |-> refs[s] - Cardinality(Users(client, s))]
  BY UsersOfScreen DEF ScreenCleanup, Screens
<1>5. \A s \in Screens : refs'[s] = 0
  BY <1>4 DEF Inv, Counted, Typed
<1>6. Counted' /\ Listed'
  BY <1>3, <1>5 DEF Counted, Listed
<1>7. refs' \in [Screens -> Int]
  BY <1>4, <1>5
<1>8. Typed'
  BY <1>1, <1>2, <1>7, FreshType, ZenonT(40) DEF ScreenCleanup, Inv, Typed
<1> QED BY <1>6, <1>8 DEF Inv

LEMMA CountsStep == Inv /\ [Next]_vars => Inv'
<1> SUFFICES ASSUME Inv, [Next]_vars PROVE Inv'
  OBVIOUS
<1>1. CASE UNCHANGED vars
  BY <1>1 DEF vars, Inv, Typed, Counted, Listed
<1>2. CASE ScreenNext
  BY <1>2, DrawCounts, NewFramebufferCounts, ScreenCleanupCounts DEF ScreenNext
<1>3. ASSUME NEW c \in Client, ClientNext(c) PROVE Inv'
  BY <1>3, ConnectCounts, ClientInitCounts, GoneCounts, SetEncodingsCounts, RequestCounts,
     SetScaleCounts, SetDesktopSizeCounts, SendSizeCounts DEF ClientNext
<1> QED BY <1>1, <1>2, <1>3 DEF Next

LEMMA CountsRight == Spec => []Inv
BY InitCounts, CountsStep, PTL DEF Spec

-----------------------------------------------------------------------------
\* Type correctness: scaledScreenRefCount never leaves 0 .. the number of
\* clients, whoever comes, rescales and leaves (scale.c 353-385).
THEOREM ScreenTypeCorrect == Spec => []TypeOK
<1>1. Inv => TypeOK
  <2> SUFFICES ASSUME Inv PROVE TypeOK
    OBVIOUS
  <2>1. \A s \in Screens : refs[s] \in 0 .. Cardinality(Client)
    BY UsersFinite DEF Inv, Counted
  <2> QED BY <2>1 DEF Inv, Typed, TypeOK, Screens
<1> QED BY <1>1, CountsRight, PTL

\* Each scaled screen counts its users, and one in use is in the list that
\* rfbScaledScreenUpdate goes through (scale.c 279-283, 353-385;
\* rfbserver.c 235, 407).
THEOREM CountsMatch == Spec => []RefsMatch
<1>1. Inv => RefsMatch
  BY UsersOfScreen DEF Inv, Counted, Listed, RefsMatch, Used, Screens
<1> QED BY <1>1, CountsRight, PTL

-----------------------------------------------------------------------------
(* Sizes and answers.                                                        *)

\* SizeTold for every viewer that has nothing pending, whether it takes notices
\* or not; a client that has not sent ClientInit is served from the main screen.
SizesInStep ==
  \A c \in Client :
    /\ client[c].state = "init" => Screen(c) = Main
    /\ client[c].state = "normal" /\ ~client[c].newFBSizePending /\ ~viewer[c].missed
         => viewer[c].size = Size(Screen(c))

\* A step that touches only client c, in whose record and viewer both hold.
LEMMA OnlyInStep ==
  ASSUME Inv, SizesInStep, width' = width,
         NEW c \in Client, NEW k \in ClientState, NEW v \in ViewerState,
         client' = [client EXCEPT ![c] = k], viewer' = [viewer EXCEPT ![c] = v],
         k.state = "init" => k.scaledScreen = Main,
         k.state = "normal" /\ ~k.newFBSizePending /\ ~v.missed
           => v.size = Size(k.scaledScreen)
  PROVE  SizesInStep'
<1>1. client \in [Client -> ClientState] /\ viewer \in [Client -> ViewerState]
  BY DEF Inv, Typed
<1> QED BY <1>1 DEF SizesInStep, Screen, Size

LEMMA OthersAnswered ==
  ASSUME Inv, AnswersOwn,
         NEW c \in Client, NEW k \in ClientState, NEW v \in ViewerState,
         client' = [client EXCEPT ![c] = k], viewer' = [viewer EXCEPT ![c] = v],
         k.requestedDesktopSizeChange = "client" =>
           v.result # NoAnswer /\ k.lastDesktopSizeChangeError = v.result
  PROVE  AnswersOwn'
<1>1. client \in [Client -> ClientState] /\ viewer \in [Client -> ViewerState]
  BY DEF Inv, Typed
<1> QED BY <1>1 DEF AnswersOwn

Both == SizesInStep /\ AnswersOwn

LEMMA ConnectSizes ==
  ASSUME Inv, Both, NEW c \in Client, Connect(c)
  PROVE  Both'
<1> DEFINE k == NewStreamClient(client[c])
<1>1. /\ k \in ClientState /\ k.state = "init" /\ k.scaledScreen = Main
      /\ k.requestedDesktopSizeChange = "server"
  BY NewStreamClientType DEF Inv, Typed, NewStreamClient, Fresh
<1>2. /\ client' = [client EXCEPT ![c] = k] /\ viewer' = [viewer EXCEPT ![c] = NoViewer]
      /\ width' = width
  BY DEF Connect, Only
<1> HIDE DEF k
<1> QED BY <1>1, <1>2, FreshType, OnlyInStep, OthersAnswered DEF Both

LEMMA GoneSizes ==
  ASSUME Inv, Both, NEW c \in Client, ClientConnectionGone(c)
  PROVE  Both'
<1> DEFINE k == [Fresh EXCEPT !.newFBSizePending = client[c].newFBSizePending]
<1>1. k \in ClientState /\ k.state = "gone" /\ k.requestedDesktopSizeChange = "server"
  BY DEF Inv, Typed, Fresh, ClientState, Main, Reasons
<1>2. /\ client' = [client EXCEPT ![c] = k] /\ viewer' = [viewer EXCEPT ![c] = NoViewer]
      /\ width' = width
  BY DEF ClientConnectionGone, Only
<1> HIDE DEF k
<1> QED BY <1>1, <1>2, FreshType, OnlyInStep, OthersAnswered DEF Both

LEMMA ClientInitSizes ==
  ASSUME Inv, Both, NEW c \in Client, ClientInit(c)
  PROVE  Both'
<1> DEFINE k == [client[c] EXCEPT !.state = "normal"]
           v == Told(viewer[c], width)
<1>1. /\ k \in ClientState /\ k.state = "normal" /\ k.scaledScreen = client[c].scaledScreen
      /\ k.requestedDesktopSizeChange = client[c].requestedDesktopSizeChange
      /\ k.lastDesktopSizeChangeError = client[c].lastDesktopSizeChangeError
  BY DEF Inv, Typed, ClientState
<1>2. v \in ViewerState /\ v.size = width /\ v.result = viewer[c].result
  BY ToldType DEF Inv, Typed
<1>3. k.scaledScreen = Main
  BY <1>1 DEF ClientInit, Both, SizesInStep, Screen
<1>4. /\ client' = [client EXCEPT ![c] = k] /\ viewer' = [viewer EXCEPT ![c] = v]
      /\ width' = width
  BY DEF ClientInit, Only, SameScreens
<1> HIDE DEF k, v
<1>5. v.size = Size(k.scaledScreen)
  BY <1>2, <1>3 DEF Size
<1>6. k.requestedDesktopSizeChange = "client" =>
        v.result # NoAnswer /\ k.lastDesktopSizeChangeError = v.result
  BY <1>1, <1>2 DEF Both, AnswersOwn
<1> QED BY <1>1, <1>2, <1>4, <1>5, <1>6, OnlyInStep, OthersAnswered DEF Both

LEMMA SetEncodingsSizes ==
  ASSUME Inv, Both, NEW c \in Client, NEW new \in BOOLEAN, NEW ext \in BOOLEAN,
         SetEncodings(c, new, ext)
  PROVE  Both'
<1> DEFINE k == [client[c] EXCEPT !.useNewFBSize = new \/ ext, !.useExtDesktopSize = ext]
<1>1. /\ k \in ClientState /\ k.state = client[c].state
      /\ k.scaledScreen = client[c].scaledScreen
      /\ k.newFBSizePending = client[c].newFBSizePending
      /\ k.requestedDesktopSizeChange = client[c].requestedDesktopSizeChange
      /\ k.lastDesktopSizeChangeError = client[c].lastDesktopSizeChangeError
  BY DEF Inv, Typed, ClientState
<1>2. /\ client' = [client EXCEPT ![c] = k] /\ viewer' = [viewer EXCEPT ![c] = viewer[c]]
      /\ width' = width /\ viewer[c] \in ViewerState
  BY DEF SetEncodings, Only, SameScreens, Inv, Typed
<1> HIDE DEF k
<1>3. k.state = "normal" /\ ~k.newFBSizePending /\ ~viewer[c].missed
        => viewer[c].size = Size(k.scaledScreen)
  BY <1>1 DEF Both, SizesInStep, Screen
<1>4. k.state = "init" => k.scaledScreen = Main
  BY <1>1 DEF Both, SizesInStep, Screen
<1>5. k.requestedDesktopSizeChange = "client" =>
        viewer[c].result # NoAnswer /\ k.lastDesktopSizeChangeError = viewer[c].result
  BY <1>1 DEF Both, AnswersOwn
<1> QED BY <1>1, <1>2, <1>3, <1>4, <1>5, OnlyInStep, OthersAnswered DEF Both

LEMMA RequestSizes ==
  ASSUME Inv, Both, NEW c \in Client, FramebufferUpdateRequest(c)
  PROVE  Both'
<1> DEFINE k == [client[c] EXCEPT !.newFBSizePending = TRUE]
<1>1. /\ k \in ClientState /\ k.state = "normal" /\ k.newFBSizePending
      /\ k.requestedDesktopSizeChange = client[c].requestedDesktopSizeChange
      /\ k.lastDesktopSizeChangeError = client[c].lastDesktopSizeChangeError
  BY DEF FramebufferUpdateRequest, Inv, Typed, ClientState
<1>2. /\ client' = [client EXCEPT ![c] = k] /\ viewer' = [viewer EXCEPT ![c] = viewer[c]]
      /\ width' = width /\ viewer[c] \in ViewerState
  BY DEF FramebufferUpdateRequest, Only, SameScreens, Inv, Typed
<1> HIDE DEF k
<1>3. k.requestedDesktopSizeChange = "client" =>
        viewer[c].result # NoAnswer /\ k.lastDesktopSizeChangeError = viewer[c].result
  BY <1>1 DEF Both, AnswersOwn
<1> QED BY <1>1, <1>2, <1>3, OnlyInStep, OthersAnswered DEF Both

LEMMA SetScaleSizes ==
  ASSUME Inv, Both, NEW c \in Client, NEW f \in Scales, SetScale(c, f)
  PROVE  Both'
<1>1. PICK k \in ClientState :
        /\ k.state = "normal"
        /\ k.requestedDesktopSizeChange = client[c].requestedDesktopSizeChange
        /\ k.lastDesktopSizeChangeError = client[c].lastDesktopSizeChangeError
        /\ client' = [client EXCEPT ![c] = SendNewScaleSize(k, viewer[c])[1]]
        /\ viewer' = [viewer EXCEPT ![c] = SendNewScaleSize(k, viewer[c])[2]]
        /\ width' = width
  BY SetScaleCases
<1> DEFINE r == SendNewScaleSize(k, viewer[c])[1]
           v == SendNewScaleSize(k, viewer[c])[2]
<1>2. /\ r \in ClientState /\ v \in ViewerState /\ r.state = "normal"
      /\ r.scaledScreen = k.scaledScreen
      /\ r.requestedDesktopSizeChange = k.requestedDesktopSizeChange
      /\ r.lastDesktopSizeChangeError = k.lastDesktopSizeChangeError
      /\ v.result = viewer[c].result
      /\ r.newFBSizePending \/ v.size = Size(k.scaledScreen)
  BY <1>1, SendNewScaleSizeType DEF Inv, Typed
<1>3. client' = [client EXCEPT ![c] = r] /\ viewer' = [viewer EXCEPT ![c] = v]
  BY <1>1
<1> HIDE DEF r, v
<1>4. r.requestedDesktopSizeChange = "client" =>
        v.result # NoAnswer /\ r.lastDesktopSizeChangeError = v.result
  BY <1>1, <1>2 DEF Both, AnswersOwn
<1>5. r.state = "normal" /\ ~r.newFBSizePending /\ ~v.missed => v.size = Size(r.scaledScreen)
  BY <1>2
<1>6. SizesInStep'
  <2>1. width' = width /\ SizesInStep
    BY <1>1 DEF Both
  <2>2. r \in ClientState /\ v \in ViewerState /\ (r.state = "init" => r.scaledScreen = Main)
    BY <1>2
  <2> QED BY <1>3, <1>5, <2>1, <2>2, OnlyInStep
<1>7. AnswersOwn'
  BY <1>2, <1>3, <1>4, OthersAnswered DEF Both
<1> QED BY <1>6, <1>7 DEF Both

LEMMA SendSizeSizes ==
  ASSUME Inv, Both, NEW c \in Client, SendSize(c)
  PROVE  Both'
<1> DEFINE k == Notified(client[c])
           t == Told(viewer[c], Size(Screen(c)))
           v == [t EXCEPT !.result = IF Answering(c) THEN NoAnswer ELSE t.result]
<1>1. /\ k \in ClientState /\ k.state = "normal" /\ k.scaledScreen = client[c].scaledScreen
  BY NotifiedType DEF SendSize, Inv, Typed
<1>2. \/ k.requestedDesktopSizeChange = "server"
      \/ /\ ~client[c].useExtDesktopSize
         /\ k.requestedDesktopSizeChange = client[c].requestedDesktopSizeChange
         /\ k.lastDesktopSizeChangeError = client[c].lastDesktopSizeChangeError
  BY DEF Notified, Inv, Typed, ClientState
<1>3. t \in ViewerState /\ t.size = Size(Screen(c)) /\ t.result = viewer[c].result
  <2>1. Size(Screen(c)) \in Sizes \cup Scaled \cup {0}
    BY SizeType DEF Inv, Typed, Screen, ClientState, Screens
  <2> QED BY <2>1, ToldType DEF Inv, Typed
<1>4. /\ client' = [client EXCEPT ![c] = k] /\ viewer' = [viewer EXCEPT ![c] = v]
      /\ width' = width
  BY DEF SendSize, Only, SameScreens
<1> HIDE DEF k, t
<1>5. /\ v \in ViewerState /\ v.size = Size(k.scaledScreen)
      /\ ~Answering(c) => v.result = viewer[c].result
  BY <1>1, <1>3 DEF ViewerState, Screen
<1> HIDE DEF v
<1>6. k.requestedDesktopSizeChange = "client" =>
        v.result # NoAnswer /\ k.lastDesktopSizeChangeError = v.result
  BY <1>2, <1>5 DEF Both, AnswersOwn, Answering
<1> QED BY <1>1, <1>4, <1>5, <1>6, OnlyInStep, OthersAnswered DEF Both

LEMMA SetDesktopSizeSizes ==
  ASSUME Inv, Both, NEW c \in Client, NEW result \in {0, Refused}, SetDesktopSize(c, result)
  PROVE  Both'
<1>1. /\ client' = Requested(c, result) /\ viewer' = [viewer EXCEPT ![c].result = result]
      /\ width' = width
      /\ client \in [Client -> ClientState] /\ viewer \in [Client -> ViewerState]
  BY DEF SetDesktopSize, SameScreens, Inv, Typed
<1>2. ASSUME NEW d \in Client
      PROVE  /\ client'[d].newFBSizePending \/ ~client[d].newFBSizePending
             /\ \/ client'[d].requestedDesktopSizeChange = "other"
                \/ d = c /\ client'[d].lastDesktopSizeChangeError = result
                \/ d # c /\ client'[d] = client[d]
  BY <1>1 DEF Requested, ClientState
<1>3. ASSUME NEW d \in Client
      PROVE  /\ viewer'[d].size = viewer[d].size /\ viewer'[d].missed = viewer[d].missed
             /\ d = c => viewer'[d].result = result
             /\ d # c => viewer'[d] = viewer[d]
  BY <1>1 DEF ViewerState
<1>4. SizesInStep'
  <2>1. \A d \in Client : /\ client'[d].state = client[d].state
                          /\ client'[d].scaledScreen = client[d].scaledScreen
    BY <1>1, RequestedType
  <2> QED BY <1>1, <1>2, <1>3, <2>1 DEF Both, SizesInStep, Screen, Size
<1>5. AnswersOwn'
  <2>1. result # NoAnswer
    BY ScreenAssumption
  <2> QED BY <1>2, <1>3, <2>1 DEF Both, AnswersOwn
<1> QED BY <1>4, <1>5 DEF Both

LEMMA NewFramebufferSizes ==
  ASSUME Inv, Both, NEW n \in Sizes, NewFramebuffer(n)
  PROVE  Both'
<1> DEFINE pending(c) == client[c].newFBSizePending \/ client[c].useNewFBSize
           k(c) == [client[c] EXCEPT !.newFBSizePending = pending(c)]
           missed(c) == viewer[c].missed \/ (Screen(c) = Main /\ ~client[c].useNewFBSize)
           v(c) == [viewer[c] EXCEPT !.missed = missed(c)]
<1>1. /\ client' = [c \in Client |-> IF c \in Live THEN k(c) ELSE client[c]]
      /\ viewer' = [c \in Client |-> v(c)]
      /\ client \in [Client -> ClientState] /\ viewer \in [Client -> ViewerState]
  BY DEF NewFramebuffer, Inv, Typed
<1>2. ASSUME NEW c \in Client
      PROVE  /\ k(c).state = client[c].state /\ k(c).scaledScreen = client[c].scaledScreen
             /\ k(c).newFBSizePending = pending(c)
             /\ k(c).requestedDesktopSizeChange = client[c].requestedDesktopSizeChange
             /\ k(c).lastDesktopSizeChangeError = client[c].lastDesktopSizeChangeError
             /\ v(c).size = viewer[c].size /\ v(c).missed = missed(c)
             /\ v(c).result = viewer[c].result
  BY <1>1 DEF ClientState, ViewerState
<1> HIDE DEF k, v
<1>3. AnswersOwn'
  BY <1>1, <1>2 DEF Both, AnswersOwn
<1>4. ASSUME NEW c \in Client
      PROVE  /\ client'[c].state = client[c].state
             /\ client'[c].scaledScreen = client[c].scaledScreen
             /\ c \in Live => client'[c].newFBSizePending = pending(c)
             /\ viewer'[c].size = viewer[c].size /\ viewer'[c].missed = missed(c)
  BY <1>1, <1>2
<1>5. SizesInStep'
  <2>1. ASSUME NEW c \in Client PROVE client'[c].state = "init" => Screen(c)' = Main
    BY <1>4 DEF Both, SizesInStep, Screen
  <2>2. ASSUME NEW c \in Client, client'[c].state = "normal",
               ~client'[c].newFBSizePending, ~viewer'[c].missed
        PROVE  viewer'[c].size = Size(Screen(c))'
    <3>1. c \in Live /\ client[c].state = "normal"
      BY <1>4, <2>2 DEF Live
    <3>2. ~pending(c) /\ ~missed(c)
      BY <1>4, <2>2, <3>1
    <3>3. Screen(c) # Main /\ Screen(c)' = Screen(c)
      BY <1>4, <3>2 DEF Screen
    <3>4. viewer[c].size = Size(Screen(c))
      BY <3>1, <3>2 DEF Both, SizesInStep
    <3> QED BY <1>4, <3>3, <3>4 DEF Size
  <2> QED BY <2>1, <2>2 DEF SizesInStep
<1> QED BY <1>3, <1>5 DEF Both

LEMMA ScreenCleanupSizes ==
  ASSUME Inv, Both, ScreenCleanup
  PROVE  Both'
<1> DEFINE k(c) == [Fresh EXCEPT !.newFBSizePending = client[c].newFBSizePending]
<1>1. \A c \in Client : k(c).state = "gone" /\ k(c).requestedDesktopSizeChange = "server"
  BY DEF Fresh
<1>2. client' = [c \in Client |-> k(c)]
  BY DEF ScreenCleanup
<1> HIDE DEF k
<1> QED BY <1>1, <1>2 DEF Both, SizesInStep, AnswersOwn

LEMMA SizesStep == Inv /\ Both /\ [Next]_vars => Both'
<1> SUFFICES ASSUME Inv, Both, [Next]_vars PROVE Both'
  OBVIOUS
<1>1. CASE UNCHANGED vars
  BY <1>1 DEF vars, Both, SizesInStep, AnswersOwn, Screen, Size
<1>2. ASSUME NEW a \in Areas, Draw(a) \/ MarkRectAsModified(a) PROVE Both'
  BY <1>2 DEF Draw, MarkRectAsModified, Both, SizesInStep, AnswersOwn, Screen, Size
<1>3. CASE ScreenNext
  BY <1>2, <1>3, NewFramebufferSizes, ScreenCleanupSizes DEF ScreenNext
<1>4. ASSUME NEW c \in Client, ClientNext(c) PROVE Both'
  BY <1>4, ConnectSizes, ClientInitSizes, GoneSizes, SetEncodingsSizes, RequestSizes,
     SetScaleSizes, SetDesktopSizeSizes, SendSizeSizes DEF ClientNext
<1> QED BY <1>1, <1>3, <1>4 DEF Next

LEMMA SizesRight == Spec => []Both
<1>1. Init => Both
  BY DEF Init, Both, SizesInStep, AnswersOwn, Fresh
<1> QED BY <1>1, SizesStep, CountsRight, PTL DEF Spec

\* A viewer that takes notices of the size and has none pending shows the size
\* of the screen it is served from (rfbserver.c 2512-2547, scale.c 388-396).
THEOREM SizesAreTold == Spec => []SizeTold
<1>1. Both => SizeTold
  BY DEF Both, SizesInStep, SizeTold
<1> QED BY <1>1, SizesRight, PTL

\* The outcome an ExtDesktopSize rectangle gives for the viewer's own request is
\* that of its last one (rfbserver.c 2443-2456, 3195-3211).
THEOREM AnswersAreOwn == Spec => []AnswersOwn
<1>1. Both => AnswersOwn
  BY DEF Both
<1> QED BY <1>1, SizesRight, PTL

-----------------------------------------------------------------------------
(* What is drawn reaches the scaled screens.                                 *)

\* ScaledFollows, whether or not the server has stopped.
Follows == \A s \in alive : refs[s] > 0 => stale[s] \subseteq unmarked

LEMMA SetScaleFollows ==
  ASSUME Inv, Follows, NEW c \in Client, NEW f \in Scales, SetScale(c, f)
  PROVE  Follows'
<1>1. PICK k \in ClientState :
        /\ unmarked' = unmarked
        /\ \/ UNCHANGED <<refs, alive, stale>>
           \/ /\ refs' = Moved(c, k.scaledScreen)
              /\ alive' = IF k.scaledScreen = Main THEN alive ELSE alive \cup {k.scaledScreen}
              /\ stale' = IF Refreshed(k.scaledScreen)
                            THEN [stale EXCEPT ![k.scaledScreen] = {}] ELSE stale
  BY SetScaleCases
<1> DEFINE t == k.scaledScreen
<1>2. CASE UNCHANGED <<refs, alive, stale>>
  BY <1>1, <1>2 DEF Follows
<1>3. CASE /\ refs' = Moved(c, t)
           /\ alive' = IF t = Main THEN alive ELSE alive \cup {t}
           /\ stale' = IF Refreshed(t) THEN [stale EXCEPT ![t] = {}] ELSE stale
  <2>1. t \in Screens /\ Screen(c) \in Screens /\ Main \notin Scaled
        /\ alive \subseteq Scaled /\ stale \in [Scaled -> SUBSET Areas]
        /\ refs \in [Screens -> Int]
    BY SizesArePositive DEF ClientState, Screens, Inv, Typed, Screen
  <2>2. ASSUME NEW s \in Screens \ {t}, refs'[s] > 0 PROVE refs[s] > 0
    BY <1>3, <2>1, <2>2, MovedType
  <2>3. ASSUME NEW s \in alive', refs'[s] > 0 PROVE stale'[s] \subseteq unmarked'
    <3>1. CASE s # t
      <4>1. s \in alive /\ s \in Screens
        BY <1>3, <2>1, <2>3, <3>1 DEF Screens
      <4>2. refs[s] > 0 /\ stale'[s] = stale[s]
        BY <1>3, <2>1, <2>2, <2>3, <3>1, <4>1
      <4> QED BY <1>1, <4>1, <4>2 DEF Follows
    <3>2. CASE s = t /\ Refreshed(t)
      <4>1. t \in Scaled
        BY <2>1, <3>2 DEF Refreshed, Screens
      <4> QED BY <1>3, <2>1, <3>2, <4>1
    <3>3. CASE s = t /\ ~Refreshed(t)
      <4>1. t # Main
        BY <1>3, <2>1, <2>3, <3>3
      <4>2. t \in alive /\ refs[t] > 0 /\ stale' = stale
        BY <1>3, <3>3, <4>1 DEF Refreshed, Used
      <4> QED BY <1>1, <3>3, <4>2 DEF Follows
    <3> QED BY <3>1, <3>2, <3>3
  <2> QED BY <2>3 DEF Follows
<1> QED BY <1>1, <1>2, <1>3

LEMMA FollowsStep == Inv /\ Follows /\ [Next]_vars => Follows'
<1> SUFFICES ASSUME Inv, Follows, [Next]_vars PROVE Follows'
  OBVIOUS
<1>0. /\ Main \notin Scaled /\ alive \subseteq Scaled /\ stale \in [Scaled -> SUBSET Areas]
      /\ unmarked \subseteq Areas /\ refs \in [Screens -> Int]
      /\ \A c \in Client : Screen(c) \in Screens
  BY SizesArePositive DEF Inv, Typed, Screen, ClientState, Screens
<1>1. CASE UNCHANGED vars
  BY <1>1 DEF vars, Follows
<1>2. ASSUME NEW a \in Areas, Draw(a) PROVE Follows'
  <2>1. /\ \A s \in alive : stale'[s] = stale[s] \cup {a}
        /\ unmarked' = unmarked \cup {a} /\ UNCHANGED <<refs, alive>>
    BY <1>0, <1>2 DEF Draw
  <2> QED BY <2>1 DEF Follows
<1>3. ASSUME NEW a \in Areas, MarkRectAsModified(a) PROVE Follows'
  <2>1. /\ \A s \in alive : refs[s] > 0 => stale'[s] = stale[s] \ {a}
        /\ unmarked' = unmarked \ {a} /\ UNCHANGED <<refs, alive>>
    BY <1>0, <1>3 DEF MarkRectAsModified, Updated, Used
  <2> QED BY <2>1 DEF Follows
<1>4. ASSUME NEW n \in Sizes, NewFramebuffer(n) PROVE Follows'
  <2>1. /\ \A s \in alive : stale'[s] = Areas
        /\ unmarked' = Areas /\ UNCHANGED <<refs, alive>>
    BY <1>0, <1>4 DEF NewFramebuffer
  <2> QED BY <2>1 DEF Follows
<1>5. CASE ScreenCleanup
  BY <1>5 DEF ScreenCleanup, Follows
<1>6. ASSUME NEW c \in Client, Connect(c) \/ ClientConnectionGone(c) PROVE Follows'
  <2>1. \A s \in Scaled : refs'[s] > 0 => refs[s] > 0
    BY <1>0, <1>6 DEF Connect, ClientConnectionGone, Left, Screens
  <2> QED BY <1>0, <1>6, <2>1 DEF Connect, ClientConnectionGone, Follows
<1>7. ASSUME NEW c \in Client, ClientNext(c) PROVE Follows'
  <2>1. CASE Connect(c) \/ ClientConnectionGone(c)
    BY <1>6, <2>1
  <2>2. CASE \E f \in Scales : SetScale(c, f)
    BY <2>2, SetScaleFollows
  <2>3. CASE SameScreens
    BY <2>3 DEF SameScreens, Follows
  <2> QED
    BY <1>7, <2>1, <2>2, <2>3 DEF ClientNext, ClientInit, SetEncodings,
       FramebufferUpdateRequest, SetDesktopSize, SendSize
<1> QED BY <1>1, <1>2, <1>3, <1>4, <1>5, <1>7 DEF Next, ScreenNext

\* A scaled screen in use lacks nothing that was marked with rfbMarkRectAsModified,
\* and what was drawn while nobody used it is made good (scale.c 279-283, 363-367).
THEOREM ScaledScreensFollow == Spec => []ScaledFollows
<1>1. Init => Follows
  BY DEF Init, Follows
<1>2. Follows => ScaledFollows
  BY DEF Follows, ScaledFollows, Used
<1> QED BY <1>1, <1>2, FollowsStep, CountsRight, PTL DEF Spec
=============================================================================
