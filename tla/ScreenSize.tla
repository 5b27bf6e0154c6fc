----------------------------- MODULE ScreenSize -----------------------------
(* The sizes of the screen: the main screen, which the application replaces *)
(* (main.c), the scaled screens that viewers ask for and share (scale.c),   *)
(* and how each viewer is told of the size it has to show (rfbserver.c:     *)
(* NewFBSize, ExtendedDesktopSize, ResizeFrameBuffer).  Width and height    *)
(* behave alike; one number stands for both.  Colours are true colours.     *)
EXTENDS Integers, FiniteSets

CONSTANTS
  Client,      \* records of clients; a record is used again
  Sizes,       \* the sizes the application gives the main screen
  Scales,      \* the scale factors viewers ask for
  Areas,       \* parts of the picture
  NoAnswer, Refused  \* results of setDesktopSizeHook other than success (0)

Main == 0                                  \* the main screen in cl->scaledScreen
ASSUME ScreenAssumption ==
  /\ Sizes # {} /\ Sizes \subseteq Nat \ {0} /\ Scales \subseteq Nat \ {0}
  /\ IsFiniteSet(Client)
  /\ Refused # 0 /\ NoAnswer \notin {0, Refused}

Scaled == {s \div f : s \in Sizes, f \in Scales} \ {0}

VARIABLES
  running,     \* the server has not stopped on a division by zero
  width,       \* of the main screen
  refs,        \* scaledScreenRefCount of the main and the scaled screens
  alive,       \* the scaled screens in the list, by their sizes
  stale,       \* the areas in which a scaled screen differs from the main one
  unmarked,    \* the areas drawn and not marked with rfbMarkRectAsModified since
  client,      \* rfbClient
  viewer       \* what was sent to the viewer, and what it waits for

vars == <<running, width, refs, alive, stale, unmarked, client, viewer>>

-----------------------------------------------------------------------------
Reasons == {"server", "client", "other"}   \* requestedDesktopSizeChange
ClientState ==
  [state: {"gone", "init", "normal"}, scaledScreen: Scaled \cup {Main},
   useNewFBSize: BOOLEAN, useExtDesktopSize: BOOLEAN, newFBSizePending: BOOLEAN,
   requestedDesktopSizeChange: Reasons, lastDesktopSizeChangeError: {0, Refused}]
\* size: the last size it was told; missed: the main screen was replaced when
\* it did not take notices; result: that of its SetDesktopSize, until answered.
ViewerState == [size: Sizes \cup Scaled \cup {0}, missed: BOOLEAN, result: {NoAnswer, 0, Refused}]

Size(s) == IF s = Main THEN width ELSE s
Used(s) == refs[s] > 0
Screen(c) == client[c].scaledScreen
Live == {c \in Client : client[c].state # "gone"}
Fresh ==
  [state |-> "gone", scaledScreen |-> Main, useNewFBSize |-> FALSE,
   useExtDesktopSize |-> FALSE, newFBSizePending |-> FALSE,
   requestedDesktopSizeChange |-> "server", lastDesktopSizeChangeError |-> 0]
NoViewer == [size |-> 0, missed |-> FALSE, result |-> NoAnswer]
Told(v, n) == [v EXCEPT !.size = n, !.missed = FALSE]

\* Everything but what an operation changes in client c and its viewer.
Only(c, k, v) ==
  client' = [client EXCEPT ![c] = k] /\ viewer' = [viewer EXCEPT ![c] = v]
SameScreens == UNCHANGED <<running, width, refs, alive, stale, unmarked>>

\* rfbNewStreamClient: newFBSizePending keeps what the record had.
NewStreamClient(k) ==
  [Fresh EXCEPT !.state = "init", !.newFBSizePending = k.newFBSizePending]

\* Faulty Left: whatever screen it used.
LeftMain(c) == [refs EXCEPT ![Main] = @ - 1]

\* The counters when c is gone.
Left(c) == [refs EXCEPT ![Screen(c)] = @ - 1]

Connect(c) ==
  /\ client[c].state = "gone"
  /\ Only(c, NewStreamClient(client[c]), NoViewer)
  /\ refs' = [refs EXCEPT ![Main] = @ + 1]
  /\ UNCHANGED <<running, width, alive, stale, unmarked>>

\* ServerInit carries the size of the main screen.
ClientInit(c) ==
  /\ client[c].state = "init"
  /\ Only(c, [client[c] EXCEPT !.state = "normal"], Told(viewer[c], width))
  /\ SameScreens

\* What the record still holds is overwritten by rfbNewStreamClient, except
\* for newFBSizePending.
ClientConnectionGone(c) ==
  /\ c \in Live
  /\ Only(c, [Fresh EXCEPT !.newFBSizePending = client[c].newFBSizePending], NoViewer)
  /\ refs' = Left(c)
  /\ UNCHANGED <<running, width, alive, stale, unmarked>>

SetEncodings(c, new, ext) ==
  /\ client[c].state = "normal"
  /\ Only(c, [client[c] EXCEPT !.useNewFBSize = new \/ ext, !.useExtDesktopSize = ext], viewer[c])
  /\ SameScreens

\* The requests themselves are UpdatePipeline's; one that is not incremental
\* asks for the size, too.
FramebufferUpdateRequest(c) ==
  /\ client[c].state = "normal" /\ client[c].useExtDesktopSize
  /\ Only(c, [client[c] EXCEPT !.newFBSizePending = TRUE], viewer[c])
  /\ SameScreens

-----------------------------------------------------------------------------
(* Scaled screens.                                                           *)

\* rfbScalingFind looks at the main screen first.
Find(n) == IF n = width THEN Main ELSE n

\* Faulty Refreshed: only a new one is filled.
RefreshedNew(s) == s # Main /\ s \notin alive

\* A scaled screen that has to be allocated is filled whole; so is one
\* without viewers, which was not kept up to date.
Refreshed(s) == s # Main /\ ~(s \in alive /\ Used(s))

\* Faulty Moved: the screen that is left keeps its count.
MovedUncounted(c, t) == [refs EXCEPT ![t] = @ + 1]

\* The counters when c moves to screen t.
Moved(c, t) == [Left(c) EXCEPT ![t] = @ + 1]

\* Faulty SendNewScaleSize: the notice that is pending is taken back.
SendNewScaleSizeQuiet(k, v) ==
  IF k.useNewFBSize
    THEN <<[k EXCEPT !.newFBSizePending = FALSE], v>>
    ELSE <<[k EXCEPT !.newFBSizePending = FALSE], Told(v, Size(k.scaledScreen))>>

\* rfbSendNewScaleSize: a viewer that takes notices gets one with the next
\* update, any other a ResizeFrameBuffer message.
SendNewScaleSize(k, v) ==
  IF k.useNewFBSize /\ k.newFBSizePending
    THEN <<k, v>>
    ELSE <<[k EXCEPT !.newFBSizePending = FALSE], Told(v, Size(k.scaledScreen))>>

\* A screen of height 0 is not allocated, and c stays where it was; the size is
\* sent in either case.
SetScale(c, f) ==
  /\ client[c].state = "normal"
  /\ LET n == width \div f
         s == Find(n)
         k == [client[c] EXCEPT !.scaledScreen = s, !.newFBSizePending = TRUE]
         sent == SendNewScaleSize(IF n = 0 THEN client[c] ELSE k, viewer[c])
     IN  /\ IF n = 0 THEN UNCHANGED <<refs, alive, stale>>
            ELSE /\ refs'  = Moved(c, s)
                 /\ alive' = IF s = Main THEN alive ELSE alive \cup {s}
                 /\ stale' = IF Refreshed(s) THEN [stale EXCEPT ![s] = {}] ELSE stale
         /\ client' = [client EXCEPT ![c] = sent[1]]
         /\ viewer' = [viewer EXCEPT ![c] = sent[2]]
  /\ UNCHANGED <<running, width, unmarked>>

\* The application draws and has not marked yet, or marks a region.
Draw(a) ==
  /\ unmarked' = unmarked \cup {a}
  /\ stale' = [s \in Scaled |-> IF s \in alive THEN stale[s] \cup {a} ELSE {}]
  /\ UNCHANGED <<running, width, refs, alive, client, viewer>>

\* rfbScaledScreenUpdate, for every scaled screen with viewers.  A pixel of a
\* scaled screen larger than the main one has an area of 0.
Updated == {s \in alive : Used(s)}
MarkRectAsModified(a) ==
  /\ unmarked' = unmarked \ {a}
  /\ stale' = [s \in Scaled |-> IF s \in Updated THEN stale[s] \ {a} ELSE stale[s]]
  /\ running' = \A s \in Updated : s <= width
  /\ UNCHANGED <<width, refs, alive, client, viewer>>

-----------------------------------------------------------------------------
(* The size of the main screen and its notices.                              *)

NewFramebuffer(n) ==
  /\ width' = n
  /\ client' = [c \in Client |->
       IF c \in Live THEN [client[c] EXCEPT !.newFBSizePending = @ \/ client[c].useNewFBSize]
       ELSE client[c]]
  /\ viewer' = [c \in Client |->
       [viewer[c] EXCEPT !.missed = @ \/ (Screen(c) = Main /\ ~client[c].useNewFBSize)]]
  /\ unmarked' = Areas
  /\ stale' = [s \in Scaled |-> IF s \in alive THEN Areas ELSE {}]
  /\ UNCHANGED <<running, refs, alive>>

\* A SetDesktopSize for which the hook returns `result'.
Requested(c, result) ==
  [d \in Client |->
     IF d = c
       THEN [client[c] EXCEPT !.requestedDesktopSizeChange = "client",
               !.lastDesktopSizeChangeError = result,
               !.newFBSizePending = @ \/ result # 0]
     ELSE IF d \in Live /\ result = 0
       THEN [client[d] EXCEPT !.requestedDesktopSizeChange = "other"]
     ELSE client[d]]

SetDesktopSize(c, result) ==
  /\ client[c].state = "normal"
  /\ client' = Requested(c, result)
  /\ viewer' = [viewer EXCEPT ![c].result = result]
  /\ SameScreens

\* The branch of rfbSendFramebufferUpdate for a pending size, with
\* rfbSendNewFBSize or rfbSendExtDesktopSize; rfbUpdateClient calls it at any
\* time after the viewer's next request.
SizeDue(c) == client[c].useNewFBSize /\ client[c].newFBSizePending

\* Faulty Notified: the reason stays.
NotifiedAgain(k) == [k EXCEPT !.newFBSizePending = FALSE]

Notified(k) ==
  IF k.useExtDesktopSize
    THEN [k EXCEPT !.newFBSizePending = FALSE, !.requestedDesktopSizeChange = "server",
                   !.lastDesktopSizeChangeError = 0]
    ELSE [k EXCEPT !.newFBSizePending = FALSE]

Answering(c) == client[c].useExtDesktopSize /\ client[c].requestedDesktopSizeChange = "client"

SendSize(c) ==
  /\ client[c].state = "normal" /\ SizeDue(c)
  /\ Only(c, Notified(client[c]),
          [Told(viewer[c], Size(Screen(c))) EXCEPT !.result = IF Answering(c) THEN NoAnswer ELSE @])
  /\ SameScreens

\* rfbScreenCleanup: the viewers are cut off one after the other, then the
\* scaled screens are released; the program ends.
ScreenCleanup ==
  /\ client' = [c \in Client |-> [Fresh EXCEPT !.newFBSizePending = client[c].newFBSizePending]]
  /\ viewer' = [c \in Client |-> NoViewer]
  /\ refs' = [s \in Scaled \cup {Main} |-> refs[s] - Cardinality({c \in Live : Screen(c) = s})]
  /\ alive' = {} /\ stale' = [s \in Scaled |-> {}] /\ running' = FALSE
  /\ UNCHANGED <<width, unmarked>>

-----------------------------------------------------------------------------
Init ==
  /\ running = TRUE /\ width \in Sizes
  /\ refs = [s \in Scaled \cup {Main} |-> 0] /\ alive = {}
  /\ stale = [s \in Scaled |-> {}] /\ unmarked = {}
  /\ client = [c \in Client |-> Fresh] /\ viewer = [c \in Client |-> NoViewer]

ClientNext(c) ==
  \/ Connect(c) \/ ClientInit(c) \/ ClientConnectionGone(c)
  \/ \E new, ext \in BOOLEAN : SetEncodings(c, new, ext)
  \/ FramebufferUpdateRequest(c)
  \/ \E f \in Scales : SetScale(c, f)
  \/ \E result \in {0, Refused} : SetDesktopSize(c, result)
  \/ SendSize(c)

ScreenNext ==
  \/ \E a \in Areas : Draw(a) \/ MarkRectAsModified(a)
  \/ \E n \in Sizes : NewFramebuffer(n)
  \/ ScreenCleanup

Next == running /\ (ScreenNext \/ \E c \in Client : ClientNext(c))

Spec == Init /\ [][Next]_vars

-----------------------------------------------------------------------------
TypeOK ==
  /\ running \in BOOLEAN /\ width \in Sizes
  /\ refs \in [Scaled \cup {Main} -> 0 .. Cardinality(Client)] /\ alive \subseteq Scaled
  /\ stale \in [Scaled -> SUBSET Areas] /\ unmarked \subseteq Areas
  /\ client \in [Client -> ClientState] /\ viewer \in [Client -> ViewerState]

\* scaledScreenRefCount is the number of clients that use the screen, a
\* screen in use is in the list, whoever comes, rescales and leaves; so
\* none is refreshed in vain and none in use is passed over (scale.c 353-385,
\* rfbserver.c 235, 407).
RefsMatch ==
  \A s \in Scaled \cup {Main} :
    /\ refs[s] = Cardinality({c \in Live : Screen(c) = s})
    /\ Used(s) => s \in alive \cup {Main}

\* A scaled screen in use lacks only what was not marked as a rectangle
\* (scale.c 289-305, "update each and every scaled version of the
\* framebuffer"): what was drawn while nobody used it is made good.
ScaledFollows ==
  running => \A s \in alive : Used(s) => stale[s] \subseteq unmarked

\* A viewer that takes notices of the size and has none pending shows the
\* size of the screen it is served from, unless the screen was replaced
\* before it said that it takes them (rfbserver.c 2512-2547, scale.c 388-396).
SizeTold ==
  \A c \in Client :
    client[c].state = "normal" /\ client[c].useNewFBSize
      /\ ~client[c].newFBSizePending /\ ~viewer[c].missed
        => viewer[c].size = Size(Screen(c))

\* What an ExtDesktopSize rectangle gives as the outcome of the viewer's own
\* request is that of the last one it made, and of one not answered
\* before (rfbserver.c 2443-2456, 3195-3211).
AnswersOwn ==
  \A c \in Client :
    client[c].requestedDesktopSizeChange = "client" =>
      viewer[c].result # NoAnswer /\ client[c].lastDesktopSizeChangeError = viewer[c].result
=============================================================================
