--------------------------- MODULE ClientSession ---------------------------
(***************************************************************************)
(* From a new connection to normal service: the server's handlers of the   *)
(* handshake (rfbserver.c 221-693, auth.c), and the viewer at the other    *)
(* end (InitialiseRFBConnection in libvncclient/rfbproto.c), joined by a   *)
(* stream in each direction.                                               *)
(*                                                                         *)
(* A message is a pair of its kind and what it says.  The application      *)
(* hands over whole messages (rfbSinkClientStream), one or several at a    *)
(* time, and its streamPusher delivers what is pushed.  A response stands  *)
(* for the session's one challenge encrypted with that password.           *)
(***************************************************************************)
EXTENDS Naturals, Sequences, FiniteSets

CONSTANTS
  Clients,        \* the rfbClient structures the application owns
  Minors,         \* the minor versions rfbSetProtocolVersion is called with
  ViewerMinors,   \* the highest minor versions viewers speak; 889 is Mac OS X
  Passwords,      \* the passwords viewers know
  PasswordList,   \* screen->authPasswdData; <<>> is NULL
  FirstViewOnly,  \* screen->authPasswdFirstViewOnly
  ByList,         \* passwordCheck is rfbCheckPasswordByList, or rfbCheckPasswordSingle with a
                  \* list of one; otherwise it is rfbDefaultPasswordCheck
  AlwaysShared,   \* screen->alwaysShared
  NeverShared     \* screen->neverShared

Mac == 889

ASSUME SessionAssumption ==
  /\ Minors \subseteq 3..8 /\ 8 \in Minors
  /\ ViewerMinors \subseteq (3..8) \cup {Mac}
  /\ PasswordList \in Seq(Passwords) /\ FirstViewOnly \in Nat
  /\ ByList \in BOOLEAN /\ AlwaysShared \in BOOLEAN /\ NeverShared \in BOOLEAN

VARIABLES
  protocolMinorVersion,  \* of the screen
  securityHandlers,      \* the types registered so far
  up,                    \* the server runs
  clients,               \* the clients linked in window.clientHead
  cl,                    \* [Clients -> ClientState]
  viewer,                \* [Clients -> ViewerState], the other ends
  toServer, toViewer     \* [Clients -> Seq(Message)], what is under way

vars == <<protocolMinorVersion, securityHandlers, up, clients, cl, viewer,
          toServer, toViewer>>

States == {"PROTOCOL_VERSION", "SECURITY_TYPE", "AUTHENTICATION", "INITIALISATION",
           "INITIALISATION_SHARED", "NORMAL"}
Types == {"None", "VncAuth"}
Versions == (3..8) \cup {Mac}

ClientState == [state : States, minor : Versions, viewOnly : BOOLEAN]

\* What a viewer waits for, or what became of it.
Awaited == {"version", "type", "types", "challenge", "result", "reason", "serverInit"}
ViewerState ==
  [ pc : Awaited \cup {"running", "failed", "closed"}, minor : Versions,
    highest : Versions, password : Passwords, shared : BOOLEAN ]

Message ==
  ({"version"} \X Versions) \cup ({"types"} \X SUBSET Types) \cup ({"type"} \X Types)
  \cup ({"choice"} \X Types) \cup ({"challenge"} \X {"random"})
  \cup ({"response"} \X Passwords) \cup ({"result"} \X BOOLEAN)
  \cup ({"reason"} \X {"failed"}) \cup ({"clientInit"} \X BOOLEAN)
  \cup ({"serverInit"} \X {"screen"}) \cup ({"request"} \X {"update"})

\* Faulty Primary: without a password no type is chosen.
PrimaryUnset == IF PasswordList = <<>> THEN "Invalid" ELSE "VncAuth"

\* The security type of rfbAuthNewClient; reverseConnection is FALSE.
Primary == IF PasswordList = <<>> THEN "None" ELSE "VncAuth"

\* The places of a password in the list; the file holds one.
Places(p) ==
  {i \in 1..Len(PasswordList) : PasswordList[i] = p /\ (ByList \/ i = 1)}

\* screen->passwordCheck, and whether it makes the client view-only: the first
\* place that matches counts, from 0.
PasswordCheck(p) == Places(p) # {}
MadeViewOnly(p) ==
  ByList /\ \E i \in Places(p) : i > FirstViewOnly /\ \A j \in Places(p) : i <= j

-----------------------------------------------------------------------------
(* The server.                                                             *)

\* rfbSetProtocolVersion.
SetProtocolVersion(minor) ==
  /\ up /\ protocolMinorVersion' = minor
  /\ UNCHANGED <<securityHandlers, up, clients, cl, viewer, toServer, toViewer>>

NewClient(k) == [k EXCEPT !.state = "PROTOCOL_VERSION", !.viewOnly = FALSE]

\* rfbNewStreamClient, newClientHook accepts the client or puts it on hold.  The
\* viewer begins to wait for the version.
NewStreamClient(c, highest, password, shared) ==
  /\ up /\ c \notin clients
  /\ clients' = clients \cup {c}
  /\ cl' = [cl EXCEPT ![c] = NewClient(cl[c])]
  /\ viewer' = [viewer EXCEPT ![c] = [pc |-> "version", minor |-> 3, highest |-> highest,
                                      password |-> password, shared |-> shared]]
  /\ toViewer' = [toViewer EXCEPT ![c] = << <<"version", protocolMinorVersion>> >>]
  /\ UNCHANGED <<protocolMinorVersion, securityHandlers, up, toServer>>

\* rfbNewStreamClient, newClientHook refuses: the client is gone at once.
RefuseClient(c) ==
  /\ up /\ c \notin clients
  /\ cl' = [cl EXCEPT ![c] = NewClient(cl[c])]
  /\ UNCHANGED <<protocolMinorVersion, securityHandlers, up, clients, viewer,
                 toServer, toViewer>>

\* The application finds the connection closed, or closes it; rfbRefuseOnHoldClient.
ClientConnectionGone(c) ==
  /\ up /\ c \in clients
  /\ clients' = clients \ {c}
  /\ viewer' = [viewer EXCEPT ![c].pc = "closed"]
  /\ toServer' = [toServer EXCEPT ![c] = <<>>]
  /\ toViewer' = [toViewer EXCEPT ![c] = <<>>]
  /\ UNCHANGED <<protocolMinorVersion, securityHandlers, up, cl>>

\* rfbProcessClientMessage calls the handler for the client's state ...
Received(c, state, kind) ==
  /\ up /\ c \in clients /\ cl[c].state = state
  /\ toServer[c] # <<>> /\ Head(toServer[c])[1] = kind

\* ... which consumes the message and pushes its answers.
Handle(c, k, answers) ==
  /\ cl' = [cl EXCEPT ![c] = k]
  /\ toServer' = [toServer EXCEPT ![c] = Tail(toServer[c])]
  /\ toViewer' = [toViewer EXCEPT ![c] = toViewer[c] \o answers]
  /\ UNCHANGED <<protocolMinorVersion, clients, viewer>>

Said(c) == Head(toServer[c])[2]
Become(k, state) == [k EXCEPT !.state = state]
Versioned(k, minor) == [k EXCEPT !.minor = minor]

Challenge == << <<"challenge", "random">> >>

\* rfbProcessClientProtocolVersion and rfbAuthNewClient for viewers before 3.7
\* (rfbSendSecurityType): the server chooses the type.
SendSecurityType(c) ==
  /\ Received(c, "PROTOCOL_VERSION", "version")
  /\ Said(c) < 7
  /\ LET k == Versioned(cl[c], Said(c))
     IN  \/ /\ Primary = "None"
            /\ Handle(c, Become(k, "INITIALISATION"),
                      << <<"type", Primary>> >>)
         \/ /\ Primary = "VncAuth"
            /\ Handle(c, Become(k, "AUTHENTICATION"),
                      << <<"type", Primary>> >> \o Challenge)
  /\ UNCHANGED <<securityHandlers, up>>

\* Faulty SendSecurityTypeList: the state is not changed.
SendSecurityTypeListStuck(c) ==
  /\ Received(c, "PROTOCOL_VERSION", "version")
  /\ Said(c) >= 7
  /\ securityHandlers' = securityHandlers \cup {Primary}
  /\ Handle(c, Versioned(cl[c], Said(c)),
            << <<"types", securityHandlers'>> >>)
  /\ UNCHANGED up

\* The same for the others (rfbSendSecurityTypeList): the viewer may choose.
SendSecurityTypeList(c) ==
  /\ Received(c, "PROTOCOL_VERSION", "version")
  /\ Said(c) >= 7
  /\ securityHandlers' = securityHandlers \cup {Primary}
  /\ Handle(c, Become(Versioned(cl[c], Said(c)), "SECURITY_TYPE"),
            << <<"types", securityHandlers'>> >>)
  /\ UNCHANGED up

\* rfbProcessClientSecurityType, rfbVncAuthSendChallenge.
ChooseVncAuth(c) ==
  /\ Received(c, "SECURITY_TYPE", "choice")
  /\ Said(c) = "VncAuth" /\ "VncAuth" \in securityHandlers
  /\ Handle(c, Become(cl[c], "AUTHENTICATION"), Challenge)
  /\ UNCHANGED <<securityHandlers, up>>

\* Faulty NoneResult: only viewers beyond 3.8 are sent one.
NoneResultLate(minor) ==
  IF minor > 8 /\ minor # Mac THEN << <<"result", TRUE>> >> ELSE <<>>

\* Faulty NoneResult: 3.7 viewers are sent one, too.
NoneResultEarly(minor) ==
  IF minor >= 7 /\ minor # Mac THEN << <<"result", TRUE>> >> ELSE <<>>

\* Viewers from 3.8 on, but not Mac OS X, expect a result when there is nothing to check.
NoneResult(minor) ==
  IF minor > 7 /\ minor # Mac THEN << <<"result", TRUE>> >> ELSE <<>>

\* rfbProcessClientSecurityType, rfbVncAuthNone.
ChooseNone(c) ==
  /\ Received(c, "SECURITY_TYPE", "choice")
  /\ Said(c) = "None" /\ "None" \in securityHandlers /\ cl[c].minor # Mac
  /\ Handle(c, Become(cl[c], "INITIALISATION"),
            NoneResult(cl[c].minor))
  /\ UNCHANGED <<securityHandlers, up>>

\* The same for Mac OS X: rfbProcessClientInitMessage is called at once, and in
\* state INITIALISATION_SHARED it writes through ci while ci is NULL.
ChooseNoneMac(c) ==
  /\ Received(c, "SECURITY_TYPE", "choice")
  /\ Said(c) = "None" /\ "None" \in securityHandlers /\ cl[c].minor = Mac
  /\ Handle(c, Become(cl[c], "INITIALISATION_SHARED"),
            NoneResult(cl[c].minor))
  /\ up' = FALSE
  /\ UNCHANGED securityHandlers

Admitted(k, view) == [k EXCEPT !.state = "INITIALISATION", !.viewOnly = view \/ k.viewOnly]

\* rfbAuthProcessClientMessage, the password is right.
AcceptPassword(c) ==
  /\ Received(c, "AUTHENTICATION", "response")
  /\ PasswordCheck(Said(c))
  /\ Handle(c, Admitted(cl[c], MadeViewOnly(Said(c))),
            << <<"result", TRUE>> >>)
  /\ UNCHANGED <<securityHandlers, up>>

\* Faulty RejectPassword: the return is missing.
RejectPasswordThrough(c) ==
  /\ Received(c, "AUTHENTICATION", "response")
  /\ ~PasswordCheck(Said(c))
  /\ Handle(c, Become(cl[c], "INITIALISATION"),
            << <<"result", FALSE>> >>
            \o IF cl[c].minor > 7 THEN << <<"reason", "failed">> >> ELSE <<>>)
  /\ UNCHANGED <<securityHandlers, up>>

\* Faulty RejectPassword: 3.7 viewers are told why, too.
RejectPasswordReason(c) ==
  /\ Received(c, "AUTHENTICATION", "response")
  /\ ~PasswordCheck(Said(c))
  /\ Handle(c, cl[c],
            << <<"result", FALSE>> >>
            \o IF cl[c].minor >= 7 THEN << <<"reason", "failed">> >> ELSE <<>>)
  /\ UNCHANGED <<securityHandlers, up>>

\* The password is wrong; from 3.8 on viewers are told why.  rfbCloseClient closes
\* nothing and the state stays.
RejectPassword(c) ==
  /\ Received(c, "AUTHENTICATION", "response")
  /\ ~PasswordCheck(Said(c))
  /\ Handle(c, cl[c],
            << <<"result", FALSE>> >>
            \o IF cl[c].minor > 7 THEN << <<"reason", "failed">> >> ELSE <<>>)
  /\ UNCHANGED <<securityHandlers, up>>

\* rfbProcessClientInitMessage.  Where the sharing policy wants clients closed it
\* calls rfbCloseClient, which does nothing.
InitMessage(c) ==
  /\ Received(c, "INITIALISATION", "clientInit")
  /\ Handle(c, Become(cl[c], "NORMAL"),
            << <<"serverInit", "screen">> >>)
  /\ UNCHANGED <<securityHandlers, up>>

\* rfbProcessClientNormalMessage; the update itself is the business of UpdatePipeline.
NormalMessage(c) ==
  /\ Received(c, "NORMAL", "request")
  /\ Handle(c, cl[c], <<>>)
  /\ UNCHANGED <<securityHandlers, up>>

-----------------------------------------------------------------------------
(* The viewer.                                                             *)

\* The message a viewer waits for is there ...
Arrived(c, kind) ==
  viewer[c].pc = kind /\ toViewer[c] # <<>> /\ Head(toViewer[c])[1] = kind

\* ... it is read, answered, and the viewer waits for the next.
Read(c, v, answers) ==
  /\ viewer' = [viewer EXCEPT ![c] = v]
  /\ toViewer' = [toViewer EXCEPT ![c] = Tail(toViewer[c])]
  /\ toServer' = [toServer EXCEPT ![c] = toServer[c] \o answers]
  /\ UNCHANGED <<protocolMinorVersion, securityHandlers, up, clients, cl>>

Told(c) == Head(toViewer[c])[2]
Await(v, pc) == [v EXCEPT !.pc = pc]
Speaking(v, minor) == [v EXCEPT !.minor = minor]
ClientInit(v) == << <<"clientInit", v.shared>> >>
Choice(t) == << <<"choice", t>> >>

\* The version a viewer answers with: the server's, if it speaks it.  Mac OS X shows
\* itself from 3.7 on (auth.c 140-150).
Answer(highest, offered) ==
  IF highest = Mac THEN (IF offered >= 7 THEN Mac ELSE offered)
  ELSE IF offered < highest THEN offered ELSE highest

ReadVersion(c) ==
  /\ Arrived(c, "version")
  /\ LET minor == Answer(viewer[c].highest, Told(c))
         v == Speaking(viewer[c], minor)
     IN  Read(c, Await(v, IF minor > 6 THEN "types" ELSE "type"),
              << <<"version", minor>> >>)

\* Before 3.7 the server has chosen the type.
ReadType(c) ==
  /\ Arrived(c, "type")
  /\ \/ Told(c) = "None" /\ Read(c, Await(viewer[c], "serverInit"), ClientInit(viewer[c]))
     \/ Told(c) = "VncAuth" /\ Read(c, Await(viewer[c], "challenge"), <<>>)

\* ReadSupportedSecurityType and what follows.  A result comes from 3.8 on;
\* Mac OS X sends no ClientInit after None.
ReadTypes(c) ==
  /\ Arrived(c, "types")
  /\ LET v == viewer[c]
     IN  \/ /\ "None" \in Told(c) /\ v.minor = 8
            /\ Read(c, Await(v, "result"), Choice("None"))
         \/ /\ "None" \in Told(c) /\ v.minor = 7
            /\ Read(c, Await(v, "serverInit"), Choice("None") \o ClientInit(v))
         \/ /\ "None" \in Told(c) /\ v.minor = Mac
            /\ Read(c, Await(v, "serverInit"), Choice("None"))
         \/ /\ "VncAuth" \in Told(c)
            /\ Read(c, Await(v, "challenge"), Choice("VncAuth"))

\* HandleVncAuth.
ReadChallenge(c) ==
  /\ Arrived(c, "challenge")
  /\ Read(c, Await(viewer[c], "result"), << <<"response", viewer[c].password>> >>)

\* rfbHandleAuthResult.
ReadResult(c) ==
  /\ Arrived(c, "result")
  /\ LET v == viewer[c]
     IN  \/ Told(c) /\ Read(c, Await(v, "serverInit"), ClientInit(v))
         \/ ~Told(c) /\ Read(c, Await(v, IF v.minor > 7 THEN "reason" ELSE "failed"), <<>>)

ReadReason(c) ==
  Arrived(c, "reason") /\ Read(c, Await(viewer[c], "failed"), <<>>)

ReadServerInit(c) ==
  Arrived(c, "serverInit") /\ Read(c, Await(viewer[c], "running"), <<>>)

\* A running viewer sends normal messages; one at a time is under way here.
SendRequest(c) ==
  /\ viewer[c].pc = "running" /\ toServer[c] = <<>>
  /\ toServer' = [toServer EXCEPT ![c] = << <<"request", "update">> >>]
  /\ UNCHANGED <<protocolMinorVersion, securityHandlers, up, clients, cl, viewer, toViewer>>

-----------------------------------------------------------------------------
\* Records and viewers before their first connection.
Init ==
  /\ protocolMinorVersion = 8 /\ securityHandlers = {} /\ up = TRUE /\ clients = {}
  /\ cl = [c \in Clients |->
             [state |-> "PROTOCOL_VERSION", minor |-> 3, viewOnly |-> FALSE]]
  /\ viewer \in [Clients -> [pc : {"closed"}, minor : {3}, highest : {3},
                             password : Passwords, shared : {FALSE}]]
  /\ toServer = [c \in Clients |-> <<>>] /\ toViewer = [c \in Clients |-> <<>>]

Serve(c) ==
  \/ SendSecurityType(c) \/ SendSecurityTypeList(c)
  \/ ChooseVncAuth(c) \/ ChooseNone(c) \/ ChooseNoneMac(c)
  \/ AcceptPassword(c) \/ RejectPassword(c) \/ InitMessage(c) \/ NormalMessage(c)

View(c) ==
  \/ ReadVersion(c) \/ ReadType(c) \/ ReadTypes(c) \/ ReadChallenge(c)
  \/ ReadResult(c) \/ ReadReason(c) \/ ReadServerInit(c) \/ SendRequest(c)

Next ==
  \/ \E minor \in Minors : SetProtocolVersion(minor)
  \/ \E c \in Clients :
       \/ \E highest \in ViewerMinors, password \in Passwords, shared \in BOOLEAN :
            NewStreamClient(c, highest, password, shared)
       \/ RefuseClient(c)
       \/ ClientConnectionGone(c)
       \/ Serve(c)
       \/ View(c)

Spec == Init /\ [][Next]_vars
FairSpec == Spec /\ \A c \in Clients : WF_vars(Serve(c)) /\ WF_vars(View(c))

-----------------------------------------------------------------------------
TypeOK ==
  /\ protocolMinorVersion \in Minors /\ securityHandlers \in SUBSET Types
  /\ up \in BOOLEAN /\ clients \in SUBSET Clients
  /\ cl \in [Clients -> ClientState] /\ viewer \in [Clients -> ViewerState]
  /\ toServer \in [Clients -> Seq(Message)] /\ toViewer \in [Clients -> Seq(Message)]

\* What the handler of a state reads (rfbserver.c 458-466).
Handles(state) ==
  CASE state = "PROTOCOL_VERSION" -> "version"
    [] state = "SECURITY_TYPE" -> "choice"
    [] state = "AUTHENTICATION" -> "response"
    [] state \in {"INITIALISATION", "INITIALISATION_SHARED"} -> "clientInit"
    [] state = "NORMAL" -> "request"

\* Whatever versions meet and whatever comes of the password, both ends take the next message
\* on their stream for what the other end sent (rfbserver.c 458-466, auth.c 128-177, 301).
InSync ==
  \A c \in clients :
    /\ up /\ toServer[c] # <<>> => Head(toServer[c])[1] = Handles(cl[c].state)
    /\ toViewer[c] # <<>> => Head(toViewer[c])[1] = viewer[c].pc

\* A client gets past authentication only with a password of the list, and may not press
\* keys or buttons if that is one of the view-only ones (auth.c 334-377, main.c 537-560).
Proven ==
  \A c \in clients :
    PasswordList # <<>> /\ cl[c].state \in {"INITIALISATION", "NORMAL"}
      => /\ PasswordCheck(viewer[c].password)
         /\ cl[c].viewOnly = MadeViewOnly(viewer[c].password)

\* Every viewer comes to its end: one that has the password, or needs none, runs; the others
\* are told that they failed (unless the application closes the connection).  Of Mac OS X's
\* viewer auth.c 128-171, rfbproto.h 1834-1848 and NEWS:106 say so, too.
Answered ==
  \A c \in Clients :
    viewer[c].pc = "version"
      ~> viewer[c].pc \in {"closed", IF PasswordList = <<>> \/ PasswordCheck(viewer[c].password)
                                     THEN "running" ELSE "failed"}

\* The same for as long as no viewer of Mac OS X's version comes, with which the server
\* stops (rfbserver.c:624).
OthersAnswered == [](\A c \in Clients : viewer[c].highest # Mac) => Answered

\* A client that came with shared-flag 0, or any under -nevershared, does not stay together
\* with others (cargs.c:37 "never treat new clients as shared", rfbserver.c:684).
Exclusive(c) == NeverShared \/ (~AlwaysShared /\ ~viewer[c].shared)
Served(c) == c \in clients /\ cl[c].state = "NORMAL"
NotShared ==
  \A c, d \in Clients :
    c # d /\ Served(c) /\ Served(d) /\ (Exclusive(c) \/ Exclusive(d))
      ~> ~Served(c) \/ ~Served(d)
=============================================================================
