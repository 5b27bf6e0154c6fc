------------------------ MODULE ClientSessionProofs ------------------------
(* Theorems about ClientSession, for every set of clients, versions and    *)
(* passwords.                                                              *)
EXTENDS ClientSession, SequenceTheorems, TLAPS

(* The phases of a session: k is the client's record, v the viewer, ts and *)
(* tv what is under way to the server and to the viewer.  At any time only *)
(* one of the two streams has something in it.                             *)

\* The version is offered, and answered.
Opening(k, v, ts, tv) ==
  /\ k.state = "PROTOCOL_VERSION"
  /\ \/ v.pc = "version" /\ ts = <<>> /\ \E n \in Minors : tv = << <<"version", n>> >>
     \/ /\ v.pc = (IF v.minor > 6 THEN "types" ELSE "type")
        /\ ts = << <<"version", v.minor>> >> /\ tv = <<>>

\* The type is offered to viewers from 3.7 on, and chosen.
Choosing(k, v, ts, tv) ==
  /\ k.state = "SECURITY_TYPE" /\ v.minor >= 7
  /\ \/ v.pc = "types" /\ ts = <<>> /\ tv = << <<"types", {Primary}>> >>
     \/ /\ v.pc = "challenge" /\ Primary = "VncAuth"
        /\ ts = << <<"choice", "VncAuth">> >> /\ tv = <<>>
     \/ /\ v.pc = "result" /\ Primary = "None" /\ v.minor = 8
        /\ ts = << <<"choice", "None">> >> /\ tv = <<>>
     \/ /\ v.pc = "serverInit" /\ Primary = "None" /\ v.minor = 7
        /\ ts = << <<"choice", "None">>, <<"clientInit", v.shared>> >> /\ tv = <<>>
     \/ /\ v.pc = "serverInit" /\ Primary = "None" /\ v.minor = Mac
        /\ ts = << <<"choice", "None">> >> /\ tv = <<>>

\* The challenge is on its way (before 3.7 behind the type), answered, and the answer rejected.
Challenged(k, v, ts, tv) ==
  /\ k.state = "AUTHENTICATION" /\ Primary = "VncAuth"
  /\ \/ v.pc = "type" /\ ts = <<>> /\ tv = << <<"type", "VncAuth">>, <<"challenge", "random">> >>
     \/ v.pc = "challenge" /\ ts = <<>> /\ tv = << <<"challenge", "random">> >>
     \/ v.pc = "result" /\ ts = << <<"response", v.password>> >> /\ tv = <<>>
     \/ /\ v.pc = "result" /\ ts = <<>> /\ v.minor > 7
        /\ tv = << <<"result", FALSE>>, <<"reason", "failed">> >>
     \/ v.pc = "result" /\ ts = <<>> /\ v.minor <= 7 /\ tv = << <<"result", FALSE>> >>
     \/ v.pc = "reason" /\ ts = <<>> /\ tv = << <<"reason", "failed">> >>
     \/ v.pc = "failed" /\ ts = <<>> /\ tv = <<>>

\* The viewer may come in: it learns that, says whether it shares, and gets the screen.
Entering(k, v, ts, tv) ==
  \/ /\ k.state = "INITIALISATION"
     /\ \/ /\ v.pc = "type" /\ Primary = "None" /\ ts = <<>>
           /\ tv = << <<"type", "None">> >>
        \/ v.pc = "result" /\ ts = <<>> /\ tv = << <<"result", TRUE>> >>
        \/ v.pc = "serverInit" /\ ts = << <<"clientInit", v.shared>> >> /\ tv = <<>>
  \/ /\ k.state = "NORMAL"
     /\ \/ v.pc = "serverInit" /\ ts = <<>> /\ tv = << <<"serverInit", "screen">> >>
        \/ v.pc = "running" /\ ts = <<>> /\ tv = <<>>
        \/ v.pc = "running" /\ ts = << <<"request", "update">> >> /\ tv = <<>>

\* The server has stopped in the middle of a handler.
Stopped(k, v, ts, tv) ==
  k.state = "INITIALISATION_SHARED" /\ v.pc = "serverInit" /\ ts = <<>> /\ tv = <<>>

Entitled(k, v) ==
  PasswordList # <<>>
    => PasswordCheck(v.password) /\ k.viewOnly = MadeViewOnly(v.password)

Phase(k, v, ts, tv) ==
  \/ Opening(k, v, ts, tv) /\ ~k.viewOnly
  \/ Choosing(k, v, ts, tv) /\ k.minor = v.minor /\ ~k.viewOnly
  \/ Challenged(k, v, ts, tv) /\ k.minor = v.minor /\ ~k.viewOnly
  \/ Entering(k, v, ts, tv) /\ Entitled(k, v)
  \/ Stopped(k, v, ts, tv) /\ PasswordList = <<>>

Sessions ==
  /\ securityHandlers \subseteq {Primary}
  /\ \A c \in clients : Phase(cl[c], viewer[c], toServer[c], toViewer[c])
  /\ \A c \in Clients \ clients :
       viewer[c].pc = "closed" /\ toServer[c] = <<>> /\ toViewer[c] = <<>>

-----------------------------------------------------------------------------
(* Streams of at most two messages.                                        *)

LEMMA Streams ==
  ASSUME NEW x, NEW y
  PROVE  /\ <<x>> # <<>> /\ Head(<<x>>) = x /\ Tail(<<x>>) = <<>>
         /\ <<x, y>> # <<>> /\ Head(<<x, y>>) = x /\ Tail(<<x, y>>) = <<y>>
         /\ <<>> \o <<x>> = <<x>> /\ <<>> \o <<x, y>> = <<x, y>>
         /\ <<x>> \o <<y>> = <<x, y>> /\ <<x>> \o <<>> = <<x>>
<1> DEFINE s == <<x>> \o <<y>>
<1>1. <<x>> \in Seq({x, y}) /\ <<y>> \in Seq({x, y}) /\ <<x, y>> \in Seq({x, y})
  OBVIOUS
<1>2. s \in Seq({x, y}) /\ Len(s) = 2 /\ s[1] = x /\ s[2] = y
  BY <1>1
<1>3. Len(<<x, y>>) = 2 /\ <<x, y>>[1] = x /\ <<x, y>>[2] = y
  OBVIOUS
<1>4. s = <<x, y>>
  <2> HIDE DEF s
  <2> QED
    BY <1>1, <1>2, <1>3, SeqEqual
<1>5. <<x>> # <<>> /\ Head(<<x>>) = x /\ Tail(<<x>>) = <<>>
  OBVIOUS
<1>6. <<x, y>> # <<>> /\ Head(<<x, y>>) = x /\ Tail(<<x, y>>) = <<y>>
  OBVIOUS
<1>7. <<>> \o <<x>> = <<x>> /\ <<>> \o <<x, y>> = <<x, y>> /\ <<x>> \o <<>> = <<x>>
  OBVIOUS
<1> QED
  BY <1>4, <1>5, <1>6, <1>7

LEMMA FirstKind ==
  ASSUME NEW kind, NEW what, NEW next
  PROVE  Head(<< <<kind, what>> >>)[1] = kind /\ Head(<< <<kind, what>>, next>>)[1] = kind
  OBVIOUS

LEMMA Verdicts == <<"result", TRUE>>[2] /\ ~<<"result", FALSE>>[2]
  OBVIOUS

LEMMA Nothing == <<>> \o <<>> = <<>>
  OBVIOUS

(* What is under way in a phase consists of messages.                      *)
LEMMA MessageTypes ==
  /\ \A n \in Versions : <<"version", n>> \in Message
  /\ Primary \in Types
  /\ \A t \in Types : /\ <<"types", {t}>> \in Message /\ <<"type", t>> \in Message
                      /\ <<"choice", t>> \in Message
  /\ <<"challenge", "random">> \in Message /\ <<"reason", "failed">> \in Message
  /\ <<"serverInit", "screen">> \in Message /\ <<"request", "update">> \in Message
  /\ \A p \in Passwords : <<"response", p>> \in Message
  /\ \A b \in BOOLEAN : <<"result", b>> \in Message /\ <<"clientInit", b>> \in Message
<1>1. \A t \in Types : {t} \in SUBSET Types
  OBVIOUS
<1>2. Primary \in Types
  BY DEF Primary, Types
<1> QED
  BY <1>1, <1>2 DEF Message

LEMMA StreamTypes ==
  ASSUME NEW m \in Message, NEW n \in Message
  PROVE  <<>> \in Seq(Message) /\ <<m>> \in Seq(Message) /\ <<m, n>> \in Seq(Message)
  OBVIOUS

LEMMA PhaseTypes ==
  ASSUME NEW k \in ClientState, NEW v \in ViewerState, NEW ts, NEW tv, Phase(k, v, ts, tv)
  PROVE  ts \in Seq(Message) /\ tv \in Seq(Message)
<1>0. v.minor \in Versions /\ v.password \in Passwords /\ v.shared \in BOOLEAN
  BY DEF ViewerState
<1>1. <<>> \in Seq(Message)
  OBVIOUS
<1>2. Minors \subseteq Versions
  BY SessionAssumption DEF Versions
<1>3. "None" \in Types /\ "VncAuth" \in Types
  BY DEF Types
<1>4. CASE Opening(k, v, ts, tv)
  <2>1. CASE ts = <<>> /\ \E n \in Minors : tv = << <<"version", n>> >>
    BY <1>1, <1>2, <2>1, MessageTypes, StreamTypes
  <2>2. CASE ts = << <<"version", v.minor>> >> /\ tv = <<>>
    BY <1>0, <1>1, <2>2, MessageTypes, StreamTypes
  <2> QED
    BY <1>4, <2>1, <2>2 DEF Opening
<1>5. CASE Choosing(k, v, ts, tv)
  <2>1. /\ <<"types", {Primary}>> \in Message
        /\ <<"choice", "None">> \in Message /\ <<"choice", "VncAuth">> \in Message
        /\ <<"clientInit", v.shared>> \in Message
    BY <1>0, <1>3, MessageTypes
  <2> QED
    BY <1>1, <1>5, <2>1, StreamTypes DEF Choosing
<1>6. CASE Challenged(k, v, ts, tv)
  <2>1. /\ <<"type", "VncAuth">> \in Message /\ <<"challenge", "random">> \in Message
        /\ <<"response", v.password>> \in Message /\ <<"result", FALSE>> \in Message
        /\ <<"reason", "failed">> \in Message
    BY <1>0, <1>3, MessageTypes
  <2> QED
    BY <1>1, <1>6, <2>1, StreamTypes DEF Challenged
<1>7. CASE Entering(k, v, ts, tv)
  <2>1. /\ <<"type", "None">> \in Message /\ <<"result", TRUE>> \in Message
        /\ <<"clientInit", v.shared>> \in Message
        /\ <<"serverInit", "screen">> \in Message /\ <<"request", "update">> \in Message
    BY <1>0, <1>3, MessageTypes
  <2> QED
    BY <1>1, <1>7, <2>1, StreamTypes DEF Entering
<1>8. CASE Stopped(k, v, ts, tv)
  BY <1>1, <1>8 DEF Stopped
<1> QED
  BY <1>4, <1>5, <1>6, <1>7, <1>8 DEF Phase

-----------------------------------------------------------------------------
(* The server's handlers lead from phase to phase.                         *)

LEMMA BecomeType ==
  ASSUME NEW k \in ClientState, NEW state \in States
  PROVE  /\ Become(k, state) \in ClientState /\ Become(k, state).state = state
         /\ Become(k, state).minor = k.minor /\ Become(k, state).viewOnly = k.viewOnly
BY DEF Become, ClientState

LEMMA VersionedType ==
  ASSUME NEW k \in ClientState, NEW minor \in Versions
  PROVE  /\ Versioned(k, minor) \in ClientState /\ Versioned(k, minor).minor = minor
         /\ Versioned(k, minor).viewOnly = k.viewOnly
BY DEF Versioned, ClientState

LEMMA AdmittedType ==
  ASSUME NEW k \in ClientState, NEW view \in BOOLEAN
  PROVE  Admitted(k, view) \in ClientState
<1>1. "INITIALISATION" \in States /\ (view \/ k.viewOnly) \in BOOLEAN
  BY DEF States
<1> QED
  BY <1>1 DEF Admitted, ClientState

LEMMA NewClientType ==
  ASSUME NEW k \in ClientState
  PROVE  /\ NewClient(k) \in ClientState /\ NewClient(k).state = "PROTOCOL_VERSION"
         /\ ~NewClient(k).viewOnly
<1>1. "PROTOCOL_VERSION" \in States
  BY DEF States
<1> QED
  BY <1>1 DEF NewClient, ClientState

LEMMA ViewOnlySet ==
  ASSUME NEW k \in ClientState, ~k.viewOnly, NEW view \in BOOLEAN
  PROVE  Admitted(k, view).viewOnly = view
<1>1. Admitted(k, view).viewOnly = (view \/ k.viewOnly)
  BY DEF Admitted, ClientState
<1> QED
  BY <1>1

(* What a client that said something in a state is waiting for.            *)
LEMMA WaitingAfterSaying ==
  ASSUME NEW k \in ClientState, NEW v \in ViewerState, NEW ts, NEW tv, Phase(k, v, ts, tv),
         ts # <<>>
  PROVE  /\ tv = <<>>
         /\ \/ /\ k.state = "PROTOCOL_VERSION" /\ ~k.viewOnly
               /\ v.pc = (IF v.minor > 6 THEN "types" ELSE "type")
               /\ ts = << <<"version", v.minor>> >>
            \/ k.state = "SECURITY_TYPE" /\ Choosing(k, v, ts, tv)
               /\ k.minor = v.minor /\ ~k.viewOnly
            \/ /\ k.state = "AUTHENTICATION" /\ Primary = "VncAuth"
               /\ k.minor = v.minor /\ ~k.viewOnly
               /\ v.pc = "result" /\ ts = << <<"response", v.password>> >>
            \/ /\ k.state = "INITIALISATION" /\ Entitled(k, v)
               /\ v.pc = "serverInit" /\ ts = << <<"clientInit", v.shared>> >>
            \/ /\ k.state = "NORMAL" /\ Entitled(k, v)
               /\ v.pc = "running" /\ ts = << <<"request", "update">> >>
<1>1. CASE Opening(k, v, ts, tv) /\ ~k.viewOnly
  BY <1>1 DEF Opening
<1>2. CASE Choosing(k, v, ts, tv) /\ k.minor = v.minor /\ ~k.viewOnly
  BY <1>2 DEF Choosing
<1>3. CASE Challenged(k, v, ts, tv) /\ k.minor = v.minor /\ ~k.viewOnly
  BY <1>3 DEF Challenged
<1>4. CASE Entering(k, v, ts, tv) /\ Entitled(k, v)
  BY <1>4 DEF Entering
<1>5. CASE Stopped(k, v, ts, tv)
  BY <1>5 DEF Stopped
<1> QED
  BY <1>1, <1>2, <1>3, <1>4, <1>5 DEF Phase

LEMMA SendSecurityTypePhase ==
  ASSUME NEW k \in ClientState, NEW v \in ViewerState, NEW ts, NEW tv, Phase(k, v, ts, tv),
         ts # <<>>, k.state = "PROTOCOL_VERSION", NEW minor, minor = Head(ts)[2]
  PROVE  /\ minor = v.minor /\ minor \in Versions
         /\ minor < 7 /\ Primary = "None" =>
              Phase(Become(Versioned(k, minor), "INITIALISATION"), v, Tail(ts),
                    tv \o << <<"type", Primary>> >>)
         /\ minor < 7 /\ Primary = "VncAuth" =>
              Phase(Become(Versioned(k, minor), "AUTHENTICATION"), v, Tail(ts),
                    tv \o (<< <<"type", Primary>> >> \o Challenge))
         /\ minor >= 7 =>
              Phase(Become(Versioned(k, minor), "SECURITY_TYPE"), v, Tail(ts),
                    tv \o << <<"types", {Primary}>> >>)
<1>1. /\ tv = <<>> /\ ts = << <<"version", v.minor>> >> /\ ~k.viewOnly
      /\ v.pc = (IF v.minor > 6 THEN "types" ELSE "type")
  BY WaitingAfterSaying
<1>2. minor = v.minor /\ minor \in Versions /\ v.minor \in Int
  BY <1>1, Streams DEF ViewerState, Versions, Mac
<1>3. ASSUME NEW state \in States
      PROVE  /\ Become(Versioned(k, minor), state).state = state
             /\ Become(Versioned(k, minor), state).minor = minor
             /\ ~Become(Versioned(k, minor), state).viewOnly
  <2> DEFINE r == Versioned(k, minor)
  <2>1. r \in ClientState /\ r.viewOnly = k.viewOnly /\ r.minor = minor
    BY <1>2, VersionedType
  <2> HIDE DEF r
  <2>2. Become(r, state).state = state /\ Become(r, state).minor = minor
        /\ Become(r, state).viewOnly = r.viewOnly
    BY <2>1, BecomeType
  <2>3. ~Become(r, state).viewOnly
    BY <1>1, <2>1, <2>2
  <2> QED
    BY <2>2, <2>3 DEF r
<1>4. "INITIALISATION" \in States /\ "AUTHENTICATION" \in States /\ "SECURITY_TYPE" \in States
  BY DEF States
<1>5. Tail(ts) = <<>>
  BY <1>1, Streams
<1>6. ASSUME minor < 7, Primary = "None"
      PROVE  Phase(Become(Versioned(k, minor), "INITIALISATION"), v, Tail(ts),
                   tv \o << <<"type", Primary>> >>)
  <2>1. tv \o << <<"type", Primary>> >> = << <<"type", "None">> >>
    BY <1>1, <1>6, Streams
  <2>2. PasswordList = <<>>
    BY <1>6 DEF Primary
  <2>3. v.pc = "type"
    BY <1>1, <1>2, <1>6
  <2> QED
    BY <1>3, <1>4, <1>5, <1>6, <2>1, <2>2, <2>3 DEF Phase, Entering, Entitled
<1>7. ASSUME minor < 7, Primary = "VncAuth"
      PROVE  Phase(Become(Versioned(k, minor), "AUTHENTICATION"), v, Tail(ts),
                   tv \o (<< <<"type", Primary>> >> \o Challenge))
  <2>1. tv \o (<< <<"type", Primary>> >> \o Challenge)
          = << <<"type", "VncAuth">>, <<"challenge", "random">> >>
    BY <1>1, <1>7, Streams DEF Challenge
  <2>2. v.pc = "type"
    BY <1>1, <1>2, <1>7
  <2> QED
    BY <1>2, <1>3, <1>4, <1>5, <1>7, <2>1, <2>2 DEF Phase, Challenged
<1>8. ASSUME minor >= 7
      PROVE  Phase(Become(Versioned(k, minor), "SECURITY_TYPE"), v, Tail(ts),
                   tv \o << <<"types", {Primary}>> >>)
  <2>1. tv \o << <<"types", {Primary}>> >> = << <<"types", {Primary}>> >>
    BY <1>1, Streams
  <2>2. v.pc = "types"
    BY <1>1, <1>2, <1>8
  <2> QED
    BY <1>2, <1>3, <1>4, <1>5, <1>8, <2>1, <2>2 DEF Phase, Choosing
<1> QED
  BY <1>2, <1>6, <1>7, <1>8

LEMMA ChoicePhase ==
  ASSUME NEW k \in ClientState, NEW v \in ViewerState, NEW ts, NEW tv, Phase(k, v, ts, tv),
         ts # <<>>, k.state = "SECURITY_TYPE"
  PROVE  /\ Head(ts)[2] = "VncAuth" =>
              Phase(Become(k, "AUTHENTICATION"), v, Tail(ts), tv \o Challenge)
         /\ Head(ts)[2] = "None" /\ k.minor # Mac =>
              Phase(Become(k, "INITIALISATION"), v, Tail(ts), tv \o NoneResult(k.minor))
         /\ Head(ts)[2] = "None" /\ k.minor = Mac =>
              Phase(Become(k, "INITIALISATION_SHARED"), v, Tail(ts), tv \o NoneResult(k.minor))
<1>1. tv = <<>> /\ Choosing(k, v, ts, tv) /\ k.minor = v.minor /\ ~k.viewOnly
  BY WaitingAfterSaying
<1>2. ASSUME NEW state \in States
      PROVE  /\ Become(k, state).state = state
             /\ Become(k, state).minor = v.minor
             /\ ~Become(k, state).viewOnly
  BY <1>1, BecomeType
<1>3. /\ "INITIALISATION" \in States /\ "AUTHENTICATION" \in States
      /\ "INITIALISATION_SHARED" \in States
  BY DEF States
<1>4. CASE v.pc = "challenge" /\ Primary = "VncAuth" /\ ts = << <<"choice", "VncAuth">> >>
  <2>1. Head(ts)[2] = "VncAuth" /\ Tail(ts) = <<>>
    BY <1>4, Streams
  <2>2. tv \o Challenge = << <<"challenge", "random">> >>
    BY <1>1, Streams DEF Challenge
  <2> QED
    BY <1>2, <1>3, <1>4, <2>1, <2>2 DEF Phase, Challenged
<1>5. CASE v.pc = "result" /\ Primary = "None" /\ v.minor = 8 /\ ts = << <<"choice", "None">> >>
  <2>1. Head(ts)[2] = "None" /\ Tail(ts) = <<>>
    BY <1>5, Streams
  <2>2. tv \o NoneResult(k.minor) = << <<"result", TRUE>> >> /\ k.minor # Mac
    <3>1. k.minor = 8
      BY <1>1, <1>5
    <3>2. 8 > 7 /\ 8 # Mac
      BY DEF Mac
    <3>3. NoneResult(8) = << <<"result", TRUE>> >>
      BY <3>2, Zenon DEF NoneResult
    <3>4. <<>> \o << <<"result", TRUE>> >> = << <<"result", TRUE>> >>
      BY Streams
    <3> QED
      BY <1>1, <3>1, <3>2, <3>3, <3>4
  <2>3. PasswordList = <<>>
    BY <1>5 DEF Primary
  <2> QED
    BY <1>2, <1>3, <1>5, <2>1, <2>2, <2>3 DEF Phase, Entering, Entitled
<1>6. CASE /\ v.pc = "serverInit" /\ Primary = "None" /\ v.minor = 7
           /\ ts = << <<"choice", "None">>, <<"clientInit", v.shared>> >>
  <2>1. Head(ts)[2] = "None" /\ Tail(ts) = << <<"clientInit", v.shared>> >>
    BY <1>6, Streams
  <2>2. tv \o NoneResult(k.minor) = <<>> /\ k.minor # Mac
    BY <1>1, <1>6, Nothing DEF NoneResult, Mac
  <2>3. PasswordList = <<>>
    BY <1>6 DEF Primary
  <2> QED
    BY <1>2, <1>3, <1>6, <2>1, <2>2, <2>3 DEF Phase, Entering, Entitled
<1>7. CASE /\ v.pc = "serverInit" /\ Primary = "None" /\ v.minor = Mac
           /\ ts = << <<"choice", "None">> >>
  <2>1. Head(ts)[2] = "None" /\ Tail(ts) = <<>>
    BY <1>7, Streams
  <2>2. tv \o NoneResult(k.minor) = <<>> /\ k.minor = Mac
    BY <1>1, <1>7, Nothing DEF NoneResult
  <2>3. PasswordList = <<>>
    BY <1>7 DEF Primary
  <2> QED
    BY <1>2, <1>3, <1>7, <2>1, <2>2, <2>3 DEF Phase, Stopped
<1>8. v.pc # "types"
  BY <1>1 DEF Choosing
<1> QED
  BY <1>1, <1>4, <1>5, <1>6, <1>7, <1>8 DEF Choosing

LEMMA PasswordPhase ==
  ASSUME NEW k \in ClientState, NEW v \in ViewerState, NEW ts, NEW tv, Phase(k, v, ts, tv),
         ts # <<>>, k.state = "AUTHENTICATION", NEW p, p = Head(ts)[2]
  PROVE  /\ PasswordCheck(p) =>
              Phase(Admitted(k, MadeViewOnly(p)), v, Tail(ts), tv \o << <<"result", TRUE>> >>)
         /\ ~PasswordCheck(p) =>
              Phase(k, v, Tail(ts),
                    tv \o (<< <<"result", FALSE>> >>
                           \o IF k.minor > 7 THEN << <<"reason", "failed">> >> ELSE <<>>))
<1>1. /\ tv = <<>> /\ Primary = "VncAuth" /\ k.minor = v.minor /\ ~k.viewOnly
      /\ v.pc = "result" /\ ts = << <<"response", v.password>> >>
  BY WaitingAfterSaying
<1>2. p = v.password /\ Tail(ts) = <<>>
  BY <1>1, Streams
<1>3. ASSUME PasswordCheck(p)
      PROVE  Phase(Admitted(k, MadeViewOnly(p)), v, Tail(ts), tv \o << <<"result", TRUE>> >>)
  <2> DEFINE r == Admitted(k, MadeViewOnly(p))
  <2>1. MadeViewOnly(p) \in BOOLEAN
    BY DEF MadeViewOnly
  <2>2. r.state = "INITIALISATION" /\ r.viewOnly = MadeViewOnly(v.password)
    <3>1. r.state = "INITIALISATION"
      BY DEF Admitted, ClientState
    <3>2. r.viewOnly = MadeViewOnly(p)
      BY <1>1, <2>1, ViewOnlySet
    <3> QED
      BY <1>2, <3>1, <3>2
  <2>3. tv \o << <<"result", TRUE>> >> = << <<"result", TRUE>> >>
    BY <1>1, Streams
  <2> HIDE DEF r
  <2>4. Entering(r, v, Tail(ts), tv \o << <<"result", TRUE>> >>)
    BY <1>1, <1>2, <2>2, <2>3 DEF Entering
  <2>5. Entitled(r, v)
    BY <1>2, <1>3, <2>2 DEF Entitled
  <2> QED
    BY <2>4, <2>5 DEF Phase, r
<1>4. ASSUME ~PasswordCheck(p), k.minor > 7
      PROVE  Phase(k, v, Tail(ts),
                   tv \o (<< <<"result", FALSE>> >> \o << <<"reason", "failed">> >>))
  <2>1. tv \o (<< <<"result", FALSE>> >> \o << <<"reason", "failed">> >>)
          = << <<"result", FALSE>>, <<"reason", "failed">> >>
    <3>1. << <<"result", FALSE>> >> \o << <<"reason", "failed">> >>
            = << <<"result", FALSE>>, <<"reason", "failed">> >>
      BY Streams
    <3>2. <<>> \o << <<"result", FALSE>>, <<"reason", "failed">> >>
            = << <<"result", FALSE>>, <<"reason", "failed">> >>
      BY Streams
    <3> QED
      BY <1>1, <3>1, <3>2
  <2> QED
    BY <1>1, <1>2, <1>4, <2>1 DEF Phase, Challenged
<1>5. ASSUME ~PasswordCheck(p), ~(k.minor > 7)
      PROVE  Phase(k, v, Tail(ts), tv \o (<< <<"result", FALSE>> >> \o <<>>))
  <2>1. tv \o (<< <<"result", FALSE>> >> \o <<>>) = << <<"result", FALSE>> >>
    BY <1>1, Streams
  <2>2. v.minor <= 7
    BY <1>1, <1>5 DEF ViewerState, Versions, Mac
  <2> QED
    BY <1>1, <1>2, <2>1, <2>2 DEF Phase, Challenged
<1> QED
  BY <1>3, <1>4, <1>5

LEMMA InitPhase ==
  ASSUME NEW k \in ClientState, NEW v \in ViewerState, NEW ts, NEW tv, Phase(k, v, ts, tv),
         ts # <<>>
  PROVE  /\ k.state = "INITIALISATION" =>
              Phase(Become(k, "NORMAL"), v, Tail(ts), tv \o << <<"serverInit", "screen">> >>)
         /\ k.state = "NORMAL" => Phase(k, v, Tail(ts), tv \o <<>>)
<1>1. ASSUME k.state = "INITIALISATION"
      PROVE  Phase(Become(k, "NORMAL"), v, Tail(ts), tv \o << <<"serverInit", "screen">> >>)
  <2>1. /\ tv = <<>> /\ v.pc = "serverInit" /\ ts = << <<"clientInit", v.shared>> >>
        /\ Entitled(k, v)
    BY <1>1, WaitingAfterSaying
  <2>2. Become(k, "NORMAL").state = "NORMAL" /\ Become(k, "NORMAL").viewOnly = k.viewOnly
    <3>1. "NORMAL" \in States
      BY DEF States
    <3> QED
      BY <3>1, BecomeType
  <2>3. /\ tv \o << <<"serverInit", "screen">> >> = << <<"serverInit", "screen">> >>
        /\ Tail(ts) = <<>>
    BY <2>1, Streams
  <2>4. Entitled(Become(k, "NORMAL"), v)
    BY <2>1, <2>2 DEF Entitled
  <2> QED
    BY <2>1, <2>2, <2>3, <2>4 DEF Phase, Entering
<1>2. ASSUME k.state = "NORMAL"
      PROVE  Phase(k, v, Tail(ts), tv \o <<>>)
  <2>1. /\ tv = <<>> /\ v.pc = "running" /\ ts = << <<"request", "update">> >>
        /\ Entitled(k, v)
    BY <1>2, WaitingAfterSaying
  <2>2. tv \o <<>> = <<>> /\ Tail(ts) = <<>>
    BY <2>1, Streams, Nothing
  <2> QED
    BY <1>2, <2>1, <2>2 DEF Phase, Entering
<1> QED
  BY <1>1, <1>2
-----------------------------------------------------------------------------
(* So do the steps of the viewer.                                          *)

LEMMA AwaitType ==
  ASSUME NEW v \in ViewerState,
         NEW pc \in Awaited \cup {"running", "failed", "closed"}
  PROVE  /\ Await(v, pc) \in ViewerState /\ Await(v, pc).pc = pc
         /\ Await(v, pc).minor = v.minor /\ Await(v, pc).password = v.password
         /\ Await(v, pc).shared = v.shared
BY DEF Await, ViewerState

LEMMA SpeakingType ==
  ASSUME NEW v \in ViewerState, NEW minor \in Versions
  PROVE  /\ Speaking(v, minor) \in ViewerState /\ Speaking(v, minor).minor = minor
         /\ Speaking(v, minor).password = v.password
BY DEF Speaking, ViewerState

(* Where a session is when something is under way to the viewer.           *)
LEMMA ToldWhere ==
  ASSUME NEW k \in ClientState, NEW v \in ViewerState, NEW ts, NEW tv, Phase(k, v, ts, tv),
         tv # <<>>
  PROVE  /\ ts = <<>>
         /\ \/ /\ k.state = "PROTOCOL_VERSION" /\ ~k.viewOnly /\ v.pc = "version"
               /\ \E n \in Minors : tv = << <<"version", n>> >>
            \/ /\ k.state = "SECURITY_TYPE" /\ k.minor = v.minor /\ ~k.viewOnly
               /\ v.pc = "types" /\ v.minor >= 7 /\ tv = << <<"types", {Primary}>> >>
            \/ Challenged(k, v, ts, tv) /\ k.minor = v.minor /\ ~k.viewOnly
            \/ Entering(k, v, ts, tv) /\ Entitled(k, v)
<1>1. CASE Opening(k, v, ts, tv) /\ ~k.viewOnly
  BY <1>1 DEF Opening
<1>2. CASE Choosing(k, v, ts, tv) /\ k.minor = v.minor /\ ~k.viewOnly
  BY <1>2 DEF Choosing
<1>3. CASE Challenged(k, v, ts, tv) /\ k.minor = v.minor /\ ~k.viewOnly
  BY <1>3 DEF Challenged
<1>4. CASE Entering(k, v, ts, tv) /\ Entitled(k, v)
  BY <1>4 DEF Entering
<1>5. CASE Stopped(k, v, ts, tv)
  BY <1>5 DEF Stopped
<1> QED
  BY <1>1, <1>2, <1>3, <1>4, <1>5 DEF Phase

LEMMA ReadVersionPhase ==
  ASSUME NEW k \in ClientState, NEW v \in ViewerState, NEW ts, NEW tv, Phase(k, v, ts, tv),
         tv # <<>>, v.pc = "version",
         NEW minor, minor = Answer(v.highest, Head(tv)[2]),
         NEW pc, pc = (IF minor > 6 THEN "types" ELSE "type")
  PROVE  /\ Await(Speaking(v, minor), pc) \in ViewerState
         /\ Phase(k, Await(Speaking(v, minor), pc), ts \o << <<"version", minor>> >>, Tail(tv))
<1>1. ts = <<>> /\ k.state = "PROTOCOL_VERSION" /\ ~k.viewOnly
      /\ \E n \in Minors : tv = << <<"version", n>> >>
  BY ToldWhere DEF Challenged, Entering
<1>2. PICK n \in Minors : tv = << <<"version", n>> >>
  BY <1>1
<1>3. Head(tv)[2] = n /\ Tail(tv) = <<>>
  BY <1>2, Streams
<1>4. minor \in Versions
  <2>1. n \in Versions /\ v.highest \in Versions
    BY SessionAssumption DEF Versions, ViewerState
  <2> QED
    BY <1>3, <2>1 DEF Answer
<1>5. pc \in Awaited \cup {"running", "failed", "closed"}
  BY DEF Awaited
<1> DEFINE w == Speaking(v, minor)
<1>6. w \in ViewerState /\ w.minor = minor
  BY <1>4, SpeakingType
<1> HIDE DEF w
<1>7. Await(w, pc) \in ViewerState /\ Await(w, pc).pc = pc /\ Await(w, pc).minor = minor
  BY <1>5, <1>6, AwaitType
<1>8. ts \o << <<"version", minor>> >> = << <<"version", minor>> >>
  BY <1>1, Streams
<1>9. Opening(k, Await(w, pc), ts \o << <<"version", minor>> >>, Tail(tv))
  BY <1>1, <1>3, <1>7, <1>8 DEF Opening
<1> QED
  BY <1>1, <1>7, <1>9 DEF Phase, w

LEMMA ReadTypePhase ==
  ASSUME NEW k \in ClientState, NEW v \in ViewerState, NEW ts, NEW tv, Phase(k, v, ts, tv),
         tv # <<>>, v.pc = "type"
  PROVE  /\ Head(tv)[2] = "None" =>
              Phase(k, Await(v, "serverInit"), ts \o ClientInit(v), Tail(tv))
         /\ Head(tv)[2] = "VncAuth" =>
              Phase(k, Await(v, "challenge"), ts \o <<>>, Tail(tv))
<1>1. /\ ts = <<>>
      /\ \/ Challenged(k, v, ts, tv) /\ k.minor = v.minor /\ ~k.viewOnly
         \/ Entering(k, v, ts, tv) /\ Entitled(k, v)
  BY ToldWhere
<1>2. ASSUME NEW pc \in Awaited
      PROVE  /\ Await(v, pc).pc = pc /\ Await(v, pc).minor = v.minor
             /\ Await(v, pc).password = v.password /\ Await(v, pc).shared = v.shared
  BY AwaitType
<1>3. "serverInit" \in Awaited /\ "challenge" \in Awaited
  BY DEF Awaited
<1>4. CASE Challenged(k, v, ts, tv) /\ k.minor = v.minor /\ ~k.viewOnly
  <2>1. /\ k.state = "AUTHENTICATION" /\ Primary = "VncAuth"
        /\ tv = << <<"type", "VncAuth">>, <<"challenge", "random">> >>
    BY <1>4 DEF Challenged
  <2>2. Head(tv)[2] = "VncAuth" /\ Tail(tv) = << <<"challenge", "random">> >>
    BY <2>1, Streams
  <2>3. Challenged(k, Await(v, "challenge"), ts \o <<>>, Tail(tv))
    BY <1>1, <1>2, <1>3, <2>1, <2>2, Nothing DEF Challenged
  <2> QED
    BY <1>2, <1>3, <1>4, <2>2, <2>3 DEF Phase
<1>5. CASE Entering(k, v, ts, tv) /\ Entitled(k, v)
  <2>1. k.state = "INITIALISATION" /\ tv = << <<"type", "None">> >>
    BY <1>5 DEF Entering
  <2>2. Head(tv)[2] = "None" /\ Tail(tv) = <<>>
    BY <2>1, Streams
  <2>3. ts \o ClientInit(v) = << <<"clientInit", v.shared>> >>
    BY <1>1, Streams DEF ClientInit
  <2>4. Entering(k, Await(v, "serverInit"), ts \o ClientInit(v), Tail(tv))
    BY <1>2, <1>3, <2>1, <2>2, <2>3 DEF Entering
  <2>5. Entitled(k, Await(v, "serverInit"))
    BY <1>2, <1>3, <1>5 DEF Entitled
  <2> QED
    BY <2>2, <2>4, <2>5 DEF Phase
<1> QED
  BY <1>1, <1>4, <1>5

LEMMA ReadTypesPhase ==
  ASSUME NEW k \in ClientState, NEW v \in ViewerState, NEW ts, NEW tv, Phase(k, v, ts, tv),
         tv # <<>>, v.pc = "types"
  PROVE  /\ "None" \in Head(tv)[2] /\ v.minor = 8 =>
              Phase(k, Await(v, "result"), ts \o Choice("None"), Tail(tv))
         /\ "None" \in Head(tv)[2] /\ v.minor = 7 =>
              Phase(k, Await(v, "serverInit"), ts \o (Choice("None") \o ClientInit(v)), Tail(tv))
         /\ "None" \in Head(tv)[2] /\ v.minor = Mac =>
              Phase(k, Await(v, "serverInit"), ts \o Choice("None"), Tail(tv))
         /\ "VncAuth" \in Head(tv)[2] =>
              Phase(k, Await(v, "challenge"), ts \o Choice("VncAuth"), Tail(tv))
<1>1. /\ ts = <<>> /\ k.state = "SECURITY_TYPE" /\ k.minor = v.minor /\ ~k.viewOnly
      /\ v.minor >= 7 /\ tv = << <<"types", {Primary}>> >>
  BY ToldWhere DEF Challenged, Entering
<1>2. ASSUME NEW pc \in Awaited
      PROVE  /\ Await(v, pc).pc = pc /\ Await(v, pc).minor = v.minor
             /\ Await(v, pc).shared = v.shared
  BY AwaitType
<1>3. "result" \in Awaited /\ "serverInit" \in Awaited /\ "challenge" \in Awaited
  BY DEF Awaited
<1>4. Head(tv)[2] = {Primary} /\ Tail(tv) = <<>>
  BY <1>1, Streams
<1>5. \A t \in Types : ts \o Choice(t) = << <<"choice", t>> >>
  BY <1>1, Streams DEF Choice
<1>6. "None" \in Types /\ "VncAuth" \in Types
  BY DEF Types
<1>7. Choice("None") \o ClientInit(v) = << <<"choice", "None">>, <<"clientInit", v.shared>> >>
  BY Streams DEF Choice, ClientInit
<1>8. ts \o (Choice("None") \o ClientInit(v))
        = << <<"choice", "None">>, <<"clientInit", v.shared>> >>
  <2>1. <<>> \o << <<"choice", "None">>, <<"clientInit", v.shared>> >>
          = << <<"choice", "None">>, <<"clientInit", v.shared>> >>
    BY Streams
  <2> QED
    BY <1>1, <1>7, <2>1
<1>9. ASSUME Primary = "None", v.minor = 8
      PROVE  Phase(k, Await(v, "result"), ts \o Choice("None"), Tail(tv))
  BY <1>1, <1>2, <1>3, <1>4, <1>5, <1>6, <1>9 DEF Phase, Choosing
<1>10. ASSUME Primary = "None", v.minor = 7
       PROVE  Phase(k, Await(v, "serverInit"), ts \o (Choice("None") \o ClientInit(v)), Tail(tv))
  BY <1>1, <1>2, <1>3, <1>4, <1>8, <1>10 DEF Phase, Choosing
<1>11. ASSUME Primary = "None", v.minor = Mac
       PROVE  Phase(k, Await(v, "serverInit"), ts \o Choice("None"), Tail(tv))
  BY <1>1, <1>2, <1>3, <1>4, <1>5, <1>6, <1>11 DEF Phase, Choosing
<1>12. ASSUME Primary = "VncAuth"
       PROVE  Phase(k, Await(v, "challenge"), ts \o Choice("VncAuth"), Tail(tv))
  BY <1>1, <1>2, <1>3, <1>4, <1>5, <1>6, <1>12 DEF Phase, Choosing
<1> QED
  BY <1>4, <1>9, <1>10, <1>11, <1>12

LEMMA ReadChallengePhase ==
  ASSUME NEW k \in ClientState, NEW v \in ViewerState, NEW ts, NEW tv, Phase(k, v, ts, tv),
         tv # <<>>, v.pc = "challenge"
  PROVE  Phase(k, Await(v, "result"), ts \o << <<"response", v.password>> >>, Tail(tv))
<1>1. /\ ts = <<>> /\ k.state = "AUTHENTICATION" /\ Primary = "VncAuth"
      /\ k.minor = v.minor /\ ~k.viewOnly /\ tv = << <<"challenge", "random">> >>
  BY ToldWhere DEF Challenged, Entering
<1>2. "result" \in Awaited
  BY DEF Awaited
<1>3. /\ Await(v, "result").pc = "result" /\ Await(v, "result").minor = v.minor
      /\ Await(v, "result").password = v.password
  BY <1>2, AwaitType
<1>4. ts \o << <<"response", v.password>> >> = << <<"response", v.password>> >>
      /\ Tail(tv) = <<>>
  BY <1>1, Streams
<1> QED
  BY <1>1, <1>3, <1>4 DEF Phase, Challenged

LEMMA ReadResultPhase ==
  ASSUME NEW k \in ClientState, NEW v \in ViewerState, NEW ts, NEW tv, Phase(k, v, ts, tv),
         tv # <<>>, v.pc = "result"
  PROVE  /\ Head(tv)[2] =>
              Phase(k, Await(v, "serverInit"), ts \o ClientInit(v), Tail(tv))
         /\ ~Head(tv)[2] /\ v.minor > 7 =>
              Phase(k, Await(v, "reason"), ts \o <<>>, Tail(tv))
         /\ ~Head(tv)[2] /\ ~(v.minor > 7) =>
              Phase(k, Await(v, "failed"), ts \o <<>>, Tail(tv))
<1>1. /\ ts = <<>>
      /\ \/ Challenged(k, v, ts, tv) /\ k.minor = v.minor /\ ~k.viewOnly
         \/ Entering(k, v, ts, tv) /\ Entitled(k, v)
  BY ToldWhere
<1>2. ASSUME NEW pc \in Awaited \cup {"running", "failed", "closed"}
      PROVE  /\ Await(v, pc).pc = pc /\ Await(v, pc).minor = v.minor
             /\ Await(v, pc).password = v.password /\ Await(v, pc).shared = v.shared
  BY AwaitType
<1>3. "serverInit" \in Awaited /\ "reason" \in Awaited
  BY DEF Awaited
<1>4. CASE Challenged(k, v, ts, tv) /\ k.minor = v.minor /\ ~k.viewOnly
  <2>1. k.state = "AUTHENTICATION" /\ Primary = "VncAuth"
    BY <1>4 DEF Challenged
  <2>2. CASE v.minor > 7 /\ tv = << <<"result", FALSE>>, <<"reason", "failed">> >>
    <3>1. ~Head(tv)[2] /\ Tail(tv) = << <<"reason", "failed">> >>
      <4> DEFINE x == <<"result", FALSE>>
                 y == <<"reason", "failed">>
      <4>1. tv = <<x, y>> /\ ~x[2]
        BY <2>2, Verdicts, Zenon
      <4> HIDE DEF x
      <4>2. Head(tv) = x /\ Tail(tv) = <<y>>
        BY <4>1, Streams
      <4> QED
        BY <4>1, <4>2
    <3>2. Challenged(k, Await(v, "reason"), ts \o <<>>, Tail(tv))
      BY <1>1, <1>2, <1>3, <2>1, <3>1, Nothing DEF Challenged
    <3> QED
      BY <1>2, <1>3, <1>4, <2>2, <3>1, <3>2 DEF Phase
  <2>3. CASE v.minor <= 7 /\ tv = << <<"result", FALSE>> >>
    <3>1. ~Head(tv)[2] /\ Tail(tv) = <<>>
      <4>1. Head(tv) = <<"result", FALSE>> /\ Tail(tv) = <<>>
        BY <2>3, Streams
      <4> QED
        BY <4>1, Verdicts, Zenon
    <3>2. Challenged(k, Await(v, "failed"), ts \o <<>>, Tail(tv))
      BY <1>1, <1>2, <2>1, <3>1, Nothing DEF Challenged
    <3>3. ~(v.minor > 7)
      BY <2>3 DEF ViewerState, Versions, Mac
    <3> QED
      BY <1>2, <1>4, <3>1, <3>2, <3>3 DEF Phase
  <2> QED
    BY <1>4, <2>2, <2>3 DEF Challenged
<1>5. CASE Entering(k, v, ts, tv) /\ Entitled(k, v)
  <2>1. k.state = "INITIALISATION" /\ tv = << <<"result", TRUE>> >>
    BY <1>5 DEF Entering
  <2>2. Head(tv)[2] /\ Tail(tv) = <<>>
    <3>1. Head(tv) = <<"result", TRUE>> /\ Tail(tv) = <<>>
      BY <2>1, Streams
    <3> QED
      BY <3>1, Verdicts, Zenon
  <2>3. ts \o ClientInit(v) = << <<"clientInit", v.shared>> >>
    BY <1>1, Streams DEF ClientInit
  <2>4. Entering(k, Await(v, "serverInit"), ts \o ClientInit(v), Tail(tv))
    BY <1>2, <1>3, <2>1, <2>2, <2>3 DEF Entering
  <2>5. Entitled(k, Await(v, "serverInit"))
    BY <1>2, <1>3, <1>5 DEF Entitled
  <2> QED
    BY <2>2, <2>4, <2>5 DEF Phase
<1> QED
  BY <1>1, <1>4, <1>5

LEMMA ReadReasonPhase ==
  ASSUME NEW k \in ClientState, NEW v \in ViewerState, NEW ts, NEW tv, Phase(k, v, ts, tv),
         tv # <<>>, v.pc = "reason"
  PROVE  Phase(k, Await(v, "failed"), ts \o <<>>, Tail(tv))
<1>1. /\ ts = <<>> /\ k.state = "AUTHENTICATION" /\ Primary = "VncAuth"
      /\ k.minor = v.minor /\ ~k.viewOnly /\ tv = << <<"reason", "failed">> >>
  BY ToldWhere DEF Challenged, Entering
<1>2. Await(v, "failed").pc = "failed" /\ Await(v, "failed").minor = v.minor
  BY AwaitType
<1>3. ts \o <<>> = <<>> /\ Tail(tv) = <<>>
  BY <1>1, Streams, Nothing
<1> QED
  BY <1>1, <1>2, <1>3 DEF Phase, Challenged

LEMMA ReadServerInitPhase ==
  ASSUME NEW k \in ClientState, NEW v \in ViewerState, NEW ts, NEW tv, Phase(k, v, ts, tv),
         tv # <<>>, v.pc = "serverInit"
  PROVE  Phase(k, Await(v, "running"), ts \o <<>>, Tail(tv))
<1>1. /\ ts = <<>> /\ k.state = "NORMAL" /\ tv = << <<"serverInit", "screen">> >>
      /\ Entitled(k, v)
  <2>1. ~Challenged(k, v, ts, tv)
    BY DEF Challenged
  <2>2. ts = <<>> /\ Entering(k, v, ts, tv) /\ Entitled(k, v)
    BY <2>1, ToldWhere
  <2> QED
    BY <2>2 DEF Entering
<1>2. Await(v, "running").pc = "running" /\ Await(v, "running").password = v.password
  BY AwaitType
<1>3. ts \o <<>> = <<>> /\ Tail(tv) = <<>>
  BY <1>1, Streams, Nothing
<1>4. Entitled(k, Await(v, "running"))
  BY <1>1, <1>2 DEF Entitled
<1> QED
  BY <1>1, <1>2, <1>3, <1>4 DEF Phase, Entering

LEMMA RequestPhase ==
  ASSUME NEW k \in ClientState, NEW v \in ViewerState, NEW ts, NEW tv, Phase(k, v, ts, tv),
         ts = <<>>, v.pc = "running"
  PROVE  Phase(k, v, << <<"request", "update">> >>, tv)
<1>1. k.state = "NORMAL" /\ tv = <<>> /\ Entitled(k, v)
  BY DEF Phase, Opening, Choosing, Challenged, Entering, Stopped
<1> QED
  BY <1>1 DEF Phase, Entering

-----------------------------------------------------------------------------
(* One session moves to its next phase, the others stay where they are.    *)

LEMMA SessionStep ==
  ASSUME TypeOK, Sessions, NEW c \in Clients, NEW k \in ClientState, NEW v \in ViewerState,
         NEW ts, NEW tv, Phase(k, v, ts, tv),
         protocolMinorVersion' = protocolMinorVersion, securityHandlers' \subseteq {Primary},
         up' \in BOOLEAN, clients' = clients \cup {c},
         cl' = [cl EXCEPT ![c] = k], viewer' = [viewer EXCEPT ![c] = v],
         toServer' = [toServer EXCEPT ![c] = ts], toViewer' = [toViewer EXCEPT ![c] = tv]
  PROVE  TypeOK' /\ Sessions'
<1>1. ts \in Seq(Message) /\ tv \in Seq(Message)
  BY PhaseTypes
<1>2. securityHandlers' \in SUBSET Types
  BY DEF Primary, Types
<1>3. TypeOK'
  BY <1>1, <1>2 DEF TypeOK
<1>4. /\ cl'[c] = k /\ viewer'[c] = v /\ toServer'[c] = ts /\ toViewer'[c] = tv
      /\ \A d \in Clients \ {c} : /\ cl'[d] = cl[d] /\ viewer'[d] = viewer[d]
                                  /\ toServer'[d] = toServer[d] /\ toViewer'[d] = toViewer[d]
  BY DEF TypeOK
<1>5. ASSUME NEW d \in clients'
      PROVE  Phase(cl'[d], viewer'[d], toServer'[d], toViewer'[d])
  <2>1. CASE d = c
    BY <1>4, <2>1
  <2>2. CASE d # c
    <3>1. d \in clients /\ d \in Clients
      BY <2>2 DEF TypeOK
    <3> QED
      BY <1>4, <2>2, <3>1 DEF Sessions
  <2> QED
    BY <2>1, <2>2
<1>6. ASSUME NEW d \in Clients \ clients'
      PROVE  viewer'[d].pc = "closed" /\ toServer'[d] = <<>> /\ toViewer'[d] = <<>>
  BY <1>4, <1>6 DEF Sessions
<1> QED
  BY <1>3, <1>5, <1>6 DEF Sessions

(* A handler of the server.                                                *)
LEMMA HandlerStep ==
  ASSUME TypeOK, Sessions, NEW c \in clients, NEW k \in ClientState, NEW answers,
         Phase(k, viewer[c], Tail(toServer[c]), toViewer[c] \o answers),
         Handle(c, k, answers), securityHandlers' \subseteq {Primary}, up' \in BOOLEAN
  PROVE  TypeOK' /\ Sessions'
<1>1. c \in Clients /\ viewer[c] \in ViewerState
  BY DEF TypeOK
<1>2. clients' = clients \cup {c} /\ viewer' = [viewer EXCEPT ![c] = viewer[c]]
  BY <1>1 DEF Handle, TypeOK
<1> QED
  BY <1>1, <1>2, SessionStep DEF Handle

(* A step of the viewer.                                                   *)
LEMMA ViewerStep ==
  ASSUME TypeOK, Sessions, NEW c \in clients, NEW v \in ViewerState, NEW answers,
         Phase(cl[c], v, toServer[c] \o answers, Tail(toViewer[c])), Read(c, v, answers)
  PROVE  TypeOK' /\ Sessions'
<1>1. c \in Clients /\ cl[c] \in ClientState /\ up \in BOOLEAN
  BY DEF TypeOK
<1>2. clients' = clients \cup {c} /\ cl' = [cl EXCEPT ![c] = cl[c]]
      /\ securityHandlers' \subseteq {Primary}
  BY <1>1 DEF Read, TypeOK, Sessions
<1> QED
  BY <1>1, <1>2, SessionStep DEF Read

LEMMA SessionOf ==
  ASSUME TypeOK, Sessions, NEW c \in clients
  PROVE  /\ c \in Clients /\ cl[c] \in ClientState /\ viewer[c] \in ViewerState
         /\ Phase(cl[c], viewer[c], toServer[c], toViewer[c])
BY DEF TypeOK, Sessions

LEMMA ServeStep ==
  ASSUME TypeOK, Sessions, NEW c \in Clients, Serve(c)
  PROVE  TypeOK' /\ Sessions'
<1> DEFINE k == cl[c]
           v == viewer[c]
           ts == toServer[c]
           tv == toViewer[c]
<1>1. c \in clients /\ ts # <<>>
  BY DEF Serve, Received, SendSecurityType, SendSecurityTypeList, ChooseVncAuth, ChooseNone,
         ChooseNoneMac, AcceptPassword, RejectPassword, InitMessage, NormalMessage
<1>2. k \in ClientState /\ v \in ViewerState /\ Phase(k, v, ts, tv)
  BY <1>1, SessionOf
<1>3. securityHandlers \subseteq {Primary} /\ up \in BOOLEAN
  BY DEF Sessions, TypeOK
<1>4. /\ "INITIALISATION" \in States /\ "AUTHENTICATION" \in States /\ "NORMAL" \in States
      /\ "SECURITY_TYPE" \in States /\ "INITIALISATION_SHARED" \in States
  BY DEF States
<1>5. ASSUME NEW state \in States PROVE Become(k, state) \in ClientState
  BY <1>2, BecomeType
<1>6. CASE SendSecurityType(c)
  <2> DEFINE minor == Said(c)
             r == Versioned(k, minor)
  <2>1. k.state = "PROTOCOL_VERSION" /\ minor = Head(ts)[2] /\ minor < 7
    BY <1>6 DEF SendSecurityType, Received, Said
  <2> HIDE DEF minor
  <2>2. /\ minor \in Versions
        /\ Primary = "None" =>
             Phase(Become(r, "INITIALISATION"), v, Tail(ts), tv \o << <<"type", Primary>> >>)
        /\ Primary = "VncAuth" =>
             Phase(Become(r, "AUTHENTICATION"), v, Tail(ts),
                   tv \o (<< <<"type", Primary>> >> \o Challenge))
    BY <1>1, <1>2, <2>1, SendSecurityTypePhase
  <2>3. r \in ClientState
    BY <1>2, <2>2, VersionedType
  <2>4. Become(r, "INITIALISATION") \in ClientState /\ Become(r, "AUTHENTICATION") \in ClientState
    <3> HIDE DEF r
    <3> QED
      BY <1>4, <2>3, BecomeType
  <2>5. securityHandlers' \subseteq {Primary} /\ up' \in BOOLEAN
    BY <1>3, <1>6 DEF SendSecurityType
  <2>6. CASE /\ Primary = "None"
             /\ Handle(c, Become(r, "INITIALISATION"), << <<"type", Primary>> >>)
    BY <1>1, <2>2, <2>4, <2>5, <2>6, HandlerStep
  <2>7. CASE /\ Primary = "VncAuth"
             /\ Handle(c, Become(r, "AUTHENTICATION"), << <<"type", Primary>> >> \o Challenge)
    BY <1>1, <2>2, <2>4, <2>5, <2>7, HandlerStep
  <2> QED
    BY <1>6, <2>6, <2>7 DEF SendSecurityType, minor
<1>7. CASE SendSecurityTypeList(c)
  <2> DEFINE minor == Said(c)
             r == Versioned(k, minor)
  <2>1. k.state = "PROTOCOL_VERSION" /\ minor = Head(ts)[2] /\ minor >= 7
    BY <1>7 DEF SendSecurityTypeList, Received, Said
  <2>2. /\ securityHandlers' = {Primary} /\ up' \in BOOLEAN
        /\ Handle(c, Become(r, "SECURITY_TYPE"), << <<"types", securityHandlers'>> >>)
    BY <1>3, <1>7 DEF SendSecurityTypeList
  <2> HIDE DEF minor
  <2>3. minor \in Versions
        /\ Phase(Become(r, "SECURITY_TYPE"), v, Tail(ts), tv \o << <<"types", {Primary}>> >>)
    BY <1>1, <1>2, <2>1, SendSecurityTypePhase
  <2>4. r \in ClientState
    BY <1>2, <2>3, VersionedType
  <2>5. Become(r, "SECURITY_TYPE") \in ClientState
    <3> HIDE DEF r
    <3> QED
      BY <1>4, <2>4, BecomeType
  <2> QED
    BY <1>1, <2>2, <2>3, <2>5, HandlerStep
<1>8. CASE ChooseVncAuth(c)
  <2>1. /\ k.state = "SECURITY_TYPE" /\ Head(ts)[2] = "VncAuth"
        /\ Handle(c, Become(k, "AUTHENTICATION"), Challenge)
        /\ securityHandlers' \subseteq {Primary} /\ up' \in BOOLEAN
    BY <1>3, <1>8 DEF ChooseVncAuth, Received, Said
  <2>2. Phase(Become(k, "AUTHENTICATION"), v, Tail(ts), tv \o Challenge)
    BY <1>1, <1>2, <2>1, ChoicePhase
  <2> QED
    BY <1>1, <1>4, <1>5, <2>1, <2>2, HandlerStep
<1>9. CASE ChooseNone(c)
  <2>1. /\ k.state = "SECURITY_TYPE" /\ Head(ts)[2] = "None" /\ k.minor # Mac
        /\ Handle(c, Become(k, "INITIALISATION"), NoneResult(k.minor))
        /\ securityHandlers' \subseteq {Primary} /\ up' \in BOOLEAN
    BY <1>3, <1>9 DEF ChooseNone, Received, Said
  <2>2. Phase(Become(k, "INITIALISATION"), v, Tail(ts), tv \o NoneResult(k.minor))
    BY <1>1, <1>2, <2>1, ChoicePhase
  <2> QED
    BY <1>1, <1>4, <1>5, <2>1, <2>2, HandlerStep
<1>10. CASE ChooseNoneMac(c)
  <2>1. /\ k.state = "SECURITY_TYPE" /\ Head(ts)[2] = "None" /\ k.minor = Mac
        /\ Handle(c, Become(k, "INITIALISATION_SHARED"), NoneResult(k.minor))
        /\ securityHandlers' \subseteq {Primary} /\ up' \in BOOLEAN
    BY <1>3, <1>10 DEF ChooseNoneMac, Received, Said
  <2>2. Phase(Become(k, "INITIALISATION_SHARED"), v, Tail(ts), tv \o NoneResult(k.minor))
    BY <1>1, <1>2, <2>1, ChoicePhase
  <2> QED
    BY <1>1, <1>4, <1>5, <2>1, <2>2, HandlerStep
<1>11. CASE AcceptPassword(c)
  <2> DEFINE p == Said(c)
             r == Admitted(k, MadeViewOnly(p))
  <2>1. /\ k.state = "AUTHENTICATION" /\ p = Head(ts)[2] /\ PasswordCheck(p)
        /\ Handle(c, r, << <<"result", TRUE>> >>)
        /\ securityHandlers' \subseteq {Primary} /\ up' \in BOOLEAN
    BY <1>3, <1>11 DEF AcceptPassword, Received, Said
  <2>2. MadeViewOnly(p) \in BOOLEAN
    BY DEF MadeViewOnly
  <2> HIDE DEF p
  <2>3. Phase(r, v, Tail(ts), tv \o << <<"result", TRUE>> >>)
    BY <1>1, <1>2, <2>1, PasswordPhase
  <2>4. r \in ClientState
    BY <1>2, <2>2, AdmittedType
  <2> QED
    BY <1>1, <2>1, <2>3, <2>4, HandlerStep
<1>12. CASE RejectPassword(c)
  <2> DEFINE p == Said(c)
             a == << <<"result", FALSE>> >>
                  \o IF k.minor > 7 THEN << <<"reason", "failed">> >> ELSE <<>>
  <2>1. /\ k.state = "AUTHENTICATION" /\ p = Head(ts)[2] /\ ~PasswordCheck(p)
        /\ Handle(c, k, a) /\ securityHandlers' \subseteq {Primary} /\ up' \in BOOLEAN
    BY <1>3, <1>12 DEF RejectPassword, Received, Said
  <2> HIDE DEF p
  <2>2. Phase(k, v, Tail(ts), tv \o a)
    BY <1>1, <1>2, <2>1, PasswordPhase
  <2> QED
    BY <1>1, <1>2, <2>1, <2>2, HandlerStep
<1>13. CASE InitMessage(c)
  <2>1. /\ k.state = "INITIALISATION"
        /\ Handle(c, Become(k, "NORMAL"), << <<"serverInit", "screen">> >>)
        /\ securityHandlers' \subseteq {Primary} /\ up' \in BOOLEAN
    BY <1>3, <1>13 DEF InitMessage, Received
  <2>2. Phase(Become(k, "NORMAL"), v, Tail(ts), tv \o << <<"serverInit", "screen">> >>)
    BY <1>1, <1>2, <2>1, InitPhase
  <2> QED
    BY <1>1, <1>4, <1>5, <2>1, <2>2, HandlerStep
<1>14. CASE NormalMessage(c)
  <2>1. /\ k.state = "NORMAL" /\ Handle(c, k, <<>>)
        /\ securityHandlers' \subseteq {Primary} /\ up' \in BOOLEAN
    BY <1>3, <1>14 DEF NormalMessage, Received
  <2>2. Phase(k, v, Tail(ts), tv \o <<>>)
    BY <1>1, <1>2, <2>1, InitPhase
  <2> QED
    BY <1>1, <1>2, <2>1, <2>2, HandlerStep
<1> QED
  BY <1>6, <1>7, <1>8, <1>9, <1>10, <1>11, <1>12, <1>13, <1>14 DEF Serve

LEMMA ViewStep ==
  ASSUME TypeOK, Sessions, NEW c \in Clients, View(c)
  PROVE  TypeOK' /\ Sessions'
<1> DEFINE k == cl[c]
           v == viewer[c]
           ts == toServer[c]
           tv == toViewer[c]
<1>1. v.pc # "closed"
  BY DEF View, Arrived, ReadVersion, ReadType, ReadTypes, ReadChallenge, ReadResult, ReadReason,
         ReadServerInit, SendRequest
<1>2. c \in clients
  BY <1>1 DEF Sessions
<1>3. k \in ClientState /\ v \in ViewerState /\ Phase(k, v, ts, tv)
  BY <1>2, SessionOf
<1>4. ASSUME NEW pc \in Awaited \cup {"running", "failed", "closed"}
      PROVE  Await(v, pc) \in ViewerState
  BY <1>3, AwaitType
<1>5. /\ "challenge" \in Awaited /\ "result" \in Awaited /\ "reason" \in Awaited
      /\ "serverInit" \in Awaited
  BY DEF Awaited
<1>6. CASE ReadVersion(c)
  <2> DEFINE minor == Answer(v.highest, Told(c))
             pc == IF minor > 6 THEN "types" ELSE "type"
             w == Await(Speaking(v, minor), pc)
  <2>1. /\ tv # <<>> /\ v.pc = "version" /\ minor = Answer(v.highest, Head(tv)[2])
        /\ Read(c, w, << <<"version", minor>> >>)
    BY <1>6 DEF ReadVersion, Arrived, Told
  <2> HIDE DEF minor
  <2>2. w \in ViewerState /\ Phase(k, w, ts \o << <<"version", minor>> >>, Tail(tv))
    BY <1>3, <2>1, ReadVersionPhase
  <2> QED
    BY <1>2, <2>1, <2>2, ViewerStep
<1>7. CASE ReadType(c)
  <2>1. tv # <<>> /\ v.pc = "type" /\ Told(c) = Head(tv)[2]
    BY <1>7 DEF ReadType, Arrived, Told
  <2>2. CASE Told(c) = "None" /\ Read(c, Await(v, "serverInit"), ClientInit(v))
    <3>1. Phase(k, Await(v, "serverInit"), ts \o ClientInit(v), Tail(tv))
      BY <1>3, <2>1, <2>2, ReadTypePhase
    <3> QED
      BY <1>2, <1>4, <1>5, <2>2, <3>1, ViewerStep
  <2>3. CASE Told(c) = "VncAuth" /\ Read(c, Await(v, "challenge"), <<>>)
    <3>1. Phase(k, Await(v, "challenge"), ts \o <<>>, Tail(tv))
      BY <1>3, <2>1, <2>3, ReadTypePhase
    <3> QED
      BY <1>2, <1>4, <1>5, <2>3, <3>1, ViewerStep
  <2> QED
    BY <1>7, <2>2, <2>3 DEF ReadType
<1>8. CASE ReadTypes(c)
  <2>1. tv # <<>> /\ v.pc = "types" /\ Told(c) = Head(tv)[2]
    BY <1>8 DEF ReadTypes, Arrived, Told
  <2>2. CASE "None" \in Told(c) /\ v.minor = 8 /\ Read(c, Await(v, "result"), Choice("None"))
    <3>1. Phase(k, Await(v, "result"), ts \o Choice("None"), Tail(tv))
      BY <1>3, <2>1, <2>2, ReadTypesPhase
    <3> QED
      BY <1>2, <1>4, <1>5, <2>2, <3>1, ViewerStep
  <2>3. CASE /\ "None" \in Told(c) /\ v.minor = 7
             /\ Read(c, Await(v, "serverInit"), Choice("None") \o ClientInit(v))
    <3>1. Phase(k, Await(v, "serverInit"), ts \o (Choice("None") \o ClientInit(v)), Tail(tv))
      BY <1>3, <2>1, <2>3, ReadTypesPhase
    <3> QED
      BY <1>2, <1>4, <1>5, <2>3, <3>1, ViewerStep
  <2>4. CASE "None" \in Told(c) /\ v.minor = Mac /\ Read(c, Await(v, "serverInit"), Choice("None"))
    <3>1. Phase(k, Await(v, "serverInit"), ts \o Choice("None"), Tail(tv))
      BY <1>3, <2>1, <2>4, ReadTypesPhase
    <3> QED
      BY <1>2, <1>4, <1>5, <2>4, <3>1, ViewerStep
  <2>5. CASE "VncAuth" \in Told(c) /\ Read(c, Await(v, "challenge"), Choice("VncAuth"))
    <3>1. Phase(k, Await(v, "challenge"), ts \o Choice("VncAuth"), Tail(tv))
      BY <1>3, <2>1, <2>5, ReadTypesPhase
    <3> QED
      BY <1>2, <1>4, <1>5, <2>5, <3>1, ViewerStep
  <2> QED
    BY <1>8, <2>2, <2>3, <2>4, <2>5 DEF ReadTypes
<1>9. CASE ReadChallenge(c)
  <2>1. /\ tv # <<>> /\ v.pc = "challenge"
        /\ Read(c, Await(v, "result"), << <<"response", v.password>> >>)
    BY <1>9 DEF ReadChallenge, Arrived
  <2>2. Phase(k, Await(v, "result"), ts \o << <<"response", v.password>> >>, Tail(tv))
    BY <1>3, <2>1, ReadChallengePhase
  <2> QED
    BY <1>2, <1>4, <1>5, <2>1, <2>2, ViewerStep
<1>10. CASE ReadResult(c)
  <2>1. tv # <<>> /\ v.pc = "result" /\ Told(c) = Head(tv)[2]
    BY <1>10 DEF ReadResult, Arrived, Told
  <2>2. CASE Told(c) /\ Read(c, Await(v, "serverInit"), ClientInit(v))
    <3>1. Phase(k, Await(v, "serverInit"), ts \o ClientInit(v), Tail(tv))
      BY <1>3, <2>1, <2>2, ReadResultPhase
    <3> QED
      BY <1>2, <1>4, <1>5, <2>2, <3>1, ViewerStep
  <2>3. CASE ~Told(c) /\ v.minor > 7 /\ Read(c, Await(v, "reason"), <<>>)
    <3>1. Phase(k, Await(v, "reason"), ts \o <<>>, Tail(tv))
      BY <1>3, <2>1, <2>3, ReadResultPhase
    <3> QED
      BY <1>2, <1>4, <1>5, <2>3, <3>1, ViewerStep
  <2>4. CASE ~Told(c) /\ ~(v.minor > 7) /\ Read(c, Await(v, "failed"), <<>>)
    <3>1. Phase(k, Await(v, "failed"), ts \o <<>>, Tail(tv))
      BY <1>3, <2>1, <2>4, ReadResultPhase
    <3> QED
      BY <1>2, <1>4, <2>4, <3>1, ViewerStep
  <2> QED
    BY <1>10, <2>2, <2>3, <2>4 DEF ReadResult
<1>11. CASE ReadReason(c)
  <2>1. tv # <<>> /\ v.pc = "reason" /\ Read(c, Await(v, "failed"), <<>>)
    BY <1>11 DEF ReadReason, Arrived
  <2>2. Phase(k, Await(v, "failed"), ts \o <<>>, Tail(tv))
    BY <1>3, <2>1, ReadReasonPhase
  <2> QED
    BY <1>2, <1>4, <2>1, <2>2, ViewerStep
<1>12. CASE ReadServerInit(c)
  <2>1. tv # <<>> /\ v.pc = "serverInit" /\ Read(c, Await(v, "running"), <<>>)
    BY <1>12 DEF ReadServerInit, Arrived
  <2>2. Phase(k, Await(v, "running"), ts \o <<>>, Tail(tv))
    BY <1>3, <2>1, ReadServerInitPhase
  <2> QED
    BY <1>2, <1>4, <2>1, <2>2, ViewerStep
<1>13. CASE SendRequest(c)
  <2>1. Phase(k, v, << <<"request", "update">> >>, tv)
    BY <1>3, <1>13, RequestPhase DEF SendRequest
  <2>2. /\ cl' = [cl EXCEPT ![c] = k] /\ viewer' = [viewer EXCEPT ![c] = v]
        /\ toViewer' = [toViewer EXCEPT ![c] = tv] /\ clients' = clients \cup {c}
        /\ toServer' = [toServer EXCEPT ![c] = << <<"request", "update">> >>]
        /\ protocolMinorVersion' = protocolMinorVersion
        /\ securityHandlers' \subseteq {Primary} /\ up' \in BOOLEAN
    BY <1>2, <1>13 DEF SendRequest, TypeOK, Sessions
  <2> QED
    BY <1>3, <2>1, <2>2, SessionStep
<1> QED
  BY <1>6, <1>7, <1>8, <1>9, <1>10, <1>11, <1>12, <1>13 DEF View

LEMMA NewStep ==
  ASSUME TypeOK, Sessions, NEW c \in Clients, NEW highest \in ViewerMinors,
         NEW password \in Passwords, NEW shared \in BOOLEAN,
         NewStreamClient(c, highest, password, shared)
  PROVE  TypeOK' /\ Sessions'
<1> DEFINE v == [pc |-> "version", minor |-> 3, highest |-> highest,
                 password |-> password, shared |-> shared]
           tv == << <<"version", protocolMinorVersion>> >>
<1>1. v \in ViewerState /\ v.pc = "version"
  BY SessionAssumption DEF ViewerState, Awaited, Versions
<1>2. NewClient(cl[c]) \in ClientState /\ NewClient(cl[c]).state = "PROTOCOL_VERSION"
      /\ ~NewClient(cl[c]).viewOnly
  BY NewClientType DEF TypeOK
<1>3. toServer[c] = <<>> /\ toServer' = [toServer EXCEPT ![c] = <<>>]
  BY DEF NewStreamClient, TypeOK, Sessions
<1> DEFINE n == NewClient(cl[c])
<1>4. /\ cl' = [cl EXCEPT ![c] = n] /\ viewer' = [viewer EXCEPT ![c] = v]
      /\ toViewer' = [toViewer EXCEPT ![c] = tv] /\ clients' = clients \cup {c}
      /\ protocolMinorVersion' = protocolMinorVersion
      /\ securityHandlers' \subseteq {Primary} /\ up' \in BOOLEAN
  BY DEF NewStreamClient, TypeOK, Sessions
<1>5. protocolMinorVersion \in Minors
  BY DEF TypeOK
<1> HIDE DEF v, n
<1>6. Phase(n, v, <<>>, tv)
  BY <1>1, <1>2, <1>5 DEF n, Phase, Opening
<1> HIDE DEF tv
<1> QED
  BY <1>1, <1>2, <1>3, <1>4, <1>6, SessionStep DEF n

LEMMA GoneStep ==
  ASSUME TypeOK, Sessions, NEW c \in Clients, ClientConnectionGone(c)
  PROVE  TypeOK' /\ Sessions'
<1>1. viewer[c] \in ViewerState
  BY DEF TypeOK
<1>2. [viewer[c] EXCEPT !.pc = "closed"] \in ViewerState
      /\ [viewer[c] EXCEPT !.pc = "closed"].pc = "closed"
  BY <1>1, AwaitType DEF Await
<1> DEFINE w == [viewer[c] EXCEPT !.pc = "closed"]
<1>3. viewer' = [viewer EXCEPT ![c] = w] /\ clients' = clients \ {c}
  BY DEF ClientConnectionGone
<1> HIDE DEF w
<1>4. viewer' \in [Clients -> ViewerState] /\ viewer'[c].pc = "closed"
  BY <1>2, <1>3 DEF w, TypeOK
<1>5. /\ toServer' \in [Clients -> Seq(Message)] /\ toViewer' \in [Clients -> Seq(Message)]
      /\ toServer'[c] = <<>> /\ toViewer'[c] = <<>>
  BY DEF ClientConnectionGone, TypeOK
<1>6. \A d \in Clients \ {c} : /\ cl'[d] = cl[d] /\ viewer'[d] = viewer[d]
                              /\ toServer'[d] = toServer[d] /\ toViewer'[d] = toViewer[d]
  BY <1>3 DEF ClientConnectionGone, TypeOK
<1>7. TypeOK'
  BY <1>3, <1>4, <1>5 DEF ClientConnectionGone, TypeOK
<1>8. Sessions'
  <2>1. securityHandlers' \subseteq {Primary}
    BY DEF ClientConnectionGone, Sessions
  <2>2. ASSUME NEW d \in clients'
        PROVE  Phase(cl'[d], viewer'[d], toServer'[d], toViewer'[d])
    <3>1. d \in clients /\ d \in Clients \ {c}
      BY <1>3, <2>2 DEF TypeOK
    <3> QED
      BY <1>6, <3>1 DEF Sessions
  <2>3. ASSUME NEW d \in Clients \ clients'
        PROVE  viewer'[d].pc = "closed" /\ toServer'[d] = <<>> /\ toViewer'[d] = <<>>
    BY <1>3, <1>4, <1>5, <1>6, <2>3 DEF Sessions
  <2> QED
    BY <2>1, <2>2, <2>3 DEF Sessions
<1> QED
  BY <1>7, <1>8

LEMMA RefuseStep ==
  ASSUME TypeOK, Sessions, NEW c \in Clients, RefuseClient(c)
  PROVE  TypeOK' /\ Sessions'
<1>1. NewClient(cl[c]) \in ClientState
  BY NewClientType DEF TypeOK
<1>2. c \notin clients /\ cl' = [cl EXCEPT ![c] = NewClient(cl[c])]
      /\ UNCHANGED <<protocolMinorVersion, securityHandlers, up, clients, viewer,
                     toServer, toViewer>>
  BY DEF RefuseClient
<1>3. \A d \in clients : cl'[d] = cl[d]
  BY <1>2 DEF TypeOK
<1>4. TypeOK'
  BY <1>1, <1>2 DEF TypeOK
<1>5. Sessions'
  BY <1>2, <1>3 DEF Sessions
<1> QED
  BY <1>4, <1>5

LEMMA VersionStep ==
  ASSUME TypeOK, Sessions, NEW minor \in Minors, SetProtocolVersion(minor)
  PROVE  TypeOK' /\ Sessions'
<1>1. TypeOK'
  BY DEF SetProtocolVersion, TypeOK
<1>2. Sessions'
  BY DEF SetProtocolVersion, Sessions
<1> QED
  BY <1>1, <1>2

LEMMA SessionsInit == Init => TypeOK /\ Sessions
<1> SUFFICES ASSUME Init PROVE TypeOK /\ Sessions
  OBVIOUS
<1>1. [state |-> "PROTOCOL_VERSION", minor |-> 3, viewOnly |-> FALSE] \in ClientState
  BY DEF ClientState, States, Versions
<1>2. [pc : {"closed"}, minor : {3}, highest : {3}, password : Passwords, shared : {FALSE}]
        \subseteq ViewerState
  <2> SUFFICES ASSUME NEW w \in [pc : {"closed"}, minor : {3}, highest : {3},
                                 password : Passwords, shared : {FALSE}]
               PROVE  w \in ViewerState
    OBVIOUS
  <2>1. w = [pc |-> w.pc, minor |-> w.minor, highest |-> w.highest,
             password |-> w.password, shared |-> w.shared]
    OBVIOUS
  <2>2. 3 \in Versions
    BY DEF Versions
  <2>3. /\ w.pc \in Awaited \cup {"running", "failed", "closed"} /\ w.minor \in Versions
        /\ w.highest \in Versions /\ w.password \in Passwords /\ w.shared \in BOOLEAN
    BY <2>2
  <2> QED
    BY <2>1, <2>3 DEF ViewerState
<1>3. TypeOK
  <2>1. cl \in [Clients -> ClientState]
    BY <1>1 DEF Init
  <2>2. viewer \in [Clients -> ViewerState]
    BY <1>2 DEF Init
  <2>3. toServer \in [Clients -> Seq(Message)] /\ toViewer \in [Clients -> Seq(Message)]
    BY DEF Init
  <2> QED
    BY <2>1, <2>2, <2>3, SessionAssumption DEF Init, TypeOK
<1>4. Sessions
  BY DEF Init, Sessions
<1> QED
  BY <1>3, <1>4

LEMMA SessionsNext == TypeOK /\ Sessions /\ [Next]_vars => TypeOK' /\ Sessions'
<1> SUFFICES ASSUME TypeOK, Sessions, [Next]_vars PROVE TypeOK' /\ Sessions'
  OBVIOUS
<1>1. ASSUME NEW minor \in Minors, SetProtocolVersion(minor) PROVE TypeOK' /\ Sessions'
  BY <1>1, VersionStep
<1>2. ASSUME NEW c \in Clients, NEW highest \in ViewerMinors, NEW password \in Passwords,
             NEW shared \in BOOLEAN, NewStreamClient(c, highest, password, shared)
      PROVE  TypeOK' /\ Sessions'
  BY <1>2, NewStep
<1>3. ASSUME NEW c \in Clients, RefuseClient(c) PROVE TypeOK' /\ Sessions'
  BY <1>3, RefuseStep
<1>4. ASSUME NEW c \in Clients, ClientConnectionGone(c) PROVE TypeOK' /\ Sessions'
  BY <1>4, GoneStep
<1>5. ASSUME NEW c \in Clients, Serve(c) PROVE TypeOK' /\ Sessions'
  BY <1>5, ServeStep
<1>6. ASSUME NEW c \in Clients, View(c) PROVE TypeOK' /\ Sessions'
  BY <1>6, ViewStep
<1>7. CASE UNCHANGED vars
  BY <1>7 DEF vars, TypeOK, Sessions
<1> QED
  BY <1>1, <1>2, <1>3, <1>4, <1>5, <1>6, <1>7 DEF Next

-----------------------------------------------------------------------------
(* The theorems.                                                           *)

\* Every variable keeps its type, at every step of the handshake, of any number of clients.
THEOREM SessionTypeCorrect == Spec => []TypeOK
<1> QED
  BY SessionsInit, SessionsNext, PTL DEF Spec

\* What both ends take for the next message is what the other end sent, for all versions that
\* meet, for every password and password list, however connections come and go
\* (rfbserver.c 458-466).
THEOREM SessionsInSync == Spec => []InSync
<1>1. TypeOK /\ Sessions => InSync
  <2> SUFFICES ASSUME TypeOK, Sessions, NEW c \in clients
               PROVE  /\ up /\ toServer[c] # <<>> => Head(toServer[c])[1] = Handles(cl[c].state)
                      /\ toViewer[c] # <<>> => Head(toViewer[c])[1] = viewer[c].pc
    BY DEF InSync
  <2> DEFINE k == cl[c]
             v == viewer[c]
             ts == toServer[c]
             tv == toViewer[c]
  <2>1. k \in ClientState /\ v \in ViewerState /\ Phase(k, v, ts, tv)
    BY SessionOf
  <2> HIDE DEF k, v, ts, tv
  <2>2. ASSUME ts # <<>> PROVE Head(ts)[1] = Handles(k.state)
    <3>1. CASE k.state = "PROTOCOL_VERSION" /\ ts = << <<"version", v.minor>> >>
      BY <3>1, Streams DEF Handles
    <3>2. CASE k.state = "SECURITY_TYPE" /\ Choosing(k, v, ts, tv)
      BY <2>2, <3>2, Streams DEF Handles, Choosing
    <3>3. CASE k.state = "AUTHENTICATION" /\ ts = << <<"response", v.password>> >>
      BY <3>3, Streams DEF Handles
    <3>4. CASE k.state = "INITIALISATION" /\ ts = << <<"clientInit", v.shared>> >>
      BY <3>4, Streams DEF Handles
    <3>5. CASE k.state = "NORMAL" /\ ts = << <<"request", "update">> >>
      BY <3>5, Streams DEF Handles
    <3> QED
      BY <2>1, <2>2, <3>1, <3>2, <3>3, <3>4, <3>5, WaitingAfterSaying
  <2>3. ASSUME tv # <<>> PROVE Head(tv)[1] = v.pc
    <3>1. CASE v.pc = "version" /\ \E n \in Minors : tv = << <<"version", n>> >>
      BY <3>1, Streams
    <3>2. CASE v.pc = "types" /\ tv = << <<"types", {Primary}>> >>
      BY <3>2, Streams
    <3>3. CASE Challenged(k, v, ts, tv)
      <4>1. CASE v.pc = "type" /\ tv = << <<"type", "VncAuth">>, <<"challenge", "random">> >>
        BY <4>1, FirstKind
      <4>2. CASE v.pc = "challenge" /\ tv = << <<"challenge", "random">> >>
        BY <4>2, FirstKind
      <4>3. CASE v.pc = "result" /\ tv = << <<"result", FALSE>>, <<"reason", "failed">> >>
        BY <4>3, FirstKind
      <4>4. CASE v.pc = "result" /\ tv = << <<"result", FALSE>> >>
        BY <4>4, FirstKind
      <4>5. CASE v.pc = "reason" /\ tv = << <<"reason", "failed">> >>
        BY <4>5, FirstKind
      <4> QED
        BY <2>3, <3>3, <4>1, <4>2, <4>3, <4>4, <4>5 DEF Challenged
    <3>4. CASE Entering(k, v, ts, tv)
      <4>1. CASE v.pc = "type" /\ tv = << <<"type", "None">> >>
        BY <4>1, FirstKind
      <4>2. CASE v.pc = "result" /\ tv = << <<"result", TRUE>> >>
        BY <4>2, FirstKind
      <4>3. CASE v.pc = "serverInit" /\ tv = << <<"serverInit", "screen">> >>
        BY <4>3, FirstKind
      <4> QED
        BY <2>3, <3>4, <4>1, <4>2, <4>3 DEF Entering
    <3> QED
      BY <2>1, <2>3, <3>1, <3>2, <3>3, <3>4, ToldWhere
  <2> QED
    BY <2>2, <2>3 DEF k, v, ts, tv
<1> QED
  BY <1>1, SessionsInit, SessionsNext, PTL DEF Spec

\* Where there is a password list a client comes past authentication only with a password of
\* it, and is view-only exactly if that password makes it so, for every list (auth.c 334-377,
\* main.c 537-560).
THEOREM AdmissionProven == Spec => []Proven
<1>1. TypeOK /\ Sessions => Proven
  <2> SUFFICES ASSUME TypeOK, Sessions, NEW c \in clients, PasswordList # <<>>,
                      cl[c].state \in {"INITIALISATION", "NORMAL"}
               PROVE  /\ PasswordCheck(viewer[c].password)
                      /\ cl[c].viewOnly = MadeViewOnly(viewer[c].password)
    BY DEF Proven
  <2>1. Phase(cl[c], viewer[c], toServer[c], toViewer[c])
    BY SessionOf
  <2>2. Entitled(cl[c], viewer[c])
    BY <2>1 DEF Phase, Opening, Choosing, Challenged, Stopped
  <2> QED
    BY <2>2 DEF Entitled
<1> QED
  BY <1>1, SessionsInit, SessionsNext, PTL DEF Spec
=============================================================================
