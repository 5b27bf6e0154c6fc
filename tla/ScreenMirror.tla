---------------------------- MODULE ScreenMirror ----------------------------
(***************************************************************************)
(* What a VNC server promises a viewer: a picture that lags behind the     *)
(* screen but never shows anything the screen did not show.  A refresh may *)
(* bring any part of a viewer's picture up to date and leaves the rest as  *)
(* it was; whatever it changes becomes what the screen shows there at that *)
(* moment, the pixel itself or the cursor where the server paints it.      *)
(*                                                                         *)
(* Nothing here says how: which regions are pending, what is sent as       *)
(* pixels and what the viewer copies inside its own picture.               *)
(***************************************************************************)
CONSTANTS Clients, Pixels, Colours, Cursors, Blank

VARIABLES
  fb,       \* the screen's pixels
  cursor,   \* the cursor image
  overlay,  \* overlay[c]: where the server paints the cursor for viewer c
  clients,  \* the connected viewers
  shown     \* shown[c]: the picture of viewer c

vars == <<fb, cursor, overlay, clients, shown>>

Nothing == [p \in Pixels |-> Blank]

Init ==
  /\ fb \in [Pixels -> Colours] /\ cursor \in Cursors
  /\ clients = {}
  /\ shown = [c \in Clients |-> Nothing]

\* The screen changes in any way; no picture does.
Repaint ==
  /\ fb' \in [Pixels -> Colours] /\ cursor' \in Cursors
  /\ UNCHANGED <<clients, shown>>

Join(c) ==
  /\ clients' = clients \cup {c}
  /\ shown' = [shown EXCEPT ![c] = Nothing]
  /\ UNCHANGED <<fb, cursor>>

Leave(c) ==
  /\ clients' = clients \ {c}
  /\ shown' = [shown EXCEPT ![c] = Nothing]
  /\ UNCHANGED <<fb, cursor>>

\* A picture that is now up to date at some pixels and unchanged elsewhere.
UpToDate(c, p) ==
  \/ shown'[c][p] = fb[p]
  \/ p \in overlay'[c] /\ shown'[c][p] = cursor

Refresh(c) ==
  /\ c \in clients
  /\ \A p \in Pixels : shown'[c][p] = shown[c][p] \/ UpToDate(c, p)
  /\ \A other \in Clients \ {c} : shown'[other] = shown[other]
  /\ UNCHANGED <<fb, cursor, clients>>

Next == Repaint \/ \E c \in Clients : Join(c) \/ Leave(c) \/ Refresh(c)

Spec == Init /\ [][Next]_vars
=============================================================================
