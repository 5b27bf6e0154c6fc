----------------------------- MODULE MCWsDecode -----------------------------
(* Frames for WsDecode, with the thresholds of the length field and the     *)
(* decode buffer scaled down.                                               *)
EXTENDS WsDecode

F(op, fin, form, len) ==
  [op |-> op, fin |-> fin, masked |-> TRUE, form |-> form, len |-> len, pad |-> 0]

\* Frames that the client may send one after the other.  No payload but the
\* last is so short that the read for a header reaches into the frame after.
Session == {
  << F("binary", TRUE, "short", 9), F("binary", TRUE, "extended", 13), F("binary", TRUE, "short", 2) >>,
  << F("binary", TRUE, "long", 18), F("ping", TRUE, "short", 8), F("binary", TRUE, "short", 0) >>,
  << F("binary", FALSE, "short", 10), F("ping", TRUE, "short", 9), F("continuation", TRUE, "short", 5) >>,
  << F("text", FALSE, "short", 8), F("continuation", FALSE, "extended", 20),
     [F("continuation", TRUE, "short", 4) EXCEPT !.pad = 2] >>,
  << F("binary", TRUE, "short", 8), F("close", TRUE, "short", 9), F("binary", TRUE, "short", 3) >>,
  << F("binary", FALSE, "short", 8), F("continuation", TRUE, "short", 8), F("continuation", TRUE, "short", 3) >>,
  << F("binary", FALSE, "short", 8), F("ping", FALSE, "short", 8) >>,
  << F("text", TRUE, "short", 8), [F("text", TRUE, "short", 8) EXCEPT !.masked = FALSE] >>,
  << F("text", TRUE, "short", 8), F("binary", TRUE, "long", 13) >>,
  << F("text", FALSE, "short", 8), F("binary", TRUE, "short", 9) >> }

\* The run's frames are as StreamEmulated and DecoderTypeCorrect suppose.
ASSUME SessionsReceivable == \A fs \in Session : Receivable(fs)

AskLengths == {2, 40}
=============================================================================
