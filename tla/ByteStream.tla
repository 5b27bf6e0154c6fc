----------------------------- MODULE ByteStream -----------------------------
(* What a byte stream promises: what comes out is what went in, in that     *)
(* order, with nothing missing, repeated or changed.                        *)
EXTENDS Sequences, SequencesExt

VARIABLES source, sink

Init == sink = <<>>

Deliver == source' = source /\ IsPrefix(sink, sink') /\ IsPrefix(sink', source)

Spec == Init /\ [][Deliver]_<<source, sink>>
=============================================================================
