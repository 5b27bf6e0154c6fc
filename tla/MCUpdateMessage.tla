--------------------------- MODULE MCUpdateMessage ---------------------------
EXTENDS UpdateMessage, TLC

MCEncodings == {"raw", "rre", "corre", "hextile", "zlib", "ultra", "tight", "zrle"}
\* None, the whole, three pieces.
MCUpdates ==
  {<<>>, <<Rect(0, 0, 3, 3)>>, <<Rect(0, 1, 1, 1), Rect(2, 1, 1, 1), Rect(0, 2, 3, 1)>>}
\* The first can be sent together with the pieces.
MCCopies ==
  {<< <<Rect(0, 0, 1, 1), Rect(1, 1, 1, 1)>>, -1, -1>>,
   << <<Rect(1, 1, 1, 1), Rect(2, 2, 1, 1)>>, 1, 1>>}
\* The second is that of the body Tight sends of the whole: hundreds of portions, and
\* a length of three bytes.
MCPackedLens == <<130, 16390, 20>>
Compressed    == [s \in {"full", "mono", "indexed"} |-> 1]
NotCompressed == [s \in {"full", "mono", "indexed"} |-> 0]
MCNoticeBytes == [messages |-> 10, encodings |-> 28, identity |-> 25]
\* All, with a shape that needs an empty buffer; no cursor; only bytes that do
\* not fit behind the header of the message.
MCNoticeSets ==
  {[due |-> ToSet(Notices), cursor |-> <<4, 10>>],
   [due |-> {"xcursor", "led"}, cursor |-> <<0, 0>>],
   [due |-> {"identity"}, cursor |-> <<0, 0>>]}
Hues == Permutations(Colours)

\* The row of tightConf: of level 0, with which data are left as they are, or another.
VARIABLE compressLevel
Plain == INSTANCE UpdateMessage WITH ZlibLevel <- NotCompressed, Encodings <- {"tight"}

LevelInit == Init /\ compressLevel \in {0, 1}
LevelNext ==
  /\ \/ compressLevel = 1 /\ Next
     \/ compressLevel = 0 /\ Plain!Next
  /\ UNCHANGED compressLevel
LevelSpec == LevelInit /\ [][LevelNext]_<<vars, compressLevel>>
=============================================================================
