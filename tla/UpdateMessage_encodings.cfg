CONSTANTS
  Width = 3
  Height = 3
  Colours = {a, b, c}
  Blank = blank
  Encodings <- MCEncodings
  Updates <- MCUpdates
  Copies <- MCCopies
  MaxRectsPerUpdate = 2
  NoticeBytes <- MCNoticeBytes
  NoticeSets <- MCNoticeSets
  UPDATE_BUF_SIZE = 40
  HextileSize = 2
  CorreMax = 2
  MaxStripSize = 4
  MinSplitRect = 4
  MaxSplitTile = 2
  MinSolidSubrect = 2
  MaxRectSize = 6
  MaxRectWidth = 2
  ColorsDivisor = 3
  MonoMinRect = 2
  PackedLens <- MCPackedLens
  ZlibLevel <- Compressed
  rfbZRLETileWidth = 3
  rfbZRLETileHeight = 2
  BitsPerByte = 2
SYMMETRY Hues
SPECIFICATION LevelSpec
INVARIANTS TypeOK InStep Shown
