CONSTANTS
  Clients = {c1}
  Width = 2
  Height = 2
  Colours = {red, blue}
  Blank = blank
  Cursors = {arrow}
  CursorExtent <- OneCursor
  Points <- OnOrigin
  Offsets <- SomeMoves
  Buffers <- OneBuffer
  DrawRegions <- Corner
  CopyRegions <- CopyRects
  Requests <- AskAll
  Encodings <- ShapeOrResize
  DeferUpdates = TRUE
  SliceHeight = 1
  MaxRectsPerUpdate = 1
  MaxWork = 2
SPECIFICATION FairSpec
INVARIANT Coherent
PROPERTY CatchesUp
