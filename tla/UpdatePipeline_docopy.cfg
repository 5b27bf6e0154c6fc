CONSTANTS
  Clients = {c1}
  Width = 2
  Height = 3
  Colours = {red, blue}
  Blank = blank
  Cursors = {arrow}
  CursorExtent <- OneCursor
  Points <- OffScreen
  Offsets <- Down
  Buffers <- OneBuffer
  DrawRegions <- AskAll
  CopyRegions <- LShape
  Requests <- AskAll
  Encodings <- PlainOnly
  DeferUpdates = FALSE
  SliceHeight = 0
  MaxRectsPerUpdate = 0
  MaxWork = 2
SPECIFICATION Spec
INVARIANT Coherent
