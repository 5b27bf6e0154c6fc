CONSTANTS
  Clients = {c1}
  Width = 2
  Height = 3
  Colours = {red, blue}
  Blank = blank
  Cursors = {arrow}
  CursorExtent <- WideCursor
  Points <- OnOrigin
  Offsets <- DownAndRight
  Buffers <- OneBuffer
  DrawRegions <- TopLeft
  CopyRegions <- Scrolled
  Requests <- AskLeft
  Encodings <- CopyWithCursor
  DeferUpdates = FALSE
  SliceHeight = 0
  MaxRectsPerUpdate = 0
  MaxWork = 3
SPECIFICATION Spec
INVARIANTS TypeOK Coherent
PROPERTY MirrorSpec
