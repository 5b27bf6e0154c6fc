# libvncasync in TLA+

libvncasync is a VNC server library made from LibVNCServer: the application
owns the sockets and the `rfbClient` structures, hands the bytes that arrive to
the library and calls it periodically; everything runs on one thread. These
modules model the parts of it in which a wrong step is hard to see in the code
and hard to reach with a test. TLC checks small instances; TLAPS proves the
theorems for every value of the constants.

Run TLC with `tlc -config UpdatePipeline_core.cfg MCUpdatePipeline.tla` (one
`.cfg` per run, listed below) and the proofs with `tlapm UpdatePipelineProofs.tla` (and the other modules of proofs).

## Inventory

The build (Makefile.am) takes `libvncserver/` without its `tightvnc-filetransfer`
and `rfbssl_*` files, and parts of `common/`. `libvncclient`, the examples and the
tests are not built; `libvncclient` is what the
viewer's side of the handshake and of the encodings is modelled from.

| Component | Source | State | Operations | What makes it correct |
|---|---|---|---|---|
| Update pipeline | main.c 225-425, 811-873, 1006-1033; rfbserver.c 2138-2185, 2490-3033 | per client: modifiedRegion, copyRegion and copyDX/DY, requestedRegion, progressiveSliceY, startDeferring, newFBSizePending | mark, schedule and do a copy, request, update | nothing drawn is lost, nothing wrong is shown, every change is shown in the end |
| Cursor | cursor.c | screen: cursor, cursorX/Y; client: cursorX/Y, cursorWasChanged/Moved | SetCursor, Show/Hide/Redraw, SendCursorShape/Pos | a drawn cursor is erased where it was; a viewer that draws it learns of its shape and place |
| Regions | rfbregion.c | bands of spans, lists sorted and merged | or, and, subtract, offset, bounding box, iterators | the lists stand for the set of pixels the operation means |
| Client list and life cycle | rfbserver.c 116-452, main.c 427-438, 877-941 | doubly linked list from clientHead, onHold | NewStreamClient, ConnectionGone, iterators, shutdown | walking the list visits each client once, also when clients leave meanwhile |
| Handshake and authentication | rfbserver.c 458-693, auth.c | client: state, version, viewOnly, authChallenge; global handler list | version, security type, challenge and answer, ClientInit | both ends agree on what comes next; no service before authentication; everybody gets an answer; sharing policy |
| Input | rfbserver.c 2187-2237, main.c 441-465, 1035-1055 | screen: pointerClient; client: lastPtrX/Y/Buttons, startPtrDeferring | pointer and key events, deferral | never two viewers with a button down; a deferred position arrives; nobody misses a move of the cursor |
| Desktop size | main.c 811-873, rfbserver.c 2412-2459, 3140-3248 | newFBSizePending, requestedDesktopSizeChange | NewFramebuffer, SetDesktopSize, NewFBSize and ExtDesktopSize | a viewer that can resize learns the size before pixels of it |
| Scaled screens | scale.c | list of screens with reference counts | SetScale, ScaledScreenUpdate, correction of coordinates | counts equal users; a corrected rectangle covers the original |
| Encoders | tight, zrle, zlib, hextile, rre, corre, ultra | updateBuf and ublen, zlib streams | one sender per encoding | the announced number of rectangles is sent, the buffer is not overrun, the viewer's decoder reads what was written |
| Translation, colour maps | translate.c | lookup table per client | SetPixelFormat, SetClientColourMap | arithmetic |
| WebSocket decoder | ws_decode.c | hybi state, header and carry-over buffers | read header, read and decode, return data | the decoded stream does not depend on how the bytes arrive |
| Extensions | main.c 64-188 | global list, list per client | register, enable, disable | callbacks see only enabled extensions |
| File transfer, chat | rfbserver.c 985-1782 | fileTransfer.fd, sending, receiving | offer, request, packets, end | one file open at a time |
| Statistics; fonts and drawing; cut text | stats.c; font.c, draw.c, selbox.c; cutpaste.c | counters; none; none | | |

The application calls into every component; viewers reach them through
`rfbProcessClientMessage`, which dispatches on the client's state. What the
application draws, copies or moves is recorded in the client records by
broadcasting along the client list; `rfbUpdateClient`, called for each client from
`rfbProcessEvents`, turns the record into one `FramebufferUpdate` message when the
viewer has asked for one. Cursor, sizes, scaled screens and encoders all hang off
that one function. The callbacks of the application (newClientHook, ptrAddEvent,
displayHook, clientGoneHook, ...) are called from inside handlers.

The hard behaviours are not those of threads. They are interleavings of handlers:
a copy scheduled while another waits, the pointer moved between two updates,
encodings changed in mid-session, a screen replaced while a request is open, a
client record used again; and streams: a message that arrives in pieces, a push
that fails. PROJECT.json lists them with their lines.

## Modules

### UpdatePipeline

The client record is the part of `struct _rfbClient` the pipeline reads and
writes, under its own field names, plus `view`: the picture the viewer has after
what was pushed to it so far. A region is the set of its pixels. One action stands for
one call of the application, one message of a viewer or one call of
`rfbUpdateClient`.

| Action | Code |
|---|---|
| Draw | drawing, then rfbMarkRectAsModified / rfbMarkRegionAsModified |
| DoCopyRegion | rfbDoCopyRegion, rfbDoCopyRect |
| ScheduleCopyRegion | the application's own copy, then rfbScheduleCopyRegion |
| MoveCursor, SetCursor | rfbDefaultPtrAddEvent; rfbSetCursor |
| NewFramebuffer | rfbNewFramebuffer, same size |
| NewStreamClient, StartOnHoldClient, ClientConnectionGone | rfbNewStreamClient, rfbStartOnHoldClient, rfbClientConnectionGone |
| FramebufferUpdateRequest, SetEncodings | the two cases of rfbProcessClientNormalMessage |
| StartDeferring, SendUpdate | the two halves of the deferral in rfbUpdateClient, the second with all of rfbSendFramebufferUpdate |

Two things are modelled more closely than as sets. The order in which a region's
rectangles are taken: bands and spans are derived from the pixels (`SameBand`,
`SameSpan`) and `RectBefore` is the order of the reverse iterator; `CopyInPlace`
gives what one `memmove` per rectangle in that order leaves, following each pixel
back to the place its colour came from (`Origin`). And the cursor at the screen's
edge: `CursorRect` is what is redrawn, `CursorPainted` what rfbShowCursor paints,
which stops one row and column earlier.

Fields rfbNewStreamClient does not set (newFBSizePending, startDeferring) start
with any value. Which encoding is preferred matters only for whether rectangles
are counted as they are (`boxed`); the pseudo-rectangles only for whether one is due
(`pseudo`, `cursorDue`). The three are chosen freely at each update.

`Coherent` says that every pixel in which a viewer's picture differs from the
screen is accounted for: it is in modifiedRegion, or it is the destination of the
pending copy and the viewer's own source pixel has the right colour.

### ScreenMirror

What a VNC server promises, without regions: a picture may be refreshed anywhere,
but only with what the screen shows at that moment. `UpdatePipeline` implements it
(`MirrorSpec`) with `view` for the picture.

### PointerInput

The screen's pointer fields (`pointerClient`, `window.cursorX/Y`), the linked clients, and of each client record the
fields pointer events read and write. Two history fields are added: the buttons the application
takes the viewer to press (`given`), and where the cursor was when the viewer was last notified of it (`at`).

| Action | Code |
|---|---|
| PointerEvent | the case rfbPointerEvent of rfbProcessClientNormalMessage, with the call of ptrAddEvent |
| StartPtrDeferring, DeliverDeferred | the pointer half of rfbUpdateClient, with the call of ptrAddEvent |
| SetEncodings | the flags about the cursor |
| SendFramebufferUpdate | what it does about the cursor's position |
| NewFramebuffer | rfbNewFramebuffer, the pointer kept on the screen |
| NewStreamClient, ClientConnectionGone | as above; a used-again record keeps lastPtrButtons and a running timer |

ptrAddEvent is rfbDefaultPtrAddEvent, which walks the client list and sets everyone's cursorWasMoved (`WasMoved`, `Notify`).
Key events change no state of the library and are left out, as is the scaling of coordinates.

### ClientSession

Both ends of the handshake, for several clients: the server's record of the client (its state, version and viewOnly), the viewer, and
a stream of messages in each direction. The server's side is one action per handler and outcome; the viewer's is
`InitialiseRFBConnection` of libvncclient, one action per message it waits for, with Mac OS X's viewer added from what auth.c says of it.

| Action | Code |
|---|---|
| SetProtocolVersion | rfbSetProtocolVersion |
| NewStreamClient, RefuseClient, ClientConnectionGone | rfbNewStreamClient by the outcome of newClientHook; rfbClientConnectionGone |
| SendSecurityType, SendSecurityTypeList | rfbProcessClientProtocolVersion and rfbAuthNewClient, before 3.7 and from 3.7 on |
| ChooseVncAuth, ChooseNone, ChooseNoneMac | rfbProcessClientSecurityType and the handler of the chosen type, the last with the call of rfbProcessClientInitMessage |
| AcceptPassword, RejectPassword | rfbAuthProcessClientMessage with passwordCheck |
| InitMessage, NormalMessage | rfbProcessClientInitMessage; rfbProcessClientNormalMessage |
| ReadVersion | InitialiseRFBConnection up to the choice of type |
| ReadType, ReadTypes | the type of 3.3; ReadSupportedSecurityType |
| ReadChallenge, ReadResult, ReadReason, ReadServerInit | HandleVncAuth, rfbHandleAuthResult, ReadReason, the end of InitialiseRFBConnection |

A password check encrypts the session's challenge with each password of the list and compares; a response therefore stands for
the password it was made with. Sharing policy and rfbCloseClient: the latter prints a line and does nothing
else, so the policy's constants appear in `NotShared` only. This copy of libvncclient reads the server's version
only if listenSpecified is set; viewers here do. Left out: messages no viewer sends (another major version, a type that was
not offered), messages in pieces, pushes that fail, reverse connections, security handlers the application registers, extensions.

### ScreenSize

The main screen and its size, the list of scaled screens with their counts, the fields of the client records that have to do
with sizes, and the size each viewer shows. A scaled screen is known by its size (rfbScaledScreenFind looks for one);
`alive` are those in the list, `stale` the parts of its picture that are not what the main screen shows. Width and height behave
alike: one number stands for both.

| Action | Code |
|---|---|
| Connect, ClientInit, ClientConnectionGone | rfbNewStreamClient, rfbProcessClientInitMessage, rfbClientConnectionGone |
| SetEncodings, FramebufferUpdateRequest | what these cases do about sizes |
| SetScale | rfbScalingSetup and rfbSendNewScaleSize (`Find`, `Refreshed`, `Moved`) |
| Draw, MarkRectAsModified | drawing; rfbMarkRectAsModified with rfbScaledScreenUpdate (`Updated`) |
| NewFramebuffer, SetDesktopSize | rfbNewFramebuffer; the case rfbSetDesktopSize with the hook's result |
| SendSize | the part of rfbSendFramebufferUpdate that sends a notice instead of pixels |
| ScreenCleanup | rfbShutdownServer, rfbScreenCleanup |

Three fields are added: `missed`, that the screen was replaced before the viewer took notices; `result`, the outcome of
the viewer's last request that was not answered; `unmarked`, what was drawn and not marked as a rectangle.

### Region

A region is its list of bands, each with a list of spans (`list`), beside the set of pixels its operations mean (`pixels`).
`ListOr`, `ListAnd` and `ListSubtract` are the loops of sraSpanListOr, sraSpanListAnd and sraSpanListSubtract. A walk is where such a loop is:
what lies before d_curr, d_curr and what follows, and s_curr and what follows. `OrStep`, `AndStep` and `SubtractStep` are one turn each, with a case per
branch of the code; `below` is the same operation on the spans of two bands (`SpansOr` and its like, the same loop one level down).
`Iterate` is the iterator with its two directions, `PopRect` sraRgnPopRect, which takes the rectangle the iterator would give first.

### WsDecode, ByteStream

The decoder's context under its field names, the socket's bytes, known by the frame and the place in it they come from, and
what the caller was given (`out`). One action is one call of webSocketsDecodeHybi: `ReadHeader`, `ReadMore` and `ReturnReady` are the
three states it can be called in. Lengths are counted modulo `Wide`, as hybiRemaining is unsigned. Unmasking is a
fact about places: a byte comes out right if it is unmasked once and at its place in the group of four. `ByteStream` is the promise:
what comes out is a prefix of what went in. Base64 decodes every four characters to three bytes.

### PixelEncodings, TightEncoding, ZrleEncoding, PseudoRectangles, PixelDecodings, UpdateMessage

The way of an update from its rectangles to the viewer's framebuffer. The encoders are operators from the buffer,
the picture and a rectangle to the buffer after; the bytes of a buffer are items, of which the length is counted. The decoders are
operators from what the viewer has still to read and its picture. A compressor's bodies are numbered, since a decompressor that missed one
reads nonsense from there on.

| Definition | Code |
|---|---|
| rfbSendRectEncodingRaw, RRE, CoRRE, Hextile, Zlib, Ultra | rfbserver.c, rre.c, corre.c, hextile.c, zlib.c, ultra.c |
| rfbSendRectEncodingTight, rfbNumCodedRectsTight | tight.c: solid areas, splitting, palettes, the three compressors (TightEncoding) |
| rfbSendRectEncodingZRLE | zrle.c, zrleencodetemplate.c, zrlepalettehelper.c: tiles, coded in one of five ways (ZrleEncoding) |
| CompressData, rfbSendCompressedDataTight, Method | tight.c: data too short to be compressed, data left as they are by level 0 (rfbTightNoZlib), and compressed data, the last two with a length of one to three bytes and in portions of updateBuf; the viewer's counterpart is `Uncompressed` in PixelDecodings |
| HandleRects and Handle... | HandleRFBServerMessage and the decoders of libvncclient (PixelDecodings) |
| Begin | rfbSendFramebufferUpdate up to the header: limiting and counting the rectangles (`Limited`, `Counted`) |
| FallDue, SendNotices | SetEncodings and the events that set flags such as cursorWasChanged; the pseudo-rectangles sent for them: rfbSendCursorShape (XCursor), rfbSendCursorPos, rfbSendKeyboardLedState, rfbSendSupportedMessages, rfbSendSupportedEncodings, rfbSendServerIdentity (PseudoRectangles) |
| SendCopyRegion, SendRect, Finish | rfbSendCopyRegion, one rectangle, rfbSendLastRectMarker and the last push |
| DoCopyRegion, Read | rfbDoCopyRegion; the viewer takes in the message |

The loops of the encoders and decoders are `InTurn`: a step and the sequence it is taken over. In tight.c the search for an area of one colour
calls the encoder again for the parts around it; `Search` gives what comes of that, the parts in the order in which they are sent and the flushes between them, as
a recursive function, and `SendPart` sends each.
Subrectangles of RRE, CoRRE and Hextile are those of subrectEncode: the larger of the widest and the highest at each corner. Ways of
coding a ZRLE tile are estimated in the code's order.

### MC modules and proofs

MCUpdatePipeline, MCPointerInput, MCClientSession, MCScreenSize, MCRegion, MCWsDecode and MCUpdateMessage hold the values for TLC;
UpdatePipelineProofs, PointerInputProofs, ClientSessionProofs, ScreenSizeProofs, WsDecodeProofs, RegionProofs and
UpdateMessageProofs the theorems. UpdateMessageTerms defines what the last of them speaks of, and Turns has the facts about loops
that it needs, with the body of the loop as a parameter. UpdateMessageProofs is by far the largest: allow twenty minutes and 5 GB for it.

## Runs

| Run | Checks | Bounds |
|---|---|---|
| core | TypeOK, Coherent, MirrorSpec | 2 x 3 screen scrolled rectangle by rectangle, down and right, 1 client with or without its own cursor, a cursor of two pixels that reaches over the edge, 3 operations: a copy of a copy, a pending copy of two rectangles in two bands, a change of displacement |
| live | Coherent, CatchesUp | deferral on, slices of one row on two rows, at most one rectangle, NewFBSize, 2 operations |
| docopy | Coherent violated | an L-shaped region moved one row down |
| viewers | TypeOK, OneDown, NoMoveMissed, DeferredArrives | 2 clients, 1 button, 2 positions, resizes to 2 sizes, one of which cuts a position off |
| passwords | InSync, Proven, Answered | 1 client; all server and viewer versions 3.3 to 3.8; a list of a full and a view-only password, viewers with either or neither |
| open | TypeOK, InSync, OthersAnswered | 2 clients, versions 3.3, 3.7, 3.8 and Mac OS X, servers of 3.7 and 3.8, no password |
| macosx | Answered violated | 1 viewer of Mac OS X, servers of 3.7 and 3.8, no password |
| shared | NotShared violated | 2 clients, 3.8 |
| screens | TypeOK, RefsMatch, ScaledFollows, SizeTold, AnswersOwn | 2 clients, main screen of sizes 4 and 1, scale factors 1 and 2, one area |
| regions | TypeOK, Meaning, Traversal | 2 regions of a 2 x 3 screen: every rectangle of it, one of width 0 and one that ends before it starts |
| websocket | TypeOK, BufferBounded, StreamSpec, AllDelivered | ten sessions of up to three frames, pieces of every size, calls for 2 and for 40 bytes |
| encodings | TypeOK, InStep, Shown | every picture of 3 x 3 pixels in 3 colours (symmetric), eight encodings, updates of one rectangle or three, copies in both directions; for pictures with columns of one colour, three sets of pseudo-rectangles ahead of the rest; Tight also with compression level 0 |

Why such bounds are enough: the regions matter through their intersections with
what is pending, with their own displaced images, with the request and with the
cursor; two columns, a third row for two bands that copy into each other, and 3 operations
give the combinations of these. Clients meet only in the frame buffer and the cursor, which no client's step changes: the runs
have one, and that an update, a newcomer or a departure disturbs no other client is left to the theorems. The application's
operations are bounded (`MaxWork`), the viewers' messages and the updates are
not. The theorems carry the first two properties to every size.

PointerInput has no bound but its constants: two viewers are the fewest that can
contend for the pointer, one button gives the masks up and down, and two positions a motion.

ClientSession has no bound but its constants, either. Sessions share only the version offered and the list of security types, so
two of them show all there is between them; one is enough for what concerns a single session. Connections end at
any time and records are used again. `open` and `macosx` do not check for deadlock: the server stops in ChooseNoneMac. `OthersAnswered`
speaks of the behaviours in which no viewer of Mac OS X's version comes; the others are the subject of `macosx`.

ScreenSize: two viewers are the fewest that share a scaled screen or ask for sizes at the same time. With sizes 4 and 1 and
factors 1 and 2 there is a scaled screen of the main screen's size, one that is smaller, and one that is larger after
the main screen was replaced. It has no other bound, and the theorems are about all sizes. The run does not check for deadlock:
rfbScreenCleanup ends it.

Region: all lists that can be made of rectangles of the screen are reached; `since` bounds only what comes
after a region was made of a rectangle without pixels (MaxSince 4), and the run stops there. Three rows and two columns give bands
above, below, inside and across each other, equal ones to be merged and gaps.

WsDecode: the buffer has 24 bytes, extended headers begin with 12 bytes of payload, long ones with 16, `Wide` is 1024. A piece can
end anywhere in headers, in groups of four and at the end of the buffer. The sessions have each kind of frame, control frames between
fragments, a message begun within a fragmented one, frames that are refused, and a close. They are such as the decoder can receive
(`Receivable`, see below), which TLC checks before it starts. The run ends with the session.

UpdateMessage: pictures of 3 x 3 pixels have all the shapes subrectEncode, the search for solid areas and the tiles distinguish
at the scaled-down thresholds: tiles of 2, strips of 4 pixels, Tight rectangles of up to 6 pixels split into parts, updateBuf of 40 bytes, so that
a raw rectangle takes several pushes, and BitsPerByte 2, with which each of the five ways of coding a ZRLE tile is the shortest for
some picture. What is larger differs in numbers only. The first flush of SendSubrect (128 bytes of room) is never reached at this size, and copies fit the buffer.
How long a compressed body is nobody can tell beforehand; the number of the rectangle it belongs to gives it one of 130, 16390 and 20 bytes (`PackedLens`, `BodyLen`), so that lengths
of one, two and three bytes and bodies sent in hundreds of portions occur. Each behaviour has one
compression level for Tight (`compressLevel` in MCUpdateMessage: rows of tightConf with level 0 and with another). With level 0 only data of full colour are long enough here to get a length
(TIGHT_MIN_TO_COMPRESS is 12 as in the code) and they fit into one portion; that palettes, and longer data, go out the same way, and that updateBuf is never exceeded whatever the lengths and
levels, is left to the theorems. The bytes of pseudo-rectangles (`NoticeBytes`) and the cursor of 4 x 10
points are chosen so that some fit behind the header of the message and some only into an empty buffer. Notices fall due while every column
has one colour (`NoticesBound`): they end with a flush, so that what follows them begins with an empty buffer whatever the picture.

Fairness (`FairSpec`): the library does nothing by itself. The application calls
rfbProcessEvents again and again, so `UpdateClient` is weakly fair and a started timer
runs out. A viewer asks for the whole screen again and again, as the RFB protocol
expects of it, and the application lets in the clients it put on hold. Under that,
`CatchesUp`: an out-of-date pixel of a connected viewer becomes current, even if the
viewer also keeps asking non-incrementally, which marks the whole screen again each time.
Viewers with ExtendedDesktopSize are left out of this run: each non-incremental request
of such a viewer makes the next update a size notice (rfbserver.c 2178, 2517), so
one that asks in no other way never gets a pixel.

For `DeferredArrives` only the pointer half of `UpdateClient` is weakly fair, for the same reason.
The viewer may go on sending events all the time.

For `Answered` and `OthersAnswered` what a viewer sent is handed to the library in the end, and a viewer reads what it is sent
(`Serve`, `View`); both streams are reliable connections. The application may close a connection at any time.

For `AllDelivered` the caller reads again and again (WF of webSocketsDecodeHybi); the socket may fail for good at any time.

### Disagreements

`docopy`: rfbDoCopyRegion takes the rectangles in the order `dx < 0, dy < 0`,
rfbSendCopyRegion in the order `dx > 0, dy > 0`. The second is right (`SendOrderSafe`);
the first spoils sources as soon as a region has two rectangles that copy into
each other. Within one rectangle the order plays no part, and rfbDoCopyRect is what
callers in the repository use.

`macosx`: the viewer of Mac OS X (3.889) sends no ClientInit when it has chosen None, so rfbVncAuthNone takes it to RFB_INITIALISATION_SHARED and calls
rfbProcessClientMessage at once (auth.c 128-171, rfbproto.h 1834-1848). NEWS 106 says that such viewers can connect without a password. But
rfbProcessClientInitMessage then writes through `ci`, which is still NULL (rfbserver.c 624), and the server stops: `up` becomes false, and neither this viewer nor any
other is served.

`shared`: under -nevershared, or when a viewer comes with shared-flag 0, the code goes through the clients to close and calls
rfbCloseClient, which in this library closes nothing. cargs.c and the log say otherwise.

### Other things the code does

No document says otherwise, so these have no run; the models have them, or say what they leave out because of them.

* SetEncodings without CopyRect leaves the pending copyRegion, which is then sent (rfbserver.c 1862).
* A deferred pointer event is delivered without a look at pointerClient, which rfbproto.h calls a "Mutex". `OneDown` holds all the
  same: a deferred event with a button pressed belongs to the holder.
* A motion that was deferred stays in lastPtrX/Y when a button change is passed on at once, and follows it with the new buttons: a click
  made after a motion ends where the motion was.
* PointerPos rectangles carry the client's cursorX/Y, which are kept only for viewers that do not draw the cursor themselves; those never
  get such rectangles.
* A span without width inside another is never subtracted and stays in modifiedRegion (rfbregion.c 454).
* When the main screen has shrunk below a scaled one, a pixel of the latter has an area of 0, by which a sum is divided (`running`).
* A viewer that enables NewFBSize after the screen was replaced is not told (`missed`). Copies, and what is marked as a region, do not
  refresh the scaled screens (`unmarked`).
* The success of one viewer's SetDesktopSize overwrites the reason of another's failure that was not sent yet: that viewer is told that another client changed the size.
* After a request to resize that succeeded the answer is delayed until the new framebuffer is there; a notice that was due before already carries it.
* A WebSocket frame of fewer than 8 bytes that is followed by another loses bytes of that one, and a read that would block in the
  middle of a frame resets the decoder. The sessions of the run have no such frame but at the end, and their socket has something to read or fails.
* The viewer of libvncclient inflates Zlib and ZRLE with the same decompressor (libvncclient/zrle.c 112), the server deflates with two: a viewer
  that changes between them loses the stream. In the run the compressors start anew with each update.

* A cursor shape that does not fit into updateBuf (cursor.c 109-112, marked FIXME) makes the update fail after its header has been pushed;
  rfbUpdateClient ignores that, and the viewer takes the next update's header for a rectangle. `FitAssumption` assumes smaller shapes.

## Proofs

For UpdatePipeline (UpdatePipelineProofs):

* `TypeCorrect`: Spec => []TypeOK. The part that is not bookkeeping is that copies in
  place stay on the screen: `OriginOnScreen` shows that following a pixel back ends
  after finitely many steps, on the screen, for every region whose sources are on it
  (a least-number argument from the well-foundedness of <).
* `SendOrderSafe`: for every region and displacement, the order of rfbSendCopyRegion never overwrites a source too early.
  With `SafeOrderMoves` a viewer that carries out the CopyRects one by one gets what one simultaneous copy would give.
* `NothingLost`: Spec => []Coherent, if every region passed to rfbDoCopyRegion is a rectangle
  (`RectangularCopies`; the run docopy shows that the condition is needed). Coherent is inductive together with
  TypeOK; one lemma per operation on a client record (`ScheduleCopyAccounted`, `SendAccounted`, ...) shows that each pixel stays accounted for.
* `ImplementsMirror`: Spec => MirrorSpec under the same condition, from `PushedUpToDate`: an update
  changes a pixel only to what the screen shows there.

For PointerInput (PointerInputProofs):

* `PointerTypeCorrect`: Spec => []TypeOK; what a deferred event delivers is a position because the code looks at lastPtrX before.
* `OneDownSafe`: Spec => []OneDown. OneDown is not inductive: a deferred event is delivered without a look at pointerClient. `Held` adds that
  a button the application takes to be pressed is what lastPtrButtons holds, that view-only viewers have nothing deferred, and that who has a button pressed, known
  to the application or still deferred, is pointerClient.
* `MovesReported`: Spec => []NoMoveMissed, inductive with TypeOK.

For ClientSession (ClientSessionProofs):

* `SessionTypeCorrect`, `SessionsInSync`, `AdmissionProven`: Spec => []TypeOK, []InSync and []Proven. Neither InSync nor Proven is
  inductive: which message comes next depends on where both ends are. `Phase` lists, for every stage of the handshake, the server's
  state, what the viewer waits for and exactly what is under way; `Sessions` says that every client is in a phase. One
  lemma per handler and per message read shows that it leads from phase to phase, and `SessionStep` that the
  others stay where they are. `Phase` also shows that at any time only one of the two streams has something in it.

For ScreenSize (ScreenSizeProofs):

* `ScreenTypeCorrect` and `CountsMatch`: Spec => []TypeOK and []RefsMatch. That a count is at most the number of clients is not
  inductive without saying what it counts: `Inv` has the types without bounds, `Counted` (each count is the cardinality of its users) and `Listed`.
  Counting users is where the library's theorems on cardinality come in: a client that leaves, joins or moves changes two sets of users by one element.
* `ScaledScreensFollow`: Spec => []ScaledFollows, from `Follows` and CountsMatch: a screen nobody uses is refreshed when it is found again, because a count of 0 means that it has no users.
* `SizesAreTold`, `AnswersAreOwn`: Spec => []SizeTold and []AnswersOwn, by `SizesInStep`, which adds that a client in the handshake is on the main screen.

For WsDecode (WsDecodeProofs):

* `DecodeBufferSafe`: Spec => []BufferBounded, for frames, pieces and calls of any length, as long as the decoder is within the frames of
  the client. `Decoder` adds what is known between the reads of a header: nothing is carried over, and less than the header was read. Of
  hybiRemaining only that it is not negative is used, so the bound also holds where it wraps around; `ReadFits` shows that the byte kept free
  is never asked for, `WholeBounds` that at most three are left over. `terminator` is where a string is ended, the byte after what is decoded.
* `StreamEmulated` and `DecoderTypeCorrect`: Spec => StreamSpec and Spec => []TypeOK, for frames that are `Receivable`. Neither is inductive:
  that the next byte returned is the next one of the client's data depends on where in the frames the decoder is and on what lies in
  the socket, in the carry and in the buffer at that moment. `Streaming` says just that. `Position` places the decoder before a frame,
  in its header, or q bytes decoded and g bytes returned into its payload, and gives, as rows of places (`Span`), what the socket holds, what
  is carried over, what is ready, and what has been returned. Each way a call can end leads from position to position and returns
  the places in between, or closes the connection and returns nothing. `PayloadOfBlock` shows that a block which begins at a multiple of
  four decodes to its data; `FlattenConcat` and its neighbours, what putting sequences together does, by a least-number argument over the partial results.
* `Receivable` is what the code needs of its peer. Its first read takes 14 bytes whatever the frame's length, so only the last frame may be shorter
  than that; lengths are below 2^64; Base64 is decoded frame by frame, in groups of four characters. Masks and opcodes, fragments, control frames between them and
  frames that are refused are as the client likes.

For Region (RegionProofs):

* `ListsMeanPixels` and `RegionTypeCorrect`: Spec => [](since = 0 => Meaning) and Spec => []TypeOK, for every screen, number of regions,
  rectangles and shifts. `RegionInv` says that each list shows the pixels of its region (`Shows`): its bands hold
  rows, stand in order, are not empty, and cover these pixels. Each operation leads from lists that show pixels to one that
  shows what it should (`ShowsOr`, `ShowsAnd`, `ShowsSubtract`, `OffsetShows`, `BBoxShows`, `PopRectShows`).
* The loops are functions defined by tail recursion. `LoopExists` shows once that there is a function with such an equation, `LoopResult` what it
  gives, from a loop invariant and a rank that every turn lowers (`Rank` of a walk: spans left, those of the source
  counting for more, because they are cut short and looked at again). The invariant of a walk is that what is done, what is left and the source are in order (`Aligned`) and
  that the points that stand for the result, such as those done or in both lists for `AndStep`, are the same as before the turn (`OrStepGood`, `AndStepGood`, `SubtractStepGood`).
* What a span contains is left open in these lemmas: a set of contents and the points of each. They serve twice, for spans of x, which contain nothing,
  and for bands, which contain rows (`RowsUnite`, `RowsMeet`, `RowsCut`).
* `IteratorTraverses`: Spec => []Traversal. The iterator is one more loop, whose rank is the number of rectangles still to come (`IteratePasses`).
  The places it has passed follow one another in the order asked for (`FollowingIs`), the rectangles of an ordered list have no pixel in common
  (`RectsApart`), and that `CountRects` counts them is shown for its two nested sums (`CountsExist`, `CountsAre`, `CountRectsIs`). Traversal says nothing of a list
  that came of a rectangle without pixels.
* Where a region was made of a rectangle without pixels, lists need not be in order, and Meaning is left to TLC.

For UpdateMessage (UpdateMessageProofs):

* `UpdateTypes`: Spec => []TypeOK. `UpdateInStep`: Spec /\ []Announceable => []InStep. `UpdateShown`: Spec => [](InStep => Shown), and from
  both `UpdateAlwaysShown`. For every screen and picture, all regions, the eight encodings, any notices and copies, and any values of updateBuf, of the tiles,
  strips and thresholds that the assumptions allow.
* None of the three is inductive: they look at the viewer before and after a whole message, which is written in many steps and read in one. `IInv` says, for each stage of an update,
  what a viewer that will read it gets to see. Whatever follows, it reads what has been written so far rectangle by rectangle, up to the end of it and with its
  decompressors at the last body (`Reads`), and then has a picture that agrees with the framebuffer except in what is still to be sent or was drawn since. `Announced` keeps the number in the header
  equal to what has been written and what is still to be counted; `Gone` adds what an update whose number is not known ends with, the marker of the last rectangle. While a
  copyRegion waits, the framebuffer is what the copy makes of the viewer's picture (`CopyInv`).
* A part of a stream serves a set of points (`Serve`) if, read with any picture and whatever is written behind it, it shows these points as they are in the framebuffer and leaves the others. Such parts can be put
  behind one another (`PartsSent`). Each encoder has a lemma of this form: `RawSent`, where a rectangle is cut by pushes; `RreSent`, `CorreSent` and `HextileSent`, with what subrectEncode
  covers and the fallbacks to raw; `ZlibSent` and `UltraSent`, with strips; `ZrleSent`, with palettes and runs; `TightServed` and `TightSent`, with the three compressors and the search for solid areas.
  `SentServed` has them all, together with the number of rectangles: that the splitting agrees with the counting that is done ahead of it.
* Bodies may have any length but 0, and each kind of Tight data any compression level. `BodySent` is about rfbSendCompressedDataTight: every portion finds room in updateBuf, however many there
  are, and what they make up is read as one item. `TightPlain` has the data that level 0, or their size, leaves uncompressed; that the viewer takes them for what they are is due to the control byte (`Method`).
* What `Search` does is shown over a rank, the size of the rectangle and what of it is left below the row it is in (`Rank`): that its parts are rectangles of the screen, that the solid ones have one colour, and that
  all together they cover the rectangle. The function exists because each call has a lower rank.
* `NoticedTold` says that notices are skipped by the viewer and leave its picture alone. `CopiesSent` and `CopiesOrdered`: in the order of the reverse iterator, no copy overwrites the source
  of a later one, for every region in the order of bands and every displacement; copied one by one, the rectangles show what one move of the region would.
* `Announceable` says that no update has more than 65535 rectangles. The number is cut to 16 bits (rfbserver.c 2865), so the condition is needed; the type invariant and `UpdateShown` do without it. Updates of
  one screenful meet it, if the screen is not enormous: in the run an update has a few dozen rectangles at most.
* IInv speaks of every way the stream could go on and of every picture, which TLC cannot enumerate. The run checks the three properties it implies.

Two faults of the model came to light this way. A frame of data sent in the middle of a fragmented message was taken, in what
StreamSpec expects, for part of that message: `Beginning` has been corrected and the run now has such a session. And the guards of
a CASE in `ReturnData` overlapped, which left open which branch is meant: they are now tested in the order of the code.

The proofs assume `ConstantsAssumption`, `PointerAssumption`, `SessionAssumption`, `ScreenAssumption`, `DecoderAssumption`, the two `RegionAssumption`s and, for
UpdateMessage, `EncodingAssumption`, `ZrleAssumption`, `NoticeAssumption`, `ChoiceAssumption` and `FitAssumption` alone. `EncodingAssumption` says that sizes are positive, that MaxRectWidth is at most MaxRectSize, and that a Hextile tile and a Tight palette with what
precedes it fit into updateBuf, as they do for the sizes in the code. FitAssumption has what the code does not check: a line, a cursor's shape, a notice and all rectangles of a
copy fit into updateBuf. TLC evaluates each of them for the values of the runs.

Checked by TLC only: `CatchesUp`, `DeferredArrives`, `Answered`, `OthersAnswered` and `AllDelivered`, since liveness under fairness is beyond the prover, and
Meaning after rectangles without pixels. Every other property of a run that passes is a theorem.

## Not modelled

Compression, translation, JPEG and statistics: data, not control. ZYWRLE (wavelets that lose detail), TightPng and UltraZip; TRLE has no encoder here.
The correction of coordinates of scaled screens, which uses doubles, and the layout of several monitors. What pseudo-rectangles say (their lengths are modelled), RichCursor, colour maps
and cut text. Application callbacks that call back into the library from inside a handler; extensions, fonts, drawing, file transfer and text chat;
client list iterators and security handlers an application registers. Pushes that fail: their outcome is tested the wrong way
round and nothing can be promised after one.

## Plan

Done: UpdatePipeline with ScreenMirror, PointerInput, ClientSession and ScreenSize, Region with their theorems; WsDecode with ByteStream and its theorems; UpdateMessage with the
encoders, the decoders and their theorems. Not done:

1. ClientList: the linked list and its iterators under removal, shutdown; that a walk visits each client once.
2. SecurityHandlers: the linked list of handlers an application registers and unregisters (auth.c 47-101).
3. FileTransfer: the state of fileTransfer in rfbProcessFileTransfer.
