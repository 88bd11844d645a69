----------------------------- MODULE RectDataParser -----------------------------
(***************************************************************************)
(* The parsers of the rectangles of a FramebufferUpdate message            *)
(* (rectdataparser.cpp), one per encoding, fed with whatever part of the   *)
(* message has arrived.                                                    *)
(*                                                                         *)
(* A byte that has been read is removed from mReceiveBuffer.  One          *)
(* iteration of a parser's loop is a step; readRect() stays with the       *)
(* rectangle until no step of its parser is possible.                      *)
(***************************************************************************)
EXTENDS ServerStream

LOCAL INSTANCE SequencesExt

CONSTANTS
    TileIndices,        \* mCurrentTileIndex is a uint16_t: 65536
    MaxSubrectangles,   \* ORV_MAX_RRE_SUBRECTANGLES_COUNT
    MaxCompressedSize   \* ORV_MAX_COMPRESSED_RECT_BUFFER_SIZE

ASSUME LimitsAssumption == {TileIndices, MaxSubrectangles, MaxCompressedSize} \subseteq Nat \ {0}

VARIABLES
    pc,             \* where the thread is; "messages": processing what it has received
    mReceiveBuffer, \* received, but not yet read
    rect,           \* mCurrentRectHeader; its parser is the one of rect.encoding
    data,           \* what the parser has collected of the rectangle
    tile,           \* the tile a Hextile or ZRLE parser is reading
    picture,        \* mCurrentRectData of these two parsers
    zlib            \* mZlibPlainParser of the Zlib and of the ZRLE parser

parserVars == <<data, tile, picture, zlib>>

Least(m, n) == IF m < n THEN m ELSE n

(* The number that a field is read as; any bytes are some number.  Those   *)
(* that the server did not send as one are not told apart.                 *)
Number(byte) == IF byte \in Nat THEN byte ELSE 0

Available == Len(mReceiveBuffer)

(* The caller goes on behind the bytes that were read. *)
Consume(n) == mReceiveBuffer' = SubSeq(mReceiveBuffer, n + 1, Available)

(* Bytes are appended to those collected, up to the number expected. *)
Collected(bytes, expected, more) ==
    bytes \o SubSeq(more, 1, Least(expected - Len(bytes), Len(more)))

(* The colour of the kth pixel of pixels of a size of n bytes. *)
PixelAt(bytes, k, n) == bytes[k * n + 1]

NoRect == [encoding |-> "none", x |-> 0, y |-> 0, w |-> 0, h |-> 0]

Reading(encodings) == pc = "messages" /\ rect.encoding \in encodings

(* calculateRectBufferSizeFor() *)
RectBytes == rect.w * rect.h * BytesPerPixel

-----------------------------------------------------------------------------
(* Raw *)

RawFinished == Len(data) >= RectBytes

RawReady == Reading({"Raw"}) /\ ~RawFinished /\ Available > 0

ReadRaw ==
    /\ RawReady
    /\ data' = Collected(data, RectBytes, mReceiveBuffer)
    /\ Consume(Least(RectBytes - Len(data), Available))
    /\ UNCHANGED <<pc, rect, tile, picture, zlib>>

(* An empty rectangle leaves mCurrentRectDataSize zero. *)
RawFails == RectBytes = 0

RawPicture ==
    [p \in Area(rect.w, rect.h) |-> PixelAt(data, p[2] * rect.w + p[1], BytesPerPixel)]

-----------------------------------------------------------------------------
(* CopyRect: the place in the framebuffer the pixels are copied from. *)

CopyRectReady == Reading({"CopyRect"}) /\ data = <<>> /\ Available >= 4

ReadCopyRect ==
    /\ CopyRectReady
    /\ data' = <<[x |-> mReceiveBuffer[1], y |-> mReceiveBuffer[3]]>>
    /\ Consume(4)
    /\ UNCHANGED <<pc, rect, tile, picture, zlib>>

CopyRectFinished == data # <<>>

(* All lines are read before the first is written. *)
CopyRectPicture(screen) ==
    [p \in Area(rect.w, rect.h) |-> screen[<<data[1].x + p[1], data[1].y + p[2]>>]]

-----------------------------------------------------------------------------
(* RRE and CoRRE: a background and coloured subrectangles. *)

RREHeaderReady ==
    Reading({"RRE", "CoRRE"}) /\ data = <<>> /\ Available >= 4 + BytesPerPixel

ReadRREHeader ==
    /\ RREHeaderReady
    /\ data' = <<[count |-> Number(mReceiveBuffer[1]), background |-> mReceiveBuffer[5]]>>
    /\ Consume(4 + BytesPerPixel)
    /\ UNCHANGED <<pc, rect, tile, picture, zlib>>

CoordinateBytes == IF rect.encoding = "CoRRE" THEN 1 ELSE 2

RRESubrectBytes == BytesPerPixel + 4 * CoordinateBytes

NextRRESubrect ==
    LET Coordinate(k) == mReceiveBuffer[BytesPerPixel + k * CoordinateBytes + 1]
    IN  [colour |-> mReceiveBuffer[1],
         x |-> Coordinate(0), y |-> Coordinate(1), w |-> Coordinate(2), h |-> Coordinate(3)]

(* Faulty: off by one. *)
RREFinished_Late == data # <<>> /\ Len(data) - 1 > data[1].count

RREFinished == data # <<>> /\ Len(data) - 1 >= data[1].count

(* Faulty: the subrectangles are read when all of them are there. *)
SubrectAvailable_All ==
    /\ data # <<>> /\ ~RREFinished
    /\ Available >= (data[1].count - Len(data) + 1) * RRESubrectBytes

SubrectAvailable == data # <<>> /\ ~RREFinished /\ Available >= RRESubrectBytes

SubrectReady == Reading({"RRE", "CoRRE"}) /\ SubrectAvailable

Exceeds(part, w, h) == part.x + part.w > w \/ part.y + part.h > h

ReadRRESubrect ==
    /\ SubrectReady
    /\ data' = Append(data, NextRRESubrect)
    /\ Consume(RRESubrectBytes)
    /\ UNCHANGED <<pc, rect, tile, picture, zlib>>

RREFails ==
    \/ data # <<>> /\ data[1].count > MaxSubrectangles
    \/ SubrectAvailable /\ Exceeds(NextRRESubrect, rect.w, rect.h)

(* The subrectangles are drawn in their order, over the background. *)
RREPicture ==
    [p \in Area(rect.w, rect.h) |->
        LET over == {i \in 2..Len(data) :
                        /\ p[1] \in data[i].x..(data[i].x + data[i].w - 1)
                        /\ p[2] \in data[i].y..(data[i].y + data[i].h - 1)}
        IN  IF over = {} THEN data[1].background
            ELSE data[CHOOSE i \in over : \A j \in over : j <= i].colour]

-----------------------------------------------------------------------------
(* Tiles of either encoding *)

(* clear() *)
NoTile ==
    [index |-> 0, typeRead |-> FALSE, type |-> {}, didRead |-> {}, subrects |-> 0, bytes |-> <<>>,
     background |-> Undefined, foreground |-> Undefined, pixelsDone |-> 0, torn |-> FALSE, calls |-> 0]

Blank(w, h) == [p \in Area(w, h) |-> Undefined]

(* clearCurrentTile(): the colours stay. *)
NextTile ==
    [NoTile EXCEPT !.index = (tile.index + 1) % TileIndices,
                   !.background = tile.background, !.foreground = tile.foreground]

TileWidth(s) == calculateTileWidth(tile.index, rect.w, s)
TileHeight(s) == calculateTileHeight(tile.index, rect.w, rect.h, s)
TilePixels(s) == TileWidth(s) * TileHeight(s)

HasTile(s) == tile.index < TotalTiles(rect.w, rect.h, s)

(* The picture once the bytes of a raw tile have arrived. *)
RawTile(s, size) ==
    WriteTile(picture, tile.index, rect.w, rect.h, s,
              [k \in 0..(TilePixels(s) - 1) |-> PixelAt(tile.bytes, k, size)])

-----------------------------------------------------------------------------
(* Hextile: a mask, the fields it announces, the subrectangles. *)

HextileFlags == {"Raw", "BackgroundSpecified", "ForegroundSpecified", "AnySubrects", "SubrectsColoured"}

InHextileTile == Reading({"Hextile"}) /\ HasTile(HextileSize)

HextileStep == UNCHANGED <<pc, rect, data, zlib>>

HextileMaskReady == InHextileTile /\ ~tile.typeRead /\ Available >= 1

ReadHextileMask ==
    /\ HextileMaskReady
    /\ HextileStep
    /\ tile' = [tile EXCEPT !.typeRead = TRUE, !.type = mReceiveBuffer[1]]
    /\ Consume(1)
    /\ UNCHANGED picture

(* The fields that follow the mask, in their order. *)
HextileFields == <<"BackgroundSpecified", "ForegroundSpecified", "AnySubrects">>

Announced(i) == HextileFields[i] \in tile.type /\ "Raw" \notin tile.type

FieldDue(i) ==
    /\ tile.typeRead
    /\ Announced(i) /\ i \notin tile.didRead
    /\ \A j \in 1..(i - 1) : Announced(j) => j \in tile.didRead

HextileColourReady ==
    InHextileTile /\ (FieldDue(1) \/ FieldDue(2)) /\ Available >= BytesPerPixel

ReadHextileColour ==
    /\ HextileColourReady
    /\ HextileStep
    /\ \/ /\ FieldDue(1)
          /\ tile' = [tile EXCEPT !.didRead = @ \cup {1}, !.background = mReceiveBuffer[1]]
       \/ /\ FieldDue(2)
          /\ tile' = [tile EXCEPT !.didRead = @ \cup {2}, !.foreground = mReceiveBuffer[1]]
    /\ Consume(BytesPerPixel)
    /\ UNCHANGED picture

HextileCountReady == InHextileTile /\ FieldDue(3) /\ Available >= 1

ReadHextileSubrectCount ==
    /\ HextileCountReady
    /\ HextileStep
    /\ tile' = [tile EXCEPT !.didRead = @ \cup {3}, !.subrects = Number(mReceiveBuffer[1])]
    /\ Consume(1)
    /\ UNCHANGED picture

HextileFieldsRead == tile.typeRead /\ \A i \in 1..3 : Announced(i) => i \in tile.didRead

HextileColourBytes == IF "SubrectsColoured" \in tile.type THEN BytesPerPixel ELSE 0

HextileTileBytes ==
    IF "Raw" \in tile.type THEN TilePixels(HextileSize) * BytesPerPixel
    ELSE tile.subrects * (2 + HextileColourBytes)

HextileTileReady == HextileFieldsRead /\ Len(tile.bytes) >= HextileTileBytes

HextileDataReady ==
    InHextileTile /\ HextileFieldsRead /\ ~HextileTileReady /\ Available > 0

ReadHextileTileData ==
    /\ HextileDataReady
    /\ HextileStep
    /\ tile' = [tile EXCEPT !.bytes = Collected(@, HextileTileBytes, mReceiveBuffer)]
    /\ Consume(Least(HextileTileBytes - Len(tile.bytes), Available))
    /\ UNCHANGED picture

(* A subrectangle: its colour if it has one, then two bytes of two *)
(* 4-bit numbers each.                                             *)
HextileSubrect(i) ==
    LET at == (i - 1) * (2 + HextileColourBytes) + HextileColourBytes
    IN  [colour |-> IF HextileColourBytes = 0 THEN tile.foreground ELSE tile.bytes[at - HextileColourBytes + 1],
         x |-> TileX(tile.index, rect.w, HextileSize) + tile.bytes[at + 1].x,
         y |-> TileY(tile.index, rect.w, HextileSize) + tile.bytes[at + 1].y,
         w |-> tile.bytes[at + 2].w + 1,
         h |-> tile.bytes[at + 2].h + 1]

HextileFails ==
    /\ HasTile(HextileSize)
    /\ \/ /\ tile.typeRead /\ "Raw" \notin tile.type
          /\ {"ForegroundSpecified", "SubrectsColoured"} \subseteq tile.type
          /\ \A i \in 1..2 : Announced(i) => i \in tile.didRead
       \/ /\ HextileTileReady /\ "Raw" \notin tile.type
          /\ \E i \in 1..tile.subrects : Exceeds(HextileSubrect(i), rect.w, rect.h)

(* The background fills the tile; the subrectangles are drawn over it. *)
HextileTile ==
    LET filled == fillSubrectInRect(picture,
                      TileX(tile.index, rect.w, HextileSize), TileY(tile.index, rect.w, HextileSize),
                      TileWidth(HextileSize), TileHeight(HextileSize), tile.background)
        Over(p) == {i \in 1..tile.subrects :
                        LET r == HextileSubrect(i)
                        IN  p[1] \in r.x..(r.x + r.w - 1) /\ p[2] \in r.y..(r.y + r.h - 1)}
    IN  [p \in DOMAIN picture |->
            IF Over(p) = {} THEN filled[p]
            ELSE HextileSubrect(CHOOSE i \in Over(p) : \A j \in Over(p) : j <= i).colour]

FinishHextileTile ==
    /\ InHextileTile /\ HextileTileReady
    /\ HextileStep
    /\ picture' = IF "Raw" \in tile.type THEN RawTile(HextileSize, BytesPerPixel) ELSE HextileTile
    /\ tile' = NextTile
    /\ UNCHANGED mReceiveBuffer

HextileFinished == ~HasTile(HextileSize)

-----------------------------------------------------------------------------
(* Cursor: pixels, then one bit per pixel in lines of whole bytes.  A byte *)
(* of the mask is the set of the columns it shows.                         *)

CursorBytes == rect.w * rect.h * BytesPerPixel
CursorMaskBytes == ((rect.w + 7) \div 8) * rect.h

CursorDataBytes == CursorBytes + CursorMaskBytes

CursorFinished == Len(data) >= CursorDataBytes

CursorReady == Reading({"Cursor"}) /\ ~CursorFinished /\ Available > 0

ReadCursor ==
    /\ CursorReady
    /\ data' = Collected(data, CursorDataBytes, mReceiveBuffer)
    /\ Consume(Least(CursorDataBytes - Len(data), Available))
    /\ UNCHANGED <<pc, rect, tile, picture, zlib>>

(* Of an empty cursor the parser has read everything before it starts,     *)
(* which it only expects of 0x0.                                           *)
CursorFails == CursorDataBytes = 0 /\ (rect.w # 0 \/ rect.h # 0)

(* The cursor the application may acquire; an empty one is not valid. *)
CursorPicture ==
    [hotspot |-> <<rect.x, rect.y>>,
     pixels |-> [p \in Area(rect.w, rect.h) |->
        [colour |-> PixelAt(data, p[2] * rect.w + p[1], BytesPerPixel),
         shown |-> p[1] \in data[CursorBytes + p[2] * ((rect.w + 7) \div 8) + p[1] \div 8 + 1]]]]

-----------------------------------------------------------------------------
(* The zlib stream of an encoding, which lives as long as the connection.  *)
(* A compressed byte says of which rectangle's data it is which part, and  *)
(* what becomes of it; zlib itself accepts the next byte of the stream it  *)
(* has begun and nothing else.                                             *)

NewStream == [nth |-> 0, part |-> 0, of |-> 0]

(* clear(): the stream stays. *)
clearZlibPlain(z) ==
    [stream |-> z.stream, hasHeader |-> FALSE, expected |-> 0, received |-> 0, out |-> <<>>]

NewZlibPlain == clearZlibPlain([stream |-> NewStream])

Compressed == {"Zlib", "ZRLE"}

Zlib == zlib[rect.encoding]

EmptyZrle == rect.encoding = "ZRLE" /\ (rect.w = 0 \/ rect.h = 0)

ReadingCompressed == Reading(Compressed) /\ ~EmptyZrle

ZlibHeaderReady == ReadingCompressed /\ ~Zlib.hasHeader /\ Available >= 4

ReadZlibHeader ==
    /\ ZlibHeaderReady
    /\ zlib' = [zlib EXCEPT ![rect.encoding].hasHeader = TRUE,
                            ![rect.encoding].expected = Number(mReceiveBuffer[1])]
    /\ Consume(4)
    /\ UNCHANGED <<pc, rect, data, tile, picture>>

hasAllCompressedData == Zlib.hasHeader /\ Zlib.received >= Zlib.expected

(* What readRectData() takes of the bytes available. *)
CompressedAvailable == SubSeq(mReceiveBuffer, 1, Least(Zlib.expected - Zlib.received, Available))

(* Does a compressed byte continue the stream behind another? *)
Continues(byte, last) ==
    IF last.part < last.of THEN byte.nth = last.nth /\ byte.part = last.part + 1
    ELSE byte.nth = last.nth + 1 /\ byte.part = 1

InStream(bytes) ==
    \A i \in 1..Len(bytes) : Continues(bytes[i], IF i = 1 THEN Zlib.stream ELSE bytes[i - 1])

PlainBytes(bytes) == FlattenSeq([i \in 1..Len(bytes) |-> bytes[i].plain])

(* uncompressTo() takes all that was received. *)
uncompressTo(z, bytes) ==
    LET last == bytes[Len(bytes)]
    IN  [z EXCEPT !.stream = [nth |-> last.nth, part |-> last.part, of |-> last.of],
                  !.received = @ + Len(bytes),
                  !.out = @ \o PlainBytes(bytes)]

CompressedReady == ReadingCompressed /\ Zlib.hasHeader /\ CompressedAvailable # <<>>

ReadCompressed ==
    /\ CompressedReady
    /\ zlib' = [zlib EXCEPT ![rect.encoding] = uncompressTo(@, CompressedAvailable)]
    /\ tile' = [tile EXCEPT !.torn = tile.bytes # <<>>]
    /\ Consume(Len(CompressedAvailable))
    /\ UNCHANGED <<pc, rect, data, picture>>

ZlibFails ==
    /\ Zlib.hasHeader
    /\ \/ Zlib.expected > MaxCompressedSize
       \/ ~EmptyZrle /\ ~InStream(CompressedAvailable)
       \/ rect.encoding = "Zlib" /\ hasAllCompressedData /\ Len(Zlib.out) # RectBytes
       \/ rect.encoding = "Zlib" /\ RectBytes = 0

(* All the data is there: it is given to the Raw parser. *)
ZlibFinished == hasAllCompressedData

ZlibPicture ==
    [p \in Area(rect.w, rect.h) |-> PixelAt(Zlib.out, p[2] * rect.w + p[1], BytesPerPixel)]

-----------------------------------------------------------------------------
(* ZRLE: tiles in the uncompressed data. *)

Out == Zlib.out

(* The tile's parser goes on behind the bytes it has read. *)
Skip(n) == zlib' = [zlib EXCEPT !["ZRLE"].out = SubSeq(@, n + 1, Len(@))]

InZrleTile == Reading({"ZRLE"}) /\ HasTile(ZrleSize)

ZrleStep == InZrleTile /\ Out # <<>> /\ UNCHANGED <<pc, rect, data, mReceiveBuffer>>

ReadZrleType ==
    /\ ZrleStep
    /\ ~tile.typeRead
    /\ tile' = [tile EXCEPT !.typeRead = TRUE, !.type = Out[1]]
    /\ Skip(1)
    /\ UNCHANGED picture

ZrleType(kinds) == tile.typeRead /\ tile.type.kind \in kinds

(* Palette indexes of 1, 2 or 4 bits, in lines of whole bytes. *)
IndexesPerByte == IF tile.type.palette = 2 THEN 8 ELSE IF tile.type.palette <= 4 THEN 4 ELSE 2

PackedRowBytes == (TileWidth(ZrleSize) + IndexesPerByte - 1) \div IndexesPerByte

PaletteBytes == tile.type.palette * ZrleBytesPerPixel

(* What is collected in mCurrentTileDataBuffer. *)
ZrleTileBytes ==
    CASE tile.type.kind = "Raw" -> TilePixels(ZrleSize) * ZrleBytesPerPixel
      [] tile.type.kind = "Packed" -> PaletteBytes + PackedRowBytes * TileHeight(ZrleSize)
      [] tile.type.kind = "PaletteRLE" -> PaletteBytes

ZrleBytesRead == Len(tile.bytes) >= ZrleTileBytes

ReadZrleTileData ==
    /\ ZrleStep
    /\ ZrleType({"Raw", "Packed", "PaletteRLE"}) /\ ~ZrleBytesRead
    /\ tile' = [tile EXCEPT !.bytes = Collected(@, ZrleTileBytes, Out)]
    /\ Skip(Least(ZrleTileBytes - Len(tile.bytes), Len(Out)))
    /\ UNCHANGED picture

ZrleTileReady == ZrleType({"Raw", "Packed"}) /\ ZrleBytesRead

(* A byte of packed indexes is the sequence of the indexes. *)
PackedIndex(k) ==
    LET x == k % TileWidth(ZrleSize)
        y == k \div TileWidth(ZrleSize)
    IN  tile.bytes[PaletteBytes + y * PackedRowBytes + x \div IndexesPerByte + 1]
            [(x % IndexesPerByte) + 1]

(* The palette and the indexes are looked for at the beginning of the data *)
(* of the last call: right, if that call delivered the whole tile.         *)
PackedColours ==
    [k \in 0..(TilePixels(ZrleSize) - 1) |->
        IF tile.torn THEN Undefined ELSE PixelAt(tile.bytes, PackedIndex(k), ZrleBytesPerPixel)]

BadPackedIndex ==
    /\ ZrleTileReady /\ tile.type.kind = "Packed"
    /\ ~tile.torn
    /\ \E k \in 0..(TilePixels(ZrleSize) - 1) : PackedIndex(k) >= tile.type.palette

(* Of a tile that came in several parts, any indexes may be found. *)
PackedMayFail == InZrleTile /\ ZrleTileReady /\ tile.type.kind = "Packed" /\ tile.torn

FinishZrleTile ==
    /\ InZrleTile /\ ZrleTileReady
    /\ picture' = IF tile.type.kind = "Raw" THEN RawTile(ZrleSize, ZrleBytesPerPixel)
                  ELSE WriteTile(picture, tile.index, rect.w, rect.h, ZrleSize, PackedColours)
    /\ tile' = NextTile
    /\ UNCHANGED <<pc, rect, data, zlib, mReceiveBuffer>>

ReadSolidTile ==
    /\ ZrleStep
    /\ ZrleType({"Solid"})
    /\ Len(Out) >= ZrleBytesPerPixel
    /\ picture' = WriteTile(picture, tile.index, rect.w, rect.h, ZrleSize,
                            [k \in 0..(TilePixels(ZrleSize) - 1) |-> Out[1]])
    /\ tile' = NextTile
    /\ Skip(ZrleBytesPerPixel)

(* The bytes of the run length that begins at a byte of the data, 0 if its *)
(* end has not arrived.                                                    *)
RunLengthBytes(from) ==
    LET ends == {i \in from..Len(Out) :
                    (\A j \in from..(i - 1) : Out[j] = [run |-> RunByte]) /\ Out[i] # [run |-> RunByte]}
    IN  IF ends = {} THEN 0 ELSE (CHOOSE i \in ends : TRUE) - from + 1

(* readRunLength() *)
RunLength(from) ==
    LET bytes == RunLengthBytes(from)
        length == (bytes - 1) * RunByte + Out[from + bytes - 1].run + 1
    IN  IF bytes = 0 \/ length > ZrleSize * ZrleSize THEN 0 ELSE length

(* The next run: its colour (an index, in a palette), its length (0: it has *)
(* not arrived), and the bytes it takes.                                   *)
NextRun ==
    IF tile.type.kind = "PlainRLE"
    THEN [length |-> IF Len(Out) <= ZrleBytesPerPixel THEN 0 ELSE RunLength(ZrleBytesPerPixel + 1),
          bytes |-> ZrleBytesPerPixel + RunLengthBytes(ZrleBytesPerPixel + 1)]
    ELSE IF Out[1].run
    THEN [length |-> IF Len(Out) = 1 THEN 0 ELSE RunLength(2), bytes |-> 1 + RunLengthBytes(2)]
    ELSE [length |-> 1, bytes |-> 1]

InRuns ==
    \/ ZrleType({"PlainRLE"})
    \/ ZrleType({"PaletteRLE"}) /\ ZrleBytesRead

RunColour ==
    IF tile.type.kind = "PlainRLE" THEN Out[1]
    ELSE PixelAt(tile.bytes, Out[1].index, ZrleBytesPerPixel)

(* writeRunLengthColorToCurrentRect() *)
WriteRun(length) ==
    LET x == TileX(tile.index, rect.w, ZrleSize)
        y == TileY(tile.index, rect.w, ZrleSize)
    IN  [p \in DOMAIN picture |->
            IF /\ p[1] \in x..(x + TileWidth(ZrleSize) - 1)
               /\ p[2] >= y
               /\ (p[2] - y) * TileWidth(ZrleSize) + p[1] - x
                    \in tile.pixelsDone..(tile.pixelsDone + length - 1)
            THEN RunColour ELSE picture[p]]

ReadRun ==
    /\ ZrleStep
    /\ InRuns
    /\ NextRun.length > 0
    /\ picture' = WriteRun(NextRun.length)
    /\ tile' = IF tile.pixelsDone + NextRun.length = TilePixels(ZrleSize) THEN NextTile
               ELSE [tile EXCEPT !.pixelsDone = @ + NextRun.length]
    /\ Skip(NextRun.bytes)

(* The tile's parser can go on. *)
ZrleGoesOn ==
    \/ ~tile.typeRead
    \/ ZrleType({"Raw", "Packed"})
    \/ ZrleType({"PaletteRLE"}) /\ ~ZrleBytesRead
    \/ ZrleType({"Solid"}) /\ Len(Out) >= ZrleBytesPerPixel
    \/ InRuns /\ NextRun.length > 0

ZrleReady == InZrleTile /\ (ZrleTileReady \/ (Out # <<>> /\ ZrleGoesOn))

ZrleFails ==
    /\ rect.encoding = "ZRLE"
    /\ HasTile(ZrleSize)
    /\ \/ BadPackedIndex
       \/ Out # <<>> /\ ZrleType({"Invalid"})
       \/ Out # <<>> /\ ZrleType({"PaletteRLE"}) /\ InRuns /\ Out[1].index >= tile.type.palette
       \/ /\ Out # <<>> /\ InRuns /\ NextRun.length > 0
          /\ tile.pixelsDone + NextRun.length > TilePixels(ZrleSize)
       \/ Out # <<>> /\ hasAllCompressedData /\ ~ZrleGoesOn

(* A rectangle without pixels: what is there counts as received, but       *)
(* readRectData() returns 0, and every byte stays in the buffer.  The next *)
(* call finds the same bytes again.                                        *)
EmptyZrleReady ==
    /\ Reading({"ZRLE"}) /\ EmptyZrle
    /\ tile.calls > 0 /\ ~hasAllCompressedData
    /\ Zlib.hasHeader \/ Available >= 4

ReadEmptyZrle ==
    /\ EmptyZrleReady
    /\ LET expected == IF Zlib.hasHeader THEN Zlib.expected ELSE Number(mReceiveBuffer[1])
           received == IF Zlib.hasHeader THEN Zlib.received + Available ELSE Available - 4
       IN  zlib' = [zlib EXCEPT !["ZRLE"] =
                       [@ EXCEPT !.hasHeader = TRUE, !.expected = expected,
                                 !.received = Least(received, expected)]]
    /\ tile' = [tile EXCEPT !.calls = @ - 1]
    /\ UNCHANGED <<pc, rect, data, picture, mReceiveBuffer>>

(* Whatever tiles the data held. *)
ZrleFinished ==
    /\ hasAllCompressedData
    /\ ~HasTile(ZrleSize) \/ (Out = <<>> /\ ~ZrleTileReady)
=============================================================================
