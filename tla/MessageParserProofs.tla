-------------------------- MODULE MessageParserProofs --------------------------
(***************************************************************************)
(* The parsers leave less than a field in the receive buffer, but of a     *)
(* rectangle without pixels: ParserInv is an invariant, wherever the bytes *)
(* are cut, until the parsers lose step.  None takes bytes of what follows *)
(* its part (OwnBytesOnly), and the tiles of a rectangle partition it.     *)
(***************************************************************************)
EXTENDS MessageParser, SequenceTheorems, TLAPS

(* Sequences, of whatever: the bytes in the buffer and on the wire. *)
LEMMA SequenceOf ==
    ASSUME NEW s, IsSequence(s)
    PROVE  \E S : s \in Seq(S)
  <1>1. PICK n \in Nat : n = Len(s)
    BY DEF IsSequence
  <1>2. PICK S : S = {s[i] : i \in 1..n}
    OBVIOUS
  <1>3. s = [i \in 1..n |-> s[i]]
    BY <1>1 DEF IsSequence
  <1>4. \A i \in 1..n : s[i] \in S
    BY <1>2
  <1>5. [i \in 1..n |-> s[i]] \in Seq(S)
    BY <1>4, IsASeq
  <1> QED  BY <1>3, <1>5

LEMMA SequenceIs ==
    ASSUME NEW S, NEW s \in Seq(S)
    PROVE  IsSequence(s)
  BY DEF IsSequence

LEMMA Part ==
    ASSUME NEW s, IsSequence(s), NEW m \in Nat, m <= Len(s)
    PROVE  /\ IsSequence(SubSeq(s, 1, m)) /\ Len(SubSeq(s, 1, m)) = m
           /\ IsSequence(SubSeq(s, m + 1, Len(s))) /\ Len(SubSeq(s, m + 1, Len(s))) = Len(s) - m
  <1>1. PICK S : s \in Seq(S)
    BY SequenceOf
  <1>2. Len(s) \in Nat
    BY <1>1
  <1>3. SubSeq(s, 1, m) \in Seq(S) /\ Len(SubSeq(s, 1, m)) = m
    BY <1>1, <1>2
  <1>4. SubSeq(s, m + 1, Len(s)) \in Seq(S) /\ Len(SubSeq(s, m + 1, Len(s))) = Len(s) - m
    BY <1>1, <1>2
  <1> QED  BY <1>3, <1>4, SequenceIs

LEMMA Joined ==
    ASSUME NEW s, IsSequence(s), NEW t, IsSequence(t)
    PROVE  IsSequence(s \o t) /\ Len(s \o t) = Len(s) + Len(t)
  <1>1. PICK S : s \in Seq(S)
    BY SequenceOf
  <1>2. PICK T : t \in Seq(T)
    BY SequenceOf
  <1>3. PICK U : U = S \cup T
    OBVIOUS
  <1>4. s \in Seq(U)
    BY <1>1, <1>3
  <1>5. t \in Seq(U)
    BY <1>2, <1>3
  <1>6. s \o t \in Seq(U) /\ Len(s \o t) = Len(s) + Len(t)
    BY <1>4, <1>5, ConcatProperties
  <1> QED  BY <1>6, SequenceIs

LEMMA Numbers == \A byte : Number(byte) \in Nat
  BY DEF Number

(* A parser takes bytes from the front of the buffer. *)
LEMMA Consumed ==
    ASSUME IsSequence(mReceiveBuffer), NEW n \in Nat, n <= Available, Consume(n)
    PROVE  IsSequence(mReceiveBuffer') /\ Available' = Available - n
  BY Part DEF Consume, Available

-----------------------------------------------------------------------------
(* The parsers of rectangles *)

(* What a step of a parser of rectangles leaves as it has to be. *)
Kept ==
    /\ RectInv' /\ ZlibInv'
    /\ rect' = rect /\ pc' = pc
    /\ DOMAIN picture' = DOMAIN picture
    /\ IsSequence(mReceiveBuffer') /\ Available' <= Available

LEMMA Naturals ==
    \A m, n \in Nat : m + n \in Nat /\ m * n \in Nat /\ (n # 0 => m \div n \in Nat /\ m % n \in Nat)
  OBVIOUS

LEMMA Limits ==
    /\ BytesPerPixel \in Nat \ {0} /\ HextileSize \in Nat \ {0} /\ ZrleSize \in Nat \ {0}
    /\ TileIndices \in Nat \ {0}
    /\ Width \in Nat /\ Height \in Nat /\ MaxReceiveBufferSize \in Nat /\ MaxCutTextSize \in Nat
    /\ 12 <= MaxReceiveBufferSize /\ BytesPerPixel + 8 <= MaxReceiveBufferSize
  BY SizesAssumption, LimitsAssumption, BufferAssumption

(* So many bytes of a rectangle are expected. *)
LEMMA BytesExpected ==
    ASSUME RectInv
    PROVE  /\ RectBytes \in Nat /\ CursorDataBytes \in Nat
           /\ HextileTileBytes \in Nat
  <1>1. rect.w \in Nat /\ rect.h \in Nat /\ BytesPerPixel \in Nat
    BY Limits DEF RectInv
  <1>2. rect.w * rect.h \in Nat
    BY <1>1, Naturals
  <1>3. RectBytes \in Nat /\ CursorBytes \in Nat
    BY <1>1, <1>2, Naturals DEF RectBytes, CursorBytes
  <1>4. (rect.w + 7) \div 8 \in Nat
    BY <1>1
  <1>5. CursorMaskBytes \in Nat
    BY <1>1, <1>4, Naturals DEF CursorMaskBytes
  <1>6. TileWidth(HextileSize) \in Nat
    BY <1>1, Limits, Naturals DEF TileWidth, calculateTileWidth
  <1>7. TileHeight(HextileSize) \in Nat
    <2>1. rect.h % HextileSize \in Nat /\ HextileSize \in Nat
      BY <1>1, Limits, Naturals
    <2>2. TileHeight(HextileSize) \in {rect.h % HextileSize, HextileSize}
      BY DEF TileHeight, calculateTileHeight
    <2> QED  BY <2>1, <2>2
  <1>8. TilePixels(HextileSize) * BytesPerPixel \in Nat
    BY <1>1, <1>6, <1>7, Naturals DEF TilePixels
  <1>9. 2 + HextileColourBytes \in Nat
    BY <1>1 DEF HextileColourBytes
  <1>10. HextileTileBytes \in Nat
    BY <1>8, <1>9, Naturals DEF HextileTileBytes, RectInv
  <1> QED  BY <1>3, <1>5, <1>10, Naturals DEF CursorDataBytes

(* Bytes are collected up to a number that is expected. *)
LEMMA CollectedIs ==
    ASSUME NEW bytes, IsSequence(bytes), IsSequence(mReceiveBuffer), NEW expected \in Nat,
           ~(Len(bytes) >= expected), Available > 0,
           Consume(Least(expected - Len(bytes), Available))
    PROVE  /\ IsSequence(Collected(bytes, expected, mReceiveBuffer))
           /\ IsSequence(mReceiveBuffer') /\ Available' <= Available
  <1>1. PICK n : n = Least(expected - Len(bytes), Available)
    OBVIOUS
  <1>2. Len(bytes) \in Nat /\ Available \in Nat
    BY DEF IsSequence, Available
  <1>3. n \in Nat /\ n <= Available
    BY <1>1, <1>2 DEF Least
  <1>4. IsSequence(mReceiveBuffer') /\ Available' <= Available
    BY <1>1, <1>2, <1>3, Consumed
  <1>5. Collected(bytes, expected, mReceiveBuffer) = bytes \o SubSeq(mReceiveBuffer, 1, n)
    BY <1>1 DEF Collected, Available
  <1>6. IsSequence(SubSeq(mReceiveBuffer, 1, n))
    BY <1>3, Part DEF Available
  <1> QED  BY <1>4, <1>5, <1>6, Joined

(* The parsers of the encodings, step by step. *)
LEMMA RawKeeps ==
    ASSUME RectInv, ZlibInv, RoomInv, ReadRaw
    PROVE  Kept
  <1>1. rect.encoding = "Raw" /\ UNCHANGED <<pc, rect, tile, picture, zlib>>
    BY DEF ReadRaw, RawReady, Reading
  <1>2. IsSequence(data') /\ IsSequence(mReceiveBuffer') /\ Available' <= Available
    BY <1>1, BytesExpected, CollectedIs DEF ReadRaw, RawReady, RawFinished, RectInv, RoomInv
  <1> QED  BY <1>1, <1>2 DEF Kept, RectInv, ZlibInv

LEMMA CursorKeeps ==
    ASSUME RectInv, ZlibInv, RoomInv, ReadCursor
    PROVE  Kept
  <1>1. rect.encoding = "Cursor" /\ UNCHANGED <<pc, rect, tile, picture, zlib>>
    BY DEF ReadCursor, CursorReady, Reading
  <1>2. IsSequence(data') /\ IsSequence(mReceiveBuffer') /\ Available' <= Available
    BY <1>1, BytesExpected, CollectedIs DEF ReadCursor, CursorReady, CursorFinished, RectInv, RoomInv
  <1> QED  BY <1>1, <1>2 DEF Kept, RectInv, ZlibInv

LEMMA FieldKeeps ==
    ASSUME RectInv, ZlibInv, RoomInv, ReadCopyRect \/ ReadRREHeader \/ ReadRRESubrect
    PROVE  Kept
  <1>1. /\ rect.encoding \in {"CopyRect", "RRE", "CoRRE"}
        /\ UNCHANGED <<pc, rect, tile, picture, zlib>>
    BY DEF ReadCopyRect, ReadRREHeader, ReadRRESubrect, CopyRectReady, RREHeaderReady, SubrectReady, Reading
  <1>2. RRESubrectBytes \in Nat /\ 4 + BytesPerPixel \in Nat /\ 4 \in Nat
    BY Limits DEF RRESubrectBytes, CoordinateBytes
  <1>3. PICK n \in Nat : n <= Available /\ Consume(n)
    BY <1>2 DEF ReadCopyRect, ReadRREHeader, ReadRRESubrect, CopyRectReady, RREHeaderReady,
                SubrectReady, SubrectAvailable
  <1>4. IsSequence(mReceiveBuffer') /\ Available' <= Available
    BY <1>3, Consumed DEF RoomInv, IsSequence, Available
  <1> QED  BY <1>1, <1>4 DEF Kept, RectInv, ZlibInv

LEMMA TileFields ==
    /\ DOMAIN NoTile = {"index", "typeRead", "type", "didRead", "subrects", "bytes",
                        "background", "foreground", "pixelsDone", "torn", "calls"}
    /\ NoTile.index = 0 /\ NoTile.subrects = 0 /\ NoTile.bytes = <<>>
  BY DEF NoTile

LEMMA NextTileIs ==
    ASSUME RectInv
    PROVE  /\ DOMAIN NextTile = DOMAIN NoTile
           /\ NextTile.index \in 0..(TileIndices - 1) /\ NextTile.subrects \in Nat
           /\ IsSequence(NextTile.bytes)
  <1>1. tile.index + 1 \in Nat /\ TileIndices \in Nat \ {0}
    BY Limits DEF RectInv
  <1>2. (tile.index + 1) % TileIndices \in 0..(TileIndices - 1)
    BY <1>1
  <1>3. DOMAIN NextTile = DOMAIN NoTile /\ NextTile.index = (tile.index + 1) % TileIndices
    BY TileFields DEF NextTile
  <1>4. NextTile.subrects = 0 /\ NextTile.bytes = <<>>
    BY TileFields DEF NextTile
  <1> QED  BY <1>2, <1>3, <1>4 DEF IsSequence

LEMMA HextileFieldKeeps ==
    ASSUME RectInv, ZlibInv, RoomInv,
           ReadHextileMask \/ ReadHextileColour \/ ReadHextileSubrectCount
    PROVE  Kept
  <1>1. rect.encoding = "Hextile" /\ UNCHANGED <<pc, rect, data, picture, zlib>>
    BY DEF ReadHextileMask, ReadHextileColour, ReadHextileSubrectCount, HextileMaskReady,
           HextileColourReady, HextileCountReady, InHextileTile, HextileStep, Reading
  <1>2. PICK n \in Nat : n <= Available /\ Consume(n)
    BY Limits DEF ReadHextileMask, ReadHextileColour, ReadHextileSubrectCount, HextileMaskReady,
                  HextileColourReady, HextileCountReady
  <1>3. IsSequence(mReceiveBuffer') /\ Available' <= Available
    BY <1>2, Consumed DEF RoomInv, IsSequence, Available
  <1>4. /\ DOMAIN tile' = DOMAIN tile /\ tile'.index = tile.index /\ tile'.bytes = tile.bytes
        /\ tile'.subrects \in Nat
    <2>1. DOMAIN tile = DOMAIN NoTile /\ tile.subrects \in Nat
      BY DEF RectInv
    <2>2. CASE ReadHextileMask
      BY <2>1, <2>2, TileFields DEF ReadHextileMask
    <2>3. CASE ReadHextileColour
      BY <2>1, <2>3, TileFields DEF ReadHextileColour
    <2>4. CASE ReadHextileSubrectCount
      BY <2>1, <2>4, TileFields, Numbers DEF ReadHextileSubrectCount
    <2> QED  BY <2>2, <2>3, <2>4
  <1> QED  BY <1>1, <1>3, <1>4 DEF Kept, RectInv, ZlibInv

LEMMA HextileDataKeeps ==
    ASSUME RectInv, ZlibInv, RoomInv, ReadHextileTileData
    PROVE  Kept
  <1>1. rect.encoding = "Hextile" /\ UNCHANGED <<pc, rect, data, picture, zlib>>
    BY DEF ReadHextileTileData, HextileDataReady, InHextileTile, HextileStep, Reading
  <1> DEFINE bytes == tile.bytes
  <1>2. PICK n \in Nat : n = HextileTileBytes
    BY BytesExpected
  <1>3. ~(Len(bytes) >= n) /\ Available > 0 /\ IsSequence(bytes)
    BY <1>1, <1>2 DEF ReadHextileTileData, HextileDataReady, HextileTileReady, RectInv
  <1>4. Consume(Least(n - Len(bytes), Available))
    BY <1>2 DEF ReadHextileTileData
  <1>5. /\ IsSequence(Collected(bytes, n, mReceiveBuffer))
        /\ IsSequence(mReceiveBuffer') /\ Available' <= Available
    BY <1>3, <1>4, CollectedIs DEF RoomInv
  <1>6. /\ DOMAIN tile' = DOMAIN tile /\ tile'.index = tile.index /\ tile'.subrects = tile.subrects
        /\ tile'.bytes = Collected(bytes, n, mReceiveBuffer)
    BY <1>2, TileFields DEF ReadHextileTileData, RectInv
  <1> QED  BY <1>1, <1>5, <1>6 DEF Kept, RectInv, ZlibInv

LEMMA HextileTileKeeps ==
    ASSUME RectInv, ZlibInv, RoomInv, FinishHextileTile
    PROVE  Kept
  <1>1. /\ rect.encoding = "Hextile" /\ UNCHANGED <<pc, rect, data, zlib, mReceiveBuffer>>
        /\ tile' = NextTile
    BY DEF FinishHextileTile, InHextileTile, HextileStep, Reading
  <1>2. DOMAIN picture' = DOMAIN picture
    BY DEF FinishHextileTile, RawTile, WriteTile, HextileTile
  <1>3. RectInv'
    BY <1>1, NextTileIs DEF RectInv
  <1> QED  BY <1>1, <1>2, <1>3 DEF Kept, ZlibInv, RoomInv, Available, IsSequence

-----------------------------------------------------------------------------
(* zlib and ZRLE *)

LEMMA ZlibFields ==
    ASSUME NEW z
    PROVE  /\ DOMAIN NewZlibPlain = {"stream", "hasHeader", "expected", "received", "out"}
           /\ DOMAIN clearZlibPlain(z) = DOMAIN NewZlibPlain
           /\ clearZlibPlain(z).expected = 0 /\ clearZlibPlain(z).received = 0
  BY DEF NewZlibPlain, clearZlibPlain

LEMMA ZlibHeaderKeeps ==
    ASSUME RectInv, ZlibInv, RoomInv, ReadZlibHeader
    PROVE  Kept
  <1>1. rect.encoding \in Compressed /\ UNCHANGED <<pc, rect, data, tile, picture>>
    BY DEF ReadZlibHeader, ZlibHeaderReady, ReadingCompressed, Reading
  <1>2. IsSequence(mReceiveBuffer') /\ Available' <= Available
    BY Consumed DEF ReadZlibHeader, ZlibHeaderReady, RoomInv, IsSequence, Available
  <1>3. PICK n \in Nat :
            zlib' = [zlib EXCEPT ![rect.encoding].hasHeader = TRUE, ![rect.encoding].expected = n]
    BY Numbers DEF ReadZlibHeader
  <1>4. ZlibInv'
    BY <1>1, <1>3, ZlibFields DEF ZlibInv
  <1> QED  BY <1>1, <1>2, <1>4 DEF Kept, RectInv

LEMMA CompressedKeeps ==
    ASSUME RectInv, ZlibInv, RoomInv, ReadCompressed
    PROVE  Kept
  <1>1. /\ rect.encoding \in Compressed /\ UNCHANGED <<pc, rect, data, picture>>
        /\ CompressedAvailable # <<>>
    BY DEF ReadCompressed, CompressedReady, ReadingCompressed, Reading
  <1>2. PICK n \in Int : n = Least(Zlib.expected - Zlib.received, Available)
    BY <1>1 DEF Least, Zlib, ZlibInv, RoomInv, IsSequence, Available
  <1>3. CompressedAvailable = SubSeq(mReceiveBuffer, 1, n)
    BY <1>2 DEF CompressedAvailable
  <1>4. n > 0
    BY <1>1, <1>2, <1>3
  <1>5. n \in Nat /\ n <= Available
    BY <1>1, <1>2, <1>4 DEF Least, Zlib, ZlibInv, RoomInv, IsSequence, Available
  <1>6. Len(CompressedAvailable) = n
    BY <1>3, <1>5, Part DEF RoomInv, Available
  <1>7. IsSequence(mReceiveBuffer') /\ Available' <= Available
    BY <1>5, <1>6, Consumed DEF ReadCompressed, RoomInv, IsSequence, Available
  <1>9. ZlibInv'
    <2> DEFINE z == uncompressTo(Zlib, CompressedAvailable)
    <2>1. zlib' = [zlib EXCEPT ![rect.encoding] = z]
      BY <1>1 DEF ReadCompressed, Zlib, ZlibInv
    <2>2. DOMAIN Zlib = DOMAIN NewZlibPlain /\ Zlib.expected \in Nat /\ Zlib.received \in Nat
      BY <1>1 DEF Zlib, ZlibInv
    <2>3. DOMAIN z = DOMAIN NewZlibPlain /\ z.expected = Zlib.expected /\ z.received = Zlib.received + n
      BY <1>6, <2>2, ZlibFields DEF uncompressTo
    <2>4. z.received \in Nat
      BY <1>5, <2>2, <2>3
    <2> HIDE DEF z
    <2> QED  BY <1>1, <2>1, <2>2, <2>3, <2>4 DEF ZlibInv
  <1>10. DOMAIN tile' = DOMAIN tile /\ tile'.index = tile.index /\ tile'.subrects = tile.subrects
    BY TileFields DEF ReadCompressed, RectInv
  <1>11. RectInv'
    BY <1>1, <1>10 DEF RectInv, Compressed
  <1> QED  BY <1>1, <1>7, <1>9, <1>11 DEF Kept

(* The parser of tiles leaves the buffer alone. *)
LEMMA ZrleKeeps ==
    ASSUME RectInv, ZlibInv, RoomInv,
           \/ ReadZrleType \/ ReadZrleTileData \/ FinishZrleTile \/ ReadSolidTile \/ ReadRun
    PROVE  Kept
  <1>1. rect.encoding = "ZRLE" /\ UNCHANGED <<pc, rect, data, mReceiveBuffer>>
    BY DEF ReadZrleType, ReadZrleTileData, FinishZrleTile, ReadSolidTile, ReadRun, ZrleStep,
           InZrleTile, Reading
  <1>2. ZlibInv'
    <2>1. CASE UNCHANGED zlib
      BY <2>1 DEF ZlibInv
    <2>2. ASSUME NEW out, zlib' = [zlib EXCEPT !["ZRLE"].out = out]  PROVE ZlibInv'
      BY <2>2, ZlibFields DEF ZlibInv, Compressed
    <2>3. UNCHANGED zlib \/ \E out : zlib' = [zlib EXCEPT !["ZRLE"].out = out]
      BY DEF ReadZrleType, ReadZrleTileData, FinishZrleTile, ReadSolidTile, ReadRun, Skip
    <2> QED  BY <2>1, <2>2, <2>3
  <1>3. DOMAIN picture' = DOMAIN picture
    BY DEF ReadZrleType, ReadZrleTileData, FinishZrleTile, ReadSolidTile, ReadRun, RawTile,
           WriteTile, WriteRun
  <1>4. /\ DOMAIN tile' = DOMAIN NoTile
        /\ tile'.index \in 0..(TileIndices - 1) /\ tile'.subrects \in Nat
    <2>1. CASE tile' = NextTile
      BY <2>1, NextTileIs
    <2>2. ASSUME NEW typeRead, NEW type, NEW bytes, NEW done,
                 \/ tile' = [tile EXCEPT !.typeRead = typeRead, !.type = type]
                 \/ tile' = [tile EXCEPT !.bytes = bytes]
                 \/ tile' = [tile EXCEPT !.pixelsDone = done]
          PROVE  DOMAIN tile' = DOMAIN tile /\ tile'.index = tile.index /\ tile'.subrects = tile.subrects
      BY <2>2, TileFields DEF RectInv
    <2>3. \/ tile' = NextTile
          \/ \E typeRead, type : tile' = [tile EXCEPT !.typeRead = typeRead, !.type = type]
          \/ \E bytes : tile' = [tile EXCEPT !.bytes = bytes]
          \/ \E done : tile' = [tile EXCEPT !.pixelsDone = done]
      BY DEF ReadZrleType, ReadZrleTileData, FinishZrleTile, ReadSolidTile, ReadRun
    <2> QED  BY <2>1, <2>2, <2>3 DEF RectInv
  <1>5. RectInv'
    BY <1>1, <1>4 DEF RectInv
  <1> QED  BY <1>1, <1>2, <1>3, <1>5 DEF Kept, RoomInv, IsSequence, Available

(* Of a rectangle without pixels nothing is consumed. *)
LEMMA EmptyZrleKeeps ==
    ASSUME RectInv, ZlibInv, RoomInv, ReadEmptyZrle
    PROVE  Kept
  <1>1. rect.encoding = "ZRLE" /\ UNCHANGED <<pc, rect, data, picture, mReceiveBuffer>>
    BY DEF ReadEmptyZrle, EmptyZrleReady, Reading
  <1>2. /\ DOMAIN zlib = Compressed /\ "ZRLE" \in Compressed
        /\ DOMAIN zlib["ZRLE"] = DOMAIN NewZlibPlain /\ Zlib = zlib["ZRLE"]
        /\ zlib["ZRLE"].expected \in Nat /\ zlib["ZRLE"].received \in Nat
    BY <1>1 DEF ZlibInv, Zlib, Compressed
  <1>3. Available \in Nat /\ (Zlib.hasHeader \/ Available >= 4)
    BY DEF ReadEmptyZrle, EmptyZrleReady, RoomInv, IsSequence, Available
  <1>4. PICK expected \in Nat :
            expected = IF Zlib.hasHeader THEN Zlib.expected ELSE Number(mReceiveBuffer[1])
    BY <1>2, Numbers
  <1>5. PICK received \in Nat :
            received = IF Zlib.hasHeader THEN Zlib.received + Available ELSE Available - 4
    BY <1>2, <1>3
  <1>6. PICK n \in Nat : n = Least(received, expected)
    BY DEF Least
  <1>7. zlib' = [zlib EXCEPT !["ZRLE"] =
                    [@ EXCEPT !.hasHeader = TRUE, !.expected = expected, !.received = n]]
    BY <1>4, <1>5, <1>6 DEF ReadEmptyZrle
  <1>8. ZlibInv'
    BY <1>2, <1>7, ZlibFields DEF ZlibInv
  <1>9. DOMAIN tile' = DOMAIN tile /\ tile'.index = tile.index /\ tile'.subrects = tile.subrects
    BY TileFields DEF ReadEmptyZrle, RectInv
  <1>10. RectInv'
    BY <1>1, <1>9 DEF RectInv
  <1> QED  BY <1>1, <1>3, <1>8, <1>10 DEF Kept, RoomInv, Available

(* A step of whichever parser reads the rectangle. *)
LEMMA RectDataKeeps ==
    ASSUME RectInv, ZlibInv, RoomInv, ReadRectData
    PROVE  Kept
  BY RawKeeps, CursorKeeps, FieldKeeps, HextileFieldKeeps, HextileDataKeeps, HextileTileKeeps,
     ZlibHeaderKeeps, CompressedKeeps, ZrleKeeps, EmptyZrleKeeps DEF ReadRectData

-----------------------------------------------------------------------------
(* A parser that waits has less than a field of the longest kind. *)

Short == Available < 12 \/ Available < BytesPerPixel + 8

LEMMA Counted ==
    ASSUME RoomInv
    PROVE  Available \in Nat /\ (mReceiveBuffer = <<>> => Available = 0)
  BY DEF RoomInv, IsSequence, Available

(* A parser that waits lacks a byte of a field: of each encoding. *)
LEMMA RREIsShort ==
    ASSUME RoomInv, pc = "messages", rect.encoding \in {"RRE", "CoRRE"}, ~RREFinished, ~RectDataReady
    PROVE  Short
  <1>1. ~RREHeaderReady /\ ~SubrectReady
    BY DEF RectDataReady
  <1>2. CASE data = <<>>
    BY <1>1, <1>2, Counted, Limits DEF RREHeaderReady, Reading, Short
  <1>3. CASE data # <<>>
    <2>1. ~(Available >= RRESubrectBytes)
      BY <1>1, <1>3 DEF SubrectReady, SubrectAvailable, Reading
    <2>2. RRESubrectBytes \in Nat /\ RRESubrectBytes <= BytesPerPixel + 8
      BY Limits DEF RRESubrectBytes, CoordinateBytes
    <2> QED  BY <2>1, <2>2, Counted, Limits DEF Short
  <1> QED  BY <1>2, <1>3

(* If not all fields that a mask announces are read, one of them is next. *)
LEMMA SomeFieldDue ==
    ASSUME tile.typeRead, ~HextileFieldsRead
    PROVE  FieldDue(1) \/ FieldDue(2) \/ FieldDue(3)
  <1> DEFINE Missing(i) == Announced(i) /\ i \notin tile.didRead
  <1>1. Missing(1) \/ Missing(2) \/ Missing(3)
    <2>1. PICK i \in 1..3 : Missing(i)
      BY DEF HextileFieldsRead
    <2> QED  BY <2>1
  <1>2. CASE Missing(1)
    BY <1>2 DEF FieldDue
  <1>3. CASE ~Missing(1) /\ Missing(2)
    BY <1>3 DEF FieldDue
  <1>4. CASE ~Missing(1) /\ ~Missing(2) /\ Missing(3)
    <2>1. \A j \in 1..(3 - 1) : Announced(j) => j \in tile.didRead
      <3>1. \A j \in 1..(3 - 1) : j = 1 \/ j = 2
        OBVIOUS
      <3> QED  BY <1>4, <3>1
    <2> QED  BY <1>4, <2>1 DEF FieldDue
  <1> QED  BY <1>1, <1>2, <1>3, <1>4

LEMMA HextileIsShort ==
    ASSUME RoomInv, pc = "messages", rect.encoding = "Hextile", HasTile(HextileSize), ~RectDataReady
    PROVE  Short
  <1>1. /\ ~HextileMaskReady /\ ~HextileColourReady /\ ~HextileCountReady /\ ~HextileDataReady
        /\ ~HextileTileReady /\ InHextileTile
    BY DEF RectDataReady, InHextileTile, Reading
  <1>2. CASE ~tile.typeRead
    BY <1>1, <1>2, Counted DEF HextileMaskReady, Short
  <1>3. CASE HextileFieldsRead
    BY <1>1, <1>3, Counted DEF HextileDataReady, Short
  <1>4. CASE tile.typeRead /\ ~HextileFieldsRead
    <2>1. ~(Available >= BytesPerPixel) \/ ~(Available >= 1)
      BY <1>1, <1>4, SomeFieldDue DEF HextileColourReady, HextileCountReady
    <2> QED  BY <2>1, Counted, Limits DEF Short
  <1> QED  BY <1>2, <1>3, <1>4

LEMMA CompressedIsShort ==
    ASSUME RoomInv, ZlibInv, pc = "messages", rect.encoding \in Compressed, ~hasAllCompressedData,
           ~EmptyZrle, ~RectDataReady
    PROVE  Short
  <1>1. ~ZlibHeaderReady /\ ~CompressedReady /\ ReadingCompressed
    BY DEF RectDataReady, ReadingCompressed, Reading
  <1>2. CASE ~Zlib.hasHeader
    BY <1>1, <1>2, Counted DEF ZlibHeaderReady, Short
  <1>3. CASE Zlib.hasHeader
    <2>1. CompressedAvailable = <<>>
      BY <1>1, <1>3 DEF CompressedReady
    <2>2. Zlib.expected \in Nat /\ Zlib.received \in Nat /\ ~(Zlib.received >= Zlib.expected)
      BY <1>3 DEF ZlibInv, Zlib, hasAllCompressedData
    <2>3. SUFFICES ASSUME Available > 0  PROVE FALSE
      BY Counted DEF Short
    <2>4. PICK n \in Nat : n = Least(Zlib.expected - Zlib.received, Available) /\ n > 0 /\ n <= Available
      BY <2>2, <2>3, Counted DEF Least
    <2>5. CompressedAvailable = SubSeq(mReceiveBuffer, 1, n)
      BY <2>4 DEF CompressedAvailable
    <2>6. Len(CompressedAvailable) = n
      BY <2>4, <2>5, Part DEF RoomInv, Available
    <2> QED  BY <2>1, <2>4, <2>6
  <1> QED  BY <1>2, <1>3

(* The thread waits in the middle of a rectangle only for a field. *)
LEMMA RectDataIsShort ==
    ASSUME ParserInv, InRect, ~EmptyZrle, ~RectFails, ~canFinishRect, ~RectDataReady
    PROVE  Short
  <1>1. RoomInv /\ ZlibInv /\ pc = "messages"
    BY DEF ParserInv, InRect, InUpdate, ReadingMessage
  <1>2. rect.encoding \in Encodings
    BY DEF ParserInv, RectInv, InRect
  <1>3. CASE rect.encoding = "Raw"
    BY <1>1, <1>3, Counted DEF canFinishRect, RectDataReady, RawReady, Reading, Short
  <1>4. CASE rect.encoding = "Cursor"
    BY <1>1, <1>4, Counted DEF canFinishRect, RectDataReady, CursorReady, Reading, Short
  <1>5. CASE rect.encoding = "CopyRect"
    BY <1>1, <1>5, Counted DEF canFinishRect, CopyRectFinished, RectDataReady, CopyRectReady,
                               Reading, Short
  <1>6. CASE rect.encoding \in {"RRE", "CoRRE"}
    BY <1>1, <1>6, RREIsShort DEF canFinishRect
  <1>7. CASE rect.encoding = "Hextile"
    BY <1>1, <1>7, HextileIsShort DEF canFinishRect, HextileFinished
  <1>8. CASE rect.encoding = "Zlib"
    BY <1>1, <1>8, CompressedIsShort DEF canFinishRect, ZlibFinished, Compressed
  <1>9. CASE rect.encoding = "ZRLE"
    <2>1. CASE ~hasAllCompressedData
      BY <1>1, <1>9, <2>1, CompressedIsShort DEF Compressed
    <2>2. CASE hasAllCompressedData
      <3>1. ~ZrleFinished /\ ~ZrleFails /\ ~ZrleReady
        BY <1>9 DEF canFinishRect, RectFails, RectDataReady
      <3>2. HasTile(ZrleSize) /\ (Out # <<>> \/ ZrleTileReady)
        BY <2>2, <3>1 DEF ZrleFinished
      <3>3. InZrleTile
        BY <1>1, <1>9, <3>2 DEF InZrleTile, Reading
      <3>4. Out # <<>> /\ ~ZrleGoesOn
        BY <3>1, <3>2, <3>3 DEF ZrleReady
      <3>5. ZrleFails
        BY <1>9, <2>2, <3>2, <3>4 DEF ZrleFails
      <3> QED  BY <3>1, <3>5
    <2> QED  BY <2>1, <2>2
  <1> QED  BY <1>2, <1>3, <1>4, <1>5, <1>6, <1>7, <1>8, <1>9 DEF Encodings

-----------------------------------------------------------------------------
(* Every step keeps the invariant. *)

LEMMA Empty == IsSequence(<<>>) /\ Len(<<>>) = 0
  BY DEF IsSequence

LEMMA BlankIs == \A w, h : DOMAIN Blank(w, h) = Area(w, h)
  BY DEF Blank

LEMMA NoRectIs ==
    /\ NoRect \in [encoding : Encodings \cup {"none"}, x : Nat, y : Nat, w : Nat, h : Nat]
    /\ NoRect.encoding = "none" /\ NoRect.w = 0 /\ NoRect.h = 0
  BY DEF NoRect

(* No rectangle is being read. *)
LEMMA NoRectHolds ==
    ASSUME rect' = NoRect, data' = <<>>, tile' = NoTile
    PROVE  RectInv'
  <1>1. 0 \in 0..(TileIndices - 1) /\ 0 \in Nat
    BY Limits
  <1> QED  BY <1>1, NoRectIs, TileFields, Empty DEF RectInv

LEMMA NewStreamsHold ==
    ASSUME NEW z, zlib' = [encoding \in Compressed |-> clearZlibPlain(z[encoding])]
    PROVE  ZlibInv'
  <1>1. \A encoding \in Compressed : zlib'[encoding] = clearZlibPlain(z[encoding])
    OBVIOUS
  <1> QED  BY <1>1, ZlibFields DEF ZlibInv

(* What resets the parsers. *)
LEMMA resetRectParsersKeeps ==
    ASSUME resetRectParsers
    PROVE  RectInv' /\ ZlibInv' /\ rect' = NoRect /\ DOMAIN picture' = Area(rect'.w, rect'.h)
  <1>1. rect' = NoRect /\ data' = <<>> /\ tile' = NoTile /\ picture' = Blank(0, 0)
    BY DEF resetRectParsers
  <1>2. ZlibInv'
    BY NewStreamsHold DEF resetRectParsers
  <1> QED  BY <1>1, <1>2, NoRectHolds, NoRectIs, BlankIs

LEMMA FreshStreams ==
    ASSUME zlib' = [encoding \in Compressed |-> NewZlibPlain]
    PROVE  ZlibInv'
  <1>1. \A encoding \in Compressed : zlib'[encoding] = NewZlibPlain
    OBVIOUS
  <1> QED  BY <1>1, ZlibFields DEF ZlibInv, NewZlibPlain

LEMMA NoMessageIs ==
    /\ NoMessage \in [hasHeader : BOOLEAN, length : Nat, read : Nat, copied : Nat]
    /\ NoMessage.read = 0 /\ NoMessage.length = 0 /\ NoMessage.copied = 0
  BY DEF NoMessage

(* The connection is closed: nothing of it is left but the header of a *)
(* message that was being read.                                        *)
LEMMA CloseKeeps ==
    ASSUME ParserInv, NEW parser \in Parsers \cup {"none"},
           NEW read \in [hasHeader : BOOLEAN, length : Nat, read : Nat, copied : Nat],
           read.read <= read.length, read.copied <= Least(read.length, MaxCutTextSize),
           closeSocket(parser, read), screen' = screen
    PROVE  ParserInv'
  <1>1. /\ rect' = NoRect /\ data' = <<>> /\ tile' = NoTile /\ picture' = Blank(0, 0)
        /\ zlib' = [encoding \in Compressed |-> NewZlibPlain]
        /\ mReceiveBuffer' = <<>> /\ wire' = <<>> /\ pc' = "closed"
        /\ mCurrentMessageParser' = parser
        /\ message' = NoMessage \/ message' = read
    BY DEF closeSocket, resetRectParserConnections
  <1>2. RectInv' /\ ZlibInv'
    BY <1>1, NoRectHolds, FreshStreams
  <1>3. PictureInv'
    BY <1>1, BlankIs, NoRectIs DEF PictureInv, ParserInv
  <1>4. RoomInv'
    BY <1>1, Empty, Limits DEF RoomInv, Available
  <1>5. MessageInv'
    <2>1. CASE message' = read
      BY <1>1, <2>1 DEF MessageInv, TextOutputLength
    <2>2. CASE message' = NoMessage
      <3>1. 0 <= TextOutputLength'
        BY <2>2, NoMessageIs, Limits DEF TextOutputLength, Least
      <3> QED  BY <1>1, <2>2, <3>1, NoMessageIs DEF MessageInv
    <2> QED  BY <1>1, <2>1, <2>2
  <1> QED  BY <1>2, <1>3, <1>4, <1>5 DEF ParserInv

LEMMA FailKeeps ==
    ASSUME ParserInv, Fail
    PROVE  ParserInv'
  <1>1. 0 <= Least(NoMessage.length, MaxCutTextSize)
    BY NoMessageIs, Limits DEF Least
  <1>2. closeSocket("none", NoMessage) /\ screen' = screen
    BY DEF Fail, outputVars
  <1> QED  BY <1>1, <1>2, NoMessageIs, CloseKeeps

LEMMA ConnectionEndsKeeps ==
    ASSUME ParserInv, ConnectionEnds \/ BufferFull
    PROVE  ParserInv'
  <1>1. /\ mCurrentMessageParser \in Parsers \cup {"none"}
        /\ message \in [hasHeader : BOOLEAN, length : Nat, read : Nat, copied : Nat]
        /\ message.read <= message.length /\ message.copied <= Least(message.length, MaxCutTextSize)
    BY DEF ParserInv, MessageInv, TextOutputLength
  <1>2. closeSocket(mCurrentMessageParser, message) /\ screen' = screen
    BY DEF ConnectionEnds, BufferFull, outputVars
  <1> QED  BY <1>1, <1>2, CloseKeeps

LEMMA AstrayEndsKeeps ==
    ASSUME ParserInv, AstrayEnds
    PROVE  ParserInv'
  <1>1. PICK parser \in Parsers \cup {"none"}, hasHeader \in BOOLEAN :
            closeSocket(parser, [NoMessage EXCEPT !.hasHeader = hasHeader])
    BY DEF AstrayEnds
  <1>2. PICK read : read = [NoMessage EXCEPT !.hasHeader = hasHeader]
    OBVIOUS
  <1>3. /\ read \in [hasHeader : BOOLEAN, length : Nat, read : Nat, copied : Nat]
        /\ read.length = 0 /\ read.read = 0 /\ read.copied = 0
    BY <1>2 DEF NoMessage
  <1>4. 0 <= Least(read.length, MaxCutTextSize)
    BY <1>3, Limits DEF Least
  <1>5. screen' = screen
    BY DEF AstrayEnds
  <1> QED  BY <1>1, <1>2, <1>3, <1>4, <1>5, CloseKeeps

(* The thread waits with less than a field in its buffer. *)
LEMMA WaitKeeps ==
    ASSUME ParserInv, Short \/ EmptyZrle, WaitForMore
    PROVE  ParserInv'
  <1> USE DEF WaitForMore, parserVars, messageVars, outputVars, streamVars
  <1>1. RectInv' /\ ZlibInv'
    BY DEF ParserInv, RectInv, ZlibInv
  <1>2. MessageInv' /\ PictureInv'
    BY DEF ParserInv, MessageInv, PictureInv, TextOutputLength
  <1>3. RoomInv'
    BY DEF ParserInv, RoomInv, Available, Short, EmptyZrle
  <1> QED  BY <1>1, <1>2, <1>3 DEF ParserInv

LEMMA WaitsKeep ==
    ASSUME ParserInv, AllProcessed \/ HeaderWaits \/ ColourWaits \/ TextWaits \/ RectHeaderWaits \/ RectDataWaits
    PROVE  ParserInv'
  <1>1. Available \in Nat /\ (mReceiveBuffer = <<>> => Available = 0)
    BY Counted DEF ParserInv
  <1>2. WaitForMore
    BY DEF AllProcessed, HeaderWaits, ColourWaits, TextWaits, RectHeaderWaits, RectDataWaits
  <1>3. Short \/ EmptyZrle
    <2>1. CASE AllProcessed
      BY <1>1, <2>1 DEF AllProcessed, Short
    <2>2. CASE HeaderWaits
      BY <1>1, <2>2 DEF HeaderWaits, HeaderBytes, Parsers, Short
    <2>3. CASE ColourWaits
      BY <1>1, <2>3 DEF ColourWaits, ColourBytes, Short
    <2>4. CASE TextWaits
      BY <1>1, <2>4 DEF TextWaits, Short
    <2>5. CASE RectHeaderWaits
      BY <1>1, <2>5 DEF RectHeaderWaits, RectBytesNeeded, Short
    <2>6. CASE RectDataWaits
      BY <2>6, RectDataIsShort DEF RectDataWaits
    <2> QED  BY <2>1, <2>2, <2>3, <2>4, <2>5, <2>6
  <1> QED  BY <1>2, <1>3, WaitKeeps

LEMMA ConnectKeeps ==
    ASSUME ParserInv, Connect
    PROVE  ParserInv'
  <1>1. PICK s \in Scripts : wire' = Bytes(s)
    BY DEF Connect
  <1>2. /\ pc = "closed" /\ pc' = "select" /\ screen' = Blank(Width, Height)
        /\ UNCHANGED <<mReceiveBuffer, rect, data, tile, picture, zlib, mCurrentMessageParser, message>>
    BY DEF Connect, parserVars, messageVars
  <1>3. RectInv' /\ ZlibInv'
    BY <1>2 DEF ParserInv, RectInv, ZlibInv
  <1>4. MessageInv' /\ PictureInv'
    BY <1>2, BlankIs DEF ParserInv, MessageInv, PictureInv, TextOutputLength
  <1>5. IsSequence(wire')
    BY <1>1, BufferAssumption
  <1>6. mReceiveBuffer' = <<>> /\ Available' = 0
    BY <1>2, Empty DEF ParserInv, RoomInv, Available
  <1>7. RoomInv'
    BY <1>2, <1>5, <1>6, Empty, Limits DEF RoomInv
  <1> QED  BY <1>3, <1>4, <1>7 DEF ParserInv

(* How often a rectangle without pixels was looked at is counted. *)
LEMMA callsKeep ==
    ASSUME RectInv, ZlibInv, NEW n, callsFor(n), UNCHANGED <<rect, data, zlib>>
    PROVE  RectInv' /\ ZlibInv'
  <1>1. ZlibInv'
    BY DEF ZlibInv
  <1>2. CASE ~EmptyZrle
    BY <1>1, <1>2 DEF callsFor, RectInv
  <1>3. CASE EmptyZrle
    <2>1. rect.encoding = "ZRLE"
      BY <1>3 DEF EmptyZrle
    <2>2. DOMAIN tile' = DOMAIN tile /\ tile'.index = tile.index /\ tile'.subrects = tile.subrects
      BY <1>3, TileFields DEF callsFor, RectInv
    <2>3. RectInv'
      BY <2>1, <2>2 DEF RectInv
    <2> QED  BY <1>1, <2>3
  <1> QED  BY <1>2, <1>3

LEMMA ReceiveKeeps ==
    ASSUME ParserInv, Receive
    PROVE  ParserInv'
  <1>1. PICK n \in 1..Least(Len(wire), MaxReceiveBufferSize - Available) :
            /\ mReceiveBuffer' = mReceiveBuffer \o SubSeq(wire, 1, n)
            /\ wire' = SubSeq(wire, n + 1, Len(wire))
    BY DEF Receive
  <1>2. /\ pc' = "messages" /\ callsFor(1)
        /\ UNCHANGED <<rect, data, picture, zlib, mCurrentMessageParser, message, screen>>
    BY DEF Receive, messageVars, outputVars
  <1>3. Available \in Nat /\ Len(wire) \in Nat
    BY Counted DEF ParserInv, RoomInv, IsSequence
  <1>4. n \in Nat /\ n <= Len(wire) /\ n <= MaxReceiveBufferSize - Available
    BY <1>3, Limits DEF Least
  <1>5. /\ IsSequence(SubSeq(wire, 1, n)) /\ Len(SubSeq(wire, 1, n)) = n
        /\ IsSequence(wire')
    BY <1>1, <1>4, Part DEF ParserInv, RoomInv
  <1>6. IsSequence(mReceiveBuffer') /\ Len(mReceiveBuffer') = Len(mReceiveBuffer) + n
    BY <1>1, <1>5, Joined DEF ParserInv, RoomInv
  <1>7. RoomInv'
    BY <1>2, <1>3, <1>4, <1>5, <1>6, Limits DEF RoomInv, Available
  <1>8. RectInv' /\ ZlibInv'
    BY <1>2, callsKeep DEF ParserInv
  <1>9. MessageInv' /\ PictureInv'
    BY <1>2 DEF ParserInv, MessageInv, PictureInv, TextOutputLength
  <1> QED  BY <1>7, <1>8, <1>9 DEF ParserInv

(* A step that reads bytes of the buffer, and leaves the rectangle alone. *)
LEMMA ReadKeeps ==
    ASSUME ParserInv, pc = "messages", pc' = pc, NEW n \in Nat, n <= Available, Consume(n),
           UNCHANGED <<rect, parserVars, wire, screen>>
    PROVE  RectInv' /\ ZlibInv' /\ PictureInv' /\ RoomInv'
  <1>1. IsSequence(mReceiveBuffer') /\ Available' = Available - n /\ Available \in Nat
    BY Consumed, Counted DEF ParserInv, RoomInv
  <1>2. RoomInv'
    BY <1>1, Limits DEF ParserInv, RoomInv
  <1> QED  BY <1>2 DEF ParserInv, RectInv, ZlibInv, PictureInv, parserVars

LEMMA chooseParserKeeps ==
    ASSUME ParserInv, chooseParser
    PROVE  ParserInv'
  <1>1. /\ mCurrentMessageParser' \in Parsers /\ message' = NoMessage /\ rect = NoRect
        /\ pc = "messages"
        /\ UNCHANGED <<pc, mReceiveBuffer, rect, data, tile, picture, zlib, wire, screen>>
    BY DEF chooseParser, Reads, parserVars, outputVars, ParserInv, MessageInv
  <1>2. 0 <= TextOutputLength'
    BY <1>1, NoMessageIs, Limits DEF TextOutputLength, Least
  <1>3. MessageInv'
    BY <1>1, <1>2, NoMessageIs DEF ParserInv, MessageInv
  <1> QED  BY <1>1, <1>3 DEF ParserInv, RectInv, ZlibInv, PictureInv, RoomInv, Available

LEMMA BellKeeps ==
    ASSUME ParserInv, processMessageBell
    PROVE  ParserInv'
  <1>1. /\ pc = "messages" /\ Consume(1) /\ mReceiveBuffer # <<>>
        /\ UNCHANGED <<pc, rect, parserVars, wire, screen, mCurrentMessageParser, message>>
    BY DEF processMessageBell, messageVars, outputVars
  <1>2. 1 \in Nat /\ 1 <= Available
    <2>1. PICK S : mReceiveBuffer \in Seq(S)
      BY SequenceOf DEF ParserInv, RoomInv
    <2>2. Len(mReceiveBuffer) # 0
      BY <1>1, <2>1, EmptySeq
    <2> QED  BY <2>1, <2>2 DEF Available
  <1>3. RectInv' /\ ZlibInv' /\ PictureInv' /\ RoomInv'
    BY <1>1, <1>2, ReadKeeps
  <1>4. MessageInv'
    BY <1>1 DEF ParserInv, MessageInv, TextOutputLength
  <1> QED  BY <1>3, <1>4 DEF ParserInv

LEMMA readHeaderKeeps ==
    ASSUME ParserInv, NEW type \in Parsers, readHeader(type)
    PROVE  ParserInv'
  <1>1. /\ pc = "messages" /\ mCurrentMessageParser = type /\ rect = NoRect
        /\ UNCHANGED <<pc, rect, parserVars, wire, screen, mCurrentMessageParser>>
    BY DEF readHeader, ReadingMessage, Reads, outputVars, ParserInv, MessageInv
  <1>2. PICK n \in Nat : n <= Available /\ Consume(n)
    <2>1. HeaderBytes[type] \in Nat
      BY DEF HeaderBytes, Parsers
    <2> QED  BY <2>1 DEF readHeader
  <1>3. RectInv' /\ ZlibInv' /\ PictureInv' /\ RoomInv'
    BY <1>1, <1>2, ReadKeeps
  <1>4. PICK length \in Nat : message' = [NoMessage EXCEPT !.hasHeader = TRUE, !.length = length]
    BY Numbers DEF readHeader
  <1>5. /\ message' \in [hasHeader : BOOLEAN, length : Nat, read : Nat, copied : Nat]
        /\ message'.read = 0 /\ message'.copied = 0
    BY <1>4 DEF NoMessage
  <1>6. 0 <= TextOutputLength' /\ 0 <= message'.length
    BY <1>5, Limits DEF TextOutputLength, Least
  <1>7. MessageInv'
    BY <1>1, <1>5, <1>6 DEF ParserInv, MessageInv
  <1> QED  BY <1>3, <1>7 DEF ParserInv

(* The message is finished: no rectangle was being read. *)
LEMMA FinishKeeps ==
    ASSUME ParserInv, NEW more, Finish(more), rect = NoRect,
           pc' \in {"messages", "select"}, pc' = "select" => astray'
    PROVE  ParserInv'
  <1>1. /\ mCurrentMessageParser' = "none"
        /\ UNCHANGED <<mReceiveBuffer, rect, data, tile, picture, zlib, wire, message, screen>>
    BY DEF Finish, parserVars, outputVars
  <1>2. MessageInv'
    BY <1>1 DEF ParserInv, MessageInv, TextOutputLength
  <1>3. RoomInv'
    BY <1>1 DEF ParserInv, RoomInv, Available
  <1> QED  BY <1>1, <1>2, <1>3 DEF ParserInv, RectInv, ZlibInv, PictureInv

LEMMA FinishesKeep ==
    ASSUME ParserInv, finishColours \/ finishText \/ finishUpdate
    PROVE  ParserInv'
  <1>1. rect = NoRect
    BY DEF finishColours, finishText, finishUpdate, ReadingMessage, ParserInv, MessageInv
  <1>2. PICK more : Finish(more)
    BY DEF finishColours, finishText, finishUpdate
  <1>3. pc' \in {"messages", "select"} /\ (pc' = "select" => astray')
    <2>1. pc = "messages"
      BY DEF finishColours, finishText, finishUpdate, InUpdate, ReadingMessage
    <2>2. PICK tooLittle : LosesStep(tooLittle)
      BY DEF finishColours, finishText, finishUpdate
    <2> QED  BY <2>1, <2>2 DEF LosesStep
  <1> QED  BY <1>1, <1>2, <1>3, FinishKeeps

(* The messages, part by part. *)
LEMMA readColourKeeps ==
    ASSUME ParserInv, readColour
    PROVE  ParserInv'
  <1>1. /\ pc = "messages" /\ rect = NoRect /\ message.read < message.length
        /\ UNCHANGED <<pc, rect, parserVars, wire, screen, mCurrentMessageParser>>
        /\ message' = [message EXCEPT !.read = @ + 1]
    BY DEF readColour, ReadingMessage, Reads, outputVars, ParserInv, MessageInv
  <1>2. ColourBytes \in Nat /\ ColourBytes <= Available /\ Consume(ColourBytes)
    BY Counted DEF readColour, ColourBytes, ParserInv
  <1>3. RectInv' /\ ZlibInv' /\ PictureInv' /\ RoomInv'
    BY <1>1, <1>2, ReadKeeps
  <1>4. /\ message' \in [hasHeader : BOOLEAN, length : Nat, read : Nat, copied : Nat]
        /\ message'.read <= message'.length
        /\ message'.length = message.length /\ message'.copied = message.copied
    BY <1>1 DEF ParserInv, MessageInv
  <1>5. MessageInv'
    BY <1>1, <1>4 DEF ParserInv, MessageInv, TextOutputLength
  <1> QED  BY <1>3, <1>5 DEF ParserInv

LEMMA readTextKeeps ==
    ASSUME ParserInv, readText
    PROVE  ParserInv'
  <1>1. /\ pc = "messages" /\ rect = NoRect
        /\ UNCHANGED <<pc, rect, parserVars, wire, screen, mCurrentMessageParser>>
    BY DEF readText, ReadingMessage, Reads, outputVars, ParserInv, MessageInv
  <1>2. /\ Available \in Nat
        /\ message.length \in Nat /\ message.read \in Nat /\ message.copied \in Nat
        /\ message.read <= message.length /\ message.copied <= TextOutputLength
        /\ TextOutputLength \in Nat
    BY Counted, Limits DEF ParserInv, MessageInv, TextOutputLength, Least
  <1>3. PICK n \in Nat : n = Least(Available, message.length - message.read)
    BY <1>2 DEF Least
  <1>4. PICK c \in Nat : c = Least(Available, TextOutputLength - message.copied)
    BY <1>2 DEF Least
  <1>5. n <= Available /\ message.read + n <= message.length /\ message.copied + c <= TextOutputLength
    BY <1>2, <1>3, <1>4 DEF Least
  <1>6. Consume(n)
    BY <1>3 DEF readText, Consume
  <1>7. RectInv' /\ ZlibInv' /\ PictureInv' /\ RoomInv'
    BY <1>1, <1>5, <1>6, ReadKeeps
  <1>8. message' = [message EXCEPT !.copied = message.copied + c, !.read = message.read + n]
    BY <1>3, <1>4 DEF readText
  <1>9. /\ message' \in [hasHeader : BOOLEAN, length : Nat, read : Nat, copied : Nat]
        /\ message'.length = message.length /\ message'.hasHeader = message.hasHeader
        /\ message'.read = message.read + n /\ message'.copied = message.copied + c
    <2>1. message \in [hasHeader : BOOLEAN, length : Nat, read : Nat, copied : Nat]
      BY DEF ParserInv, MessageInv
    <2>2. message.copied + c \in Nat /\ message.read + n \in Nat
      BY <1>2
    <2> QED  BY <1>8, <2>1, <2>2
  <1>10. TextOutputLength' = TextOutputLength
    BY <1>9 DEF TextOutputLength
  <1>11. MessageInv'
    BY <1>1, <1>5, <1>9, <1>10 DEF ParserInv, MessageInv
  <1> QED  BY <1>7, <1>11 DEF ParserInv

LEMMA readRectHeaderKeeps ==
    ASSUME ParserInv, readRectHeader
    PROVE  ParserInv'
  <1>1. /\ pc = "messages" /\ mCurrentMessageParser = "FramebufferUpdate" /\ message.hasHeader
        /\ rect = NoRect /\ message.read < message.length
        /\ rect' = Header /\ picture' = Blank(Header.w, Header.h)
        /\ UNCHANGED <<pc, data, zlib, wire, screen, mCurrentMessageParser, message>>
    BY DEF readRectHeader, BetweenRects, InUpdate, ReadingMessage, Reads, outputVars, messageVars
  <1>2. IsSequence(mReceiveBuffer') /\ Available' = Available - 12 /\ Available \in Nat
    BY Consumed, Counted DEF readRectHeader, RectBytesNeeded, ParserInv, RoomInv
  <1>3. RoomInv'
    BY <1>1, <1>2, Limits DEF ParserInv, RoomInv
  <1>4. /\ Header \in [encoding : Encodings \cup {"none"}, x : Nat, y : Nat, w : Nat, h : Nat]
        /\ Header.encoding \in Encodings
    <2>1. Header.encoding \in Encodings
      BY DEF readRectHeader, RectAccepted
    <2> QED  BY <2>1, Numbers DEF Header
  <1>5. data = <<>> /\ IsSequence(data')
    BY <1>1, NoRectIs, Empty DEF ParserInv, RectInv
  <1>10. /\ DOMAIN tile' = DOMAIN NoTile
         /\ tile'.index = 0 /\ tile'.subrects = 0 /\ IsSequence(tile'.bytes)
    <2>1. tile = NoTile
      BY <1>1, NoRectIs DEF ParserInv, RectInv
    <2>2. tile' = tile \/ tile' = [tile EXCEPT !.calls = 3]
      BY DEF readRectHeader
    <2> QED  BY <2>1, <2>2, TileFields, Empty
  <1>11. 0 \in 0..(TileIndices - 1) /\ 0 \in Nat
    BY Limits
  <1>6. rect'.encoding # "none"
    BY <1>1, <1>4 DEF Encodings
  <1>7. RectInv'
    BY <1>1, <1>4, <1>5, <1>6, <1>10, <1>11 DEF RectInv
  <1>8. ZlibInv' /\ PictureInv'
    BY <1>1, BlankIs DEF ParserInv, ZlibInv, PictureInv
  <1>9. MessageInv'
    BY <1>1 DEF ParserInv, MessageInv, TextOutputLength
  <1> QED  BY <1>3, <1>7, <1>8, <1>9 DEF ParserInv

LEMMA readRectDataKeeps ==
    ASSUME ParserInv, readRectData
    PROVE  ParserInv'
  <1>1. Kept
    BY RectDataKeeps DEF readRectData, ParserInv
  <1>2. pc = "messages" /\ UNCHANGED <<wire, screen, mCurrentMessageParser, message>>
    BY DEF readRectData, InRect, InUpdate, ReadingMessage, Reads, outputVars, messageVars
  <1>3. Available \in Nat /\ Available' \in Nat
    BY <1>1, Counted DEF ParserInv, Kept, IsSequence, Available
  <1>4. RoomInv'
    BY <1>1, <1>2, <1>3, Limits DEF Kept, ParserInv, RoomInv
  <1>5. PictureInv' /\ MessageInv'
    BY <1>1, <1>2 DEF Kept, ParserInv, PictureInv, MessageInv, TextOutputLength
  <1> QED  BY <1>1, <1>4, <1>5 DEF Kept, ParserInv

LEMMA finishRectKeeps ==
    ASSUME ParserInv, finishRect
    PROVE  ParserInv'
  <1>1. /\ pc = "messages" /\ rect # NoRect
        /\ pc' \in {"messages", "select"} /\ (pc' = "select" => astray')
        /\ UNCHANGED <<mReceiveBuffer, wire, mCurrentMessageParser>>
        /\ message' = [message EXCEPT !.read = @ + 1]
        /\ resetRectParsers
    BY DEF finishRect, InRect, InUpdate, ReadingMessage, LosesStep
  <1>2. DOMAIN screen' = DOMAIN screen
    BY DEF finishRect, Draw
  <1>3. /\ RectInv' /\ ZlibInv' /\ rect' = NoRect
        /\ DOMAIN picture' = Area(rect'.w, rect'.h)
    BY <1>1, resetRectParsersKeeps
  <1>4. /\ message' \in [hasHeader : BOOLEAN, length : Nat, read : Nat, copied : Nat]
        /\ message'.read <= message'.length
        /\ message'.length = message.length /\ message'.copied = message.copied
    BY <1>1 DEF ParserInv, MessageInv
  <1>5. MessageInv'
    BY <1>1, <1>3, <1>4 DEF ParserInv, MessageInv, TextOutputLength
  <1>6. RoomInv' /\ PictureInv'
    BY <1>1, <1>2, <1>3 DEF ParserInv, RoomInv, PictureInv, Available
  <1> QED  BY <1>3, <1>5, <1>6 DEF ParserInv

LEMMA ProcessingKeeps ==
    ASSUME ParserInv, Processing
    PROVE  ParserInv'
  <1>1. CASE AllProcessed \/ HeaderWaits \/ ColourWaits \/ TextWaits \/ RectHeaderWaits \/ RectDataWaits
    BY <1>1, WaitsKeep
  <1>2. CASE UnexpectedMessage \/ RectRefused \/ RectDataFails
    BY <1>2, FailKeeps DEF UnexpectedMessage, RectRefused, RectDataFails
  <1>3. CASE chooseParser \/ processMessageBell \/ \E type \in Parsers : readHeader(type)
    BY <1>3, chooseParserKeeps, BellKeeps, readHeaderKeeps
  <1>4. CASE readColour \/ readText \/ readRectHeader \/ readRectData \/ finishRect
    BY <1>4, readColourKeeps, readTextKeeps, readRectHeaderKeeps, readRectDataKeeps, finishRectKeeps
  <1>5. CASE finishColours \/ finishText \/ finishUpdate
    BY <1>5, FinishesKeep
  <1> QED  BY <1>1, <1>2, <1>3, <1>4, <1>5 DEF Processing

LEMMA ParserInvInit == Init => ParserInv
  <1> SUFFICES ASSUME Init  PROVE ParserInv
    OBVIOUS
  <1>1. RectInv
    <2>1. 0 \in 0..(TileIndices - 1)
      BY Limits
    <2> QED  BY <2>1, NoRectIs, TileFields, Empty DEF Init, RectInv
  <1>2. ZlibInv
    BY ZlibFields DEF Init, ZlibInv, NewZlibPlain
  <1>3. PictureInv /\ RoomInv
    BY NoRectIs, BlankIs, Empty, Limits DEF Init, PictureInv, RoomInv, Available
  <1>4. 0 <= TextOutputLength
    BY NoMessageIs, Limits DEF Init, TextOutputLength, Least
  <1>5. MessageInv
    BY <1>4, NoMessageIs DEF Init, MessageInv
  <1> QED  BY <1>1, <1>2, <1>3, <1>5 DEF ParserInv

(* Every step keeps the invariant. *)
LEMMA ParserInvStep == ParserInv /\ [Next]_vars => ParserInv'
  <1> SUFFICES ASSUME ParserInv, [Next]_vars  PROVE ParserInv'
    OBVIOUS
  <1>1. CASE Next
    BY <1>1, ConnectKeeps, ReceiveKeeps, ConnectionEndsKeeps, AstrayEndsKeeps, ProcessingKeeps DEF Next
  <1>2. CASE UNCHANGED vars
    <2> USE <1>2 DEF vars, parserVars, messageVars, outputVars, streamVars
    <2>1. RectInv' /\ ZlibInv'
      BY DEF ParserInv, RectInv, ZlibInv
    <2>2. MessageInv' /\ PictureInv' /\ RoomInv'
      BY DEF ParserInv, MessageInv, PictureInv, RoomInv, TextOutputLength, Available, EmptyZrle
    <2> QED  BY <2>1, <2>2 DEF ParserInv
  <1> QED  BY <1>1, <1>2

-----------------------------------------------------------------------------
(* What a parser collects is its own: ParserInv says of what kind it is,   *)
(* and OwnBytesOnly how much.                                              *)

(* Behind the number of subrectangles come the subrectangles. *)
SubrectsInv ==
    rect.encoding \in {"RRE", "CoRRE"} =>
        IsSequence(data) /\ (data # <<>> => data[1].count \in Nat)

OwnInv == OwnBytesOnly /\ SubrectsInv

(* OwnInv has a part for each variable the parsers collect in. *)
DataOwn ==
    /\ rect.encoding = "Raw" => Len(data) <= RectBytes
    /\ rect.encoding = "Cursor" => Len(data) <= CursorDataBytes
    /\ rect.encoding \in {"RRE", "CoRRE"} /\ data # <<>> => Len(data) - 1 <= data[1].count
    /\ SubrectsInv

TileOwn ==
    rect.encoding = "Hextile" /\ tile.bytes # <<>> =>
        HextileFieldsRead /\ Len(tile.bytes) <= HextileTileBytes

StreamOwn(z) == IF z.hasHeader THEN z.received <= z.expected ELSE z.received = 0

LEMMA OwnParts == OwnInv <=> DataOwn /\ TileOwn /\ \A encoding \in Compressed : StreamOwn(zlib[encoding])
  BY DEF OwnInv, OwnBytesOnly, DataOwn, TileOwn, StreamOwn

LEMMA OwnPartsNext ==
    ASSUME DataOwn', TileOwn', \A encoding \in Compressed : StreamOwn(zlib'[encoding])
    PROVE  OwnInv'
  BY DEF OwnInv, OwnBytesOnly, DataOwn, TileOwn, StreamOwn

LEMMA DataLeftAlone ==
    ASSUME DataOwn, UNCHANGED <<rect, data>>
    PROVE  DataOwn'
  BY DEF DataOwn, SubrectsInv, RectBytes, CursorDataBytes, CursorBytes, CursorMaskBytes

(* How much a tile takes depends on what was read before its bytes. *)
LEMMA SameTile ==
    ASSUME UNCHANGED rect, tile'.index = tile.index, tile'.type = tile.type,
           tile'.typeRead = tile.typeRead, tile'.didRead = tile.didRead, tile'.subrects = tile.subrects
    PROVE  /\ HextileTileBytes' = HextileTileBytes
           /\ HextileFieldsRead' <=> HextileFieldsRead
  <1>1. TilePixels(HextileSize)' = TilePixels(HextileSize) /\ HextileColourBytes' = HextileColourBytes
    BY DEF TilePixels, TileWidth, TileHeight, HextileColourBytes
  <1>2. HextileTileBytes' = HextileTileBytes
    BY <1>1 DEF HextileTileBytes
  <1>3. HextileFieldsRead' <=> HextileFieldsRead
    BY DEF HextileFieldsRead, Announced
  <1> QED  BY <1>2, <1>3

LEMMA TileLeftAlone ==
    ASSUME TileOwn, UNCHANGED <<rect, tile>>
    PROVE  TileOwn'
  BY SameTile DEF TileOwn

(* Of a rectangle in a zlib stream, the tile does not matter. *)
LEMMA CompressedTile ==
    ASSUME rect'.encoding \in Compressed
    PROVE  TileOwn'
  BY DEF TileOwn, Compressed

LEMMA LeftAlone ==
    ASSUME OwnInv, UNCHANGED <<rect, data, tile, zlib>>
    PROVE  OwnInv'
  BY OwnParts, OwnPartsNext, DataLeftAlone, TileLeftAlone

(* Of bytes that are collected, never more than expected. *)
LEMMA CollectedFits ==
    ASSUME NEW bytes, IsSequence(bytes), NEW more, IsSequence(more), NEW expected \in Nat,
           Len(bytes) <= expected
    PROVE  Len(Collected(bytes, expected, more)) <= expected
  <1>1. PICK n : n = Least(expected - Len(bytes), Len(more))
    OBVIOUS
  <1>2. Len(bytes) \in Nat /\ Len(more) \in Nat
    BY DEF IsSequence
  <1>3. n \in Nat /\ n <= Len(more) /\ n <= expected - Len(bytes)
    BY <1>1, <1>2 DEF Least
  <1>4. IsSequence(SubSeq(more, 1, n)) /\ Len(SubSeq(more, 1, n)) = n
    BY <1>3, Part
  <1>5. Len(Collected(bytes, expected, more)) = Len(bytes) + n
    BY <1>1, <1>4, Joined DEF Collected
  <1> QED  BY <1>2, <1>3, <1>5

LEMMA OwnPixels ==
    ASSUME ParserInv, OwnInv, ReadRaw \/ ReadCursor
    PROVE  OwnInv'
  <1>1. rect.encoding \in {"Raw", "Cursor"} /\ UNCHANGED <<rect, tile, zlib>>
    BY DEF ReadRaw, RawReady, ReadCursor, CursorReady, Reading
  <1>2. RectBytes \in Nat /\ CursorDataBytes \in Nat /\ IsSequence(data) /\ IsSequence(mReceiveBuffer)
    BY <1>1, BytesExpected DEF ParserInv, RectInv, RoomInv
  <1>3. RectBytes' = RectBytes /\ CursorDataBytes' = CursorDataBytes
    BY <1>1 DEF RectBytes, CursorDataBytes, CursorBytes, CursorMaskBytes
  <1>4. CASE ReadRaw
    <2>1. rect.encoding = "Raw" /\ data' = Collected(data, RectBytes, mReceiveBuffer)
      BY <1>4 DEF ReadRaw, RawReady, Reading
    <2>2. Len(data) <= RectBytes
      BY <2>1 DEF OwnInv, OwnBytesOnly
    <2>3. Len(data') <= RectBytes'
      BY <1>2, <1>3, <2>1, <2>2, CollectedFits
    <2> QED  BY <1>1, <2>1, <2>3, TileLeftAlone, OwnParts, OwnPartsNext DEF DataOwn, SubrectsInv
  <1>5. CASE ReadCursor
    <2>1. rect.encoding = "Cursor" /\ data' = Collected(data, CursorDataBytes, mReceiveBuffer)
      BY <1>5 DEF ReadCursor, CursorReady, Reading
    <2>2. Len(data) <= CursorDataBytes
      BY <2>1 DEF OwnInv, OwnBytesOnly
    <2>3. Len(data') <= CursorDataBytes'
      BY <1>2, <1>3, <2>1, <2>2, CollectedFits
    <2> QED  BY <1>1, <2>1, <2>3, TileLeftAlone, OwnParts, OwnPartsNext DEF DataOwn, SubrectsInv
  <1> QED  BY <1>4, <1>5

(* The subrectangles are counted. *)
LEMMA OwnSubrects ==
    ASSUME ParserInv, OwnInv, ReadCopyRect \/ ReadRREHeader \/ ReadRRESubrect
    PROVE  OwnInv'
  <1>1. UNCHANGED <<rect, tile, zlib>>
    BY DEF ReadCopyRect, ReadRREHeader, ReadRRESubrect
  <1>2. SUFFICES DataOwn'
    BY <1>1, TileLeftAlone, OwnParts, OwnPartsNext
  <1>3. CASE ReadCopyRect
    <2>1. rect.encoding = "CopyRect"
      BY <1>3 DEF ReadCopyRect, CopyRectReady, Reading
    <2> QED  BY <1>1, <2>1 DEF DataOwn, SubrectsInv
  <1>4. CASE ReadRREHeader
    <2>1. rect.encoding \in {"RRE", "CoRRE"}
      BY <1>4 DEF ReadRREHeader, RREHeaderReady, Reading
    <2>2. PICK n \in Nat : data' = <<[count |-> n, background |-> mReceiveBuffer[5]]>>
      BY <1>4, Numbers DEF ReadRREHeader
    <2>3. IsSequence(data') /\ Len(data') = 1 /\ data'[1].count = n
      BY <2>2 DEF IsSequence
    <2> QED  BY <1>1, <2>1, <2>3 DEF DataOwn, SubrectsInv
  <1>5. CASE ReadRRESubrect
    <2>1. rect.encoding \in {"RRE", "CoRRE"} /\ data # <<>> /\ ~RREFinished /\ data' = Append(data, NextRRESubrect)
      BY <1>5 DEF ReadRRESubrect, SubrectReady, SubrectAvailable, Reading
    <2>2. IsSequence(data) /\ data[1].count \in Nat /\ Len(data) \in Nat
      BY <2>1 DEF OwnInv, SubrectsInv, IsSequence
    <2>3. ~(Len(data) - 1 >= data[1].count)
      BY <2>1 DEF RREFinished
    <2>4. PICK S : data \in Seq(S)
      BY <2>2, SequenceOf
    <2>5. PICK T : T = S \cup {NextRRESubrect}
      OBVIOUS
    <2>6. data \in Seq(T) /\ NextRRESubrect \in T
      BY <2>4, <2>5
    <2>7. Len(data) # 0
      BY <2>1, <2>4, EmptySeq
    <2>8. data' \in Seq(T) /\ Len(data') = Len(data) + 1 /\ data'[1] = data[1]
      BY <2>1, <2>2, <2>6, <2>7, AppendProperties
    <2>9. IsSequence(data')
      BY <2>8, SequenceIs
    <2>10. Len(data') - 1 <= data'[1].count
      BY <2>2, <2>3, <2>8
    <2> QED  BY <1>1, <2>1, <2>2, <2>8, <2>9, <2>10 DEF DataOwn, SubrectsInv
  <1> QED  BY <1>3, <1>4, <1>5

(* The bytes of a Hextile tile are collected when its fields are read. *)
LEMMA OwnTile ==
    ASSUME ParserInv, OwnInv,
           \/ ReadHextileMask \/ ReadHextileColour \/ ReadHextileSubrectCount
           \/ ReadHextileTileData \/ FinishHextileTile
    PROVE  OwnInv'
  <1>1. rect.encoding = "Hextile" /\ UNCHANGED <<rect, data, zlib>>
    BY DEF ReadHextileMask, ReadHextileColour, ReadHextileSubrectCount, ReadHextileTileData,
           FinishHextileTile, HextileMaskReady, HextileColourReady, HextileCountReady,
           HextileDataReady, InHextileTile, HextileStep, Reading
  <1>2. SUFFICES TileOwn'
    BY <1>1, DataLeftAlone, OwnParts, OwnPartsNext
  <1>3. DOMAIN tile = DOMAIN NoTile /\ IsSequence(tile.bytes)
    BY <1>1 DEF ParserInv, RectInv
  <1>4. CASE ReadHextileMask \/ ReadHextileColour \/ ReadHextileSubrectCount
    <2>1. ~HextileFieldsRead
      <3>1. CASE ReadHextileMask
        BY <3>1 DEF ReadHextileMask, HextileMaskReady, HextileFieldsRead
      <3>2. CASE ReadHextileColour \/ ReadHextileSubrectCount
        <4>1. PICK i \in 1..3 : FieldDue(i)
          BY <3>2 DEF ReadHextileColour, ReadHextileSubrectCount, HextileColourReady, HextileCountReady
        <4> QED  BY <4>1 DEF FieldDue, HextileFieldsRead
      <3> QED  BY <1>4, <3>1, <3>2
    <2>2. tile.bytes = <<>>
      BY <1>1, <2>1 DEF OwnInv, OwnBytesOnly
    <2>3. tile'.bytes = tile.bytes
      BY <1>3, <1>4, TileFields DEF ReadHextileMask, ReadHextileColour, ReadHextileSubrectCount
    <2> QED  BY <2>2, <2>3 DEF TileOwn
  <1>5. CASE ReadHextileTileData
    <2> DEFINE bytes == tile.bytes
    <2>1. PICK n \in Nat : n = HextileTileBytes
      BY BytesExpected DEF ParserInv
    <2>2. HextileFieldsRead /\ ~(Len(bytes) >= n)
      BY <1>5, <2>1 DEF ReadHextileTileData, HextileDataReady, HextileTileReady
    <2>3. /\ tile'.index = tile.index /\ tile'.type = tile.type /\ tile'.typeRead = tile.typeRead
          /\ tile'.didRead = tile.didRead /\ tile'.subrects = tile.subrects
          /\ tile'.bytes = Collected(bytes, n, mReceiveBuffer)
      BY <1>3, <1>5, <2>1, TileFields DEF ReadHextileTileData
    <2>4. Len(bytes) \in Nat /\ Len(bytes) <= n
      BY <1>3, <2>2 DEF IsSequence
    <2>5. Len(tile'.bytes) <= n
      BY <1>3, <2>3, <2>4, CollectedFits DEF ParserInv, RoomInv
    <2>6. HextileTileBytes' = n /\ HextileFieldsRead'
      BY <1>1, <2>1, <2>2, <2>3, SameTile
    <2> QED  BY <2>5, <2>6 DEF TileOwn
  <1>6. CASE FinishHextileTile
    <2>1. tile'.bytes = <<>>
      BY <1>6, TileFields DEF FinishHextileTile, NextTile
    <2> QED  BY <2>1 DEF TileOwn
  <1> QED  BY <1>4, <1>5, <1>6

(* What zlib got is counted. *)
LEMMA OwnStream ==
    ASSUME ParserInv, OwnInv, ReadZlibHeader \/ ReadCompressed
    PROVE  OwnInv'
  <1>1. rect.encoding \in Compressed /\ UNCHANGED <<rect, data>>
    BY DEF ReadZlibHeader, ReadCompressed, ZlibHeaderReady, CompressedReady, ReadingCompressed, Reading
  <1>2. DataOwn' /\ TileOwn'
    BY <1>1, DataLeftAlone, OwnParts DEF TileOwn, Compressed
  <1>3. /\ DOMAIN zlib = Compressed /\ DOMAIN Zlib = DOMAIN NewZlibPlain
        /\ Zlib.expected \in Nat /\ Zlib.received \in Nat
    BY <1>1 DEF ParserInv, ZlibInv, Zlib
  <1>4. StreamOwn(Zlib)
    BY <1>1, OwnParts DEF Zlib
  <1>5. PICK z : zlib' = [zlib EXCEPT ![rect.encoding] = z] /\ StreamOwn(z)
    <2>1. CASE ReadZlibHeader
      <3>1. PICK n \in Nat :
                zlib' = [zlib EXCEPT ![rect.encoding].hasHeader = TRUE, ![rect.encoding].expected = n]
        BY <2>1, Numbers DEF ReadZlibHeader
      <3> DEFINE z == [Zlib EXCEPT !.hasHeader = TRUE, !.expected = n]
      <3>2. zlib' = [zlib EXCEPT ![rect.encoding] = z]
        BY <1>1, <1>3, <3>1 DEF Zlib
      <3>3. z.hasHeader = TRUE /\ z.expected = n /\ z.received = Zlib.received
        BY <1>3, ZlibFields
      <3>4. Zlib.received = 0
        BY <1>4, <2>1 DEF ReadZlibHeader, ZlibHeaderReady, StreamOwn
      <3>5. StreamOwn(z)
        BY <3>3, <3>4 DEF StreamOwn
      <3> QED  BY <3>2, <3>5
    <2>2. CASE ReadCompressed
      <3> DEFINE z == uncompressTo(Zlib, CompressedAvailable)
      <3>1. zlib' = [zlib EXCEPT ![rect.encoding] = z]
        BY <1>1, <1>3, <2>2 DEF ReadCompressed, Zlib
      <3>2. Zlib.hasHeader /\ CompressedAvailable # <<>>
        BY <2>2 DEF ReadCompressed, CompressedReady
      <3>3. z.hasHeader = Zlib.hasHeader /\ z.expected = Zlib.expected
            /\ z.received = Zlib.received + Len(CompressedAvailable)
        BY <1>3, ZlibFields DEF uncompressTo
      <3>4. Available \in Nat
        BY Counted DEF ParserInv
      <3>5. PICK n \in Int : n = Least(Zlib.expected - Zlib.received, Available)
        BY <1>3, <3>4 DEF Least
      <3>6. CompressedAvailable = SubSeq(mReceiveBuffer, 1, n)
        BY <3>5 DEF CompressedAvailable
      <3>7. n > 0
        BY <3>2, <3>6
      <3>8. n \in Nat /\ n <= Available /\ n <= Zlib.expected - Zlib.received
        BY <1>3, <3>4, <3>5, <3>7 DEF Least
      <3>9. Len(CompressedAvailable) = n
        BY <3>6, <3>8, Part DEF ParserInv, RoomInv, Available
      <3> HIDE DEF z
      <3>10. z.received <= z.expected
        BY <1>3, <3>3, <3>8, <3>9
      <3>11. StreamOwn(z)
        BY <3>2, <3>3, <3>10 DEF StreamOwn
      <3> QED  BY <3>1, <3>11
    <2> QED  BY <2>1, <2>2
  <1>6. \A encoding \in Compressed : StreamOwn(zlib'[encoding])
    <2>1. \A encoding \in Compressed : zlib'[encoding] = z \/ zlib'[encoding] = zlib[encoding]
      BY <1>1, <1>3, <1>5
    <2> QED  BY <1>5, <2>1, OwnParts
  <1> QED  BY <1>2, <1>6, OwnPartsNext

(* What counts as received of a rectangle without pixels. *)
LEMMA OwnEmptyZrle ==
    ASSUME ParserInv, OwnInv, ReadEmptyZrle
    PROVE  OwnInv'
  <1>1. rect.encoding = "ZRLE" /\ UNCHANGED <<rect, data>>
    BY DEF ReadEmptyZrle, EmptyZrleReady, Reading
  <1>2. DataOwn' /\ TileOwn'
    BY <1>1, DataLeftAlone, OwnParts, CompressedTile DEF Compressed
  <1>3. /\ DOMAIN zlib = Compressed /\ "ZRLE" \in Compressed
        /\ DOMAIN zlib["ZRLE"] = DOMAIN NewZlibPlain /\ Zlib = zlib["ZRLE"]
        /\ zlib["ZRLE"].expected \in Nat /\ zlib["ZRLE"].received \in Nat
    BY <1>1 DEF ParserInv, ZlibInv, Zlib, Compressed
  <1>4. Available \in Nat /\ (Zlib.hasHeader \/ Available >= 4)
    BY DEF ReadEmptyZrle, EmptyZrleReady, ParserInv, RoomInv, IsSequence, Available
  <1>5. PICK expected \in Nat :
            expected = IF Zlib.hasHeader THEN Zlib.expected ELSE Number(mReceiveBuffer[1])
    BY <1>3, Numbers
  <1>6. PICK received \in Nat :
            received = IF Zlib.hasHeader THEN Zlib.received + Available ELSE Available - 4
    BY <1>3, <1>4
  <1>7. PICK n \in Nat : n = Least(received, expected) /\ n <= expected
    BY DEF Least
  <1>8. zlib' = [zlib EXCEPT !["ZRLE"] =
                    [@ EXCEPT !.hasHeader = TRUE, !.expected = expected, !.received = n]]
    BY <1>5, <1>6, <1>7 DEF ReadEmptyZrle
  <1>9. ASSUME NEW encoding \in Compressed  PROVE StreamOwn(zlib'[encoding])
    <2>1. CASE encoding = "ZRLE"
      BY <1>3, <1>7, <1>8, <2>1, ZlibFields DEF StreamOwn
    <2>2. CASE encoding # "ZRLE"
      BY <1>3, <1>8, <2>2, OwnParts
    <2> QED  BY <2>1, <2>2
  <1> QED  BY <1>2, <1>9, OwnPartsNext

(* The parser of tiles takes its bytes from what zlib puts out. *)
LEMMA OwnZrle ==
    ASSUME ParserInv, OwnInv,
           \/ ReadZrleType \/ ReadZrleTileData \/ FinishZrleTile \/ ReadSolidTile \/ ReadRun
    PROVE  OwnInv'
  <1>1. rect.encoding = "ZRLE" /\ UNCHANGED <<rect, data>>
    BY DEF ReadZrleType, ReadZrleTileData, FinishZrleTile, ReadSolidTile, ReadRun, ZrleStep,
           InZrleTile, Reading
  <1>2. DataOwn' /\ TileOwn'
    BY <1>1, DataLeftAlone, OwnParts DEF TileOwn
  <1>3. UNCHANGED zlib \/ \E out : zlib' = [zlib EXCEPT !["ZRLE"].out = out]
    BY DEF ReadZrleType, ReadZrleTileData, FinishZrleTile, ReadSolidTile, ReadRun, Skip
  <1>4. \A encoding \in Compressed : StreamOwn(zlib'[encoding])
    <2>1. CASE UNCHANGED zlib
      BY <2>1, OwnParts
    <2>2. ASSUME NEW out, zlib' = [zlib EXCEPT !["ZRLE"].out = out], NEW encoding \in Compressed
          PROVE  StreamOwn(zlib'[encoding])
      <3>1. DOMAIN zlib = Compressed /\ DOMAIN zlib[encoding] = DOMAIN NewZlibPlain
        BY DEF ParserInv, ZlibInv
      <3>2. /\ zlib'[encoding].hasHeader = zlib[encoding].hasHeader
            /\ zlib'[encoding].expected = zlib[encoding].expected
            /\ zlib'[encoding].received = zlib[encoding].received
        BY <2>2, <3>1, ZlibFields
      <3> QED  BY <3>2, OwnParts DEF StreamOwn
    <2> QED  BY <1>3, <2>1, <2>2
  <1> QED  BY <1>2, <1>4, OwnPartsNext

(* No rectangle is being read. *)
LEMMA OwnFresh ==
    ASSUME rect' = NoRect, \A encoding \in Compressed : \E z : zlib'[encoding] = clearZlibPlain(z)
    PROVE  OwnInv'
  <1>1. ASSUME NEW encoding \in Compressed  PROVE StreamOwn(zlib'[encoding])
    <2>1. PICK z : zlib'[encoding] = clearZlibPlain(z)
      OBVIOUS
    <2>2. zlib'[encoding].hasHeader = FALSE /\ zlib'[encoding].received = 0
      BY <2>1 DEF clearZlibPlain
    <2> QED  BY <2>2 DEF StreamOwn
  <1>2. DataOwn' /\ TileOwn'
    BY NoRectIs DEF DataOwn, SubrectsInv, TileOwn
  <1> QED  BY <1>1, <1>2, OwnPartsNext

LEMMA OwnReset ==
    ASSUME resetRectParsers \/ resetRectParserConnections
    PROVE  OwnInv'
  <1>1. rect' = NoRect
    BY DEF resetRectParsers, resetRectParserConnections
  <1>2. \/ zlib' = [encoding \in Compressed |-> clearZlibPlain(zlib[encoding])]
        \/ zlib' = [encoding \in Compressed |-> NewZlibPlain]
    BY DEF resetRectParsers, resetRectParserConnections
  <1>3. \A encoding \in Compressed : \E z : zlib'[encoding] = clearZlibPlain(z)
    BY <1>2, Zenon DEF NewZlibPlain
  <1> QED  BY <1>1, <1>3, OwnFresh

(* Nothing is collected of a rectangle that begins. *)
LEMMA OwnHeader ==
    ASSUME ParserInv, OwnInv, readRectHeader
    PROVE  OwnInv'
  <1>1. rect = NoRect /\ rect' = Header /\ UNCHANGED <<data, zlib>>
    BY DEF readRectHeader, BetweenRects
  <1>2. data' = <<>> /\ tile'.bytes = <<>>
    <2>1. data = <<>> /\ tile = NoTile
      BY <1>1, NoRectIs DEF ParserInv, RectInv
    <2>2. tile' = tile \/ tile' = [tile EXCEPT !.calls = 3]
      BY DEF readRectHeader
    <2> QED  BY <1>1, <2>1, <2>2, TileFields
  <1>3. PICK w \in Nat, h \in Nat : rect'.w = w /\ rect'.h = h
    BY <1>1, Numbers DEF Header
  <1>4. RectBytes' \in Nat /\ CursorDataBytes' \in Nat
    <2>1. w * h \in Nat /\ BytesPerPixel \in Nat /\ (w + 7) \div 8 \in Nat
      BY Limits, Naturals
    <2>2. w * h * BytesPerPixel \in Nat /\ ((w + 7) \div 8) * h \in Nat
      BY <2>1, Naturals
    <2>3. w * h * BytesPerPixel + ((w + 7) \div 8) * h \in Nat
      BY <2>2, Naturals
    <2> QED  BY <1>3, <2>2, <2>3 DEF RectBytes, CursorDataBytes, CursorBytes, CursorMaskBytes
  <1>5. DataOwn' /\ TileOwn'
    BY <1>2, <1>4, Empty DEF DataOwn, SubrectsInv, TileOwn
  <1> QED  BY <1>1, <1>5, OwnParts, OwnPartsNext

LEMMA OwnInit == Init => OwnInv
  <1> SUFFICES ASSUME Init  PROVE OwnInv
    OBVIOUS
  <1>1. \A encoding \in Compressed : zlib[encoding] = NewZlibPlain
    BY DEF Init
  <1>2. \A encoding \in Compressed : StreamOwn(zlib[encoding])
    BY <1>1 DEF StreamOwn, NewZlibPlain, clearZlibPlain
  <1>3. DataOwn /\ TileOwn
    BY NoRectIs DEF Init, DataOwn, SubrectsInv, TileOwn
  <1> QED  BY <1>2, <1>3, OwnParts

LEMMA OwnProcessing ==
    ASSUME ParserInv, OwnInv, Processing
    PROVE  OwnInv'
  <1>1. CASE AllProcessed \/ HeaderWaits \/ ColourWaits \/ TextWaits \/ RectHeaderWaits \/ RectDataWaits
    <2>1. WaitForMore
      BY <1>1 DEF AllProcessed, HeaderWaits, ColourWaits, TextWaits, RectHeaderWaits, RectDataWaits
    <2> QED  BY <2>1, LeftAlone DEF WaitForMore, parserVars
  <1>2. CASE UnexpectedMessage \/ RectRefused \/ RectDataFails
    BY <1>2, OwnReset DEF UnexpectedMessage, RectRefused, RectDataFails, Fail, closeSocket
  <1>3. CASE \/ chooseParser \/ processMessageBell \/ \E type \in Parsers : readHeader(type)
             \/ readColour \/ readText
    BY <1>3, LeftAlone DEF chooseParser, processMessageBell, readHeader, readColour, readText, parserVars
  <1>4. CASE finishColours \/ finishText \/ finishUpdate
    BY <1>4, LeftAlone DEF finishColours, finishText, finishUpdate, Finish, parserVars
  <1>5. CASE readRectHeader
    BY <1>5, OwnHeader
  <1>6. CASE readRectData
    BY <1>6, OwnPixels, OwnSubrects, OwnTile, OwnStream, OwnZrle, OwnEmptyZrle
      DEF readRectData, ReadRectData
  <1>7. CASE finishRect
    BY <1>7, OwnReset DEF finishRect
  <1> QED  BY <1>1, <1>2, <1>3, <1>4, <1>5, <1>6, <1>7 DEF Processing

LEMMA OwnStep == ParserInv /\ OwnInv /\ [Next]_vars => OwnInv'
  <1> SUFFICES ASSUME ParserInv, OwnInv, [Next]_vars  PROVE OwnInv'
    OBVIOUS
  <1>1. CASE Connect
    BY <1>1, LeftAlone DEF Connect, parserVars
  <1>5. CASE Receive
    <2>1. UNCHANGED <<rect, data, zlib>> /\ callsFor(1)
      BY <1>5 DEF Receive
    <2>2. CASE ~EmptyZrle
      BY <2>1, <2>2, LeftAlone DEF callsFor
    <2>3. CASE EmptyZrle
      <3>1. DataOwn' /\ TileOwn'
        BY <2>1, <2>3, OwnParts, DataLeftAlone, CompressedTile DEF EmptyZrle, Compressed
      <3>2. \A encoding \in Compressed : StreamOwn(zlib'[encoding])
        BY <2>1, OwnParts
      <3> QED  BY <3>1, <3>2, OwnPartsNext
    <2> QED  BY <2>2, <2>3
  <1>2. CASE ConnectionEnds \/ AstrayEnds \/ BufferFull
    BY <1>2, OwnReset DEF ConnectionEnds, AstrayEnds, BufferFull, closeSocket
  <1>3. CASE Processing
    BY <1>3, OwnProcessing
  <1>4. CASE UNCHANGED vars
    BY <1>4, LeftAlone DEF vars, parserVars
  <1> QED  BY <1>1, <1>2, <1>3, <1>4, <1>5 DEF Next

-----------------------------------------------------------------------------
(* The tiles of a rectangle, of whatever size it and they are. *)

LEMMA Divided ==
    ASSUME NEW a \in Nat, NEW b \in Nat \ {0}
    PROVE  /\ a \div b \in Nat /\ a % b \in 0..(b - 1)
           /\ a = b * (a \div b) + (a % b)
  <1>1. a \div b \in Nat
    OBVIOUS
  <1>2. a % b \in 0..(b - 1)
    OBVIOUS
  <1>3. a = b * (a \div b) + (a % b)
    OBVIOUS
  <1> QED  BY <1>1, <1>2, <1>3, Zenon

LEMMA Ordered ==
    ASSUME NEW b \in Nat \ {0}, NEW m \in Int, NEW n \in Int, m < n
    PROVE  b * m + b <= b * n
  <1>1. PICK d \in Nat : n = m + 1 + d
    <2>1. n - m - 1 \in Nat /\ n = m + 1 + (n - m - 1)
      OBVIOUS
    <2> QED  BY <2>1
  <1>2. b * d \in Nat
    OBVIOUS
  <1>3. b * n = b * m + b + b * d
    BY <1>1
  <1> QED  BY <1>2, <1>3

LEMMA Quotient ==
    ASSUME NEW b \in Nat \ {0}, NEW q \in Nat, NEW r \in Nat, r < b,
           NEW a \in Nat, a = b * q + r
    PROVE  a \div b = q /\ a % b = r
  <1> DEFINE p == a \div b
             t == a % b
  <1>1. p \in Nat /\ t \in Nat /\ t < b /\ a = b * p + t
    BY Divided
  <1> HIDE DEF p, t
  <1>2. ~(p < q)
    <2> SUFFICES ASSUME p < q PROVE FALSE
      OBVIOUS
    <2>1. b * p + b <= b * q
      BY <1>1, Ordered
    <2>2. b * p \in Int /\ b * q \in Int
      BY <1>1
    <2> QED  BY <1>1, <2>1, <2>2
  <1>3. ~(q < p)
    <2> SUFFICES ASSUME q < p PROVE FALSE
      OBVIOUS
    <2>1. b * q + b <= b * p
      BY <1>1, Ordered
    <2>2. b * p \in Int /\ b * q \in Int
      BY <1>1
    <2> QED  BY <1>1, <2>1, <2>2
  <1>4. p = q
    BY <1>1, <1>2, <1>3
  <1>5. t = r
    <2>1. b * q \in Int
      OBVIOUS
    <2> QED  BY <1>1, <1>4, <2>1
  <1> QED  BY <1>4, <1>5 DEF p, t

(* The columns of the tiles of a line: each begins s pixels behind the one  *)
(* before it, and the last ends with the line.                             *)
Length(c, w, s) == IF c = TileColumns(w, s) - 1 /\ w % s # 0 THEN w % s ELSE s

LEMMA ColumnsAre ==
    ASSUME NEW s \in Nat \ {0}, NEW w \in Nat
    PROVE  /\ TileColumns(w, s) \in Nat
           /\ w % s = 0 => s * TileColumns(w, s) = w
           /\ w % s # 0 => TileColumns(w, s) # 0 /\ s * (TileColumns(w, s) - 1) + (w % s) = w
  <1> DEFINE q == w \div s
             r == w % s
  <1>1. q \in Nat /\ r \in Nat /\ r < s /\ w = s * q + r
    BY Divided
  <1> HIDE DEF q
  <1>2. s * q \in Nat
    BY <1>1
  <1>3. CASE r = 0
    <2>1. w + s - 1 = s * q + (s - 1) /\ w + s - 1 \in Nat /\ s - 1 \in Nat /\ s - 1 < s
      BY <1>1, <1>2, <1>3
    <2>2. TileColumns(w, s) = q
      BY <1>1, <2>1, Quotient DEF TileColumns
    <2> QED  BY <1>1, <1>3, <2>2
  <1>4. CASE r # 0
    <2>1. s * (q + 1) = s * q + s
      BY <1>1
    <2>2. w + s - 1 = s * (q + 1) + (r - 1) /\ w + s - 1 \in Nat /\ r - 1 \in Nat /\ r - 1 < s
      BY <1>1, <1>2, <1>4, <2>1
    <2>3. TileColumns(w, s) = q + 1
      <3>1. PICK k \in Nat : k = q + 1
        BY <1>1
      <3>2. PICK t \in Nat : t = r - 1 /\ t < s
        BY <2>2
      <3>3. PICK a \in Nat : a = w + s - 1 /\ a = s * k + t
        BY <2>2, <3>1, <3>2
      <3>4. a \div s = k
        <4>1. a = s * k + t /\ t < s
          BY <3>2, <3>3
        <4> QED  BY <4>1, Quotient
      <3> QED  BY <3>1, <3>3, <3>4 DEF TileColumns
    <2>4. TileColumns(w, s) - 1 = q /\ TileColumns(w, s) \in Nat /\ TileColumns(w, s) # 0
      BY <1>1, <2>3
    <2>5. s * (TileColumns(w, s) - 1) = s * q
      BY <2>4
    <2> QED  BY <1>1, <1>2, <1>4, <2>4, <2>5
  <1> QED  BY <1>3, <1>4

(* A pixel of the line is in the column of its quotient, and in no other. *)
LEMMA OneColumn ==
    ASSUME NEW s \in Nat \ {0}, NEW w \in Nat, NEW x \in Int, NEW c \in 0..(TileColumns(w, s) - 1)
    PROVE  x \in (c * s)..(c * s + Length(c, w, s) - 1) <=> x \in 0..(w - 1) /\ c = x \div s
  <1> DEFINE n == TileColumns(w, s)
             r == w % s
  <1>1. /\ n \in Nat /\ r \in Nat /\ r < s
        /\ r = 0 => s * n = w
        /\ r # 0 => n # 0 /\ s * (n - 1) + r = w
    BY ColumnsAre, Divided
  <1>2. c \in Nat /\ c <= n - 1 /\ Length(c, w, s) = IF c = n - 1 /\ r # 0 THEN r ELSE s
    BY <1>1 DEF Length
  <1> HIDE DEF n, r
  <1>3. c * s = s * c /\ s * c \in Nat
    BY <1>2
  <1>4. c # n - 1 => s * c + s <= s * (n - 1)
    BY <1>1, <1>2, Ordered
  <1>5. s * (n - 1) + s = s * n /\ s * (n - 1) \in Int
    BY <1>1
  <1>6. s * c + Length(c, w, s) <= w
    <2>1. CASE c = n - 1 /\ r # 0
      BY <1>1, <1>2, <2>1
    <2>2. CASE c = n - 1 /\ r = 0
      <3>1. s * c = s * (n - 1)
        BY <2>2
      <3> QED  BY <1>1, <1>2, <1>5, <2>2, <3>1
    <2>3. CASE c # n - 1
      <3>1. Length(c, w, s) = s
        BY <1>2, <2>3
      <3> QED  BY <1>1, <1>3, <1>4, <1>5, <2>3, <3>1
    <2> QED  BY <2>1, <2>2, <2>3
  <1>7. ASSUME x \in (c * s)..(c * s + Length(c, w, s) - 1)
        PROVE  x \in 0..(w - 1) /\ c = x \div s
    <2>1. Length(c, w, s) \in Nat /\ Length(c, w, s) <= s
      BY <1>1, <1>2
    <2>2. x \in Nat /\ x - s * c \in Nat /\ x - s * c < s /\ x = s * c + (x - s * c)
      BY <1>3, <1>7, <2>1
    <2>3. x \div s = c
      <3>1. PICK k \in Nat : k < s /\ x = s * c + k
        BY <2>2
      <3> QED  BY <1>2, <2>2, <3>1, Quotient
    <2>4. x <= w - 1
      BY <1>3, <1>6, <1>7, <2>1
    <2> QED  BY <2>2, <2>3, <2>4
  <1>8. ASSUME x \in 0..(w - 1), c = x \div s
        PROVE  x \in (c * s)..(c * s + Length(c, w, s) - 1)
    <2> DEFINE t == x % s
               m == s * c
    <2>1. x \in Nat /\ x < w /\ x = m + t /\ t \in Nat /\ t < s
      BY <1>8, Divided
    <2> HIDE DEF t
    <2>2. CASE Length(c, w, s) = s
      BY <1>3, <2>1, <2>2
    <2>3. CASE Length(c, w, s) # s
      <3>1. c = n - 1 /\ s * (n - 1) + r = w /\ Length(c, w, s) = r
        BY <1>1, <1>2, <2>3
      <3>2. m = s * (n - 1) /\ m = c * s /\ m \in Nat
        BY <1>3, <3>1
      <3> HIDE DEF m
      <3>3. w = m + r
        BY <3>1, <3>2
      <3> QED  BY <1>1, <2>1, <3>1, <3>2, <3>3
    <2> QED  BY <2>2, <2>3
  <1> QED  BY <1>7, <1>8

(* Of a pixel of the line, the column is one of the line's. *)
LEMMA ColumnOf ==
    ASSUME NEW s \in Nat \ {0}, NEW w \in Nat, NEW x \in 0..(w - 1)
    PROVE  x \div s \in 0..(TileColumns(w, s) - 1)
  <1> DEFINE n == TileColumns(w, s)
             c == x \div s
  <1>1. /\ n \in Nat /\ w % s \in Nat /\ w % s < s
        /\ w % s = 0 => s * n = w
        /\ w % s # 0 => n # 0 /\ s * (n - 1) + (w % s) = w
    <2>1. w % s \in Nat /\ w % s < s
      BY Divided
    <2> QED  BY <2>1, ColumnsAre, Zenon
  <1>2. c \in Nat /\ x % s \in Nat /\ x % s < s /\ x = s * c + (x % s) /\ x \in Nat
    BY Divided
  <1> HIDE DEF n, c
  <1>3. s * (n - 1) + s = s * n /\ s * (n - 1) \in Int /\ s * n \in Int /\ s * c \in Nat
    BY <1>1, <1>2
  <1>4. w <= s * n
    BY <1>1, <1>3
  <1>5. SUFFICES ASSUME ~(c <= n - 1)  PROVE FALSE
    BY <1>1, <1>2 DEF n, c
  <1>6. n <= c
    BY <1>1, <1>2, <1>5
  <1>7. s * n <= s * c
    <2>1. CASE n = c
      BY <2>1, <1>3
    <2>2. CASE n < c
      <3>1. s * n + s <= s * c
        BY <1>1, <1>2, <2>2, Ordered
      <3> QED  BY <1>3, <3>1
    <2> QED  BY <1>1, <1>2, <1>6, <2>1, <2>2
  <1>8. s * c <= x
    BY <1>2, <1>3
  <1> QED  BY <1>2, <1>3, <1>4, <1>7, <1>8

LEMMA IndexIs ==
    ASSUME NEW n \in Nat, NEW m \in Nat, NEW i \in 0..(m * n - 1)
    PROVE  n # 0 /\ i % n \in 0..(n - 1) /\ i \div n \in 0..(m - 1) /\ i = (i \div n) * n + (i % n)
  <1>1. n # 0
    BY Z3
  <1> DEFINE q == i \div n
             r == i % n
  <1>2. q \in Nat /\ r \in 0..(n - 1) /\ i = n * q + r
    <2>1. i \in Nat /\ n \in Nat \ {0}
      BY <1>1
    <2> QED  BY <2>1, Divided, Zenon
  <1> HIDE DEF q, r
  <1>3. n * q = q * n /\ n * q \in Nat /\ m * n = n * m /\ n * m \in Nat
    BY <1>2
  <1>4. ~(m <= q)
    <2> SUFFICES ASSUME m <= q  PROVE FALSE
      OBVIOUS
    <2>1. n * m <= n * q
      <3>1. CASE m = q
        BY <1>3, <3>1
      <3>2. CASE m < q
        <4>1. n * m + n <= n * q
          BY <1>1, <1>2, <3>2, Ordered
        <4> QED  BY <1>3, <4>1
      <3> QED  BY <1>2, <3>1, <3>2
    <2> QED  BY <1>2, <1>3, <2>1
  <1> QED  BY <1>1, <1>2, <1>3, <1>4 DEF q, r

LEMMA IndexOf ==
    ASSUME NEW n \in Nat, NEW m \in Nat, NEW c \in 0..(n - 1), NEW r \in 0..(m - 1)
    PROVE  /\ r * n + c \in 0..(m * n - 1)
           /\ (r * n + c) % n = c /\ (r * n + c) \div n = r
  <1>1. n \in Nat \ {0} /\ c \in Nat /\ c < n /\ r \in Nat /\ r < m
    OBVIOUS
  <1>2. PICK a \in Nat : a = r * n + c
    BY <1>1
  <1>3. r * n = n * r /\ m * n = n * m /\ n * r \in Nat /\ n * m \in Nat
    BY <1>1
  <1>4. a = n * r + c
    BY <1>2, <1>3
  <1>5. a % n = c /\ a \div n = r
    BY <1>1, <1>4, Quotient
  <1>6. n * r + n <= n * m
    BY <1>1, Ordered
  <1>7. a \in 0..(m * n - 1)
    BY <1>1, <1>3, <1>4, <1>6
  <1> QED  BY <1>2, <1>5, <1>7

(* The tile of a pixel, as the server counts them, beginning with 0. *)
TileOf(x, y, w, s) == TileAt(x, y, w, s) - 1

LEMMA TileOfIs ==
    ASSUME NEW s \in Nat \ {0}, NEW w \in Nat, NEW x \in Int, NEW y \in Int
    PROVE  TileOf(x, y, w, s) = (y \div s) * TileColumns(w, s) + x \div s
  <1>1. (y \div s) * TileColumns(w, s) + x \div s \in Int
    <2>1. y \div s \in Int /\ x \div s \in Int /\ TileColumns(w, s) \in Int
      BY ColumnsAre
    <2>2. (y \div s) * TileColumns(w, s) \in Int
      BY <2>1
    <2> QED  BY <2>1, <2>2
  <1> QED  BY <1>1 DEF TileOf, TileAt

(* The tiles the Hextile and the ZRLE parser write (WriteTile()) are the   *)
(* rectangle, cut: every pixel of the rectangle is in the one tile the     *)
(* server has sent it in, no tile reaches beyond the rectangle, and the    *)
(* pixel taken for it is one of the tile's.                                *)
THEOREM TilesCoverTheRectangle ==
    ASSUME NEW s \in Nat \ {0}, NEW w \in Nat, NEW h \in Nat, NEW x \in Int, NEW y \in Int
    PROVE  /\ \A i \in 0..(TotalTiles(w, h, s) - 1) :
                InTile(x, y, i, w, h, s) <=> <<x, y>> \in Area(w, h) /\ i = TileOf(x, y, w, s)
           /\ \A i \in 0..(TotalTiles(w, h, s) - 1) :
                InTile(x, y, i, w, h, s) =>
                    PixelOfTile(x, y, i, w, s)
                        \in 0..(calculateTileWidth(i, w, s) * calculateTileHeight(i, w, h, s) - 1)
           /\ <<x, y>> \in Area(w, h) => TileOf(x, y, w, s) \in 0..(TotalTiles(w, h, s) - 1)
  <1> DEFINE n == TileColumns(w, s)
             m == TileRows(h, s)
  <1>1. n \in Nat /\ m \in Nat /\ m = TileColumns(h, s) /\ TotalTiles(w, h, s) = m * n
    BY ColumnsAre DEF TileColumns, TileRows, TotalTiles
  <1>2. <<x, y>> \in Area(w, h) <=> x \in 0..(w - 1) /\ y \in 0..(h - 1)
    BY DEF Area
  <1>3. ASSUME NEW i \in 0..(TotalTiles(w, h, s) - 1)
        PROVE  InTile(x, y, i, w, h, s) <=> <<x, y>> \in Area(w, h) /\ i = TileOf(x, y, w, s)
    <2> DEFINE c == i % n
               r == i \div n
    <2>1. n # 0 /\ c \in 0..(n - 1) /\ r \in 0..(m - 1) /\ i = r * n + c
      BY <1>1, IndexIs
    <2>2. /\ TileX(i, w, s) = c * s /\ calculateTileWidth(i, w, s) = Length(c, w, s)
          /\ TileY(i, w, s) = r * s /\ calculateTileHeight(i, w, h, s) = Length(r, h, s)
      BY <1>1 DEF TileX, TileY, calculateTileWidth, calculateTileHeight, Length
    <2> HIDE DEF c, r
    <2>3. x \in (c * s)..(c * s + Length(c, w, s) - 1) <=> x \in 0..(w - 1) /\ c = x \div s
      BY <2>1, OneColumn
    <2>4. y \in (r * s)..(r * s + Length(r, h, s) - 1) <=> y \in 0..(h - 1) /\ r = y \div s
      BY <1>1, <2>1, OneColumn
    <2>5. InTile(x, y, i, w, h, s) <=> <<x, y>> \in Area(w, h) /\ c = x \div s /\ r = y \div s
      BY <1>2, <2>2, <2>3, <2>4 DEF InTile
    <2>6. ASSUME <<x, y>> \in Area(w, h)
          PROVE  c = x \div s /\ r = y \div s <=> i = TileOf(x, y, w, s)
      <3> DEFINE d == x \div s
                 q == y \div s
      <3>1. d \in 0..(n - 1) /\ q \in 0..(m - 1)
        BY <1>1, <1>2, <2>6, ColumnOf
      <3>2. TileOf(x, y, w, s) = q * n + d
        BY TileOfIs
      <3> HIDE DEF d, q
      <3>3. (q * n + d) % n = d /\ (q * n + d) \div n = q
        <4>1. n \in Nat /\ m \in Nat
          BY <1>1
        <4> HIDE DEF n, m
        <4> QED  BY <3>1, <4>1, IndexOf
      <3>4. i = q * n + d => c = d /\ r = q
        BY <3>3 DEF c, r
      <3>5. c = d /\ r = q => i = q * n + d
        BY <2>1
      <3> QED  BY <3>2, <3>4, <3>5 DEF d, q
    <2> QED  BY <2>5, <2>6
  <1>4. <<x, y>> \in Area(w, h) => TileOf(x, y, w, s) \in 0..(TotalTiles(w, h, s) - 1)
    <2> SUFFICES ASSUME <<x, y>> \in Area(w, h)
                 PROVE  TileOf(x, y, w, s) \in 0..(TotalTiles(w, h, s) - 1)
      OBVIOUS
    <2>1. x \div s \in 0..(n - 1) /\ y \div s \in 0..(m - 1)
      BY <1>1, <1>2, ColumnOf
    <2>2. (y \div s) * n + x \div s \in 0..(m * n - 1)
      <3>1. PICK c \in 0..(n - 1), r \in 0..(m - 1) : c = x \div s /\ r = y \div s
        BY <2>1
      <3>2. n \in Nat /\ m \in Nat
        BY <1>1
      <3> HIDE DEF n, m
      <3>3. r * n + c \in 0..(m * n - 1)
        BY <3>2, IndexOf
      <3> QED  BY <3>1, <3>3
    <2> QED  BY <1>1, <2>2, TileOfIs
  <1>5. ASSUME NEW i \in 0..(TotalTiles(w, h, s) - 1), InTile(x, y, i, w, h, s)
        PROVE  PixelOfTile(x, y, i, w, s)
                    \in 0..(calculateTileWidth(i, w, s) * calculateTileHeight(i, w, h, s) - 1)
    <2>1. PICK v, u : v = TileX(i, w, s) /\ u = TileY(i, w, s)
      OBVIOUS
    <2>2. v \in Nat /\ u \in Nat
      <3>1. i % n \in Nat /\ i \div n \in Nat
        <4>1. i \in 0..(m * n - 1) /\ n \in Nat /\ m \in Nat
          BY <1>1
        <4> HIDE DEF n, m
        <4>2. i % n \in 0..(n - 1) /\ i \div n \in 0..(m - 1)
          BY <4>1, IndexIs
        <4> QED  BY <4>1, <4>2
      <3>2. (i % n) * s \in Nat /\ (i \div n) * s \in Nat
        BY <3>1
      <3> QED  BY <2>1, <3>2 DEF TileX, TileY
    <2>3. PICK a \in Nat, b \in Nat :
            a = calculateTileWidth(i, w, s) /\ b = calculateTileHeight(i, w, h, s)
      <3>1. w % s \in Nat /\ h % s \in Nat /\ s \in Nat
        BY Divided
      <3> QED  BY <3>1, Zenon DEF calculateTileWidth, calculateTileHeight
    <2>4. PICK c \in 0..(a - 1), r \in 0..(b - 1) : c = x - v /\ r = y - u
      <3>1. x \in v..(v + a - 1) /\ y \in u..(u + b - 1)
        BY <1>5, <2>1, <2>3 DEF InTile
      <3> QED  BY <2>2, <3>1
    <2>5. r * a + c \in 0..(b * a - 1)
      BY IndexOf
    <2>6. b * a = a * b
      OBVIOUS
    <2>7. PixelOfTile(x, y, i, w, s) = r * a + c
      BY <2>1, <2>3, <2>4 DEF PixelOfTile
    <2> QED  BY <2>3, <2>5, <2>6, <2>7
  <1> QED  BY <1>3, <1>4, <1>5

-----------------------------------------------------------------------------
(* In whatever chunks the bytes of the modelled servers arrive and wherever *)
(* connections end, until the parsers lose step with the stream: no        *)
(* rectangle outside of an update, no more of a message read than it has,  *)
(* no more received than the buffer holds; and the thread waits with less  *)
(* than a field in its buffer, but for a ZRLE rectangle without pixels.    *)
THEOREM ParserInvariant == Spec => []ParserInv
  <1> QED  BY ParserInvInit, ParserInvStep, PTL DEF Spec

(* A thread that waits has room for more bytes, but of a ZRLE rectangle    *)
(* without pixels, as long as the parsers have not lost step: there the    *)
(* error "Receive buffer full" of handleConnectedSocketData() is not       *)
(* reached, wherever the bytes are cut.                                    *)
THEOREM BufferAlwaysHasRoom == Spec => []BufferHasRoom
  <1>1. ParserInv => BufferHasRoom
    <2> SUFFICES ASSUME ParserInv, pc = "select", ~astray, ~EmptyZrle
                 PROVE  Available < MaxReceiveBufferSize
      BY DEF BufferHasRoom
    <2>1. Available \in Nat /\ (Available < 12 \/ Available < BytesPerPixel + 8)
      BY Counted DEF ParserInv, RoomInv
    <2> QED  BY <2>1, Limits
  <1> QED  BY <1>1, ParserInvariant, PTL

(* However the bytes are cut, no parser of rectangles takes a byte behind  *)
(* the part that is its own, as its own header gives it: readRectData()    *)
(* leaves the next rectangle, tile and message what is theirs.  Nothing is *)
(* said of a connection once the parsers have lost step.                   *)
THEOREM NoParserOverruns == Spec => []OwnBytesOnly
  <1>1. Spec => [](ParserInv /\ OwnInv)
    BY ParserInvInit, ParserInvStep, OwnInit, OwnStep, PTL DEF Spec
  <1>2. OwnInv => OwnBytesOnly
    BY DEF OwnInv
  <1> QED  BY <1>1, <1>2, PTL
===============================================================================
