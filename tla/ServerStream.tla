------------------------------ MODULE ServerStream ------------------------------
(***************************************************************************)
(* What a server sends in a connection: messages, what they mean, and the  *)
(* bytes they become.  The first byte of a field holds its value, the      *)
(* others are Rest.  This is the protocol the parsers of the library read, *)
(* not code of the library.                                                *)
(*                                                                         *)
(* A rectangle is [encoding, x, y, w, h, malformed, body]; what its body   *)
(* is depends on the encoding.  The body of a malformed rectangle is the   *)
(* bytes sent for it.                                                      *)
(***************************************************************************)
EXTENDS Tiles, Sequences, FiniteSets

LOCAL INSTANCE SequencesExt

CONSTANTS
    BytesPerPixel, ZrleBytesPerPixel,
    HextileSize,        \* 16
    ZrleSize,           \* mMaxTileWidth, mMaxTileHeight: 64
    RunByte,            \* the byte that continues a run length: 255
    PackedTogether,     \* a packed palette tile comes out of zlib as a whole
    Rest,               \* a byte of a field other than its first
    Undefined           \* the colour of a pixel of memory nothing was written to

ASSUME SizesAssumption ==
    /\ {BytesPerPixel, ZrleBytesPerPixel, HextileSize, ZrleSize, RunByte} \subseteq Nat \ {0}
    /\ ZrleBytesPerPixel <= BytesPerPixel

IsSequence(s) == Len(s) \in Nat /\ s = [i \in 1..Len(s) |-> s[i]]

Field(value, n) == <<value>> \o [i \in 1..(n - 1) |-> Rest]

Each(s, Cells(_)) == FlattenSeq([i \in 1..Len(s) |-> Cells(s[i])])

Colours(pixels, size) == Each(pixels, LAMBDA c : Field(c, size))

-----------------------------------------------------------------------------
(* What the rectangles mean *)

(* A sequence of colours, along the lines of a rectangle of width w. *)
PixelOf(pixels, x, y, w) == pixels[y * w + x + 1]

Covers(r, x, y) == x \in r.x..(r.x + r.w - 1) /\ y \in r.y..(r.y + r.h - 1)

(* The colour of a pixel after the subrectangles were drawn in order. *)
Drawn(background, subrects, x, y) ==
    FoldLeft(LAMBDA c, r : IF Covers(r, x, y) THEN r.colour ELSE c, background, subrects)

(* The tile of pixel <<x, y>>, and the width of that tile. *)
TileAt(x, y, w, s) == (y \div s) * TileColumns(w, s) + x \div s + 1
TileWidthAt(x, w, s) == IF w - (x \div s) * s < s THEN w - (x \div s) * s ELSE s

(* A Hextile tile is [flags, background, foreground, subrects, pixels]; a  *)
(* colour that is not specified is the one specified last.                 *)
Specified(tiles, i, flag) ==
    CHOOSE j \in 1..i : flag \in tiles[j].flags /\ \A k \in (j + 1)..i : flag \notin tiles[k].flags

HextileColour(tiles, i, x, y, width) ==
    IF "Raw" \in tiles[i].flags THEN PixelOf(tiles[i].pixels, x, y, width)
    ELSE Drawn(tiles[Specified(tiles, i, "BackgroundSpecified")].background,
               [k \in 1..Len(tiles[i].subrects) |->
                   IF "SubrectsColoured" \in tiles[i].flags THEN tiles[i].subrects[k]
                   ELSE [tiles[i].subrects[k] EXCEPT !.colour =
                           tiles[Specified(tiles, i, "ForegroundSpecified")].foreground]],
               x, y)

(* The picture of a rectangle, on a screen with what was sent before it. *)
Meaning(r, screen) ==
    [p \in Area(r.w, r.h) |->
        CASE r.encoding \in {"Raw", "Zlib"} -> PixelOf(r.body, p[1], p[2], r.w)
          [] r.encoding = "CopyRect" -> screen[<<r.body.x + p[1], r.body.y + p[2]>>]
          [] r.encoding \in {"RRE", "CoRRE"} -> Drawn(r.body.background, r.body.subrects, p[1], p[2])
          [] r.encoding = "Hextile" ->
                HextileColour(r.body, TileAt(p[1], p[2], r.w, HextileSize),
                              p[1] % HextileSize, p[2] % HextileSize,
                              TileWidthAt(p[1], r.w, HextileSize))
          [] r.encoding = "ZRLE" ->
                PixelOf(r.body[TileAt(p[1], p[2], r.w, ZrleSize)].pixels,
                        p[1] % ZrleSize, p[2] % ZrleSize, TileWidthAt(p[1], r.w, ZrleSize))
          [] r.encoding = "Cursor" ->
                [colour |-> PixelOf(r.body.pixels, p[1], p[2], r.w), shown |-> p \in r.body.mask]]

-----------------------------------------------------------------------------
(* The bytes of a rectangle's data *)

SubrectBytes(r, size) ==
    Field(r.colour, BytesPerPixel) \o Field(r.x, size) \o Field(r.y, size)
        \o Field(r.w, size) \o Field(r.h, size)

RREBytes(body, size) ==
    Field(Len(body.subrects), 4) \o Field(body.background, BytesPerPixel)
        \o Each(body.subrects, LAMBDA r : SubrectBytes(r, size))

(* The mask, what it announces, and the pixels or the subrectangles. *)
HextileBytes(t) ==
    <<t.flags>> \o
    IF "Raw" \in t.flags THEN Colours(t.pixels, BytesPerPixel)
    ELSE (IF "BackgroundSpecified" \in t.flags THEN Field(t.background, BytesPerPixel) ELSE <<>>)
         \o (IF "ForegroundSpecified" \in t.flags THEN Field(t.foreground, BytesPerPixel) ELSE <<>>)
         \o (IF "AnySubrects" \in t.flags THEN <<Len(t.subrects)>> ELSE <<>>)
         \o Each(t.subrects, LAMBDA r :
                (IF "SubrectsColoured" \in t.flags THEN Field(r.colour, BytesPerPixel) ELSE <<>>)
                \o <<[x |-> r.x, y |-> r.y], [w |-> r.w - 1, h |-> r.h - 1]>>)

(* Columns b*8..b*8+7 of line y of a cursor's mask. *)
CursorMask(r) ==
    LET row == (r.w + 7) \div 8
    IN  [i \in 1..(row * r.h) |->
            {x \in 0..(r.w - 1) : x \div 8 = (i - 1) % row /\ <<x, (i - 1) \div row>> \in r.body.mask}]

(* The pixels as runs of one colour. *)
Runs(pixels) ==
    FoldLeft(LAMBDA runs, c :
                IF runs # <<>> /\ runs[Len(runs)].colour = c
                THEN [runs EXCEPT ![Len(runs)].length = @ + 1]
                ELSE Append(runs, [colour |-> c, length |-> 1]),
             <<>>, pixels)

RunLengthCells(n) ==
    [i \in 1..((n - 1) \div RunByte) |-> [run |-> RunByte]] \o <<[run |-> (n - 1) % RunByte]>>

(* A ZRLE tile is [kind, pixels]; width is needed for the lines of packed   *)
(* palette indexes.                                                        *)
IndexesIn(palette) == IF palette = 2 THEN 8 ELSE IF palette <= 4 THEN 4 ELSE 2

ZrleBytes(t, width) ==
    LET palette == SetToSeq({t.pixels[i] : i \in 1..Len(t.pixels)})
        Index(c) == (CHOOSE i \in 1..Len(palette) : palette[i] = c) - 1
        per == IndexesIn(Len(palette))
        row == (width + per - 1) \div per
    IN  <<[kind |-> t.kind, palette |-> Len(palette)]>> \o
        CASE t.kind = "Raw" -> Colours(t.pixels, ZrleBytesPerPixel)
          [] t.kind = "Solid" -> Field(t.pixels[1], ZrleBytesPerPixel)
          [] t.kind = "Packed" ->
                Colours(palette, ZrleBytesPerPixel)
                \o [b \in 1..(row * (Len(t.pixels) \div width)) |->
                       LET x == ((b - 1) % row) * per
                           y == (b - 1) \div row
                       IN  [k \in 1..(IF width - x < per THEN width - x ELSE per) |->
                               Index(PixelOf(t.pixels, x + k - 1, y, width))]]
          [] t.kind = "PlainRLE" ->
                Each(Runs(t.pixels), LAMBDA r : Field(r.colour, ZrleBytesPerPixel) \o RunLengthCells(r.length))
          [] t.kind = "PaletteRLE" ->
                Colours(palette, ZrleBytesPerPixel)
                \o Each(Runs(t.pixels), LAMBDA r :
                        <<[index |-> Index(r.colour), run |-> r.length > 1]>>
                        \o (IF r.length > 1 THEN RunLengthCells(r.length) ELSE <<>>))

ZrleTiles(r) ==
    FlattenSeq([i \in 1..Len(r.body) |->
        LET last == (i - 1) % TileColumns(r.w, ZrleSize) = TileColumns(r.w, ZrleSize) - 1
        IN  ZrleBytes(r.body[i], IF last THEN TileWidthAt(r.w - 1, r.w, ZrleSize) ELSE ZrleSize)])

(* The zlib stream: a compressed byte brings out a number of bytes, the     *)
(* last, which ends the nth rectangle's data, none.                        *)
Compress(plain, nth, ratio) ==
    LET parts == (Len(plain) + ratio - 1) \div ratio + 1
        End(i) == IF ratio * i <= Len(plain) THEN ratio * i ELSE Len(plain)
        byte(i) == [nth |-> nth, part |-> i, of |-> parts,
                    plain |-> SubSeq(plain, ratio * (i - 1) + 1, End(i))]
    IN  Field(parts, 4) \o [i \in 1..parts |-> byte(i)]

(* The body of a malformed rectangle begins with a tile's type. *)
Packed(r) ==
    \E i \in 1..(IF r.malformed THEN 1 ELSE Len(r.body)) : r.body[i].kind = "Packed"

ZrleStream(r, nth) ==
    Compress(IF r.malformed THEN r.body ELSE ZrleTiles(r), nth,
             IF PackedTogether /\ Packed(r) THEN 8 ELSE 2)

RectDataBytes(r, nth) ==
    CASE r.encoding = "ZRLE" -> ZrleStream(r, nth)
      [] r.encoding = "Zlib" -> Compress(IF r.malformed THEN r.body ELSE Colours(r.body, BytesPerPixel), nth, 2)
      [] r.malformed -> r.body
      [] r.encoding = "Raw" -> Colours(r.body, BytesPerPixel)
      [] r.encoding = "CopyRect" -> Field(r.body.x, 2) \o Field(r.body.y, 2)
      [] r.encoding = "RRE" -> RREBytes(r.body, 2)
      [] r.encoding = "CoRRE" -> RREBytes(r.body, 1)
      [] r.encoding = "Hextile" -> Each(r.body, HextileBytes)
      [] r.encoding = "Cursor" -> Colours(r.body.pixels, BytesPerPixel) \o CursorMask(r)

-----------------------------------------------------------------------------
(* The bytes of the messages *)

RectHeader(r) == [encoding |-> r.encoding, x |-> r.x, y |-> r.y, w |-> r.w, h |-> r.h]

IsUpdate(message) == message.type = "FramebufferUpdate"

(* The how manieth rectangle of its encoding rectangle j of message i is. *)
Nth(messages, i, j) ==
    Cardinality({at \in (1..i) \X (1..20) :
                    /\ IsUpdate(messages[at[1]])
                    /\ at[2] \in 1..Len(messages[at[1]].rects) /\ (at[1] = i => at[2] <= j)
                    /\ messages[at[1]].rects[at[2]].encoding = messages[i].rects[j].encoding})

MessageBytes(messages, i) ==
    LET message == messages[i]
        Begin(length, n) == Field([type |-> message.type, length |-> length], n)
    IN  CASE IsUpdate(message) ->
                Begin(Len(message.rects), 4) \o
                FlattenSeq([j \in 1..Len(message.rects) |->
                    Field(RectHeader(message.rects[j]), 12)
                        \o RectDataBytes(message.rects[j], Nth(messages, i, j))])
          [] message.type = "SetColourMapEntries" ->
                Begin(message.length, 6) \o [k \in 1..(6 * message.length) |-> [type |-> "colour"]]
          [] message.type = "ServerCutText" ->
                Begin(message.length, 8) \o [k \in 1..message.length |-> [type |-> "text"]]
          [] OTHER -> Begin(0, 1)

Bytes(messages) == FlattenSeq([i \in 1..Len(messages) |-> MessageBytes(messages, i)])
=============================================================================
