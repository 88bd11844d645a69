--------------------------------- MODULE Tiles ---------------------------------
(***************************************************************************)
(* How the Hextile and ZRLE encodings cut a rectangle into tiles: tiles of *)
(* size s by s in rows, the last column and the last row possibly smaller. *)
(* A rectangle is w by h pixels; a pixel of it is <<x, y>>.                *)
(***************************************************************************)
EXTENDS Integers

(* The pixels of a rectangle. *)
Area(w, h) == (0..(w - 1)) \X (0..(h - 1))

TileColumns(w, s) == (w + s - 1) \div s

TileRows(h, s) == (h + s - 1) \div s

TotalTiles(w, h, s) == TileRows(h, s) * TileColumns(w, s)

calculateTileWidth(i, w, s) ==
    IF i % TileColumns(w, s) = TileColumns(w, s) - 1 /\ w % s # 0 THEN w % s ELSE s

calculateTileHeight(i, w, h, s) ==
    IF i \div TileColumns(w, s) = TileRows(h, s) - 1 /\ h % s # 0 THEN h % s ELSE s

TileX(i, w, s) == (i % TileColumns(w, s)) * s

TileY(i, w, s) == (i \div TileColumns(w, s)) * s

(* The picture with the pixels of a part of it replaced by a colour. *)
fillSubrectInRect(picture, x, y, w, h, colour) ==
    [p \in DOMAIN picture |->
        IF p[1] \in x..(x + w - 1) /\ p[2] \in y..(y + h - 1) THEN colour ELSE picture[p]]

(* Pixel <<x, y>> belongs to tile i; it is that pixel of the tile, counted  *)
(* along its rows.                                                         *)
InTile(x, y, i, w, h, s) ==
    /\ x \in TileX(i, w, s)..(TileX(i, w, s) + calculateTileWidth(i, w, s) - 1)
    /\ y \in TileY(i, w, s)..(TileY(i, w, s) + calculateTileHeight(i, w, h, s) - 1)

PixelOfTile(x, y, i, w, s) ==
    (y - TileY(i, w, s)) * calculateTileWidth(i, w, s) + (x - TileX(i, w, s))

(* The picture with tile i replaced by its pixels. *)
WriteTile(picture, i, w, h, s, colours) ==
    [p \in DOMAIN picture |->
        IF InTile(p[1], p[2], i, w, h, s) THEN colours[PixelOfTile(p[1], p[2], i, w, s)]
        ELSE picture[p]]
=============================================================================
