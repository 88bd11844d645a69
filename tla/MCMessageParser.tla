---------------------------- MODULE MCMessageParser ----------------------------
(* Scripts of messages for a framebuffer of 3x3 pixels and tiles of 2x2: a  *)
(* rectangle of the whole framebuffer has a tile of each shape.             *)
EXTENDS MessageParser

CONSTANTS red, green, blue

Rect(encoding, x, y, w, h, body) ==
    [encoding |-> encoding, x |-> x, y |-> y, w |-> w, h |-> h, malformed |-> FALSE, body |-> body]

Malformed(encoding, x, y, w, h, body) == [Rect(encoding, x, y, w, h, body) EXCEPT !.malformed = TRUE]

Update(rects) == [type |-> "FramebufferUpdate", rects |-> rects]

Bell == [type |-> "Bell"]

Part(colour, x, y, w, h) == [colour |-> colour, x |-> x, y |-> y, w |-> w, h |-> h]

Hextile(flags, background, foreground, subrects, pixels) ==
    [flags |-> flags, background |-> background, foreground |-> foreground,
     subrects |-> subrects, pixels |-> pixels]

Zrle(kind, pixels) == [kind |-> kind, pixels |-> pixels]

RawScript ==
    <<Update(<<Rect("Raw", 1, 0, 2, 2, <<red, green, blue, red>>),
               Rect("CopyRect", 0, 1, 2, 1, [x |-> 1, y |-> 0])>>),
      [type |-> "SetColourMapEntries", length |-> 1],
      [type |-> "ServerCutText", length |-> 2], Bell, Update(<<>>)>>

RREScript(encoding) ==
    <<Update(<<Rect(encoding, 0, 0, 3, 2,
        [background |-> red, subrects |-> <<Part(green, 0, 0, 2, 2), Part(blue, 1, 1, 2, 1)>>])>>)>>

(* The second tile uses the colours of the first. *)
HextileScript ==
    <<Update(<<Rect("Hextile", 0, 0, 3, 3,
        <<Hextile({"BackgroundSpecified", "ForegroundSpecified", "AnySubrects"}, red, blue,
                  <<Part(blue, 0, 0, 1, 2), Part(blue, 1, 1, 1, 1)>>, <<>>),
          Hextile({"AnySubrects"}, red, blue, <<Part(blue, 0, 1, 1, 1)>>, <<>>),
          Hextile({"Raw"}, red, blue, <<>>, <<red, green>>),
          Hextile({"BackgroundSpecified", "AnySubrects", "SubrectsColoured"}, green, blue,
                  <<Part(red, 0, 0, 1, 1)>>, <<>>)>>)>>)>>

CursorScript ==
    <<Update(<<Rect("Cursor", 1, 0, 2, 2,
        [pixels |-> <<red, green, blue, red>>, mask |-> {<<0, 0>>, <<1, 1>>}])>>), Bell>>

ZlibScript ==
    <<Update(<<Rect("Zlib", 0, 0, 2, 1, <<red, green>>)>>),
      Update(<<Rect("Zlib", 1, 1, 1, 1, <<blue>>)>>)>>

ZrleScript ==
    <<Update(<<Rect("ZRLE", 0, 0, 3, 3,
        <<Zrle("PlainRLE", <<red, red, red, blue>>), Zrle("Raw", <<red, green>>),
          Zrle("PaletteRLE", <<red, red>>), Zrle("Solid", <<green>>)>>),
               Rect("ZRLE", 1, 1, 2, 2, <<Zrle("PaletteRLE", <<red, blue, blue, blue>>)>>)>>)>>

PackedScript ==
    <<Update(<<Rect("ZRLE", 1, 0, 2, 2, <<Zrle("Packed", <<red, green, green, red>>)>>)>>)>>

(* More text than the client takes *)
LongTextScript == <<[type |-> "ServerCutText", length |-> MaxCutTextSize + 2], Bell>>

TextScript == <<[type |-> "ServerCutText", length |-> 1], Bell>>

(* A rectangle without pixels, and one with more data than fits the buffer *)
EmptyScript == <<Update(<<Rect("ZRLE", 1, 0, 0, 2, <<>>)>>), Bell>>

BulkyScript ==
    <<Update(<<Malformed("ZRLE", 0, 0, 1, 0, [i \in 1..30 |-> [kind |-> "Raw", palette |-> 0]])>>)>>

ErrorScripts ==
    {<<Update(<<r>>)>> : r \in
        {Malformed("Raw", 0, 0, 0, 1, <<>>),
         Malformed("Raw", 2, 0, 2, 1, <<>>),
         Malformed("Unknown", 0, 0, 1, 1, <<>>),
         Malformed("RRE", 0, 0, 1, 1, Field(3, 4) \o Field(red, BytesPerPixel)),
         Malformed("CoRRE", 0, 0, 2, 2,
            RREBytes([background |-> red, subrects |-> <<Part(blue, 1, 1, 2, 1)>>], 1)),
         Malformed("Hextile", 0, 0, 1, 1, <<{"ForegroundSpecified", "SubrectsColoured"}>>
            \o Field(blue, BytesPerPixel)),
         Malformed("Hextile", 0, 0, 2, 2,
            HextileBytes(Hextile({"AnySubrects"}, red, blue, <<Part(blue, 1, 0, 2, 1)>>, <<>>))),
         Malformed("Cursor", 0, 0, 1, 0, <<>>),
         Malformed("Zlib", 0, 0, 1, 1, Colours(<<red, blue>>, BytesPerPixel)),
         Malformed("ZRLE", 0, 0, 1, 1, <<[kind |-> "Invalid", palette |-> 0], red>>),
         Malformed("ZRLE", 0, 0, 1, 1, <<[kind |-> "PlainRLE", palette |-> 0], red>>),
         Malformed("ZRLE", 0, 0, 1, 1, ZrleBytes(Zrle("PlainRLE", <<red, red>>), 1)),
         Malformed("ZRLE", 0, 0, 1, 1,
            <<[kind |-> "PaletteRLE", palette |-> 1]>> \o Colours(<<red>>, ZrleBytesPerPixel)
                \o <<[index |-> 1, run |-> FALSE]>>),
         Malformed("ZRLE", 0, 0, 1, 1,
            <<[kind |-> "Packed", palette |-> 3]>> \o Colours(<<red, green, blue>>, ZrleBytesPerPixel)
                \o <<<<3>>>>)}}
    \cup {<<Update(<<>>), [type |-> "Unknown"]>>}

GoodScripts ==
    {RawScript, RREScript("RRE"), RREScript("CoRRE"), HextileScript, CursorScript,
     ZlibScript, ZrleScript, PackedScript, TextScript}

AstrayScripts == {LongTextScript, EmptyScript, BulkyScript}

AllScripts == GoodScripts \cup AstrayScripts \cup ErrorScripts
=============================================================================
