--------------------------- MODULE MCRfb3xHandshake ---------------------------
(***************************************************************************)
(* Constants for the model checker: what the servers of an instance say.   *)
(***************************************************************************)
EXTENDS HandshakeInvariant

AllVersions == {<<-1, -1>>, <<3, 2>>, <<3, 3>>, <<3, 5>>, <<3, 7>>, <<3, 8>>, <<3, 889>>, <<4, 0>>}
AllOldTypes == {"Invalid", "None", "VNCAuthentication", "RA2"}

AllTypeLists == {<<>>, <<"RA2">>, <<"RA2", "VNCAuthentication">>, <<"VNCAuthentication", "None">>,
                 <<"Tight">>, <<"VNCAuthentication", "AnonymousTLS">>, <<"VeNCrypt", "None">>}
TightOnly == {<<"Tight">>}

(* The last of each has more entries than a client takes, though one of     *)
(* them would do.                                                          *)
AllTunnelLists == {<<"NOTUNNEL">>, <<"SSH", "NOTUNNEL">>, <<"SSH">>, <<"SSH", "SSL", "NOTUNNEL">>}
AllAuthLists == {<<"ULGNAUTH">>, <<"VNCAuthentication", "None">>, <<"ULGNAUTH", "None">>,
                 <<"ULGNAUTH", "VNCAuthentication", "None">>}
AllSubTypeLists == {<<>>, <<"RA2">>, <<"VNCAuthentication">>, <<"VNCAuthentication", "None">>}

(* RGB 565 with the high byte first, 24 bits of BGR, a colour map, and a    *)
(* number of bits that RFB does not have.                                  *)
AllFormats == {<<16, 16, 1, 1, 0, 31, 0, 63, 0, 31, 11, 5, 0, 0, 0, 0>>,
               <<32, 24, 0, 1, 0, 255, 0, 255, 0, 255, 0, 8, 16, 0, 0, 0>>,
               <<8, 8, 0, 0, 0, 0, 0, 0, 0, 0, 0, 0, 0, 0, 0, 0>>,
               <<24, 24, 0, 1, 0, 255, 0, 255, 0, 255, 16, 8, 0, 0, 0, 0>>}
UnknownFormats == {<<24, 24, 0, 1, 0, 255, 0, 255, 0, 255, 16, 8, 0, 0, 0, 0>>}

AllCustomFormats == {Format(32, 30, TRUE, TRUE, <<1023, 1023, 255>>, <<18, 8, 0>>),
                     Format(8, 8, FALSE, FALSE, <<0, 0, 0>>, <<0, 0, 0>>),
                     Format(12, 12, FALSE, TRUE, <<15, 15, 15>>, <<8, 4, 0>>)}

(* The colours of these formats can be told apart. *)
ASSUME FormatAssumption == FormatsDecode

(* No pixels, and 4332 MB that look like 236 if the product wraps around. *)
AllSizes == {<<2, 1>>, <<0, 1>>, <<38, 38>>}
=============================================================================
