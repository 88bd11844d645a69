----------------------------- MODULE PixelFormats -----------------------------
(***************************************************************************)
(* Pixel formats: how the client chooses the one it asks the server for,   *)
(* how a format travels, and what colour a pixel of a format stands for    *)
(* (OrvVncClient::makePixelFormat(), Reader and Writer).                   *)
(*                                                                         *)
(* Bytes are numbers; a message or a pixel is a sequence of them.          *)
(***************************************************************************)
EXTENDS Integers, Sequences

(* orv_communication_pixel_format_t; the colours are red, green and blue. *)
Format(bitsPerPixel, depth, bigEndian, trueColor, colorMax, colorShift) ==
    [mBitsPerPixel |-> bitsPerPixel, mDepth |-> depth, mBigEndian |-> bigEndian,
     mTrueColor |-> trueColor, mColorMax |-> colorMax, mColorShift |-> colorShift]

(* The formats that the members of the structure can hold. *)
UInt8 == 0..(256 - 1)
UInt16 == 0..(256 * 256 - 1)

PixelFormat ==
    [mBitsPerPixel : UInt8, mDepth : UInt8, mBigEndian : BOOLEAN, mTrueColor : BOOLEAN,
     mColorMax : [1..3 -> UInt16], mColorShift : [1..3 -> UInt8]]

(* orv_communication_pixel_format_reset() *)
DefaultFormat == Format(32, 24, FALSE, TRUE, <<255, 255, 255>>, <<16, 8, 0>>)

(* makePixelFormat() for a number of bits; 8 is the fallback. *)
FormatOfBits(bitsPerPixel) ==
    CASE bitsPerPixel = 32 -> Format(32, 24, FALSE, TRUE, <<255, 255, 255>>, <<16, 8, 0>>)
      [] bitsPerPixel = 16 -> Format(16, 16, FALSE, TRUE, <<31, 63, 31>>, <<11, 5, 0>>)
      [] OTHER             -> Format(8, 8, FALSE, TRUE, <<7, 7, 3>>, <<5, 2, 0>>)

isPixelFormatValidForReceive(format) ==
    /\ format.mBitsPerPixel \in {8, 16, 32}
    /\ format.mDepth # 0 /\ format.mDepth <= format.mBitsPerPixel

Profiles == {"Low", "Medium", "Best", "Server", "Custom"}

(* makePixelFormat() for a quality profile: colour maps are not supported. *)
makePixelFormat(profile, serverFormat, customFormat) ==
    CASE profile = "Low" -> FormatOfBits(8)
      [] profile = "Medium" -> FormatOfBits(16)
      [] profile = "Best" -> FormatOfBits(32)
      [] profile = "Server" -> IF serverFormat.mTrueColor THEN serverFormat ELSE DefaultFormat
      [] profile = "Custom" ->
            IF isPixelFormatValidForReceive(customFormat) /\ customFormat.mTrueColor
            THEN customFormat ELSE FormatOfBits(customFormat.mBitsPerPixel)

-----------------------------------------------------------------------------
(* Reader and Writer: numbers travel with the high byte first. *)

writeUInt16(v) == <<v \div 256, v % 256>>
readUInt16(bytes) == 256 * bytes[1] + bytes[2]

Flag(b) == IF b THEN 1 ELSE 0

writePixelFormat(p) ==
    <<p.mBitsPerPixel, p.mDepth, Flag(p.mBigEndian), Flag(p.mTrueColor)>>
    \o writeUInt16(p.mColorMax[1]) \o writeUInt16(p.mColorMax[2]) \o writeUInt16(p.mColorMax[3])
    \o p.mColorShift \o <<0, 0, 0>>

readPixelFormat(bytes) ==
    Format(bytes[1], bytes[2], bytes[3] # 0, bytes[4] # 0,
           [i \in 1..3 |-> readUInt16(SubSeq(bytes, 3 + 2 * i, 4 + 2 * i))],
           SubSeq(bytes, 11, 13))

(* The number that a pixel's bytes are, on a host that is little endian. *)
Swapped(bytes) == [i \in 1..Len(bytes) |-> bytes[Len(bytes) + 1 - i]]

ValueOf(bytes) ==
    LET sum[i \in 0..Len(bytes)] == IF i = 0 THEN 0 ELSE 256 * sum[i - 1] + bytes[Len(bytes) + 1 - i]
    IN  sum[Len(bytes)]

(* A pixel of one byte has no order. *)
PixelValue(bytes, format) ==
    IF format.mBigEndian /\ Len(bytes) > 1 THEN ValueOf(Swapped(bytes)) ELSE ValueOf(bytes)

(* The bits that two numbers of 16 bits share. *)
CommonBits(a, b) ==
    LET bits[n \in 0..16] ==
            IF n = 0 THEN 0
            ELSE bits[n - 1] + 2^(n - 1) * ((a \div 2^(n - 1)) % 2) * ((b \div 2^(n - 1)) % 2)
    IN  bits[16]

(* Reader::readPixel(): one byte for each of the three colours. *)
readPixel(bytes, format) ==
    [i \in 1..3 |->
        IF format.mColorMax[i] = 0 THEN 0
        ELSE LET c == CommonBits(PixelValue(bytes, format) \div 2^format.mColorShift[i], format.mColorMax[i])
             IN  (c * 255) \div format.mColorMax[i]]
=============================================================================
