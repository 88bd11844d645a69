------------------------------ MODULE MessageParser ------------------------------
(***************************************************************************)
(* The messages of the server: the thread reads what has arrived into      *)
(* mReceiveBuffer and processes it message by message                      *)
(* (handleConnectedSocketData(), processMessageData(), messageparser.cpp), *)
(* interrupted wherever the bytes end; the connection may end anywhere.    *)
(*                                                                         *)
(* Where the parsers lose step, and take bytes for others than the server  *)
(* sent them as, the connection goes astray: what they make of the rest of *)
(* it is not followed, and anything may come of it.                        *)
(***************************************************************************)
EXTENDS RectDataParser

CONSTANTS
    Width, Height,          \* the framebuffer
    MaxReceiveBufferSize,
    MaxCutTextSize,         \* ORV_MAX_VNC_SERVER_CUT_TEXT_SIZE
    Scripts,                \* the sequences of messages a server may send
    MaxConnections          \* bound: connections of a behaviour

(* A server sends a finite number of bytes; the buffer holds every field.  *)
ASSUME BufferAssumption ==
    /\ {Width, Height, MaxReceiveBufferSize, MaxCutTextSize} \subseteq Nat
    /\ 12 <= MaxReceiveBufferSize /\ BytesPerPixel + 8 <= MaxReceiveBufferSize
    /\ \A s \in Scripts : IsSequence(Bytes(s))

VARIABLES
    wire,                   \* sent by the server, but not yet received
    mCurrentMessageParser,  \* the type of the message being read, or "none"
    message,                \* its parser: the header, how much of the message was read
    mRectEvent,             \* the events of the rectangles finished so far
    screen,                 \* mFramebuffer
    cursor,                 \* mCursorData
    astray,                 \* history: the parsers have lost step
    script,                 \* history: what the server of this connection sends
    processed,              \* history: how many messages of it were processed
    events,                 \* history: the events sent in this connection
    connections             \* history

messageVars == <<mCurrentMessageParser, message, mRectEvent>>
outputVars == <<screen, cursor>>
streamVars == <<script, connections, astray>>
vars == <<pc, mReceiveBuffer, rect, parserVars, wire, messageVars, outputVars, streamVars,
          processed, events>>

NoMessage == [hasHeader |-> FALSE, length |-> 0, read |-> 0, copied |-> 0]

NoCursor == [hotspot |-> <<0, 0>>, pixels |-> Blank(0, 0)]

Parsers == {"FramebufferUpdate", "SetColourMapEntries", "ServerCutText"}

(* The parsers' objects live as long as the thread. *)
Init ==
    /\ pc = "closed"
    /\ mReceiveBuffer = <<>> /\ wire = <<>>
    /\ rect = NoRect
    /\ data = <<>> /\ tile = NoTile /\ picture = Blank(0, 0)
    /\ zlib = [encoding \in Compressed |-> NewZlibPlain]
    /\ mCurrentMessageParser = "none" /\ message = NoMessage /\ mRectEvent = <<>>
    /\ screen = Blank(Width, Height) /\ cursor = NoCursor
    /\ script = <<>> /\ processed = 0 /\ events = <<>> /\ connections = 0 /\ astray = FALSE

(* The parser that is current when a connection begins takes the first     *)
(* message for one of its own, the one it was reading when the last        *)
(* connection ended, of which it may have the header.                      *)
FirstIsMisread(messages) ==
    /\ mCurrentMessageParser # "none" /\ messages # <<>>
    /\ message.hasHeader \/ messages[1].type # mCurrentMessageParser

(* The server's messages follow its ServerInit. *)
Connect ==
    /\ pc = "closed"
    /\ connections < MaxConnections
    /\ \E s \in Scripts :
        /\ script' = s
        /\ wire' = Bytes(s)
        /\ astray' = FirstIsMisread(s)
    /\ pc' = "select"
    /\ connections' = connections + 1
    /\ screen' = Blank(Width, Height)
    /\ processed' = 0 /\ events' = <<>>
    /\ UNCHANGED <<mReceiveBuffer, rect, parserVars, messageVars, cursor>>

-----------------------------------------------------------------------------
(* handleConnectedSocketData() *)

Send(more) == events' = events \o more

(* Before the bytes of a rectangle that stays in the buffer are looked at. *)
callsFor(n) == tile' = IF EmptyZrle THEN [tile EXCEPT !.calls = n] ELSE tile

Receive ==
    /\ pc = "select" /\ ~astray
    /\ \E n \in 1..Least(Len(wire), MaxReceiveBufferSize - Available) :
        /\ mReceiveBuffer' = mReceiveBuffer \o SubSeq(wire, 1, n)
        /\ wire' = SubSeq(wire, n + 1, Len(wire))
    /\ pc' = "messages"
    /\ callsFor(1)
    /\ UNCHANGED <<rect, data, picture, zlib, messageVars, outputVars, streamVars, processed,
                   events>>

(* Nothing is left in the buffer, or processMessageData() consumes nothing *)
(* of it: the rest is kept.                                                *)
WaitForMore ==
    /\ pc' = "select"
    /\ UNCHANGED <<mReceiveBuffer, rect, parserVars, wire, messageVars, outputVars, streamVars,
                   processed, events>>

AllProcessed ==
    /\ pc = "messages"
    /\ mReceiveBuffer = <<>> /\ mCurrentMessageParser = "none"
    /\ WaitForMore

(* reset() of the rectangle parsers; the zlib streams stay. *)
resetRectParsers ==
    /\ rect' = NoRect
    /\ data' = <<>> /\ tile' = NoTile /\ picture' = Blank(0, 0)
    /\ zlib' = [encoding \in Compressed |-> clearZlibPlain(zlib[encoding])]

(* Faulty: the zlib streams outlive the connection. *)
resetRectParserConnections_KeepsStreams == resetRectParsers

(* resetConnection() of the rectangle parsers *)
resetRectParserConnections ==
    /\ rect' = NoRect
    /\ data' = <<>> /\ tile' = NoTile /\ picture' = Blank(0, 0)
    /\ zlib' = [encoding \in Compressed |-> NewZlibPlain]

(* MessageParserFramebufferUpdate::resetConnection() clears the parser of  *)
(* updates and its rectangle parsers; the other parsers are not touched,   *)
(* and the current parser stays current.  reset() has forgotten how many   *)
(* events there are when it frees them.                                    *)
closeSocket(parser, read) ==
    /\ mReceiveBuffer' = <<>> /\ wire' = <<>>
    /\ resetRectParserConnections
    /\ mRectEvent' = <<>>
    /\ mCurrentMessageParser' = parser
    /\ message' = IF parser \in {"none", "FramebufferUpdate"} THEN NoMessage ELSE read
    /\ pc' = "closed"

(* The connection ends: by the server, by an error of the socket, or by    *)
(* orv_disconnect().                                                       *)
ConnectionEnds ==
    /\ pc = "select" /\ ~astray
    /\ closeSocket(mCurrentMessageParser, message)
    /\ Send(<<[type |-> "DISCONNECTED", error |-> "closed"]>>)
    /\ UNCHANGED <<outputVars, streamVars, processed>>

(* There is no room to receive anything: an error of its own. *)
BufferFull ==
    /\ pc = "select" /\ ~astray
    /\ Available >= MaxReceiveBufferSize
    /\ closeSocket(mCurrentMessageParser, message)
    /\ Send(<<[type |-> "DISCONNECTED", error |-> "read failed"]>>)
    /\ UNCHANGED <<outputVars, streamVars, processed>>

GarbageCursor ==
    [hotspot |-> <<0, 0>>, pixels |-> [p \in Area(1, 1) |-> [colour |-> Undefined, shown |-> TRUE]]]

(* The end of a connection that went astray.  Any message may have been    *)
(* being read, and any cursor have been set.                               *)
AstrayEnds ==
    /\ pc = "select" /\ astray
    /\ \E parser \in Parsers \cup {"none"}, hasHeader \in BOOLEAN :
        closeSocket(parser, [NoMessage EXCEPT !.hasHeader = hasHeader])
    /\ cursor' \in {cursor, GarbageCursor}
    /\ Send(<<[type |-> "DISCONNECTED", error |-> "unknown"]>>)
    /\ UNCHANGED <<screen, streamVars, processed>>

(* The error path of processMessageData(): disconnectWithError(). *)
Fail ==
    /\ closeSocket("none", NoMessage)
    /\ Send(<<[type |-> "DISCONNECTED", error |-> "protocol"]>>)
    /\ UNCHANGED <<outputVars, streamVars, processed>>

-----------------------------------------------------------------------------
(* processMessageData() *)

(* What is unchanged while a message is being read. *)
Reads == UNCHANGED <<pc, wire, outputVars, streamVars, processed, events>>

(* Byte 0 selects the parser, which reads the byte once more. *)
chooseParser ==
    /\ pc = "messages"
    /\ mReceiveBuffer # <<>> /\ mCurrentMessageParser = "none"
    /\ mReceiveBuffer[1].type \in Parsers
    /\ mCurrentMessageParser' = mReceiveBuffer[1].type
    /\ message' = NoMessage
    /\ UNCHANGED <<mReceiveBuffer, rect, parserVars, mRectEvent>>
    /\ Reads

processMessageBell ==
    /\ pc = "messages"
    /\ mReceiveBuffer # <<>> /\ mCurrentMessageParser = "none"
    /\ mReceiveBuffer[1].type = "Bell"
    /\ Consume(1)
    /\ Send(<<[type |-> "BELL"]>>)
    /\ processed' = processed + 1
    /\ UNCHANGED <<pc, rect, parserVars, wire, messageVars, outputVars, streamVars>>

UnexpectedMessage ==
    /\ pc = "messages"
    /\ mReceiveBuffer # <<>> /\ mCurrentMessageParser = "none"
    /\ mReceiveBuffer[1].type \notin Parsers \cup {"Bell"}
    /\ Fail

ReadingMessage(type) == pc = "messages" /\ mCurrentMessageParser = type

HeaderBytes == [FramebufferUpdate |-> 4, SetColourMapEntries |-> 6, ServerCutText |-> 8]

readHeader(type) ==
    /\ ReadingMessage(type)
    /\ ~message.hasHeader
    /\ Available >= HeaderBytes[type]
    /\ message' = [NoMessage EXCEPT !.hasHeader = TRUE, !.length = Number(mReceiveBuffer[1].length)]
    /\ mRectEvent' = <<>>
    /\ Consume(HeaderBytes[type])
    /\ UNCHANGED <<rect, parserVars, mCurrentMessageParser>>
    /\ Reads

HeaderWaits ==
    /\ pc = "messages" /\ mCurrentMessageParser \in Parsers
    /\ ~message.hasHeader
    /\ Available < HeaderBytes[mCurrentMessageParser]
    /\ WaitForMore

(* The parsers have read too little, and take what follows for the next    *)
(* part.                                                                   *)
LosesStep(tooLittle) ==
    /\ astray' = tooLittle
    /\ pc' = IF tooLittle THEN "select" ELSE pc

(* The message is complete: its event is sent. *)
Finish(more) ==
    /\ Send(more)
    /\ processed' = processed + 1
    /\ mCurrentMessageParser' = "none"
    /\ UNCHANGED <<mReceiveBuffer, rect, parserVars, wire, message, outputVars, script, connections>>

-----------------------------------------------------------------------------
(* SetColourMapEntries *)

ColourBytes == 6

readColour ==
    /\ ReadingMessage("SetColourMapEntries")
    /\ message.hasHeader /\ message.read < message.length
    /\ Available >= ColourBytes
    /\ message' = [message EXCEPT !.read = @ + 1]
    /\ Consume(ColourBytes)
    /\ UNCHANGED <<rect, parserVars, mCurrentMessageParser, mRectEvent>>
    /\ Reads

ColourWaits ==
    /\ ReadingMessage("SetColourMapEntries")
    /\ message.hasHeader /\ message.read < message.length
    /\ Available < ColourBytes
    /\ WaitForMore

finishColours ==
    /\ ReadingMessage("SetColourMapEntries")
    /\ message.hasHeader /\ message.read >= message.length
    /\ Finish(<<>>)
    /\ LosesStep(FALSE)
    /\ UNCHANGED mRectEvent

-----------------------------------------------------------------------------
(* ServerCutText *)

TextOutputLength == Least(message.length, MaxCutTextSize)

(* Text is copied while there is room for it, and consumed. *)
readText ==
    /\ ReadingMessage("ServerCutText")
    /\ message.hasHeader /\ message.copied < TextOutputLength
    /\ Available > 0
    /\ message' = [message EXCEPT !.copied = @ + Least(Available, TextOutputLength - @),
                                  !.read = @ + Least(Available, message.length - @)]
    /\ Consume(Least(Available, message.length - message.read))
    /\ UNCHANGED <<rect, parserVars, mCurrentMessageParser, mRectEvent>>
    /\ Reads

TextWaits ==
    /\ ReadingMessage("ServerCutText")
    /\ message.hasHeader /\ message.copied < TextOutputLength
    /\ Available = 0
    /\ WaitForMore

(* The message is finished when the output is complete, even if there is   *)
(* more of a long text to come.                                            *)
finishText ==
    /\ ReadingMessage("ServerCutText")
    /\ message.hasHeader /\ message.copied = TextOutputLength
    /\ Finish(<<[type |-> "CUT_TEXT", length |-> message.copied]>>)
    /\ LosesStep(message.read < message.length)
    /\ UNCHANGED mRectEvent

-----------------------------------------------------------------------------
(* FramebufferUpdate *)

InUpdate == ReadingMessage("FramebufferUpdate") /\ message.hasHeader

BetweenRects == InUpdate /\ rect = NoRect /\ message.read < message.length

RectBytesNeeded == 12

(* The encodings findRectParserForEncoding() has a parser for. *)
Encodings == {"Raw", "CopyRect", "RRE", "CoRRE", "Hextile", "Zlib", "ZRLE", "Cursor"}

(* The header of the next rectangle *)
Header ==
    LET r == mReceiveBuffer[1]
    IN  [encoding |-> r.encoding, x |-> Number(r.x), y |-> Number(r.y), w |-> Number(r.w), h |-> Number(r.h)]

RectAccepted == ~Exceeds(Header, Width, Height) /\ Header.encoding \in Encodings

(* Behind a header that was just read, readRectData() is called three      *)
(* times if nothing is consumed: by this call of readRect(), by the next,  *)
(* and by the next call of processMessageData().                           *)
readRectHeader ==
    /\ BetweenRects
    /\ Available >= RectBytesNeeded
    /\ RectAccepted
    /\ rect' = Header
    /\ picture' = Blank(Header.w, Header.h)
    /\ tile' = IF EmptyZrle' THEN [tile EXCEPT !.calls = 3] ELSE tile
    /\ Consume(RectBytesNeeded)
    /\ UNCHANGED <<data, zlib, messageVars>>
    /\ Reads

RectRefused ==
    /\ BetweenRects
    /\ Available >= RectBytesNeeded
    /\ ~RectAccepted
    /\ Fail

RectHeaderWaits ==
    /\ BetweenRects
    /\ Available < RectBytesNeeded
    /\ WaitForMore

(* readRectData() of the rectangle's parser *)
ReadRectData ==
    \/ ReadRaw \/ ReadCopyRect \/ ReadCursor
    \/ ReadRREHeader \/ ReadRRESubrect
    \/ ReadHextileMask \/ ReadHextileColour \/ ReadHextileSubrectCount
    \/ ReadHextileTileData \/ FinishHextileTile
    \/ ReadZlibHeader \/ ReadCompressed
    \/ ReadZrleType \/ ReadZrleTileData \/ FinishZrleTile \/ ReadSolidTile \/ ReadRun
    \/ ReadEmptyZrle

(* It can read something. *)
RectDataReady ==
    \/ RawReady \/ CopyRectReady \/ CursorReady
    \/ RREHeaderReady \/ SubrectReady
    \/ HextileMaskReady \/ HextileColourReady \/ HextileCountReady
    \/ HextileDataReady \/ (InHextileTile /\ HextileTileReady)
    \/ ZlibHeaderReady \/ CompressedReady \/ ZrleReady \/ EmptyZrleReady

RectFails ==
    CASE rect.encoding = "Raw" -> RawFails
      [] rect.encoding = "CopyRect" -> FALSE
      [] rect.encoding \in {"RRE", "CoRRE"} -> RREFails
      [] rect.encoding = "Hextile" -> HextileFails
      [] rect.encoding = "Cursor" -> CursorFails
      [] rect.encoding = "Zlib" -> ZlibFails
      [] rect.encoding = "ZRLE" -> ZlibFails \/ ZrleFails

canFinishRect ==
    CASE rect.encoding = "Raw" -> RawFinished
      [] rect.encoding = "CopyRect" -> CopyRectFinished
      [] rect.encoding \in {"RRE", "CoRRE"} -> RREFinished
      [] rect.encoding = "Hextile" -> HextileFinished
      [] rect.encoding = "Cursor" -> CursorFinished
      [] rect.encoding = "Zlib" -> ZlibFinished
      [] rect.encoding = "ZRLE" -> ZrleFinished

RectPicture ==
    CASE rect.encoding = "Raw" -> RawPicture
      [] rect.encoding = "CopyRect" -> CopyRectPicture(screen)
      [] rect.encoding \in {"RRE", "CoRRE"} -> RREPicture
      [] rect.encoding \in {"Hextile", "ZRLE"} -> picture
      [] rect.encoding = "Zlib" -> ZlibPicture

InRect == InUpdate /\ rect # NoRect

readRectData ==
    /\ InRect
    /\ ~RectFails
    /\ ReadRectData
    /\ UNCHANGED messageVars
    /\ Reads

RectDataFails ==
    /\ InRect
    /\ RectFails \/ PackedMayFail
    /\ Fail

RectDataWaits ==
    /\ InRect
    /\ ~RectFails /\ ~canFinishRect
    /\ ~RectDataReady
    /\ WaitForMore

Draw(part) ==
    [p \in DOMAIN screen |->
        LET q == <<p[1] - rect.x, p[2] - rect.y>>
        IN  IF q \in DOMAIN part THEN part[q] ELSE screen[p]]

RectEvent(r) ==
    IF r.encoding = "Cursor" THEN [type |-> "CURSOR_UPDATED"]
    ELSE [type |-> "FRAMEBUFFER_UPDATED", x |-> r.x, y |-> r.y, w |-> r.w, h |-> r.h]

finishRect ==
    /\ InRect
    /\ ~RectFails /\ canFinishRect
    /\ IF rect.encoding = "Cursor"
       THEN cursor' = CursorPicture /\ UNCHANGED screen
       ELSE screen' = Draw(RectPicture) /\ UNCHANGED cursor
    /\ mRectEvent' = Append(mRectEvent, RectEvent(rect))
    /\ message' = [message EXCEPT !.read = @ + 1]
    /\ resetRectParsers
    /\ LosesStep(EmptyZrle)
    /\ UNCHANGED <<mReceiveBuffer, wire, mCurrentMessageParser, script, connections, processed,
                   events>>

(* The events of the rectangles are handed over. *)
finishUpdate ==
    /\ InUpdate
    /\ rect = NoRect /\ message.read >= message.length
    /\ Finish(Append(mRectEvent, [type |-> "FRAMEBUFFER_UPDATE_REQUEST_FINISHED"]))
    /\ LosesStep(FALSE)
    /\ mRectEvent' = <<>>

-----------------------------------------------------------------------------
Processing ==
    \/ AllProcessed \/ chooseParser \/ processMessageBell \/ UnexpectedMessage
    \/ \E type \in Parsers : readHeader(type)
    \/ HeaderWaits
    \/ readColour \/ ColourWaits \/ finishColours
    \/ readText \/ TextWaits \/ finishText
    \/ readRectHeader \/ RectRefused \/ RectHeaderWaits
    \/ readRectData \/ RectDataFails \/ RectDataWaits \/ finishRect \/ finishUpdate

Next == Connect \/ Receive \/ ConnectionEnds \/ AstrayEnds \/ BufferFull \/ Processing

Spec == Init /\ [][Next]_vars

-----------------------------------------------------------------------------
(* Properties *)

(* The messages have the effect the server means, in whatever chunks they  *)
(* arrive (readData() of the message parsers, readRectData() of the        *)
(* rectangle parsers), and the parsers lose step nowhere but where the     *)
(* specification ServerUpdates says.                                       *)
Meant == INSTANCE ServerUpdates WITH
    open <- pc # "closed",
    rects <- IF pc = "closed" \/ astray \/ mCurrentMessageParser # "FramebufferUpdate" THEN 0
             ELSE message.read

ShownAsMeant == Meant!Spec

(* When everything the server has sent was received, everything was        *)
(* processed, unless the parsers have lost step: no parser waits for bytes *)
(* it already has, and none leaves bytes of its message to the next        *)
(* (processMessageData()).                                                 *)
NothingLeftUnparsed ==
    pc = "select" /\ ~astray /\ wire = <<>> => mReceiveBuffer = <<>> /\ processed = Len(script)

(* There is room for more bytes: what a parser leaves in the buffer is the *)
(* beginning of a field or a header, never more.  The exception is a ZRLE  *)
(* rectangle without pixels, which leaves everything there                 *)
(* (handleConnectedSocketData()).                                          *)
BufferHasRoom ==
    pc = "select" /\ ~astray /\ ~EmptyZrle => Available < MaxReceiveBufferSize

(* A parser takes no byte behind its own part: of a rectangle, of the      *)
(* subrectangles and of a Hextile tile never more is collected than their  *)
(* headers announced, and zlib never gets more than the compressed data.   *)
(* What follows is left to the next parser (readRectData() of the          *)
(* rectangle parsers).                                                     *)
OwnBytesOnly ==
    /\ rect.encoding = "Raw" => Len(data) <= RectBytes
    /\ rect.encoding = "Cursor" => Len(data) <= CursorDataBytes
    /\ rect.encoding \in {"RRE", "CoRRE"} /\ data # <<>> => Len(data) - 1 <= data[1].count
    /\ rect.encoding = "Hextile" /\ tile.bytes # <<>> =>
        HextileFieldsRead /\ Len(tile.bytes) <= HextileTileBytes
    /\ \A encoding \in Compressed :
        IF zlib[encoding].hasHeader THEN zlib[encoding].received <= zlib[encoding].expected
        ELSE zlib[encoding].received = 0

-----------------------------------------------------------------------------
(* The state the code takes for granted, an inductive invariant, whatever   *)
(* is sent; it is why there always is room.                                *)

(* The messages: a rectangle is read only inside of an update. *)
MessageInv ==
    /\ pc \in {"closed", "select", "messages"}
    /\ mCurrentMessageParser \in Parsers \cup {"none"}
    /\ message \in [hasHeader : BOOLEAN, length : Nat, read : Nat, copied : Nat]
    /\ message.read <= message.length /\ message.copied <= TextOutputLength
    /\ rect # NoRect =>
        mCurrentMessageParser = "FramebufferUpdate" /\ message.hasHeader /\ message.read < message.length

(* The rectangle, and what its parser has collected. *)
RectInv ==
    /\ rect \in [encoding : Encodings \cup {"none"}, x : Nat, y : Nat, w : Nat, h : Nat]
    /\ rect.encoding = "none" => rect = NoRect /\ data = <<>> /\ tile = NoTile
    /\ rect.encoding \in {"Raw", "Cursor"} => IsSequence(data)
    /\ rect.encoding = "Hextile" => IsSequence(tile.bytes)
    /\ DOMAIN tile = DOMAIN NoTile
    /\ tile.index \in 0..(TileIndices - 1) /\ tile.subrects \in Nat

ZlibInv ==
    /\ DOMAIN zlib = Compressed
    /\ \A encoding \in Compressed :
        /\ DOMAIN zlib[encoding] = DOMAIN NewZlibPlain
        /\ zlib[encoding].expected \in Nat /\ zlib[encoding].received \in Nat

PictureInv == DOMAIN screen = Area(Width, Height) /\ DOMAIN picture = Area(rect.w, rect.h)

(* A thread that waits has less than the longest field, but of a rectangle *)
(* without pixels.                                                         *)
RoomInv ==
    /\ IsSequence(wire) /\ IsSequence(mReceiveBuffer)
    /\ Available <= MaxReceiveBufferSize
    /\ pc = "closed" => mReceiveBuffer = <<>>
    /\ pc = "select" /\ ~astray /\ ~EmptyZrle => Available < 12 \/ Available < BytesPerPixel + 8

ParserInv == MessageInv /\ RectInv /\ ZlibInv /\ PictureInv /\ RoomInv
=============================================================================
