----------------------------- MODULE ServerUpdates -----------------------------
(***************************************************************************)
(* What the parsers promise: whatever the sizes of the chunks in which the *)
(* messages of a connection arrive, their effect is that of the messages   *)
(* as the server means them, one rectangle after the other; a connection   *)
(* is given up for a protocol error only where a message is malformed.     *)
(*                                                                         *)
(* Nothing is promised once the parsers take bytes for others than they    *)
(* are (astray), which may only happen: at the beginning of a connection,  *)
(* if the one before ended inside of a message and this one does not begin *)
(* like it; behind a ZRLE rectangle without pixels; behind a text of more  *)
(* than MaxCutTextSize bytes.                                              *)
(***************************************************************************)
EXTENDS ServerStream

CONSTANTS Width, Height, MaxCutTextSize, Scripts, MaxConnections

VARIABLES
    open,           \* there is a connection
    astray,         \* in it, bytes were taken for others than they are
    script,         \* what the server of the connection sends
    processed,      \* how many of these messages have had their effect
    rects,          \* how many rectangles of the next one have had theirs
    screen, cursor, \* what the application may acquire
    events,         \* what it was told in this connection
    connections

vars == <<open, astray, script, processed, rects, screen, cursor, events, connections>>

NoCursor == [hotspot |-> <<0, 0>>, pixels |-> [p \in {} |-> Undefined]]

Blank(w, h) == [p \in Area(w, h) |-> Undefined]

Init ==
    /\ open = FALSE /\ astray = FALSE
    /\ script = <<>> /\ processed = 0 /\ rects = 0
    /\ screen = Blank(Width, Height) /\ cursor = NoCursor
    /\ events = <<>> /\ connections = 0

NextMessage == script[processed + 1]
NextRect == NextMessage.rects[rects + 1]

(* The connection before ended where the next one cannot go on. *)
BrokenOff ==
    /\ connections > 0
    /\ \/ astray
       \/ /\ processed < Len(script) /\ NextMessage.type \notin {"Bell", "Unknown"}
          /\ ~(IsUpdate(NextMessage) /\ IsUpdate(script'[1]))

Begin ==
    /\ ~open /\ connections < MaxConnections
    /\ open' = TRUE
    /\ script' \in Scripts
    /\ astray' => BrokenOff
    /\ processed' = 0 /\ rects' = 0 /\ events' = <<>>
    /\ screen' = Blank(Width, Height)
    /\ connections' = connections + 1
    /\ UNCHANGED cursor

Pending == open /\ ~astray /\ processed < Len(script)

RectPending == Pending /\ IsUpdate(NextMessage) /\ rects < Len(NextMessage.rects)

EmptyZrle(r) == r.encoding = "ZRLE" /\ (r.w = 0 \/ r.h = 0)

Draw(r, part) ==
    [p \in DOMAIN screen |->
        LET q == <<p[1] - r.x, p[2] - r.y>>
        IN  IF q \in DOMAIN part THEN part[q] ELSE screen[p]]

ShowRect ==
    /\ RectPending
    /\ ~NextRect.malformed /\ ~EmptyZrle(NextRect)
    /\ LET part == Meaning(NextRect, screen)
       IN  IF NextRect.encoding = "Cursor"
           THEN /\ cursor' = [hotspot |-> <<NextRect.x, NextRect.y>>, pixels |-> part]
                /\ UNCHANGED screen
           ELSE /\ screen' = Draw(NextRect, part)
                /\ UNCHANGED cursor
    /\ rects' = rects + 1
    /\ UNCHANGED <<open, astray, script, processed, events, connections>>

LoseStep ==
    /\ RectPending
    /\ EmptyZrle(NextRect)
    /\ astray' = TRUE /\ rects' = 0
    /\ UNCHANGED <<open, script, processed, screen, cursor, events, connections>>

(* The events of a message. *)
RectEvent(r) ==
    IF r.encoding = "Cursor" THEN [type |-> "CURSOR_UPDATED"]
    ELSE [type |-> "FRAMEBUFFER_UPDATED", x |-> r.x, y |-> r.y, w |-> r.w, h |-> r.h]

Events(message) ==
    CASE IsUpdate(message) ->
            [i \in 1..Len(message.rects) |-> RectEvent(message.rects[i])]
                \o <<[type |-> "FRAMEBUFFER_UPDATE_REQUEST_FINISHED"]>>
      [] message.type = "SetColourMapEntries" -> <<>>
      [] message.type = "ServerCutText" ->
            <<[type |-> "CUT_TEXT",
               length |-> IF message.length < MaxCutTextSize THEN message.length ELSE MaxCutTextSize]>>
      [] message.type = "Bell" -> <<[type |-> "BELL"]>>

Deliver ==
    /\ Pending
    /\ NextMessage.type # "Unknown"
    /\ IsUpdate(NextMessage) => rects = Len(NextMessage.rects)
    /\ events' = events \o Events(NextMessage)
    /\ processed' = processed + 1 /\ rects' = 0
    /\ astray' => NextMessage.type = "ServerCutText" /\ NextMessage.length > MaxCutTextSize
    /\ UNCHANGED <<open, script, screen, cursor, connections>>

Close(error) ==
    /\ open' = FALSE /\ rects' = 0
    /\ events' = Append(events, [type |-> "DISCONNECTED", error |-> error])
    /\ UNCHANGED <<astray, script, processed, screen, cursor, connections>>

(* The connection ends, for a reason other than what was sent. *)
End == open /\ ~astray /\ Close("closed")

(* The application may have been told anything, and have any cursor. *)
EndAstray ==
    /\ open /\ astray
    /\ open' = FALSE
    /\ UNCHANGED <<astray, script, processed, rects, screen, connections>>

(* What was sent cannot be shown. *)
Refuse ==
    /\ \/ Pending /\ NextMessage.type = "Unknown"
       \/ RectPending /\ NextRect.malformed
    /\ Close("protocol")

(* Nor that of a ZRLE rectangle without pixels, however much was sent. *)
NoRoom ==
    /\ RectPending
    /\ EmptyZrle(NextRect)
    /\ Close("read failed")

Next ==
    \/ Begin \/ ShowRect \/ LoseStep \/ Deliver
    \/ End \/ EndAstray \/ Refuse \/ NoRoom

Spec == Init /\ [][Next]_vars
=============================================================================
