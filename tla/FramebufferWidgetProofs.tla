----------------------- MODULE FramebufferWidgetProofs -----------------------
(***************************************************************************)
(* What the Qt client shows is current, whatever the sizes of framebuffers *)
(* and however many connections, drawings and events there are.            *)
(***************************************************************************)
EXTENDS FramebufferWidget, SequenceTheorems, FiniteSetTheorems, TLAPS

-----------------------------------------------------------------------------
(* The events on their way, seen as one sequence. *)

LEMMA SendAll ==
    ASSUME NEW S, NEW s \in Seq(S), NEW t \in Seq(S)
    PROVE  /\ (s \o t) \o <<>> = s \o t
           /\ s \o t \in Seq(S)
  BY ConcatEmptySeq, ConcatProperties

LEMMA SendMore ==
    ASSUME NEW S, NEW s \in Seq(S), NEW t \in Seq(S), NEW e \in S
    PROVE  s \o Append(t, e) = Append(s \o t, e)
  <1>1. /\ s \o Append(t, e) \in Seq(S) /\ Append(s \o t, e) \in Seq(S)
        /\ Len(s \o Append(t, e)) = Len(s) + Len(t) + 1
        /\ Len(Append(s \o t, e)) = Len(s) + Len(t) + 1
    OBVIOUS
  <1>2. \A i \in 1..Len(s) + Len(t) + 1 : (s \o Append(t, e))[i] = Append(s \o t, e)[i]
    OBVIOUS
  <1> QED  BY <1>1, <1>2, SeqEqual

LEMMA TakeFirst ==
    ASSUME NEW S, NEW s \in Seq(S), NEW t \in Seq(S), s # <<>>
    PROVE  /\ s \o t # <<>>
           /\ Head(s \o t) = Head(s)
           /\ Tail(s) \o t = Tail(s \o t)
           /\ Tail(s) \in Seq(S)
  BY SMTT(30), ConcatProperties, HeadTailProperties, SeqEqual

LEMMA AppendElements ==
    ASSUME NEW S, NEW s \in Seq(S), NEW e \in S
    PROVE  /\ Len(s) \in Nat
           /\ DOMAIN Append(s, e) = 1..(Len(s) + 1) /\ DOMAIN s = 1..Len(s)
           /\ \A i \in 1..Len(s) : Append(s, e)[i] = s[i]
           /\ Append(s, e)[Len(s) + 1] = e
  OBVIOUS

LEMMA TailElements ==
    ASSUME NEW S, NEW s \in Seq(S), s # <<>>
    PROVE  /\ Len(s) \in Nat /\ Len(s) > 0
           /\ DOMAIN Tail(s) = 1..(Len(s) - 1) /\ DOMAIN s = 1..Len(s)
           /\ \A i \in 1..(Len(s) - 1) : Tail(s)[i] = s[i + 1]
           /\ Head(s) = s[1] /\ Head(s) \in S
  OBVIOUS

-----------------------------------------------------------------------------
(* What each operation does to the events on their way. *)

LEMMA AddEvent ==
    ASSUME TypeOK, NEW e \in Event, posted' = posted, unsent' = Append(unsent, e)
    PROVE  OnTheWay' = Append(OnTheWay, e) /\ OnTheWay \in Seq(Event)
  BY SendMore, SendAll DEF OnTheWay, TypeOK

LEMMA SendingKeeps ==
    ASSUME TypeOK, SendEvents
    PROVE  OnTheWay' = OnTheWay
  BY SendAll DEF OnTheWay, TypeOK, SendEvents

LEMMA HandleFirst ==
    ASSUME TypeOK, posted # <<>>, posted' = Tail(posted), unsent' = unsent
    PROVE  /\ OnTheWay \in Seq(Event) /\ OnTheWay # <<>>
           /\ OnTheWay' = Tail(OnTheWay)
           /\ Head(posted) = OnTheWay[1] /\ Head(posted) \in Event
           /\ posted' \in Seq(Event)
  BY SMTT(30), TakeFirst, SendAll, TailElements DEF OnTheWay, TypeOK

LEMMA EventFields ==
    ASSUME NEW e \in Event
    PROVE  /\ e.type \in {"result", "rectangle", "cursor"}
           /\ e.type = "result" => e.conn \in Nat /\ e.width \in Widths
           /\ e.type = "rectangle" => e.columns \subseteq Nat
           /\ e.type = "cursor" <=> e = CursorUpdated
  <1>1. CASE e \in [type : {"result"}, conn : Nat, width : Widths]
    BY <1>1 DEF CursorUpdated
  <1>2. CASE e \in [type : {"rectangle"}, columns : SUBSET Nat]
    BY <1>2 DEF CursorUpdated
  <1>3. CASE e = CursorUpdated
    BY <1>3 DEF CursorUpdated
  <1> QED  BY <1>1, <1>2, <1>3 DEF Event

LEMMA DrawnInside ==
    ASSUME NEW width \in Nat, NEW x \in Columns(width),
           NEW n \in 1..(Cardinality(Columns(width)) - x)
    PROVE  x..(x + n - 1) \subseteq Columns(width)
  <1>1. Cardinality(Columns(width)) = width
    BY FS_Interval DEF Columns
  <1> QED  BY <1>1 DEF Columns

-----------------------------------------------------------------------------
(* Types *)

LEMMA TypeStep ==
    ASSUME TypeOK, [Next]_vars
    PROVE  TypeOK'
  <1> USE FramebufferWidgetAssumption
  <1>1. CASE connectToHost
    BY <1>1 DEF TypeOK, connectToHost
  <1>2. CASE Connect
    <2>1. PICK width \in Widths :
             /\ framebuffer' = [c \in Columns(width) |-> 0]
             /\ unsent' = <<Result(conn + 1, width)>>
      BY <1>2 DEF Connect
    <2>2. Result(conn + 1, width) \in Event
      BY DEF Result, Event, TypeOK
    <2>3. unsent' \in Seq(Event)
      BY <2>1, <2>2
    <2>4. DOMAIN framebuffer' = Columns(width)
      BY <2>1
    <2> QED  BY <1>2, <2>3, <2>4 DEF TypeOK, Connect, pictureVars, widgetVars
  <1>3. CASE Draw
    <2>0. PICK x \in DOMAIN framebuffer : \E n \in 1..(Cardinality(DOMAIN framebuffer) - x) :
             /\ framebuffer' = [c \in DOMAIN framebuffer |->
                                  IF c \in x..(x + n - 1) THEN drawings + 1 ELSE framebuffer[c]]
             /\ unsent' = Append(unsent, Rectangle(x, n))
      BY <1>3 DEF Draw
    <2>1. PICK n \in 1..(Cardinality(DOMAIN framebuffer) - x) :
             /\ framebuffer' = [c \in DOMAIN framebuffer |->
                                  IF c \in x..(x + n - 1) THEN drawings + 1 ELSE framebuffer[c]]
             /\ unsent' = Append(unsent, Rectangle(x, n))
      BY <2>0
    <2>2. PICK width \in {0} \cup Widths : DOMAIN framebuffer = Columns(width)
      BY DEF TypeOK
    <2>3. x..(x + n - 1) \subseteq Columns(width)
      BY <2>2, DrawnInside
    <2>4. Rectangle(x, n) \in Event
      BY <2>3 DEF Rectangle, Event, Columns
    <2>5. unsent' \in Seq(Event)
      BY <2>1, <2>4 DEF TypeOK
    <2>6. DOMAIN framebuffer' = Columns(width)
      BY <2>1, <2>2
    <2> QED  BY <1>3, <2>5, <2>6 DEF TypeOK, Draw, pictureVars, widgetVars
  <1>4. CASE SetCursor
    <2>1. unsent' \in Seq(Event)
      BY <1>4 DEF SetCursor, TypeOK, Event
    <2> QED  BY <1>4, <2>1 DEF TypeOK, SetCursor, pictureVars, widgetVars
  <1>5. CASE SendEvents
    BY <1>5, SendAll DEF TypeOK, SendEvents, pictureVars, widgetVars
  <1>6. CASE Disconnect
    BY <1>6 DEF TypeOK, Disconnect, pictureVars, widgetVars
  <1>7. CASE handleConnectEvent
    <2>1. Head(posted) \in Event /\ posted' \in Seq(Event)
      BY <1>7, HandleFirst DEF handleConnectEvent, libraryVars
    <2>2. Head(posted).width \in Nat /\ Head(posted).conn \in Nat
      BY <1>7, <2>1, EventFields DEF handleConnectEvent
    <2> QED  BY <1>7, <2>1, <2>2 DEF TypeOK, handleConnectEvent, resetFramebuffer, libraryVars
  <1>8. CASE handleFramebufferUpdatedEvent
    <2>1. posted' \in Seq(Event)
      BY <1>8, HandleFirst DEF handleFramebufferUpdatedEvent, libraryVars
    <2> QED  BY <1>8, <2>1
             DEF TypeOK, handleFramebufferUpdatedEvent, updateFramebuffer, libraryVars, pictureVars,
                 widgetVars
  <1>9. CASE handleCursorUpdatedEvent
    <2>1. posted' \in Seq(Event)
      BY <1>9, HandleFirst DEF handleCursorUpdatedEvent, libraryVars
    <2>2. cursorTexture' \in Nat
      BY <1>9 DEF TypeOK, handleCursorUpdatedEvent, updateCursor
    <2> QED  BY <1>9, <2>1, <2>2 DEF TypeOK, handleCursorUpdatedEvent, libraryVars, pictureVars
  <1>10. CASE initializeGL
    BY <1>10 DEF TypeOK, initializeGL, libraryVars
  <1>11. CASE setDebugBitPlanes
    BY <1>11 DEF TypeOK, setDebugBitPlanes, libraryVars
  <1>12. CASE UNCHANGED vars
    BY <1>12 DEF TypeOK, vars, libraryVars, pictureVars, widgetVars
  <1> QED  BY <1>1, <1>2, <1>3, <1>4, <1>5, <1>6, <1>7, <1>8, <1>9, <1>10, <1>11, <1>12 DEF Next

-----------------------------------------------------------------------------
(* Results and the events behind them *)

LEMMA AddingInside ==
    ASSUME TypeOK, ResultInv, NEW e \in Event, Inside(e, DOMAIN framebuffer),
           OnTheWay \in Seq(Event), OnTheWay' = Append(OnTheWay, e),
           UNCHANGED <<conn, shown, mFramebufferWidth>>, DOMAIN framebuffer' = DOMAIN framebuffer
    PROVE  ResultInv'
  <1> DEFINE n == Len(OnTheWay)
  <1>1. /\ n \in Nat /\ DOMAIN OnTheWay' = 1..(n + 1) /\ DOMAIN OnTheWay = 1..n
        /\ \A i \in 1..n : OnTheWay'[i] = OnTheWay[i]
        /\ OnTheWay'[n + 1] = e
    BY AppendElements
  <1> HIDE DEF n
  <1>2. CASE ResultHandled
    <2>1. \A i \in DOMAIN OnTheWay' : Inside(OnTheWay'[i], DOMAIN framebuffer')
      BY <1>1, <1>2 DEF ResultHandled
    <2> QED  BY <1>2, <2>1 DEF ResultInv, ResultHandled, Columns
  <1>3. ASSUME NEW k \in DOMAIN OnTheWay, ResultAt(k)  PROVE k \in DOMAIN OnTheWay' /\ ResultAt(k)'
    BY <1>1, <1>3 DEF ResultAt, Columns
  <1> QED  BY <1>2, <1>3 DEF ResultInv

LEMMA TakingOther ==
    ASSUME TypeOK, ResultInv, OnTheWay \in Seq(Event), OnTheWay # <<>>,
           OnTheWay[1].type # "result", OnTheWay' = Tail(OnTheWay),
           UNCHANGED <<conn, shown, mFramebufferWidth, framebuffer>>
    PROVE  ResultInv'
  <1> DEFINE n == Len(OnTheWay)
  <1>1. /\ n \in Nat /\ n > 0 /\ DOMAIN OnTheWay' = 1..(n - 1) /\ DOMAIN OnTheWay = 1..n
        /\ \A i \in 1..(n - 1) : OnTheWay'[i] = OnTheWay[i + 1]
    BY TailElements
  <1> HIDE DEF n
  <1>2. CASE ResultHandled
    <2>1. \A i \in DOMAIN OnTheWay' : Inside(OnTheWay'[i], DOMAIN framebuffer')
      BY <1>1, <1>2 DEF ResultHandled
    <2> QED  BY <1>2, <2>1 DEF ResultInv, ResultHandled, Columns
  <1>3. ASSUME NEW k \in DOMAIN OnTheWay, ResultAt(k)
        PROVE  \E j \in DOMAIN OnTheWay' : ResultAt(j)'
    <2>1. k # 1 /\ k - 1 \in DOMAIN OnTheWay'
      BY <1>1, <1>3 DEF ResultAt
    <2>2. ResultAt(k - 1)'
      BY <1>1, <1>3, <2>1 DEF ResultAt, Columns
    <2> QED  BY <2>1, <2>2
  <1> QED  BY <1>2, <1>3 DEF ResultInv

(* The first event is a result: of an earlier connection, or the newest.   *)
LEMMA TakingResult ==
    ASSUME TypeOK, ResultInv, handleConnectEvent
    PROVE  ResultInv'
  <1> DEFINE n == Len(OnTheWay)
  <1>0. /\ OnTheWay \in Seq(Event) /\ OnTheWay # <<>> /\ OnTheWay' = Tail(OnTheWay)
        /\ Head(posted) = OnTheWay[1]
    BY HandleFirst DEF handleConnectEvent, libraryVars
  <1>1. /\ n \in Nat /\ n > 0 /\ DOMAIN OnTheWay' = 1..(n - 1) /\ DOMAIN OnTheWay = 1..n
        /\ \A i \in 1..(n - 1) : OnTheWay'[i] = OnTheWay[i + 1]
    BY <1>0, TailElements
  <1> HIDE DEF n
  <1>2. /\ OnTheWay[1].type = "result" /\ shown' = OnTheWay[1].conn
        /\ mFramebufferWidth' = OnTheWay[1].width
        /\ UNCHANGED <<conn, framebuffer>>
    BY <1>0 DEF handleConnectEvent, resetFramebuffer, libraryVars
  <1>3. PICK k \in DOMAIN OnTheWay : ResultAt(k)
    BY <1>1, <1>2 DEF ResultInv, ResultHandled, Inside
  <1>4. CASE k = 1
    <2>1. \A i \in DOMAIN OnTheWay' : Inside(OnTheWay'[i], DOMAIN framebuffer')
      BY <1>1, <1>2, <1>3, <1>4 DEF ResultAt
    <2>2. shown' = conn' /\ DOMAIN framebuffer' = Columns(mFramebufferWidth')
      BY <1>2, <1>3, <1>4 DEF ResultAt
    <2> QED  BY <2>1, <2>2 DEF ResultInv, ResultHandled, Columns
  <1>5. CASE k # 1
    <2>1. shown' < conn'
      BY <1>1, <1>2, <1>3, <1>5 DEF ResultAt
    <2>2. k - 1 \in DOMAIN OnTheWay'
      BY <1>1, <1>5
    <2>3. /\ OnTheWay'[k - 1].type = "result" /\ OnTheWay'[k - 1].conn = conn'
          /\ DOMAIN framebuffer' = Columns(OnTheWay'[k - 1].width)
      BY <1>1, <1>2, <1>3, <2>2 DEF ResultAt
    <2>4. ASSUME NEW i \in DOMAIN OnTheWay'
          PROVE  /\ i < k - 1 /\ OnTheWay'[i].type = "result" => OnTheWay'[i].conn < conn'
                 /\ i > k - 1 => Inside(OnTheWay'[i], DOMAIN framebuffer')
      <3>1. i + 1 \in DOMAIN OnTheWay /\ OnTheWay'[i] = OnTheWay[i + 1]
            /\ i \in Nat /\ k \in Nat
        BY <1>1
      <3>2. /\ i + 1 < k /\ OnTheWay[i + 1].type = "result" => OnTheWay[i + 1].conn < conn
            /\ i + 1 > k => Inside(OnTheWay[i + 1], DOMAIN framebuffer)
        BY <1>3, <3>1 DEF ResultAt
      <3> QED  BY <1>2, <3>1, <3>2
    <2>5. ResultAt(k - 1)'
      BY <2>3, <2>4 DEF ResultAt, Columns
    <2> QED  BY <2>1, <2>2, <2>5 DEF ResultInv
  <1> QED  BY <1>4, <1>5

LEMMA ResultStep ==
    ASSUME TypeOK, ResultInv, [Next]_vars
    PROVE  ResultInv'
  <1>1. ASSUME OnTheWay' = OnTheWay, UNCHANGED <<conn, shown, mFramebufferWidth, framebuffer>>
        PROVE  ResultInv'
    BY <1>1 DEF ResultInv, ResultHandled, ResultAt, Inside, Columns
  <1>2. CASE connectToHost
    BY <1>1, <1>2 DEF connectToHost, OnTheWay
  <1>3. CASE Connect
    <2>1. PICK width \in Widths :
             /\ framebuffer' = [c \in Columns(width) |-> 0]
             /\ unsent' = <<Result(conn + 1, width)>>
      BY <1>3 DEF Connect
    <2> DEFINE e == Result(conn + 1, width)
    <2>2. e \in Event /\ e.type = "result" /\ e.conn = conn + 1 /\ e.width = width
      BY DEF Result, Event, TypeOK
    <2> HIDE DEF e
    <2>3. posted \in Seq(Event) /\ posted' = posted /\ conn' = conn + 1 /\ shown' = shown
      BY <1>3 DEF Connect, TypeOK, widgetVars
    <2>4. OnTheWay' = posted \o <<e>>
      BY <2>1, <2>3 DEF OnTheWay, e
    <2>k. PICK k \in Nat : k = Len(posted) + 1
      BY <2>3
    <2>5. /\ DOMAIN OnTheWay' = 1..k /\ OnTheWay'[k] = e
          /\ \A i \in 1..(k - 1) : OnTheWay'[i] = posted[i]
      BY <2>k, <2>2, <2>3, <2>4
    <2>6. \A i \in 1..(k - 1) :
             i \in DOMAIN OnTheWay /\ OnTheWay[i] = posted[i] /\ posted[i] \in Event
      BY <2>k, <2>3 DEF OnTheWay, TypeOK
    <2>7. \A i \in DOMAIN OnTheWay : OnTheWay[i].type = "result" => OnTheWay[i].conn <= conn
      <3>1. DOMAIN OnTheWay \subseteq Nat /\ conn \in Nat
        BY SendAll DEF TypeOK, OnTheWay
      <3>2. ASSUME NEW j \in DOMAIN OnTheWay, ResultAt(j), NEW i \in DOMAIN OnTheWay,
                   OnTheWay[i].type = "result"
            PROVE  OnTheWay[i].conn <= conn
        <4>1. OnTheWay[i].conn \in Nat
          BY <3>2, SendAll, EventFields DEF TypeOK, OnTheWay
        <4> QED  BY <3>1, <3>2, <4>1 DEF ResultAt, Inside
      <3> QED  BY <3>2 DEF ResultInv, ResultHandled, Inside
    <2>8. ResultAt(k)'
      <3>1. \A i \in DOMAIN OnTheWay' : i < k /\ OnTheWay'[i].type = "result"
                                          => OnTheWay'[i].conn < conn'
        <4> TAKE i \in DOMAIN OnTheWay'
        <4> HAVE i < k /\ OnTheWay'[i].type = "result"
        <4>1. i \in 1..(k - 1)  BY <2>5
        <4>2. OnTheWay[i].type = "result" /\ OnTheWay'[i] = OnTheWay[i] /\ OnTheWay[i] \in Event
          BY <4>1, <2>3, <2>5, <2>6
        <4> QED  BY <4>1, <4>2, <2>3, <2>6, <2>7, EventFields DEF TypeOK
      <3>2. DOMAIN framebuffer' = Columns(OnTheWay'[k].width)
        BY <2>1, <2>2, <2>5
      <3> QED  BY <2>2, <2>3, <2>5, <3>1, <3>2 DEF ResultAt, Columns
    <2>9. shown' < conn'
      BY <2>3 DEF ResultInv, ResultHandled, TypeOK
    <2> QED  BY <2>k, <2>3, <2>5, <2>8, <2>9 DEF ResultInv
  <1>4. CASE Draw
    <2>0. PICK x \in DOMAIN framebuffer : \E n \in 1..(Cardinality(DOMAIN framebuffer) - x) :
             /\ framebuffer' = [c \in DOMAIN framebuffer |->
                                  IF c \in x..(x + n - 1) THEN drawings + 1 ELSE framebuffer[c]]
             /\ unsent' = Append(unsent, Rectangle(x, n))
      BY <1>4 DEF Draw
    <2>1. PICK n \in 1..(Cardinality(DOMAIN framebuffer) - x) :
             /\ framebuffer' = [c \in DOMAIN framebuffer |->
                                  IF c \in x..(x + n - 1) THEN drawings + 1 ELSE framebuffer[c]]
             /\ unsent' = Append(unsent, Rectangle(x, n))
      BY <2>0
    <2>2. PICK width \in {0} \cup Widths : DOMAIN framebuffer = Columns(width)
      BY DEF TypeOK
    <2>3. x..(x + n - 1) \subseteq DOMAIN framebuffer
      BY <2>2, DrawnInside, FramebufferWidgetAssumption
    <2>4. Rectangle(x, n) \in Event /\ Inside(Rectangle(x, n), DOMAIN framebuffer)
      BY <2>2, <2>3 DEF Rectangle, Event, Columns, Inside
    <2>5. OnTheWay \in Seq(Event) /\ OnTheWay' = Append(OnTheWay, Rectangle(x, n))
      BY <1>4, <2>1, <2>4, AddEvent DEF Draw
    <2> QED  BY <1>4, <2>1, <2>4, <2>5, AddingInside DEF Draw, widgetVars
  <1>5. CASE SetCursor
    <2>1. CursorUpdated \in Event /\ Inside(CursorUpdated, DOMAIN framebuffer)
      BY DEF CursorUpdated, Event, Inside
    <2>2. OnTheWay \in Seq(Event) /\ OnTheWay' = Append(OnTheWay, CursorUpdated)
      BY <1>5, <2>1, AddEvent DEF SetCursor
    <2> QED  BY <1>5, <2>1, <2>2, AddingInside DEF SetCursor, widgetVars
  <1>6. CASE SendEvents
    BY <1>1, <1>6, SendingKeeps DEF SendEvents, widgetVars
  <1>7. CASE Disconnect
    <2>0. OnTheWay' = posted /\ UNCHANGED <<conn, shown, mFramebufferWidth, framebuffer>>
      BY <1>7, ConcatEmptySeq DEF Disconnect, OnTheWay, TypeOK, widgetVars
    <2>1. /\ Len(posted) \in Nat /\ Len(unsent) \in Nat
          /\ DOMAIN OnTheWay' = 1..Len(posted) /\ DOMAIN OnTheWay = 1..(Len(posted) + Len(unsent))
          /\ \A i \in 1..Len(posted) : OnTheWay'[i] = OnTheWay[i]
          /\ \A i \in DOMAIN OnTheWay : i > Len(posted) =>
                 i - Len(posted) \in DOMAIN unsent /\ OnTheWay[i] = unsent[i - Len(posted)]
      BY <2>0 DEF OnTheWay, TypeOK
    <2>2. \A i \in DOMAIN OnTheWay : i > Len(posted) => OnTheWay[i].type # "result"
      BY <1>7, <2>1 DEF Disconnect, ResultSent
    <2>3. CASE ResultHandled
      BY <2>0, <2>1, <2>3 DEF ResultInv, ResultHandled, Columns
    <2>4. ASSUME NEW k \in DOMAIN OnTheWay, ResultAt(k)
          PROVE k \in DOMAIN OnTheWay' /\ ResultAt(k)'
      BY <2>0, <2>1, <2>2, <2>4 DEF ResultAt, Columns
    <2> QED  BY <2>0, <2>3, <2>4 DEF ResultInv
  <1>8. CASE handleConnectEvent
    BY <1>8, TakingResult
  <1>9. CASE handleFramebufferUpdatedEvent
    <2>1. /\ posted # <<>> /\ posted' = Tail(posted) /\ Head(posted).type = "rectangle"
          /\ UNCHANGED <<unsent, conn, shown, mFramebufferWidth, framebuffer>>
      BY <1>9 DEF handleFramebufferUpdatedEvent, libraryVars, widgetVars
    <2> QED  BY <2>1, HandleFirst, TakingOther
  <1>10. CASE handleCursorUpdatedEvent
    <2>1. /\ posted # <<>> /\ posted' = Tail(posted) /\ Head(posted).type = "cursor"
          /\ UNCHANGED <<unsent, conn, shown, mFramebufferWidth, framebuffer>>
      BY <1>10 DEF handleCursorUpdatedEvent, libraryVars
    <2> QED  BY <2>1, HandleFirst, TakingOther
  <1>11. CASE initializeGL
    BY <1>1, <1>11 DEF initializeGL, libraryVars, OnTheWay
  <1>12. CASE setDebugBitPlanes
    BY <1>1, <1>12 DEF setDebugBitPlanes, libraryVars, OnTheWay
  <1>13. CASE UNCHANGED vars
    BY <1>1, <1>13 DEF vars, libraryVars, widgetVars, OnTheWay
  <1> QED  BY <1>2, <1>3, <1>4, <1>5, <1>6, <1>7, <1>8, <1>9, <1>10, <1>11, <1>12, <1>13 DEF Next

-----------------------------------------------------------------------------
(* What is on its way, as a set *)

LEMMA WaitingMore ==
    ASSUME TypeOK, NEW e, posted' = posted, unsent' = Append(unsent, e)
    PROVE  Waiting' = Waiting \cup {e}
  <1>1. /\ Len(unsent) \in Nat /\ DOMAIN unsent = 1..Len(unsent)
        /\ DOMAIN unsent' = 1..(Len(unsent) + 1) /\ unsent'[Len(unsent) + 1] = e
        /\ \A i \in 1..Len(unsent) : unsent'[i] = unsent[i]
    BY DEF TypeOK
  <1>2. {unsent'[i] : i \in DOMAIN unsent'} = {unsent[i] : i \in DOMAIN unsent} \cup {e}
    BY <1>1
  <1> QED  BY <1>2 DEF Waiting

LEMMA WaitingLess ==
    ASSUME TypeOK, posted # <<>>, posted' = Tail(posted), unsent' = unsent
    PROVE  Waiting = Waiting' \cup {Head(posted)}
  <1>1. /\ Len(posted) \in Nat /\ DOMAIN posted' = 1..(Len(posted) - 1)
        /\ DOMAIN posted = 1..Len(posted) /\ Head(posted) = posted[1] /\ Len(posted) > 0
        /\ \A i \in 1..(Len(posted) - 1) : posted'[i] = posted[i + 1]
    BY TailElements DEF TypeOK
  <1>2. \A i \in DOMAIN posted : i # 1 => i - 1 \in DOMAIN posted' /\ posted'[i - 1] = posted[i]
    BY <1>1
  <1>3. \A i \in DOMAIN posted' : i + 1 \in DOMAIN posted /\ posted'[i] = posted[i + 1]
    BY <1>1
  <1>4. 1 \in DOMAIN posted
    BY <1>1
  <1> QED  BY SMTT(30), <1>1, <1>2, <1>3, <1>4 DEF Waiting

LEMMA WaitingSame ==
    ASSUME TypeOK, SendEvents
    PROVE  Waiting' = Waiting
  <1>1. /\ Len(posted) \in Nat /\ Len(unsent) \in Nat
        /\ DOMAIN posted = 1..Len(posted) /\ DOMAIN unsent = 1..Len(unsent)
        /\ DOMAIN posted' = 1..(Len(posted) + Len(unsent)) /\ unsent' = <<>>
        /\ \A i \in 1..Len(posted) : posted'[i] = posted[i]
        /\ \A i \in 1..Len(unsent) : posted'[Len(posted) + i] = unsent[i]
    BY DEF SendEvents, TypeOK
  <1>2. \A i \in DOMAIN posted' : i \notin DOMAIN posted
           => i - Len(posted) \in DOMAIN unsent /\ posted'[i] = unsent[i - Len(posted)]
    BY <1>1
  <1>3. \A i \in DOMAIN unsent : Len(posted) + i \in DOMAIN posted'
    BY <1>1
  <1>4. DOMAIN posted \subseteq DOMAIN posted' /\ DOMAIN unsent' = {}
    BY <1>1
  <1> QED  BY <1>1, <1>2, <1>3, <1>4 DEF Waiting

LEMMA OutdatedGrows ==
    ASSUME Waiting \subseteq Waiting'
    PROVE  Outdated \subseteq Outdated'
  BY DEF Outdated

-----------------------------------------------------------------------------
(* The picture and the cursor *)

LEMMA TextureStep ==
    ASSUME TypeOK, TextureInv, [Next]_vars
    PROVE  TextureInv'
  <1> USE DEF TextureInv
  <1>1. CASE connectToHost   BY <1>1 DEF connectToHost
  <1>2. CASE Connect         BY <1>2 DEF Connect, pictureVars, widgetVars, TypeOK
  <1>3. CASE Draw            BY <1>3 DEF Draw, pictureVars, widgetVars
  <1>4. CASE SetCursor
    <2>1. cursor'.conn = conn /\ conn' = conn  BY <1>4 DEF SetCursor
    <2> QED  BY <1>4, <2>1 DEF SetCursor, pictureVars, widgetVars, TypeOK
  <1>5. CASE SendEvents      BY <1>5 DEF SendEvents, pictureVars, widgetVars
  <1>6. CASE Disconnect      BY <1>6 DEF Disconnect, pictureVars, widgetVars
  <1>7. CASE handleConnectEvent
    BY <1>7 DEF handleConnectEvent, resetFramebuffer, libraryVars
  <1>8. CASE handleFramebufferUpdatedEvent
    BY <1>8 DEF handleFramebufferUpdatedEvent, FramebufferUsable, updateFramebuffer, libraryVars,
                pictureVars, widgetVars
  <1>9. CASE handleCursorUpdatedEvent
    BY <1>9 DEF handleCursorUpdatedEvent, updateCursor, libraryVars, pictureVars
  <1>10. CASE initializeGL   BY <1>10 DEF initializeGL, libraryVars
  <1>11. CASE setDebugBitPlanes  BY <1>11 DEF setDebugBitPlanes, libraryVars
  <1>12. CASE UNCHANGED vars
    BY <1>12 DEF vars, libraryVars, pictureVars, widgetVars
  <1> QED  BY <1>1, <1>2, <1>3, <1>4, <1>5, <1>6, <1>7, <1>8, <1>9, <1>10, <1>11, <1>12 DEF Next

LEMMA ShownNotAhead ==
    ASSUME TypeOK, ResultInv
    PROVE  shown <= conn
  BY DEF ResultInv, ResultHandled, TypeOK

LEMMA PictureStep ==
    ASSUME WidgetInv, [Next]_vars
    PROVE  PictureCurrent'
  <1> USE DEF WidgetInv, ShownIsCurrent
  <1>1. ASSUME UNCHANGED <<conn, mState, shown, framebuffer, pictureVars, mDebugBitPlanes>>,
               Outdated \subseteq Outdated'
        PROVE  PictureCurrent'
    BY <1>1 DEF PictureCurrent, pictureVars
  <1>2. CASE connectToHost   BY <1>2 DEF connectToHost, PictureCurrent
  <1>3. CASE Connect
    <2>1. conn' = conn + 1 /\ shown' = shown
      BY <1>3 DEF Connect, widgetVars
    <2>2. shown' # conn'
      BY <2>1, ShownNotAhead DEF TypeOK
    <2> QED  BY <2>2 DEF PictureCurrent
  <1>4. CASE Draw
    <2>0. PICK x \in DOMAIN framebuffer : \E n \in 1..(Cardinality(DOMAIN framebuffer) - x) :
             /\ framebuffer' = [c \in DOMAIN framebuffer |->
                                  IF c \in x..(x + n - 1) THEN drawings + 1 ELSE framebuffer[c]]
             /\ unsent' = Append(unsent, Rectangle(x, n))
      BY <1>4 DEF Draw
    <2>1. PICK n \in 1..(Cardinality(DOMAIN framebuffer) - x) :
             /\ framebuffer' = [c \in DOMAIN framebuffer |->
                                  IF c \in x..(x + n - 1) THEN drawings + 1 ELSE framebuffer[c]]
             /\ unsent' = Append(unsent, Rectangle(x, n))
      BY <2>0
    <2>2. PICK width \in {0} \cup Widths : DOMAIN framebuffer = Columns(width)
      BY DEF TypeOK
    <2>3. x..(x + n - 1) \subseteq DOMAIN framebuffer
      BY <2>2, DrawnInside, FramebufferWidgetAssumption
    <2>4. Rectangle(x, n) \in Event
      BY <2>2, <2>3 DEF Rectangle, Event, Columns
    <2>5. Waiting' = Waiting \cup {Rectangle(x, n)}
      BY <1>4, <2>1, <2>4, WaitingMore DEF Draw
    <2>6. Outdated \subseteq Outdated' /\ x..(x + n - 1) \subseteq Outdated'
      <3>1. Rectangle(x, n).type = "rectangle" /\ Rectangle(x, n).columns = x..(x + n - 1)
        BY DEF Rectangle
      <3> QED  BY <2>5, <3>1, OutdatedGrows DEF Outdated
    <2>7. \A c \in DOMAIN framebuffer' \ Outdated' : framebuffer'[c] = framebuffer[c]
      BY <2>1, <2>6
    <2> QED  BY <1>4, <2>1, <2>6, <2>7 DEF Draw, PictureCurrent, pictureVars, widgetVars
  <1>5. CASE SetCursor
    <2>1. Waiting' = Waiting \cup {CursorUpdated}
      BY <1>5, WaitingMore DEF SetCursor, Event
    <2> QED  BY <1>1, <1>5, <2>1, OutdatedGrows DEF SetCursor, widgetVars
  <1>6. CASE SendEvents
    BY <1>1, <1>6, WaitingSame, OutdatedGrows DEF SendEvents, widgetVars
  <1>7. CASE Disconnect      BY <1>7 DEF Disconnect, PictureCurrent
  <1>8. CASE handleConnectEvent
    BY <1>8 DEF handleConnectEvent, resetFramebuffer, PictureCurrent
  <1>9. CASE handleFramebufferUpdatedEvent
    <2> DEFINE columns == Head(posted).columns
    <2>1. /\ posted # <<>> /\ posted' = Tail(posted) /\ Head(posted).type = "rectangle"
          /\ UNCHANGED <<unsent, conn, mState, shown, mFramebufferWidth, framebuffer,
                         mGLInitialized, mDebugBitPlanes>>
      BY <1>9 DEF handleFramebufferUpdatedEvent, libraryVars, widgetVars
    <2>2. Outdated \subseteq Outdated' \cup columns
      BY <2>1, WaitingLess DEF Outdated
    <2> SUFFICES ASSUME mState = "Connected", shown = conn, mFramebufferTextureInitialized',
                        ~mDebugBitPlanes
                 PROVE  /\ DOMAIN framebufferTexture' = DOMAIN framebuffer
                        /\ \A c \in DOMAIN framebuffer \ Outdated' :
                              framebufferTexture'[c] = framebuffer[c]
      BY <2>1 DEF PictureCurrent
    <2>3. ResultHandled
      BY DEF ResultInv, TypeOK
    <2>4. columns \subseteq DOMAIN framebuffer
      BY <2>1, <2>3, HandleFirst, TailElements DEF ResultHandled, Inside
    <2>5. CASE updateFramebuffer(columns)
      <3>1. framebufferTexture' = [c \in DOMAIN framebuffer |->
                IF ~mFramebufferTextureInitialized \/ c \in columns
                THEN framebuffer[c] ELSE framebufferTexture[c]]
        BY <2>5 DEF updateFramebuffer
      <3>2. ASSUME NEW c \in DOMAIN framebuffer \ Outdated', mFramebufferTextureInitialized,
                   c \notin columns
            PROVE  framebufferTexture[c] = framebuffer[c]
        BY <2>2, <3>2 DEF PictureCurrent
      <3> QED  BY <3>1, <3>2
    <2>6. CASE ~updateFramebuffer(columns)
      <3>1. mFramebufferTextureInitialized
        BY <1>9, <2>6 DEF handleFramebufferUpdatedEvent, pictureVars
      <3>2. FramebufferUsable
        BY <2>3, <3>1 DEF TextureInv, FramebufferUsable, ResultHandled
      <3> QED  BY <1>9, <2>4, <2>6, <3>2 DEF handleFramebufferUpdatedEvent
    <2> QED  BY <2>5, <2>6
  <1>10. CASE handleCursorUpdatedEvent
    <2>1. /\ posted # <<>> /\ posted' = Tail(posted) /\ Head(posted).type = "cursor"
          /\ UNCHANGED <<unsent, conn, mState, shown, framebuffer, pictureVars, mDebugBitPlanes>>
      BY <1>10 DEF handleCursorUpdatedEvent, libraryVars
    <2>2. Outdated \subseteq Outdated'
      BY <2>1, WaitingLess DEF Outdated
    <2> QED  BY <1>1, <2>1, <2>2
  <1>11. CASE initializeGL   BY <1>11 DEF initializeGL, PictureCurrent
  <1>12. CASE setDebugBitPlanes  BY <1>12 DEF setDebugBitPlanes, PictureCurrent
  <1>13. CASE UNCHANGED vars
    BY <1>1, <1>13 DEF vars, libraryVars, widgetVars, Outdated, Waiting
  <1> QED  BY <1>2, <1>3, <1>4, <1>5, <1>6, <1>7, <1>8, <1>9, <1>10, <1>11, <1>12, <1>13 DEF Next

LEMMA CursorStep ==
    ASSUME WidgetInv, [Next]_vars
    PROVE  CursorCurrent'
  <1> USE DEF WidgetInv, ShownIsCurrent
  <1>1. ASSUME UNCHANGED <<conn, mState, cursor, cursorTexture>>,
               CursorUpdated \in Waiting => CursorUpdated \in Waiting'
        PROVE  CursorCurrent'
    BY <1>1 DEF CursorCurrent, CursorUpdated
  <1>2. CASE connectToHost   BY <1>2 DEF connectToHost, CursorCurrent
  <1>3. CASE Connect
    BY <1>3 DEF Connect, CursorCurrent, TextureInv, TypeOK
  <1>4. CASE Draw
    <2>1. \E e : unsent' = Append(unsent, e)
      BY <1>4 DEF Draw
    <2>2. Waiting \subseteq Waiting'
      BY <1>4, <2>1, WaitingMore DEF Draw
    <2> QED  BY <1>1, <1>4, <2>2 DEF Draw, widgetVars
  <1>5. CASE SetCursor
    <2>1. Waiting' = Waiting \cup {CursorUpdated}
      BY <1>5, WaitingMore DEF SetCursor, Event
    <2> QED  BY <2>1 DEF CursorCurrent, CursorUpdated
  <1>6. CASE SendEvents
    BY <1>1, <1>6, WaitingSame DEF SendEvents, widgetVars
  <1>7. CASE Disconnect      BY <1>7 DEF Disconnect, CursorCurrent
  <1>8. CASE handleConnectEvent
    <2>1. CursorUpdated # Head(posted)
      BY <1>8 DEF handleConnectEvent, CursorUpdated
    <2>2. Waiting = Waiting' \cup {Head(posted)}
      BY <1>8, WaitingLess DEF handleConnectEvent, libraryVars
    <2> QED  BY <1>1, <1>8, <2>1, <2>2 DEF handleConnectEvent, libraryVars
  <1>9. CASE handleFramebufferUpdatedEvent
    <2>1. CursorUpdated # Head(posted)
      BY <1>9 DEF handleFramebufferUpdatedEvent, CursorUpdated
    <2>2. Waiting = Waiting' \cup {Head(posted)}
      BY <1>9, WaitingLess DEF handleFramebufferUpdatedEvent, libraryVars
    <2> QED  BY <1>1, <1>9, <2>1, <2>2 DEF handleFramebufferUpdatedEvent, libraryVars, widgetVars
  <1>10. CASE handleCursorUpdatedEvent
    <2>1. cursorTexture' \in {0, cursor.drawing} /\ cursor' = cursor
      BY <1>10 DEF handleCursorUpdatedEvent, updateCursor, libraryVars, TextureInv
    <2> QED  BY <2>1 DEF CursorCurrent
  <1>11. CASE initializeGL
    BY <1>11 DEF initializeGL, CursorCurrent
  <1>12. CASE setDebugBitPlanes
    BY <1>1, <1>12 DEF setDebugBitPlanes, libraryVars, Waiting
  <1>13. CASE UNCHANGED vars
    BY <1>1, <1>13 DEF vars, libraryVars, widgetVars, Waiting
  <1> QED  BY <1>2, <1>3, <1>4, <1>5, <1>6, <1>7, <1>8, <1>9, <1>10, <1>11, <1>12, <1>13 DEF Next

-----------------------------------------------------------------------------

LEMMA WidgetInvariant == Spec => []WidgetInv
  <1>1. Init => WidgetInv
    <2> SUFFICES ASSUME Init  PROVE WidgetInv
      OBVIOUS
    <2>1. TypeOK
      <3>1. {mGLInitialized, mFramebufferTextureInitialized, mDebugBitPlanes} \subseteq BOOLEAN
        BY DEF Init
      <3>2. unsent \in Seq(Event) /\ posted \in Seq(Event)
        BY DEF Init
      <3>3. DOMAIN framebuffer = Columns(0)
        BY DEF Init, Columns
      <3> QED  BY <3>1, <3>2, <3>3 DEF Init, TypeOK
    <2>2. ResultInv
      BY DEF Init, ResultInv, ResultHandled, OnTheWay, Columns
    <2>3. TextureInv /\ ShownIsCurrent
      BY DEF Init, TextureInv, ShownIsCurrent, PictureCurrent, CursorCurrent
    <2> QED  BY <2>1, <2>2, <2>3 DEF WidgetInv
  <1>2. WidgetInv /\ [Next]_vars => WidgetInv'
    BY TypeStep, ResultStep, TextureStep, PictureStep, CursorStep DEF WidgetInv, ShownIsCurrent
  <1> QED  BY <1>1, <1>2, PTL DEF Spec

(* What the Qt client shows of the current connection is what the library   *)
(* holds, but for what an event on its way will bring: no order of           *)
(* connections, drawings and handled events leaves the picture of an        *)
(* earlier connection, or an old part of this one, in the texture for good *)
(* (FramebufferWidget::handleConnectEvent() and updateFramebuffer()); and a *)
(* cursor that is shown is the last one the server sent.                   *)
THEOREM PictureIsCurrent == Spec => []ShownIsCurrent
  <1>1. WidgetInv => ShownIsCurrent
    BY DEF WidgetInv
  <1> QED  BY <1>1, WidgetInvariant, PTL
=============================================================================
