----------------------------- MODULE FramebufferWidget -----------------------------
(***************************************************************************)
(* The picture of the Qt client: the connection thread draws into the      *)
(* framebuffer and the cursor of the library and tells of it afterwards;   *)
(* FramebufferWidget copies what has changed into textures when the event  *)
(* loop gets to the event.  A framebuffer is a row of columns here.        *)
(***************************************************************************)
EXTENDS Integers, Sequences, FiniteSets

CONSTANTS
    Widths,             \* sizes of framebuffers
    MaxConnections,     \* bound: connections
    MaxDrawings,        \* bound: rectangles drawn and cursors sent
    MaxPosted           \* bound: events in the event loop

ASSUME FramebufferWidgetAssumption ==
    /\ Widths \subseteq Nat \ {0}
    /\ MaxConnections \in Nat /\ MaxDrawings \in Nat /\ MaxPosted \in Nat

VARIABLES
    conn,               \* connections so far
    mState,             \* of the library: NotConnected, Connecting, Connected
    framebuffer,        \* mFramebuffer of the library: which drawing each column is of
    cursor,             \* mCursorData: connection and drawing it is of; drawing 0 is invalid
    drawings,
    unsent,             \* events of rectangles of an update that is not complete
    posted,             \* events the event loop has not handled
    mGLInitialized,
    mFramebufferTextureInitialized,
    mFramebufferWidth,
    framebufferTexture,
    mDebugBitPlanes,    \* only some bit planes are shown
    cursorTexture,      \* the cursor in the texture; 0 if there is none
    shown               \* history: the connection whose result was handled last

libraryVars == <<conn, mState, framebuffer, cursor, drawings, unsent>>
pictureVars == <<mFramebufferTextureInitialized, framebufferTexture>>
widgetVars == <<mGLInitialized, mFramebufferWidth, mDebugBitPlanes, cursorTexture, shown>>
vars == <<libraryVars, posted, pictureVars, widgetVars>>

Columns(width) == 0..(width - 1)

Result(c, width) == [type |-> "result", conn |-> c, width |-> width]
Rectangle(x, n) == [type |-> "rectangle", columns |-> x..(x + n - 1)]
CursorUpdated == [type |-> "cursor"]

Init ==
    /\ conn = 0 /\ mState = "NotConnected"
    /\ framebuffer = <<>>
    /\ cursor = [conn |-> 0, drawing |-> 0] /\ drawings = 0
    /\ unsent = <<>> /\ posted = <<>>
    /\ mGLInitialized = FALSE /\ mFramebufferTextureInitialized = FALSE
    /\ mFramebufferWidth = 0 /\ framebufferTexture = <<>>
    /\ mDebugBitPlanes = FALSE /\ cursorTexture = 0 /\ shown = 0

-----------------------------------------------------------------------------
(* The library *)

(* TopWidget::connectToHost() shows all bit planes again; the connection is *)
(* then made by the thread.  (Attempts that fail do not touch any of this.)*)
connectToHost ==
    /\ mState = "NotConnected" /\ conn < MaxConnections
    /\ mState' = "Connecting"
    /\ mDebugBitPlanes' = FALSE /\ mFramebufferTextureInitialized' = FALSE
    /\ UNCHANGED <<conn, framebuffer, cursor, drawings, unsent, posted, framebufferTexture,
                   mGLInitialized, mFramebufferWidth, cursorTexture, shown>>

(* The end of startVncProtocolRfb3x(): a new framebuffer, all black.  The   *)
(* cursor of the previous connection stays.                                *)
Connect ==
    /\ mState = "Connecting"
    /\ mState' = "Connected" /\ conn' = conn + 1
    /\ \E width \in Widths :
          /\ framebuffer' = [c \in Columns(width) |-> 0]
          /\ unsent' = <<Result(conn + 1, width)>>
    /\ UNCHANGED <<cursor, drawings, posted, pictureVars, widgetVars>>

ResultSent == \A i \in DOMAIN unsent : unsent[i].type # "result"

(* A rectangle is drawn with the mutex locked; its event waits for the end  *)
(* of the update.                                                          *)
Draw ==
    /\ mState = "Connected" /\ ResultSent /\ drawings < MaxDrawings
    /\ drawings' = drawings + 1
    /\ \E x \in DOMAIN framebuffer : \E n \in 1..(Cardinality(DOMAIN framebuffer) - x) :
          /\ framebuffer' = [c \in DOMAIN framebuffer |->
                                IF c \in x..(x + n - 1) THEN drawings + 1 ELSE framebuffer[c]]
          /\ unsent' = Append(unsent, Rectangle(x, n))
    /\ UNCHANGED <<conn, mState, cursor, posted, pictureVars, widgetVars>>

(* An empty rectangle makes the cursor invalid. *)
SetCursor ==
    /\ mState = "Connected" /\ ResultSent /\ drawings < MaxDrawings
    /\ drawings' = drawings + 1
    /\ \E drawing \in {0, drawings + 1} : cursor' = [conn |-> conn, drawing |-> drawing]
    /\ unsent' = Append(unsent, CursorUpdated)
    /\ UNCHANGED <<conn, mState, framebuffer, posted, pictureVars, widgetVars>>

SendEvents ==
    /\ unsent # <<>> /\ Len(posted) + Len(unsent) <= MaxPosted
    /\ posted' = posted \o unsent /\ unsent' = <<>>
    /\ UNCHANGED <<conn, mState, framebuffer, cursor, drawings, pictureVars, widgetVars>>

(* The events of an incomplete update are freed. *)
Disconnect ==
    /\ mState = "Connected" /\ ResultSent
    /\ mState' = "NotConnected" /\ unsent' = <<>>
    /\ UNCHANGED <<conn, framebuffer, cursor, drawings, posted, pictureVars, widgetVars>>

-----------------------------------------------------------------------------
(* The widget *)

(* Faulty: the texture of the previous framebuffer is kept. *)
resetFramebuffer_KeepsTexture(width) ==
    /\ mFramebufferWidth' = width
    /\ UNCHANGED pictureVars

resetFramebuffer(width) ==
    /\ mFramebufferWidth' = width
    /\ mFramebufferTextureInitialized' = FALSE
    /\ UNCHANGED framebufferTexture

handleConnectEvent ==
    /\ posted # <<>> /\ Head(posted).type = "result"
    /\ posted' = Tail(posted)
    /\ resetFramebuffer(Head(posted).width)
    /\ shown' = Head(posted).conn
    /\ UNCHANGED <<libraryVars, mGLInitialized, mDebugBitPlanes, cursorTexture>>

(* The framebuffer may be newer than the event, and of another connection:  *)
(* then its size tells, or the texture is reset once the result is handled.*)
FramebufferUsable ==
    mGLInitialized /\ DOMAIN framebuffer = Columns(mFramebufferWidth)

(* The first update takes the whole framebuffer over.                      *)
updateFramebuffer(columns) ==
    /\ mFramebufferTextureInitialized' = TRUE
    /\ framebufferTexture' =
         [c \in DOMAIN framebuffer |->
             IF ~mFramebufferTextureInitialized \/ c \in columns
             THEN framebuffer[c] ELSE framebufferTexture[c]]

handleFramebufferUpdatedEvent ==
    /\ posted # <<>> /\ Head(posted).type = "rectangle"
    /\ posted' = Tail(posted)
    /\ LET columns == Head(posted).columns
       IN  IF FramebufferUsable
              /\ (mFramebufferTextureInitialized => columns \subseteq DOMAIN framebuffer)
           THEN updateFramebuffer(columns) ELSE UNCHANGED pictureVars
    /\ UNCHANGED <<libraryVars, widgetVars>>

updateCursor ==
    IF cursor.drawing = 0 THEN 0
    ELSE IF mGLInitialized THEN cursor.drawing ELSE cursorTexture

handleCursorUpdatedEvent ==
    /\ posted # <<>> /\ Head(posted).type = "cursor"
    /\ posted' = Tail(posted)
    /\ cursorTexture' = updateCursor
    /\ UNCHANGED <<libraryVars, pictureVars, mGLInitialized, mFramebufferWidth, mDebugBitPlanes, shown>>

(* The first time the widget is painted.  Nobody is connected to            *)
(* initializedOpenGL(): what was missed so far stays missing until the     *)
(* next event.                                                             *)
initializeGL ==
    /\ ~mGLInitialized /\ shown > 0
    /\ mGLInitialized' = TRUE
    /\ mFramebufferTextureInitialized' = FALSE /\ cursorTexture' = 0
    /\ UNCHANGED <<libraryVars, posted, framebufferTexture, mFramebufferWidth, mDebugBitPlanes, shown>>

(* Some or all of the bit planes: a menu of MainWindow that is enabled      *)
(* while there is a connection, or an attempt to make one.                 *)
setDebugBitPlanes ==
    /\ mState # "NotConnected"
    /\ mDebugBitPlanes' \in BOOLEAN
    /\ mFramebufferTextureInitialized' = FALSE
    /\ UNCHANGED <<libraryVars, posted, framebufferTexture, mGLInitialized, mFramebufferWidth,
                   cursorTexture, shown>>

Next ==
    \/ connectToHost \/ Connect \/ Draw \/ SetCursor \/ SendEvents \/ Disconnect
    \/ handleConnectEvent \/ handleFramebufferUpdatedEvent \/ handleCursorUpdatedEvent
    \/ initializeGL \/ setDebugBitPlanes

Spec == Init /\ [][Next]_vars

-----------------------------------------------------------------------------
(* Properties *)

Waiting == {posted[i] : i \in DOMAIN posted} \cup {unsent[i] : i \in DOMAIN unsent}
Outdated == UNION {e.columns : e \in {w \in Waiting : w.type = "rectangle"}}

(* What the widget shows of the current connection is what the library      *)
(* holds, but for what an event that is still on its way will bring.       *)
(* (With some bit planes only, the widget shows something else.)           *)
PictureCurrent ==
    mState = "Connected" /\ shown = conn /\ mFramebufferTextureInitialized /\ ~mDebugBitPlanes =>
        /\ DOMAIN framebufferTexture = DOMAIN framebuffer
        /\ \A c \in DOMAIN framebuffer \ Outdated : framebufferTexture[c] = framebuffer[c]

(* A cursor of this connection that is shown is the last one the server     *)
(* sent.                                                                   *)
CursorCurrent ==
    mState = "Connected" /\ cursor.conn = conn /\ CursorUpdated \notin Waiting =>
        cursorTexture \in {0, cursor.drawing}

ShownIsCurrent == PictureCurrent /\ CursorCurrent

-----------------------------------------------------------------------------
(* The inductive invariant behind them. *)

OnTheWay == posted \o unsent

Event == [type : {"result"}, conn : Nat, width : Widths]
         \cup [type : {"rectangle"}, columns : SUBSET Nat]
         \cup {CursorUpdated}

TypeOK ==
    /\ conn \in Nat /\ shown \in Nat /\ drawings \in Nat
    /\ mState \in {"NotConnected", "Connecting", "Connected"}
    /\ cursor \in [conn : Nat, drawing : Nat]
    /\ unsent \in Seq(Event) /\ posted \in Seq(Event)
    /\ {mGLInitialized, mFramebufferTextureInitialized, mDebugBitPlanes} \subseteq BOOLEAN
    /\ mFramebufferWidth \in Nat /\ cursorTexture \in Nat
    /\ \E width \in {0} \cup Widths : DOMAIN framebuffer = Columns(width)

(* An event the widget can take over into a framebuffer of these columns. *)
Inside(e, columns) ==
    /\ e.type # "result"
    /\ e.type = "rectangle" => e.columns \subseteq columns

(* The widget has handled the result of the newest connection, knows its    *)
(* size, and all that is on its way is about its framebuffer.              *)
ResultHandled ==
    /\ shown = conn
    /\ DOMAIN framebuffer = Columns(mFramebufferWidth)
    /\ \A i \in DOMAIN OnTheWay : Inside(OnTheWay[i], DOMAIN framebuffer)

(* The k-th event on its way is that result, behind all that is left of     *)
(* earlier connections.                                                    *)
ResultAt(k) ==
    /\ OnTheWay[k].type = "result" /\ OnTheWay[k].conn = conn
    /\ DOMAIN framebuffer = Columns(OnTheWay[k].width)
    /\ \A i \in DOMAIN OnTheWay :
          /\ i < k /\ OnTheWay[i].type = "result" => OnTheWay[i].conn < conn
          /\ i > k => Inside(OnTheWay[i], DOMAIN framebuffer)

ResultInv == ResultHandled \/ (shown < conn /\ \E k \in DOMAIN OnTheWay : ResultAt(k))

(* No textures before OpenGL is initialized; a cursor is never of a         *)
(* connection to come.                                                     *)
TextureInv ==
    /\ mFramebufferTextureInitialized => mGLInitialized
    /\ ~mGLInitialized => cursorTexture = 0
    /\ cursor.conn <= conn

WidgetInv == TypeOK /\ ResultInv /\ TextureInv /\ ShownIsCurrent
=============================================================================
