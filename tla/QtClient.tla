-------------------------------- MODULE QtClient --------------------------------
(***************************************************************************)
(* The Qt client above the library: TopWidget with the pages it shows, the *)
(* menu of MainWindow, and OrvContext, which hands the library's events to *)
(* the event loop.  The connection is that of LibraryConnection; what the  *)
(* library has told and the application has not yet handled is in `posted`. *)
(***************************************************************************)
EXTENDS LibraryConnection, LatencyTester

CONSTANTS
    MaxAttempts,    \* bound: accepted orv_connect() calls
    MaxPosted       \* bound: the user waits while more events are posted

ASSUME QtAssumption == MaxAttempts \in Nat /\ MaxPosted \in Nat

VARIABLES
    page,           \* the current widget of mLayout
    context,        \* mQtOrvContext exists
    mWasDisconnectedWaitForUser,
    canAbort,       \* the menu entries that need a connection are enabled
    testerMenu,     \* "Disconnect from Latency Tester" and "Start latency test" are enabled
    testing,        \* mLatencyTestTimer runs
    mWantSendFramebufferUpdateRequest,
    outstanding,    \* update requests the server has not answered
    timers,         \* single shots of requestFramebufferUpdate()
    autoConnect,    \* a host was named on the command line; its single shot waits
    attempts        \* history: accepted orv_connect() calls

widgetVars == <<page, mWasDisconnectedWaitForUser, canAbort>>
updateVars == <<mWantSendFramebufferUpdateRequest, outstanding, timers>>
menuVars == <<testerMenu, testing>>
contextVars == <<context, autoConnect, attempts>>
vars == <<connectionVars, testerVars, posted, widgetVars, updateVars, menuVars, contextVars>>

Pages == {"ServerList", "NewServer", "ConnectState", "Orv", "closed"}

result(success) == [type |-> "result", success |-> success]
disconnected == [type |-> "disconnected"]
finished == [type |-> "finished"]

PostedEvents ==
    {result(TRUE), result(FALSE), disconnected, finished, tells(TRUE), tells(FALSE), answer}

TypeOK ==
    /\ ConnectionTypeOK
    /\ TesterTypeOK
    /\ posted \in Seq(PostedEvents)
    /\ page \in Pages
    /\ context \in BOOLEAN
    /\ mWasDisconnectedWaitForUser \in BOOLEAN
    /\ canAbort \in BOOLEAN
    /\ testerMenu \in BOOLEAN
    /\ testing \in BOOLEAN
    /\ mWantSendFramebufferUpdateRequest \in BOOLEAN
    /\ outstanding \in Nat
    /\ timers \in Nat
    /\ autoConnect \in BOOLEAN
    /\ attempts \in 0..MaxAttempts

(* TopWidget's constructor shows the list; only the menu entries named     *)
(* here start disabled.                                                    *)
WidgetsInit ==
    /\ page = "ServerList"
    /\ context = FALSE
    /\ mWasDisconnectedWaitForUser = FALSE
    /\ timers = 0

MenuInit ==
    /\ canAbort = FALSE
    /\ testerMenu = FALSE
    /\ testing = FALSE

Init ==
    /\ ConnectionInit
    /\ TesterInit
    /\ WidgetsInit
    /\ MenuInit
    /\ posted = <<>>
    /\ mWantSendFramebufferUpdateRequest = FALSE
    /\ outstanding = 0
    /\ autoConnect \in BOOLEAN
    /\ attempts = 0

-----------------------------------------------------------------------------
(* Pages *)

changeCurrentWidgetTo(w) ==
    /\ page' = w
    /\ canAbort' = (w \in {"ConnectState", "Orv"})
    /\ mWasDisconnectedWaitForUser' =
         (mWasDisconnectedWaitForUser /\ w \notin {"ServerList", "NewServer"})

(* The user's click is handled between two posted events. *)
UserMayAct == page # "closed" /\ Len(posted) < MaxPosted

cancelNewServer ==
    /\ UserMayAct
    /\ page = "NewServer"
    /\ changeCurrentWidgetTo("ServerList")
    /\ UNCHANGED <<connectionVars, testerVars, posted, updateVars, menuVars, contextVars>>

(* editServer(); and showAddNewServerWidget(), which refuses while orv_is_connected(). *)
showNewServerWidget ==
    /\ UserMayAct
    /\ page = "ServerList"
    /\ changeCurrentWidgetTo("NewServer")
    /\ UNCHANGED <<connectionVars, testerVars, posted, updateVars, menuVars, contextVars>>

-----------------------------------------------------------------------------
(* Connecting *)

(* The OrvContext is made at the first connect; orv_init() returns when the *)
(* thread has started.                                                     *)
createContext ==
    /\ context' = TRUE
    /\ view' = IF context THEN view ELSE "none"

(* orv_connect() fails at once for an invalid host or port or if a         *)
(* connection exists; the page shows the error then.                       *)
connects ==
    /\ attempts < MaxAttempts
    /\ createContext
    /\ page' = "ConnectState"
    /\ canAbort' = TRUE
    /\ mWasDisconnectedWaitForUser' = FALSE
    /\ \/ /\ state = "NotConnected"
          /\ state' = "Connecting"
          /\ requested' = FALSE
          /\ owed' = owed + 1
          /\ attempts' = attempts + 1
       \/ UNCHANGED <<state, requested, owed, attempts>>
    /\ UNCHANGED <<at, testerVars, posted, updateVars, menuVars>>

(* A click on a server of the list, or "Connect" in the form of a new one. *)
connectToHost ==
    /\ UserMayAct
    /\ page \in {"ServerList", "NewServer"}
    /\ connects
    /\ UNCHANGED autoConnect

(* The connection the command line asks for, on whatever page the user is. *)
startConnect ==
    /\ page # "closed"
    /\ autoConnect
    /\ autoConnect' = FALSE
    /\ connects

(* orv_init() fails: the page stays. *)
NoContext ==
    /\ UserMayAct
    /\ page \in {"ServerList", "NewServer"}
    /\ ~context
    /\ mWasDisconnectedWaitForUser' = FALSE
    /\ UNCHANGED <<page, canAbort, connectionVars, testerVars, posted, updateVars, menuVars,
                   contextVars>>

(* The button of ConnectStateWidget and the menu entry "Disconnect".       *)
abortConnect ==
    /\ UserMayAct
    /\ canAbort
    /\ IF ~context \/ mWasDisconnectedWaitForUser
       THEN changeCurrentWidgetTo("ServerList") /\ UNCHANGED connectionVars
       ELSE Disconnect /\ UNCHANGED widgetVars
    /\ UNCHANGED <<testerVars, posted, updateVars, menuVars, contextVars>>

(* ~OrvContext(): the thread is joined; the events posted to the object go *)
(* with it.                                                                *)
destroyContext ==
    /\ context' = FALSE
    /\ view' = IF context THEN "stopped" ELSE view
    /\ at' = "free"
    /\ posted' = <<>>

(* ~TopWidget(): the tester's thread is joined too.                        *)
Quit ==
    /\ page # "closed"
    /\ page' = "closed"
    /\ destroyContext
    /\ tester' = "none"
    /\ timers' = 0
    /\ testing' = FALSE
    /\ UNCHANGED <<state, requested, owed, mWantSendRequest, mWasDisconnectedWaitForUser,
                   canAbort, mWantSendFramebufferUpdateRequest, outstanding, testerMenu,
                   autoConnect, attempts>>

-----------------------------------------------------------------------------
(* The library's thread.  Its events are posted by orv_qt_callback(), which *)
(* drops those it cannot deliver and the ones about the thread.            *)

Frame == UNCHANGED <<testerVars, widgetVars, menuVars, contextVars>>

ConnectionMoves ==
    /\ context
    /\ AttemptSucceeds \/ Abandons \/ Leaves
    /\ UNCHANGED <<posted, updateVars>>
    /\ Frame

ConnectionCloses ==
    /\ context
    /\ Closes
    /\ outstanding' = 0
    /\ UNCHANGED <<posted, mWantSendFramebufferUpdateRequest, timers>>
    /\ Frame

orv_qt_callback(event) == posted' = Append(posted, event)

ResultPosted ==
    /\ context
    /\ \/ TellSucceeded /\ orv_qt_callback(result(TRUE))
       \/ TellFailed /\ orv_qt_callback(result(FALSE))
    /\ UNCHANGED updateVars
    /\ Frame

DisconnectedPosted ==
    /\ context
    /\ TellDisconnected
    /\ orv_qt_callback(disconnected)
    /\ UNCHANGED updateVars
    /\ Frame

Exchanging == context /\ state = "Connected" /\ at = "free"

RequestSent ==
    /\ Exchanging
    /\ mWantSendFramebufferUpdateRequest
    /\ mWantSendFramebufferUpdateRequest' = FALSE
    /\ outstanding' = outstanding + 1
    /\ UNCHANGED <<connectionVars, posted, timers>>
    /\ Frame

(* A FramebufferUpdate of the server, which may answer several requests.   *)
UpdateReceived ==
    /\ Exchanging
    /\ outstanding > 0
    /\ outstanding' \in 0..(outstanding - 1)
    /\ orv_qt_callback(finished)
    /\ UNCHANGED <<connectionVars, mWantSendFramebufferUpdateRequest, timers>>
    /\ Frame

-----------------------------------------------------------------------------
(* Event handlers: OrvContext::event() on the first posted event. *)

delivers(event) == page # "closed" /\ posted # <<>> /\ Head(posted) = event

(* Faulty: no first update is requested. *)
firstRequest_None == UNCHANGED mWantSendFramebufferUpdateRequest

firstRequest == mWantSendFramebufferUpdateRequest' = TRUE

(* A result that arrives on another page is ignored.                       *)
handleConnectEvent ==
    /\ \E success \in BOOLEAN :
         /\ delivers(result(success))
         /\ IF page = "ConnectState" /\ success
            THEN page' = "Orv" /\ firstRequest
            ELSE UNCHANGED <<page, mWantSendFramebufferUpdateRequest>>
    /\ posted' = Tail(posted)
    /\ UNCHANGED <<connectionVars, testerVars, mWasDisconnectedWaitForUser, canAbort,
                   outstanding, timers, menuVars, contextVars>>

(* Faulty: the message is shown without waiting for the user.              *)
messageShown_Unconfirmed == UNCHANGED mWasDisconnectedWaitForUser

messageShown == mWasDisconnectedWaitForUser' = TRUE

(* Faulty: the page that shows the desktop is kept.                        *)
pageAfterDisconnect_Kept == page

pageAfterDisconnect == "ConnectState"

handleDisconnectedEvent ==
    /\ delivers(disconnected)
    /\ tester' = "none"
    /\ mWantSendRequest' = FALSE
    /\ posted' = Tail(posted) \o farewell
    /\ page' = pageAfterDisconnect
    /\ canAbort' = TRUE
    /\ messageShown
    /\ UNCHANGED <<connectionVars, updateVars, menuVars, contextVars>>

handleFramebufferUpdateRequestFinishedEvent ==
    /\ delivers(finished)
    /\ timers' = timers + 1
    /\ posted' = Tail(posted)
    /\ UNCHANGED <<connectionVars, testerVars, widgetVars, mWantSendFramebufferUpdateRequest,
                   outstanding, menuVars, contextVars>>

requestFramebufferUpdate ==
    /\ timers > 0
    /\ timers' = timers - 1
    /\ mWantSendFramebufferUpdateRequest' = TRUE
    /\ UNCHANGED <<connectionVars, testerVars, posted, widgetVars, outstanding, menuVars,
                   contextVars>>

(* MainWindow's slot; a running test is stopped whatever the news.         *)
canAbortConnectionToLatencyTesterUpdated ==
    /\ \E connected \in BOOLEAN :
         /\ delivers(tells(connected))
         /\ testerMenu' = connected
    /\ testing' = FALSE
    /\ posted' = Tail(posted)
    /\ UNCHANGED <<connectionVars, testerVars, widgetVars, updateVars, contextVars>>

addLatencyTesterData ==
    /\ delivers(answer)
    /\ posted' = Tail(posted)
    /\ UNCHANGED <<connectionVars, testerVars, widgetVars, updateVars, menuVars, contextVars>>

-----------------------------------------------------------------------------
(* The latency tester in the menu *)

TesterUnchanged == UNCHANGED <<connectionVars, widgetVars, updateVars, contextVars>>

(* Without a context there is nothing to measure.                          *)
startConnectToLatencyTester ==
    /\ UserMayAct
    /\ canAbort
    /\ context
    /\ testerConnect
    /\ UNCHANGED menuVars
    /\ TesterUnchanged

disconnectFromLatencyTester ==
    /\ UserMayAct
    /\ testerMenu
    /\ testerDisconnect
    /\ UNCHANGED menuVars
    /\ TesterUnchanged

startLatencyTest ==
    /\ UserMayAct
    /\ testerMenu
    /\ testing' = TRUE
    /\ UNCHANGED <<testerMenu, testerVars, posted>>
    /\ TesterUnchanged

stopLatencyTest ==
    /\ UserMayAct
    /\ testing
    /\ testing' = FALSE
    /\ UNCHANGED <<testerMenu, testerVars, posted>>
    /\ TesterUnchanged

latencyTestTick ==
    /\ UserMayAct
    /\ testing
    /\ testerRequestUpdate
    /\ UNCHANGED menuVars
    /\ TesterUnchanged

TesterStep ==
    \/ startConnectToLatencyTester \/ disconnectFromLatencyTester
    \/ startLatencyTest \/ stopLatencyTest \/ latencyTestTick
    \/ TesterThread /\ UNCHANGED menuVars /\ TesterUnchanged

-----------------------------------------------------------------------------
LibraryStep ==
    \/ ConnectionMoves \/ ConnectionCloses \/ ResultPosted \/ DisconnectedPosted
    \/ RequestSent \/ UpdateReceived

EventLoopStep ==
    \/ handleConnectEvent \/ handleDisconnectedEvent
    \/ handleFramebufferUpdateRequestFinishedEvent \/ requestFramebufferUpdate
    \/ canAbortConnectionToLatencyTesterUpdated \/ addLatencyTesterData

UserStep ==
    \/ cancelNewServer \/ showNewServerWidget \/ connectToHost \/ startConnect \/ NoContext
    \/ abortConnect \/ Quit

Terminated == page = "closed" /\ UNCHANGED vars

Next == LibraryStep \/ EventLoopStep \/ UserStep \/ TesterStep \/ Terminated

Spec == Init /\ [][Next]_vars

(* The event loop runs, and the user keeps pressing "Abort" or             *)
(* "Disconnect".  A disconnect is served once there is no attempt          *)
(* (VncClient!DisconnectServed holds for any calls of the application);    *)
(* an attempt need not end, the server may hold it (VncClient!HeldByServer). *)
Fairness ==
    /\ WF_vars(EventLoopStep)
    /\ WF_vars(ConnectionMoves /\ state # "Connecting" /\ requested)
    /\ WF_vars(ConnectionCloses)
    /\ WF_vars(ResultPosted)
    /\ WF_vars(DisconnectedPosted)
    /\ SF_vars(abortConnect)

FairSpec == Spec /\ Fairness

-----------------------------------------------------------------------------
Tells(type) == \E i \in DOMAIN posted : posted[i].type = type

(* The desktop is only shown for a connection that exists, or whose end    *)
(* the event loop is about to hear of: an update is never drawn and a key  *)
(* never sent for a connection the user was told is over.                  *)
ShownWhileUp == page = "Orv" => view = "up" \/ Tells("disconnected")

(* The chain of update requests never breaks while the desktop is shown:   *)
(* topwidget.cpp:436-441, "otherwise we receive no more updates".          *)
UpdatesKeepComing ==
    page = "Orv" /\ Exchanging =>
        \/ mWantSendFramebufferUpdateRequest
        \/ outstanding > 0
        \/ Tells("finished")
        \/ timers > 0

(* Once its events are handled, the menu says whether there is a tester to *)
(* disconnect from, and a test runs only with one.                         *)
TesterMenuHonest ==
    page # "closed" /\ ~Tells("tester") =>
        /\ testerMenu <=> tester \in {"idle", "asking"}
        /\ testing => testerMenu

(* A user who keeps pressing "Abort" or "Disconnect" gets back to the list *)
(* of servers (TopWidget::abortConnect()), on whatever page and however     *)
(* often he has connected on the same context, unless an attempt is held   *)
(* for ever.                                                               *)
AbortLeadsBack ==
    canAbort ~> page \in {"ServerList", "closed"} \/ [](state = "Connecting")
=============================================================================
