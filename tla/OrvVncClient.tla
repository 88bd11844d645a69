----------------------------- MODULE OrvVncClient -----------------------------
(***************************************************************************)
(* The application's side: OrvVncClient, as the functions of libopenrv.cpp *)
(* call it.  Any thread of the application may call any function at any    *)
(* time, the event callback included.                                      *)
(***************************************************************************)
EXTENDS SharedData

CONSTANTS
    Calls,              \* the functions the application calls, apart from orv_connect()
    ViewOnlyOptions     \* the values the application gives to mViewOnly

ApiCalls == {"destroy", "credentials", "disconnect", "viewonly", "request", "rectangle",
             "input", "framebuffer"}

ASSUME ApplicationAssumption ==
    /\ Calls \subseteq ApiCalls
    /\ ViewOnlyOptions \subseteq BOOLEAN

VARIABLES
    client,         \* the life of the OrvVncClient object; "holding": a framebuffer is acquired
    mViewOnly,
    inputCall       \* orv_send_key_event() or orv_send_pointer_event() has passed its check of mViewOnly

clientVars == <<client, mViewOnly, inputCall>>

ClientTypeOK ==
    /\ client \in {"constructing", "ready", "holding", "joining", "gone"}
    /\ mViewOnly \in BOOLEAN
    /\ inputCall \in BOOLEAN

ClientInit ==
    /\ client = "constructing"
    /\ mViewOnly = FALSE
    /\ inputCall = FALSE

-----------------------------------------------------------------------------
(* The constructor waits on mStartupWaitCondition, which unlocks mMutex.   *)
StartupWait ==
    /\ client = "constructing"
    /\ mMutex = "client"
    /\ mMutex' = "free"
    /\ mStartupWaitCondition' = "waiting"
    /\ UNCHANGED <<flags, mState, mPassword, updateVars, mClientSendEvents, pipe,
                   clientVars, historyVars>>

(* The wait returns, by a notification or spuriously: it has no predicate. *)
StartupReturn(reason) ==
    /\ client = "constructing"
    /\ mStartupWaitCondition = reason
    /\ MutexFree
    /\ client' = "ready"
    /\ mStartupWaitCondition' = "idle"
    /\ UNCHANGED <<mMutex, flags, mState, mPassword, updateVars, mClientSendEvents, pipe,
                   mViewOnly, inputCall, historyVars>>

StartupNotified == StartupReturn("notified")
StartupSpurious == StartupReturn("waiting")

CriticalSection ==
    /\ client = "ready"
    /\ MutexFree

(* Faulty: the thread is not woken. *)
requestQuit_Silent ==
    /\ mWantQuitThread' = TRUE
    /\ mAbortFlag' = TRUE
    /\ UNCHANGED pipe

requestQuit ==
    /\ mWantQuitThread' = TRUE
    /\ mAbortFlag' = TRUE
    /\ wakeThread

(* orv_destroy(): the destructor up to the join of the thread. *)
destroy ==
    /\ CriticalSection
    /\ ~inputCall
    /\ requestQuit
    /\ client' = "joining"
    /\ UNCHANGED <<mMutex, mUserRequestedDisconnect, mState, mPassword, updateVars,
                   mClientSendEvents, mStartupWaitCondition, mViewOnly, inputCall, historyVars>>

setCredentials(password) ==
    /\ CriticalSection
    /\ mPassword' = password
    /\ UNCHANGED <<mMutex, flags, mState, updateVars, mClientSendEvents,
                   mStartupWaitCondition, pipe, clientVars, historyVars>>

(* Faulty: a second connection is accepted. *)
mayConnect_Always == TRUE

mayConnect == mState = "NotConnected"

(* orv_connect() on a client without a connection. *)
connectToHost(viewOnly) ==
    /\ CriticalSection
    /\ mayConnect
    /\ connects < MaxConnects
    /\ mViewOnly' = viewOnly
    /\ mState' = "StartConnection"
    /\ mAbortFlag' = mWantQuitThread
    /\ mUserRequestedDisconnect' = FALSE
    /\ wakeThread
    /\ connects' = connects + 1
    /\ owedResults' = owedResults + 1
    /\ disconnects' = IF disconnects = "none" THEN "none" ELSE "reconnected"
    /\ UNCHANGED <<mMutex, mWantQuitThread, mPassword, updateVars, mClientSendEvents,
                   mStartupWaitCondition, client, inputCall,
                   inputs, view, owedDisconnect, lastSent, responded>>

(* orv_set_viewonly(); and an orv_connect() that is refused, because the   *)
(* previous connection is not finished or the port or the host name is     *)
(* invalid, which has stored its mViewOnly option before it looks.         *)
setViewOnly(viewOnly) ==
    /\ client = "ready"
    /\ mViewOnly' = viewOnly
    /\ UNCHANGED <<sharedVars, client, inputCall, historyVars>>

disconnect ==
    /\ CriticalSection
    /\ mUserRequestedDisconnect' = TRUE
    /\ mAbortFlag' = TRUE
    /\ wakeThread
    /\ owedDisconnect' = TRUE
    /\ disconnects' = IF disconnects = "none" THEN "called" ELSE disconnects
    /\ UNCHANGED <<mMutex, mWantQuitThread, mState, mPassword, updateVars, mClientSendEvents,
                   mStartupWaitCondition, clientVars,
                   connects, inputs, view, owedResults, lastSent, responded>>

-----------------------------------------------------------------------------
(* Both variants of OrvVncClient::sendFramebufferUpdateRequest(): a request *)
(* that waits to be sent is replaced, and the thread woken if that changes  *)
(* anything.  There is no check of mState.                                 *)
putRequest(request) ==
    /\ CriticalSection
    /\ ~mWantSendFramebufferUpdateRequest \/ request # mRequestFramebuffer
    /\ mWantSendFramebufferUpdateRequest' = TRUE
    /\ mRequestFramebuffer' = request
    /\ wakeThread
    /\ UNCHANGED <<mMutex, flags, mState, mPassword, mFramebuffer, mHaveFramebufferUpdateResponse,
                   mClientSendEvents, mStartupWaitCondition, clientVars, historyVars>>

(* orv_request_framebuffer_update_full() *)
requestFull ==
    putRequest([type |-> "request",
                incremental |-> mHaveFramebufferUpdateResponse,
                of |-> mFramebuffer])

(* orv_request_framebuffer_update() with a rectangle of any framebuffer the *)
(* application has been told of.                                           *)
requestRect(geometry) ==
    putRequest([type |-> "request", incremental |-> TRUE, of |-> geometry])

(* orv_send_key_event() and orv_send_pointer_event() read mViewOnly first, *)
(* without the lock ...                                                    *)
checkViewOnly ==
    /\ client = "ready"
    /\ ~inputCall
    /\ ~mViewOnly
    /\ inputs < MaxInputs
    /\ inputCall' = TRUE
    /\ UNCHANGED <<sharedVars, client, mViewOnly, historyVars>>

(* ... then OrvVncClient::sendKeyEvent() or sendPointerEvent() queues the event. *)
queueInput ==
    /\ CriticalSection
    /\ inputCall
    /\ mState = "Connected"
    /\ inputCall' = FALSE
    /\ inputs' = inputs + 1
    /\ mClientSendEvents' =
         Append(mClientSendEvents, [type |-> "input", id |-> inputs + 1, conn |-> connects])
    /\ wakeThread
    /\ UNCHANGED <<mMutex, flags, mState, mPassword, updateVars, mStartupWaitCondition,
                   client, mViewOnly,
                   connects, view, owedResults, owedDisconnect, disconnects, lastSent, responded>>

(* Without a connection the event is dropped. *)
dropInput ==
    /\ CriticalSection
    /\ inputCall
    /\ mState # "Connected"
    /\ inputCall' = FALSE
    /\ UNCHANGED <<sharedVars, client, mViewOnly, historyVars>>

(* orv_acquire_framebuffer() and orv_acquire_cursor() return with mMutex locked. *)
acquireFramebuffer ==
    /\ CriticalSection
    /\ mMutex' = "client"
    /\ client' = "holding"
    /\ UNCHANGED <<flags, mState, mPassword, updateVars, mClientSendEvents,
                   mStartupWaitCondition, pipe, mViewOnly, inputCall, historyVars>>

releaseFramebuffer ==
    /\ client = "holding"
    /\ mMutex' = "free"
    /\ client' = "ready"
    /\ UNCHANGED <<flags, mState, mPassword, updateVars, mClientSendEvents,
                   mStartupWaitCondition, pipe, mViewOnly, inputCall, historyVars>>

ClientStep ==
    \/ StartupWait \/ StartupNotified \/ StartupSpurious
    \/ \E viewOnly \in ViewOnlyOptions : connectToHost(viewOnly)
    \/ "destroy" \in Calls /\ destroy
    \/ "credentials" \in Calls /\ \E password \in Passwords \cup {NoPassword} : setCredentials(password)
    \/ "disconnect" \in Calls /\ disconnect
    \/ "viewonly" \in Calls /\ \E viewOnly \in ViewOnlyOptions : setViewOnly(viewOnly)
    \/ "request" \in Calls /\ requestFull
    \/ "rectangle" \in Calls /\ \E geometry \in 0..mFramebuffer : requestRect(geometry)
    \/ "input" \in Calls /\ (checkViewOnly \/ queueInput \/ dropInput)
    \/ "framebuffer" \in Calls /\ (acquireFramebuffer \/ releaseFramebuffer)
=============================================================================
