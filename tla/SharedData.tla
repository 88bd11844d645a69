------------------------------ MODULE SharedData ------------------------------
(***************************************************************************)
(* OrvVncClientSharedData: the state the application's calls and the       *)
(* connection thread share, all of it protected by mMutex, and the pipe    *)
(* (ThreadNotifier) that wakes the thread up.                              *)
(*                                                                         *)
(* A critical section is one step: it needs mMutex to be free and leaves    *)
(* it free.  mMutex stays locked across steps only where the code hands it *)
(* over: while the constructor starts the thread and between               *)
(* orv_acquire_framebuffer() and orv_release_framebuffer().                *)
(***************************************************************************)
EXTENDS ClientHistory, Sequences

CONSTANTS
    Passwords,      \* the passwords the application may set
    NoPassword      \* mPassword is a null pointer

ASSUME PasswordAssumption == NoPassword \notin Passwords

VARIABLES
    mMutex, mWantQuitThread, mUserRequestedDisconnect, mAbortFlag, mState,
    mPassword, mWantSendFramebufferUpdateRequest, mRequestFramebuffer,
    mClientSendEvents, mFramebuffer, mHaveFramebufferUpdateResponse,
    mStartupWaitCondition,
    pipe            \* the pipe is readable: a wake-up has not been swallowed yet

flags == <<mWantQuitThread, mUserRequestedDisconnect, mAbortFlag>>
updateVars == <<mWantSendFramebufferUpdateRequest, mRequestFramebuffer,
                mFramebuffer, mHaveFramebufferUpdateResponse>>
sharedVars == <<mMutex, flags, mState, mPassword, updateVars, mClientSendEvents,
                mStartupWaitCondition, pipe>>

ConnectionState == {"NotConnected", "StartConnection", "ConnectionPending", "Connected"}

(* The geometry of a framebuffer is the number of the connection whose     *)
(* server announced it; 0 is the 0x0 framebuffer of a client that was      *)
(* never connected.                                                        *)
Geometry == 0..MaxConnects

RequestFramebuffer == [type : {"request"}, incremental : BOOLEAN, of : Geometry]

(* A key or pointer event: its identity, and the connection it was meant for. *)
ClientSendEvent == [type : {"input"}, id : 1..MaxInputs, conn : 1..MaxConnects]

SharedTypeOK ==
    /\ mMutex \in {"free", "client"}
    /\ mWantQuitThread \in BOOLEAN
    /\ mUserRequestedDisconnect \in BOOLEAN
    /\ mAbortFlag \in BOOLEAN
    /\ mState \in ConnectionState
    /\ mPassword \in Passwords \cup {NoPassword}
    /\ mWantSendFramebufferUpdateRequest \in BOOLEAN
    /\ mRequestFramebuffer \in RequestFramebuffer
    /\ mClientSendEvents \in Seq(ClientSendEvent)
    /\ mFramebuffer \in Geometry
    /\ mHaveFramebufferUpdateResponse \in BOOLEAN
    /\ mStartupWaitCondition \in {"idle", "waiting", "notified"}
    /\ pipe \in BOOLEAN

(* The constructor of OrvVncClient has locked mMutex when it spawns the thread. *)
SharedInit ==
    /\ mMutex = "client"
    /\ mWantQuitThread = FALSE
    /\ mUserRequestedDisconnect = FALSE
    /\ mAbortFlag = FALSE
    /\ mState = "NotConnected"
    /\ mPassword = NoPassword
    /\ mWantSendFramebufferUpdateRequest = FALSE
    /\ mRequestFramebuffer = [type |-> "request", incremental |-> TRUE, of |-> 0]
    /\ mClientSendEvents = <<>>
    /\ mFramebuffer = 0
    /\ mHaveFramebufferUpdateResponse = FALSE
    /\ mStartupWaitCondition = "idle"
    /\ pipe = FALSE

MutexFree == mMutex = "free"

(* ThreadNotifierWriter::sendNotification() *)
sendNotification == pipe' = TRUE

(* Faulty: the notification is not written. *)
wakeThread_Omitted == UNCHANGED pipe

(* OrvVncClient::wakeThread() *)
wakeThread == sendNotification

(* ThreadNotifierListener::swallowPipeData() reads until nothing is left. *)
swallowPipeData == pipe' = FALSE

(* Faulty: queued events survive the change. *)
changeStateMutexLocked_KeepsEvents(state) ==
    /\ mState' = state
    /\ UNCHANGED mClientSendEvents

(* ConnectionThread::changeStateMutexLocked() *)
changeStateMutexLocked(state) ==
    /\ mState' = state
    /\ mClientSendEvents' = <<>>

(* The end of a connection or of an attempt: a new request may be accepted *)
(* from here on, and only a pending destruction still aborts.              *)
resetToNotConnected ==
    /\ changeStateMutexLocked("NotConnected")
    /\ mAbortFlag' = mWantQuitThread
    /\ mUserRequestedDisconnect' = FALSE
    /\ UNCHANGED mWantQuitThread
=============================================================================
