---------------------------- MODULE VncClientProofs ----------------------------
(***************************************************************************)
(* Proofs about VncClient, for every value of its constants: SafetyInv is  *)
(* an invariant, the safety properties it implies, the events implement    *)
(* ConnectionEvents, nothing of one connection is left to the next, and an *)
(* application sees LibraryConnection.                                     *)
(*                                                                         *)
(* A step lemma assumes the parts of SafetyInv it needs before the step    *)
(* and concludes one group of them after it, action by action:             *)
(*   ControlStep   where the thread is, the flags, the pipe, the events    *)
(*   OwedStep      the results still owed                                  *)
(*   TypeStep      the types and the queues                                *)
(***************************************************************************)
EXTENDS VncClient, SequenceTheorems, TLAPS

-----------------------------------------------------------------------------
(* Types of the data the two sides share. *)

(* changeStateMutexLocked() keeps the types of what it assigns. *)
LEMMA ChangeStateType ==
    ASSUME NEW state \in ConnectionState, changeStateMutexLocked(state)
    PROVE  mState' \in ConnectionState /\ mClientSendEvents' \in Seq(ClientSendEvent)
  BY DEF changeStateMutexLocked

(* resetToNotConnected() as well. *)
LEMMA ResetType ==
    ASSUME SharedTypeOK, resetToNotConnected
    PROVE  /\ mState' \in ConnectionState /\ mClientSendEvents' \in Seq(ClientSendEvent)
           /\ mAbortFlag' \in BOOLEAN /\ mWantQuitThread' \in BOOLEAN
           /\ mUserRequestedDisconnect' \in BOOLEAN
  <1>1. changeStateMutexLocked("NotConnected")
    BY DEF resetToNotConnected
  <1>2. "NotConnected" \in ConnectionState
    BY DEF ConnectionState
  <1>3. /\ mAbortFlag' \in BOOLEAN /\ mWantQuitThread' \in BOOLEAN
        /\ mUserRequestedDisconnect' \in BOOLEAN
    BY DEF resetToNotConnected, SharedTypeOK
  <1> QED
    BY <1>1, <1>2, <1>3, ChangeStateType

(* disconnectWithError() and abortConnectWithError() do. *)
LEMMA CloseType ==
    ASSUME SharedTypeOK, NEW from, NEW to, closeConnection(from, to)
    PROVE  SharedTypeOK'
  <1>1. resetToNotConnected
    BY DEF closeConnection
  <1> QED
    BY <1>1, ResetType DEF closeConnection, SharedTypeOK, updateVars

(* A request that replaces the waiting one is a request. *)
LEMMA PutRequestType ==
    ASSUME SharedTypeOK, NEW request \in RequestFramebuffer, putRequest(request)
    PROVE  SharedTypeOK'
  BY DEF putRequest, SharedTypeOK, flags, wakeThread, sendNotification

(* The full request asks for the framebuffer the client has. *)
LEMMA RequestFullType ==
    ASSUME SharedTypeOK, requestFull
    PROVE  SharedTypeOK'
  <1> DEFINE request == [type |-> "request",
                         incremental |-> mHaveFramebufferUpdateResponse,
                         of |-> mFramebuffer]
  <1>1. request \in RequestFramebuffer
    BY DEF SharedTypeOK, RequestFramebuffer
  <1>2. putRequest(request)
    BY DEF requestFull
  <1> QED
    BY <1>1, <1>2, PutRequestType

(* A rectangle is of the client's framebuffer or of an older one. *)
LEMMA RequestRectType ==
    ASSUME SharedTypeOK, NEW geometry \in 0..mFramebuffer, requestRect(geometry)
    PROVE  SharedTypeOK'
  <1> DEFINE request == [type |-> "request", incremental |-> TRUE, of |-> geometry]
  <1>1. geometry \in Geometry
    BY BoundsAssumption DEF SharedTypeOK, Geometry
  <1>2. request \in RequestFramebuffer
    BY <1>1 DEF RequestFramebuffer
  <1>3. putRequest(request)
    BY DEF requestRect
  <1> QED
    BY <1>2, <1>3, PutRequestType

(* A queued event belongs to a connection that was asked for. *)
LEMMA QueueInputType ==
    ASSUME SharedTypeOK, HistoryTypeOK, QueueInv, OwedInv, queueInput
    PROVE  SharedTypeOK'
  <1> DEFINE event == [type |-> "input", id |-> inputs + 1, conn |-> connects]
  <1>1. inputs + 1 \in 1..MaxInputs /\ connects \in 1..MaxConnects
    BY BoundsAssumption DEF HistoryTypeOK, QueueInv, OwedInv, queueInput
  <1>2. event \in ClientSendEvent
    BY <1>1 DEF ClientSendEvent
  <1>3. mClientSendEvents' = Append(mClientSendEvents, event)
    BY DEF queueInput
  <1>4. mClientSendEvents' \in Seq(ClientSendEvent)
    BY <1>2, <1>3 DEF SharedTypeOK
  <1>5. /\ pipe' = TRUE
        /\ UNCHANGED <<mMutex, flags, mState, mPassword, updateVars, mStartupWaitCondition>>
    BY DEF queueInput, wakeThread, sendNotification
  <1> QED
    BY <1>4, <1>5 DEF SharedTypeOK, flags, updateVars

(* The thread takes the password over and leaves none behind. *)
LEMMA StartConnectionType ==
    ASSUME SharedTypeOK, StartConnection
    PROVE  SharedTypeOK'
  <1>1. mState' \in ConnectionState /\ mClientSendEvents' \in Seq(ClientSendEvent)
    BY ChangeStateType DEF StartConnection, ConnectionState
  <1>2. /\ mPassword' = NoPassword
        /\ UNCHANGED <<mMutex, flags, updateVars, mStartupWaitCondition, pipe>>
    BY DEF StartConnection
  <1> QED
    BY <1>1, <1>2 DEF SharedTypeOK, flags, updateVars

(* The response flag is only ever cleared where a stage is published. *)
LEMMA PublishStageType ==
    ASSUME SharedTypeOK, publishStage
    PROVE  mHaveFramebufferUpdateResponse' \in BOOLEAN
  BY DEF publishStage

(* The new framebuffer is the current connection's. *)
LEMMA EstablishType ==
    ASSUME SharedTypeOK, HistoryTypeOK, Establish
    PROVE  SharedTypeOK'
  <1>1. mState' \in ConnectionState /\ mClientSendEvents' \in Seq(ClientSendEvent)
    <2>1. CASE changeStateMutexLocked("Connected")
      BY <2>1, ChangeStateType DEF ConnectionState
    <2>2. CASE UNCHANGED <<mState, mClientSendEvents>>
      BY <2>2 DEF SharedTypeOK
    <2> QED
      BY <2>1, <2>2 DEF Establish
  <1>2. mFramebuffer' \in Geometry
    BY DEF Establish, HistoryTypeOK, Geometry
  <1>3. UNCHANGED <<mMutex, flags, mPassword, mWantSendFramebufferUpdateRequest,
                    mRequestFramebuffer, mHaveFramebufferUpdateResponse,
                    mStartupWaitCondition, pipe>>
    BY DEF Establish
  <1> QED
    BY <1>1, <1>2, <1>3 DEF SharedTypeOK, flags

-----------------------------------------------------------------------------
(* Types of the data of the thread. *)

Outgoing == RequestFramebuffer \cup ClientSendEvent

(* What the thread takes over to send is what was queued. *)
LEMMA TakeOverType ==
    ASSUME SharedTypeOK, ThreadTypeOK, TakeOver
    PROVE  SharedTypeOK' /\ ThreadTypeOK' /\ (pc' = "io" => toSend' # <<>>)
  <1> DEFINE request == IF mWantSendFramebufferUpdateRequest
                        THEN <<mRequestFramebuffer>> ELSE <<>>
  <1>1. mClientSendEvents \in Seq(Outgoing)
    BY DEF SharedTypeOK, Outgoing
  <1>2. request \in Seq(Outgoing)
    <2>1. mRequestFramebuffer \in Outgoing
      BY DEF SharedTypeOK, Outgoing
    <2> QED
      BY <2>1
  <1>3. toSend' = request \o mClientSendEvents
    BY DEF TakeOver
  <1>4. toSend' \in Seq(Outgoing)
    BY <1>1, <1>2, <1>3
  <1>5. pc' \in {"sync", "io"} /\ (pc' = "io" => toSend' # <<>>)
    BY DEF TakeOver
  <1>6. /\ mWantSendFramebufferUpdateRequest' = FALSE
        /\ mClientSendEvents' = <<>>
        /\ UNCHANGED <<mMutex, flags, mState, mPassword, mRequestFramebuffer, mFramebuffer,
                       mHaveFramebufferUpdateResponse, mStartupWaitCondition, pipe>>
        /\ UNCHANGED <<stage, threadPassword, mCurrentMessageParser,
                       mFinishedFramebufferUpdateRequests>>
    BY DEF TakeOver
  <1>7. SharedTypeOK'
    BY <1>6, EmptySeq DEF SharedTypeOK, flags
  <1>8. ThreadTypeOK'
    BY <1>4, <1>5, <1>6 DEF ThreadTypeOK, Outgoing
  <1> QED
    BY <1>5, <1>7, <1>8

(* A message is written only if there is one, and the rest stays. *)
LEMMA MessageSentType ==
    ASSUME ThreadTypeOK, HistoryTypeOK, QueueInv, MessageSent
    PROVE  ThreadTypeOK' /\ HistoryTypeOK' /\ (pc' = "io" => toSend' # <<>>)
  <1>1. toSend \in Seq(Outgoing) /\ toSend # <<>> /\ pc = "io" /\ stage = "connected"
    BY DEF MessageSent, goto, ThreadTypeOK, QueueInv, Outgoing
  <1>2. /\ Head(toSend) \in Outgoing
        /\ Tail(toSend) \in Seq(Outgoing)
        /\ Len(Tail(toSend)) = Len(toSend) - 1
    BY <1>1
  <1>3. Head(toSend).type = "input" => Head(toSend).id \in 1..MaxInputs
    BY <1>2 DEF Outgoing, ClientSendEvent, RequestFramebuffer
  <1>4. lastSent' \in 0..MaxInputs
    BY <1>3 DEF MessageSent, HistoryTypeOK
  <1>5. pc' \in {"sync", "io"} /\ (pc' = "io" => Len(toSend) # 1)
    BY DEF MessageSent, goto
  <1>6. pc' = "io" => toSend' # <<>>
    BY <1>1, <1>2, <1>5 DEF MessageSent
  <1>7. ThreadTypeOK'
    BY <1>2, <1>5 DEF MessageSent, IoFrame, ThreadTypeOK
  <1>8. HistoryTypeOK'
    BY <1>4 DEF MessageSent, IoFrame, HistoryTypeOK
  <1> QED
    BY <1>6, <1>7, <1>8

(* A message begins in the connection that exists. *)
LEMMA BeginMessageType ==
    ASSUME ThreadTypeOK, HistoryTypeOK, OwedInv, StateInv, PositionInv,
           NEW kind \in {"FramebufferUpdate", "SetColourMapEntries", "ServerCutText"},
           BeginMessage(kind)
    PROVE  ThreadTypeOK'
  <1>1. stage = "connected"
    BY DEF BeginMessage, goto, PositionInv
  <1>2. connects \in 1..MaxConnects
    BY <1>1 DEF HistoryTypeOK, OwedInv, StateInv
  <1>3. mCurrentMessageParser' \in Messages
    BY <1>2 DEF BeginMessage, Messages
  <1>4. /\ pc' = "data"
        /\ UNCHANGED <<stage, threadPassword, mFinishedFramebufferUpdateRequests, toSend>>
    BY DEF BeginMessage, goto, DataFrame
  <1> QED
    BY <1>3, <1>4 DEF ThreadTypeOK

-----------------------------------------------------------------------------
(* The turn the main loop takes. *)

(* At the top of the loop the state is never "ConnectionPending"; what the *)
(* thread does next then follows from the flags and the state.             *)
LEMMA NextTurn ==
    ASSUME mWantQuitThread \in BOOLEAN, mAbortFlag \in BOOLEAN,
           mState \in ConnectionState, mState # "ConnectionPending"
    PROVE  \/ nextTurn = "stopping"
           \/ nextTurn = "abort" /\ mState = "StartConnection"
           \/ nextTurn = "disconnect" /\ mState # "StartConnection"
           \/ nextTurn = "sync" /\ mState = "NotConnected" /\ ~mAbortFlag
           \/ nextTurn = "start" /\ mState = "StartConnection" /\ ~mAbortFlag
           \/ nextTurn = "connected" /\ mState = "Connected" /\ ~mAbortFlag
  <1>1. CASE mWantQuitThread
    BY <1>1 DEF nextTurn
  <1>2. CASE ~mWantQuitThread /\ mAbortFlag
    BY <1>2 DEF nextTurn
  <1>3. CASE ~mWantQuitThread /\ ~mAbortFlag
    <2>1. nextTurn = CASE mState = "NotConnected" -> "sync"
                       [] mState = "StartConnection" -> "start"
                       [] mState = "Connected" -> "connected"
                       [] mState = "ConnectionPending" -> "abort"
      BY <1>3 DEF nextTurn
    <2>2. CASE mState = "NotConnected"
      BY <1>3, <2>1, <2>2
    <2>3. CASE mState = "StartConnection"
      BY <1>3, <2>1, <2>3
    <2>4. CASE mState = "Connected"
      BY <1>3, <2>1, <2>4
    <2> QED
      BY <2>2, <2>3, <2>4 DEF ConnectionState
  <1> QED
    BY <1>1, <1>2, <1>3

-----------------------------------------------------------------------------
(* The step lemmas. *)

(* Every step keeps the flags, the positions of the thread, the wake-ups   *)
(* and what the application was told consistent.                           *)
LEMMA ControlStep ==
    ASSUME TypeOK, AbortExplained, PositionInv, StateInv, WakeInv, ViewInv, [Next]_vars
    PROVE  (AbortExplained /\ PositionInv /\ StateInv /\ WakeInv /\ ViewInv)'
  <1> USE DEF TypeOK, SharedTypeOK, ThreadTypeOK, ConnectionState, Stages, AbortExplained,
      PositionInv, StateInv, WakeInv, ViewInv, Handshake
  <1>1. CASE StartupWait /\ UNCHANGED threadVars
    BY <1>1 DEF StartupWait, flags, threadVars, historyVars
  <1>2. CASE StartupNotified /\ UNCHANGED threadVars
    BY <1>2 DEF StartupNotified, StartupReturn, flags, threadVars, historyVars
  <1>3. CASE StartupSpurious /\ UNCHANGED threadVars
    BY <1>3 DEF StartupSpurious, StartupReturn, flags, threadVars, historyVars
  <1>4. CASE (\E viewOnly \in ViewOnlyOptions : connectToHost(viewOnly)) /\ UNCHANGED threadVars
    BY <1>4 DEF connectToHost, mayConnect, wakeThread, sendNotification, threadVars
  <1>5. CASE destroy /\ UNCHANGED threadVars
    BY <1>5 DEF destroy, requestQuit, wakeThread, sendNotification, threadVars, historyVars
  <1>6. CASE (\E password \in Passwords \cup {NoPassword} : setCredentials(password)) /\
            UNCHANGED threadVars
    BY <1>6 DEF setCredentials, flags, threadVars, historyVars
  <1>7. CASE disconnect /\ UNCHANGED threadVars
    BY <1>7 DEF disconnect, wakeThread, sendNotification, threadVars
  <1>8. CASE (\E viewOnly \in ViewOnlyOptions : setViewOnly(viewOnly)) /\ UNCHANGED threadVars
    BY <1>8 DEF setViewOnly, sharedVars, flags, threadVars, historyVars
  <1>9. CASE requestFull /\ UNCHANGED threadVars
    BY <1>9 DEF requestFull, putRequest, wakeThread, sendNotification, flags, threadVars,
       historyVars
  <1>10. CASE (\E geometry \in 0..mFramebuffer : requestRect(geometry)) /\ UNCHANGED threadVars
    BY <1>10 DEF requestRect, putRequest, wakeThread, sendNotification, flags, threadVars,
       historyVars
  <1>11. CASE checkViewOnly /\ UNCHANGED threadVars
    BY <1>11 DEF checkViewOnly, sharedVars, flags, threadVars, historyVars
  <1>12. CASE queueInput /\ UNCHANGED threadVars
    BY <1>12 DEF queueInput, wakeThread, sendNotification, flags, threadVars
  <1>13. CASE dropInput /\ UNCHANGED threadVars
    BY <1>13 DEF dropInput, sharedVars, flags, threadVars, historyVars
  <1>14. CASE acquireFramebuffer /\ UNCHANGED threadVars
    BY <1>14 DEF acquireFramebuffer, flags, threadVars, historyVars
  <1>15. CASE releaseFramebuffer /\ UNCHANGED threadVars
    BY <1>15 DEF releaseFramebuffer, flags, threadVars, historyVars
  <1>16. CASE SendThreadStarted /\ UNCHANGED clientVars
    BY <1>16 DEF SendThreadStarted, goto, sendEvent, sharedVars, flags
  <1>17. CASE NotifyStartup /\ UNCHANGED clientVars
    BY <1>17 DEF NotifyStartup, goto, flags, historyVars
  <1>18. CASE SendThreadAboutToStop /\ UNCHANGED clientVars
    BY <1>18 DEF SendThreadAboutToStop, goto, sendEvent, sharedVars, flags
  <1>19. CASE LoopTop /\ UNCHANGED clientVars
    <2>1. pc = "top" /\ pc' = nextTurn /\ UNCHANGED <<sharedVars, stage, historyVars>>
      BY <1>19 DEF LoopTop, goto
    <2>2. mState # "ConnectionPending"
      BY <2>1
    <2> QED
      BY <2>1, <2>2, NextTurn DEF sharedVars, flags, historyVars
  <1>20. CASE SyncStatistics /\ UNCHANGED clientVars
    BY <1>20 DEF SyncStatistics, goto, sharedVars, flags, historyVars
  <1>21. CASE SelectPipe /\ UNCHANGED clientVars
    BY <1>21 DEF SelectPipe, flags, historyVars
  <1>22. CASE SelectReturns /\ UNCHANGED clientVars
    BY <1>22 DEF SelectReturns, goto, sharedVars, flags, historyVars
  <1>23. CASE StartConnection /\ UNCHANGED clientVars
    BY <1>23 DEF StartConnection, changeStateMutexLocked, flags
  <1>24. CASE Checkpoint /\ UNCHANGED clientVars
    BY <1>24 DEF Checkpoint, Following, flags, historyVars
  <1>25. CASE Establish /\ UNCHANGED clientVars
    BY <1>25 DEF Establish, changeStateMutexLocked, Following, flags, historyVars
  <1>26. CASE SendConnectSucceeded /\ UNCHANGED clientVars
    BY <1>26 DEF SendConnectSucceeded, goto, sendEvent, sharedVars, flags
  <1>27. CASE StageDone /\ UNCHANGED clientVars
    BY <1>27 DEF StageDone, goto, IoFrame, flags
  <1>28. CASE MessageSent /\ UNCHANGED clientVars
    BY <1>28 DEF MessageSent, goto, IoFrame, flags
  <1>29. CASE IoFails /\ UNCHANGED clientVars
    BY <1>29 DEF IoFails, goto, ioFailed, IoFrame, flags
  <1>30. CASE IoWouldBlock /\ UNCHANGED clientVars
    BY <1>30 DEF IoWouldBlock, goto, IoFrame, flags
  <1>31. CASE WaitSignalled /\ UNCHANGED clientVars
    BY <1>31 DEF WaitSignalled, goto, IoFrame, flags
  <1>32. CASE WaitTimeout /\ UNCHANGED clientVars
    BY <1>32 DEF WaitTimeout, goto, IoFrame, flags
  <1>33. CASE WaitError /\ UNCHANGED clientVars
    BY <1>33 DEF WaitError, goto, ioFailed, IoFrame, flags
  <1>34. CASE CheckInterruption /\ UNCHANGED clientVars
    BY <1>34 DEF CheckInterruption, goto, ioFailed, IoFrame, flags
  <1>35. CASE TakeOver /\ UNCHANGED clientVars
    BY <1>35 DEF TakeOver, flags, historyVars
  <1>36. CASE (\E kind \in {"FramebufferUpdate", "SetColourMapEntries", "ServerCutText"} :
            BeginMessage(kind)) /\ UNCHANGED clientVars
    BY <1>36 DEF BeginMessage, goto, DataFrame, flags
  <1>37. CASE FinishMessage /\ UNCHANGED clientVars
    BY <1>37 DEF FinishMessage, goto, DataFrame, flags
  <1>38. CASE DataConsumed /\ UNCHANGED clientVars
    BY <1>38 DEF DataConsumed, goto, DataFrame, flags
  <1>39. CASE ReceiveFails /\ UNCHANGED clientVars
    BY <1>39 DEF ReceiveFails, goto, DataFrame, flags
  <1>40. CASE ProtocolError /\ UNCHANGED clientVars
    BY <1>40 DEF ProtocolError, goto, DataFrame, flags
  <1>41. CASE disconnectWithError /\ UNCHANGED clientVars
    BY <1>41 DEF disconnectWithError, closeConnection, goto, resetToNotConnected,
       changeStateMutexLocked, historyVars
  <1>42. CASE abortConnectWithError /\ UNCHANGED clientVars
    BY <1>42 DEF abortConnectWithError, closeConnection, goto, resetToNotConnected,
       changeStateMutexLocked, historyVars
  <1>43. CASE SendConnectFailed /\ UNCHANGED clientVars
    BY <1>43 DEF SendConnectFailed, goto, sendEvent, sharedVars, flags
  <1>44. CASE SendDisconnected /\ UNCHANGED clientVars
    BY <1>44 DEF SendDisconnected, goto, sendEvent, sharedVars, flags
  <1>45. CASE SelectSocket /\ UNCHANGED clientVars
    BY <1>45 DEF SelectSocket, goto, sharedVars, flags, historyVars
  <1>46. CASE SelectError /\ UNCHANGED clientVars
    BY <1>46 DEF SelectError, goto, sharedVars, flags, historyVars
  <1>47. CASE Join
    BY <1>47 DEF Join, sharedVars, flags, threadVars, historyVars
  <1>48. CASE Terminated \/ UNCHANGED vars
    BY <1>48 DEF Terminated, vars, sharedVars, flags, threadVars, historyVars
  <1>49. CASE TlsHandshakeBegins /\ UNCHANGED clientVars
    BY <1>49 DEF TlsHandshakeBegins, goto, IoFrame, flags
  <1>50. CASE TlsHandshakeEnds /\ UNCHANGED clientVars
    BY <1>50 DEF TlsHandshakeEnds, goto, IoFrame, flags
  <1> QED
    BY <1>1, <1>2, <1>3, <1>4, <1>5, <1>6, <1>7, <1>8, <1>9, <1>10, <1>11, <1>12, <1>13, <1>14,
       <1>15, <1>16, <1>17, <1>18, <1>19, <1>20, <1>21, <1>22, <1>23, <1>24, <1>25, <1>26,
       <1>27, <1>28, <1>29, <1>30, <1>31, <1>32, <1>33, <1>34, <1>35, <1>36, <1>37, <1>38,
       <1>39, <1>40, <1>41, <1>42, <1>43, <1>44, <1>45, <1>46, <1>47, <1>48, <1>49, <1>50
    DEF Next, Client, ClientStep, Thread, ThreadStep, Blocking, Receiving, Outside, External

(* A result is owed for every connection asked for or under way.  A failed *)
(* attempt has one left to report because it was under way.                *)
LEMMA OwedStep ==
    ASSUME TypeOK, PositionInv, StateInv, OwedInv, [Next]_vars
    PROVE  OwedInv'
  <1> USE DEF TypeOK, HistoryTypeOK, PositionInv, StateInv, OwedInv, Requested, UnderWay,
      Handshake
  <1>1. CASE StartupWait /\ UNCHANGED threadVars
    BY <1>1 DEF StartupWait, threadVars, historyVars
  <1>2. CASE StartupNotified /\ UNCHANGED threadVars
    BY <1>2 DEF StartupNotified, StartupReturn, threadVars, historyVars
  <1>3. CASE StartupSpurious /\ UNCHANGED threadVars
    BY <1>3 DEF StartupSpurious, StartupReturn, threadVars, historyVars
  <1>4. CASE (\E viewOnly \in ViewOnlyOptions : connectToHost(viewOnly)) /\ UNCHANGED threadVars
    BY <1>4 DEF connectToHost, threadVars
  <1>5. CASE destroy /\ UNCHANGED threadVars
    BY <1>5 DEF destroy, threadVars, historyVars
  <1>6. CASE (\E password \in Passwords \cup {NoPassword} : setCredentials(password)) /\
            UNCHANGED threadVars
    BY <1>6 DEF setCredentials, threadVars, historyVars
  <1>7. CASE disconnect /\ UNCHANGED threadVars
    BY <1>7 DEF disconnect, threadVars
  <1>8. CASE (\E viewOnly \in ViewOnlyOptions : setViewOnly(viewOnly)) /\ UNCHANGED threadVars
    BY <1>8 DEF setViewOnly, sharedVars, threadVars, historyVars
  <1>9. CASE requestFull /\ UNCHANGED threadVars
    BY <1>9 DEF requestFull, putRequest, threadVars, historyVars
  <1>10. CASE (\E geometry \in 0..mFramebuffer : requestRect(geometry)) /\ UNCHANGED threadVars
    BY <1>10 DEF requestRect, putRequest, threadVars, historyVars
  <1>11. CASE checkViewOnly /\ UNCHANGED threadVars
    BY <1>11 DEF checkViewOnly, sharedVars, threadVars, historyVars
  <1>12. CASE queueInput /\ UNCHANGED threadVars
    BY <1>12 DEF queueInput, threadVars
  <1>13. CASE dropInput /\ UNCHANGED threadVars
    BY <1>13 DEF dropInput, sharedVars, threadVars, historyVars
  <1>14. CASE acquireFramebuffer /\ UNCHANGED threadVars
    BY <1>14 DEF acquireFramebuffer, threadVars, historyVars
  <1>15. CASE releaseFramebuffer /\ UNCHANGED threadVars
    BY <1>15 DEF releaseFramebuffer, threadVars, historyVars
  <1>16. CASE SendThreadStarted /\ UNCHANGED clientVars
    BY <1>16 DEF SendThreadStarted, goto, sendEvent, sharedVars
  <1>17. CASE NotifyStartup /\ UNCHANGED clientVars
    BY <1>17 DEF NotifyStartup, goto, historyVars
  <1>18. CASE SendThreadAboutToStop /\ UNCHANGED clientVars
    BY <1>18 DEF SendThreadAboutToStop, goto, sendEvent, sharedVars
  <1>19. CASE LoopTop /\ UNCHANGED clientVars
    <2>1. pc = "top" /\ pc' = nextTurn /\ UNCHANGED <<sharedVars, stage, historyVars>>
      BY <1>19 DEF LoopTop, goto
    <2>2. mWantQuitThread \in BOOLEAN /\ mAbortFlag \in BOOLEAN /\ mState \in ConnectionState
          /\ mState # "ConnectionPending"
      BY <2>1 DEF SharedTypeOK
    <2> QED
      BY <2>1, <2>2, NextTurn DEF sharedVars, historyVars
  <1>20. CASE SyncStatistics /\ UNCHANGED clientVars
    BY <1>20 DEF SyncStatistics, goto, sharedVars, historyVars
  <1>21. CASE SelectPipe /\ UNCHANGED clientVars
    BY <1>21 DEF SelectPipe, historyVars
  <1>22. CASE SelectReturns /\ UNCHANGED clientVars
    BY <1>22 DEF SelectReturns, goto, sharedVars, historyVars
  <1>23. CASE StartConnection /\ UNCHANGED clientVars
    BY <1>23 DEF StartConnection, changeStateMutexLocked
  <1>24. CASE Checkpoint /\ UNCHANGED clientVars
    BY <1>24 DEF Checkpoint, historyVars
  <1>25. CASE Establish /\ UNCHANGED clientVars
    BY <1>25 DEF Establish, changeStateMutexLocked, historyVars
  <1>26. CASE SendConnectSucceeded /\ UNCHANGED clientVars
    BY <1>26 DEF SendConnectSucceeded, goto, sendEvent, sharedVars
  <1>27. CASE StageDone /\ UNCHANGED clientVars
    BY <1>27 DEF StageDone, goto, IoFrame
  <1>28. CASE MessageSent /\ UNCHANGED clientVars
    BY <1>28 DEF MessageSent, goto, IoFrame
  <1>29. CASE IoFails /\ UNCHANGED clientVars
    <2>1. stage \in Stages
      BY DEF ThreadTypeOK
    <2> QED
      BY <1>29, <2>1 DEF IoFails, goto, ioFailed, IoFrame, Stages
  <1>30. CASE IoWouldBlock /\ UNCHANGED clientVars
    BY <1>30 DEF IoWouldBlock, goto, IoFrame
  <1>31. CASE WaitSignalled /\ UNCHANGED clientVars
    BY <1>31 DEF WaitSignalled, goto, IoFrame
  <1>32. CASE WaitTimeout /\ UNCHANGED clientVars
    BY <1>32 DEF WaitTimeout, goto, IoFrame
  <1>33. CASE WaitError /\ UNCHANGED clientVars
    <2>1. stage \in Stages
      BY DEF ThreadTypeOK
    <2> QED
      BY <1>33, <2>1 DEF WaitError, goto, ioFailed, IoFrame, Stages
  <1>34. CASE CheckInterruption /\ UNCHANGED clientVars
    <2>1. stage \in Stages
      BY DEF ThreadTypeOK
    <2> QED
      BY <1>34, <2>1 DEF CheckInterruption, goto, ioFailed, IoFrame, Stages
  <1>35. CASE TakeOver /\ UNCHANGED clientVars
    BY <1>35 DEF TakeOver, historyVars
  <1>36. CASE (\E kind \in {"FramebufferUpdate", "SetColourMapEntries", "ServerCutText"} :
            BeginMessage(kind)) /\ UNCHANGED clientVars
    BY <1>36 DEF BeginMessage, goto, DataFrame
  <1>37. CASE FinishMessage /\ UNCHANGED clientVars
    BY <1>37 DEF FinishMessage, goto, DataFrame
  <1>38. CASE DataConsumed /\ UNCHANGED clientVars
    BY <1>38 DEF DataConsumed, goto, DataFrame
  <1>39. CASE ReceiveFails /\ UNCHANGED clientVars
    BY <1>39 DEF ReceiveFails, goto, DataFrame
  <1>40. CASE ProtocolError /\ UNCHANGED clientVars
    BY <1>40 DEF ProtocolError, goto, DataFrame
  <1>41. CASE disconnectWithError /\ UNCHANGED clientVars
    BY <1>41 DEF disconnectWithError, closeConnection, goto, resetToNotConnected,
       changeStateMutexLocked, historyVars
  <1>42. CASE abortConnectWithError /\ UNCHANGED clientVars
    BY <1>42 DEF abortConnectWithError, closeConnection, goto, resetToNotConnected,
       changeStateMutexLocked, historyVars
  <1>43. CASE SendConnectFailed /\ UNCHANGED clientVars
    BY <1>43 DEF SendConnectFailed, goto, sendEvent, sharedVars
  <1>44. CASE SendDisconnected /\ UNCHANGED clientVars
    BY <1>44 DEF SendDisconnected, goto, sendEvent, sharedVars
  <1>45. CASE SelectSocket /\ UNCHANGED clientVars
    BY <1>45 DEF SelectSocket, goto, sharedVars, historyVars
  <1>46. CASE SelectError /\ UNCHANGED clientVars
    BY <1>46 DEF SelectError, goto, sharedVars, historyVars
  <1>47. CASE Join
    BY <1>47 DEF Join, sharedVars, threadVars, historyVars
  <1>48. CASE Terminated \/ UNCHANGED vars
    BY <1>48 DEF Terminated, vars, sharedVars, threadVars, historyVars
  <1>49. CASE TlsHandshakeBegins /\ UNCHANGED clientVars
    BY <1>49 DEF TlsHandshakeBegins, goto, IoFrame
  <1>50. CASE TlsHandshakeEnds /\ UNCHANGED clientVars
    <2>1. stage \in Stages
      BY DEF ThreadTypeOK
    <2> QED
      BY <1>50, <2>1 DEF TlsHandshakeEnds, goto, IoFrame, Stages
  <1> QED
    BY <1>1, <1>2, <1>3, <1>4, <1>5, <1>6, <1>7, <1>8, <1>9, <1>10, <1>11, <1>12, <1>13, <1>14,
       <1>15, <1>16, <1>17, <1>18, <1>19, <1>20, <1>21, <1>22, <1>23, <1>24, <1>25, <1>26,
       <1>27, <1>28, <1>29, <1>30, <1>31, <1>32, <1>33, <1>34, <1>35, <1>36, <1>37, <1>38,
       <1>39, <1>40, <1>41, <1>42, <1>43, <1>44, <1>45, <1>46, <1>47, <1>48, <1>49, <1>50
    DEF Next, Client, ClientStep, Thread, ThreadStep, Blocking, Receiving, Outside, External

(* Every step keeps the types: a list of messages is used up only as far   *)
(* as it goes, a counter stays in its range.                               *)
LEMMA TypeStep ==
    ASSUME TypeOK, PositionInv, StateInv, OwedInv, QueueInv, [Next]_vars
    PROVE  (TypeOK /\ QueueInv)'
  <1> USE DEF TypeOK
  <1>1. CASE StartupWait /\ UNCHANGED threadVars
    BY <1>1 DEF StartupWait, SharedTypeOK, ClientTypeOK, ThreadTypeOK, HistoryTypeOK, QueueInv,
       flags, updateVars, clientVars, threadVars, historyVars
  <1>2. CASE StartupNotified /\ UNCHANGED threadVars
    BY <1>2 DEF StartupNotified, StartupReturn, SharedTypeOK, ClientTypeOK, ThreadTypeOK,
       HistoryTypeOK, QueueInv, flags, updateVars, threadVars, historyVars
  <1>3. CASE StartupSpurious /\ UNCHANGED threadVars
    BY <1>3 DEF StartupSpurious, StartupReturn, SharedTypeOK, ClientTypeOK, ThreadTypeOK,
       HistoryTypeOK, QueueInv, flags, updateVars, threadVars, historyVars
  <1>4. CASE (\E viewOnly \in ViewOnlyOptions : connectToHost(viewOnly)) /\ UNCHANGED threadVars
    <2>1. SharedTypeOK'
      BY <1>4 DEF connectToHost, wakeThread, sendNotification, SharedTypeOK, ConnectionState,
         updateVars
    <2>2. ClientTypeOK'
      BY <1>4, ApplicationAssumption DEF connectToHost, ClientTypeOK
    <2>3. ThreadTypeOK'
      BY <1>4 DEF ThreadTypeOK, threadVars
    <2>4. HistoryTypeOK'
      BY <1>4, BoundsAssumption DEF connectToHost, HistoryTypeOK, OwedInv
    <2>5. QueueInv'
      BY <1>4 DEF connectToHost, QueueInv, threadVars
    <2> QED
      BY <2>1, <2>2, <2>3, <2>4, <2>5
  <1>5. CASE destroy /\ UNCHANGED threadVars
    BY <1>5 DEF destroy, requestQuit, wakeThread, sendNotification, SharedTypeOK, ClientTypeOK,
       ThreadTypeOK, HistoryTypeOK, QueueInv, updateVars, threadVars, historyVars
  <1>6. CASE (\E password \in Passwords \cup {NoPassword} : setCredentials(password)) /\
            UNCHANGED threadVars
    BY <1>6 DEF setCredentials, SharedTypeOK, ClientTypeOK, ThreadTypeOK, HistoryTypeOK,
       QueueInv, flags, updateVars, clientVars, threadVars, historyVars
  <1>7. CASE disconnect /\ UNCHANGED threadVars
    BY <1>7 DEF disconnect, wakeThread, sendNotification, SharedTypeOK, ClientTypeOK,
       ThreadTypeOK, HistoryTypeOK, QueueInv, updateVars, clientVars, threadVars
  <1>8. CASE (\E viewOnly \in ViewOnlyOptions : setViewOnly(viewOnly)) /\ UNCHANGED threadVars
    BY <1>8, ApplicationAssumption DEF setViewOnly, SharedTypeOK, ClientTypeOK, ThreadTypeOK,
       HistoryTypeOK, QueueInv, sharedVars, flags, updateVars, threadVars, historyVars
  <1>9. CASE requestFull /\ UNCHANGED threadVars
    <2>1. SharedTypeOK'
      BY <1>9, RequestFullType
    <2>2. ClientTypeOK'
      BY <1>9 DEF requestFull, putRequest, ClientTypeOK, clientVars
    <2>3. ThreadTypeOK'
      BY <1>9 DEF ThreadTypeOK, threadVars
    <2>4. HistoryTypeOK'
      BY <1>9 DEF requestFull, putRequest, HistoryTypeOK, historyVars
    <2>5. QueueInv'
      BY <1>9 DEF requestFull, putRequest, QueueInv, clientVars, threadVars, historyVars
    <2> QED
      BY <2>1, <2>2, <2>3, <2>4, <2>5
  <1>10. CASE (\E geometry \in 0..mFramebuffer : requestRect(geometry)) /\ UNCHANGED threadVars
    <2>1. SharedTypeOK'
      BY <1>10, RequestRectType
    <2>2. ClientTypeOK'
      BY <1>10 DEF requestRect, putRequest, ClientTypeOK, clientVars
    <2>3. ThreadTypeOK'
      BY <1>10 DEF ThreadTypeOK, threadVars
    <2>4. HistoryTypeOK'
      BY <1>10 DEF requestRect, putRequest, HistoryTypeOK, historyVars
    <2>5. QueueInv'
      BY <1>10 DEF requestRect, putRequest, QueueInv, clientVars, threadVars, historyVars
    <2> QED
      BY <2>1, <2>2, <2>3, <2>4, <2>5
  <1>11. CASE checkViewOnly /\ UNCHANGED threadVars
    BY <1>11 DEF checkViewOnly, SharedTypeOK, ClientTypeOK, ThreadTypeOK, HistoryTypeOK,
       QueueInv, sharedVars, flags, updateVars, threadVars, historyVars
  <1>12. CASE queueInput /\ UNCHANGED threadVars
    <2>1. SharedTypeOK'
      BY <1>12, QueueInputType
    <2>2. ClientTypeOK'
      BY <1>12 DEF queueInput, ClientTypeOK
    <2>3. ThreadTypeOK'
      BY <1>12 DEF ThreadTypeOK, threadVars
    <2>4. HistoryTypeOK'
      BY <1>12, BoundsAssumption DEF queueInput, HistoryTypeOK, QueueInv
    <2>5. QueueInv'
      BY <1>12 DEF queueInput, QueueInv, threadVars
    <2> QED
      BY <2>1, <2>2, <2>3, <2>4, <2>5
  <1>13. CASE dropInput /\ UNCHANGED threadVars
    <2>1. SharedTypeOK'
      BY <1>13 DEF dropInput, SharedTypeOK, sharedVars, flags, updateVars
    <2>2. ClientTypeOK'
      BY <1>13 DEF dropInput, ClientTypeOK
    <2>3. ThreadTypeOK'
      BY <1>13 DEF ThreadTypeOK, threadVars
    <2>4. HistoryTypeOK'
      BY <1>13 DEF dropInput, HistoryTypeOK, historyVars
    <2>5. QueueInv'
      BY <1>13 DEF dropInput, QueueInv, threadVars
    <2> QED
      BY <2>1, <2>2, <2>3, <2>4, <2>5
  <1>14. CASE acquireFramebuffer /\ UNCHANGED threadVars
    BY <1>14 DEF acquireFramebuffer, SharedTypeOK, ClientTypeOK, ThreadTypeOK, HistoryTypeOK,
       QueueInv, flags, updateVars, threadVars, historyVars
  <1>15. CASE releaseFramebuffer /\ UNCHANGED threadVars
    BY <1>15 DEF releaseFramebuffer, SharedTypeOK, ClientTypeOK, ThreadTypeOK, HistoryTypeOK,
       QueueInv, flags, updateVars, threadVars, historyVars
  <1>16. CASE SendThreadStarted /\ UNCHANGED clientVars
    BY <1>16 DEF SendThreadStarted, goto, sendEvent, SharedTypeOK, ClientTypeOK, ThreadTypeOK,
       HistoryTypeOK, QueueInv, Views, sharedVars, flags, updateVars, clientVars
  <1>17. CASE NotifyStartup /\ UNCHANGED clientVars
    BY <1>17 DEF NotifyStartup, goto, SharedTypeOK, ClientTypeOK, ThreadTypeOK, HistoryTypeOK,
       QueueInv, flags, updateVars, clientVars, historyVars
  <1>18. CASE SendThreadAboutToStop /\ UNCHANGED clientVars
    BY <1>18 DEF SendThreadAboutToStop, goto, sendEvent, SharedTypeOK, ClientTypeOK,
       ThreadTypeOK, HistoryTypeOK, QueueInv, Views, sharedVars, flags, updateVars, clientVars
  <1>19. CASE LoopTop /\ UNCHANGED clientVars
    BY <1>19 DEF LoopTop, goto, nextTurn, SharedTypeOK, ClientTypeOK, ThreadTypeOK,
       HistoryTypeOK, QueueInv, ConnectionState, sharedVars, flags, updateVars, clientVars,
       historyVars
  <1>20. CASE SyncStatistics /\ UNCHANGED clientVars
    BY <1>20 DEF SyncStatistics, goto, SharedTypeOK, ClientTypeOK, ThreadTypeOK, HistoryTypeOK,
       QueueInv, sharedVars, flags, updateVars, clientVars, historyVars
  <1>21. CASE SelectPipe /\ UNCHANGED clientVars
    <2>1. SharedTypeOK'
      BY <1>21, PasswordAssumption, ApplicationAssumption DEF SelectPipe, swallowPipeData,
         SharedTypeOK, flags, updateVars, historyVars
    <2>2. ClientTypeOK'
      BY <1>21 DEF ClientTypeOK, clientVars
    <2>3. ThreadTypeOK'
      BY <1>21 DEF SelectPipe, ThreadTypeOK
    <2>4. HistoryTypeOK'
      BY <1>21 DEF SelectPipe, HistoryTypeOK, historyVars
    <2>5. QueueInv'
      BY <1>21 DEF SelectPipe, QueueInv, clientVars, historyVars
    <2> QED
      BY <2>1, <2>2, <2>3, <2>4, <2>5
  <1>22. CASE SelectReturns /\ UNCHANGED clientVars
    BY <1>22 DEF SelectReturns, goto, SharedTypeOK, ClientTypeOK, ThreadTypeOK, HistoryTypeOK,
       QueueInv, sharedVars, flags, updateVars, clientVars, historyVars
  <1>23. CASE StartConnection /\ UNCHANGED clientVars
    <2>1. SharedTypeOK'
      BY <1>23, StartConnectionType
    <2>2. ClientTypeOK'
      BY <1>23 DEF ClientTypeOK, clientVars
    <2>3. ThreadTypeOK'
      BY <1>23 DEF StartConnection, SharedTypeOK, ThreadTypeOK, Stages, Handshake
    <2>4. HistoryTypeOK'
      BY <1>23 DEF StartConnection, HistoryTypeOK
    <2>5. QueueInv'
      BY <1>23 DEF StartConnection, QueueInv, clientVars
    <2> QED
      BY <2>1, <2>2, <2>3, <2>4, <2>5
  <1>24. CASE Checkpoint /\ UNCHANGED clientVars
    <2>1. SharedTypeOK'
      BY <1>24, PublishStageType DEF Checkpoint, SharedTypeOK, flags
    <2>2. ClientTypeOK'
      BY <1>24 DEF ClientTypeOK, clientVars
    <2>3. ThreadTypeOK'
      BY <1>24 DEF Checkpoint, Following, PositionInv, ThreadTypeOK, Stages, Handshake
    <2>4. HistoryTypeOK'
      BY <1>24 DEF Checkpoint, HistoryTypeOK, historyVars
    <2>5. QueueInv'
      BY <1>24 DEF Checkpoint, Following, PositionInv, Handshake, QueueInv, clientVars,
         historyVars
    <2> QED
      BY <2>1, <2>2, <2>3, <2>4, <2>5
  <1>25. CASE Establish /\ UNCHANGED clientVars
    <2>1. SharedTypeOK'
      BY <1>25, EstablishType
    <2>2. ClientTypeOK'
      BY <1>25 DEF ClientTypeOK, clientVars
    <2>3. ThreadTypeOK'
      BY <1>25 DEF Establish, Following, ThreadTypeOK, Stages
    <2>4. HistoryTypeOK'
      BY <1>25 DEF Establish, HistoryTypeOK, historyVars
    <2>5. QueueInv'
      BY <1>25 DEF Establish, QueueInv, clientVars, historyVars
    <2> QED
      BY <2>1, <2>2, <2>3, <2>4, <2>5
  <1>26. CASE SendConnectSucceeded /\ UNCHANGED clientVars
    BY <1>26, BoundsAssumption DEF SendConnectSucceeded, goto, sendEvent, SharedTypeOK,
       ClientTypeOK, ThreadTypeOK, HistoryTypeOK, QueueInv, Views, OwedInv, Requested, UnderWay,
       sharedVars, flags, updateVars, clientVars
  <1>27. CASE StageDone /\ UNCHANGED clientVars
    BY <1>27 DEF StageDone, goto, clearPassword, IoFrame, SharedTypeOK, ClientTypeOK,
       ThreadTypeOK, HistoryTypeOK, QueueInv, flags, updateVars, clientVars
  <1>28. CASE MessageSent /\ UNCHANGED clientVars
    <2>1. SharedTypeOK'
      BY <1>28 DEF MessageSent, IoFrame, SharedTypeOK, flags, updateVars
    <2>2. ClientTypeOK'
      BY <1>28 DEF ClientTypeOK, clientVars
    <2>3. ThreadTypeOK'
      BY <1>28, MessageSentType
    <2>4. HistoryTypeOK'
      BY <1>28, MessageSentType
    <2>5. QueueInv'
      BY <1>28, MessageSentType DEF MessageSent, goto, IoFrame, QueueInv, clientVars
    <2> QED
      BY <2>1, <2>2, <2>3, <2>4, <2>5
  <1>29. CASE IoFails /\ UNCHANGED clientVars
    BY <1>29 DEF IoFails, goto, ioFailed, clearPassword, IoFrame, SharedTypeOK, ClientTypeOK,
       ThreadTypeOK, HistoryTypeOK, QueueInv, flags, updateVars, clientVars
  <1>30. CASE IoWouldBlock /\ UNCHANGED clientVars
    BY <1>30 DEF IoWouldBlock, goto, IoFrame, SharedTypeOK, ClientTypeOK, ThreadTypeOK,
       HistoryTypeOK, QueueInv, flags, updateVars, clientVars
  <1>31. CASE WaitSignalled /\ UNCHANGED clientVars
    <2>1. SharedTypeOK'
      BY <1>31, PasswordAssumption DEF WaitSignalled, swallowPipeData, IoFrame, SharedTypeOK,
         flags, updateVars, clientVars
    <2>2. ClientTypeOK'
      BY <1>31 DEF ClientTypeOK, clientVars
    <2>3. ThreadTypeOK'
      BY <1>31 DEF WaitSignalled, goto, IoFrame, ThreadTypeOK
    <2>4. HistoryTypeOK'
      BY <1>31 DEF WaitSignalled, IoFrame, HistoryTypeOK
    <2>5. QueueInv'
      BY <1>31 DEF WaitSignalled, goto, IoFrame, QueueInv, clientVars
    <2> QED
      BY <2>1, <2>2, <2>3, <2>4, <2>5
  <1>32. CASE WaitTimeout /\ UNCHANGED clientVars
    BY <1>32 DEF WaitTimeout, goto, IoFrame, SharedTypeOK, ClientTypeOK, ThreadTypeOK,
       HistoryTypeOK, QueueInv, flags, updateVars, clientVars
  <1>33. CASE WaitError /\ UNCHANGED clientVars
    BY <1>33 DEF WaitError, goto, ioFailed, clearPassword, IoFrame, SharedTypeOK, ClientTypeOK,
       ThreadTypeOK, HistoryTypeOK, QueueInv, flags, updateVars, clientVars
  <1>34. CASE CheckInterruption /\ UNCHANGED clientVars
    BY <1>34 DEF CheckInterruption, goto, ioFailed, clearPassword, IoFrame, SharedTypeOK,
       ClientTypeOK, ThreadTypeOK, HistoryTypeOK, QueueInv, flags, updateVars, clientVars
  <1>35. CASE TakeOver /\ UNCHANGED clientVars
    <2>1. SharedTypeOK'
      BY <1>35, TakeOverType
    <2>2. ClientTypeOK'
      BY <1>35 DEF ClientTypeOK, clientVars
    <2>3. ThreadTypeOK'
      BY <1>35, TakeOverType
    <2>4. HistoryTypeOK'
      BY <1>35 DEF TakeOver, HistoryTypeOK, historyVars
    <2>5. QueueInv'
      BY <1>35 DEF TakeOver, QueueInv, clientVars, historyVars
    <2> QED
      BY <2>1, <2>2, <2>3, <2>4, <2>5
  <1>36. CASE (\E kind \in {"FramebufferUpdate", "SetColourMapEntries", "ServerCutText"} :
            BeginMessage(kind)) /\ UNCHANGED clientVars
    <2>1. SharedTypeOK'
      BY <1>36 DEF BeginMessage, DataFrame, SharedTypeOK, flags
    <2>2. ClientTypeOK'
      BY <1>36 DEF ClientTypeOK, clientVars
    <2>3. ThreadTypeOK'
      BY <1>36, BeginMessageType
    <2>4. HistoryTypeOK'
      BY <1>36 DEF BeginMessage, DataFrame, HistoryTypeOK
    <2>5. QueueInv'
      BY <1>36 DEF BeginMessage, goto, DataFrame, QueueInv, clientVars
    <2> QED
      BY <2>1, <2>2, <2>3, <2>4, <2>5
  <1>37. CASE FinishMessage /\ UNCHANGED clientVars
    <2>1. SharedTypeOK'
      BY <1>37, BoundsAssumption, PasswordAssumption, ApplicationAssumption DEF FinishMessage,
         goto, MutexFree, DataFrame, SharedTypeOK, vars, sharedVars, flags, updateVars,
         clientVars, threadVars, historyVars
    <2>2. ClientTypeOK'
      BY <1>37 DEF ClientTypeOK, clientVars
    <2>3. ThreadTypeOK'
      BY <1>37 DEF FinishMessage, goto, DataFrame, ThreadTypeOK
    <2>4. HistoryTypeOK'
      BY <1>37 DEF FinishMessage, DataFrame, HistoryTypeOK
    <2>5. QueueInv'
      BY <1>37 DEF FinishMessage, goto, DataFrame, QueueInv, clientVars
    <2> QED
      BY <2>1, <2>2, <2>3, <2>4, <2>5
  <1>38. CASE DataConsumed /\ UNCHANGED clientVars
    BY <1>38 DEF DataConsumed, goto, DataFrame, SharedTypeOK, ClientTypeOK, ThreadTypeOK,
       HistoryTypeOK, QueueInv, flags, clientVars
  <1>39. CASE ReceiveFails /\ UNCHANGED clientVars
    BY <1>39 DEF ReceiveFails, goto, DataFrame, SharedTypeOK, ClientTypeOK, ThreadTypeOK,
       HistoryTypeOK, QueueInv, flags, clientVars
  <1>40. CASE ProtocolError /\ UNCHANGED clientVars
    BY <1>40 DEF ProtocolError, goto, DataFrame, SharedTypeOK, ClientTypeOK, ThreadTypeOK,
       HistoryTypeOK, QueueInv, flags, clientVars
  <1>41. CASE disconnectWithError /\ UNCHANGED clientVars
    <2>1. SharedTypeOK'
      BY <1>41, CloseType DEF disconnectWithError
    <2>2. ClientTypeOK'
      BY <1>41 DEF ClientTypeOK, clientVars
    <2>3. ThreadTypeOK'
      BY <1>41 DEF disconnectWithError, closeConnection, goto, ThreadTypeOK, Stages
    <2>4. HistoryTypeOK'
      BY <1>41 DEF disconnectWithError, closeConnection, HistoryTypeOK, historyVars
    <2>5. QueueInv'
      BY <1>41 DEF disconnectWithError, closeConnection, QueueInv, clientVars, historyVars
    <2> QED
      BY <2>1, <2>2, <2>3, <2>4, <2>5
  <1>42. CASE abortConnectWithError /\ UNCHANGED clientVars
    <2>1. SharedTypeOK'
      BY <1>42, CloseType DEF abortConnectWithError
    <2>2. ClientTypeOK'
      BY <1>42 DEF ClientTypeOK, clientVars
    <2>3. ThreadTypeOK'
      BY <1>42 DEF abortConnectWithError, closeConnection, goto, ThreadTypeOK, Stages
    <2>4. HistoryTypeOK'
      BY <1>42 DEF abortConnectWithError, closeConnection, HistoryTypeOK, historyVars
    <2>5. QueueInv'
      BY <1>42 DEF abortConnectWithError, closeConnection, QueueInv, clientVars, historyVars
    <2> QED
      BY <2>1, <2>2, <2>3, <2>4, <2>5
  <1>43. CASE SendConnectFailed /\ UNCHANGED clientVars
    BY <1>43, BoundsAssumption DEF SendConnectFailed, goto, sendEvent, SharedTypeOK,
       ClientTypeOK, ThreadTypeOK, HistoryTypeOK, QueueInv, Views, OwedInv, Requested, UnderWay,
       sharedVars, flags, updateVars, clientVars
  <1>44. CASE SendDisconnected /\ UNCHANGED clientVars
    <2>1. SharedTypeOK'
      BY <1>44 DEF SendDisconnected, sendEvent, SharedTypeOK, sharedVars, flags, updateVars
    <2>2. ClientTypeOK'
      BY <1>44 DEF ClientTypeOK, clientVars
    <2>3. ThreadTypeOK'
      BY <1>44 DEF SendDisconnected, goto, sendEvent, ThreadTypeOK
    <2>4. HistoryTypeOK'
      BY <1>44 DEF SendDisconnected, sendEvent, HistoryTypeOK, Views
    <2>5. QueueInv'
      BY <1>44 DEF SendDisconnected, goto, sendEvent, QueueInv, clientVars
    <2> QED
      BY <2>1, <2>2, <2>3, <2>4, <2>5
  <1>45. CASE SelectSocket /\ UNCHANGED clientVars
    BY <1>45 DEF SelectSocket, goto, SharedTypeOK, ClientTypeOK, ThreadTypeOK, HistoryTypeOK,
       QueueInv, sharedVars, flags, updateVars, clientVars, historyVars
  <1>46. CASE SelectError /\ UNCHANGED clientVars
    BY <1>46 DEF SelectError, goto, SharedTypeOK, ClientTypeOK, ThreadTypeOK, HistoryTypeOK,
       QueueInv, sharedVars, flags, updateVars, clientVars, historyVars
  <1>47. CASE Join
    BY <1>47 DEF Join, SharedTypeOK, ClientTypeOK, ThreadTypeOK, HistoryTypeOK, QueueInv,
       sharedVars, flags, updateVars, threadVars, historyVars
  <1>48. CASE Terminated \/ UNCHANGED vars
    BY <1>48 DEF Terminated, SharedTypeOK, ClientTypeOK, ThreadTypeOK, HistoryTypeOK, QueueInv,
       vars, sharedVars, flags, updateVars, clientVars, threadVars, historyVars
  <1>49. CASE TlsHandshakeBegins /\ UNCHANGED clientVars
    BY <1>49 DEF TlsHandshakeBegins, goto, IoFrame, SharedTypeOK, ClientTypeOK, ThreadTypeOK,
       HistoryTypeOK, QueueInv, flags, updateVars, clientVars
  <1>50. CASE TlsHandshakeEnds /\ UNCHANGED clientVars
    BY <1>50 DEF TlsHandshakeEnds, goto, clearPassword, IoFrame, SharedTypeOK, ClientTypeOK,
       ThreadTypeOK, HistoryTypeOK, QueueInv, flags, updateVars, clientVars
  <1> QED
    BY <1>1, <1>2, <1>3, <1>4, <1>5, <1>6, <1>7, <1>8, <1>9, <1>10, <1>11, <1>12, <1>13, <1>14,
       <1>15, <1>16, <1>17, <1>18, <1>19, <1>20, <1>21, <1>22, <1>23, <1>24, <1>25, <1>26,
       <1>27, <1>28, <1>29, <1>30, <1>31, <1>32, <1>33, <1>34, <1>35, <1>36, <1>37, <1>38,
       <1>39, <1>40, <1>41, <1>42, <1>43, <1>44, <1>45, <1>46, <1>47, <1>48, <1>49, <1>50
    DEF Next, Client, ClientStep, Thread, ThreadStep, Blocking, Receiving, Outside, External

-----------------------------------------------------------------------------
(* Initially nothing is connected, asked for or queued. *)
LEMMA InitialStates == Init => SafetyInv
  <1> SUFFICES ASSUME Init
               PROVE  SafetyInv
    OBVIOUS
  <1> USE DEF Init
  <1>1. TypeOK
    <2>1. SharedTypeOK
      <3>1. mRequestFramebuffer \in RequestFramebuffer /\ mFramebuffer \in Geometry
        BY BoundsAssumption DEF SharedInit, RequestFramebuffer, Geometry
      <3> QED
        BY <3>1, EmptySeq DEF SharedInit, SharedTypeOK, ConnectionState
    <2>2. ClientTypeOK
      BY DEF ClientInit, ClientTypeOK
    <2>3. ThreadTypeOK
      BY DEF ThreadInit, ThreadTypeOK, Stages
    <2>4. HistoryTypeOK
      <3>1. 0 \in 0..MaxConnects /\ 0 \in 0..MaxInputs
        BY BoundsAssumption
      <3>2. "unstarted" \in Views
        BY DEF Views
      <3> QED
        BY <3>1, <3>2 DEF HistoryInit, HistoryTypeOK
    <2> QED
      BY <2>1, <2>2, <2>3, <2>4 DEF TypeOK
  <1>2. AbortExplained
    BY DEF SharedInit, AbortExplained
  <1>3. PositionInv
    BY DEF ThreadInit, PositionInv
  <1>4. StateInv
    BY DEF SharedInit, ThreadInit, StateInv, Handshake
  <1>5. WakeInv
    BY DEF SharedInit, WakeInv
  <1>6. ViewInv
    BY DEF ThreadInit, HistoryInit, ViewInv
  <1>7. OwedInv
    BY DEF SharedInit, ThreadInit, HistoryInit, OwedInv, Requested, UnderWay, Handshake
  <1>8. QueueInv
    BY DEF ThreadInit, ClientInit, QueueInv
  <1> QED
    BY <1>1, <1>2, <1>3, <1>4, <1>5, <1>6, <1>7, <1>8 DEF SafetyInv

(* SafetyInv is inductive. *)
LEMMA InductiveStep == SafetyInv /\ [Next]_vars => SafetyInv'
  <1> SUFFICES ASSUME SafetyInv, [Next]_vars
               PROVE  SafetyInv'
    OBVIOUS
  <1>1. (AbortExplained /\ PositionInv /\ StateInv /\ WakeInv /\ ViewInv)'
    BY ControlStep DEF SafetyInv
  <1>2. OwedInv'
    BY OwedStep DEF SafetyInv
  <1>3. (TypeOK /\ QueueInv)'
    BY TypeStep DEF SafetyInv
  <1> QED
    BY <1>1, <1>2, <1>3 DEF SafetyInv

-----------------------------------------------------------------------------
(* The inductive invariant holds in every state of every behaviour of the  *)
(* library and its application, whatever the number of connections, events *)
(* and passwords and whatever the application calls.                       *)
THEOREM SafetyInvariant == Spec => []SafetyInv
  <1>1. Init => SafetyInv
    BY InitialStates
  <1>2. SafetyInv /\ [Next]_vars => SafetyInv'
    BY InductiveStep
  <1> QED
    BY <1>1, <1>2, PTL DEF Spec

(* Every variable keeps its type. *)
THEOREM TypeCorrect == Spec => []TypeOK
  <1>1. SafetyInv => TypeOK
    BY DEF SafetyInv
  <1> QED
    BY <1>1, SafetyInvariant, PTL

(* A request to quit or to disconnect stands only together with the abort  *)
(* flag the checkpoints look at.                                           *)
THEOREM FlagsConsistent == Spec => []AbortExplained
  <1>1. SafetyInv => AbortExplained
    BY DEF SafetyInv
  <1> QED
    BY <1>1, SafetyInvariant, PTL

(* No disconnect request is slept on: a thread in select() or in a wait of *)
(* a blocking read or write finds the pipe readable.                       *)
THEOREM DisconnectNeverSleptOn == Spec => []DisconnectWakes
  <1>1. SafetyInv => DisconnectWakes
    BY DEF SafetyInv, WakeInv, DisconnectWakes
  <1> QED
    BY <1>1, SafetyInvariant, PTL

(* No accepted orv_connect() is slept on in the main loop. *)
THEOREM ConnectNeverSleptOn == Spec => []ConnectWakes
  <1>1. SafetyInv => ConnectWakes
    BY DEF SafetyInv, WakeInv, ConnectWakes
  <1> QED
    BY <1>1, SafetyInvariant, PTL

(* The branches of run() and startConnection() that report an internal     *)
(* error are never taken.                                                  *)
THEOREM InternalErrorUnreachable == Spec => []NoInternalError
  <1>1. SafetyInv => NoInternalError
    BY DEF SafetyInv, StateInv, PositionInv, NoInternalError
  <1> QED
    BY <1>1, SafetyInvariant, PTL

(* The state orv_is_connected() reads, the socket and the events the       *)
(* application was sent agree.                                             *)
THEOREM StateTellsTheStage == Spec => []StateMatchesStage
  <1>1. SafetyInv => StateMatchesStage
    BY DEF SafetyInv, Handshake, StateInv, PositionInv, ViewInv, StateMatchesStage
  <1> QED
    BY <1>1, SafetyInvariant, PTL

-----------------------------------------------------------------------------
(* The events implement ConnectionEvents. *)

(* Each event the thread sends is one ConnectionEvents allows there, an     *)
(* accepted orv_connect() is one more result owed, and nothing else shows. *)
LEMMA EventStep ==
    ASSUME TypeOK, PositionInv, ViewInv, OwedInv, [Next]_vars
    PROVE  [Events!EventsNext]_(Events!eventVars)
  <1> USE DEF TypeOK, HistoryTypeOK, Events!EventsNext, Events!eventVars
  <1>1. CASE StartupWait /\ UNCHANGED threadVars
    BY <1>1 DEF StartupWait, historyVars
  <1>2. CASE StartupNotified /\ UNCHANGED threadVars
    BY <1>2 DEF StartupNotified, StartupReturn, historyVars
  <1>3. CASE StartupSpurious /\ UNCHANGED threadVars
    BY <1>3 DEF StartupSpurious, StartupReturn, historyVars
  <1>4. CASE (\E viewOnly \in ViewOnlyOptions : connectToHost(viewOnly)) /\ UNCHANGED threadVars
    BY <1>4 DEF connectToHost, Events!CallConnect
  <1>5. CASE destroy /\ UNCHANGED threadVars
    BY <1>5 DEF destroy, historyVars
  <1>6. CASE (\E password \in Passwords \cup {NoPassword} : setCredentials(password)) /\
            UNCHANGED threadVars
    BY <1>6 DEF setCredentials, historyVars
  <1>7. CASE disconnect /\ UNCHANGED threadVars
    BY <1>7 DEF disconnect
  <1>8. CASE (\E viewOnly \in ViewOnlyOptions : setViewOnly(viewOnly)) /\ UNCHANGED threadVars
    BY <1>8 DEF setViewOnly, historyVars
  <1>9. CASE requestFull /\ UNCHANGED threadVars
    BY <1>9 DEF requestFull, putRequest, historyVars
  <1>10. CASE (\E geometry \in 0..mFramebuffer : requestRect(geometry)) /\ UNCHANGED threadVars
    BY <1>10 DEF requestRect, putRequest, historyVars
  <1>11. CASE checkViewOnly /\ UNCHANGED threadVars
    BY <1>11 DEF checkViewOnly, historyVars
  <1>12. CASE queueInput /\ UNCHANGED threadVars
    BY <1>12 DEF queueInput
  <1>13. CASE dropInput /\ UNCHANGED threadVars
    BY <1>13 DEF dropInput, historyVars
  <1>14. CASE acquireFramebuffer /\ UNCHANGED threadVars
    BY <1>14 DEF acquireFramebuffer, historyVars
  <1>15. CASE releaseFramebuffer /\ UNCHANGED threadVars
    BY <1>15 DEF releaseFramebuffer, historyVars
  <1>16. CASE SendThreadStarted /\ UNCHANGED clientVars
    BY <1>16 DEF SendThreadStarted, goto, sendEvent, ViewInv, Events!ThreadStarted
  <1>17. CASE NotifyStartup /\ UNCHANGED clientVars
    BY <1>17 DEF NotifyStartup, historyVars
  <1>18. CASE SendThreadAboutToStop /\ UNCHANGED clientVars
    BY <1>18 DEF SendThreadAboutToStop, goto, sendEvent, ViewInv, Events!ThreadAboutToStop
  <1>19. CASE LoopTop /\ UNCHANGED clientVars
    BY <1>19 DEF LoopTop, historyVars
  <1>20. CASE SyncStatistics /\ UNCHANGED clientVars
    BY <1>20 DEF SyncStatistics, historyVars
  <1>21. CASE SelectPipe /\ UNCHANGED clientVars
    BY <1>21 DEF SelectPipe, historyVars
  <1>22. CASE SelectReturns /\ UNCHANGED clientVars
    BY <1>22 DEF SelectReturns, historyVars
  <1>23. CASE StartConnection /\ UNCHANGED clientVars
    BY <1>23 DEF StartConnection
  <1>24. CASE Checkpoint /\ UNCHANGED clientVars
    BY <1>24 DEF Checkpoint, historyVars
  <1>25. CASE Establish /\ UNCHANGED clientVars
    BY <1>25 DEF Establish, historyVars
  <1>26. CASE SendConnectSucceeded /\ UNCHANGED clientVars
    BY <1>26 DEF SendConnectSucceeded, goto, sendEvent, ViewInv, OwedInv, Requested, UnderWay,
       Events!ConnectResult
  <1>27. CASE StageDone /\ UNCHANGED clientVars
    BY <1>27 DEF StageDone, IoFrame
  <1>28. CASE MessageSent /\ UNCHANGED clientVars
    BY <1>28 DEF MessageSent, IoFrame
  <1>29. CASE IoFails /\ UNCHANGED clientVars
    BY <1>29 DEF IoFails, IoFrame
  <1>30. CASE IoWouldBlock /\ UNCHANGED clientVars
    BY <1>30 DEF IoWouldBlock, IoFrame
  <1>31. CASE WaitSignalled /\ UNCHANGED clientVars
    BY <1>31 DEF WaitSignalled, IoFrame
  <1>32. CASE WaitTimeout /\ UNCHANGED clientVars
    BY <1>32 DEF WaitTimeout, IoFrame
  <1>33. CASE WaitError /\ UNCHANGED clientVars
    BY <1>33 DEF WaitError, IoFrame
  <1>34. CASE CheckInterruption /\ UNCHANGED clientVars
    BY <1>34 DEF CheckInterruption, IoFrame
  <1>35. CASE TakeOver /\ UNCHANGED clientVars
    BY <1>35 DEF TakeOver, historyVars
  <1>36. CASE (\E kind \in {"FramebufferUpdate", "SetColourMapEntries", "ServerCutText"} :
            BeginMessage(kind)) /\ UNCHANGED clientVars
    BY <1>36 DEF BeginMessage, DataFrame
  <1>37. CASE FinishMessage /\ UNCHANGED clientVars
    BY <1>37 DEF FinishMessage, DataFrame
  <1>38. CASE DataConsumed /\ UNCHANGED clientVars
    BY <1>38 DEF DataConsumed, DataFrame
  <1>39. CASE ReceiveFails /\ UNCHANGED clientVars
    BY <1>39 DEF ReceiveFails, DataFrame
  <1>40. CASE ProtocolError /\ UNCHANGED clientVars
    BY <1>40 DEF ProtocolError, DataFrame
  <1>41. CASE disconnectWithError /\ UNCHANGED clientVars
    BY <1>41 DEF disconnectWithError, closeConnection, historyVars
  <1>42. CASE abortConnectWithError /\ UNCHANGED clientVars
    BY <1>42 DEF abortConnectWithError, closeConnection, historyVars
  <1>43. CASE SendConnectFailed /\ UNCHANGED clientVars
    BY <1>43 DEF SendConnectFailed, goto, sendEvent, ViewInv, PositionInv, OwedInv, Requested,
       UnderWay, Events!ConnectResult
  <1>44. CASE SendDisconnected /\ UNCHANGED clientVars
    BY <1>44 DEF SendDisconnected, goto, sendEvent, ViewInv, Events!Disconnected
  <1>45. CASE SelectSocket /\ UNCHANGED clientVars
    BY <1>45 DEF SelectSocket, historyVars
  <1>46. CASE SelectError /\ UNCHANGED clientVars
    BY <1>46 DEF SelectError, historyVars
  <1>47. CASE Join
    BY <1>47 DEF Join, historyVars
  <1>48. CASE Terminated \/ UNCHANGED vars
    BY <1>48 DEF Terminated, vars, historyVars
  <1>49. CASE TlsHandshakeBegins /\ UNCHANGED clientVars
    BY <1>49 DEF TlsHandshakeBegins, IoFrame
  <1>50. CASE TlsHandshakeEnds /\ UNCHANGED clientVars
    BY <1>50 DEF TlsHandshakeEnds, IoFrame
  <1> QED
    BY <1>1, <1>2, <1>3, <1>4, <1>5, <1>6, <1>7, <1>8, <1>9, <1>10, <1>11, <1>12, <1>13, <1>14,
       <1>15, <1>16, <1>17, <1>18, <1>19, <1>20, <1>21, <1>22, <1>23, <1>24, <1>25, <1>26,
       <1>27, <1>28, <1>29, <1>30, <1>31, <1>32, <1>33, <1>34, <1>35, <1>36, <1>37, <1>38,
       <1>39, <1>40, <1>41, <1>42, <1>43, <1>44, <1>45, <1>46, <1>47, <1>48, <1>49, <1>50
    DEF Next, Client, ClientStep, Thread, ThreadStep, Blocking, Receiving, Outside, External

(* What the application sees of the library, its accepted calls of         *)
(* orv_connect() and the events, is a behaviour of ConnectionEvents: a     *)
(* connection is reported before it ends, no result comes unasked, and     *)
(* every failed attempt is followed by ORV_EVENT_DISCONNECTED.             *)
THEOREM EventsImplemented == Spec => EventsInOrder
  <1>1. Init => Events!EventsInit
    BY DEF Init, HistoryInit, Events!EventsInit
  <1>2. SafetyInv /\ [Next]_vars => [Events!EventsNext]_(Events!eventVars)
    BY EventStep DEF SafetyInv
  <1> QED
    BY <1>1, <1>2, SafetyInvariant, PTL DEF Spec, EventsInOrder, Events!EventsSpec

-----------------------------------------------------------------------------
(* What one connection leaves to the next: no password, no response and no *)
(* key or pointer event.  TrafficInv is inductive relative to SafetyInv;   *)
(* one lemma per part has one step per action that can disturb it.         *)

(* The password is taken over before the handshake and wiped when its      *)
(* security stage ends.                                                    *)
LEMMA PasswordStep ==
    ASSUME ThreadTypeOK, PositionInv, PasswordInv, [Next]_vars
    PROVE  PasswordInv'
  <1> USE DEF ThreadTypeOK, Stages, Handshake, PositionInv, PasswordInv, PasswordForgotten
  <1>1. CASE Client
    BY <1>1 DEF Client, threadVars
  <1>2. CASE SendThreadStarted /\ UNCHANGED clientVars
    BY <1>2 DEF SendThreadStarted, goto, sendEvent, sharedVars, flags, updateVars
  <1>3. CASE NotifyStartup /\ UNCHANGED clientVars
    BY <1>3 DEF NotifyStartup, goto, flags, updateVars, historyVars
  <1>4. CASE SendThreadAboutToStop /\ UNCHANGED clientVars
    BY <1>4 DEF SendThreadAboutToStop, goto, sendEvent, sharedVars, flags, updateVars
  <1>5. CASE LoopTop /\ UNCHANGED clientVars
    BY <1>5 DEF LoopTop, goto
  <1>6. CASE SyncStatistics /\ UNCHANGED clientVars
    BY <1>6 DEF SyncStatistics, goto, sharedVars, flags, updateVars, historyVars
  <1>7. CASE SelectPipe /\ UNCHANGED clientVars
    BY <1>7 DEF SelectPipe, flags, updateVars, historyVars
  <1>8. CASE SelectReturns /\ UNCHANGED clientVars
    BY <1>8 DEF SelectReturns, goto, sharedVars, flags, updateVars, historyVars
  <1>9. CASE StartConnection /\ UNCHANGED clientVars
    BY <1>9 DEF StartConnection, changeStateMutexLocked, flags, updateVars
  <1>10. CASE Checkpoint /\ UNCHANGED clientVars
    BY <1>10 DEF Checkpoint, publishStage, Following, flags, historyVars
  <1>11. CASE Establish /\ UNCHANGED clientVars
    BY <1>11 DEF Establish, changeStateMutexLocked, Following, flags, historyVars
  <1>12. CASE SendConnectSucceeded /\ UNCHANGED clientVars
    BY <1>12 DEF SendConnectSucceeded, goto, sendEvent, sharedVars, flags, updateVars
  <1>13. CASE StageDone /\ UNCHANGED clientVars
    BY <1>13 DEF StageDone, goto, clearPassword, IoFrame, flags, updateVars
  <1>14. CASE MessageSent /\ UNCHANGED clientVars
    BY <1>14 DEF MessageSent, goto, IoFrame, flags, updateVars
  <1>15. CASE IoFails /\ UNCHANGED clientVars
    BY <1>15 DEF IoFails, goto, ioFailed, clearPassword, IoFrame, flags, updateVars
  <1>16. CASE IoWouldBlock /\ UNCHANGED clientVars
    BY <1>16 DEF IoWouldBlock, goto, IoFrame, flags, updateVars
  <1>17. CASE WaitSignalled /\ UNCHANGED clientVars
    BY <1>17 DEF WaitSignalled, goto, IoFrame, flags, updateVars
  <1>18. CASE WaitTimeout /\ UNCHANGED clientVars
    BY <1>18 DEF WaitTimeout, goto, IoFrame, flags, updateVars
  <1>19. CASE WaitError /\ UNCHANGED clientVars
    BY <1>19 DEF WaitError, goto, ioFailed, clearPassword, IoFrame, flags, updateVars
  <1>20. CASE CheckInterruption /\ UNCHANGED clientVars
    BY <1>20 DEF CheckInterruption, goto, ioFailed, clearPassword, IoFrame, flags, updateVars
  <1>21. CASE TakeOver /\ UNCHANGED clientVars
    BY <1>21 DEF TakeOver, flags, historyVars
  <1>22. CASE (\E kind \in {"FramebufferUpdate", "SetColourMapEntries", "ServerCutText"} :
            BeginMessage(kind)) /\
            UNCHANGED clientVars
    BY <1>22 DEF BeginMessage, goto, DataFrame, flags
  <1>23. CASE FinishMessage /\ UNCHANGED clientVars
    BY <1>23 DEF FinishMessage, goto, DataFrame, flags
  <1>24. CASE DataConsumed /\ UNCHANGED clientVars
    BY <1>24 DEF DataConsumed, goto, DataFrame, flags
  <1>25. CASE ReceiveFails /\ UNCHANGED clientVars
    BY <1>25 DEF ReceiveFails, goto, DataFrame, flags
  <1>26. CASE ProtocolError /\ UNCHANGED clientVars
    BY <1>26 DEF ProtocolError, goto, DataFrame, flags
  <1>27. CASE disconnectWithError /\ UNCHANGED clientVars
    BY <1>27 DEF disconnectWithError, closeConnection, goto, resetToNotConnected,
       changeStateMutexLocked, updateVars, historyVars
  <1>28. CASE abortConnectWithError /\ UNCHANGED clientVars
    BY <1>28 DEF abortConnectWithError, closeConnection, goto, resetToNotConnected,
       changeStateMutexLocked, updateVars, historyVars
  <1>29. CASE SendConnectFailed /\ UNCHANGED clientVars
    BY <1>29 DEF SendConnectFailed, goto, sendEvent, sharedVars, flags, updateVars
  <1>30. CASE SendDisconnected /\ UNCHANGED clientVars
    BY <1>30 DEF SendDisconnected, goto, sendEvent, sharedVars, flags, updateVars
  <1>31. CASE SelectSocket /\ UNCHANGED clientVars
    BY <1>31 DEF SelectSocket, goto, sharedVars, flags, updateVars, historyVars
  <1>32. CASE SelectError /\ UNCHANGED clientVars
    BY <1>32 DEF SelectError, goto, sharedVars, flags, updateVars, historyVars
  <1>33. CASE Join
    BY <1>33 DEF Join, sharedVars, flags, updateVars, threadVars, historyVars
  <1>34. CASE Terminated \/ UNCHANGED vars
    BY <1>34 DEF Terminated, vars, sharedVars, flags, updateVars, threadVars, historyVars
  <1>35. CASE TlsHandshakeBegins /\ UNCHANGED clientVars
    BY <1>35 DEF TlsHandshakeBegins, goto, IoFrame, flags, updateVars
  <1>36. CASE TlsHandshakeEnds /\ UNCHANGED clientVars
    BY <1>36 DEF TlsHandshakeEnds, goto, clearPassword, IoFrame, flags, updateVars
  <1> QED
    BY <1>1, <1>2, <1>3, <1>4, <1>5, <1>6, <1>7, <1>8, <1>9, <1>10, <1>11, <1>12, <1>13, <1>14,
       <1>15, <1>16, <1>17, <1>18, <1>19, <1>20, <1>21, <1>22, <1>23, <1>24, <1>25, <1>26,
       <1>27, <1>28, <1>29, <1>30, <1>31, <1>32, <1>33, <1>34, <1>35, <1>36
    DEF Next, Thread, ThreadStep, Blocking, Receiving, Outside, External

(* A response counts only for the connection that received it: the flag is *)
(* cleared once the version of the protocol is known.                      *)
LEMMA ResponseStep ==
    ASSUME TypeOK, PositionInv, ResponseFlagHonest, [Next]_vars
    PROVE  ResponseFlagHonest'
  <1> USE DEF TypeOK, SharedTypeOK, HistoryTypeOK, ThreadTypeOK, Stages, Handshake, PositionInv, ResponseFlagHonest
  <1>1. CASE StartupWait /\ UNCHANGED threadVars
    BY <1>1 DEF StartupWait, flags, updateVars, threadVars, historyVars
  <1>2. CASE StartupNotified /\ UNCHANGED threadVars
    BY <1>2 DEF StartupNotified, StartupReturn, flags, updateVars, threadVars, historyVars
  <1>3. CASE StartupSpurious /\ UNCHANGED threadVars
    BY <1>3 DEF StartupSpurious, StartupReturn, flags, updateVars, threadVars, historyVars
  <1>4. CASE (\E viewOnly \in ViewOnlyOptions : connectToHost(viewOnly)) /\ UNCHANGED threadVars
    BY <1>4 DEF connectToHost, mayConnect, updateVars, threadVars
  <1>5. CASE destroy /\ UNCHANGED threadVars
    BY <1>5 DEF destroy, requestQuit, updateVars, threadVars, historyVars
  <1>6. CASE (\E password \in Passwords \cup {NoPassword} : setCredentials(password)) /\
            UNCHANGED threadVars
    BY <1>6 DEF setCredentials, flags, updateVars, threadVars, historyVars
  <1>7. CASE disconnect /\ UNCHANGED threadVars
    BY <1>7 DEF disconnect, updateVars, threadVars
  <1>8. CASE (\E viewOnly \in ViewOnlyOptions : setViewOnly(viewOnly)) /\ UNCHANGED threadVars
    BY <1>8 DEF setViewOnly, sharedVars, flags, updateVars, threadVars, historyVars
  <1>9. CASE requestFull /\ UNCHANGED threadVars
    BY <1>9 DEF requestFull, putRequest, flags, threadVars, historyVars
  <1>10. CASE (\E geometry \in 0..mFramebuffer : requestRect(geometry)) /\ UNCHANGED threadVars
    BY <1>10 DEF requestRect, putRequest, flags, threadVars, historyVars
  <1>11. CASE checkViewOnly /\ UNCHANGED threadVars
    BY <1>11 DEF checkViewOnly, sharedVars, flags, updateVars, threadVars, historyVars
  <1>12. CASE queueInput /\ UNCHANGED threadVars
    BY <1>12 DEF queueInput, flags, updateVars, threadVars
  <1>13. CASE dropInput /\ UNCHANGED threadVars
    BY <1>13 DEF dropInput, sharedVars, flags, updateVars, threadVars, historyVars
  <1>14. CASE acquireFramebuffer /\ UNCHANGED threadVars
    BY <1>14 DEF acquireFramebuffer, flags, updateVars, threadVars, historyVars
  <1>15. CASE releaseFramebuffer /\ UNCHANGED threadVars
    BY <1>15 DEF releaseFramebuffer, flags, updateVars, threadVars, historyVars
  <1>16. CASE SendThreadStarted /\ UNCHANGED clientVars
    BY <1>16 DEF SendThreadStarted, goto, sendEvent, sharedVars, flags, updateVars
  <1>17. CASE NotifyStartup /\ UNCHANGED clientVars
    BY <1>17 DEF NotifyStartup, goto, flags, updateVars, historyVars
  <1>18. CASE SendThreadAboutToStop /\ UNCHANGED clientVars
    BY <1>18 DEF SendThreadAboutToStop, goto, sendEvent, sharedVars, flags, updateVars
  <1>19. CASE LoopTop /\ UNCHANGED clientVars
    BY <1>19 DEF LoopTop, goto, sharedVars, updateVars, historyVars
  <1>20. CASE SyncStatistics /\ UNCHANGED clientVars
    BY <1>20 DEF SyncStatistics, goto, sharedVars, flags, updateVars, historyVars
  <1>21. CASE SelectPipe /\ UNCHANGED clientVars
    BY <1>21 DEF SelectPipe, flags, updateVars, historyVars
  <1>22. CASE SelectReturns /\ UNCHANGED clientVars
    BY <1>22 DEF SelectReturns, goto, sharedVars, flags, updateVars, historyVars
  <1>23. CASE StartConnection /\ UNCHANGED clientVars
    BY <1>23 DEF StartConnection, changeStateMutexLocked, flags, updateVars
  <1>24. CASE Checkpoint /\ UNCHANGED clientVars
    BY <1>24 DEF Checkpoint, publishStage, Following, flags, historyVars
  <1>25. CASE Establish /\ UNCHANGED clientVars
    BY <1>25 DEF Establish, changeStateMutexLocked, Following, flags, historyVars
  <1>26. CASE SendConnectSucceeded /\ UNCHANGED clientVars
    BY <1>26 DEF SendConnectSucceeded, goto, sendEvent, sharedVars, flags, updateVars
  <1>27. CASE StageDone /\ UNCHANGED clientVars
    BY <1>27 DEF StageDone, goto, clearPassword, IoFrame, flags, updateVars
  <1>28. CASE MessageSent /\ UNCHANGED clientVars
    BY <1>28 DEF MessageSent, goto, IoFrame, flags, updateVars
  <1>29. CASE IoFails /\ UNCHANGED clientVars
    BY <1>29 DEF IoFails, goto, ioFailed, clearPassword, IoFrame, flags, updateVars
  <1>30. CASE IoWouldBlock /\ UNCHANGED clientVars
    BY <1>30 DEF IoWouldBlock, goto, IoFrame, flags, updateVars
  <1>31. CASE WaitSignalled /\ UNCHANGED clientVars
    BY <1>31 DEF WaitSignalled, goto, IoFrame, flags, updateVars
  <1>32. CASE WaitTimeout /\ UNCHANGED clientVars
    BY <1>32 DEF WaitTimeout, goto, IoFrame, flags, updateVars
  <1>33. CASE WaitError /\ UNCHANGED clientVars
    BY <1>33 DEF WaitError, goto, ioFailed, clearPassword, IoFrame, flags, updateVars
  <1>34. CASE CheckInterruption /\ UNCHANGED clientVars
    BY <1>34 DEF CheckInterruption, goto, ioFailed, clearPassword, IoFrame, flags, updateVars
  <1>35. CASE TakeOver /\ UNCHANGED clientVars
    BY <1>35 DEF TakeOver, flags, historyVars
  <1>36. CASE (\E kind \in {"FramebufferUpdate", "SetColourMapEntries", "ServerCutText"} :
            BeginMessage(kind)) /\
            UNCHANGED clientVars
    BY <1>36 DEF BeginMessage, goto, DataFrame, flags
  <1>37. CASE FinishMessage /\ UNCHANGED clientVars
    <2>1. stage' = stage
      BY <1>37 DEF FinishMessage, DataFrame
    <2>2. \/ responded' = TRUE
          \/ UNCHANGED <<mHaveFramebufferUpdateResponse, responded>>
      BY <1>37 DEF FinishMessage
    <2>3. CASE responded' = TRUE
      BY <2>3, Zenon
    <2>4. CASE UNCHANGED <<mHaveFramebufferUpdateResponse, responded>>
      BY <2>1, <2>4
    <2> QED
      BY <2>2, <2>3, <2>4
  <1>38. CASE DataConsumed /\ UNCHANGED clientVars
    BY <1>38 DEF DataConsumed, goto, DataFrame, flags
  <1>39. CASE ReceiveFails /\ UNCHANGED clientVars
    BY <1>39 DEF ReceiveFails, goto, DataFrame, flags
  <1>40. CASE ProtocolError /\ UNCHANGED clientVars
    BY <1>40 DEF ProtocolError, goto, DataFrame, flags
  <1>41. CASE disconnectWithError /\ UNCHANGED clientVars
    BY <1>41 DEF disconnectWithError, closeConnection, goto, resetToNotConnected,
       changeStateMutexLocked, updateVars, historyVars
  <1>42. CASE abortConnectWithError /\ UNCHANGED clientVars
    BY <1>42 DEF abortConnectWithError, closeConnection, goto, resetToNotConnected,
       changeStateMutexLocked, updateVars, historyVars
  <1>43. CASE SendConnectFailed /\ UNCHANGED clientVars
    BY <1>43 DEF SendConnectFailed, goto, sendEvent, sharedVars, flags, updateVars
  <1>44. CASE SendDisconnected /\ UNCHANGED clientVars
    BY <1>44 DEF SendDisconnected, goto, sendEvent, sharedVars, flags, updateVars
  <1>45. CASE SelectSocket /\ UNCHANGED clientVars
    BY <1>45 DEF SelectSocket, goto, sharedVars, flags, updateVars, historyVars
  <1>46. CASE SelectError /\ UNCHANGED clientVars
    BY <1>46 DEF SelectError, goto, sharedVars, flags, updateVars, historyVars
  <1>47. CASE Join
    BY <1>47 DEF Join, sharedVars, flags, updateVars, threadVars, historyVars
  <1>48. CASE Terminated \/ UNCHANGED vars
    BY <1>48 DEF Terminated, vars, sharedVars, flags, updateVars, threadVars, historyVars
  <1>49. CASE TlsHandshakeBegins /\ UNCHANGED clientVars
    BY <1>49 DEF TlsHandshakeBegins, goto, IoFrame, flags, updateVars
  <1>50. CASE TlsHandshakeEnds /\ UNCHANGED clientVars
    BY <1>50 DEF TlsHandshakeEnds, goto, clearPassword, IoFrame, flags, updateVars
  <1> QED
    BY <1>1, <1>2, <1>3, <1>4, <1>5, <1>6, <1>7, <1>8, <1>9, <1>10, <1>11, <1>12, <1>13, <1>14,
       <1>15, <1>16, <1>17, <1>18, <1>19, <1>20, <1>21, <1>22, <1>23, <1>24, <1>25, <1>26,
       <1>27, <1>28, <1>29, <1>30, <1>31, <1>32, <1>33, <1>34, <1>35, <1>36, <1>37, <1>38,
       <1>39, <1>40, <1>41, <1>42, <1>43, <1>44, <1>45, <1>46, <1>47, <1>48, <1>49, <1>50
    DEF Next, Client, ClientStep, Thread, ThreadStep, Blocking, Receiving, Outside, External

-----------------------------------------------------------------------------
(* The key and pointer events in line *)

(* Without messages to write, what is in line is what is queued. *)
LEMMA EmptyLine ==
    ASSUME SharedTypeOK, toSend = <<>>
    PROVE  Line = mClientSendEvents
  BY DEF Line, TakenInputs, SharedTypeOK

(* Only requests and events are in line. *)
LEMMA LineType ==
    ASSUME SharedTypeOK, ThreadTypeOK
    PROVE  /\ TakenInputs \in Seq(Outgoing)
           /\ mClientSendEvents \in Seq(Outgoing)
           /\ Line \in Seq(Outgoing)
  <1>1. toSend \in Seq(Outgoing) /\ mClientSendEvents \in Seq(Outgoing)
    BY DEF SharedTypeOK, ThreadTypeOK, Outgoing
  <1>2. TakenInputs \in Seq(Outgoing)
    BY <1>1 DEF TakenInputs
  <1> QED
    BY <1>1, <1>2 DEF Line

(* What is in line depends on what was taken over and what is queued. *)
LEMMA LineUnchanged ==
    ASSUME UNCHANGED <<toSend, mClientSendEvents>>
    PROVE  Line' = Line
  BY DEF Line, TakenInputs

(* A queued event gets the next number and is the last in line. *)
LEMMA QueuedInLine ==
    ASSUME TypeOK, StateInv, OwedInv, QueueInv, LineInv, queueInput, UNCHANGED threadVars
    PROVE  LineInv'
  <1> DEFINE event == [type |-> "input", id |-> inputs + 1, conn |-> connects]
  <1>1. /\ mClientSendEvents' = Append(mClientSendEvents, event)
        /\ inputs' = inputs + 1 /\ connects' = connects /\ lastSent' = lastSent
        /\ UNCHANGED threadVars
    BY DEF queueInput
  <1>2. inputs \in Nat /\ lastSent \in Nat
    BY BoundsAssumption DEF TypeOK, HistoryTypeOK
  <1>3. Line' = Append(Line, event)
    <2>1. TakenInputs' = TakenInputs
      BY <1>1 DEF TakenInputs, threadVars
    <2>2. TakenInputs \in Seq(Outgoing) /\ mClientSendEvents \in Seq(Outgoing)
      BY LineType DEF TypeOK
    <2>3. event \in ClientSendEvent
      BY BoundsAssumption DEF TypeOK, HistoryTypeOK, ClientSendEvent, QueueInv, OwedInv, queueInput
    <2> QED
      BY <1>1, <2>1, <2>2, <2>3 DEF Line, Outgoing
  <1>4. Line \in Seq(Outgoing)
    BY LineType DEF TypeOK
  <1>5. InputsInLine'
    <2> SUFFICES ASSUME (pc # "disconnect" /\ stage = "connected")'
                 PROVE  /\ \A i \in DOMAIN Line' :
                             /\ Line'[i].type = "input"
                             /\ Line'[i].conn = connects'
                             /\ Line'[i].id = inputs' - Len(Line') + i
                        /\ lastSent' <= inputs' - Len(Line')
      BY DEF InputsInLine
    <2>1. /\ \A i \in DOMAIN Line :
                /\ Line[i].type = "input"
                /\ Line[i].conn = connects
                /\ Line[i].id = inputs - Len(Line) + i
          /\ lastSent <= inputs - Len(Line)
      BY <1>1 DEF LineInv, InputsInLine, threadVars
    <2>2. Len(Line') = Len(Line) + 1 /\ DOMAIN Line' = 1..(Len(Line) + 1)
      BY <1>3, <1>4
    <2>3. \A i \in 1..Len(Line) : Line'[i] = Line[i]
      BY <1>3, <1>4
    <2>4. Line'[Len(Line) + 1] = event
      BY <1>3, <1>4
    <2>5. Len(Line) \in Nat /\ DOMAIN Line = 1..Len(Line)
      BY <1>4
    <2>6. ASSUME NEW i \in DOMAIN Line'
          PROVE  /\ Line'[i].type = "input"
                 /\ Line'[i].conn = connects'
                 /\ Line'[i].id = inputs' - Len(Line') + i
      <3>1. CASE i \in 1..Len(Line)
        <4>1. /\ Line[i].type = "input" /\ Line[i].conn = connects
              /\ Line[i].id = inputs - Len(Line) + i
          BY <2>1, <2>5, <3>1
        <4>2. inputs' - Len(Line') + i = inputs - Len(Line) + i
          BY <1>1, <1>2, <2>2, <2>5, <3>1
        <4> QED
          BY <1>1, <2>3, <3>1, <4>1, <4>2
      <3>2. CASE i = Len(Line) + 1
        <4>1. inputs' - Len(Line') + i = inputs + 1
          BY <1>1, <1>2, <2>2, <2>5, <3>2
        <4> QED
          BY SMTT(30), <1>1, <2>4, <3>2, <4>1
      <3> QED
        BY <2>2, <2>5, <3>1, <3>2
    <2>7. lastSent' <= inputs' - Len(Line')
      BY <1>1, <1>2, <2>1, <2>2, <2>5
    <2> QED
      BY <2>6, <2>7
  <1> QED
    BY <1>1, <1>2, <1>5 DEF LineInv, threadVars

(* What the thread takes over stays in line, behind the request. *)
LEMMA TakenOverInLine ==
    ASSUME SharedTypeOK, PositionInv, LineInv, TakeOver
    PROVE  LineInv'
  <1>1. /\ pc = "connected" /\ stage = "connected" /\ toSend = <<>>
        /\ UNCHANGED <<stage, connects, inputs, lastSent>>
    BY DEF TakeOver, LineInv, PositionInv, historyVars
  <1>2. /\ mClientSendEvents \in Seq(ClientSendEvent)
        /\ mRequestFramebuffer \in RequestFramebuffer
    BY DEF SharedTypeOK
  <1>3. mClientSendEvents' = <<>>
    BY DEF TakeOver
  <1>4. TakenInputs' = mClientSendEvents
    <2>1. CASE mWantSendFramebufferUpdateRequest
      <3>1. toSend' = <<mRequestFramebuffer>> \o mClientSendEvents
        BY <2>1 DEF TakeOver
      <3>2. /\ toSend' # <<>>
            /\ Head(toSend') = mRequestFramebuffer
            /\ Tail(toSend') = mClientSendEvents
        BY <1>2, <3>1
      <3>3. mRequestFramebuffer.type = "request"
        BY <1>2 DEF RequestFramebuffer
      <3> QED
        BY <3>2, <3>3 DEF TakenInputs
    <2>2. CASE ~mWantSendFramebufferUpdateRequest
      <3>1. toSend' = mClientSendEvents
        BY <1>2, <2>2 DEF TakeOver
      <3>2. toSend' # <<>> => Head(toSend') \in ClientSendEvent
        BY <1>2, <3>1
      <3>3. toSend' # <<>> => Head(toSend').type = "input"
        BY <3>2 DEF ClientSendEvent
      <3> QED
        BY <3>1, <3>3 DEF TakenInputs
    <2> QED
      BY <2>1, <2>2
  <1>5. Line' = Line
    BY <1>1, <1>2, <1>3, <1>4, EmptyLine DEF Line
  <1>6. pc' \in {"sync", "io"} /\ (pc' = "sync" => toSend' = <<>>)
    BY DEF TakeOver
  <1>7. InputsInLine'
    BY <1>1, <1>5, <1>6 DEF LineInv, InputsInLine
  <1> QED
    BY <1>1, <1>6, <1>7 DEF LineInv

(* A written request leaves the line as it was, a written event leaves its *)
(* head.                                                                   *)
LEMMA WrittenFromLine ==
    ASSUME TypeOK, QueueInv, LineInv, MessageSent
    PROVE  LineInv'
  <1>1. /\ pc = "io" /\ stage = "connected" /\ toSend # <<>>
        /\ toSend' = Tail(toSend)
        /\ UNCHANGED <<stage, connects, inputs, mClientSendEvents>>
    BY DEF MessageSent, goto, IoFrame, QueueInv
  <1>2. /\ toSend \in Seq(Outgoing) /\ mClientSendEvents \in Seq(Outgoing)
        /\ Line \in Seq(Outgoing)
        /\ inputs \in Nat /\ lastSent \in Nat
    BY BoundsAssumption, LineType DEF TypeOK, SharedTypeOK, ThreadTypeOK, HistoryTypeOK, Outgoing
  <1>3. /\ \A i \in DOMAIN Line :
             Line[i].type = "input" /\ Line[i].conn = connects /\ Line[i].id = inputs - Len(Line) + i
        /\ lastSent <= inputs - Len(Line)
    BY <1>1 DEF LineInv, InputsInLine
  <1>4. pc' = IF Len(toSend) = 1 THEN "sync" ELSE "io"
    BY DEF MessageSent, goto
  <1>5. pc' = "sync" => toSend' = <<>>
    BY <1>1, <1>2, <1>4
  <1>6. TakenInputs' = Tail(toSend)
    <2>1. SUFFICES ASSUME Tail(toSend) # <<>>
                   PROVE  Head(Tail(toSend)).type = "input"
      BY <1>1 DEF TakenInputs
    <2>2. /\ Tail(toSend) \in Seq(Outgoing) /\ Len(Tail(toSend)) >= 1
          /\ Len(toSend) >= 2
          /\ Head(Tail(toSend)) = Tail(toSend)[1] /\ Tail(toSend)[1] = toSend[2]
      BY <1>1, <1>2, <2>1
    <2>3. CASE Head(toSend).type = "request"
      <3>1. Line = Tail(toSend) \o mClientSendEvents
        BY <1>1, <2>3 DEF Line, TakenInputs
      <3>2. 1 \in DOMAIN Line /\ Line[1] = Tail(toSend)[1]
        BY <1>2, <2>2, <3>1
      <3> QED
        BY <1>3, <2>2, <3>2
    <2>4. CASE Head(toSend).type # "request"
      <3>1. Line = toSend \o mClientSendEvents
        BY <2>4 DEF Line, TakenInputs
      <3>2. 2 \in DOMAIN Line /\ Line[2] = toSend[2]
        BY <1>2, <2>2, <3>1
      <3> QED
        BY <1>3, <2>2, <3>2
    <2> QED
      BY <2>3, <2>4
  <1>7. CASE Head(toSend).type = "request"
    <2>1. Line' = Line /\ lastSent' = lastSent
      BY <1>1, <1>6, <1>7 DEF Line, TakenInputs, MessageSent
    <2>2. InputsInLine'
      BY <1>1, <1>3, <2>1 DEF InputsInLine
    <2> QED
      BY <1>1, <1>4, <1>5, <2>1, <2>2 DEF LineInv
  <1>8. CASE Head(toSend).type # "request"
    <2>1. Line = toSend \o mClientSendEvents
      BY <1>8 DEF Line, TakenInputs
    <2>2. Line' = Tail(toSend) \o mClientSendEvents
      BY <1>1, <1>6 DEF Line
    <2>3. /\ Len(Line) = Len(Line') + 1
          /\ \A i \in DOMAIN Line' : i + 1 \in DOMAIN Line /\ Line'[i] = Line[i + 1]
          /\ 1 \in DOMAIN Line /\ Line[1] = Head(toSend)
          /\ Len(Line') \in Nat /\ DOMAIN Line' = 1..Len(Line')
      BY SMTT(30), <1>1, <1>2, <2>1, <2>2
    <2>4. lastSent' = inputs - Len(Line')
      <3>1. Line[1].type = "input" /\ Line[1].id = inputs - Len(Line) + 1
        BY <1>3, <2>3
      <3>2. lastSent' = Line[1].id
        BY <2>3, <3>1 DEF MessageSent
      <3> QED
        BY <1>2, <2>3, <3>1, <3>2
    <2>5. ASSUME NEW i \in DOMAIN Line'
          PROVE  /\ Line'[i].type = "input" /\ Line'[i].conn = connects
                 /\ Line'[i].id = inputs - Len(Line') + i
      <3>1. /\ Line[i + 1].type = "input" /\ Line[i + 1].conn = connects
            /\ Line[i + 1].id = inputs - Len(Line) + (i + 1)
        BY <1>3, <2>3
      <3>2. inputs - Len(Line) + (i + 1) = inputs - Len(Line') + i
        BY <1>2, <2>3
      <3> QED
        BY <2>3, <3>1, <3>2
    <2>6. lastSent' <= inputs - Len(Line') /\ lastSent' <= inputs
      BY <1>2, <2>3, <2>4
    <2>7. InputsInLine'
      BY <1>1, <2>5, <2>6 DEF InputsInLine
    <2> QED
      BY <1>1, <1>4, <1>5, <2>6, <2>7 DEF LineInv
  <1> QED
    BY <1>7, <1>8

(* A step that writes, queues and takes over nothing keeps the line, as    *)
(* long as the thread is not led where a line is looked at that was not.   *)
LEMMA LineKept ==
    ASSUME LineInv, UNCHANGED <<toSend, mClientSendEvents, stage, connects, inputs, lastSent>>,
           pc' \in {"io", "wait", "check"} => pc \in {"io", "wait", "check"},
           pc = "disconnect" => pc' = "disconnect",
           \/ pc \notin {"io", "wait", "check"}
           \/ stage # "connected"
           \/ pc' \in {"io", "wait", "check", "disconnect"}
    PROVE  LineInv'
  BY LineUnchanged DEF LineInv, InputsInLine

(* The end of a connection leaves no message and no event. *)
LEMMA LineDropped ==
    ASSUME LineInv, NEW from, NEW to, closeConnection(from, to)
    PROVE  LineInv'
  BY DEF LineInv, InputsInLine, closeConnection, historyVars

(* Events wait only in a connection, and only those queued in it. *)
LEMMA LineStep ==
    ASSUME TypeOK, PositionInv, StateInv, OwedInv, QueueInv, LineInv, [Next]_vars
    PROVE  LineInv'
  <1> USE DEF PositionInv
  <1>1. CASE StartupWait /\ UNCHANGED threadVars
    BY <1>1, LineKept DEF StartupWait, flags, updateVars, threadVars, historyVars
  <1>2. CASE StartupNotified /\ UNCHANGED threadVars
    BY <1>2, LineKept DEF StartupNotified, StartupReturn, flags, updateVars, threadVars,
       historyVars
  <1>3. CASE StartupSpurious /\ UNCHANGED threadVars
    BY <1>3, LineKept DEF StartupSpurious, StartupReturn, flags, updateVars, threadVars,
       historyVars
  <1>4. CASE (\E viewOnly \in ViewOnlyOptions : connectToHost(viewOnly)) /\ UNCHANGED threadVars
    BY <1>4, LineUnchanged DEF connectToHost, mayConnect, StateInv, LineInv, InputsInLine,
       threadVars
  <1>5. CASE destroy /\ UNCHANGED threadVars
    BY <1>5, LineKept DEF destroy, requestQuit, updateVars, threadVars, historyVars
  <1>6. CASE (\E password \in Passwords \cup {NoPassword} : setCredentials(password)) /\
            UNCHANGED threadVars
    BY <1>6, LineKept DEF setCredentials, flags, updateVars, threadVars, historyVars
  <1>7. CASE disconnect /\ UNCHANGED threadVars
    BY <1>7, LineKept DEF disconnect, updateVars, threadVars
  <1>8. CASE (\E viewOnly \in ViewOnlyOptions : setViewOnly(viewOnly)) /\ UNCHANGED threadVars
    BY <1>8, LineKept DEF setViewOnly, sharedVars, flags, updateVars, threadVars, historyVars
  <1>9. CASE requestFull /\ UNCHANGED threadVars
    BY <1>9, LineKept DEF requestFull, putRequest, flags, threadVars, historyVars
  <1>10. CASE (\E geometry \in 0..mFramebuffer : requestRect(geometry)) /\ UNCHANGED threadVars
    BY <1>10, LineKept DEF requestRect, putRequest, flags, threadVars, historyVars
  <1>11. CASE checkViewOnly /\ UNCHANGED threadVars
    BY <1>11, LineKept DEF checkViewOnly, sharedVars, flags, updateVars, threadVars, historyVars
  <1>12. CASE queueInput /\ UNCHANGED threadVars
    BY <1>12, QueuedInLine
  <1>13. CASE dropInput /\ UNCHANGED threadVars
    BY <1>13, LineKept DEF dropInput, sharedVars, flags, updateVars, threadVars, historyVars
  <1>14. CASE acquireFramebuffer /\ UNCHANGED threadVars
    BY <1>14, LineKept DEF acquireFramebuffer, flags, updateVars, threadVars, historyVars
  <1>15. CASE releaseFramebuffer /\ UNCHANGED threadVars
    BY <1>15, LineKept DEF releaseFramebuffer, flags, updateVars, threadVars, historyVars
  <1>16. CASE SendThreadStarted /\ UNCHANGED clientVars
    BY <1>16, LineKept DEF SendThreadStarted, goto, sendEvent, sharedVars, flags, updateVars
  <1>17. CASE NotifyStartup /\ UNCHANGED clientVars
    BY <1>17, LineKept DEF NotifyStartup, goto, flags, updateVars, historyVars
  <1>18. CASE SendThreadAboutToStop /\ UNCHANGED clientVars
    BY <1>18, LineKept DEF SendThreadAboutToStop, goto, sendEvent, sharedVars, flags, updateVars
  <1>19. CASE LoopTop /\ UNCHANGED clientVars
    <2>1. pc = "top" /\ pc' = nextTurn /\ UNCHANGED <<sharedVars, stage, toSend, historyVars>>
      BY <1>19 DEF LoopTop, goto
    <2>2. nextTurn \notin {"io", "wait", "check"}
      BY <2>1, NextTurn DEF TypeOK, SharedTypeOK, StateInv, Handshake
    <2> QED
      BY <2>1, <2>2, LineKept DEF sharedVars, historyVars
  <1>20. CASE SyncStatistics /\ UNCHANGED clientVars
    BY <1>20, LineKept DEF SyncStatistics, goto, sharedVars, flags, updateVars, historyVars
  <1>21. CASE SelectPipe /\ UNCHANGED clientVars
    BY <1>21, LineKept DEF SelectPipe, flags, updateVars, historyVars
  <1>22. CASE SelectReturns /\ UNCHANGED clientVars
    BY <1>22, LineKept DEF SelectReturns, goto, sharedVars, flags, updateVars, historyVars
  <1>23. CASE StartConnection /\ UNCHANGED clientVars
    BY <1>23, LineUnchanged DEF StartConnection, changeStateMutexLocked, LineInv, InputsInLine
  <1>24. CASE Checkpoint /\ UNCHANGED clientVars
    BY <1>24, LineUnchanged DEF Checkpoint, Following, Handshake, LineInv, InputsInLine,
       historyVars
  <1>25. CASE Establish /\ UNCHANGED clientVars
    <2>1. toSend = <<>> /\ toSend' = <<>> /\ UNCHANGED <<connects, inputs, lastSent>>
      BY <1>25 DEF Establish, LineInv, historyVars
    <2>2. CASE mClientSendEvents' = <<>>
      <3>1. Line' = <<>>
        BY <2>1, <2>2 DEF Line, TakenInputs
      <3> QED
        BY <2>1, <3>1, BoundsAssumption DEF LineInv, InputsInLine, TypeOK, HistoryTypeOK
    <2>3. CASE stage' = stage
      BY <1>25, <2>1, <2>3 DEF Establish, LineInv, InputsInLine
    <2> QED
      BY <1>25, <2>2, <2>3 DEF Establish, changeStateMutexLocked
  <1>26. CASE SendConnectSucceeded /\ UNCHANGED clientVars
    BY <1>26, LineKept DEF SendConnectSucceeded, goto, sendEvent, sharedVars, flags, updateVars
  <1>27. CASE StageDone /\ UNCHANGED clientVars
    BY <1>27, LineKept DEF StageDone, goto, clearPassword, IoFrame, flags, updateVars
  <1>28. CASE MessageSent /\ UNCHANGED clientVars
    BY <1>28, WrittenFromLine
  <1>29. CASE IoFails /\ UNCHANGED clientVars
    BY <1>29, LineKept DEF IoFails, goto, ioFailed, clearPassword, IoFrame, flags, updateVars
  <1>30. CASE IoWouldBlock /\ UNCHANGED clientVars
    BY <1>30, LineKept DEF IoWouldBlock, goto, IoFrame, flags, updateVars
  <1>31. CASE WaitSignalled /\ UNCHANGED clientVars
    BY <1>31, LineKept DEF WaitSignalled, goto, IoFrame, flags, updateVars
  <1>32. CASE WaitTimeout /\ UNCHANGED clientVars
    BY <1>32, LineKept DEF WaitTimeout, goto, IoFrame, flags, updateVars
  <1>33. CASE WaitError /\ UNCHANGED clientVars
    BY <1>33, LineKept DEF WaitError, goto, ioFailed, clearPassword, IoFrame, flags, updateVars
  <1>34. CASE CheckInterruption /\ UNCHANGED clientVars
    BY <1>34, LineKept DEF CheckInterruption, goto, ioFailed, clearPassword, IoFrame, flags,
       updateVars
  <1>35. CASE TakeOver /\ UNCHANGED clientVars
    BY <1>35, TakenOverInLine DEF TypeOK
  <1>36. CASE (\E kind \in {"FramebufferUpdate", "SetColourMapEntries", "ServerCutText"} :
            BeginMessage(kind)) /\
            UNCHANGED clientVars
    BY <1>36, LineKept DEF BeginMessage, goto, DataFrame, flags
  <1>37. CASE FinishMessage /\ UNCHANGED clientVars
    BY <1>37, LineKept DEF FinishMessage, goto, DataFrame, flags
  <1>38. CASE DataConsumed /\ UNCHANGED clientVars
    BY <1>38, LineKept DEF DataConsumed, goto, DataFrame, flags
  <1>39. CASE ReceiveFails /\ UNCHANGED clientVars
    BY <1>39, LineKept DEF ReceiveFails, goto, DataFrame, flags
  <1>40. CASE ProtocolError /\ UNCHANGED clientVars
    BY <1>40, LineKept DEF ProtocolError, goto, DataFrame, flags
  <1>41. CASE disconnectWithError /\ UNCHANGED clientVars
    BY <1>41, LineDropped DEF disconnectWithError
  <1>42. CASE abortConnectWithError /\ UNCHANGED clientVars
    BY <1>42, LineDropped DEF abortConnectWithError
  <1>43. CASE SendConnectFailed /\ UNCHANGED clientVars
    BY <1>43, LineKept DEF SendConnectFailed, goto, sendEvent, sharedVars, flags, updateVars
  <1>44. CASE SendDisconnected /\ UNCHANGED clientVars
    BY <1>44, LineKept DEF SendDisconnected, goto, sendEvent, sharedVars, flags, updateVars
  <1>45. CASE SelectSocket /\ UNCHANGED clientVars
    BY <1>45, LineKept DEF SelectSocket, goto, sharedVars, flags, updateVars, historyVars
  <1>46. CASE SelectError /\ UNCHANGED clientVars
    BY <1>46, LineKept DEF SelectError, goto, sharedVars, flags, updateVars, historyVars
  <1>47. CASE Join
    BY <1>47, LineKept DEF Join, sharedVars, flags, updateVars, threadVars, historyVars
  <1>48. CASE Terminated \/ UNCHANGED vars
    BY <1>48, LineKept DEF Terminated, vars, sharedVars, flags, updateVars, threadVars,
       historyVars
  <1>49. CASE TlsHandshakeBegins /\ UNCHANGED clientVars
    BY <1>49, LineKept DEF TlsHandshakeBegins, goto, IoFrame, flags, updateVars
  <1>50. CASE TlsHandshakeEnds /\ UNCHANGED clientVars
    BY <1>50, LineKept DEF TlsHandshakeEnds, goto, clearPassword, IoFrame, flags, updateVars
  <1> QED
    BY <1>1, <1>2, <1>3, <1>4, <1>5, <1>6, <1>7, <1>8, <1>9, <1>10, <1>11, <1>12, <1>13, <1>14,
       <1>15, <1>16, <1>17, <1>18, <1>19, <1>20, <1>21, <1>22, <1>23, <1>24, <1>25, <1>26,
       <1>27, <1>28, <1>29, <1>30, <1>31, <1>32, <1>33, <1>34, <1>35, <1>36, <1>37, <1>38,
       <1>39, <1>40, <1>41, <1>42, <1>43, <1>44, <1>45, <1>46, <1>47, <1>48, <1>49, <1>50
    DEF Next, Client, ClientStep, Thread, ThreadStep, Blocking, Receiving, Outside, External

-----------------------------------------------------------------------------
(* TrafficInv is inductive relative to SafetyInv. *)
LEMMA TrafficInvariant == Spec => []TrafficInv
  <1>1. Init => TrafficInv
    BY BoundsAssumption DEF Init, SharedInit, ThreadInit, HistoryInit, TrafficInv, PasswordInv,
       PasswordForgotten, ResponseFlagHonest, LineInv, InputsInLine
  <1>2. SafetyInv /\ TrafficInv /\ [Next]_vars => TrafficInv'
    <2> SUFFICES ASSUME SafetyInv, TrafficInv, [Next]_vars
                 PROVE  TrafficInv'
      OBVIOUS
    <2>1. PasswordInv'
      BY PasswordStep DEF SafetyInv, TypeOK, TrafficInv
    <2>2. ResponseFlagHonest'
      BY ResponseStep DEF SafetyInv, TrafficInv
    <2>3. LineInv'
      BY LineStep DEF SafetyInv, TrafficInv
    <2> QED
      BY <2>1, <2>2, <2>3 DEF TrafficInv
  <1> QED
    BY <1>1, <1>2, SafetyInvariant, PTL DEF Spec

(* A thread that has authenticated keeps no password. *)
THEOREM PasswordNotKept == Spec => []PasswordForgotten
  <1>1. TrafficInv => PasswordForgotten
    BY DEF TrafficInv, PasswordInv
  <1> QED
    BY <1>1, TrafficInvariant, PTL

(* An incremental request never relies on an update that only an earlier   *)
(* connection received.                                                    *)
THEOREM ResponseOfThisConnection == Spec => []ResponseFlagHonest
  <1>1. TrafficInv => ResponseFlagHonest
    BY DEF TrafficInv
  <1> QED
    BY <1>1, TrafficInvariant, PTL

(* However many events are queued in however many connections, each is     *)
(* written at most once, in order, to the connection it was meant for.     *)
THEOREM InputsKeepTheirLine == Spec => []InputsInLine
  <1>1. TrafficInv => InputsInLine
    BY DEF TrafficInv, LineInv
  <1> QED
    BY <1>1, TrafficInvariant, PTL

-----------------------------------------------------------------------------
(* What an application sees of the client: it implements LibraryConnection, *)
(* the connection in the steps an application can tell apart, so that the   *)
(* Qt client can be checked on top of LibraryConnection instead of on top   *)
(* of the threads and queues of VncClient; and it owes nothing while its   *)
(* thread sleeps.                                                          *)

(* Every step of the client is one of LibraryConnection or shows nothing   *)
(* of the connection.                                                      *)
LEMMA ConnectionStep ==
    ASSUME TypeOK, AbortExplained, PositionInv, StateInv, ViewInv, OwedInv, [Next]_vars
    PROVE  [Connection!ThreadMoves \/ Connection!Connect \/ Connection!Disconnect]_(
               Connection!connectionVars)
  <1> USE DEF TypeOK, SharedTypeOK, ThreadTypeOK, ConnectionState, Stages, Handshake,
      AbortExplained, PositionInv, StateInv, ViewInv, Connection!connectionVars,
      Connection!ThreadMoves, SeenState, SeenPosition
  <1>1. CASE StartupWait /\ UNCHANGED threadVars
    BY <1>1 DEF StartupWait, flags, updateVars, threadVars, historyVars
  <1>2. CASE StartupNotified /\ UNCHANGED threadVars
    BY <1>2 DEF StartupNotified, StartupReturn, flags, updateVars, threadVars, historyVars
  <1>3. CASE StartupSpurious /\ UNCHANGED threadVars
    BY <1>3 DEF StartupSpurious, StartupReturn, flags, updateVars, threadVars, historyVars
  <1>4. CASE (\E viewOnly \in ViewOnlyOptions : connectToHost(viewOnly)) /\ UNCHANGED threadVars
    BY <1>4 DEF connectToHost, mayConnect, updateVars, threadVars, Connection!Connect
  <1>5. CASE destroy /\ UNCHANGED threadVars
    BY <1>5 DEF destroy, requestQuit, updateVars, threadVars, historyVars
  <1>6. CASE (\E password \in Passwords \cup {NoPassword} : setCredentials(password)) /\
            UNCHANGED threadVars
    BY <1>6 DEF setCredentials, flags, updateVars, threadVars, historyVars
  <1>7. CASE disconnect /\ UNCHANGED threadVars
    BY <1>7 DEF disconnect, updateVars, threadVars, Connection!Disconnect
  <1>8. CASE (\E viewOnly \in ViewOnlyOptions : setViewOnly(viewOnly)) /\ UNCHANGED threadVars
    BY <1>8 DEF setViewOnly, sharedVars, flags, updateVars, threadVars, historyVars
  <1>9. CASE requestFull /\ UNCHANGED threadVars
    BY <1>9 DEF requestFull, putRequest, flags, threadVars, historyVars
  <1>10. CASE (\E geometry \in 0..mFramebuffer : requestRect(geometry)) /\ UNCHANGED threadVars
    BY <1>10 DEF requestRect, putRequest, flags, threadVars, historyVars
  <1>11. CASE checkViewOnly /\ UNCHANGED threadVars
    BY <1>11 DEF checkViewOnly, sharedVars, flags, updateVars, threadVars, historyVars
  <1>12. CASE queueInput /\ UNCHANGED threadVars
    BY <1>12 DEF queueInput, flags, updateVars, threadVars
  <1>13. CASE dropInput /\ UNCHANGED threadVars
    BY <1>13 DEF dropInput, sharedVars, flags, updateVars, threadVars, historyVars
  <1>14. CASE acquireFramebuffer /\ UNCHANGED threadVars
    BY <1>14 DEF acquireFramebuffer, flags, updateVars, threadVars, historyVars
  <1>15. CASE releaseFramebuffer /\ UNCHANGED threadVars
    BY <1>15 DEF releaseFramebuffer, flags, updateVars, threadVars, historyVars
  <1>16. CASE SendThreadStarted /\ UNCHANGED clientVars
    BY <1>16 DEF SendThreadStarted, goto, sendEvent, sharedVars, flags, updateVars,
       Connection!Started
  <1>17. CASE NotifyStartup /\ UNCHANGED clientVars
    BY <1>17 DEF NotifyStartup, goto, flags, updateVars, historyVars
  <1>18. CASE SendThreadAboutToStop /\ UNCHANGED clientVars
    BY <1>18 DEF SendThreadAboutToStop, goto, sendEvent, sharedVars, flags, updateVars,
       Connection!Stops
  <1>19. CASE LoopTop /\ UNCHANGED clientVars
    <2>1. pc = "top" /\ pc' = nextTurn /\ UNCHANGED <<sharedVars, stage, historyVars>>
      BY <1>19 DEF LoopTop, goto
    <2>2. mState # "ConnectionPending"
      BY <2>1
    <2>3. nextTurn = "disconnect" => ~mWantQuitThread /\ mAbortFlag
      BY <2>2 DEF nextTurn
    <2> QED
      BY <2>1, <2>2, <2>3, NextTurn DEF sharedVars, flags, historyVars, Connection!Abandons,
         Connection!Leaves
  <1>20. CASE SyncStatistics /\ UNCHANGED clientVars
    BY <1>20 DEF SyncStatistics, goto, sharedVars, flags, updateVars, historyVars
  <1>21. CASE SelectPipe /\ UNCHANGED clientVars
    BY <1>21 DEF SelectPipe, flags, updateVars, historyVars
  <1>22. CASE SelectReturns /\ UNCHANGED clientVars
    BY <1>22 DEF SelectReturns, goto, sharedVars, flags, updateVars, historyVars
  <1>23. CASE StartConnection /\ UNCHANGED clientVars
    BY <1>23 DEF StartConnection, changeStateMutexLocked, flags, updateVars, Connection!Abandons
  <1>24. CASE Checkpoint /\ UNCHANGED clientVars
    BY <1>24 DEF Checkpoint, publishStage, Following, flags, historyVars, Connection!Abandons
  <1>25. CASE Establish /\ UNCHANGED clientVars
    BY <1>25 DEF Establish, changeStateMutexLocked, Following, flags, historyVars,
       Connection!AttemptSucceeds, Connection!Abandons
  <1>26. CASE SendConnectSucceeded /\ UNCHANGED clientVars
    BY <1>26 DEF SendConnectSucceeded, goto, sendEvent, sharedVars, flags, updateVars,
       Connection!TellSucceeded
  <1>27. CASE StageDone /\ UNCHANGED clientVars
    BY <1>27 DEF StageDone, goto, clearPassword, IoFrame, flags, updateVars
  <1>28. CASE MessageSent /\ UNCHANGED clientVars
    BY <1>28 DEF MessageSent, goto, IoFrame, flags, updateVars
  <1>29. CASE IoFails /\ UNCHANGED clientVars
    BY <1>29 DEF IoFails, goto, ioFailed, clearPassword, IoFrame, flags, updateVars,
       Connection!Abandons, Connection!Leaves
  <1>30. CASE IoWouldBlock /\ UNCHANGED clientVars
    BY <1>30 DEF IoWouldBlock, goto, IoFrame, flags, updateVars
  <1>31. CASE WaitSignalled /\ UNCHANGED clientVars
    BY <1>31 DEF WaitSignalled, goto, IoFrame, flags, updateVars
  <1>32. CASE WaitTimeout /\ UNCHANGED clientVars
    BY <1>32 DEF WaitTimeout, goto, IoFrame, flags, updateVars
  <1>33. CASE WaitError /\ UNCHANGED clientVars
    BY <1>33 DEF WaitError, goto, ioFailed, clearPassword, IoFrame, flags, updateVars,
       Connection!Abandons, Connection!Leaves
  <1>34. CASE CheckInterruption /\ UNCHANGED clientVars
    BY <1>34 DEF CheckInterruption, goto, ioFailed, clearPassword, IoFrame, flags, updateVars,
       Connection!Abandons, Connection!Leaves
  <1>35. CASE TakeOver /\ UNCHANGED clientVars
    BY <1>35 DEF TakeOver, flags, historyVars
  <1>36. CASE (\E kind \in {"FramebufferUpdate", "SetColourMapEntries", "ServerCutText"} :
            BeginMessage(kind)) /\
            UNCHANGED clientVars
    BY <1>36 DEF BeginMessage, goto, DataFrame, flags
  <1>37. CASE FinishMessage /\ UNCHANGED clientVars
    BY <1>37 DEF FinishMessage, goto, DataFrame, flags
  <1>38. CASE DataConsumed /\ UNCHANGED clientVars
    BY <1>38 DEF DataConsumed, goto, DataFrame, flags
  <1>39. CASE ReceiveFails /\ UNCHANGED clientVars
    BY <1>39 DEF ReceiveFails, goto, DataFrame, flags, Connection!Leaves
  <1>40. CASE ProtocolError /\ UNCHANGED clientVars
    BY <1>40 DEF ProtocolError, goto, DataFrame, flags, Connection!Leaves
  <1>41. CASE disconnectWithError /\ UNCHANGED clientVars
    BY <1>41 DEF disconnectWithError, closeConnection, goto, resetToNotConnected,
       changeStateMutexLocked, updateVars, historyVars, Connection!Closes
  <1>42. CASE abortConnectWithError /\ UNCHANGED clientVars
    BY <1>42 DEF abortConnectWithError, closeConnection, goto, resetToNotConnected,
       changeStateMutexLocked, updateVars, historyVars, Connection!Closes
  <1>43. CASE SendConnectFailed /\ UNCHANGED clientVars
    BY <1>43 DEF SendConnectFailed, goto, sendEvent, sharedVars, flags, updateVars,
       Connection!TellFailed
  <1>44. CASE SendDisconnected /\ UNCHANGED clientVars
    BY <1>44 DEF SendDisconnected, goto, sendEvent, sharedVars, flags, updateVars,
       Connection!TellDisconnected
  <1>45. CASE SelectSocket /\ UNCHANGED clientVars
    BY <1>45 DEF SelectSocket, goto, sharedVars, flags, updateVars, historyVars
  <1>46. CASE SelectError /\ UNCHANGED clientVars
    BY <1>46 DEF SelectError, goto, sharedVars, flags, updateVars, historyVars,
       Connection!Leaves
  <1>47. CASE Join
    BY <1>47 DEF Join, sharedVars, flags, updateVars, threadVars, historyVars
  <1>48. CASE Terminated \/ UNCHANGED vars
    BY <1>48 DEF Terminated, vars, sharedVars, flags, updateVars, threadVars, historyVars
  <1>49. CASE TlsHandshakeBegins /\ UNCHANGED clientVars
    BY <1>49 DEF TlsHandshakeBegins, goto, IoFrame, flags, updateVars
  <1>50. CASE TlsHandshakeEnds /\ UNCHANGED clientVars
    BY <1>50 DEF TlsHandshakeEnds, goto, clearPassword, IoFrame, flags, updateVars,
       Connection!Abandons, Connection!Leaves
  <1> QED
    BY <1>1, <1>2, <1>3, <1>4, <1>5, <1>6, <1>7, <1>8, <1>9, <1>10, <1>11, <1>12, <1>13, <1>14,
       <1>15, <1>16, <1>17, <1>18, <1>19, <1>20, <1>21, <1>22, <1>23, <1>24, <1>25, <1>26,
       <1>27, <1>28, <1>29, <1>30, <1>31, <1>32, <1>33, <1>34, <1>35, <1>36, <1>37, <1>38,
       <1>39, <1>40, <1>41, <1>42, <1>43, <1>44, <1>45, <1>46, <1>47, <1>48, <1>49, <1>50
    DEF Next, Client, ClientStep, Thread, ThreadStep, Blocking, Receiving, Outside, External

(* What an application sees of its connection, through the state its calls *)
(* find and the events it is sent, is a behaviour of LibraryConnection.    *)
THEOREM ConnectionImplemented == Spec => ConnectionAsSeen
  <1>1. Init => Connection!ConnectionInit
    BY DEF Init, SharedInit, ThreadInit, HistoryInit, Connection!ConnectionInit,
       SeenState, SeenPosition
  <1>2. SafetyInv /\ [Next]_vars =>
            [Connection!ThreadMoves \/ Connection!Connect \/ Connection!Disconnect]_(
                Connection!connectionVars)
    BY ConnectionStep DEF SafetyInv
  <1> QED
    BY <1>1, <1>2, SafetyInvariant, PTL DEF Spec, ConnectionAsSeen, Connection!ConnectionSpec

(* The account of what is owed stays right until the application connects   *)
(* again after orv_disconnect(): without errors of select() the thread      *)
(* leaves a connection only when there is one, or on request.              *)
LEMMA ContractStep ==
    ASSUME TypeOK, AbortExplained, PositionInv, StateInv, ContractInv, [Next]_vars,
           ~SelectFails
    PROVE  ContractInv'
  <1> USE DEF TypeOK, HistoryTypeOK, ThreadTypeOK, Stages, Handshake, AbortExplained, PositionInv,
      StateInv, ContractInv, Account, Requested, UnderWay, Abandoned
  <1>1. CASE StartupWait /\ UNCHANGED threadVars
    BY <1>1 DEF clientVars, StartupWait, flags, updateVars, threadVars, historyVars
  <1>2. CASE StartupNotified /\ UNCHANGED threadVars
    BY <1>2 DEF clientVars, StartupNotified, StartupReturn, flags, updateVars, threadVars, historyVars
  <1>3. CASE StartupSpurious /\ UNCHANGED threadVars
    BY <1>3 DEF clientVars, StartupSpurious, StartupReturn, flags, updateVars, threadVars, historyVars
  <1>4. CASE (\E viewOnly \in ViewOnlyOptions : connectToHost(viewOnly)) /\ UNCHANGED threadVars
    BY <1>4 DEF clientVars, CriticalSection, connectToHost, mayConnect, updateVars, threadVars
  <1>5. CASE destroy /\ UNCHANGED threadVars
    BY <1>5 DEF clientVars, destroy, requestQuit, updateVars, threadVars, historyVars
  <1>6. CASE (\E password \in Passwords \cup {NoPassword} : setCredentials(password)) /\
            UNCHANGED threadVars
    BY <1>6 DEF clientVars, setCredentials, flags, updateVars, threadVars, historyVars
  <1>7. CASE disconnect /\ UNCHANGED threadVars
    BY <1>7 DEF clientVars, disconnect, updateVars, threadVars
  <1>8. CASE (\E viewOnly \in ViewOnlyOptions : setViewOnly(viewOnly)) /\ UNCHANGED threadVars
    BY <1>8 DEF clientVars, setViewOnly, sharedVars, flags, updateVars, threadVars, historyVars
  <1>9. CASE requestFull /\ UNCHANGED threadVars
    BY <1>9 DEF clientVars, requestFull, putRequest, flags, threadVars, historyVars
  <1>10. CASE (\E geometry \in 0..mFramebuffer : requestRect(geometry)) /\ UNCHANGED threadVars
    BY <1>10 DEF clientVars, requestRect, putRequest, flags, threadVars, historyVars
  <1>11. CASE checkViewOnly /\ UNCHANGED threadVars
    BY <1>11 DEF clientVars, checkViewOnly, sharedVars, flags, updateVars, threadVars, historyVars
  <1>12. CASE queueInput /\ UNCHANGED threadVars
    BY <1>12 DEF clientVars, queueInput, flags, updateVars, threadVars
  <1>13. CASE dropInput /\ UNCHANGED threadVars
    BY <1>13 DEF clientVars, dropInput, sharedVars, flags, updateVars, threadVars, historyVars
  <1>14. CASE acquireFramebuffer /\ UNCHANGED threadVars
    BY <1>14 DEF clientVars, CriticalSection, acquireFramebuffer, flags, updateVars, threadVars, historyVars
  <1>15. CASE releaseFramebuffer /\ UNCHANGED threadVars
    BY <1>15 DEF clientVars, releaseFramebuffer, flags, updateVars, threadVars, historyVars
  <1>16. CASE SendThreadStarted /\ UNCHANGED clientVars
    BY <1>16 DEF clientVars, SendThreadStarted, goto, sendEvent, sharedVars, flags, updateVars
  <1>17. CASE NotifyStartup /\ UNCHANGED clientVars
    BY <1>17 DEF clientVars, NotifyStartup, goto, flags, updateVars, historyVars
  <1>18. CASE SendThreadAboutToStop /\ UNCHANGED clientVars
    BY <1>18 DEF clientVars, SendThreadAboutToStop, goto, sendEvent, sharedVars, flags, updateVars
  <1>19. CASE LoopTop /\ UNCHANGED clientVars
    <2>1. pc = "top" /\ pc' = nextTurn /\ UNCHANGED <<sharedVars, stage, historyVars>>
      BY <1>19 DEF clientVars, LoopTop, goto
    <2>2. /\ mState # "ConnectionPending" /\ mState \in ConnectionState
          /\ mWantQuitThread \in BOOLEAN /\ mAbortFlag \in BOOLEAN
      BY <2>1 DEF SharedTypeOK
    <2>3. /\ nextTurn = "disconnect" => mAbortFlag /\ mState \in {"NotConnected", "Connected"}
          /\ nextTurn = "abort" => mAbortFlag /\ mState = "StartConnection"
      BY <2>2 DEF nextTurn, ConnectionState
    <2> QED
      BY <1>19, <2>1, <2>2, <2>3, NextTurn DEF clientVars, sharedVars, flags, historyVars,
         ConnectionState
  <1>20. CASE SyncStatistics /\ UNCHANGED clientVars
    BY <1>20 DEF clientVars, SyncStatistics, goto, sharedVars, flags, updateVars, historyVars
  <1>21. CASE SelectPipe /\ UNCHANGED clientVars
    BY <1>21 DEF clientVars, SelectPipe, flags, updateVars, historyVars
  <1>22. CASE SelectReturns /\ UNCHANGED clientVars
    BY <1>22 DEF clientVars, SelectReturns, goto, sharedVars, flags, updateVars, historyVars
  <1>23. CASE StartConnection /\ UNCHANGED clientVars
    BY <1>23 DEF clientVars, StartConnection, changeStateMutexLocked, flags, updateVars
  <1>24. CASE Checkpoint /\ UNCHANGED clientVars
    BY <1>24 DEF clientVars, Checkpoint, publishStage, Following, flags, historyVars
  <1>25. CASE Establish /\ UNCHANGED clientVars
    BY <1>25 DEF clientVars, Establish, changeStateMutexLocked, Following, flags, historyVars
  <1>26. CASE SendConnectSucceeded /\ UNCHANGED clientVars
    BY <1>26 DEF clientVars, SendConnectSucceeded, goto, sendEvent, sharedVars, flags, updateVars
  <1>27. CASE StageDone /\ UNCHANGED clientVars
    BY <1>27 DEF clientVars, StageDone, goto, clearPassword, IoFrame, flags, updateVars
  <1>28. CASE MessageSent /\ UNCHANGED clientVars
    BY <1>28 DEF clientVars, MessageSent, goto, IoFrame, flags, updateVars
  <1>29. CASE IoFails /\ UNCHANGED clientVars
    BY <1>29 DEF clientVars, IoFails, goto, ioFailed, clearPassword, IoFrame, flags, updateVars
  <1>30. CASE IoWouldBlock /\ UNCHANGED clientVars
    BY <1>30 DEF clientVars, IoWouldBlock, goto, IoFrame, flags, updateVars
  <1>31. CASE WaitSignalled /\ UNCHANGED clientVars
    BY <1>31 DEF clientVars, WaitSignalled, goto, IoFrame, flags, updateVars
  <1>32. CASE WaitTimeout /\ UNCHANGED clientVars
    BY <1>32 DEF clientVars, WaitTimeout, goto, IoFrame, flags, updateVars
  <1>33. CASE WaitError /\ UNCHANGED clientVars
    BY <1>33 DEF clientVars, WaitError, goto, ioFailed, clearPassword, IoFrame, flags, updateVars
  <1>34. CASE CheckInterruption /\ UNCHANGED clientVars
    BY <1>34 DEF clientVars, CheckInterruption, goto, ioFailed, clearPassword, IoFrame, flags, updateVars
  <1>35. CASE TakeOver /\ UNCHANGED clientVars
    BY <1>35 DEF clientVars, TakeOver, flags, historyVars
  <1>36. CASE (\E kind \in {"FramebufferUpdate", "SetColourMapEntries", "ServerCutText"} :
            BeginMessage(kind)) /\
            UNCHANGED clientVars
    BY <1>36 DEF clientVars, BeginMessage, goto, DataFrame, flags
  <1>37. CASE FinishMessage /\ UNCHANGED clientVars
    BY <1>37 DEF clientVars, FinishMessage, goto, DataFrame, flags
  <1>38. CASE DataConsumed /\ UNCHANGED clientVars
    BY <1>38 DEF clientVars, DataConsumed, goto, DataFrame, flags
  <1>39. CASE ReceiveFails /\ UNCHANGED clientVars
    BY <1>39 DEF clientVars, ReceiveFails, goto, DataFrame, flags
  <1>40. CASE ProtocolError /\ UNCHANGED clientVars
    BY <1>40 DEF clientVars, ProtocolError, goto, DataFrame, flags
  <1>41. CASE disconnectWithError /\ UNCHANGED clientVars
    BY <1>41 DEF clientVars, disconnectWithError, closeConnection, goto, resetToNotConnected,
       changeStateMutexLocked, updateVars, historyVars
  <1>42. CASE abortConnectWithError /\ UNCHANGED clientVars
    BY <1>42 DEF SharedTypeOK, ConnectionState, clientVars, abortConnectWithError,
       closeConnection, goto, resetToNotConnected, changeStateMutexLocked, updateVars, historyVars
  <1>43. CASE SendConnectFailed /\ UNCHANGED clientVars
    BY <1>43 DEF clientVars, SendConnectFailed, goto, sendEvent, sharedVars, flags, updateVars
  <1>44. CASE SendDisconnected /\ UNCHANGED clientVars
    BY <1>44 DEF clientVars, SendDisconnected, goto, sendEvent, sharedVars, flags, updateVars
  <1>45. CASE SelectSocket /\ UNCHANGED clientVars
    BY <1>45 DEF clientVars, SelectSocket, goto, sharedVars, flags, updateVars, historyVars
  <1>46. CASE SelectError /\ UNCHANGED clientVars
    BY <1>46 DEF clientVars, SelectError, goto, sharedVars, flags, updateVars, historyVars
  <1>47. CASE Join
    BY <1>47 DEF clientVars, Join, sharedVars, flags, updateVars, threadVars, historyVars
  <1>48. CASE Terminated \/ UNCHANGED vars
    BY <1>48 DEF clientVars, Terminated, vars, sharedVars, flags, updateVars, threadVars, historyVars
  <1>49. CASE TlsHandshakeBegins /\ UNCHANGED clientVars
    BY <1>49 DEF clientVars, TlsHandshakeBegins, goto, IoFrame, flags, updateVars
  <1>50. CASE TlsHandshakeEnds /\ UNCHANGED clientVars
    BY <1>50 DEF clientVars, TlsHandshakeEnds, goto, clearPassword, IoFrame, flags, updateVars
  <1> QED
    BY <1>1, <1>2, <1>3, <1>4, <1>5, <1>6, <1>7, <1>8, <1>9, <1>10, <1>11, <1>12, <1>13, <1>14,
       <1>15, <1>16, <1>17, <1>18, <1>19, <1>20, <1>21, <1>22, <1>23, <1>24, <1>25, <1>26,
       <1>27, <1>28, <1>29, <1>30, <1>31, <1>32, <1>33, <1>34, <1>35, <1>36, <1>37, <1>38,
       <1>39, <1>40, <1>41, <1>42, <1>43, <1>44, <1>45, <1>46, <1>47, <1>48, <1>49, <1>50
    DEF Next, Client, ClientStep, Thread, ThreadStep, Blocking, Receiving, Outside, External

(* What the account says of a sleeping thread. *)
LEMMA ContractInvariant ==
    ASSUME ~SelectFails
    PROVE  Spec => []ContractInv
  <1>1. Init => ContractInv
    BY DEF Init, SharedInit, ClientInit, ThreadInit, HistoryInit, ContractInv, Account, Requested,
       UnderWay, Abandoned, Handshake
  <1>2. SafetyInv /\ ContractInv /\ [Next]_vars => ContractInv'
    BY ContractStep DEF SafetyInv
  <1> QED
    BY <1>1, <1>2, SafetyInvariant, PTL DEF Spec

(* A connection thread that sleeps until it is woken owes nothing to an     *)
(* application that has not called orv_connect() after orv_disconnect():    *)
(* every accepted orv_connect() has had its ORV_EVENT_CONNECT_RESULT and    *)
(* orv_disconnect() its ORV_EVENT_DISCONNECTED, in whatever order calls,   *)
(* timeouts, failures and the server's bytes came (select() itself does    *)
(* not fail).                                                              *)
THEOREM SleepsWithNothingOwed ==
    ASSUME ~SelectFails
    PROVE  Spec => []NothingOwedAsleep
  <1>1. SafetyInv /\ ContractInv => NothingOwedAsleep
    BY DEF SafetyInv, PositionInv, WakeInv, ContractInv, Account, NothingOwedAsleep, Requested,
       UnderWay, Abandoned, Handshake
  <1> QED
    BY <1>1, SafetyInvariant, ContractInvariant, PTL
=============================================================================
