---------------------------- MODULE QtClientProofs ----------------------------
(***************************************************************************)
(* The pages, the update requests and the menu of the Qt client, for any   *)
(* number of connections and of posted events.                             *)
(*                                                                         *)
(* The properties depend on the order in which events are posted: a        *)
(* successful result is followed by the end of its connection, and the     *)
(* last news of the latency tester is its present state.                   *)
(***************************************************************************)
EXTENDS QtClient, SequenceTheorems, TLAPS

TesterStates == {"none", "connecting", "idle", "asking", "finished"}

QtTypes ==
    /\ posted \in Seq(PostedEvents)
    /\ page \in Pages
    /\ tester \in TesterStates
    /\ testerMenu \in BOOLEAN
    /\ outstanding \in Nat /\ timers \in Nat

(* An attempt that fails has told nothing yet; nothing is told without a    *)
(* context.                                                                *)
LibraryInv ==
    /\ at \in {"aborting", "failed"} => view = "none"
    /\ ~context => page # "Orv" /\ tester = "none" /\ posted = <<>>

(* After each success in the event loop comes the end of its connection. *)
Ended(s) ==
    \A i \in 1..Len(s) : s[i] = result(TRUE) =>
        \E j \in (i + 1)..Len(s) : s[j].type = "disconnected"

ResultsInv == view = "up" \/ Ended(posted)

Chain ==
    \/ mWantSendFramebufferUpdateRequest
    \/ outstanding > 0
    \/ Tells("finished")
    \/ timers > 0

(* The chain of requests only breaks with the connection, and the desktop   *)
(* is left before there can be another one.                                *)
ChainInv == page = "Orv" => Chain \/ state = "NotConnected"

Holds(s, type) == \E i \in DOMAIN s : s[i].type = type

(* What the menu will say once the events in s are handled is `now`. *)
LastTold(s, menu, now) ==
    \/ /\ \A i \in 1..Len(s) : s[i].type # "tester"
       /\ menu = now
    \/ \E i \in 1..Len(s) :
        /\ s[i] = tells(now)
        /\ \A j \in (i + 1)..Len(s) : s[j].type # "tester"

Connected(t) == t \in {"idle", "asking"}

MenuInv ==
    page # "closed" =>
        /\ LastTold(posted, testerMenu, Connected(tester))
        /\ testing => testerMenu

QtInv == QtTypes /\ LibraryInv /\ ShownWhileUp /\ ResultsInv /\ ChainInv /\ MenuInv

-----------------------------------------------------------------------------
(* Posted events in order *)

(* Handling the first event takes it away and moves the others up. *)
LEMMA PostedTail ==
    ASSUME NEW s \in Seq(PostedEvents), s # <<>>
    PROVE  /\ Tail(s) \in Seq(PostedEvents)
           /\ Len(s) \in Nat /\ Len(s) > 0 /\ Len(Tail(s)) = Len(s) - 1
           /\ s[1] = Head(s)
           /\ \A i \in 1..Len(Tail(s)) : Tail(s)[i] = s[i + 1]
    OBVIOUS

(* A posted event comes last. *)
LEMMA PostedAppend ==
    ASSUME NEW s \in Seq(PostedEvents), NEW e \in PostedEvents
    PROVE  /\ Append(s, e) \in Seq(PostedEvents)
           /\ Len(s) \in Nat /\ Len(Append(s, e)) = Len(s) + 1
           /\ Append(s, e)[Len(s) + 1] = e
           /\ \A i \in 1..Len(s) : Append(s, e)[i] = s[i]
    OBVIOUS

(* Two events posted at once are two events posted. *)
LEMMA PostedTwice ==
    ASSUME NEW s \in Seq(PostedEvents), NEW e \in PostedEvents
    PROVE  s \o <<e, e>> = Append(Append(s, e), e)
  <1>1. <<e>> \in Seq(PostedEvents)
    OBVIOUS
  <1>2. s \o <<e, e>> = (s \o <<e>>) \o <<e>>
    <2>1. <<e>> \o <<e>> = Append(<<e>>, e)
      BY <1>1, AppendIsConcat
    <2>2. Append(<<e>>, e) = <<e, e>>
      <3>1. <<e, e>> \in Seq(PostedEvents) /\ Len(<<e, e>>) = 2 /\ Len(<<e>>) = 1
        OBVIOUS
      <3>2. \A i \in 1..2 : Append(<<e>>, e)[i] = <<e, e>>[i]
        OBVIOUS
      <3>3. Append(<<e>>, e) \in Seq(PostedEvents) /\ Len(Append(<<e>>, e)) = 2
        BY <1>1, <3>1, AppendProperties
      <3>4. QED BY <3>1, <3>2, <3>3, SeqEqual
    <2>3. QED BY <1>1, <2>1, <2>2, ConcatAssociative
  <1>3. QED BY <1>2, AppendIsConcat, PostedAppend

(* The news that a tester's thread leaves behind.                          *)
LEMMA Farewell ==
    ASSUME NEW s \in Seq(PostedEvents), tester \in TesterStates
    PROVE  \/ s \o farewell = s /\ ~Connected(tester)
           \/ s \o farewell = Append(s, tells(FALSE))
           \/ s \o farewell = Append(Append(s, tells(FALSE)), tells(FALSE))
  <1>1. tells(FALSE) \in PostedEvents
    BY DEF PostedEvents, tells
  <1>2. CASE tester \in {"none", "finished"}
    <2>1. farewell = <<>> /\ ~Connected(tester)
      BY <1>2 DEF farewell, Connected
    <2>2. QED BY <2>1, ConcatEmptySeq
  <1>3. CASE tester \in {"idle", "asking"}
    <2>1. farewell = <<tells(FALSE)>>
      BY <1>3 DEF farewell, tells
    <2>2. QED BY <1>1, <2>1, AppendIsConcat
  <1>4. CASE tester = "connecting"
    <2>1. farewell = <<tells(FALSE), tells(FALSE)>>
      BY <1>4 DEF farewell, tells
    <2>2. QED BY <1>1, <2>1, PostedTwice
  <1>5. QED BY <1>2, <1>3, <1>4 DEF TesterStates

(* The end of a connection follows each success still when the first event *)
(* is handled, and when other events are posted.                           *)
LEMMA EndedNothing == Ended(<<>>)
    BY DEF Ended

LEMMA EndedTail ==
    ASSUME NEW s \in Seq(PostedEvents), s # <<>>, Ended(s)
    PROVE  Ended(Tail(s))
  <1>1. SUFFICES ASSUME NEW i \in 1..Len(Tail(s)), Tail(s)[i] = result(TRUE)
                 PROVE  \E j \in (i + 1)..Len(Tail(s)) : Tail(s)[j].type = "disconnected"
    BY DEF Ended
  <1>2. PICK k \in (i + 1 + 1)..Len(s) : s[k].type = "disconnected"
    <2>1. i + 1 \in 1..Len(s) /\ s[i + 1] = result(TRUE)
      BY <1>1, PostedTail DEF result
    <2>2. QED BY <2>1 DEF Ended, result
  <1>3. k - 1 \in (i + 1)..Len(Tail(s)) /\ Tail(s)[k - 1] = s[k]
    BY PostedTail
  <1>4. QED BY <1>2, <1>3

LEMMA EndedAppend ==
    ASSUME NEW s \in Seq(PostedEvents), NEW e \in PostedEvents, Ended(s), e # result(TRUE)
    PROVE  Ended(Append(s, e))
  <1>1. SUFFICES ASSUME NEW i \in 1..Len(Append(s, e)), Append(s, e)[i] = result(TRUE)
                 PROVE  \E j \in (i + 1)..Len(Append(s, e)) :
                            Append(s, e)[j].type = "disconnected"
    BY DEF Ended
  <1>2. i \in 1..Len(s) /\ s[i] = result(TRUE)
    BY <1>1, PostedAppend DEF result
  <1>3. PICK j \in (i + 1)..Len(s) : s[j].type = "disconnected"
    BY <1>2 DEF Ended
  <1>4. j \in (i + 1)..Len(Append(s, e)) /\ Append(s, e)[j] = s[j]
    BY PostedAppend
  <1>5. QED BY <1>3, <1>4

LEMMA EndedByDisconnect ==
    ASSUME NEW s \in Seq(PostedEvents)
    PROVE  Ended(Append(s, disconnected))
  <1>1. disconnected \in PostedEvents /\ disconnected.type = "disconnected"
        /\ disconnected # result(TRUE)
    BY DEF PostedEvents, disconnected, result
  <1>2. SUFFICES ASSUME NEW i \in 1..Len(Append(s, disconnected)),
                        Append(s, disconnected)[i] = result(TRUE)
                 PROVE  \E j \in (i + 1)..Len(Append(s, disconnected)) :
                            Append(s, disconnected)[j].type = "disconnected"
    BY DEF Ended
  <1>3. i \in 1..Len(s)
    BY <1>1, <1>2, PostedAppend DEF result
  <1>4. QED BY <1>1, <1>3, PostedAppend

(* An event is still to be handled when another one has been, or is posted. *)
LEMMA HoldsTail ==
    ASSUME NEW s \in Seq(PostedEvents), s # <<>>, NEW type, Head(s).type # type, Holds(s, type)
    PROVE  Holds(Tail(s), type)
  <1>1. PICK i \in 1..Len(s) : s[i].type = type
    BY DEF Holds
  <1>2. i - 1 \in 1..Len(Tail(s)) /\ Tail(s)[i - 1] = s[i]
    BY <1>1, PostedTail
  <1>3. i - 1 \in DOMAIN Tail(s) /\ Tail(s)[i - 1].type = type
    BY <1>1, <1>2, PostedTail
  <1>4. QED BY <1>3 DEF Holds

LEMMA HoldsAppend ==
    ASSUME NEW s \in Seq(PostedEvents), NEW e \in PostedEvents, NEW type,
           Holds(s, type) \/ e.type = type
    PROVE  Holds(Append(s, e), type)
  <1>1. DOMAIN Append(s, e) = 1..(Len(s) + 1)
    BY PostedAppend
  <1>2. CASE Holds(s, type)
    BY <1>1, <1>2, PostedAppend DEF Holds
  <1>3. CASE e.type = type
    BY <1>1, <1>3, PostedAppend DEF Holds
  <1>4. QED BY <1>2, <1>3

(* What the menu is going to say stays right while other events come and   *)
(* go, when the news is heard, and when there is news.                     *)
LEMMA ToldTail ==
    ASSUME NEW s \in Seq(PostedEvents), s # <<>>, Head(s).type # "tester",
           NEW menu, NEW now, LastTold(s, menu, now)
    PROVE  LastTold(Tail(s), menu, now)
  <1>1. CASE (\A i \in 1..Len(s) : s[i].type # "tester") /\ menu = now
    BY <1>1, PostedTail DEF LastTold
  <1>2. CASE \E i \in 1..Len(s) : /\ s[i] = tells(now)
                                 /\ \A j \in (i + 1)..Len(s) : s[j].type # "tester"
    <2>1. PICK i \in 1..Len(s) : /\ s[i] = tells(now)
                                 /\ \A j \in (i + 1)..Len(s) : s[j].type # "tester"
      BY <1>2
    <2>2. i # 1
      BY <2>1, PostedTail DEF tells
    <2>3. i - 1 \in 1..Len(Tail(s)) /\ Tail(s)[i - 1] = tells(now)
      BY <2>1, <2>2, PostedTail
    <2>4. \A j \in ((i - 1) + 1)..Len(Tail(s)) : Tail(s)[j].type # "tester"
      BY <2>1, PostedTail
    <2>5. QED BY <2>3, <2>4 DEF LastTold
  <1>3. QED BY <1>1, <1>2 DEF LastTold

LEMMA ToldHeard ==
    ASSUME NEW s \in Seq(PostedEvents), s # <<>>, NEW menu, NEW now, NEW said,
           Head(s) = tells(said), LastTold(s, menu, now)
    PROVE  LastTold(Tail(s), said, now)
  <1>1. PICK i \in 1..Len(s) : /\ s[i] = tells(now)
                               /\ \A j \in (i + 1)..Len(s) : s[j].type # "tester"
    BY PostedTail DEF LastTold, tells
  <1>2. CASE i = 1
    <2>1. said = now
      BY <1>1, <1>2, PostedTail DEF tells
    <2>2. \A j \in 1..Len(Tail(s)) : Tail(s)[j].type # "tester"
      BY <1>1, <1>2, PostedTail
    <2>3. QED BY <2>1, <2>2 DEF LastTold
  <1>3. CASE i # 1
    <2>1. i - 1 \in 1..Len(Tail(s)) /\ Tail(s)[i - 1] = tells(now)
      BY <1>1, <1>3, PostedTail
    <2>2. \A j \in ((i - 1) + 1)..Len(Tail(s)) : Tail(s)[j].type # "tester"
      BY <1>1, PostedTail
    <2>3. QED BY <2>1, <2>2 DEF LastTold
  <1>4. QED BY <1>2, <1>3

LEMMA ToldAppend ==
    ASSUME NEW s \in Seq(PostedEvents), NEW e \in PostedEvents, e.type # "tester",
           NEW menu, NEW now, LastTold(s, menu, now)
    PROVE  LastTold(Append(s, e), menu, now)
  <1>1. CASE (\A i \in 1..Len(s) : s[i].type # "tester") /\ menu = now
    BY <1>1, PostedAppend DEF LastTold
  <1>2. CASE \E i \in 1..Len(s) : /\ s[i] = tells(now)
                                 /\ \A j \in (i + 1)..Len(s) : s[j].type # "tester"
    <2>1. PICK i \in 1..Len(s) : /\ s[i] = tells(now)
                                 /\ \A j \in (i + 1)..Len(s) : s[j].type # "tester"
      BY <1>2
    <2>2. i \in 1..Len(Append(s, e)) /\ Append(s, e)[i] = tells(now)
      BY <2>1, PostedAppend
    <2>3. \A j \in (i + 1)..Len(Append(s, e)) : Append(s, e)[j].type # "tester"
      BY <2>1, PostedAppend
    <2>4. QED BY <2>2, <2>3 DEF LastTold
  <1>3. QED BY <1>1, <1>2 DEF LastTold

LEMMA ToldNews ==
    ASSUME NEW s \in Seq(PostedEvents), NEW menu, NEW now \in BOOLEAN
    PROVE  LastTold(Append(s, tells(now)), menu, now)
  <1>1. tells(now) \in PostedEvents
    BY DEF PostedEvents, tells
  <1>2. /\ Len(s) + 1 \in 1..Len(Append(s, tells(now)))
        /\ Append(s, tells(now))[Len(s) + 1] = tells(now)
        /\ Len(Append(s, tells(now))) = Len(s) + 1 /\ Len(s) \in Nat
    BY <1>1, PostedAppend
  <1>3. QED BY <1>2 DEF LastTold

(* A tester's thread that ends leaves the right news, and nothing else.    *)
LEMMA ToldFarewell ==
    ASSUME NEW s \in Seq(PostedEvents), tester \in TesterStates, NEW menu,
           LastTold(s, menu, Connected(tester))
    PROVE  /\ s \o farewell \in Seq(PostedEvents)
           /\ LastTold(s \o farewell, menu, FALSE)
           /\ Ended(s) => Ended(s \o farewell)
           /\ \A type : Holds(s, type) => Holds(s \o farewell, type)
  <1> DEFINE gone == tells(FALSE)
  <1>1. gone \in PostedEvents /\ gone # result(TRUE)
    BY DEF PostedEvents, tells, result
  <1>2. \A t \in Seq(PostedEvents) : LastTold(Append(t, gone), menu, FALSE)
    BY ToldNews
  <1>3. \/ s \o farewell = s /\ ~Connected(tester)
        \/ s \o farewell = Append(s, gone)
        \/ s \o farewell = Append(Append(s, gone), gone)
    BY Farewell
  <1> HIDE DEF gone
  <1>4. CASE s \o farewell = s /\ ~Connected(tester)
    <2>1. Connected(tester) = FALSE
      BY <1>4 DEF Connected
    <2>2. LastTold(s, menu, FALSE)
      BY <2>1
    <2>3. QED BY <1>4, <2>2
  <1>5. CASE s \o farewell = Append(s, gone)
    <2>1. LastTold(s \o farewell, menu, FALSE)
      BY <1>2, <1>5
    <2>2. Ended(s) => Ended(s \o farewell)
      BY <1>1, <1>5, EndedAppend
    <2>3. ASSUME NEW type, Holds(s, type) PROVE Holds(s \o farewell, type)
      BY <1>1, <1>5, <2>3, HoldsAppend
    <2>4. QED BY <1>1, <1>5, <2>1, <2>2, <2>3, PostedAppend
  <1>6. CASE s \o farewell = Append(Append(s, gone), gone)
    <2>1. Append(s, gone) \in Seq(PostedEvents)
      BY <1>1, PostedAppend
    <2>2. LastTold(s \o farewell, menu, FALSE)
      BY <1>2, <1>6, <2>1
    <2>3. Ended(s) => Ended(s \o farewell)
      BY <1>1, <1>6, <2>1, EndedAppend
    <2>4. ASSUME NEW type, Holds(s, type) PROVE Holds(s \o farewell, type)
      BY <1>1, <1>6, <2>1, <2>4, HoldsAppend
    <2>5. QED BY <1>1, <1>6, <2>1, <2>2, <2>3, <2>4, PostedAppend
  <1>7. QED BY <1>3, <1>4, <1>5, <1>6

-----------------------------------------------------------------------------
(* The invariant *)

(* The invariant holds when the window opens. *)
LEMMA QtInitially == ASSUME Init PROVE QtInv
  <1> USE DEF Init, ConnectionInit, TesterInit, WidgetsInit, MenuInit
  <1>1. QtTypes
    <2>1. posted \in Seq(PostedEvents)
      OBVIOUS
    <2>2. page \in Pages /\ tester \in TesterStates /\ testerMenu \in BOOLEAN
      BY DEF Pages, TesterStates
    <2>3. QED BY <2>1, <2>2 DEF QtTypes
  <1>2. LibraryInv /\ ShownWhileUp /\ ChainInv
    BY DEF LibraryInv, ShownWhileUp, ChainInv
  <1>3. ResultsInv
    BY DEF ResultsInv, Ended
  <1>4. MenuInv
    <2>1. ~Connected(tester)
      BY DEF Connected
    <2>2. Connected(tester) = FALSE
      BY <2>1 DEF Connected
    <2>3. LastTold(<<>>, FALSE, FALSE)
      BY DEF LastTold
    <2>4. testerMenu = FALSE /\ posted = <<>> /\ ~testing
      OBVIOUS
    <2>5. LastTold(posted, testerMenu, Connected(tester))
      BY <2>2, <2>3, <2>4
    <2>6. QED BY <2>4, <2>5 DEF MenuInv
  <1>5. QED BY <1>1, <1>2, <1>3, <1>4 DEF QtInv

(* Tells(), of the events posted, before and after a step. *)
LEMMA TellsHolds ==
    \A type : /\ Tells(type) <=> Holds(posted, type)
              /\ Tells(type)' <=> Holds(posted', type)
    BY DEF Tells, Holds

(* The posted events and what tells them apart. *)
LEMMA EventTypes ==
    /\ \A success \in BOOLEAN : /\ result(success) \in PostedEvents
                                /\ result(success).type = "result"
    /\ disconnected \in PostedEvents /\ disconnected.type = "disconnected"
    /\ finished \in PostedEvents /\ finished.type = "finished"
    /\ answer \in PostedEvents /\ answer.type = "latency"
    /\ \A connected \in BOOLEAN : /\ tells(connected) \in PostedEvents
                                  /\ tells(connected).type = "tester"
    BY DEF PostedEvents, result, disconnected, finished, answer, tells

(* The steps that post and handle nothing and leave the tester alone need   *)
(* to be looked at for the connection, the page and the requests only.     *)
LEMMA QuietStep ==
    ASSUME QtInv, posted' = posted, tester' = tester, testerMenu' = testerMenu,
           testing' = testing, page' \in Pages, page' = "closed" <=> page = "closed",
           outstanding' \in Nat, timers' \in Nat,
           LibraryInv', ShownWhileUp', ResultsInv', ChainInv'
    PROVE  QtInv'
  <1>1. QtTypes'
    BY DEF QtInv, QtTypes
  <1>2. MenuInv'
    BY DEF QtInv, MenuInv
  <1>3. QED BY <1>1, <1>2 DEF QtInv

(* The user's clicks and the connection asked for on the command line. *)
LEMMA PageSteps ==
    ASSUME QtInv, cancelNewServer \/ showNewServerWidget \/ connectToHost \/ startConnect
                  \/ NoContext \/ abortConnect
    PROVE  QtInv'
  <1> USE DEF QtInv, QtTypes, LibraryInv, UserMayAct, connectionVars, testerVars, updateVars,
        menuVars, contextVars, widgetVars, Pages
  <1>1. CASE cancelNewServer \/ showNewServerWidget
    BY <1>1, QuietStep DEF cancelNewServer, showNewServerWidget, changeCurrentWidgetTo,
       ShownWhileUp, ResultsInv, ChainInv
  <1>2. CASE connectToHost \/ startConnect
    <2>1. connects /\ page # "closed"
      BY <1>2 DEF connectToHost, startConnect
    <2>2. LibraryInv' /\ ShownWhileUp' /\ ChainInv'
      BY <2>1 DEF connects, createContext, ShownWhileUp, ChainInv
    <2>3. ResultsInv'
      <3>1. posted' = posted /\ view' = IF context THEN view ELSE "none"
        BY <2>1 DEF connects, createContext
      <3>2. CASE context
        BY <3>1, <3>2 DEF ResultsInv
      <3>3. CASE ~context
        BY <3>1, <3>3, EndedNothing DEF ResultsInv
      <3>4. QED BY <3>2, <3>3
    <2>4. QED BY <2>1, <2>2, <2>3, QuietStep DEF connects
  <1>3. CASE NoContext
    BY <1>3, QuietStep DEF NoContext, ShownWhileUp, ResultsInv, ChainInv
  <1>4. CASE abortConnect
    BY <1>4, QuietStep DEF abortConnect, changeCurrentWidgetTo, Disconnect,
       ShownWhileUp, ResultsInv, ChainInv, Chain, Tells
  <1>5. QED BY <1>1, <1>2, <1>3, <1>4

(* What the library's thread does and posts. *)
LEMMA LibrarySteps ==
    ASSUME QtInv, LibraryStep
    PROVE  QtInv'
  <1> USE DEF QtInv, QtTypes, LibraryInv, connectionVars, testerVars, updateVars, menuVars,
        contextVars, widgetVars, Frame
  <1>1. CASE ConnectionMoves \/ ConnectionCloses
    <2>1. posted' = posted /\ page' = page
      BY <1>1 DEF ConnectionMoves, ConnectionCloses
    <2>2. ShownWhileUp'
      BY <1>1 DEF ConnectionMoves, ConnectionCloses, AttemptSucceeds, Abandons, Leaves, Closes,
         ShownWhileUp, Tells
    <2>3. ResultsInv' /\ LibraryInv'
      BY <1>1 DEF ConnectionMoves, ConnectionCloses, AttemptSucceeds, Abandons, Leaves, Closes,
         ResultsInv
    <2>4. ChainInv'
      BY <1>1 DEF ConnectionMoves, ConnectionCloses, AttemptSucceeds, Abandons, Leaves, Closes,
         ChainInv, Chain, Tells
    <2>5. QED BY <1>1, <2>1, <2>2, <2>3, <2>4, QuietStep DEF ConnectionMoves, ConnectionCloses
  <1>2. CASE RequestSent
    <2>1. ShownWhileUp' /\ ResultsInv' /\ LibraryInv' /\ ChainInv'
      BY <1>2 DEF RequestSent, ShownWhileUp, ResultsInv, ChainInv, Chain, Tells
    <2>2. QED BY <1>2, <2>1, QuietStep DEF RequestSent
  <1>3. ASSUME NEW event \in PostedEvents, posted' = Append(posted, event), context,
               event.type # "tester", UNCHANGED <<tester, testerMenu, testing, page, context>>
        PROVE  /\ posted' \in Seq(PostedEvents)
               /\ MenuInv'
               /\ Tells("disconnected") => Tells("disconnected")'
               /\ Tells("finished") => Tells("finished")'
    <2>1. MenuInv'
      BY <1>3, ToldAppend DEF MenuInv
    <2>2. QED BY <1>3, <2>1, PostedAppend, HoldsAppend, TellsHolds
  <1>4. CASE ResultPosted
    <2>1. PICK success \in BOOLEAN :
              /\ posted' = Append(posted, result(success))
              /\ IF success THEN TellSucceeded ELSE TellFailed
      BY <1>4 DEF ResultPosted, orv_qt_callback
    <2>2. QtTypes' /\ MenuInv' /\ ChainInv'
      BY <1>3, <1>4, <2>1, EventTypes DEF ResultPosted, TellSucceeded, TellFailed, ChainInv, Chain
    <2>3. ShownWhileUp' /\ ResultsInv' /\ LibraryInv'
      <3>1. CASE success
        BY <1>4, <2>1, <3>1 DEF ResultPosted, TellSucceeded, ShownWhileUp, ResultsInv
      <3>2. CASE ~success
        BY <1>3, <1>4, <2>1, <3>2, EventTypes, EndedAppend DEF ResultPosted, TellFailed,
           ShownWhileUp, ResultsInv, result
      <3>3. QED BY <3>1, <3>2
    <2>4. QED BY <2>2, <2>3
  <1>5. CASE DisconnectedPosted
    <2>1. posted' = Append(posted, disconnected)
      BY <1>5 DEF DisconnectedPosted, orv_qt_callback
    <2>2. QtTypes' /\ MenuInv' /\ ChainInv'
      BY <1>3, <1>5, <2>1, EventTypes DEF DisconnectedPosted, TellDisconnected, ChainInv, Chain
    <2>3. ShownWhileUp' /\ ResultsInv' /\ LibraryInv'
      BY <1>5, <2>1, EventTypes, EndedByDisconnect, HoldsAppend, TellsHolds
         DEF DisconnectedPosted, TellDisconnected, ShownWhileUp, ResultsInv
    <2>4. QED BY <2>2, <2>3
  <1>6. CASE UpdateReceived
    <2>1. posted' = Append(posted, finished)
      BY <1>6 DEF UpdateReceived, orv_qt_callback
    <2>2. QtTypes' /\ MenuInv'
      BY <1>3, <1>6, <2>1, EventTypes DEF UpdateReceived, Exchanging
    <2>3. ChainInv'
      BY <1>6, <2>1, EventTypes, HoldsAppend, TellsHolds DEF UpdateReceived, ChainInv, Chain
    <2>4. ShownWhileUp' /\ ResultsInv' /\ LibraryInv'
      BY <1>3, <1>6, <2>1, EventTypes, EndedAppend DEF UpdateReceived, Exchanging, ShownWhileUp,
         ResultsInv, finished, result
    <2>5. QED BY <2>2, <2>3, <2>4
  <1>7. QED BY <1>1, <1>2, <1>4, <1>5, <1>6 DEF LibraryStep

(* The handlers of the posted events. *)
LEMMA EventLoopSteps ==
    ASSUME QtInv, EventLoopStep
    PROVE  QtInv'
  <1> USE DEF QtInv, QtTypes, LibraryInv, connectionVars, testerVars, updateVars, menuVars,
        contextVars, widgetVars, delivers, Pages
  <1>1. ASSUME posted # <<>>, posted' = Tail(posted)
        PROVE  /\ posted' \in Seq(PostedEvents)
               /\ Ended(posted) => Ended(posted')
               /\ \A type : Tells(type) /\ Head(posted).type # type => Tells(type)'
               /\ Head(posted).type # "tester" /\ page # "closed" =>
                      LastTold(posted', testerMenu, Connected(tester))
               /\ context
    <2>1. posted' \in Seq(PostedEvents) /\ (Ended(posted) => Ended(posted')) /\ context
      BY <1>1, PostedTail, EndedTail
    <2>2. \A type : Tells(type) /\ Head(posted).type # type => Tells(type)'
      BY <1>1, HoldsTail, TellsHolds
    <2>3. Head(posted).type # "tester" /\ page # "closed" =>
              LastTold(posted', testerMenu, Connected(tester))
      BY <1>1, ToldTail DEF MenuInv
    <2>4. QED BY <2>1, <2>2, <2>3
  <1>2. CASE handleConnectEvent
    <2>1. PICK success \in BOOLEAN :
              /\ delivers(result(success))
              /\ IF page = "ConnectState" /\ success
                 THEN page' = "Orv" /\ firstRequest
                 ELSE UNCHANGED <<page, mWantSendFramebufferUpdateRequest>>
      BY <1>2 DEF handleConnectEvent
    <2>2. posted # <<>> /\ posted' = Tail(posted) /\ Head(posted).type = "result"
          /\ page # "closed" /\ page' # "closed"
      BY <1>2, <2>1, EventTypes DEF handleConnectEvent
    <2>3. QtTypes' /\ LibraryInv' /\ ResultsInv' /\ MenuInv'
      BY <1>1, <1>2, <2>1, <2>2 DEF handleConnectEvent, ResultsInv, MenuInv
    <2>4. ChainInv'
      BY <1>1, <1>2, <2>1, <2>2 DEF handleConnectEvent, ChainInv, Chain, firstRequest
    <2>5. ShownWhileUp'
      <3>1. CASE page = "Orv"
        BY <1>1, <1>2, <2>2, <3>1 DEF handleConnectEvent, ShownWhileUp
      <3>2. CASE page # "Orv" /\ page' = "Orv" /\ view # "up"
        <4>1. posted[1] = result(TRUE)
          BY <2>1, <2>2, <3>2, PostedTail DEF result
        <4>2. 1 \in 1..Len(posted)
          BY <2>2, PostedTail
        <4>3. Ended(posted)
          BY <3>2 DEF ResultsInv
        <4>4. PICK j \in (1 + 1)..Len(posted) : posted[j].type = "disconnected"
          BY <4>1, <4>2, <4>3 DEF Ended, result
        <4>5. Tells("disconnected")
          BY <4>4 DEF Tells
        <4>6. QED BY <1>1, <2>2, <4>5 DEF ShownWhileUp
      <3>3. QED BY <1>2, <3>1, <3>2 DEF handleConnectEvent, ShownWhileUp
    <2>6. QED BY <2>3, <2>4, <2>5
  <1>3. CASE handleDisconnectedEvent
    <2>1. posted # <<>> /\ Head(posted).type = "disconnected" /\ page # "closed"
          /\ page' = "ConnectState" /\ tester' = "none" /\ context' = context
          /\ posted' = Tail(posted) \o farewell
          /\ UNCHANGED <<view, at, outstanding, timers, testerMenu, testing>>
      BY <1>3, EventTypes DEF handleDisconnectedEvent, pageAfterDisconnect
    <2>2. /\ Tail(posted) \in Seq(PostedEvents)
          /\ LastTold(Tail(posted), testerMenu, Connected(tester))
          /\ Ended(posted) => Ended(Tail(posted))
          /\ context
      BY <2>1, PostedTail, ToldTail, EndedTail DEF MenuInv
    <2>3. /\ posted' \in Seq(PostedEvents)
          /\ LastTold(posted', testerMenu, FALSE)
          /\ Ended(posted) => Ended(posted')
      BY <2>1, <2>2, ToldFarewell
    <2>4. Connected(tester') = FALSE
      BY <2>1 DEF Connected
    <2>5. MenuInv'
      BY <2>1, <2>3, <2>4 DEF MenuInv
    <2>6. QED BY <2>1, <2>2, <2>3, <2>5 DEF ShownWhileUp, ResultsInv, ChainInv, TesterStates
  <1>4. CASE handleFramebufferUpdateRequestFinishedEvent
    <2>1. posted # <<>> /\ Head(posted).type = "finished" /\ page # "closed"
          /\ posted' = Tail(posted)
      BY <1>4, EventTypes DEF handleFramebufferUpdateRequestFinishedEvent
    <2>2. QtTypes' /\ LibraryInv' /\ ResultsInv' /\ MenuInv' /\ ShownWhileUp'
      BY <1>1, <1>4, <2>1 DEF handleFramebufferUpdateRequestFinishedEvent, ResultsInv, MenuInv,
         ShownWhileUp
    <2>3. ChainInv'
      BY <1>4 DEF handleFramebufferUpdateRequestFinishedEvent, ChainInv, Chain
    <2>4. QED BY <2>2, <2>3
  <1>5. CASE requestFramebufferUpdate
    <2>1. ShownWhileUp' /\ ResultsInv' /\ LibraryInv' /\ ChainInv'
      BY <1>5 DEF requestFramebufferUpdate, ShownWhileUp, ResultsInv, ChainInv, Chain, Tells
    <2>2. QED BY <1>5, <2>1, QuietStep DEF requestFramebufferUpdate
  <1>6. CASE canAbortConnectionToLatencyTesterUpdated
    <2>1. PICK connected \in BOOLEAN : delivers(tells(connected)) /\ testerMenu' = connected
      BY <1>6 DEF canAbortConnectionToLatencyTesterUpdated
    <2>2. posted # <<>> /\ Head(posted).type = "tester" /\ posted' = Tail(posted)
          /\ page # "closed"
      BY <1>6, <2>1, EventTypes DEF canAbortConnectionToLatencyTesterUpdated
    <2>3. QtTypes' /\ LibraryInv' /\ ResultsInv' /\ ShownWhileUp' /\ ChainInv'
      BY <1>1, <1>6, <2>1, <2>2 DEF canAbortConnectionToLatencyTesterUpdated, ResultsInv,
         ShownWhileUp, ChainInv, Chain
    <2>4. LastTold(posted', testerMenu', Connected(tester))
      BY <2>1, <2>2, ToldHeard DEF MenuInv
    <2>5. MenuInv'
      BY <1>6, <2>4 DEF canAbortConnectionToLatencyTesterUpdated, MenuInv
    <2>6. QED BY <2>3, <2>5
  <1>7. CASE addLatencyTesterData
    <2>1. posted # <<>> /\ Head(posted).type = "latency" /\ page # "closed"
          /\ posted' = Tail(posted)
      BY <1>7, EventTypes DEF addLatencyTesterData
    <2>2. QtTypes' /\ LibraryInv' /\ ResultsInv' /\ MenuInv' /\ ShownWhileUp' /\ ChainInv'
      BY <1>1, <1>7, <2>1 DEF addLatencyTesterData, ResultsInv, MenuInv, ShownWhileUp, ChainInv,
         Chain
    <2>3. QED BY <2>2
  <1>8. QED BY <1>2, <1>3, <1>4, <1>5, <1>6, <1>7 DEF EventLoopStep

(* The latency tester's menu, timer and thread. *)
LEMMA TesterSteps ==
    ASSUME QtInv, TesterStep
    PROVE  QtInv'
  <1> USE DEF QtInv, QtTypes, LibraryInv, connectionVars, testerVars, updateVars, menuVars,
        contextVars, widgetVars, TesterUnchanged, UserMayAct
  <1>1. ASSUME posted' \in Seq(PostedEvents), tester' \in TesterStates, testerMenu' = testerMenu,
               ~context => tester' = "none" /\ posted' = posted,
               Ended(posted) => Ended(posted'),
               \A type : Holds(posted, type) => Holds(posted', type),
               MenuInv', TesterUnchanged
        PROVE  QtInv'
    <2>1. \A type : Tells(type) => Tells(type)'
      BY <1>1, TellsHolds
    <2>2. ShownWhileUp' /\ ResultsInv' /\ ChainInv'
      BY <1>1, <2>1 DEF ShownWhileUp, ResultsInv, ChainInv, Chain
    <2>3. QED BY <1>1, <2>2
  <1>2. ASSUME posted' = posted, UNCHANGED testerMenu, tester' \in TesterStates,
               ~context => tester' = "none",
               page # "closed" /\ testing' => testerMenu, Connected(tester') = Connected(tester),
               TesterUnchanged
        PROVE  QtInv'
    <2>1. MenuInv'
      BY <1>2 DEF MenuInv
    <2>2. QED BY <1>1, <1>2, <2>1
  <1>3. ASSUME posted' = posted \o farewell, page # "closed", UNCHANGED menuVars,
               tester' \in {"none", "connecting"}, tester' # "none" => context,
               TesterUnchanged
        PROVE  QtInv'
    <2>1. /\ posted' \in Seq(PostedEvents)
          /\ LastTold(posted', testerMenu, FALSE)
          /\ Ended(posted) => Ended(posted')
          /\ \A type : Holds(posted, type) => Holds(posted', type)
      BY <1>3, ToldFarewell DEF MenuInv
    <2>2. Connected(tester') = FALSE
      BY <1>3 DEF Connected
    <2>3. MenuInv'
      BY <1>3, <2>1, <2>2 DEF MenuInv
    <2>4. ~context => posted' = posted
      BY <1>3, ConcatEmptySeq DEF farewell
    <2>5. QED BY <1>1, <1>3, <2>1, <2>3, <2>4 DEF TesterStates
  <1>4. ASSUME NEW event \in PostedEvents, posted' = Append(posted, event), context,
               event # result(TRUE),
               page # "closed" => LastTold(posted', testerMenu, Connected(tester')),
               tester' \in TesterStates, UNCHANGED menuVars, TesterUnchanged
        PROVE  QtInv'
    <2>1. MenuInv'
      BY <1>4 DEF MenuInv
    <2>2. QED BY <1>1, <1>4, <2>1, PostedAppend, EndedAppend, HoldsAppend
  <1>5. CASE startConnectToLatencyTester
    BY <1>3, <1>5 DEF startConnectToLatencyTester, testerConnect
  <1>6. CASE disconnectFromLatencyTester
    BY <1>3, <1>6 DEF disconnectFromLatencyTester, testerDisconnect
  <1>7. CASE startLatencyTest \/ stopLatencyTest \/ latencyTestTick
    BY <1>2, <1>7 DEF startLatencyTest, stopLatencyTest, latencyTestTick, testerRequestUpdate,
       MenuInv
  <1>8. CASE TesterThread /\ UNCHANGED menuVars /\ TesterUnchanged
    <2>0. context
      BY <1>8 DEF TesterThread, TesterConnected, TesterRefused, TesterAsks, TesterAnswered,
         TesterFails
    <2>1. CASE TesterConnected
      <3>1. Connected(tester') = TRUE
        BY <2>1 DEF TesterConnected, Connected
      <3>2. QED BY <1>4, <1>8, <2>0, <2>1, <3>1, ToldNews, EventTypes
                DEF TesterConnected, TesterStates, tells, result
    <2>2. CASE TesterRefused
      <3>1. Connected(tester') = FALSE
        BY <2>2 DEF TesterRefused, Connected
      <3> DEFINE gone == tells(FALSE)
      <3>2. gone \in PostedEvents /\ gone # result(TRUE)
        BY DEF PostedEvents, tells, result
      <3>3. posted' = posted \o <<gone, gone>>
        BY <2>2 DEF TesterRefused
      <3>4. \A t \in Seq(PostedEvents) : LastTold(Append(t, gone), testerMenu, FALSE)
        BY ToldNews
      <3> HIDE DEF gone
      <3>5. posted' = Append(Append(posted, gone), gone)
        BY <3>2, <3>3, PostedTwice
      <3>6. Append(posted, gone) \in Seq(PostedEvents) /\ posted' \in Seq(PostedEvents)
        BY <3>2, <3>5, PostedAppend
      <3>7. LastTold(posted', testerMenu, FALSE)
        BY <3>4, <3>5, <3>6
      <3>8. MenuInv'
        BY <1>8, <3>1, <3>7 DEF MenuInv
      <3>9. Ended(posted) => Ended(posted')
        BY <3>2, <3>5, <3>6, EndedAppend
      <3>10. ASSUME NEW type, Holds(posted, type) PROVE Holds(posted', type)
        BY <3>2, <3>5, <3>6, <3>10, HoldsAppend
      <3>11. QED BY <1>1, <1>8, <2>0, <2>2, <3>6, <3>8, <3>9, <3>10
                 DEF TesterRefused, TesterStates
    <2>3. CASE TesterAsks
      <3>1. Connected(tester') = Connected(tester)
        BY <2>3 DEF TesterAsks, Connected
      <3>2. QED BY <1>2, <1>8, <2>0, <2>3, <3>1 DEF TesterAsks, TesterStates, MenuInv
    <2>4. CASE TesterAnswered
      <3>1. Connected(tester') = Connected(tester)
        BY <2>4 DEF TesterAnswered, Connected
      <3>2. page # "closed" => LastTold(posted', testerMenu, Connected(tester))
        BY <2>4, ToldAppend, EventTypes DEF TesterAnswered, MenuInv
      <3>3. QED BY <1>4, <1>8, <2>0, <2>4, <3>1, <3>2, EventTypes
                DEF TesterAnswered, TesterStates, answer, result
    <2>5. CASE TesterFails
      <3>1. Connected(tester') = FALSE
        BY <2>5 DEF TesterFails, Connected
      <3>2. QED BY <1>4, <1>8, <2>0, <2>5, <3>1, ToldNews, EventTypes
                DEF TesterFails, TesterStates, tells, result
    <2>6. QED BY <1>8, <2>1, <2>2, <2>3, <2>4, <2>5 DEF TesterThread
  <1>9. QED BY <1>5, <1>6, <1>7, <1>8 DEF TesterStep

(* Closing the window. *)
LEMMA QuitStep == ASSUME QtInv, Quit PROVE QtInv'
  <1>1. posted' = <<>> /\ page' = "closed" /\ tester' = "none" /\ ~context'
        /\ UNCHANGED <<testerMenu, outstanding>> /\ timers' = 0 /\ at' = "free"
    BY DEF Quit, destroyContext
  <1>2. QtTypes' /\ LibraryInv' /\ ShownWhileUp' /\ ChainInv'
    BY <1>1 DEF QtInv, QtTypes, LibraryInv, ShownWhileUp, ChainInv, Pages, TesterStates
  <1>3. ResultsInv' /\ MenuInv'
    BY <1>1, EndedNothing DEF ResultsInv, MenuInv
  <1>4. QED BY <1>2, <1>3 DEF QtInv

(* The invariant is inductive. *)
LEMMA QtInvariant == Spec => []QtInv
  <1>1. QtInv /\ [Next]_vars => QtInv'
    <2>1. SUFFICES ASSUME QtInv, [Next]_vars PROVE QtInv'
      OBVIOUS
    <2>2. CASE UNCHANGED vars
      BY <2>1, <2>2 DEF vars, connectionVars, testerVars, updateVars, menuVars, contextVars,
         widgetVars, QtInv, QtTypes, LibraryInv, ShownWhileUp, ResultsInv, ChainInv, Chain, MenuInv,
         Tells
    <2>3. CASE UserStep
      BY <2>1, <2>3, PageSteps, QuitStep DEF UserStep
    <2>4. QED BY <2>1, <2>2, <2>3, LibrarySteps, EventLoopSteps, TesterSteps DEF Next, Terminated
  <1>2. QED BY <1>1, QtInitially, PTL DEF Spec

-----------------------------------------------------------------------------
(* The page with the desktop is only shown for a connection that exists or *)
(* whose end is about to be heard of: TopWidget::handleConnectEvent() and  *)
(* handleDisconnectedEvent().                                              *)
THEOREM DesktopShownWhileUp == Spec => []ShownWhileUp
  <1>1. QtInv => ShownWhileUp
    BY DEF QtInv
  <1>2. QED BY <1>1, QtInvariant, PTL

(* While the desktop is shown and the connection exchanges messages, an    *)
(* update is asked for, on its way, or about to be asked for again:        *)
(* TopWidget::handleFramebufferUpdateRequestFinishedEvent().               *)
THEOREM UpdateChainUnbroken == Spec => []UpdatesKeepComing
  <1>1. QtInv => UpdatesKeepComing
    BY DEF QtInv, ChainInv, Chain, UpdatesKeepComing, Exchanging
  <1>2. QED BY <1>1, QtInvariant, PTL

(* Once the news of the tester's thread is handled, the menu offers what   *)
(* there is: MainWindow::canAbortConnectionToLatencyTesterUpdated().       *)
THEOREM MenuTellsTester == Spec => []TesterMenuHonest
  <1>1. QtInv => TesterMenuHonest
    <2>1. SUFFICES ASSUME QtInv, page # "closed", ~Tells("tester")
                   PROVE  /\ testerMenu <=> tester \in {"idle", "asking"}
                          /\ testing => testerMenu
      BY DEF TesterMenuHonest
    <2>2. \A i \in 1..Len(posted) : posted[i].type # "tester"
      BY <2>1 DEF Tells, QtInv, QtTypes
    <2>3. testerMenu = Connected(tester)
      BY <2>1, <2>2 DEF QtInv, MenuInv, LastTold, tells
    <2>4. QED BY <2>1, <2>3 DEF QtInv, MenuInv, Connected
  <1>2. QED BY <1>1, QtInvariant, PTL
=============================================================================
