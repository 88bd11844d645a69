# Verification of OpenRV, a VNC client

libopenrv is a VNC (RFB 3.x) client library. An application calls a C API; a thread owned by the
library talks to the server. A Qt client, a command line client and Android and iOS projects use
the API. This directory models the library and the Qt client: TLA+ modules translated from the code
in `src/libopenrv` and `src/qt`, configurations that check them with TLC, and proofs that TLAPS
checks for every value of the constants. The repository has no tests.

## The system

### Parts

| part | source | state | operations |
|---|---|---|---|
| public API | `libopenrv/libopenrv.cpp`, `orv_context.h` | the context: callback, event queue, client | `orv_init`, `orv_destroy`, `orv_connect`, `orv_disconnect`, `orv_set_credentials`, `orv_set_viewonly`, `orv_request_framebuffer_update[_full]`, `orv_send_*_event`, `orv_acquire_*`/`orv_release_*`, `orv_poll_event` |
| client | `orvvncclient.cpp` (class `OrvVncClient`) | the thread handle, `mViewOnly`, write end of the pipe | what the API calls forward to |
| shared data | `orvvncclientshareddata.h` | `mMutex`, quit/disconnect/abort flags, `mState`, password, pending request, queued input, framebuffer | none: the two sides lock it |
| connection thread | `orvvncclient.cpp` (class `ConnectionThread`) | socket, password of the attempt, pixel format, current message parser, receive buffer, counters | `run()` and the stages of a connection |
| thread notification | `threadnotifier.cpp` | a pipe | notify, swallow |
| socket | `socket.cpp` | descriptor, timeouts, encryption context | connect, blocking read and write, receive of the main loop, wait |
| TLS | `opensslcontext.cpp`, `mbedtlscontext.cpp` | library handles | handshake, read, write |
| handshake | `rfb3xhandshake.cpp`, `securitytypehandler.cpp`, `vncdes.cpp` | selected security type, sub-handler | security negotiation, VeNCrypt, Tight, VNC authentication |
| message parsers | `messageparser.cpp` | the message being received | `reset`, `readData`, `processFinishedMessage` |
| rectangle parsers | `rectdataparser.cpp` | the rectangle being received, zlib streams, framebuffer | Raw, CopyRect, RRE, CoRRE, Hextile, Zlib, ZRLE, Cursor |
| pixels | `reader.h`, `writer.h`, `OrvVncClient::makePixelFormat()` | none | choice, bytes and pixels of a format |
| keys | `keys.cpp`, `key_android.cpp`, `key_xkeygen.h`, `orv_qtkey_to_xkeysym.h` | none | to keysyms from Qt, Android and UTF-8 |
| latency tester | `orv_latencytesterclient.cpp` | its own thread and socket | connect, request, stop |
| event queue, helpers | `eventqueue.cpp`, `utils.cpp`, `orv_error.cpp`, `orv_logging.cpp` | a list under a mutex | `queue`, `dequeue`; formatting |
| Qt client, pages | `qt/topwidget.cpp`, `mainwindow.cpp`, `connectstatewidget.cpp`, `orv_context_qt.cpp`, `main.cpp` | the page shown, enabled menu entries, timers, posted events | slots of user, event loop and library |
| Qt client, servers | `qt/serverlistmodel.cpp`, `serverlistwidget.cpp`, `newserverwidget.cpp` | the list, its file, the form | add, edit, delete, save, load |
| Qt client, desktop | `qt/orvwidget.cpp`, `framebufferwidget.cpp` | textures, keysyms of pressed keys | drawing, keyboard, mouse |

### Interaction

The application's threads and the connection thread share `OrvVncClientSharedData` under one
mutex. Every API call that the thread must notice sets fields and writes a byte to the pipe, with
the mutex held. The thread waits in `select()` for the pipe and, when connected, the socket. It
reads the flags at the top of its loop, in the checkpoints between the stages of an attempt
(`mAbortFlag`) and at the end of every wait (`mUserRequestedDisconnect` only). It reports through
an event callback that runs in the thread, without the mutex, so the application may call the API
from inside it. `OrvContext` of the Qt client posts each event to Qt's event loop instead, where
`TopWidget` handles it later, between the user's actions. The thread draws into the framebuffer
under the mutex; the widgets copy from it when they handle the event.

### What is hard

* The pipe merges all wake-ups and any wait may swallow them: also the waits inside a blocking
  write, which act only on a disconnect request.
* Decisions are taken on flags copied under the lock and executed after it was released.
* `mState` changes before the events of the old connection are sent, and the Qt client handles them
  later still.
* State of the thread (parsers, zlib streams, counters, password, pixel format) and of the widgets
  (textures, pressed keys, menu entries) outlives the connection it belongs to unless someone
  resets it.
* Messages arrive in chunks of any size, TLS hides bytes from `select()`, and a renegotiation turns
  reads into writes.
* Which message follows which depends on the version, the type and the method that were agreed on.
* The list of servers is saved piecemeal over what the file held before.

`PROJECT.json` lists each hazard at its line with the properties that cover it.

### What makes each part correct

* *client, shared data, thread*: no request is slept on; every accepted call is answered; state,
  socket and events agree; nothing of one connection leaks into the next; passwords do not
  outlive authentication; destruction terminates.
* *socket and TLS*: a blocking call ends by the timeout, gives up only if its last try could get no
  further, waits for what unblocks it, and stops on a disconnect request.
* *handshake*: both sides agree on version, type, method, encryption and the meaning of a pixel; a
  failure is reported for its reason; every attempt ends.
* *message and rectangle parsers*: the result does not depend on how the bytes are split, nor on the
  connection before, but for the cases named below in which the code loses step.
* *Qt client*: the page follows the connection, updates keep coming, what is shown is current, a
  user who aborts gets back; no key stays pressed but those that Qt's names of keys and the focus
  make the widget lose; the list of servers survives.

## Modules

| module | models | correspondence |
|---|---|---|
| `ClientHistory` | nothing of the code | ghost variables: what an observer of calls and events remembers, and the bounds |
| `SharedData` | `OrvVncClientSharedData`, the pipe, `changeStateMutexLocked()` | one variable per field |
| `OrvVncClient` | the application's calls | one action per function; `StartupWait`/`StartupReturn` are the constructor, `destroy` and `Join` the destructor, `checkViewOnly` and `queueInput`/`dropInput` the two halves of sending input |
| `ConnectionThread` | `run()` and what it calls | `pc` and `stage` are the position in the code; one action per critical section, socket operation or event |
| `VncClient` | both sides together | specification and properties |
| `ConnectionEvents` | the order of events an application may rely on | abstract, over `view` and `owedResults` alone |
| `LibraryConnection` | a connection in the steps an application can tell apart | abstract: `state` is what calls find, `at` what the thread is about to tell |
| `SocketIo`, `TlsLayer` | class `Socket` with a clock; the kernel's buffers and OpenSSL between the socket and its user | `op` and `pc` are the call under way and its place: trying, waiting or looking at the signal; `Tick` is the time in `select()` |
| `RfbServer` | a server as `rfb3xhandshake.cpp`, `securitytypehandler.cpp` and `performClientAndServerInit()` expect it, and the network (external) | `sv` is what the server waits for; `wire`, `inbound` and `outbound` are the items on their way and in the socket |
| `PixelFormats` | the formats of pixels: choice, bytes, colours | operators named like the functions |
| `Rfb3xHandshake` | the bytes of an attempt: `negotiateProtocolVersion()`, class `Rfb3xHandshake`, the security type handlers, `performClientAndServerInit()`, `sendSetPixelFormat()`, `sendSetEncodings()` | one action per blocking read or write and the decision that follows it; `pc` is the item being read or written |
| `Tiles` | the tiles of a rectangle | operators named like the functions |
| `ServerStream` | messages, what they mean, and the bytes they become (the protocol, external) | |
| `RectDataParser` | the parsers of the encodings | one iteration of a parser's loop is a step; the parsers' members are `data`, `tile`, `picture`, `zlib` |
| `MessageParser` | `handleConnectedSocketData()`, `processMessageData()`, the message parsers | an action per part of a message; `...Waits` are the returns for want of bytes; `astray` notes that the parsers have taken bytes for others than they are: what they make of the rest of that connection is not followed |
| `ServerUpdates` | what the parsers promise | abstract: messages take effect as a whole, rectangle by rectangle; it names the places where the parsers may lose step |
| `LatencyTester` | the tester's thread and callback | `tester` is the position of the thread |
| `QtClient` | `TopWidget`, `MainWindow`, `ConnectStateWidget`, `OrvContext` | one action per slot; `posted` is Qt's event loop; above `LibraryConnection` |
| `ServerList` | `ServerListModel`, its file, the proxy with separators, the form | one action per slot; `settings` is the file |
| `FramebufferWidget` | the thread drawing, and the textures | one action per event and per drawing |
| `Keys` | tables of keys, the hash table of characters, UTF-8 | operators named like the functions |
| `OrvWidget` | keyboard and mouse of `OrvWidget`, the Android keyboard calls, and what is pressed at the server | one action per event handler |
| `MC...` | instances | which calls, servers, scripts, files and texts a run has |
| `HandshakeInvariant` | no code: the inductive invariants of the handshake | |
| `VncClientProofs`, `SocketIoProofs`, `Rfb3xHandshakeProofs`, `MessageParserProofs`, `QtClientProofs`, `ServerListProofs`, `FramebufferWidgetProofs`, `OrvWidgetProofs` | | the theorems |

`VncClient` EXTENDS the two sides of the library, which both EXTEND `SharedData`, and instantiates
`ConnectionEvents` and `LibraryConnection` with a refinement mapping. `QtClient` EXTENDS
`LibraryConnection`: the composition of the Qt client with the library is checked in two steps, the
library against `LibraryConnection` (run `Control`, theorem `ConnectionImplemented`) and the Qt
client on top of it (run `QtClient`). `Rfb3xHandshake`, `SocketIo` and `MessageParser` refine what
`ConnectionThread` leaves abstract (the stages `version`, `security`, `init` and `setup`, the loop of a
blocking operation, the processing of what was received) and are checked separately: there the
thread shares nothing with the application but the flags, whose effect is an action of theirs
(`Interrupted`, `RequestDisconnect`, `ConnectionEnds`).

### Granularity

*Client and thread.* A critical section is one action, enabled when the mutex is free. Work on data of
the thread alone is merged with the critical section that follows it. Each event is an action of its
own, because the callback may call the API. The five stages of an attempt (`connect`, `version`,
`security`, `init`, `setup`) all use the same loop of the socket: try (`io`), wait (`wait`), look for
a disconnect request (`check`); their bytes are abstracted to success, failure or would-block. A key
or pointer event is its number and the connection it was meant for; a framebuffer geometry is the
number of the connection that announced it.

*Socket.* Steps take no time; time passes in `select()`, in units, with at most one wake-up of the
pipe in each unit. Bytes are counted, not told apart. A TLS record is decrypted as a whole, and a
renegotiation is a request to be read, an answer to be written and one to be read. `SSL_write()` reports
a write when all its bytes have left; those that have left before are `written`.

*Handshake.* An item is all that one `readDataBlocking()` asks for: a count, a list, a number, a text.
Security types, tunnels and methods are names; `RA2`, `SSH` and `ULGNAUTH` stand for those the library
does not know. A text is its length. A `tls` mark says whether an item is encrypted. An error code is
the group the application can tell apart. The reads that may ask for no bytes (a list or a text of
length 0) are the action `ReadNothing`: `recv()` with a length of 0 depends on what else has arrived.
A pixel format is the sixteen bytes that announce it and the record they become; sizes are in units
of 1024 pixels and memory in units of 1024*1024 bytes, so that an `int` overflows at 2048
(`IntRange`), which in C++ is undefined: the product may wrap or not.

*Parsers.* The first byte of a field holds its value, the others are `Rest`. A colour is a name. zlib is
the identity on a stream whose beginning the decompressor must have seen, fed in pieces: what
matters is that the stream belongs to one connection. A connection that is `astray` receives nothing more
and ends, with any message or none as the current one (`AstrayEnds`).

*Qt client.* A slot is one action. The library's events are posted one at a time; the arguments of a
signal are kept where a slot depends on them. Timers are the number of single shots that have not
fired. A framebuffer is a row of columns, each holding the number of its last drawing. The server holds
down a set of keysyms and of buttons; a key has a `Qt::Key` that may depend on Shift and may be
another key's as well. Widgets are in scaled mode. In the list of servers a save is
atomic, as `QSettings` writes its file in one go, and a crash is a start on what the file holds; a host
and a password are one of few, a pixel format is set, all zero, or absent.

## Runs

| run | shows | bounds |
|---|---|---|
| `Control` | flags, wake-ups, state, password, events and the refinement of `LibraryConnection` over connections that fail, are disconnected, aborted or destroyed at any step, with `select()` failing as well | three connections |
| `Traffic` | input events are in order, not duplicated, and never cross a connection; the flag for incremental requests never claims an update that was not received; the inductive invariant with all queues in use | two connections, two events |
| `Progress` | for any calls of the application, unless the server holds the thread in the handshake of mbedTLS (`HeldByServer`): `orv_init()` returns, a disconnect request is served or taken back by an `orv_connect()`, an attempt to connect ends; until the application connects again after `orv_disconnect()`, every `orv_connect()` gets its result and the thread sleeps owing nothing; `orv_destroy()` of a context that is idle, or becomes so meanwhile, returns | two connections, one event, `select()` does not fail |
| `Socket` | a silent peer is noticed in bounded time, no wait is in the wrong direction, a call gives up only if its last try could get no further, every call ends, and a disconnect ends it | a timeout of two units, calls of two bytes, records of three, two of them on their way |
| `Handshake` | client and server stay in step whatever they agree on; a reported success is one the server granted, with the same version, type, method, encryption and pixels; a failure is reported for its reason; every attempt to a server that answers ends | two attempts, limits of two tunnels, methods, encodings and characters |
| `Parsing` | however the bytes are cut, and until the parsers lose step in one of the ways `ServerUpdates` names: all that arrived is consumed, what is shown and told is what the server means, a connection is given up only for a malformed message, and the buffer is filled by nothing but a ZRLE rectangle without pixels | two connections that begin with messages of any type, 3x3 pixels, tiles of 2x2, a buffer of 16 bytes |
| `QtClient` | the desktop is shown only while there is a connection or its end is about to be told; updates keep coming; the menu is honest about the tester; aborting leads back to the list unless an attempt is held for ever | two accepted connects, two events posted before the user acts |
| `ServerList` | an id of a form or a connection names a listed server; removals are announced with their rows; a save leaves only wanted passwords; and if the first file kept the program's rules (`wellKept`), ids are given once, the file gives back the list and never holds an unwanted password | three servers, one host, one password, four files written by hand, two of which break the rules |
| `Desktop` | what is drawn is current once the events are handled, across connections of different sizes | two connections, four drawings, three posted events |
| `OrvWidget` | what stays pressed at the server is what the table of keys has lost in one of the named ways, and no button does; a text is typed character by character | six keyboards of two or three keys each, one button, texts of three characters, a buffer of two keysyms |
| `QuitLost` | (violation) a quit request arriving during a blocking write is swallowed; `orv_destroy()` hangs until the server speaks | one connection, one event |
| `DisconnectLost` | (violation) an `orv_connect()` takes the `orv_disconnect()` before it back: no `ORV_EVENT_DISCONNECTED` | one connection |

Two connections are enough for anything to leak from one into the next; the third of `Control`
lets a reset be followed by another connection. One password tells set from cleared; two events have an
order. Of the handshake, `MCRfb3xHandshake` holds every version the code distinguishes and, for
each list, one without, one with a single and one with two usable entries in an order that differs from
the client's; texts are empty, short or longer than allowed; the pixel formats differ in width,
order of bytes, order of colours and in having a colour map, and one has a width that RFB does not
know; the sizes have an ordinary one, one without pixels, and one (38x38) whose 4332 MB look like 236
if the product wraps around; a list of three is longer than the limits of Tight's tunnels and methods
(errors 202 and 207). Tight servers list at least one tunnel, as an empty list may
end the attempt (see below). The scripts of `MCMessageParser` have a rectangle of each encoding whose
tiles have each of the four shapes, with every kind of tile, and each way to be malformed that a parser
looks for, the index beyond a packed palette included; with tiles of 2, runs of `RunByte` = 2 need two
bytes. Scripts also begin with a text, a bell, an update without rectangles and an unknown type, so that a
connection that ended inside of a message is followed by one of another; a text may be too long, and ZRLE
rectangles without pixels have no data or more than fits the buffer. Only packed tiles come out of zlib in one
piece (`PackedTogether`): the code is wrong about the others (below).

The focus may change, and the connection end, at any time; keys are pressed and released where the widget
does not see it as well. The entries of `Keys` are real ones: a key with a name of its own, one without any
(`Es`), Shift's effect on digits (`1` and `!`) and on Tab (`Tab` and `Backtab`), the key that the keypad
shares (`Home`), two characters of one hash bucket, a character with two names, characters outside Latin 1.
The six keyboards let each of these meet Shift or the command key; keyboards of four keys (2.3 million
states) were checked outside of the run and hold as well.
Keys repeat on the platforms that send a release for each repetition (`AutoRepeat`), which leaves out the Mac.

`CHECK_DEADLOCK FALSE` stands in `Desktop.cfg` and `Parsing.cfg`: after the last connection nothing is
left to do. Type invariants of modules that no run lists (`MessageParser`, `QtClient`,
`Rfb3xHandshake`, `SocketIo`) are for the reader; `SocketInv` implies what the proofs need of the last.

### Fairness

`VncClient!FairSpec` assumes of the thread that it keeps running and is not starved of the mutex
(`SF_vars(Thread)`), that a blocking operation of the socket ends because its bytes are finite and the socket
has a timeout (`SF_vars(IoEnds)`; that it does is `CallReturns` of the run `Socket`), that processing
what was received ends (`DataEnds`), that the constructor proceeds and gets the mutex
back, that a framebuffer is released again, and that `join()` returns once the thread has ended.
Nothing is assumed of the server: `SelectSocket` and `SelectError` are not fair, so a silent server
is among the behaviours. Nor is the end of the loop around `mbedtls_ssl_handshake()` fair
(`TlsHandshakeEnds`; `securitytypehandler.cpp:529-543`): it waits without a timeout and looks for no
interruption, so that a silent server of VeNCrypt, the first preference of the client where mbedTLS is
compiled in (`MbedTls`), holds the thread for ever. `HeldByServer` says so, and `DisconnectServed`,
`AttemptsEnd` and `ConnectAnswered` except it; nothing else delays them for ever.

`SocketIo!FairSpec` assumes that the thread runs (`WF`) and that time passes (`SF_vars(Tick)`) although
wake-ups keep interrupting the wait. Nothing is assumed of the server.

`Rfb3xHandshake!FairSpec` assumes that the thread runs (`Handle`), that the server answers and
what it sends arrives (`ServerNext`), and that a call that can get no more data fails
(`ConnectionLost`): at once if the server has closed the connection, by the timeout of the socket if
the network is down. `ConnectionLost` is not enabled while a server is there, so that `AttemptEnds`
does not hold because of a timeout that hides a deadlock.

`QtClient!FairSpec` assumes that the event loop runs, that a result or the end of a connection is told once
the thread has come to it (`ResultPosted`, `DisconnectedPosted`, `ConnectionCloses`), that a disconnect
request is served once there is no attempt under way (`DisconnectServed` of the run `Progress`, which is for
any calls of the application, so also for a client that connects again on the same context), and that
the user keeps pressing "Abort" or "Disconnect" (`SF_vars(abortConnect)`), without which nobody
promises that the page changes. An attempt need not end: `AbortLeadsBack` excepts one that is held for ever.

## What the code does that its documents do not say

Two runs expect a violation: they check what a comment says, and find the code to do something else.

| run | comment | what happens |
|---|---|---|
| `QuitLost` | `orvvncclient.cpp:1636` | a wait inside of a blocking write swallows the wake-up of a quit request |
| `DisconnectLost` | `libopenrv.cpp:608` | `connectToHost()` clears a disconnect request that still waits (`orvvncclient.cpp:341-342`), and no event tells of its end |

Other behaviours met while modelling, each of them visible in a module or excluded there by a named constant:

* Input queued during a blocking write waits until the server speaks (the same swallowed pipe). A
  connect accepted just before a pending disconnect is handled gets no result: `ConnectAnswered` and
  `NothingOwedAsleep` speak of applications that have not connected again (`disconnects`).
* A VeNCrypt server that falls silent in the TLS handshake of mbedTLS holds the thread, and `orv_destroy()`
  with it (above).
* Over TLS, `SSL_write()` without `SSL_MODE_ENABLE_PARTIAL_WRITE` reports nothing before all bytes have left
  (`opensslcontext.cpp:270`): a write whose bytes move may time out, although `socket.cpp:256` says that the
  timeout is reset whenever at least one byte is sent (`written`).
* The parsers lose step, or read wrongly, in four cases; `ServerUpdates` and `PackedTogether` name them.
  `closeSocket()` leaves `mCurrentMessageParser` as it is, and the next connection's first message goes to it
  (`orvvncclient.cpp:1472`), although `messageparser.cpp:231` speaks of preparing it. `readRectData()` returns
  0 for a ZRLE rectangle without pixels (`rectdataparser.cpp:1490`), so that its data stays in the buffer, is given
  to zlib again with every call, and either is read as the next message or fills the buffer. A text that is too
  long is finished when its output is full, not when it was received (`messageparser.cpp:545`, against the comment
  ten lines before). A packed tile that zlib delivers in parts is collected, but decoded from the last part
  (`rectdataparser.cpp:1730`, against the comment at 1718).
* From the second connection on, full update requests stay non-incremental, as the counter that sets
  the flag is not reset.
* VeNCrypt never succeeds: a result of 0 of `mbedtls_ssl_handshake()` is treated as a failure
  (`securitytypehandler.cpp:532`), and `closeSocket()` deletes the context it has just made.
* An empty list of tunnels or types, an empty reason or an empty name may end the attempt, by chance,
  since a `recv()` of no bytes cannot be told from a closed connection (`EmptyTight`). A server that
  sends a message right after ServerInit makes the attempt fail or not, by chance.
* `checkFramebufferSize()` may take a framebuffer of 38912x38912 pixels for one of 236 MB.
* An empty Raw rectangle is an internal error, and ZRLE data ending after the type of a tile leaves pixels
  unwritten. The index of a tile has 16 bits: a rectangle of 65536 tiles, such as 4096x4096 pixels in Hextile, never ends
  (`TileIndices`, which the bounds of `Parsing` do not reach). The source of a CopyRect is not compared
  with the framebuffer.
* The main loop waits for the socket although the TLS library may still hold decrypted bytes.
* A custom pixel format is lost on every second save of the list of servers. An id in the file at or above
  `NextServerId` is given a second time by `addNewServer()`, and one of the two servers is gone at the next
  start; a password of an entry that is dropped when the list is loaded stays in the file until the next save
  (`KeepsTheRules` says which files are free of both). Two instances of the client overwrite each other's list.
* The slot that would fill a texture created late is never connected (`orvwidget.cpp:392`); the copy for
  debug bit planes is sized by the square of the width and ignores `x` (`framebufferwidget.cpp:162`, `171`).
* The table of pressed keys is indexed by `Qt::Key` (`orvwidget.cpp:197`, `216`). Shift and Tab pressed,
  Shift released before Tab, leave `ISO_Left_Tab` pressed at the server, and digits and punctuation do
  the like; Home and the keypad's Home have one entry, and one of them may stay pressed. There is no
  `focusOutEvent()`, so a key that is released after the focus has left stays pressed until it is used
  again; on a Mac the releases that Qt does not tell of while the command key is held may lose any key.
  `NothingStuck` counts these as `forgotten` and `unseen` and says which keys are free of it. Android
  applications release the keysym the modifiers make at the release.
* A "disconnected" event of an earlier connection, handled late, shows its message to the user of the next
  one (`handleDisconnectEvent`).

## Proofs

The theorems hold for every value of the constants that satisfies the modules' assumptions
(`BoundsAssumption`, `PasswordAssumption`, `ApplicationAssumption`; `TlsAssumption`, `SocketAssumption`;
`ServerAssumption`, `ClientAssumption`; `BufferAssumption`; `ServerListAssumption`, `EditedFilesAssumption`;
`OrvWidgetAssumption`; `QtClientProofs` and `FramebufferWidgetProofs` need none). They give the constants
their types and minimal sizes. `EditedFilesAssumption` says no more of a file that was written by hand than that
it is a settings file; what holds only of a file that kept the program's rules says so (`wellKept`).
`ServerAssumption` leaves empty lists of tunnels and methods to `EmptyTight`.

`VncClientProofs`:

* `SafetyInvariant`: `Spec => []SafetyInv`, and from it `TypeCorrect`, `FlagsConsistent`,
  `DisconnectNeverSleptOn`, `ConnectNeverSleptOn`, `InternalErrorUnreachable`, `StateTellsTheStage`;
* `EventsImplemented`: the client implements `ConnectionEvents`.

None of the properties is inductive. That the thread never sleeps on a disconnect request depends
on where a wake-up may have been swallowed (`WakeInv`); that, on the position of the thread in each
stage (`PositionInv`) and on the shared state following the stage (`StateInv`); the events, on what
the application was told in each position (`ViewInv`) and on a result being owed for every
attempt under way (`OwedInv`); types, on the list of messages not being empty while one is
written (`QueueInv`). `SafetyInv` is the conjunction of these parts; the run `Traffic` checks it. The
proof has three step lemmas, one per group of parts, each with one step per action.

`VncClientProofs` also proves `ConnectionImplemented`: the client implements `LibraryConnection`. Under
`SafetyInv` each action maps to the abstract step with its name, or to a stutter; the mapping of `at`
tells which step the thread has committed itself to by the change of `mState`. It also proves
`SleepsWithNothingOwed`, for an application that has not connected again after `orv_disconnect()` and a
`select()` that does not fail, from `ContractInv`: the thread that has given up a connection but not yet
told so (`Abandoned`) owes that result (`Account`), and no connect can have been accepted meanwhile.

Last, it proves `InputsKeepTheirLine`, `PasswordNotKept` and `ResponseOfThisConnection` from an
invariant of its own above `SafetyInv`: what was written and what is queued form one line of numbers
without a gap, of one connection, whatever was dropped in between; the password of the thread is
set only in the stages before the initialisation; the counter of updates follows the flag.

`SocketIoProofs` proves, for every timeout and every size, `SilencePerceived`, `NeverSleepsOnProgress`
and `AnswersWin` from `SocketInv`: which timeout a wait was given and how much of it has
passed (`ClockInv`), and that a wait goes in the direction that the renegotiation, or else the call
itself, needs (`WaitInv`). `AnswersWin` is about the last try of a call that gives up: a read found no byte, over
TLS no whole record; a write got rid of no byte, or over TLS not of all that is left of it. It does not say
that no byte has left since the timeout began, which over TLS is false. `IdleBounded` shows what the shadowed variable at `socket.cpp:332` costs:
each wait starts with a full timeout, so that a read or a write may take two.

`Rfb3xHandshakeProofs` proves `InStep` and `Granted` for any servers, texts and numbers of attempts, an
empty list included, from `HandshakeInv`. `InStep` is far from inductive: what the client reads next
depends on what the server said before it learned of the client's choice, and several of either side's
words may be under way at once. `StreamInv` takes what is in the socket, what is in the network and what the
server waits for then as one stream: each item is followed by one that may follow it (`Chained`), says
what the server has decided (`Proper`), and the first fits the place where the client is and what the
client has sent (`Fits`). `ChoicesInv` says what the two agree on by then, `FormatInv` which format the server
uses. There is a lemma for every read, every write and every step of the server; `ReadKeeps`, `Appended`
and `ServerSpeaks` say how each kind of step passes over the stream. `Granted` is `Agreement`, but for what a
format is good for: that the server's format is the client's rests on `FormatTravels`, by which
`readPixelFormat()` reads every format of the structure back from the bytes of `writePixelFormat()`, and on
`ChosenAreFormats`, by which what `makePixelFormat()` chooses is one, whatever sixteen bytes the server has sent. That a
format tells the colours of its pixels apart is arithmetic on its bits (`FormatsDecode`), the hypothesis of
`WhatIsReportedIsAgreed`; TLC evaluates it for the formats of the instance (`FormatAssumption`).

The same module proves `FailureExplained` where no list is empty (`~EmptyTight`; otherwise it is false, as a
`recv()` of no bytes cannot be told from a closed connection). `CausesInv` adds to `HandshakeInv` that
only a server that has turned the client away closes the connection (`Closing`), that a client that
finds nothing in common, or a list beyond a limit, leaves the server waiting (`NothingInCommon`), and that what will make the attempt
fail was noted when it was read (`Causes`). TLC checked both on the instance of
`Handshake`: `HandshakeInv` with empty lists as well, `FailureInv` without.

`MessageParserProofs` proves `BufferHasRoom` for any sequences of bytes in place of what the scripts become
(`IsSequence`), cut anywhere, any sizes of the framebuffer and any size of the buffer that holds the longest
single field (`BufferAssumption`: 12 bytes, or a pixel and a subrectangle). As long as the parsers have not lost
step, the error "Receive buffer full" of `handleConnectedSocketData()` (`orvvncclient.cpp:1405`) is left to one
case, the ZRLE rectangle without pixels (`EmptyZrle`), which does reach it (`NoRoom` of `ServerUpdates`). The property
says little by itself; it holds because no other
parser ever waits for more than one field, and that is so only in the states the parsers leave
behind. `ParserInv` says which these are: a rectangle is being read only inside of an update that has
rectangles left, and of no message more was read than it has (`MessageInv`); outside of a rectangle nothing is
collected, and inside of one the parser's members are those its encoding fills (`RectInv`, `ZlibInv`,
`PictureInv`); a thread that waits has less than a field, with the exception named (`RoomInv`). When a parser
waits is written as a condition of its own
(`RectDataReady` and the conditions it is made of), as the provers know nothing of ENABLED.
There is a lemma for every parser's step.

The same module proves `OwnBytesOnly`: no parser of rectangles takes bytes of what follows its own part. On top of
`ParserInv`, which says that what is counted is a sequence, `OwnInv` adds that the number of subrectangles
a parser counts to is a number (`SubrectsInv`); it has a part for each place bytes are collected in (`DataOwn`,
`TileOwn`, `StreamOwn`). For a Hextile tile the order of the reads matters: how many bytes belong to the tile
depends on its mask and its number of subrectangles, so none may be collected before these are read. No run
lists `OwnBytesOnly`; TLC checked it on the instance of `Parsing`, and finds it violated when `Collected` takes
all that has arrived. Not covered are the bytes a ZRLE tile collects, whose number depends on a palette size the invariant does not
type, nor CopyRect, a single field. `TilesCoverTheRectangle` is about the arithmetic Hextile and ZRLE
share: the tiles of any rectangle partition it, and a pixel's place is inside its tile's buffer.

`QtClientProofs` proves `DesktopShownWhileUp`, `UpdateChainUnbroken` and `MenuTellsTester` for any number
of connections and of events that wait, from `QtInv`. What a page shows depends on the order of the
events before it: each successful result that waits is followed by the end of its connection unless that
connection still exists (`ResultsInv`); the last news of the tester that waits is its present state
(`LastTold`, `MenuInv`); the chain of requests breaks only with the connection (`ChainInv`). Lemmas say
how each of these passes over the first event of the queue and over a posted one.

`ServerListProofs` proves the four properties of the list for any number of servers and any files written by
hand, from `FileInv`. `ListInv` holds on every file: the types, the room there is in the file (`RoomInFile`), and
that a form or connection has a listed server (`Resolved`). `RulesInv` holds where the first file kept the rules:
ids once, the file gives back the list, wanted passwords only. That every save leaves wanted passwords only, and
that removals are announced, needs no rules. The load
is a loop over the groups of the file (`LoadedOf`); `SetInduction`, which is induction over the natural
numbers for a set instead of a predicate, carries a lemma through it (`LoadedLoop`), and `ReadBack` says
that the loop, over what `saveServerListToFile()` wrote, returns the list. Under the rules there are fewer servers
than the next id (`FewerThanNext`), as their ids are different and below it.

`FramebufferWidgetProofs` proves `PictureIsCurrent` for any widths, connections and drawings. What the
texture will show depends on the events on their way (`OnTheWay`): either the result of the newest
connection was handled and all of them are about its framebuffer, or that result is among them, behind all
that is left of earlier connections (`ResultInv`).

`OrvWidgetProofs` proves `NothingStaysStuck` for every keyboard made of the modelled keys, on the platforms
with Qt, from `KeyInv`: what is pressed at the server, but for what is `forgotten` or `unseen`, is in
`mSentKeysmsForKeyPress` (`HeldByTable`) under the name of the last press of a key that is held, or on a
Mac for any name while the command key is (`Pressing`); an entry is a keysym of a key that goes by that name
(`TableOK`); and off the Mac no keysym of a key that has a `Qt::Key` of its own is ever forgotten
(`KeepsOwnNames`). It needs that a keysym tells the name of its key (`KeysymTellsName`, `OwnNameIsTold`), and that
the order in which the command key releases the table does not matter (`AllReleased`).

Only model-checked, and why:

* `FormatsDecode`, for formats other than those of the instance: the bits two numbers share are computed bit by bit;
* the parsers' `NothingLeftUnparsed` and `ShownAsMeant`: what a script of messages means, and how many bytes
  it is, are folds over it, so that both need induction over data;
* `TextTyped`: the decoder of UTF-8 against an encoder that only a run defines (`Encode`);
* every liveness property, which is out of the prover's reach.

## Not modelled

* The `Bell` message and the read-only calls in `VncClient` (`orv_is_connected()`,
  `orv_get_connection_info()`): they change nothing the other side reads.
* `OrvVncClient::sendSetPixelFormat()` and `mWantSendRequestFormat`: nothing in the library or its
  API sets it. `ConnectionThread::sendClientCutText()` has no caller either. `mSharedAccess`: copied
  to the thread before the constructor returns and not read again.
* The capacity of the pipe, and calls of the API by a thread that holds the framebuffer: the code
  deadlocks there; the model assumes the contract.
* The event queue for polling: a list under a mutex, each operation one critical section.
* Cryptography, certificates, mbedTLS beyond its handshake, which may be held or fail, logging, the wording
  of errors.
* What the parsers make of the bytes of a connection once they have lost step.
* Painting, scrolling, shaders, dialogs that only show data; the command line, Android and iOS clients.
* The thousands of entries of the key tables, beyond those that stand for their kinds.

## Plan

Done: the modules above. Worth doing next: the pipe with its capacity; an application that holds
the framebuffer and calls the API, as a lock contract; a condition on the
formats of an application from which `FormatsDecode` follows; larger tiles and framebuffers in `Parsing`, with the index of
a tile at its limit.
