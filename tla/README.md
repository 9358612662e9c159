# Verification of Stm32NetXTelnet

TLA+ modules, TLC configurations and TLAPS proofs for Stm32NetXTelnet: the NetX
Duo TELNET server and client (`src/src/netxduo/addons/telnet/`), the C++ wrapper
with its sessions (`src/src/Server.cpp`) and the command line on a connection
(`src/src/LogicalConnectionMicrorl.cpp`), on NetX Duo's TCP sockets under
ThreadX. Paths below are relative to the repository; `server.c`, `server.h` and
`client.c` stand for `src/src/netxduo/addons/telnet/nxd_telnet_server.c`,
`..._server.h` and `nxd_telnet_client.c`, `NX/` for
`src/examples/nucleo-f429zi/Middlewares/ST/netxduo/common/src/`.

## 1. The system

| component | state | operations | interacts with |
|---|---|---|---|
| TELNET server, connections (`server.c`) | per slot a socket and an activity timeout; the open-connection counter; event flags; a timer; one thread | start, stop, disconnect; the thread's connect, data, disconnect and timeout processing; the socket callbacks; the timer | NetX sockets by calls; the IP thread by event flags; the application by `new_connection`, `receive_data`, `connection_end` |
| TELNET server, create and delete | the kernel objects and sockets of the server | create (undoing its steps on failure), delete | ThreadX objects, packet pool, sockets, the server thread it terminates |
| TELNET server, options (`server.c` 1880-2030, 2400-2630) | per slot what the client agreed to | create and send option requests, process the answers | data processing, connect processing, packet pool |
| NetX Duo TCP (`NX/`) | the sockets' states, peers and queues; the listen request with its queue of SYNs; suspended threads | listen, relisten, accept, unaccept, unlisten, connect, disconnect, send, receive; segment and timer processing | called by server and client, calls back into the server |
| Server wrapper (`Server.cpp`) | list of sessions | start, stop, del, disconnect, loop, bufferSend; the three callbacks | TELNET server, session manager, packet pool |
| Command line connection (`LogicalConnectionMicrorl.cpp`) | receive and transmit buffer, position in a TELNET command, running command | setup, loop, end, execute a line | worker thread, microrl |
| TELNET client (`client.c`) | one socket | create, connect, disconnect, send, receive, delete | NetX sockets |
| ThreadX | threads, event flags | resume, suspend, terminate, flags get and set | all of it |
| Example application | the main thread, priority 15 | create and start the server, run its loop | wrapper |
| Echo connection, logging, configuration, HAL, board support, other protocols | - | - | - |

Three threads meet in the server. The **IP thread** has the highest priority; it
processes segments and TCP timers under the IP mutex and calls the server's
socket callbacks, which only set event flags. The **server thread** (priority 16)
waits for the flags and processes CONNECT, DATA, DISCONNECT and
ACTIVITY_TIMEOUT, in that order; it waits up to 10 seconds inside `accept` and
`disconnect`, and makes the callbacks to the wrapper. The **application**
(priority 15) calls create, start, stop, disconnect and delete, which work on the
same sockets, timeouts and counter, and runs `Server::loop`, which sends the
output of the same sessions. None of this is locked: only the inside of each NetX
call is.

What is hard here, and what must hold:

* the socket state is read, the thread goes on, and a segment or a call has
  changed it by then; every path must still leave the slot listened on, in use,
  or about to be found by a later event;
* relistens fail by design on most paths; one that is left out leaves the port
  without a socket and queued clients unanswered;
* one pointer per socket remembers a thread suspended in `disconnect`, while two
  threads may call it;
* the slot is listened on again before `connection_end` is called;
* a connection ends on four paths (FIN, RST, timeout, call); the application
  must see one `new_connection` and one `connection_end` for it, and the counter
  must follow;
* stop and delete race the server thread at any of its steps, start races a stop
  the thread has not finished;
* `loop` holds a session, its buffer and its length across a send that waits for
  packets and for the client's window, while connections end and begin;
* packets of a small pool must come back on every path of a send;
* options are taken out of the input twice, by packet in the server and by byte
  in the session; data must pass both whole;
* the client's threads wait in connect, disconnect, receive and send on one
  socket, and none may be forgotten when the connection goes.

`PROJECT.json` lists these hazards with their lines and properties.

## 2. The modules

**`TcpServerSockets`** - the NetX sockets as the server uses them. The variables
are fields of `NX_TCP_SOCKET` (state, peer, bound, client type, receive count),
the listen request, and the threads suspended in accept and disconnect. Each
operator is one critical section of the IP mutex: `Listen`, `Relisten`,
`Unlisten`, `AcceptSuspends`, `Unaccept`, `Disconnect`, `Receive`, and the halves
of accept and disconnect that run after the thread wakes (`AcceptGivenUp`,
`DisconnectResumed`). `Network` is the IP thread: a SYN, a RST of a queued SYN,
the handshake, data, FIN and ACK, RST and the timers. A module rather than a
component run of its own: its calls mean something only with a caller.

**`TelnetServer`** extends it with the server thread, the timer and the
application. `pc` and `slot` are the thread's place and loop variable, `pending`
the fetched events. A step ends wherever another thread can get between: at
every NetX call, at every read or write of shared data, at every callback. The
shared counter is loaded and stored in two steps (`register`), because the code
does not lock it. `session` is what the application knows: slots with a
`new_connection` and no `connection_end`.

`Init` is a server that was never created. `objects` and `sockets` are what
exists of it: `CreateFails` leaves after any of create's steps what its undoing
leaves, `CreateSucceeds` makes everything. `DeleteBegin` terminates the thread
wherever it is (`TerminateThread`: a wait inside NetX is cleaned up as if it had
timed out) and deletes the kernel objects; `DeleteDisconnect`, `DeleteUnaccept`,
`DeleteSocket` and `DeleteUnlisten` are the loop over the sockets and what
follows it, between which segments go on arriving.

*Scheduling.* `ThreadRuns` states the priorities: the server thread moves only
while no call of the application is in progress or the call is suspended in
`disconnect`; a call can begin between any two steps of the server thread. The
network may step at any time. The application is *any* caller of the public
functions, at the example's priority; the example itself only starts the server.
A call of `Server::disconnect` names a connection the application was told of.

**`ConnectionLedger`** is the abstract specification: connections are opened and
closed one at a time, the counter first and the callback second. Two modules
implement it. `TelnetServer!LedgerImplemented` maps the server to it (`open` to
`session`, `count` to `openConnections`, `change` to the step between counter
and callback); `TelnetSessions` extends it, so that the sessions are checked
over exactly the callbacks the server is shown to make.

**`TelnetSessions`** - `Server.cpp` over the ledger. In the server thread: the
three callbacks (`NewConnectionCallback`, with the half of `setup()` that runs
after its sleep in `SetupWakes`; `ReceiveData`; `ConnectionEndCallback`). In the
main thread: `Server::loop` (`LoopBegins`, `LoopVisits`, `LoopEnds`) and
`bufferSend` with `nx_telnet_server_packet_send`, whose step ends at every wait:
for a packet (`Allocate`, `AppendData`, `PacketWaitTimesOut`), for the window or
for a further packet in `nx_tcp_socket_send` (`SendWhole`, `SendPart`,
`SendSegment`, `WindowOpens`, `SendFails`). Outputs are pairs of the client they
were written for and a number; the packets of the pool are counted: free, held
by bufferSend, kept by NetX until acknowledged. The server thread moves only
while the main thread waits (`ServerRuns`); `PeerLost` and `Acknowledged` are
the IP thread's and come at any time.

**`TelnetOptions`** - the data loop over the receive queue of one connection and
`process_option`, over packets that are sequences of bytes. The parser is given
in closed form: `Options` is the set of offsets at which the C loop finds an
option, `Offset` the place it stops.

**`CommandLine`** extends it with `Server::receive_data`, the byte machine of
`LogicalConnectionMicrorl::loop` (`ByteRead`: `iac` and `iacCmd` are the code's)
and the commands that `microrlExec` gives to the worker. The reference the pair
is checked against is `DataFrom`: the data of a segment by RFC 854.

**`TelnetClient`** - the client on the client side of TCP. One controlling
thread (`pc`) creates, connects, disconnects and deletes; any number of others
receive and send. A call is several NetX calls, so it is several steps: connect
is `ConnectBegins` (the look at the state), `Bind`, `Connect` and `Unbind`;
disconnect is `DisconnectBegins`, `Disconnect`, `DisconnectResumed` after its
wait, and `Unbind`; delete is `DeleteBegins` and `DeleteSocket`. `Segment` and
the timers are the IP thread's. Segments arrive in any order: the receive queue is
`rxReady` packets that may be taken, then `rxLate` that wait for a gap to be filled
(`LateArrives`). `DataArrives` fills a gap, which makes any number of them READY, hands
them to the threads that wait (`Deliver`), and keeps the limit of late packets as the
code does. `Receive` looks at the head of the queue before it looks at the state.

`MCTelnetServer`, `MCTelnetSessions` and `MCCommandLine` are the TLC instances;
`TelnetClient` needs none. The modules named `...Proofs` hold the proofs about the
module they name; `TelnetServer` has four: `TelnetServerProofs` (types, the listen
request, delete), `TelnetServerCallsProofs` (what the calls leave behind),
`TelnetServerLedgerProofs` (what the application knows) and
`TelnetServerQueueProofs` (the listen queue), each of which extends the one before.
The ledger's own theorem is at the head of `TelnetSessionsProofs`. `PROJECT.json`
maps each definition to its lines.

## 3. What is checked

Every run checks for deadlock but `app_calls`, `input`, `late_options` and those of the
client. There the system may really stop: an application that
deleted the server need not create it again (and cannot, after a create that
failed with its thread made), a client that sent its bound of packets sends no
more, and a client block whose socket NetX kept is not created again.

| run | instance | what it shows |
|---|---|---|
| `serve` | 2 sockets, 2 peers, 1 packet, 2 periods, option requests may fail | types, `ListenerSound`, `OneSocketPerPeer`; `SessionsMatchTimers`: when the thread waits for events, the activity timer of a slot runs exactly if the application holds the connection open; `SessionNotReused`: a slot serves no other client before `connection_end`; `LedgerImplemented` |
| `silent_peers` | 2 sockets, 2 peers, no data, fair | a silent connection ends, a queued client leaves the queue, the port gets a socket again |
| `app_calls` | 2 sockets, 2 peers, create that may fail, one call of disconnect, stop or delete at any time, start and create whenever they can | no lost waiting thread (`NoLostWaiter`), no unannounced established connection (`EstablishedIsServed`), no free socket while a client is queued (`QueueOnlyWhenBusy`); stop closes the port and, once the thread is suspended, every socket is closed and released (`StoppedQuiet`, `StopClosesPort`); delete leaves no socket and no port (`DeletedQuiet`) and NetX knows none of the deleted sockets, also while delete runs (`DeletedUnused`) |
| `calls_return` | 1 socket, 2 peers, two calls of stop, disconnect or delete, fair | every call returns; the server thread gets back to its events; `NoLostWaiter`, `EstablishedIsServed` where one call meets what the other left |
| `sessions` | 2 connections, 2 sessions, 4 packets, 2 clients of 1 line, fair | `Balanced`: the counter of the ledger is right; `SessionsFollow`: each session belongs to the client that is there now, and no connection goes without while there are enough; `PacketsKept`: packets are lost only by a send that fails; `WaitKeepsClient`: while the loop waits for the window of a connection nobody else takes it over; `LoopReturns` |
| `input` | 3 packets of 9 kinds, 7 bytes of buffer, 2 command contexts, fair | `TypedIsSent`: two machines that take TELNET commands out leave the client's data, in order and whole if no buffer ran full; `EchoIsAgreed`: the server echoes only for a client that agreed to both options; `LeftBehindADrop`: packets wait only behind a dropped one; `InputIsRead`: a command that ends gives the connection back |
| `client` | 2 further threads, 5 packets, 3 of them late, fair | `OpenIsBound`: nothing takes the socket from under a connection; `SendersServed`: no thread waits to send where the window cannot open; `NoDataWaits`: none waits to receive beside a packet it could take; `ReceiversReleased`: every end of a connection, by whomever, lets its receivers go; `WaitersLetGo`: so does a disconnect in the end; `DisconnectFrees`: after disconnect the client can connect again; `CallsReturn` |
| `lost_start`, `stale_send`, `late_options`, `client_receive`, `client_delete` | the smallest that shows it | what comments of the source say and the code does not do: section 5 |

*Bounds of the server.* Two sockets are the fewest with loops that go on after a
slot, a relisten that lands on another slot, and a listening socket beside a
connected one; with one socket and two peers the listen queue is full at one
entry and its overflow is reached. Two peers let one be served while the other is
queued, sends again, or takes the freed slot. `MaxRx` is 1 where data matters
(data changes the server only through "is there a packet" and the timeout) and 0
under fairness, where a peer that may send for ever would keep its connection.
`ActivityPeriods` stands for 600/60 = 10: only 0, 1 and "more" are told apart,
so `serve` takes 2 and the others 1. `MaxAppCalls` bounds the calls. With two
sockets it is one, between starts and creates, which are not bounded; a second one
multiplies the states by more than five. Calls that meet what another left are in
`calls_return`, two of any kind with one socket; what `app_calls` checks is proved for
any number of calls and sockets.

*Bounds of the sessions.* With two connections one is set up, ended or taken over
while the loop sends on the other. Two clients may come on two connections at
once or one after the other on the same. Four packets: a send of two outputs
takes two, and what the other connection's client has not acknowledged takes the
rest, so every wait for a packet is reached. One line gives a client three
outputs. `stale_send` needs only one packet, and three clients.

*Bounds of the input.* The nine packets hold each kind the parsers tell apart:
plain data, two lines in one chunk, a lone IAC, an escaped IAC at the start and
inside, a one-byte command inside, one option, two options followed by a line, a
refusal followed by an agreement and data. All orders of three packets reach each
step of the negotiation, a drop with packets behind it, and a full buffer of
seven bytes. An option in the middle of data is kept for `late_options`, because
it breaks `TypedIsSent` by itself; an option split over two packets is in
neither: the server parser works packet by packet.

*Bounds of the client.* Two users, so that one waits to receive while another
waits to send, and packets that become READY together go to one of two or to both.
`MaxLate` stands for `NX_TCP_MAX_OUT_OF_ORDER_PACKETS`, 8 in `nx_user.h`: 3 is the least
with which the limit can meet a queue without a gap, and five packets are what that
takes.

`MaxClients`, `MaxRx`, `ActivityPeriods`, `MaxAppCalls` (server), `MaxClients`,
`MaxLines` (sessions), `MaxSegments` (input) and `MaxRx` (client) are bounds of the models; the
proofs hold for any values. Names that two modules share, like `MaxClients`, are
two constants.

*Fairness.* `TelnetServer!FairSpec`: weak fairness of the server thread, of the
timer, of a call that has begun, and of the TCP timers per slot: ThreadX runs a
ready thread once those above it sleep, and its timers expire.
`TelnetSessions!FairSessionsSpec`: of the steps of the main thread inside a loop,
which include the time-outs of its waits (100 ticks each); no client has to read or
acknowledge. `CommandLine!FairSpec`: of the server thread, of the loop, and of
commands that end. `TelnetClient!FairSpec`: of the controlling thread and of the
time-outs of its own waits, which this model takes to be finite. Nothing is
assumed of the peers (all segments may be lost) nor of the application starting
a call.

*Mutants.* Each property is known to fail for a mutated definition, written
beside the original as "As a bug: ..."; no specification uses them.

## 4. What is proved

For every value of the constants: any number of sockets, peers, connections,
sessions and threads.

| theorem | says |
|---|---|
| `TypeCorrect`, `ListenRequestSound`, `PeersServedOnce`, `DeletedSocketsUnused` | `TelnetServer!Spec` keeps `TypeOK`, `ListenerSound`, `OneSocketPerPeer`, `DeletedUnused` |
| `WaitersNotLost`, `StopClosesThePort` | `TelnetServer!Spec` satisfies `NoLostWaiter`, `StopClosesPort` |
| `StopLeavesQuiet`, `DeleteLeavesQuiet`, `ClientsAreServed` | `TelnetServer!Spec` keeps `StoppedQuiet`, `DeletedQuiet`, `EstablishedIsServed` |
| `QueuedOnlyWhenBusy` | if option requests can be sent, `TelnetServer!Spec` keeps `QueueOnlyWhenBusy` |
| `SessionsHaveTimers`, `SessionsAreNotReused` | without calls besides create and start, `TelnetServer!Spec` keeps `SessionsMatchTimers` and satisfies `SessionNotReused` |
| `ServerImplementsLedger` | without such calls, `TelnetServer!Spec` implements `ConnectionLedger!Spec` |
| `LedgerBalanced` | `ConnectionLedger!Spec` keeps `Balanced` |
| `SessionsImplementLedger` | `TelnetSessions!SessionsSpec` implements `ConnectionLedger!Spec`, and so keeps `Balanced` |
| `SessionsTypeCorrect`, `SessionsFollowConnections` | `SessionsSpec` keeps `TypeOK`, `SessionsFollow` |
| `SendWaitKeepsClient`, `PacketsAreKept` | `SessionsSpec` satisfies `WaitKeepsClient`, `PacketsKept` |
| `CommandLineTypes`, `EchoWasAgreed`, `DropsLeaveTheQueue` | `CommandLine!Spec` keeps `TypeOK`, `EchoIsAgreed`, `LeftBehindADrop` |
| `ClientTypeCorrect`, `ClientOpenIsBound`, `ClientSendersServed` | `TelnetClient!Spec` keeps `TypeOK`, `OpenIsBound`, `SendersServed` |
| `ClientDataIsTaken`, `ClientReceiversReleased` | `TelnetClient!Spec` keeps `NoDataWaits`, satisfies `ReceiversReleased` |

The assumptions are those of the constants (`ConstantsOK`, `ServerConstantsOK`,
`LedgerConstantsOK`, `SessionConstantsOK`, `UsersOK`, `QueueSizesOK`, `SegmentsOK`,
`CommandLineConstantsOK`): sizes are numbers, there are finitely many users, the null value is not a peer, a slot,
a connection or a session, packets are not empty. TLC evaluates them in each run.
Three theorems have one hypothesis more, `AppCalls = {}`: the application is the
example, which creates and starts the server and then leaves it alone. With calls of
stop or disconnect their statements are false, because the code updates the counter
unlocked and stop closes connections without telling the application (section 5).
Create, start, peers and every scheduling of the threads are as free as elsewhere,
and the run `serve`, which checks the same three, has the same `AppCalls`.
`QueuedOnlyWhenBusy` allows every call, and has the hypothesis
`OptionsMayFail = FALSE`: a connected client's option requests find a packet. Without
it the statement is false, because `connect_process` returns at the first client whose
requests fail (1481) and does not come to its relisten; its run `app_calls` has
the same value.

*The server.* The invariant is `Control /\ NetInv /\ Existing`. `NetInv` joins
`NetTypeOK`, `ListenerSound` and `OneSocketPerPeer`, because neither of the last
two is inductive alone: a SYN that takes the listening socket is on no other
place only because no SYN is queued while a socket listens, which is part of
`ListenerSound`; and the head of the queue may be bound by a relisten only
because `OneSocketPerPeer` keeps the queue apart from the bound sockets.
`TcpServerSocketsProofs` shows each operator preserves it, given a socket that
exists. Most steps only release peers and keep the listening socket
(`QuietStep`); `Relisten`, `SynArrives` and `QueuedSynReset` are argued over the
positions of the queue. What is left for `TelnetServerProofs` is that the server
passes sockets it has: `Control` adds to the types of the threads that a loop
variable is below `MaxClients` wherever it is used (`InRange`). The control of
the threads depends on the sockets in one place only, the fetched event flags.
`Existing` strengthens `DeletedUnused`: a server thread or a call of start, stop
or disconnect implies that the server is ready, delete that it is not, and a
ready server has all its sockets, so that nothing uses a deleted one.

*The calls.* `TelnetServerCallsProofs` adds to it who waits inside NetX. A socket is in
SYN_RECEIVED only while the server thread waits in accept on it (`AcceptWaits`); a
thread is remembered by a socket only while the close it began is under way, and
only inside its own call (`DisconnectWaits`). The second part needs the first: a
handshake that completed on a socket somebody disconnects would make it possible to
suspend there again. With both, a disconnect that suspends always finds the pointer
free, which is `NoLostWaiter`. For stop and delete, `Walk` says that the sockets their
loop has passed stay quiet (closed, unbound, not named by the listen request) while
the network goes on. That a closed socket stays closed needs `ClosedIsClient`: it is of
the client's kind, which NetX's teardown leaves CLOSED, where it puts one of the
server's kind back to LISTEN. When the loop is through, the listen request names no
socket, and so unlisten closes the port and drops its queue. `Portless` says what holds
from then on: nothing is bound, no SYN waits, and every socket is closed, except one
that an accept of the server thread, failing just then, has put back to LISTEN, and
that this thread or delete unaccepts next. The thread cannot undo more: its relistens
and accepts fail without a port. `Gone` is the same for a server that is deleted.

*The ledger.* `ClientsAreServed` holds for any calls. While there is a server thread,
an established socket is one the application was told of, or the one that accept has
just returned to the thread (`Serving`). It is kept because a connection leaves
`session` only when its socket was disconnected before: whoever is about to call
`connection_end` holds a socket that is not ESTABLISHED and that nobody accepts
meanwhile (`Ending`). The rest is for the application without calls. `Bookkeeping` says, for
each place of the server thread, which timers run (`Timers`), that the slot it is at
is announced or not (`Announced`), that a socket is bound only while in use
(`InUse`), and that the counter is the number of slots counted, with the register's
copy still good (`Counter`). Then each store of the counter and each callback is one
step of the ledger, the place of the thread saying which change is half done.

*The queue.* NetX only queues a SYN; no event tells the server of it, and it leaves the
queue when some thread relistens. So `QueueInv` says of every state with an open port
why a relisten is still to come and that it will find a free socket. `RelistenDue` names
what will bring it: a socket that listens or a connect event, a call of disconnect, a
connect, disconnect or timeout processing under way, or a reset connection that
disconnect processing has still to find by its timer (`DeadAhead`). None of this is
inductive alone. `Placed` says that a socket without a session is free, listens, has a
SYN to be accepted, or is in the hands of a thread; `Scanned`, that connect processing
leaves no such SYN in the slots it has passed; `EndPlaced` and `CallRelistens`, which
socket the relisten at the end of each processing will take; `OptionsLost`, that a
client lost between accept and its option requests has left an event and a timer. When
the thread waits for events and no event is pending, only `Heard` or `session = Slots`
is left, which is the property. The proof needs `ClosedIsClient`, `AcceptWaits`,
`Serving` and `Ending` from before. TLC checked the parts first, with one socket and
every call, and with two sockets and the calls of disconnect and stop.

*The input.* The receive queue is the end of what the client sent
(`QueueIsSuffix`), so that the packet at its head is one of the client's: what
`process_option` finds in it the client sent (`AgreedWasSent`, over the closed form of
the parser), and a lone IAC that leaves the loop stood right before what is left.
That `TypeOK` holds needs that the parser's `Offset` exists, the least of two numbers
of which one is the greatest of a set.

*The sessions.* `SessionsInv` joins `Shape` (the types the argument needs),
`SetupHasSession` (a `setup()` that sleeps keeps its session) and
`SessionsFollow`. That a waiting
send keeps its client needs only that the main thread wakes when its connection
ends: a new client takes a connection only in a step of the server thread, which
does not run then. Sessions follow connections because the counter and callback
steps of the ledger come one connection at a time.

For the types, `Books` says what the numbers add up to. Packets move between the pool,
`bufferSend` and NetX and only a failed send loses some (`PacketsMove`, which is
`PacketsKept`), so there are never more than `PoolSize` of them (`Room`); `Sending` says
how many `bufferSend` holds at each of its steps. A session is greeted once, prompted
once, and answers each line once, so that it writes at most two outputs more than its
client sent lines (`SessionsFit`). The sums are folds over the connections, about which
the prover knows nothing: the module first proves that the fold exists (`SumsExist`),
that it obeys its recursion (`SumsRecursion`), and what changing one summand does
(`SumChanges`). No induction scheme can be applied to a property here, but a smallest
counterexample can be taken out of a set of them (`Least`, `SetInduction`).

*The client.* `ClientInv` joins the invariants with what the controlling
thread holds: a client that exists has a socket, and connect a client
(`CallsHaveSocket`); connect sends its SYN on a bound socket, and while it waits
only the handshake is under way (`ConnectOwns`); and a close that began here has a
thread that waits for it or has just woken (`CloserStays`). `NoDataWaits` is argued
over the numbers of packets and threads (`DataArrivesQueue`): a thread is left waiting
only if each new packet found another, and the limit drops none of them, because it
does so only beside packets that were READY before, of which there were none.
`ReceiversReleased` is a property of the steps: of a connection that may bring data
(`Awaited`) only a step that lets the receivers go, or begins a close that will,
makes another. It says nothing of a thread that begins to wait later, on a connection
that has ended: that is `client_receive` of section 5.

Only model-checked:

* all liveness, and that the calls can proceed: `ENABLED` and fairness are out of the
  prover's reach;
* `TypedIsSent`: for any packets it is false, as `late_options` shows, so that only the
  instance's packets are meant; and its reference is a recursive function of them.

## 5. Where the code departs from its comments

Each is a run that must find its property violated; `PROJECT.json` has the quotes.

* `lost_start`: start resumes the thread only if it is already suspended. If the
  thread has fetched STOP but not suspended itself yet, the resume is lost: the
  port listens and nobody serves it.
* `stale_send`: the loop passes a session's buffer and length to `bufferSend`,
  which may wait for a packet. If meanwhile the connection ends and is opened
  for the next client, that client gets the old output, and the old length is
  removed from its own.
* `late_options`: the byte machine returns to data behind the second byte of an
  option, so that the third, of an option in the middle of the data, reaches the
  command line.
* `client_receive`: a disconnect without a wait lets the waiting threads go and leaves
  the receive queue to the unbind. A thread that receives between the two finds an
  out-of-order packet at the head of the queue, which keeps it from looking at the
  state, and waits on a closed socket. The unbind takes the packet away and wakes
  nobody. If the client is deleted then, not even the time-out ends the wait:
  the cleanup of a suspended thread returns at once for a socket NetX does not know.
* `client_delete`: deleting a client reports success although NetX keeps a
  socket that is bound or not closed: after the peer closed first, or a connect
  without a wait.

Seen but not a run:

* The limit for out-of-order packets (`NX/nx_tcp_socket_state_data_check.c` 1050)
  counts READY packets that nobody has read. When the last gap is filled beside more
  than eight of them, the packet it drops is READY and acknowledged, and its data is
  lost (`tailLost` in `TelnetClient`).
* The counter is updated by the server thread and by disconnect, unlocked
  (`server.c` 661, 1729): an update can be lost. `LedgerImplemented` is
  therefore checked without calls of disconnect.
* A timed-out accept leaves the peer's port in the socket (1436), so that a
  socket that listens again is taken for one with a client, and the thread waits
  for nobody.
* Disconnect processing looks at the socket state twice (1705); a reset in
  between hides the end of the connection until the activity timeout.
* Connect processing returns as soon as one client's option requests cannot be
  sent (1481) and forgets the clients in the slots after it.
* Each look at a receive queue that holds only out-of-order packets resets the activity
  timeout (`server.c` 1891): the data of other clients keeps such a session open.
* Packets behind a lone IAC wait until more data comes (1919).
* Undoing create cannot delete the server thread, which is suspended and not
  completed (213, 231, 277, 311): its structure stays known to ThreadX.
* Stop resets the connections but leaves the counter as it is and calls no
  `connection_end` (1105); a thread inside accept may arm a timeout after it
  (1460).
* When the option requests cannot be sent for lack of a packet (2427), the flags
  of the slot's last client stay, and the next may be echoed to unasked.
* A subnegotiation is never left by the byte machine, and a line for which the
  worker has no context leaves the connection without input
  (`LogicalConnectionMicrorl.cpp` 172, 52). Two lines in one chunk start two
  commands; the first to end gives the connection back.
* `end()` writes `microrl_t{}` to nowhere: the line editor is not reset.
* A send that fails after a part of it went out is repeated whole
  (`Server.cpp` 240).

## 6. Not modelled, and why

Most of the repository's lines are vendored: the STM32 HAL, CMSIS device headers,
and NetX Duo add-ons (DHCP and others) that the TELNET code does not call. They
are not this program, their state is registers and wire formats, and no statement
about the TELNET code depends on them. Of NetX Duo the models take the TCP
functions that the server and client call, and of those the critical sections.

* Sequence numbers, windows, retransmission, IPv6 and offload: a segment that
  arrives is in window, and a peer may send any segment its socket reacts to.
  Segments out of order are numbers of packets in `TelnetClient`. In the server's model
  `rxCount` does not tell the packets that wait for a gap from the others, as the code's
  loop does not: their arrival may go unreported and a receive may find nothing to take.
  That a segment may replace queued ones, and the limit for late packets, are in
  `TelnetClient` only; `TelnetSessions` and the input begin with the packets received.
  Segments NetX rejects, for their checksum or malformed TCP options, are not
  modelled. In `TelnetClient` no peer opens a connection towards the client's
  port.
* A thread that is terminated while it holds the IP mutex: a NetX call is one
  step, and whether the kernel releases the mutex is up to ThreadX, which is not
  in the repository.
* The session manager, microrl and its parser, the worker and the string buffers
  are in submodules: `TelnetSessions` and `CommandLine` name what they assume of
  them. What `Server::stop`, `del` and `disconnect` do to the sessions is in the
  session manager, so these calls are modelled for the server only. Two threads
  in one session's buffers (`setup()` flushes in the server thread, `loop()` in
  the main thread) depend on the same unseen code: an action of a session is one
  step.
* The echo connection, which no `Server` uses.
* The output of commands, and `end()` while one runs.
* Two reads of the same shared variable in one expression that the compiler may
  or may not join (`if (x > 0) x--`): the model loads once.
* The wait for free packets when option requests are sent: in `TelnetServer` it
  is a choice to fail; `CommandLine` follows one client whose requests were sent.
* Chained packets in the option parser.
* In `TelnetClient`: a second controlling thread, for which the interface
  provides nothing; a thread that calls receive while connect is under way; a
  block that is created again while NetX still knows its socket, or while a thread
  is still suspended on it, which the code clears without looking.
* Errors of parameters, counters of requests and log messages, which change
  nothing else.

## 7. Plan

Done, in this order: sockets and server, the ledger, create and delete, sessions,
options and command line, client. The runs are kept to a dozen, so that all of
them are repeated on every change: a new one takes the place of the weakest, or
joins a present one. Left:

1. `SessionsMatchTimers` with calls of disconnect only, as far as it holds.
2. `CommandLine` over several clients of a slot, with option requests that fail.
3. An option split over two packets.
4. The second controlling thread of a client, if the interface ever allows it.
