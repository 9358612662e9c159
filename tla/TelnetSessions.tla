--------------------------- MODULE TelnetSessions ---------------------------
(***************************************************************************)
(* The sessions of Stm32NetXTelnet::Server (Server.cpp) over the callbacks *)
(* of the TELNET server (ConnectionLedger), and the loop of the main       *)
(* thread that sends their output from the packet pool of the device.      *)
(*                                                                         *)
(* The main thread has the higher priority: the server thread, which makes *)
(* the callbacks, runs only while the main thread waits.  Peers and the IP *)
(* thread act at any time.                                                 *)
(*                                                                         *)
(* External: the session manager, of which this assumes that getNewSession *)
(* returns the session of that id if there is one, that a removed session  *)
(* is destroyed, and that its memory stays as it was until it is reused.   *)
(***************************************************************************)
EXTENDS ConnectionLedger, Sequences, FiniteSetsExt

CONSTANTS
  MaxSessions,  \* how many sessions the session manager has
  PoolSize,     \* packets in the device's packet pool
  MaxClients,   \* bound of the model: clients that connect, one after another
  MaxLines      \* bound of the model: lines one client sends

ASSUME SessionConstantsOK ==
  /\ MaxSessions \in Nat
  /\ PoolSize \in Nat
  /\ MaxClients \in Nat
  /\ MaxLines \in Nat
  /\ None \notin Connections
  /\ None \notin [of : Nat, tx : Seq(Nat \X Nat), written : Nat, rx : {0, 1}, lines : Nat]

VARIABLES
  client,    \* per connection, the number of the client that uses or used it last
  alive,     \* the connections on which NetX still sends
  received,  \* per connection, the output its client was sent
  queued,    \* per connection, packets NetX keeps until they are acknowledged
  session,   \* per connection, its session
  setup,     \* the connection whose setup() sleeps in its new_connection
  mainPc, at, visit,   \* main thread: step, loop variable session, sessions not visited yet
  held, size, taken,   \* bufferSend: what is still to send, szBuffer, packets it holds
  free       \* packets in the pool

netVars    == <<alive, received, queued>>
serverVars == <<open, count, change, client, setup>>
sendVars   == <<held, size, taken>>
loopVars   == <<mainPc, at, visit, sendVars>>
allVars    == <<serverVars, netVars, session, loopVars, free>>

\* An output carries the client it was written for and its number.
MaxOutputs == 2 + MaxLines
Outputs == (1 .. MaxClients) \X (1 .. MaxOutputs)
SessionRecord ==
  [of : 1 .. MaxClients, tx : Seq(Outputs), written : 0 .. MaxOutputs,
   rx : {0, 1}, lines : 0 .. MaxLines]
HasSession == {c \in Connections : session[c] # None}

SessionsTypeOK ==
  /\ client \in [Connections -> 0 .. MaxClients]
  /\ alive \in SUBSET Connections
  /\ received \in [Connections -> Seq(Outputs)]
  /\ queued \in [Connections -> Nat]
  /\ session \in [Connections -> SessionRecord \cup {None}]
  /\ setup \in Connections \cup {None}
  /\ mainPc \in {"idle", "visit", "allocate", "append", "send", "segment", "sendWait", "opened"}
  /\ at \in Connections \cup {None}
  /\ visit \in SUBSET Connections
  /\ held \in Seq(Outputs)
  /\ size \in Nat
  /\ taken \in 0 .. 2
  /\ free \in 0 .. PoolSize

TypeOK == LedgerTypeOK /\ SessionsTypeOK

SessionsInit ==
  /\ Init
  /\ client = [c \in Connections |-> 0]
  /\ alive = {}
  /\ received = [c \in Connections |-> <<>>]
  /\ queued = [c \in Connections |-> 0]
  /\ session = [c \in Connections |-> None]
  /\ setup = None
  /\ mainPc = "idle" /\ at = None /\ visit = {}
  /\ held = <<>> /\ size = 0 /\ taken = 0
  /\ free = PoolSize

NeedsPacket == mainPc \in {"allocate", "append", "segment"}

\* As a bug: the end of a connection does not wake the thread that sends on it.
MainWaitsOn ==
  \/ mainPc \in {"idle", "sendWait"}
  \/ NeedsPacket /\ free = 0

\* The main thread is between two passes, or suspended: on the pool, or on the
\* transmit list of a connection that lives.  (A connection that ends wakes it.)
MainWaits ==
  \/ mainPc = "idle"
  \/ NeedsPacket /\ free = 0
  \/ mainPc = "sendWait" /\ at \in alive

SumOver(f) == MapThenSumSet(LAMBDA c : f[c], Connections)

\* The session s after it wrote one more output.
Written(s) ==
  [s EXCEPT !.written = @ + 1, !.tx = Append(@, <<s.of, s.written + 1>>)]

-----------------------------------------------------------------------------
(* The callbacks, in the server thread.                                    *)

ServerRuns == MainWaits /\ setup = None

\* connect_process: a client's connection stands, and is counted.
Connected(c) ==
  /\ ServerRuns
  /\ CountOpened(c)
  /\ c \notin alive /\ SumOver(client) < MaxClients
  /\ client' = [client EXCEPT ![c] = @ + 1]
  /\ alive' = alive \cup {c}
  /\ received' = [received EXCEPT ![c] = <<>>]
  /\ UNCHANGED <<queued, session, setup, loopVars, free>>

\* getNewSession: the connection's own session, else a free one.
NewSession(c) == [of |-> client[c], tx |-> <<>>, written |-> 0, rx |-> 0, lines |-> 0]
GetsSession(c) == c \in HasSession \/ Cardinality(HasSession) < MaxSessions

\* Server::new_connection: setup() prints the greeting and sleeps.  Without a
\* session nothing happens.
NewConnectionCallback(c) ==
  /\ ServerRuns
  /\ NewConnection(c)
  /\ session' = IF GetsSession(c)
                THEN [session EXCEPT ![c] = Written(IF @ = None THEN NewSession(c) ELSE @)]
                ELSE session
  /\ setup' = IF GetsSession(c) THEN c ELSE None
  /\ UNCHANGED <<client, netVars, loopVars, free>>

\* The rest of setup(): the prompt.
SetupWakes(c) ==
  /\ MainWaits
  /\ setup = c
  /\ setup' = None
  /\ session' = [session EXCEPT ![c] = Written(@)]
  /\ UNCHANGED <<open, count, change, client, netVars, loopVars, free>>

\* Server::receive_data: a line for the session; it is dropped if there is no
\* session or no room.
ReceiveData(c) ==
  /\ ServerRuns
  /\ c \in open /\ change = None
  /\ c \in HasSession /\ session[c].lines < MaxLines
  /\ session' = [session EXCEPT ![c].rx = 1, ![c].lines = @ + 1]
  /\ UNCHANGED <<serverVars, netVars, loopVars, free>>

\* The connection c is over in NetX: its transmit queue is flushed.
Ended(c) ==
  /\ alive' = alive \ {c}
  /\ free' = free + queued[c]
  /\ queued' = [queued EXCEPT ![c] = 0]
  /\ UNCHANGED received

\* disconnect_process and timeout_processing end the connection and count it.
Disconnected(c) ==
  /\ ServerRuns
  /\ CountClosed(c)
  /\ Ended(c)
  /\ UNCHANGED <<client, session, setup, loopVars>>

\* As a bug: the session to end is any other than the connection's own.
ConnectionEndFresh(c) ==
  /\ ServerRuns
  /\ ConnectionEnd(c)
  /\ UNCHANGED <<session, client, setup, netVars, loopVars, free>>

\* Server::connection_end: end() clears the buffers, the session is removed.
ConnectionEndCallback(c) ==
  /\ ServerRuns
  /\ ConnectionEnd(c)
  /\ session' = [session EXCEPT ![c] = None]
  /\ UNCHANGED <<client, setup, netVars, loopVars, free>>

Callback ==
  \E c \in Connections :
    \/ Connected(c) \/ NewConnectionCallback(c) \/ SetupWakes(c) \/ ReceiveData(c)
    \/ Disconnected(c) \/ ConnectionEndCallback(c)

-----------------------------------------------------------------------------
(* The network.                                                            *)

PeerLost(c) ==
  /\ c \in alive
  /\ Ended(c)
  /\ UNCHANGED <<serverVars, session, loopVars>>

Acknowledged(c) ==
  /\ queued[c] > 0
  /\ queued' = [queued EXCEPT ![c] = @ - 1]
  /\ free' = free + 1
  /\ UNCHANGED <<serverVars, alive, received, session, loopVars>>

NetworkStep == \E c \in Connections : PeerLost(c) \/ Acknowledged(c)

-----------------------------------------------------------------------------
(* Server::loop and bufferSend, in the main thread.                        *)

\* The sessions' own loop() answers what was received.
LoopBegins ==
  /\ mainPc = "idle"
  /\ session' = [c \in Connections |->
       IF c \in HasSession /\ session[c].rx = 1 THEN [Written(session[c]) EXCEPT !.rx = 0]
                                                ELSE session[c]]
  /\ mainPc' = "visit" /\ visit' = HasSession
  /\ UNCHANGED <<serverVars, netVars, at, sendVars, free>>

\* The next session is asked for its output, which is left where it is.
LoopVisits(c) ==
  /\ mainPc = "visit"
  /\ c \in visit \cap HasSession
  /\ visit' = visit \ {c}
  /\ \/ /\ session[c].tx # <<>>
        /\ mainPc' = "allocate" /\ at' = c
        /\ held' = session[c].tx /\ size' = Len(session[c].tx)
        /\ UNCHANGED taken
     \/ session[c].tx = <<>> /\ UNCHANGED <<mainPc, at, sendVars>>
  /\ UNCHANGED <<serverVars, netVars, session, free>>

LoopEnds ==
  /\ mainPc = "visit"
  /\ visit \cap HasSession = {}
  /\ mainPc' = "idle" /\ visit' = {}
  /\ UNCHANGED <<serverVars, netVars, session, at, sendVars, free>>

\* bufferSend returns to the loop.
BackToLoop == mainPc' = "visit" /\ at' = None /\ held' = <<>> /\ size' = 0 /\ taken' = 0

\* On success the loop removes the szBuffer it read before from the session.
Unsent(s) == [s EXCEPT !.tx = SubSeq(@, size + 1, Len(@))]
Removed ==
  session' = IF at \in HasSession THEN [session EXCEPT ![at] = Unsent(@)] ELSE session

\* nx_packet_allocate.
Allocate ==
  /\ mainPc = "allocate" /\ free > 0
  /\ free' = free - 1 /\ taken' = 1
  /\ mainPc' = IF size > 1 THEN "append" ELSE "send"
  /\ UNCHANGED <<serverVars, netVars, session, at, visit, held, size>>

\* nx_packet_data_append of what does not fit in one packet.
AppendData ==
  /\ mainPc = "append" /\ free > 0
  /\ free' = free - 1 /\ taken' = 2
  /\ mainPc' = "send"
  /\ UNCHANGED <<serverVars, netVars, session, at, visit, held, size>>

\* As a bug: the packet is not released when no further one can be had.
PacketWaitTimesOutKept ==
  /\ mainPc \in {"allocate", "append"} /\ free = 0
  /\ BackToLoop
  /\ UNCHANGED <<serverVars, netVars, session, visit, free>>

\* No packet in time: bufferSend releases the one it has.
PacketWaitTimesOut ==
  /\ mainPc \in {"allocate", "append"} /\ free = 0
  /\ free' = free + taken
  /\ BackToLoop
  /\ UNCHANGED <<serverVars, netVars, session, visit>>

\* nx_tcp_socket_send to a connection that lives: all at once, or when the
\* window opened.
SendWhole ==
  /\ mainPc \in {"send", "opened"} /\ at \in alive
  /\ received' = [received EXCEPT ![at] = @ \o held]
  /\ queued' = [queued EXCEPT ![at] = @ + taken]
  /\ Removed
  /\ BackToLoop
  /\ UNCHANGED <<serverVars, alive, visit, free>>

\* The window takes only a part, or nothing.
SendPart ==
  /\ mainPc \in {"send", "opened"} /\ at \in alive
  /\ \/ Len(held) > 1 /\ mainPc' = "segment"
     \/ mainPc = "send" /\ mainPc' = "sendWait"
  /\ UNCHANGED <<serverVars, netVars, session, at, visit, sendVars, free>>

\* The part goes out in a packet of its own.
SendSegment ==
  /\ mainPc = "segment" /\ free > 0 /\ at \in alive
  /\ received' = [received EXCEPT ![at] = Append(@, Head(held))]
  /\ queued' = [queued EXCEPT ![at] = @ + 1]
  /\ held' = Tail(held)
  /\ free' = free - 1
  /\ mainPc' = "send"
  /\ UNCHANGED <<serverVars, alive, session, at, visit, size, taken>>

WindowOpens ==
  /\ mainPc = "sendWait" /\ at \in alive
  /\ mainPc' = "opened"
  /\ UNCHANGED <<serverVars, netVars, session, at, visit, sendVars, free>>

\* As a bug: the send waits for the window without a timeout.
SendFailsEnded ==
  /\ \/ mainPc \in {"send", "segment", "sendWait", "opened"} /\ at \notin alive
     \/ mainPc = "segment" /\ free = 0
  /\ BackToLoop
  /\ UNCHANGED <<serverVars, netVars, session, visit, free>>

\* The send fails: the connection is over, or a wait times out.  Nobody
\* releases the packet.
SendFails ==
  /\ \/ mainPc \in {"send", "segment", "sendWait", "opened"} /\ at \notin alive
     \/ mainPc = "segment" /\ free = 0
     \/ mainPc = "sendWait"
  /\ BackToLoop
  /\ UNCHANGED <<serverVars, netVars, session, visit, free>>

SendReturns == SendWhole \/ SendPart \/ SendSegment \/ SendFails

MainStep ==
  \/ \E c \in Connections : LoopVisits(c)
  \/ LoopEnds \/ Allocate \/ AppendData \/ PacketWaitTimesOut \/ SendReturns

SessionsNext == Callback \/ NetworkStep \/ WindowOpens \/ LoopBegins \/ MainStep

SessionsSpec == SessionsInit /\ [][SessionsNext]_allVars

\* The main thread runs, and its waits time out; no client has to read.
FairSessionsSpec == SessionsSpec /\ WF_allVars(MainStep)
-----------------------------------------------------------------------------
\* Server::new_connection and connection_end keep one session per connection: it
\* belongs to the client that is there now, whichever calls the main thread was
\* held up in when the connections changed.
SessionsFollow ==
  /\ \A c \in HasSession : c \in open /\ session[c].of = client[c]
  /\ MaxSessions >= Cardinality(Connections) => open \subseteq HasSession

\* The packets that are somewhere: in the pool, with NetX, with bufferSend.
Packets == free + taken + SumOver(queued)

\* bufferSend loses packets only when nx_telnet_server_packet_send fails: all
\* other ways out of it, and the end of connections, return them to the pool.
PacketsKept == [][Packets' = Packets \/ SendFails]_allVars

\* While the main thread waits for the window of a connection, no other client
\* takes the connection over: the end of it wakes the wait first.
WaitKeepsClient ==
  [][mainPc = "sendWait" => client'[at] = client[at]]_allVars

\* Server::loop returns, whatever the clients leave unread.
LoopReturns == mainPc # "idle" ~> mainPc = "idle"

-----------------------------------------------------------------------------
(* What the source says of the program and the code does not do.           *)

\* "check, if there are bytes to write": what a client is sent was written for
\* it, not for the client before it.
OutputIsOwn ==
  \A c \in Connections : \A k \in DOMAIN received[c] : received[c][k][1] = client[c]
=============================================================================
