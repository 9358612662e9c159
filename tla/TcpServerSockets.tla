-------------------------- MODULE TcpServerSockets --------------------------
(***************************************************************************)
(* The server side of the NetX Duo TCP layer, as the TELNET server uses    *)
(* it: one listen request for the TELNET port, the server's sockets, and   *)
(* the threads suspended inside accept and disconnect.  Every operator     *)
(* below runs under the IP protection mutex (or in the IP thread), so each *)
(* is one atomic step; the actions of the IP thread and of its peers are   *)
(* gathered in Network, the calls of the TELNET server are used by         *)
(* TelnetServer.                                                           *)
(*                                                                         *)
(* Sequence numbers, windows and retransmission are abstracted to what     *)
(* they decide: a segment that arrives is in window, a peer may send any   *)
(* segment its socket would react to, or nothing at all.                   *)
(***************************************************************************)
EXTENDS Naturals, Sequences

CONSTANTS
  MaxClients,   \* NX_TELNET_MAX_CLIENTS: sockets, and length of the listen queue
  Peers,        \* the (address, port) pairs clients connect from
  MaxRx,        \* bound of the model: received packets one socket holds
  None          \* the null pointer, and port 0

ASSUME ConstantsOK ==
  /\ MaxClients \in Nat \ {0}
  /\ MaxRx \in Nat
  /\ None \notin Peers
  /\ None \notin Nat
  /\ None \notin {"telnet", "app"}

Slots == 0 .. MaxClients - 1
Threads == {"telnet", "app"}
Events == {"CONNECT", "DISCONNECT", "DATA", "ACTIVITY_TIMEOUT", "STOP"}

\* The NX_TCP_* states a server socket can take (SYN_SENT is the client's).
TcpStates == {"CLOSED", "LISTEN", "SYN_RECEIVED", "ESTABLISHED", "CLOSE_WAIT",
              "FIN_WAIT_1", "FIN_WAIT_2", "CLOSING", "TIMED_WAIT", "LAST_ACK"}

\* state > NX_TCP_ESTABLISHED, i.e. state >= NX_TCP_CLOSE_WAIT.
AfterEstablished == {"CLOSE_WAIT", "FIN_WAIT_1", "FIN_WAIT_2", "CLOSING",
                     "TIMED_WAIT", "LAST_ACK"}

VARIABLES
  socketState,       \* nx_tcp_socket_state
  connectPort,       \* nx_tcp_socket_connect_ip and _port: a peer or None
  bound,             \* nx_tcp_socket_bound_next is not null
  clientType,        \* nx_tcp_socket_client_type
  rxCount,           \* nx_tcp_socket_receive_queue_count
  listening,         \* there is an active listen request for the TELNET port
  listenSocket,      \* nx_tcp_listen_socket_ptr: a slot or None
  listenQueue,       \* SYNs that wait for a relisten, oldest first
  connectWaiter,     \* the slot on which the server thread waits in accept
  acceptOk,          \* tx_thread_suspend_status of that accept is NX_SUCCESS
  disconnectWaiter,  \* per slot, the thread that waits in disconnect
  events             \* the TELNET server's event flags, set by its callbacks

socketVars == <<socketState, connectPort, bound, clientType, rxCount>>
listenVars == <<listening, listenSocket, listenQueue>>
waitVars   == <<connectWaiter, acceptOk, disconnectWaiter>>
netVars    == <<socketVars, listenVars, waitVars, events>>

NetTypeOK ==
  /\ socketState \in [Slots -> TcpStates]
  /\ connectPort \in [Slots -> Peers \cup {None}]
  /\ bound \in [Slots -> BOOLEAN]
  /\ clientType \in [Slots -> BOOLEAN]
  /\ rxCount \in [Slots -> 0 .. MaxRx]
  /\ listening \in BOOLEAN
  /\ listenSocket \in Slots \cup {None}
  /\ listenQueue \in Seq(Peers)
  /\ connectWaiter \in Slots \cup {None}
  /\ acceptOk \in BOOLEAN
  /\ disconnectWaiter \in [Slots -> Threads \cup {None}]
  /\ events \in SUBSET Events

\* Before the sockets exist: nobody listens, nobody waits.
NetInit ==
  /\ socketState = [i \in Slots |-> "CLOSED"]
  /\ connectPort = [i \in Slots |-> None]
  /\ bound = [i \in Slots |-> FALSE]
  /\ clientType = [i \in Slots |-> TRUE]
  /\ rxCount = [i \in Slots |-> 0]
  /\ listening = FALSE
  /\ listenSocket = None
  /\ listenQueue = <<>>
  /\ connectWaiter = None
  /\ acceptOk = FALSE
  /\ disconnectWaiter = [i \in Slots |-> None]
  /\ events = {}

-----------------------------------------------------------------------------
(* Shared pieces.                                                          *)

\* As a bug: a torn down server socket is closed.
RestStateClosed(i) == "CLOSED"

\* The state a torn down socket falls back to: a server socket returns to
\* LISTEN although no listen request knows it any more.
RestState(i) == IF clientType[i] THEN "CLOSED" ELSE "LISTEN"

\* nx_tcp_socket_block_cleanup: forget the peer; the socket stays bound.
BlockCleanup(i) ==
  /\ socketState' = [socketState EXCEPT ![i] = RestState(i)]
  /\ connectPort' = [connectPort EXCEPT ![i] = None]

\* The accept suspended on slot i, if any, returns with status ok.
WakeAccept(i, ok) ==
  IF connectWaiter = i
  THEN connectWaiter' = None /\ acceptOk' = ok
  ELSE UNCHANGED <<connectWaiter, acceptOk>>

WakeDisconnect(i) ==
  disconnectWaiter' = [disconnectWaiter EXCEPT ![i] = None]

\* A callback the TELNET server registered sets an event flag.
Signal(e) == events' = events \cup {e}

\* As a bug: only established connections are looked up.
MatchedEstablished(p) ==
  \E i \in Slots : bound[i] /\ connectPort[i] = p /\ socketState[i] = "ESTABLISHED"

\* The port table finds a bound socket by its peer, whatever its state.
Matched(p) == \E i \in Slots : bound[i] /\ connectPort[i] = p

-----------------------------------------------------------------------------
(* Calls.                                                                  *)

\* nx_tcp_server_socket_listen on slot i: the calls that succeed.
ListenWorks(i) == socketState[i] = "CLOSED" /\ ~bound[i] /\ ~listening

Listen(i) ==
  /\ listening' = TRUE
  /\ listenSocket' = i
  /\ listenQueue' = <<>>
  /\ clientType' = [clientType EXCEPT ![i] = FALSE]
  /\ socketState' = [socketState EXCEPT ![i] = "LISTEN"]
  /\ UNCHANGED <<connectPort, bound, rxCount, waitVars>>

\* nx_tcp_socket_create of every socket, before the port is listened on.
SocketsCreated ==
  /\ socketState' = [i \in Slots |-> "CLOSED"]
  /\ connectPort' = [i \in Slots |-> None]
  /\ bound' = [i \in Slots |-> FALSE]
  /\ clientType' = [i \in Slots |-> TRUE]
  /\ rxCount' = [i \in Slots |-> 0]
  /\ events' = {}
  /\ UNCHANGED <<listenVars, waitVars>>

\* nx_tcp_socket_delete succeeds.
SocketDeletes(i) == socketState[i] = "CLOSED" /\ ~bound[i]

\* As a bug: a relisten with a SYN in the queue fails.
RelistenWorksIdle(i) ==
  /\ socketState[i] = "CLOSED" /\ ~bound[i]
  /\ listening /\ listenSocket = None /\ listenQueue = <<>>

\* nx_tcp_server_socket_relisten on slot i returns SUCCESS or
\* CONNECTION_PENDING, and the server leaves its relisten loop.
RelistenWorks(i) ==
  socketState[i] = "CLOSED" /\ ~bound[i] /\ listening /\ listenSocket = None

\* The socket waits for the next SYN, or takes the oldest queued one at once.
\* connectPort is left as it was in the first case.
Relisten(i) ==
  /\ RelistenWorks(i)
  /\ socketState' = [socketState EXCEPT ![i] = "LISTEN"]
  /\ clientType' = [clientType EXCEPT ![i] = FALSE]
  /\ \/ /\ listenQueue = <<>>
        /\ listenSocket' = i
        /\ UNCHANGED <<connectPort, bound, listenQueue, events>>
     \/ /\ listenQueue # <<>>
        /\ connectPort' = [connectPort EXCEPT ![i] = Head(listenQueue)]
        /\ bound' = [bound EXCEPT ![i] = TRUE]
        /\ listenQueue' = Tail(listenQueue)
        /\ Signal("CONNECT")
        /\ UNCHANGED listenSocket
  /\ UNCHANGED <<rxCount, listening, waitVars>>

\* As a bug: a request whose socket is taken is not found.
UnlistenWorksListening ==
  listening /\ listenSocket # None /\ socketState[listenSocket] = "LISTEN"

\* nx_tcp_server_socket_unlisten.  A listening socket that is being accepted
\* makes the call fail and keeps the request; otherwise the request goes.
UnlistenWorks ==
  listening /\ (listenSocket # None => socketState[listenSocket] = "LISTEN")

Unlisten ==
  /\ IF UnlistenWorks
     THEN /\ listening' = FALSE
          /\ listenQueue' = <<>>
          /\ listenSocket' = None
          /\ socketState' = [i \in Slots |->
               IF i = listenSocket THEN "CLOSED" ELSE socketState[i]]
     ELSE UNCHANGED <<listenVars, socketState>>
  /\ UNCHANGED <<connectPort, bound, clientType, rxCount, waitVars, events>>

\* nx_tcp_server_socket_accept with a wait option looks at the state of slot i
\* before it takes the mutex; what it does then goes by the state it finds then.
AcceptReturns(i) == socketState[i] = "ESTABLISHED"
AcceptFails(i) == socketState[i] \notin {"ESTABLISHED", "LISTEN", "SYN_RECEIVED"}

AcceptSuspends(i) ==
  /\ socketState' = [socketState EXCEPT ![i] = IF @ = "LISTEN" THEN "SYN_RECEIVED" ELSE @]
  \* a bound socket sends its SYN and starts with an empty receive queue
  /\ rxCount' = [rxCount EXCEPT ![i] =
       IF bound[i] /\ socketState[i] = "LISTEN" THEN 0 ELSE @]
  /\ connectWaiter' = i
  /\ acceptOk' = FALSE
  /\ UNCHANGED <<connectPort, bound, clientType, listenVars, disconnectWaiter, events>>

\* The end of an accept that failed while it was suspended: back in its thread
\* it puts the socket to LISTEN, whatever became of it meanwhile.
AcceptGivenUp(i) ==
  /\ socketState' = [socketState EXCEPT ![i] = "LISTEN"]
  /\ UNCHANGED <<connectPort, bound, clientType, rxCount, listenVars, waitVars, events>>

\* nx_tcp_socket_receive with NO_WAIT takes a packet out of the queue.
ReceiveWorks(i) == rxCount[i] > 0 /\ bound[i]

Receive(i) ==
  /\ ReceiveWorks(i)
  /\ rxCount' = [rxCount EXCEPT ![i] = @ - 1]
  /\ UNCHANGED <<socketState, connectPort, bound, clientType, listenVars, waitVars, events>>

\* nx_tcp_server_socket_unaccept.  A socket in SYN_RECEIVED or ESTABLISHED is
\* left alone (NX_NOT_LISTEN_STATE), and so is a CLOSED one that is not bound.
UnacceptTearsDown(i) ==
  \/ socketState[i] \in AfterEstablished
  \/ socketState[i] = "CLOSED" /\ bound[i]

\* As a bug: the listen request keeps the socket.
UnacceptKeepsRequest(i) ==
  /\ IF UnacceptTearsDown(i) \/ socketState[i] = "LISTEN"
     THEN /\ socketState' = [socketState EXCEPT ![i] = "CLOSED"]
          /\ connectPort' = [connectPort EXCEPT ![i] =
               IF UnacceptTearsDown(i) THEN None ELSE @]
          /\ bound' = [bound EXCEPT ![i] = FALSE]
          /\ clientType' = [clientType EXCEPT ![i] = TRUE]
          /\ rxCount' = [rxCount EXCEPT ![i] = 0]
          /\ UNCHANGED listenSocket
          /\ WakeDisconnect(i)
     ELSE UNCHANGED <<socketVars, listenSocket, disconnectWaiter>>
  /\ UNCHANGED <<listening, listenQueue, connectWaiter, acceptOk, events>>

Unaccept(i) ==
  /\ IF UnacceptTearsDown(i) \/ socketState[i] = "LISTEN"
     THEN /\ socketState' = [socketState EXCEPT ![i] = "CLOSED"]
          /\ connectPort' = [connectPort EXCEPT ![i] =
               IF UnacceptTearsDown(i) THEN None ELSE @]
          /\ bound' = [bound EXCEPT ![i] = FALSE]
          /\ clientType' = [clientType EXCEPT ![i] = TRUE]
          /\ rxCount' = [rxCount EXCEPT ![i] = 0]
          /\ listenSocket' = IF listenSocket = i /\ ~bound[i] THEN None ELSE listenSocket
          /\ WakeDisconnect(i)
     ELSE UNCHANGED <<socketVars, listenSocket, disconnectWaiter>>
  /\ UNCHANGED <<listening, listenQueue, connectWaiter, acceptOk, events>>

\* As a bug: a second thread may wait for a close already under way.
DisconnectSuspendsAgain(i, wait) ==
  wait /\ socketState[i] \in {"ESTABLISHED", "CLOSE_WAIT", "FIN_WAIT_1"}

\* nx_tcp_socket_disconnect by thread th, up to its suspension.  With NO_WAIT a
\* connection is reset at once; a wait sends a FIN and suspends the thread.
DisconnectSuspends(i, wait) == wait /\ socketState[i] \in {"ESTABLISHED", "CLOSE_WAIT"}

Disconnect(i, wait, th) ==
  /\ \/ /\ DisconnectSuspends(i, wait)
        /\ socketState' = [socketState EXCEPT ![i] =
             IF @ = "ESTABLISHED" THEN "FIN_WAIT_1" ELSE "LAST_ACK"]
        /\ disconnectWaiter' = [disconnectWaiter EXCEPT ![i] = th]
        /\ UNCHANGED <<connectPort, connectWaiter, acceptOk>>
     \/ /\ ~wait
        /\ socketState[i] \in {"ESTABLISHED", "CLOSE_WAIT"}
        /\ BlockCleanup(i)
        /\ WakeAccept(i, FALSE)
        /\ UNCHANGED disconnectWaiter
     \/ /\ socketState[i] = "SYN_RECEIVED"
        /\ socketState' = [socketState EXCEPT ![i] = RestState(i)]
        /\ WakeAccept(i, FALSE)
        /\ UNCHANGED <<connectPort, disconnectWaiter>>
     \/ /\ socketState[i] \notin {"ESTABLISHED", "CLOSE_WAIT", "SYN_RECEIVED"}
        /\ UNCHANGED <<socketState, connectPort, waitVars>>
  /\ UNCHANGED <<bound, clientType, rxCount, listenVars, events>>

\* As a bug: the socket keeps the state the timeout found it in.
DisconnectResumedAsIs(i) ==
  /\ WakeAccept(i, FALSE)
  /\ UNCHANGED <<socketVars, listenVars, disconnectWaiter, events>>

\* The end of a suspended nx_tcp_socket_disconnect, back in its thread.  An
\* accept suspended on the socket is failed, which ends TIMED_WAIT too.
DisconnectResumed(i) ==
  /\ IF socketState[i] = "TIMED_WAIT"
     THEN /\ socketState' =
               [socketState EXCEPT ![i] = IF connectWaiter = i THEN RestState(i) ELSE @]
          /\ UNCHANGED connectPort
     ELSE BlockCleanup(i)
  /\ WakeAccept(i, FALSE)
  /\ UNCHANGED <<bound, clientType, rxCount, listenVars, disconnectWaiter, events>>

-----------------------------------------------------------------------------
(* The IP thread: segments and timers.                                     *)

\* A SYN no bound socket matches: it goes to the listening socket, or waits in
\* the queue (whose oldest entry is dropped when it overflows).
SynArrives(p) ==
  /\ listening
  /\ ~Matched(p)
  /\ \/ /\ listenSocket # None
        /\ listenSocket' = None
        /\ connectPort' = [connectPort EXCEPT ![listenSocket] = p]
        /\ bound' = [bound EXCEPT ![listenSocket] = TRUE]
        /\ Signal("CONNECT")
        /\ UNCHANGED listenQueue
     \/ /\ listenSocket = None
        /\ \A k \in DOMAIN listenQueue : listenQueue[k] # p
        /\ listenQueue' = LET q == Append(listenQueue, p)
                          IN  IF Len(q) > MaxClients THEN Tail(q) ELSE q
        /\ UNCHANGED <<listenSocket, connectPort, bound, events>>
  /\ UNCHANGED <<socketState, clientType, rxCount, listening, waitVars>>

\* A RST cancels the SYN of the same peer that is still queued.
QueuedSynReset(k) ==
  /\ ~Matched(listenQueue[k])
  /\ listenQueue' = SubSeq(listenQueue, 1, k - 1) \o
                    SubSeq(listenQueue, k + 1, Len(listenQueue))
  /\ UNCHANGED <<socketVars, listening, listenSocket, waitVars, events>>

\* The last ACK of the handshake.
HandshakeAck(i) ==
  /\ bound[i] /\ connectPort[i] # None
  /\ socketState[i] = "SYN_RECEIVED"
  /\ socketState' = [socketState EXCEPT ![i] = "ESTABLISHED"]
  /\ WakeAccept(i, TRUE)
  /\ UNCHANGED <<connectPort, bound, clientType, rxCount, listenVars, disconnectWaiter, events>>

\* The count does not tell the packets that may be taken from those that wait
\* for a gap in the data, whose arrival is not reported.
DataArrives(i) ==
  /\ bound[i] /\ connectPort[i] # None
  /\ socketState[i] \in {"ESTABLISHED", "FIN_WAIT_1", "FIN_WAIT_2"}
  /\ rxCount[i] < MaxRx
  /\ rxCount' = [rxCount EXCEPT ![i] = @ + 1]
  /\ Signal("DATA") \/ UNCHANGED events
  /\ UNCHANGED <<socketState, connectPort, bound, clientType, listenVars, waitVars>>

\* A FIN, or the ACK of ours, or both in one segment: the moves of the
\* established, fin_wait1, fin_wait2 and closing state handlers.
CloseMoves ==
  {<<"ESTABLISHED", "CLOSE_WAIT">>, <<"FIN_WAIT_1", "FIN_WAIT_2">>,
   <<"FIN_WAIT_1", "CLOSING">>, <<"FIN_WAIT_1", "TIMED_WAIT">>,
   <<"FIN_WAIT_2", "TIMED_WAIT">>, <<"CLOSING", "TIMED_WAIT">>}

\* CLOSE_WAIT and TIMED_WAIT call the disconnect callback, TIMED_WAIT also
\* resumes the thread that closes.
CloseSegment(i, to) ==
  /\ bound[i] /\ connectPort[i] # None
  /\ <<socketState[i], to>> \in CloseMoves
  /\ socketState' = [socketState EXCEPT ![i] = to]
  /\ IF to = "TIMED_WAIT" THEN WakeDisconnect(i) ELSE UNCHANGED disconnectWaiter
  /\ IF to \in {"CLOSE_WAIT", "TIMED_WAIT"} THEN Signal("DISCONNECT") ELSE UNCHANGED events
  /\ UNCHANGED <<connectPort, bound, clientType, rxCount, listenVars, connectWaiter, acceptOk>>

\* The ACK of our FIN in LAST_ACK.
LastAck(i) ==
  /\ bound[i] /\ connectPort[i] # None
  /\ socketState[i] = "LAST_ACK"
  /\ BlockCleanup(i)
  /\ WakeDisconnect(i)
  /\ UNCHANGED <<bound, clientType, rxCount, listenVars, connectWaiter, acceptOk, events>>

\* A RST or SYN in window, or the retransmission limit: connection_reset.
\* Only an ESTABLISHED connection calls the disconnect callback.
ConnectionReset(i) ==
  /\ bound[i] /\ connectPort[i] # None
  /\ socketState[i] \notin {"CLOSED", "LISTEN"}
  /\ BlockCleanup(i)
  /\ rxCount' = [rxCount EXCEPT ![i] = 0]
  /\ WakeAccept(i, FALSE)
  /\ WakeDisconnect(i)
  /\ IF socketState[i] = "ESTABLISHED" THEN Signal("DISCONNECT") ELSE UNCHANGED events
  /\ UNCHANGED <<bound, clientType, listenVars>>

\* The 2MSL timer of fast_periodic_processing.
TimedWaitExpires(i) ==
  /\ socketState[i] = "TIMED_WAIT"
  /\ BlockCleanup(i)
  /\ UNCHANGED <<bound, clientType, rxCount, listenVars, waitVars, events>>

\* The wait option of accept runs out: connect_cleanup keeps connectPort.
AcceptTimesOut(i) ==
  /\ connectWaiter = i
  /\ socketState' = [socketState EXCEPT ![i] = RestState(i)]
  /\ WakeAccept(i, FALSE)
  /\ UNCHANGED <<connectPort, bound, clientType, rxCount, listenVars, disconnectWaiter, events>>

\* As a bug: only the wait of the server thread is timed.
DisconnectTimesOutForServer(i) ==
  /\ disconnectWaiter[i] = "telnet"
  /\ WakeDisconnect(i)
  /\ UNCHANGED <<socketVars, listenVars, connectWaiter, acceptOk, events>>

\* The wait option of disconnect runs out: only the thread is resumed.
DisconnectTimesOut(i) ==
  /\ disconnectWaiter[i] # None
  /\ WakeDisconnect(i)
  /\ UNCHANGED <<socketVars, listenVars, connectWaiter, acceptOk, events>>

PeerSegment ==
  \/ \E p \in Peers : SynArrives(p)
  \/ \E k \in DOMAIN listenQueue : QueuedSynReset(k)
  \/ \E i \in Slots : \/ HandshakeAck(i)
                      \/ DataArrives(i)
                      \/ LastAck(i)
                      \/ ConnectionReset(i)
                      \/ \E to \in TcpStates : CloseSegment(i, to)

NetTimer ==
  \E i \in Slots : TimedWaitExpires(i) \/ AcceptTimesOut(i) \/ DisconnectTimesOut(i)

Network == PeerSegment \/ NetTimer

-----------------------------------------------------------------------------
\* The listen request is sound: it names a socket only while it exists, that
\* socket is a server socket no peer is bound to, waiting for a SYN (or
\* already accepted), and no SYN is left in the queue behind it.
ListenerSound ==
  listenSocket # None =>
    /\ listening
    /\ listenQueue = <<>>
    /\ socketState[listenSocket] \in {"LISTEN", "SYN_RECEIVED"}
    /\ ~bound[listenSocket]
    /\ ~clientType[listenSocket]

\* A peer is served once: no two bound sockets face the same peer, and a peer
\* whose SYN is queued is neither bound nor queued twice.
OneSocketPerPeer ==
  /\ \A i, j \in Slots :
       bound[i] /\ bound[j] /\ connectPort[i] = connectPort[j] /\ connectPort[i] # None
         => i = j
  /\ \A k \in DOMAIN listenQueue : ~Matched(listenQueue[k])
  /\ \A k, l \in DOMAIN listenQueue : listenQueue[k] = listenQueue[l] => k = l
=============================================================================
