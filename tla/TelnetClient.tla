----------------------------- MODULE TelnetClient -----------------------------
(***************************************************************************)
(* The TELNET client (nxd_telnet_client.c) on the client side of the NetX  *)
(* Duo TCP layer.  One controlling thread creates, connects, disconnects   *)
(* and deletes the client; other threads receive and send on it.  A call   *)
(* of the client is several NetX calls: it looks at the socket, gives it   *)
(* up, and acts on it in a later step, while segments, timers and the      *)
(* other threads move it.                                                  *)
(*                                                                         *)
(* The receive queue holds first the packets that may be taken, then those *)
(* that arrived too early and wait for a gap in the data to be filled.     *)
(*                                                                         *)
(* A thread that receives does so outside a connect call.  A client block  *)
(* is created again only when NetX does not know its socket any more and   *)
(* no thread waits on it: the code clears the block without looking.  The  *)
(* server does not open a connection towards the client's port (no         *)
(* simultaneous open).                                                     *)
(***************************************************************************)
EXTENDS Naturals, FiniteSets

CONSTANTS
  Users,    \* the threads that receive and send
  MaxLate,  \* NX_TCP_MAX_OUT_OF_ORDER_PACKETS
  MaxRx     \* bound of the model: received packets the socket holds

ASSUME UsersOK == IsFiniteSet(Users)
ASSUME QueueSizesOK == MaxLate \in Nat /\ MaxRx \in Nat

\* The NX_TCP_* states of a client socket.
States == {"CLOSED", "SYN_SENT", "ESTABLISHED", "CLOSE_WAIT", "FIN_WAIT_1",
           "FIN_WAIT_2", "CLOSING", "TIMED_WAIT", "LAST_ACK"}

\* The states in which received data is looked at.
Receiving == {"ESTABLISHED", "FIN_WAIT_1", "FIN_WAIT_2"}

\* A disconnect the thread has started and that will let every waiter go.
Closing == {"closing", "resumed"}
Steps == Closing \cup {"idle", "bind", "connect", "connecting", "disconnect", "unbind", "delete"}

VARIABLES
  clientId,    \* nx_telnet_client_id is NX_TELNET_CLIENT_ID
  socketId,    \* nx_tcp_socket_id is NX_TCP_ID: NetX knows the socket
  state,       \* nx_tcp_socket_state
  bound,       \* nx_tcp_socket_bound_next is not null
  rxReady,     \* the packets at the head of the receive queue that are READY
  rxLate,      \* the packets behind them that wait for a gap to be filled
  tailLost,    \* the last packet that became READY was dropped again
  receivers,   \* nx_tcp_socket_receive_suspension_list
  senders,     \* nx_tcp_socket_transmit_suspension_list
  pc           \* the step the controlling thread is at

vars == <<clientId, socketId, state, bound, rxReady, rxLate, tailLost, receivers, senders, pc>>
ids == <<clientId, socketId>>
waiters == <<receivers, senders>>
queue == <<rxReady, rxLate, tailLost>>

Flushed == rxReady' = 0 /\ rxLate' = 0 /\ tailLost' = FALSE

Init ==
  /\ clientId = FALSE /\ socketId = FALSE
  /\ state = "CLOSED"
  /\ bound = FALSE
  /\ rxReady = 0 /\ rxLate = 0 /\ tailLost = FALSE
  /\ receivers = {} /\ senders = {}
  /\ pc = "idle"

Waiting == receivers \cup senders

-----------------------------------------------------------------------------
(* The calls of the controlling thread.  A call that is refused at once    *)
(* changes nothing and is not an action.                                   *)

Create ==
  /\ pc = "idle" /\ ~clientId /\ ~socketId /\ Waiting = {}
  /\ clientId' = TRUE /\ socketId' = TRUE
  /\ Flushed
  /\ UNCHANGED <<state, bound, waiters, pc>>

ConnectBegins ==
  /\ pc = "idle" /\ clientId /\ state = "CLOSED"
  /\ pc' = "bind"
  /\ UNCHANGED <<ids, state, bound, queue, waiters>>

\* A socket that is still bound, or no free port, ends the call.
Bind ==
  /\ pc = "bind"
  /\ \/ ~bound /\ bound' = TRUE /\ pc' = "connect"
     \/ pc' = "idle" /\ UNCHANGED bound
  /\ UNCHANGED <<ids, state, queue, waiters>>

\* With a wait option the thread is suspended; without, the call returns
\* IN_PROGRESS, which is not SUCCESS and sends the client to its unbind.
Connect ==
  /\ pc = "connect"
  /\ \/ /\ state \in {"CLOSED", "TIMED_WAIT"}
        /\ state' = "SYN_SENT"
        /\ Flushed
        /\ pc' \in {"connecting", "unbind"}
     \/ pc' = "unbind" /\ UNCHANGED <<state, queue>>  \* no route, or refused
  /\ UNCHANGED <<ids, bound, waiters>>

\* As a bug: the state of the socket is not looked at.
UnbindAlways ==
  /\ pc = "unbind"
  /\ bound' = FALSE
  /\ Flushed
  /\ pc' = "idle"
  /\ UNCHANGED <<ids, state, waiters>>

\* nx_tcp_client_socket_unbind ends TIMED_WAIT and refuses a socket that is
\* not closed; the client does not look at its result.
Unbind ==
  /\ pc = "unbind"
  /\ IF state \in {"CLOSED", "TIMED_WAIT"}
     THEN /\ state' = "CLOSED" /\ bound' = FALSE
          /\ IF bound THEN Flushed ELSE UNCHANGED queue
     ELSE UNCHANGED <<state, bound, queue>>
  /\ pc' = "idle"
  /\ UNCHANGED <<ids, waiters>>

DisconnectBegins ==
  /\ pc = "idle" /\ clientId /\ state = "ESTABLISHED"
  /\ pc' = "disconnect"
  /\ UNCHANGED <<ids, state, bound, queue, waiters>>

\* nx_tcp_socket_disconnect: a wait sends a FIN and suspends the thread, no
\* wait resets the connection and lets the waiters go.  A socket that was
\* closed meanwhile is refused.
Disconnect ==
  /\ pc = "disconnect"
  /\ \/ /\ state \in {"ESTABLISHED", "CLOSE_WAIT"}
        /\ state' = IF state = "ESTABLISHED" THEN "FIN_WAIT_1" ELSE "LAST_ACK"
        /\ pc' = "closing"
        /\ UNCHANGED waiters
     \/ /\ state \in {"ESTABLISHED", "CLOSE_WAIT"}
        /\ state' = "CLOSED"
        /\ receivers' = {} /\ senders' = {}
        /\ pc' = "unbind"
     \/ /\ state \notin {"ESTABLISHED", "CLOSE_WAIT"}
        /\ pc' = "unbind"
        /\ UNCHANGED <<state, waiters>>
  /\ UNCHANGED <<ids, bound, queue>>

\* As a bug: a thread whose wait ran out leaves the socket as it is.
DisconnectResumedAsIs ==
  /\ pc = "resumed"
  /\ receivers' = {} /\ senders' = {}
  /\ pc' = "unbind"
  /\ UNCHANGED <<ids, state, bound, queue>>

\* As a bug: the second half forgets the threads that wait on the socket.
DisconnectResumedAlone ==
  /\ pc = "resumed"
  /\ state' = IF state = "TIMED_WAIT" THEN state ELSE "CLOSED"
  /\ pc' = "unbind"
  /\ UNCHANGED <<ids, bound, queue, waiters>>

\* The end of a suspended disconnect, back in its thread.
DisconnectResumed ==
  /\ pc = "resumed"
  /\ state' = IF state = "TIMED_WAIT" THEN state ELSE "CLOSED"
  /\ receivers' = {} /\ senders' = {}
  /\ pc' = "unbind"
  /\ UNCHANGED <<ids, bound, queue>>

DeleteBegins ==
  /\ pc = "idle" /\ clientId /\ state # "ESTABLISHED"
  /\ clientId' = FALSE
  /\ pc' = "delete"
  /\ UNCHANGED <<socketId, state, bound, queue, waiters>>

\* nx_tcp_socket_delete refuses a socket that is bound or not closed; the
\* client reports success all the same.
DeleteSocket ==
  /\ pc = "delete"
  /\ socketId' = (bound \/ state # "CLOSED")
  /\ pc' = "idle"
  /\ UNCHANGED <<clientId, state, bound, queue, waiters>>

-----------------------------------------------------------------------------
(* The other threads.                                                      *)

MayReceive(u) ==
  clientId /\ bound /\ u \notin Waiting /\ pc \notin {"bind", "connect", "connecting"}

\* As a bug: the queue is taken for filled.
ReceiveUnchecked(u) ==
  /\ MayReceive(u) /\ state = "ESTABLISHED"
  /\ rxReady' = rxReady - 1
  /\ UNCHANGED <<ids, state, bound, rxLate, tailLost, waiters, pc>>

\* A packet that is READY is taken whatever became of the connection.  Without
\* one the thread is suspended, if the connection may still bring one or if
\* anything is queued at all.
Receive(u) ==
  /\ MayReceive(u)
  /\ \/ rxReady > 0 /\ rxReady' = rxReady - 1 /\ UNCHANGED receivers
     \/ /\ rxReady = 0
        /\ rxLate > 0 \/ state \in Receiving \cup {"SYN_SENT"}
        /\ receivers' = receivers \cup {u}
        /\ UNCHANGED rxReady
  /\ UNCHANGED <<ids, state, bound, rxLate, tailLost, senders, pc>>

\* The window is closed.  A send that is not suspended leaves no trace here.
SendSuspends(u) ==
  /\ clientId /\ bound /\ u \notin Waiting
  /\ state \in {"ESTABLISHED", "CLOSE_WAIT"}
  /\ senders' = senders \cup {u}
  /\ UNCHANGED <<ids, state, bound, queue, receivers, pc>>

\* A wait on a socket that was deleted does not end.
WaitTimesOut(u) ==
  /\ socketId /\ u \in Waiting
  /\ receivers' = receivers \ {u} /\ senders' = senders \ {u}
  /\ UNCHANGED <<ids, state, bound, queue, pc>>

-----------------------------------------------------------------------------
(* The IP thread: segments and timers.                                     *)

\* A suspended connect returns SUCCESS.
SynAck ==
  /\ bound /\ state = "SYN_SENT"
  /\ state' = "ESTABLISHED"
  /\ pc' = IF pc = "connecting" THEN "idle" ELSE pc
  /\ UNCHANGED <<ids, bound, queue, waiters>>

\* As a bug: one packet is handed out, however many became READY.
DeliverFirst(n, woken) ==
  /\ Cardinality(woken) <= 1
  /\ woken = receivers \/ Cardinality(woken) = 1

\* Of n packets that became READY the waiting receivers get one each.
Deliver(n, woken) ==
  /\ Cardinality(woken) <= n
  /\ woken = receivers \/ Cardinality(woken) = n

\* The next data: it fills the gap before the late packets, as far as they then
\* follow on; a segment may also replace some of them.  Unless the queue was in
\* order to its end, its last packet is dropped if there are more than MaxLate
\* besides those that have just become READY; that packet can be one of these.
DataArrives ==
  /\ bound /\ state \in Receiving
  /\ \E late \in 0 .. rxLate : \E n \in 1 .. 1 + rxLate - late, woken \in SUBSET receivers :
       LET over == (rxLate > 0 \/ tailLost) /\ rxReady + late > MaxLate
           lost == over /\ late = 0
       IN  /\ Deliver(n, woken)
           /\ receivers' = receivers \ woken
           /\ rxReady' = rxReady + n - (IF lost THEN 1 ELSE 0) - Cardinality(woken)
           /\ rxLate' = IF over /\ ~lost THEN late - 1 ELSE late
           /\ tailLost' = lost
  /\ rxReady' + rxLate' <= MaxRx
  /\ UNCHANGED <<ids, state, bound, senders, pc>>

\* Data behind a gap, which may replace late packets: nobody gets it yet.
LateArrives ==
  /\ bound /\ state \in Receiving
  /\ \E late \in 1 .. rxLate + 1 :
       rxLate' = IF rxReady + late > MaxLate THEN late - 1 ELSE late
  /\ rxReady + rxLate' <= MaxRx
  /\ UNCHANGED <<ids, state, bound, rxReady, tailLost, waiters, pc>>

\* An ACK opens the window for a suspended send.
WindowOpens ==
  /\ bound /\ state \in {"ESTABLISHED", "CLOSE_WAIT"}
  /\ \E u \in senders : senders' = senders \ {u}
  /\ UNCHANGED <<ids, state, bound, queue, receivers, pc>>

WakeDisconnect == pc' = IF pc = "closing" THEN "resumed" ELSE pc

\* As a bug: the peer's FIN leaves the receivers waiting.
PeerClosesQuietly ==
  /\ bound /\ state = "ESTABLISHED"
  /\ state' = "CLOSE_WAIT"
  /\ UNCHANGED <<ids, bound, queue, waiters, pc>>

\* The FIN of a peer that closes first: no thread may wait for its data.
PeerCloses ==
  /\ bound /\ state = "ESTABLISHED"
  /\ state' = "CLOSE_WAIT"
  /\ receivers' = {}
  /\ UNCHANGED <<ids, bound, queue, senders, pc>>

\* The moves of a close that began here: the ACK of our FIN, the peer's FIN.
CloseMoves == {<<"FIN_WAIT_1", "FIN_WAIT_2">>, <<"FIN_WAIT_1", "CLOSING">>,
               <<"FIN_WAIT_1", "TIMED_WAIT">>, <<"FIN_WAIT_2", "TIMED_WAIT">>,
               <<"CLOSING", "TIMED_WAIT">>}

CloseSegment ==
  /\ bound
  /\ \E to \in States : <<state, to>> \in CloseMoves /\ state' = to
  /\ IF state' = "TIMED_WAIT" THEN WakeDisconnect ELSE UNCHANGED pc
  /\ UNCHANGED <<ids, bound, queue, waiters>>

LastAck ==
  /\ bound /\ state = "LAST_ACK"
  /\ state' = "CLOSED"
  /\ WakeDisconnect
  /\ UNCHANGED <<ids, bound, queue, waiters>>

\* A RST, or the retransmission limit: every suspended thread is let go, a
\* connect goes on to its unbind.
ConnectionReset ==
  /\ bound /\ state # "CLOSED"
  /\ state' = "CLOSED"
  /\ Flushed
  /\ receivers' = {} /\ senders' = {}
  /\ IF pc = "connecting" THEN pc' = "unbind" ELSE WakeDisconnect
  /\ UNCHANGED <<ids, bound>>

TimedWaitExpires ==
  /\ state = "TIMED_WAIT"
  /\ state' = "CLOSED"
  /\ UNCHANGED <<ids, bound, queue, waiters, pc>>

\* nx_tcp_connect_cleanup.
ConnectTimesOut ==
  /\ pc = "connecting"
  /\ state' = "CLOSED"
  /\ pc' = "unbind"
  /\ UNCHANGED <<ids, bound, queue, waiters>>

\* As a bug: only a FIN without an answer runs into the wait option.
DisconnectTimesOutUnanswered ==
  /\ pc = "closing" /\ state \in {"FIN_WAIT_1", "LAST_ACK"}
  /\ pc' = "resumed"
  /\ UNCHANGED <<ids, state, bound, queue, waiters>>

DisconnectTimesOut ==
  /\ pc = "closing"
  /\ pc' = "resumed"
  /\ UNCHANGED <<ids, state, bound, queue, waiters>>

-----------------------------------------------------------------------------
CallBegins == Create \/ ConnectBegins \/ DisconnectBegins \/ DeleteBegins
CallGoesOn == Bind \/ Connect \/ Unbind \/ Disconnect \/ DisconnectResumed \/ DeleteSocket
UserStep == \E u \in Users : Receive(u) \/ SendSuspends(u) \/ WaitTimesOut(u)
Segment ==
  \/ SynAck \/ DataArrives \/ LateArrives \/ WindowOpens \/ PeerCloses
  \/ CloseSegment \/ LastAck \/ ConnectionReset
WaitOptionEnds == ConnectTimesOut \/ DisconnectTimesOut

Next == CallBegins \/ CallGoesOn \/ UserStep \/ Segment \/ TimedWaitExpires \/ WaitOptionEnds

Spec == Init /\ [][Next]_vars

\* The kernel runs the controlling thread, and its wait options run out: the
\* calls of this model wait for a finite time.  Nothing is asked of the peer.
Fairness == WF_vars(CallGoesOn) /\ WF_vars(WaitOptionEnds)
FairSpec == Spec /\ Fairness

-----------------------------------------------------------------------------
\* Every variable has its type.
TypeOK ==
  /\ clientId \in BOOLEAN /\ socketId \in BOOLEAN
  /\ state \in States
  /\ bound \in BOOLEAN
  /\ rxReady \in Nat /\ rxLate \in Nat /\ rxReady + rxLate <= MaxRx
  /\ tailLost \in BOOLEAN
  /\ receivers \subseteq Users /\ senders \subseteq Users
  /\ pc \in Steps

\* While the socket is in any state but CLOSED it is bound and known to NetX:
\* no unbind, delete or time-out takes the socket from under a connection.
OpenIsBound == state # "CLOSED" => bound /\ socketId

\* A sender waits only while the window may open, or a disconnect under way will
\* let it go (nx_tcp_socket_disconnect.c 362-368, nx_tcp_socket_connection_reset.c).
SendersServed == senders # {} => state \in {"ESTABLISHED", "CLOSE_WAIT"} \/ pc \in Closing

\* No thread waits beside a packet it could take, although one segment can make
\* many late ones READY (nx_tcp_socket_state_data_check.c 1093-1147).
NoDataWaits == receivers # {} => rxReady = 0

\* A connection that may bring data, or a disconnect that will let the receivers
\* go.  While a connect call waits, the connection is not there yet.
Awaited ==
  \/ state = "ESTABLISHED"
  \/ state = "SYN_SENT" /\ pc # "connecting"
  \/ pc \in Closing

\* Whoever ends a connection lets its receivers go: the peer with a FIN or a RST,
\* a disconnect that waits or does not (nx_tcp_socket_state_established.c 118-125,
\* nx_tcp_socket_disconnect.c 354-360, nx_tcp_socket_connection_reset.c).
ReceiversReleased == [][receivers \cap receivers' # {} /\ Awaited => Awaited']_vars

\* A disconnect that was accepted ends with a client that can connect again,
\* closed and unbound, whatever the peer and the timers do to the socket while
\* the thread is suspended, and although nobody looks at the unbind's result.
DisconnectFrees == (pc = "closing") ~> (pc = "idle" /\ state = "CLOSED" /\ ~bound)

\* Every call of the controlling thread returns, whatever the peer does.
CallsReturn == (pc # "idle") ~> (pc = "idle")

\* A thread that waits when the disconnect begins is let go by it.
WaitersLetGo == \A u \in Users : (pc = "closing" /\ u \in Waiting) ~> (u \notin Waiting)

\* Delete means that the socket is gone: "Delete the socket."
\* (nxd_telnet_client.c 621).  It is not when the peer closed first, or
\* a connect without a wait is under way: disconnect then refuses the client,
\* nothing unbinds the socket, and delete does not look at NetX's refusal.
DeletedIsGone == pc = "idle" /\ ~clientId => ~socketId

\* A socket that was given up has no receivers: "Clear all receive thread
\* suspensions on this socket." (nx_tcp_socket_disconnect.c 354).  It has: behind
\* that step a receive can find a late packet in the queue and wait for the
\* data before it on the closed socket, and unbind only flushes the queue.
UnboundHasNoReceivers == ~bound => receivers = {}
=============================================================================
