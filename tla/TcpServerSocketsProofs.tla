----------------------- MODULE TcpServerSocketsProofs -----------------------
(***************************************************************************)
(* Every call and every segment of TcpServerSockets preserves its types,   *)
(* the soundness of the listen request, and one socket per peer.  The      *)
(* three are one invariant: the listen queue stays apart from the bound    *)
(* sockets because a SYN is queued only while no socket listens.           *)
(***************************************************************************)
EXTENDS TcpServerSockets, SequenceTheorems, TLAPS

NetInv == NetTypeOK /\ ListenerSound /\ OneSocketPerPeer

\* What most steps do to peers: the queue stays as it is and sockets keep
\* their peer, forget it or are released.
PeersReleased ==
  /\ listenQueue' = listenQueue
  /\ \A i \in Slots : bound'[i] => /\ bound[i]
                                   /\ connectPort'[i] \in {connectPort[i], None}

\* The sockets the listen request does not name are changed, or the named one
\* stays what it is.
ListenerKept ==
  /\ UNCHANGED listenVars
  /\ listenSocket # None =>
       /\ socketState'[listenSocket] \in {"LISTEN", "SYN_RECEIVED"}
       /\ ~bound'[listenSocket]
       /\ ~clientType'[listenSocket]

\* Peers are Peers: None is none of them, and a queued SYN is from one.
LEMMA QueueHoldsPeers ==
  ASSUME NetTypeOK
  PROVE  /\ DOMAIN listenQueue = 1 .. Len(listenQueue)
         /\ Len(listenQueue) \in Nat
         /\ \A k \in DOMAIN listenQueue : listenQueue[k] \in Peers
  BY LenProperties, ElementOfSeq DEF NetTypeOK

\* A step that only releases peers keeps each peer on one socket.
LEMMA ReleaseKeepsPeers ==
  ASSUME NetTypeOK, OneSocketPerPeer, PeersReleased
  PROVE  OneSocketPerPeer'
<1>1. ASSUME NEW i \in Slots, NEW j \in Slots, bound'[i], bound'[j],
             connectPort'[i] = connectPort'[j], connectPort'[i] # None
      PROVE  i = j
  BY <1>1 DEF OneSocketPerPeer, PeersReleased
<1>2. \A k \in DOMAIN listenQueue : listenQueue[k] # None
  BY QueueHoldsPeers, ConstantsOK
<1>3. ASSUME NEW k \in DOMAIN listenQueue, NEW i \in Slots,
             bound'[i], connectPort'[i] = listenQueue[k]
      PROVE  FALSE
  BY <1>2, <1>3 DEF OneSocketPerPeer, PeersReleased, Matched
<1> QED
  BY <1>1, <1>3 DEF OneSocketPerPeer, PeersReleased, Matched

\* The two of them together.
LEMMA QuietStep ==
  ASSUME NetInv, NetTypeOK', PeersReleased, ListenerKept
  PROVE  NetInv'
<1>1. OneSocketPerPeer'
  BY ReleaseKeepsPeers DEF NetInv
<1>2. ListenerSound'
  BY DEF NetInv, ListenerSound, ListenerKept, listenVars
<1> QED
  BY <1>1, <1>2 DEF NetInv

-----------------------------------------------------------------------------
(* The calls.                                                              *)

\* The sockets nx_tcp_socket_create leaves.
LEMMA NetInitial == NetInit => NetInv
<1> SUFFICES ASSUME NetInit PROVE NetInv
  OBVIOUS
<1>0. 0 \in 0 .. MaxRx /\ <<>> \in Seq(Peers)
  BY EmptySeq, ConstantsOK
<1>1. NetTypeOK
  BY <1>0, Zenon DEF NetInit, NetTypeOK, TcpStates
<1>2. ListenerSound /\ OneSocketPerPeer
  BY DEF NetInit, ListenerSound, OneSocketPerPeer
<1> QED
  BY <1>1, <1>2 DEF NetInv

\* A step of another part of the program leaves the sockets alone.
LEMMA NetUnchanged ==
  ASSUME NetInv, UNCHANGED <<socketVars, listenVars, waitVars>>, events' \in SUBSET Events
  PROVE  NetInv'
  BY DEF NetInv, NetTypeOK, ListenerSound, OneSocketPerPeer, Matched,
         socketVars, listenVars, waitVars

\* nx_tcp_server_socket_listen: the socket it names is CLOSED and not bound.
LEMMA ListenPreserves ==
  ASSUME NetInv, NEW i \in Slots, ListenWorks(i), Listen(i), events' \in SUBSET Events
  PROVE  NetInv'
<1> USE DEF NetInv, ListenWorks, Listen, waitVars
<1>1. NetTypeOK'
  BY EmptySeq DEF NetTypeOK, TcpStates
<1>2. ListenerSound'
  BY DEF NetTypeOK, ListenerSound
<1>3. OneSocketPerPeer'
  BY DEF OneSocketPerPeer
<1> QED
  BY <1>1, <1>2, <1>3

\* nx_tcp_server_socket_relisten: the head of the queue was on no socket.
LEMMA RelistenPreserves ==
  ASSUME NetInv, NEW i \in Slots, Relisten(i)
  PROVE  NetInv'
<1> USE DEF NetInv
<1>q. /\ DOMAIN listenQueue = 1 .. Len(listenQueue)
      /\ Len(listenQueue) \in Nat
      /\ \A k \in DOMAIN listenQueue : listenQueue[k] \in Peers
  BY QueueHoldsPeers
<1>1. CASE listenQueue = <<>>
  <2>1. /\ listenSocket' = i
        /\ UNCHANGED <<connectPort, bound, listenQueue, events, rxCount, listening, waitVars>>
    BY <1>1 DEF Relisten
  <2>2. NetTypeOK'
    BY <2>1 DEF Relisten, NetTypeOK, waitVars, TcpStates
  <2>3. ListenerSound'
    BY <1>1, <2>1 DEF Relisten, RelistenWorks, ListenerSound, NetTypeOK
  <2>4. OneSocketPerPeer'
    BY <2>1, <2>2, ReleaseKeepsPeers DEF PeersReleased
  <2> QED
    BY <2>2, <2>3, <2>4
<1>2. CASE listenQueue # <<>>
  <2>1. /\ connectPort' = [connectPort EXCEPT ![i] = Head(listenQueue)]
        /\ bound' = [bound EXCEPT ![i] = TRUE]
        /\ listenQueue' = Tail(listenQueue)
        /\ events' = events \cup {"CONNECT"}
        /\ UNCHANGED <<listenSocket, rxCount, listening, waitVars>>
    BY <1>2 DEF Relisten, Signal
  <2>2. /\ Head(listenQueue) = listenQueue[1]
        /\ 1 \in DOMAIN listenQueue
        /\ Tail(listenQueue) \in Seq(Peers)
        /\ DOMAIN Tail(listenQueue) = 1 .. Len(listenQueue) - 1
        /\ \A k \in 1 .. Len(listenQueue) - 1 : Tail(listenQueue)[k] = listenQueue[k + 1]
    BY <1>2, <1>q, HeadTailProperties, EmptySeq, LenProperties DEF NetTypeOK
  <2>3. NetTypeOK'
    <3>1. socketState' \in [Slots -> TcpStates] /\ clientType' \in [Slots -> BOOLEAN]
      BY DEF Relisten, NetTypeOK, TcpStates
    <3>2. listenQueue[1] \in Peers
      BY <2>2, <1>q
    <3>3. connectPort' \in [Slots -> Peers \cup {None}] /\ bound' \in [Slots -> BOOLEAN]
      BY <2>1, <2>2, <3>2 DEF NetTypeOK
    <3>4. listenQueue' \in Seq(Peers) /\ events' \in SUBSET Events
      BY <2>1, <2>2 DEF NetTypeOK, Events
    <3> QED
      BY <2>1, <3>1, <3>3, <3>4 DEF NetTypeOK, waitVars
  <2>4. ListenerSound'
    BY <2>1 DEF Relisten, RelistenWorks, ListenerSound
  <2>5. ASSUME NEW a \in Slots, NEW b \in Slots, bound'[a], bound'[b],
               connectPort'[a] = connectPort'[b], connectPort'[a] # None
        PROVE  a = b
    BY <2>1, <2>2, <2>5 DEF OneSocketPerPeer, Matched, NetTypeOK
  <2>6. ASSUME NEW k \in DOMAIN listenQueue', NEW a \in Slots,
               bound'[a], connectPort'[a] = listenQueue'[k]
        PROVE  FALSE
    <3>1. k \in 1 .. Len(listenQueue) - 1 /\ listenQueue'[k] = listenQueue[k + 1]
      BY <2>1, <2>2, <2>6
    <3>2. k + 1 \in DOMAIN listenQueue /\ k + 1 # 1
      BY <3>1, <1>q
    <3>3. listenQueue[k + 1] # listenQueue[1]
      BY <3>2, <2>2 DEF OneSocketPerPeer
    <3> QED
      BY <2>1, <2>2, <2>6, <3>1, <3>2, <3>3 DEF OneSocketPerPeer, Matched, NetTypeOK
  <2>7. ASSUME NEW k \in DOMAIN listenQueue', NEW l \in DOMAIN listenQueue',
               listenQueue'[k] = listenQueue'[l]
        PROVE  k = l
    <3>1. /\ k \in 1 .. Len(listenQueue) - 1 /\ listenQueue'[k] = listenQueue[k + 1]
          /\ l \in 1 .. Len(listenQueue) - 1 /\ listenQueue'[l] = listenQueue[l + 1]
      BY <2>1, <2>2, <2>7
    <3>2. k + 1 \in DOMAIN listenQueue /\ l + 1 \in DOMAIN listenQueue
      BY <3>1, <1>q
    <3>3. k + 1 = l + 1
      BY <2>7, <3>1, <3>2 DEF OneSocketPerPeer
    <3> QED
      BY <3>1, <3>3, <1>q
  <2>8. OneSocketPerPeer'
    BY <2>5, <2>6, <2>7 DEF OneSocketPerPeer, Matched
  <2> QED
    BY <2>3, <2>4, <2>8
<1> QED
  BY <1>1, <1>2

\* nx_tcp_server_socket_unlisten forgets the socket it closes.
LEMMA UnlistenPreserves ==
  ASSUME NetInv, Unlisten
  PROVE  NetInv'
<1> USE DEF NetInv, Unlisten, waitVars, listenVars
<1>1. CASE UnlistenWorks
  <2>1. NetTypeOK'
    BY <1>1, EmptySeq DEF NetTypeOK, TcpStates
  <2>2. ListenerSound' /\ OneSocketPerPeer'
    BY <1>1 DEF ListenerSound, OneSocketPerPeer
  <2> QED
    BY <2>1, <2>2
<1>2. CASE ~UnlistenWorks
  BY <1>2, NetUnchanged DEF NetTypeOK, socketVars
<1> QED
  BY <1>1, <1>2

\* nx_tcp_server_socket_accept, up to its suspension: the listening socket may
\* be accepted, and stays the listening socket.
LEMMA AcceptSuspendsPreserves ==
  ASSUME NetInv, NEW i \in Slots, AcceptSuspends(i)
  PROVE  NetInv'
<1>0. rxCount' \in [Slots -> 0 .. MaxRx]
  <2> rxCount \in [Slots -> 0 .. MaxRx] /\ 0 \in 0 .. MaxRx
    BY ConstantsOK DEF NetInv, NetTypeOK
  <2> QED
    BY DEF AcceptSuspends
<1>1. NetTypeOK'
  BY <1>0 DEF NetInv, AcceptSuspends, NetTypeOK, TcpStates, listenVars
<1>2. PeersReleased /\ ListenerKept
  BY DEF NetInv, AcceptSuspends, NetTypeOK, ListenerSound, PeersReleased, ListenerKept,
         listenVars
<1> QED
  BY <1>1, <1>2, QuietStep

\* The same, when it fails after its suspension.
LEMMA AcceptGivenUpPreserves ==
  ASSUME NetInv, NEW i \in Slots, AcceptGivenUp(i)
  PROVE  NetInv'
<1>1. NetTypeOK'
  BY DEF NetInv, AcceptGivenUp, NetTypeOK, TcpStates, listenVars, waitVars
<1>2. PeersReleased /\ ListenerKept
  BY DEF NetInv, AcceptGivenUp, NetTypeOK, ListenerSound, PeersReleased, ListenerKept,
         listenVars
<1> QED
  BY <1>1, <1>2, QuietStep

\* nx_tcp_socket_receive.
LEMMA ReceivePreserves ==
  ASSUME NetInv, NEW i \in Slots, Receive(i)
  PROVE  NetInv'
<1>1. NetTypeOK'
  BY ConstantsOK DEF NetInv, Receive, ReceiveWorks, NetTypeOK, listenVars, waitVars
<1>2. PeersReleased /\ ListenerKept
  BY DEF NetInv, Receive, NetTypeOK, ListenerSound, PeersReleased, ListenerKept,
      listenVars
<1> QED
  BY <1>1, <1>2, QuietStep

\* nx_tcp_server_socket_unaccept: the listening socket is not bound, so when it
\* is closed the request forgets it.
LEMMA UnacceptPreserves ==
  ASSUME NetInv, NEW i \in Slots, Unaccept(i)
  PROVE  NetInv'
<1> USE DEF NetInv, Unaccept
<1>1. CASE UnacceptTearsDown(i) \/ socketState[i] = "LISTEN"
  <2>0. /\ rxCount' \in [Slots -> 0 .. MaxRx]
        /\ bound' \in [Slots -> BOOLEAN]
        /\ clientType' \in [Slots -> BOOLEAN]
    <3>1. 0 \in 0 .. MaxRx
      BY ConstantsOK
    <3>2. /\ rxCount' = [rxCount EXCEPT ![i] = 0]
          /\ bound' = [bound EXCEPT ![i] = FALSE]
          /\ clientType' = [clientType EXCEPT ![i] = TRUE]
      BY <1>1
    <3> QED
      BY <3>1, <3>2 DEF NetTypeOK
  <2>1. NetTypeOK'
    <3>1. socketState' \in [Slots -> TcpStates]
      BY <1>1 DEF NetTypeOK, TcpStates
    <3>2. connectPort' \in [Slots -> Peers \cup {None}]
      BY <1>1 DEF NetTypeOK
    <3>3. disconnectWaiter' \in [Slots -> Threads \cup {None}]
      BY <1>1 DEF NetTypeOK, WakeDisconnect
    <3>4. listenSocket' \in Slots \cup {None}
      BY <1>1 DEF NetTypeOK
    <3> QED
      BY <2>0, <3>1, <3>2, <3>3, <3>4 DEF NetTypeOK
  <2>2. PeersReleased
    BY <1>1 DEF PeersReleased, NetTypeOK
  <2>3. ListenerSound'
    <3>1. CASE listenSocket = i
      BY <1>1, <3>1 DEF ListenerSound, NetTypeOK, UnacceptTearsDown, AfterEstablished
    <3>2. CASE listenSocket # i
      BY <1>1, <3>2 DEF ListenerSound, NetTypeOK
    <3> QED
      BY <3>1, <3>2
  <2> QED
    BY <2>1, <2>2, <2>3, ReleaseKeepsPeers
<1>2. CASE ~(UnacceptTearsDown(i) \/ socketState[i] = "LISTEN")
  BY <1>2, NetUnchanged DEF NetTypeOK, listenVars, waitVars
<1> QED
  BY <1>1, <1>2

\* nx_tcp_socket_disconnect, up to its suspension: a listening socket that is
\* being accepted falls back to LISTEN.
LEMMA DisconnectPreserves ==
  ASSUME NetInv, NEW i \in Slots, NEW wait \in BOOLEAN, NEW th \in Threads,
         Disconnect(i, wait, th)
  PROVE  NetInv'
<1> USE DEF NetInv, Disconnect
<1>1. NetTypeOK'
  <2>1. socketState' \in [Slots -> TcpStates]
    BY DEF NetTypeOK, TcpStates, BlockCleanup, RestState
  <2>2. connectPort' \in [Slots -> Peers \cup {None}]
    BY DEF NetTypeOK, BlockCleanup
  <2>3. connectWaiter' \in Slots \cup {None} /\ acceptOk' \in BOOLEAN
    BY DEF NetTypeOK, WakeAccept, waitVars
  <2>4. disconnectWaiter' \in [Slots -> Threads \cup {None}]
    BY DEF NetTypeOK, waitVars
  <2> QED
    BY <2>1, <2>2, <2>3, <2>4 DEF NetTypeOK, listenVars
<1>2. PeersReleased
  BY DEF PeersReleased, NetTypeOK, BlockCleanup, listenVars
<1>3. ListenerKept
  BY DEF ListenerSound, ListenerKept, NetTypeOK, BlockCleanup, RestState,
         DisconnectSuspends, listenVars
<1> QED
  BY <1>1, <1>2, <1>3, QuietStep

\* The same, after its suspension.
LEMMA DisconnectResumedPreserves ==
  ASSUME NetInv, NEW i \in Slots, DisconnectResumed(i)
  PROVE  NetInv'
<1> USE DEF NetInv, DisconnectResumed
<1>1. NetTypeOK'
  BY DEF NetTypeOK, TcpStates, BlockCleanup, RestState, WakeAccept, listenVars
<1>2. PeersReleased
  BY DEF PeersReleased, NetTypeOK, BlockCleanup, listenVars
<1>3. ListenerKept
  BY DEF ListenerSound, ListenerKept, NetTypeOK, BlockCleanup, RestState, listenVars
<1> QED
  BY <1>1, <1>2, <1>3, QuietStep

-----------------------------------------------------------------------------
(* The IP thread.                                                          *)

\* A SYN takes the listening socket, which no peer was bound to while the queue
\* was empty, or joins the queue.
LEMMA SynArrivesPreserves ==
  ASSUME NetInv, NEW p \in Peers, SynArrives(p)
  PROVE  NetInv'
<1> USE DEF NetInv
<1>q. /\ DOMAIN listenQueue = 1 .. Len(listenQueue)
      /\ Len(listenQueue) \in Nat
      /\ \A k \in DOMAIN listenQueue : listenQueue[k] \in Peers
  BY QueueHoldsPeers
<1>1. CASE listenSocket # None
  <2>1. /\ listenSocket \in Slots
        /\ listenSocket' = None
        /\ connectPort' = [connectPort EXCEPT ![listenSocket] = p]
        /\ bound' = [bound EXCEPT ![listenSocket] = TRUE]
        /\ events' = events \cup {"CONNECT"}
        /\ listenQueue = <<>>
        /\ UNCHANGED <<listenQueue, socketState, clientType, rxCount, listening, waitVars>>
        /\ ~Matched(p)
    BY <1>1 DEF SynArrives, Signal, NetTypeOK, ListenerSound
  <2>2. NetTypeOK'
    BY <2>1 DEF NetTypeOK, waitVars, Events
  <2>3. ListenerSound'
    BY <2>1 DEF ListenerSound
  <2>4. OneSocketPerPeer'
    BY <2>1 DEF OneSocketPerPeer, Matched, NetTypeOK
  <2> QED
    BY <2>2, <2>3, <2>4
<1>2. CASE listenSocket = None
  <2> DEFINE q == Append(listenQueue, p)
  <2>1. /\ q \in Seq(Peers) /\ q # <<>>
        /\ DOMAIN q = 1 .. Len(listenQueue) + 1
        /\ Len(q) = Len(listenQueue) + 1
        /\ \A k \in 1 .. Len(listenQueue) : q[k] = listenQueue[k]
        /\ q[Len(listenQueue) + 1] = p
    BY AppendProperties, LenProperties DEF NetTypeOK
  <2>2. \A k \in DOMAIN q : ~Matched(q[k])
    BY <1>q, <2>1 DEF SynArrives, OneSocketPerPeer
  <2>3. \A k, l \in DOMAIN q : q[k] = q[l] => k = l
    BY <1>2, <1>q, <2>1 DEF SynArrives, OneSocketPerPeer
  <2>4. /\ UNCHANGED <<listenSocket, connectPort, bound, events>>
        /\ UNCHANGED <<socketState, clientType, rxCount, listening, waitVars>>
        /\ listenQueue' = q \/ listenQueue' = Tail(q)
    BY <1>2 DEF SynArrives
  <2>5. /\ Tail(q) \in Seq(Peers)
        /\ DOMAIN Tail(q) = 1 .. Len(listenQueue)
        /\ \A k \in 1 .. Len(listenQueue) : Tail(q)[k] = q[k + 1]
    BY <1>q, <2>1, HeadTailProperties, LenProperties
  <2> HIDE DEF q
  <2>6. /\ listenQueue' \in Seq(Peers)
        /\ \A k \in DOMAIN listenQueue' : ~Matched(listenQueue'[k])
        /\ \A k, l \in DOMAIN listenQueue' : listenQueue'[k] = listenQueue'[l] => k = l
    <3>1. CASE listenQueue' = q
      BY <3>1, <2>1, <2>2, <2>3
    <3>2. CASE listenQueue' = Tail(q)
      BY <3>2, <1>q, <2>1, <2>2, <2>3, <2>5
    <3> QED
      BY <2>4, <3>1, <3>2
  <2>7. NetTypeOK' /\ ListenerSound'
    BY <1>2, <2>4, <2>6 DEF NetTypeOK, ListenerSound, waitVars
  <2>8. OneSocketPerPeer'
    BY <2>4, <2>6 DEF OneSocketPerPeer, Matched
  <2> QED
    BY <2>7, <2>8
<1> QED
  BY <1>1, <1>2

\* A RST takes a SYN out of the queue and moves those behind it up.
LEMMA QueuedSynResetPreserves ==
  ASSUME NetInv, NEW n \in DOMAIN listenQueue, QueuedSynReset(n)
  PROVE  NetInv'
<1> USE DEF NetInv
<1> DEFINE len == Len(listenQueue)
           before == SubSeq(listenQueue, 1, n - 1)
           after == SubSeq(listenQueue, n + 1, len)
           from == [k \in 1 .. len - 1 |-> IF k < n THEN k ELSE k + 1]
<1>q. /\ DOMAIN listenQueue = 1 .. len
      /\ len \in Nat
      /\ \A k \in DOMAIN listenQueue : listenQueue[k] \in Peers
      /\ n \in 1 .. len
  BY QueueHoldsPeers
<1>b. /\ before \in Seq(Peers)
      /\ Len(before) = n - 1
      /\ \A k \in 1 .. n - 1 : before[k] = listenQueue[k]
  <2>1. \A k \in 1 .. n - 1 : listenQueue[k] \in Peers
    BY <1>q
  <2>2. 1 \in Int /\ n - 1 \in Int /\ (~(1 <= n - 1) => n - 1 = 0)
    BY <1>q
  <2> QED
    BY <1>q, <2>1, <2>2, SubSeqProperties
<1>a. /\ after \in Seq(Peers)
      /\ Len(after) = len - n
      /\ \A k \in 1 .. len - n : after[k] = listenQueue[n + k]
  <2>1. \A k \in n + 1 .. len : listenQueue[k] \in Peers
    BY <1>q
  <2>2. n + 1 \in Int /\ len \in Int /\ (~(n + 1 <= len) => len - n = 0)
    BY <1>q
  <2>3. after \in Seq(Peers) /\ Len(after) = len - n
        /\ \A k \in 1 .. len - (n + 1) + 1 : after[k] = listenQueue[n + 1 + k - 1]
    BY <1>q, <2>1, <2>2, SubSeqProperties
  <2> QED
    BY <1>q, <2>3
<1>c. /\ listenQueue' = before \o after
      /\ UNCHANGED <<socketVars, listening, listenSocket, waitVars, events>>
  BY DEF QueuedSynReset
<1>d. /\ listenQueue' \in Seq(Peers)
      /\ DOMAIN listenQueue' = 1 .. len - 1
      /\ \A k \in 1 .. len - 1 : listenQueue'[k] = listenQueue[from[k]]
  <2> HIDE DEF before, after
  <2>1. /\ before \o after \in Seq(Peers)
        /\ Len(before \o after) = Len(before) + Len(after)
        /\ \A k \in 1 .. Len(before) + Len(after) :
             (before \o after)[k] = IF k <= Len(before) THEN before[k] ELSE after[k - Len(before)]
    BY <1>a, <1>b, ConcatProperties
  <2>2. ASSUME NEW k \in 1 .. len - 1 PROVE (before \o after)[k] = listenQueue[from[k]]
    <3>0. k \in 1 .. Len(before) + Len(after)
      BY <1>q, <1>a, <1>b
    <3>1. CASE k < n
      BY <3>0, <3>1, <1>q, <1>b, <2>1
    <3>2. CASE ~(k < n)
      <4>1. k - (n - 1) \in 1 .. len - n /\ n + (k - (n - 1)) = k + 1 /\ ~(k <= Len(before))
        BY <3>2, <1>q, <1>b
      <4>2. from[k] = k + 1
        BY <3>2
      <4>3. (before \o after)[k] = after[k - (n - 1)]
        BY <3>0, <4>1, <1>b, <2>1
      <4>4. after[k - (n - 1)] = listenQueue[n + (k - (n - 1))]
        BY <4>1, <1>a
      <4> QED
        BY <4>1, <4>2, <4>3, <4>4
    <3> QED
      BY <3>1, <3>2
  <2>3. Len(before \o after) = len - 1
    BY <1>q, <1>a, <1>b, <2>1
  <2>4. DOMAIN (before \o after) = 1 .. len - 1
    BY <2>1, <2>3, LenProperties
  <2> HIDE DEF from, len
  <2> QED
    BY <1>c, <2>1, <2>2, <2>4
<1>e. \A k, l \in 1 .. len - 1 : /\ from[k] \in DOMAIN listenQueue
                                 /\ from[k] = from[l] => k = l
  BY <1>q
<1> HIDE DEF from, before, after
<1>1. NetTypeOK'
  BY <1>c, <1>d DEF NetTypeOK, socketVars, waitVars
<1>2. ListenerSound'
  BY <1>c, <1>q DEF ListenerSound, socketVars
<1>3. OneSocketPerPeer'
  <2>1. UNCHANGED <<bound, connectPort>>
    BY <1>c DEF socketVars
  <2>2. ASSUME NEW k \in 1 .. len - 1 PROVE ~Matched(listenQueue[from[k]])
    BY <1>e DEF OneSocketPerPeer
  <2>3. ASSUME NEW k \in 1 .. len - 1, NEW l \in 1 .. len - 1,
               listenQueue[from[k]] = listenQueue[from[l]]
        PROVE  k = l
    <3>1. from[k] \in DOMAIN listenQueue /\ from[l] \in DOMAIN listenQueue
      BY <1>e
    <3>2. from[k] = from[l]
      BY <2>3, <3>1 DEF OneSocketPerPeer
    <3> QED
      BY <1>e, <3>2
  <2> QED
    BY <1>d, <2>1, <2>2, <2>3 DEF OneSocketPerPeer, Matched
<1> QED
  BY <1>1, <1>2, <1>3

\* The segments of a connection reach bound sockets only, and the listening
\* socket is not bound.
LEMMA SegmentPreserves ==
  ASSUME NetInv, NEW i \in Slots,
         \/ HandshakeAck(i) \/ DataArrives(i) \/ LastAck(i) \/ ConnectionReset(i)
         \/ \E to \in TcpStates : CloseSegment(i, to)
  PROVE  NetInv'
<1> USE DEF NetInv, WakeAccept, WakeDisconnect, BlockCleanup, RestState, Signal
<1>0. i # listenSocket
  <2>1. bound[i]
    BY DEF HandshakeAck, DataArrives, LastAck, ConnectionReset, CloseSegment
  <2>2. i # None
    BY ConstantsOK DEF Slots
  <2> QED
    BY <2>1, <2>2 DEF ListenerSound
<1>1. CASE HandshakeAck(i)
  <2>1. NetTypeOK'
    BY <1>1 DEF HandshakeAck, NetTypeOK, TcpStates, listenVars
  <2>2. PeersReleased /\ ListenerKept
    BY <1>0, <1>1 DEF HandshakeAck, NetTypeOK, ListenerSound, PeersReleased, ListenerKept,
      listenVars
  <2> QED
    BY <2>1, <2>2, QuietStep
<1>2. CASE DataArrives(i)
  <2>0. rxCount' \in [Slots -> 0 .. MaxRx]
    BY <1>2, ConstantsOK DEF DataArrives, NetTypeOK
  <2>1. NetTypeOK'
    BY <1>2, <2>0 DEF DataArrives, NetTypeOK, Events, listenVars, waitVars
  <2>2. PeersReleased /\ ListenerKept
    BY <1>0, <1>2 DEF DataArrives, NetTypeOK, ListenerSound, PeersReleased, ListenerKept,
      listenVars
  <2> QED
    BY <2>1, <2>2, QuietStep
<1>3. CASE LastAck(i)
  <2>1. NetTypeOK'
    BY <1>3 DEF LastAck, NetTypeOK, TcpStates, listenVars
  <2>2. PeersReleased /\ ListenerKept
    BY <1>0, <1>3 DEF LastAck, NetTypeOK, ListenerSound, PeersReleased, ListenerKept,
      listenVars
  <2> QED
    BY <2>1, <2>2, QuietStep
<1>4. CASE ConnectionReset(i)
  <2>0. rxCount' \in [Slots -> 0 .. MaxRx]
    <3>1. 0 \in 0 .. MaxRx
      BY ConstantsOK
    <3> QED
      BY <1>4, <3>1 DEF ConnectionReset, NetTypeOK
  <2>1. NetTypeOK'
    BY <1>4, <2>0 DEF ConnectionReset, NetTypeOK, TcpStates, Events, listenVars
  <2>2. PeersReleased /\ ListenerKept
    BY <1>0, <1>4 DEF ConnectionReset, NetTypeOK, ListenerSound, PeersReleased, ListenerKept,
                      listenVars
  <2> QED
    BY <2>1, <2>2, QuietStep
<1>5. ASSUME NEW to \in TcpStates, CloseSegment(i, to) PROVE NetInv'
  <2>1. NetTypeOK'
    BY <1>5 DEF CloseSegment, NetTypeOK, Events, listenVars
  <2>2. PeersReleased /\ ListenerKept
    BY <1>0, <1>5 DEF CloseSegment, NetTypeOK, ListenerSound, PeersReleased, ListenerKept,
      listenVars
  <2> QED
    BY <2>1, <2>2, QuietStep
<1> QED
  BY <1>1, <1>2, <1>3, <1>4, <1>5

\* The timers: an accept that times out leaves a listening socket in LISTEN.
LEMMA TimerPreserves ==
  ASSUME NetInv, NEW i \in Slots,
         TimedWaitExpires(i) \/ AcceptTimesOut(i) \/ DisconnectTimesOut(i)
  PROVE  NetInv'
<1> USE DEF NetInv, TimedWaitExpires, AcceptTimesOut, DisconnectTimesOut, WakeAccept,
            WakeDisconnect, BlockCleanup, RestState, listenVars, waitVars
<1>1. NetTypeOK'
  BY DEF NetTypeOK, TcpStates, socketVars
<1>2. PeersReleased
  BY DEF PeersReleased, NetTypeOK, socketVars
<1>3. ListenerKept
  BY DEF ListenerKept, ListenerSound, NetTypeOK, socketVars
<1> QED
  BY <1>1, <1>2, <1>3, QuietStep

\* Any step of the IP thread.
LEMMA NetworkPreserves == NetInv /\ Network => NetInv'
<1> SUFFICES ASSUME NetInv, Network PROVE NetInv'
  OBVIOUS
<1>1. CASE \E p \in Peers : SynArrives(p)
  BY <1>1, SynArrivesPreserves
<1>2. CASE \E k \in DOMAIN listenQueue : QueuedSynReset(k)
  BY <1>2, QueuedSynResetPreserves
<1>3. CASE \E i \in Slots : \/ HandshakeAck(i) \/ DataArrives(i) \/ LastAck(i)
                           \/ ConnectionReset(i)
                           \/ \E to \in TcpStates : CloseSegment(i, to)
  BY <1>3, SegmentPreserves
<1>4. CASE NetTimer
  BY <1>4, TimerPreserves DEF NetTimer
<1> QED
  BY <1>1, <1>2, <1>3, <1>4 DEF Network, PeerSegment
=============================================================================
