-------------------------- MODULE TelnetClientProofs --------------------------
(***************************************************************************)
(* What holds of the TELNET client for every finite set of users and every *)
(* length of the receive queue.  ClientInv is the inductive invariant: besides    *)
(* the properties it says what the controlling thread knows at each step,  *)
(* although it looked at the socket in an earlier one.                     *)
(***************************************************************************)
EXTENDS TelnetClient, FiniteSetTheorems, TLAPS

\* A call works on a block that is valid, and a valid block has its socket.
CallsHaveSocket ==
  /\ clientId => socketId
  /\ pc \in {"bind", "connect"} => clientId
  /\ pc = "delete" => ~clientId

\* The socket a connect sends its SYN on is bound, and while the thread is
\* suspended nothing but the handshake is under way.
ConnectOwns ==
  /\ pc = "connect" => bound
  /\ pc = "connecting" => state = "SYN_SENT"

\* A close that began here has its thread, until it is over.
CloserStays ==
  state \in {"FIN_WAIT_1", "FIN_WAIT_2", "CLOSING", "LAST_ACK"} => pc \in Closing

ClientInv ==
  /\ TypeOK /\ OpenIsBound /\ SendersServed /\ NoDataWaits
  /\ CallsHaveSocket /\ ConnectOwns /\ CloserStays

\* Init establishes the invariant.
LEMMA InitInv == Init => ClientInv
<1>1. Init => rxReady \in Nat /\ rxLate \in Nat /\ rxReady + rxLate <= MaxRx
  BY QueueSizesOK DEF Init
<1>2. QED
  BY <1>1 DEF Init, ClientInv, TypeOK, OpenIsBound, SendersServed, NoDataWaits,
              CallsHaveSocket, ConnectOwns, CloserStays, States, Steps, Closing

\* A queue that is flushed keeps its types.
LEMMA FlushedQueue ==
  Flushed => rxReady' \in Nat /\ rxLate' \in Nat /\ rxReady' + rxLate' <= MaxRx
BY QueueSizesOK DEF Flushed

\* What a segment of n packets leaves for the queue.
LEMMA DeliverLeaves ==
  ASSUME NEW n \in Nat, NEW woken \in SUBSET receivers, TypeOK, Deliver(n, woken)
  PROVE  /\ Cardinality(woken) \in 0 .. n
         /\ receivers \ woken # {} => Cardinality(woken) = n
         /\ receivers = {} => Cardinality(woken) = 0
<1>1. IsFiniteSet(woken)
  BY UsersOK, FS_Subset DEF TypeOK
<1>2. Cardinality(woken) \in Nat
  BY <1>1, FS_CardinalityType
<1>3. receivers = {} => Cardinality(woken) = 0
  BY FS_EmptySet
<1>4. QED
  BY <1>2, <1>3 DEF Deliver

\* Data leaves the queue within its bound, and no packet beside a thread that
\* waits for it: such a thread waits only while no packet is READY, and then
\* none of the new ones is dropped.
LEMMA DataArrivesQueue ==
  ASSUME TypeOK, NoDataWaits, DataArrives
  PROVE  /\ rxReady' \in Nat /\ rxLate' \in Nat /\ rxReady' + rxLate' <= MaxRx
         /\ tailLost' \in BOOLEAN
         /\ receivers' \subseteq receivers
         /\ NoDataWaits'
<1>1. PICK late \in 0 .. rxLate : \E n \in 1 .. 1 + rxLate - late, woken \in SUBSET receivers :
        LET over == (rxLate > 0 \/ tailLost) /\ rxReady + late > MaxLate
            lost == over /\ late = 0
        IN  /\ Deliver(n, woken)
            /\ receivers' = receivers \ woken
            /\ rxReady' = rxReady + n - (IF lost THEN 1 ELSE 0) - Cardinality(woken)
            /\ rxLate' = IF over /\ ~lost THEN late - 1 ELSE late
            /\ tailLost' = lost
  BY DEF DataArrives
<1>2. PICK n \in 1 .. 1 + rxLate - late, woken \in SUBSET receivers :
        LET over == (rxLate > 0 \/ tailLost) /\ rxReady + late > MaxLate
            lost == over /\ late = 0
        IN  /\ Deliver(n, woken)
            /\ receivers' = receivers \ woken
            /\ rxReady' = rxReady + n - (IF lost THEN 1 ELSE 0) - Cardinality(woken)
            /\ rxLate' = IF over /\ ~lost THEN late - 1 ELSE late
            /\ tailLost' = lost
  BY <1>1
<1> DEFINE over == (rxLate > 0 \/ tailLost) /\ rxReady + late > MaxLate
           lost == over /\ late = 0
<1>3. /\ n \in Nat /\ n > 0 /\ late \in Nat
      /\ rxReady \in Nat /\ rxLate \in Nat /\ MaxLate \in Nat
  BY QueueSizesOK DEF TypeOK
<1>4. /\ Cardinality(woken) \in 0 .. n
      /\ receivers \ woken # {} => Cardinality(woken) = n
      /\ receivers = {} => Cardinality(woken) = 0
  BY <1>2, <1>3, DeliverLeaves
<1>5. lost => rxReady > 0 /\ receivers = {}
  BY <1>3 DEF NoDataWaits
<1>6. /\ receivers' = receivers \ woken
      /\ rxReady' = rxReady + n - (IF lost THEN 1 ELSE 0) - Cardinality(woken)
      /\ rxLate' = IF over /\ ~lost THEN late - 1 ELSE late
      /\ tailLost' = lost
  BY <1>2
<1> HIDE DEF lost
<1>7. rxReady' \in Nat
  <2>1. CASE lost
    BY <2>1, <1>3, <1>4, <1>5, <1>6
  <2>2. CASE ~lost
    BY <2>2, <1>3, <1>4, <1>6
  <2>3. QED
    BY <2>1, <2>2
<1>8. rxLate' \in Nat
  BY <1>3, <1>6 DEF lost
<1>9. NoDataWaits'
  <2> SUFFICES ASSUME receivers' # {} PROVE rxReady' = 0
    BY DEF NoDataWaits
  <2>1. receivers # {} /\ Cardinality(woken) = n
    BY <1>4, <1>6
  <2>2. rxReady = 0 /\ ~lost
    BY <2>1, <1>5 DEF NoDataWaits
  <2>3. QED
    BY <2>1, <2>2, <1>3, <1>6
<1>10. rxReady' + rxLate' <= MaxRx
  BY DEF DataArrives
<1>11. tailLost' \in BOOLEAN /\ receivers' \subseteq receivers
  BY <1>6 DEF lost
<1>12. QED
  BY <1>7, <1>8, <1>9, <1>10, <1>11

\* The steps of the controlling thread keep it.
LEMMA CallStepInv == ClientInv /\ (CallBegins \/ CallGoesOn) => ClientInv'
<1> SUFFICES ASSUME ClientInv, CallBegins \/ CallGoesOn PROVE ClientInv'
  OBVIOUS
<1> USE QueueSizesOK DEF ClientInv, TypeOK, OpenIsBound, SendersServed, NoDataWaits,
                    CallsHaveSocket, ConnectOwns, CloserStays, States, Steps, Closing, ids,
                    waiters, Waiting, queue, Flushed
<1>1. CASE Create
  BY <1>1, FlushedQueue DEF Create
<1>2. CASE ConnectBegins
  BY <1>2 DEF ConnectBegins
<1>3. CASE DisconnectBegins
  BY <1>3 DEF DisconnectBegins
<1>4. CASE DeleteBegins
  BY <1>4 DEF DeleteBegins
<1>5. CASE Bind
  BY <1>5 DEF Bind
<1>6. CASE Connect
  BY <1>6, FlushedQueue DEF Connect
<1>7. CASE Unbind
  BY <1>7, FlushedQueue DEF Unbind
<1>8. CASE Disconnect
  BY <1>8 DEF Disconnect
<1>9. CASE DisconnectResumed
  BY <1>9 DEF DisconnectResumed
<1>10. CASE DeleteSocket
  BY <1>10 DEF DeleteSocket
<1>11. QED
  BY <1>1, <1>2, <1>3, <1>4, <1>5, <1>6, <1>7, <1>8, <1>9, <1>10 DEF CallBegins, CallGoesOn

\* The steps of the other threads keep it.
LEMMA UserStepInv == ClientInv /\ UserStep => ClientInv'
<1> SUFFICES ASSUME ClientInv, NEW u \in Users,
                    Receive(u) \/ SendSuspends(u) \/ WaitTimesOut(u)
             PROVE  ClientInv'
  BY DEF UserStep
<1> USE QueueSizesOK DEF ClientInv, TypeOK, OpenIsBound, SendersServed, NoDataWaits,
                    CallsHaveSocket, ConnectOwns, CloserStays, States, Steps, Closing, ids,
                    waiters, Waiting, queue, Flushed
<1>1. CASE Receive(u)
  BY <1>1 DEF Receive, MayReceive
<1>2. CASE SendSuspends(u)
  BY <1>2 DEF SendSuspends
<1>3. CASE WaitTimesOut(u)
  BY <1>3 DEF WaitTimesOut
<1>4. QED
  BY <1>1, <1>2, <1>3

\* The steps of the IP thread and of the timers keep it.
LEMMA NetworkStepInv ==
  ClientInv /\ (Segment \/ TimedWaitExpires \/ WaitOptionEnds) => ClientInv'
<1> SUFFICES ASSUME ClientInv, Segment \/ TimedWaitExpires \/ WaitOptionEnds PROVE ClientInv'
  OBVIOUS
<1> USE QueueSizesOK DEF ClientInv, TypeOK, OpenIsBound, SendersServed, NoDataWaits,
                    CallsHaveSocket, ConnectOwns, CloserStays, States, Steps, Closing, ids,
                    waiters, Waiting, queue, Flushed, WakeDisconnect
<1>1. CASE SynAck
  BY <1>1 DEF SynAck
<1>2. CASE DataArrives
  <2>1. /\ rxReady' \in Nat /\ rxLate' \in Nat /\ rxReady' + rxLate' <= MaxRx
        /\ tailLost' \in BOOLEAN
        /\ receivers' \subseteq receivers
        /\ NoDataWaits'
    BY <1>2, DataArrivesQueue
  <2>2. UNCHANGED <<ids, state, bound, senders, pc>>
    BY <1>2 DEF DataArrives
  <2>3. QED
    BY <2>1, <2>2
<1>3. CASE WindowOpens
  BY <1>3 DEF WindowOpens
<1>4. CASE PeerCloses
  BY <1>4 DEF PeerCloses
<1>5. CASE CloseSegment
  BY <1>5 DEF CloseSegment, CloseMoves
<1>6. CASE LastAck
  BY <1>6 DEF LastAck
<1>7. CASE ConnectionReset
  BY <1>7, FlushedQueue DEF ConnectionReset
<1>8. CASE TimedWaitExpires
  BY <1>8 DEF TimedWaitExpires
<1>9. CASE ConnectTimesOut
  BY <1>9 DEF ConnectTimesOut
<1>10. CASE DisconnectTimesOut
  BY <1>10 DEF DisconnectTimesOut
<1>11. CASE LateArrives
  BY <1>11 DEF LateArrives
<1>12. QED
  BY <1>1, <1>2, <1>3, <1>4, <1>5, <1>6, <1>7, <1>8, <1>9, <1>10, <1>11
     DEF Segment, WaitOptionEnds

\* The invariant is inductive.
LEMMA ClientInvHolds == Spec => []ClientInv
<1>1. ClientInv /\ [Next]_vars => ClientInv'
  <2> SUFFICES ASSUME ClientInv, [Next]_vars PROVE ClientInv'
    OBVIOUS
  <2>1. CASE UNCHANGED vars
    BY <2>1 DEF vars, ClientInv, TypeOK, OpenIsBound, SendersServed, NoDataWaits,
                  CallsHaveSocket, ConnectOwns, CloserStays
  <2>2. CASE Next
    BY <2>2, CallStepInv, UserStepInv, NetworkStepInv DEF Next
  <2>3. QED
    BY <2>1, <2>2
<1>2. QED
  BY InitInv, <1>1, PTL DEF Spec

\* Every variable of the client keeps its type, the packet count its bound.
THEOREM ClientTypeCorrect == Spec => []TypeOK
<1>1. ClientInv => TypeOK
  BY DEF ClientInv
<1>2. QED
  BY <1>1, ClientInvHolds, PTL

\* A client socket that is not closed is bound and known to NetX, for any
\* number of threads and whatever interrupts the calls of the client.
THEOREM ClientOpenIsBound == Spec => []OpenIsBound
<1>1. ClientInv => OpenIsBound
  BY DEF ClientInv
<1>2. QED
  BY <1>1, ClientInvHolds, PTL

\* No sender of the client waits for a window that cannot open.
THEOREM ClientSendersServed == Spec => []SendersServed
<1>1. ClientInv => SendersServed
  BY DEF ClientInv
<1>2. QED
  BY <1>1, ClientInvHolds, PTL

\* No receiver of the client waits while a packet is there for it.
THEOREM ClientDataIsTaken == Spec => []NoDataWaits
<1>1. ClientInv => NoDataWaits
  BY DEF ClientInv
<1>2. QED
  BY <1>1, ClientInvHolds, PTL

\* Every end of a connection lets its receivers go, whoever brings it about.
THEOREM ClientReceiversReleased == Spec => ReceiversReleased
<1>1. ClientInv /\ [Next]_vars => [receivers \cap receivers' # {} /\ Awaited => Awaited']_vars
  <2> SUFFICES ASSUME ClientInv, Next, receivers \cap receivers' # {}, Awaited
               PROVE  Awaited'
    OBVIOUS
  <2> USE DEF ClientInv, TypeOK, CallsHaveSocket, ConnectOwns, CloserStays, Awaited, Closing, ids,
              waiters, queue, WakeDisconnect
  <2>1. CASE CallBegins
    BY <2>1 DEF CallBegins, Create, ConnectBegins, DisconnectBegins, DeleteBegins
  <2>2. CASE CallGoesOn
    <3>1. CASE Bind
      BY <3>1 DEF Bind
    <3>2. CASE Connect
      BY <3>2 DEF Connect
    <3>3. CASE Unbind
      BY <3>3 DEF Unbind
    <3>4. CASE Disconnect
      BY <3>4 DEF Disconnect
    <3>5. CASE DisconnectResumed
      BY <3>5 DEF DisconnectResumed
    <3>6. CASE DeleteSocket
      BY <3>6 DEF DeleteSocket
    <3>7. QED
      BY <2>2, <3>1, <3>2, <3>3, <3>4, <3>5, <3>6 DEF CallGoesOn
  <2>3. CASE UserStep
    BY <2>3 DEF UserStep, Receive, SendSuspends, WaitTimesOut
  <2>4. CASE Segment
    <3>1. CASE SynAck
      BY <3>1 DEF SynAck
    <3>2. CASE DataArrives \/ LateArrives \/ WindowOpens
      BY <3>2 DEF DataArrives, LateArrives, WindowOpens
    <3>3. CASE PeerCloses
      BY <3>3 DEF PeerCloses
    <3>4. CASE CloseSegment
      BY <3>4 DEF CloseSegment, CloseMoves
    <3>5. CASE LastAck
      BY <3>5 DEF LastAck
    <3>6. CASE ConnectionReset
      BY <3>6 DEF ConnectionReset
    <3>7. QED
      BY <2>4, <3>1, <3>2, <3>3, <3>4, <3>5, <3>6 DEF Segment
  <2>5. CASE TimedWaitExpires \/ WaitOptionEnds
    BY <2>5 DEF TimedWaitExpires, WaitOptionEnds, ConnectTimesOut, DisconnectTimesOut
  <2>6. QED
    BY <2>1, <2>2, <2>3, <2>4, <2>5 DEF Next
<1>2. QED
  BY <1>1, ClientInvHolds, PTL DEF Spec, ReceiversReleased
=============================================================================
