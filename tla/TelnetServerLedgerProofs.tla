---------------------- MODULE TelnetServerLedgerProofs ----------------------
(***************************************************************************)
(* What the application knows of the connections of its TELNET server.     *)
(* With any calls: no client stays connected without a new_connection.     *)
(* Without calls besides create and start: the timers, the sockets and the *)
(* counter agree with the open connections, and the server implements the  *)
(* ledger of ConnectionLedger.                                             *)
(***************************************************************************)
EXTENDS TelnetServerCallsProofs, FiniteSetTheorems

\* The invariant that is known already.
Known == Base /\ AcceptWaits /\ DisconnectWaits /\ Left

-----------------------------------------------------------------------------
(* Established sockets.                                                    *)

\* None of NetX's calls connects a socket.
LEMMA CallsConnectNobody ==
  ASSUME NetTypeOK, NEW j \in Slots, NEW i \in Slots,
         \/ UNCHANGED socketVars \/ Listen(j) \/ Relisten(j) \/ AcceptSuspends(j)
         \/ AcceptGivenUp(j) \/ Unaccept(j) \/ Receive(j) \/ DisconnectResumed(j)
         \/ \E wait \in BOOLEAN, th \in Threads : Disconnect(j, wait, th),
         socketState'[i] = "ESTABLISHED"
  PROVE  socketState[i] = "ESTABLISHED"
<1> USE DEF NetTypeOK, socketVars
<1>1. CASE UNCHANGED socketVars \/ Listen(j) \/ Relisten(j) \/ Receive(j)
  BY <1>1 DEF Listen, Relisten, Receive
<1>2. CASE AcceptSuspends(j) \/ AcceptGivenUp(j)
  BY <1>2 DEF AcceptSuspends, AcceptGivenUp
<1>3. CASE Unaccept(j)
  BY <1>3 DEF Unaccept
<1>4. CASE DisconnectResumed(j)
  BY <1>4 DEF DisconnectResumed, BlockCleanup, RestState
<1>5. CASE \E wait \in BOOLEAN, th \in Threads : Disconnect(j, wait, th)
  BY <1>5 DEF Disconnect, DisconnectSuspends, BlockCleanup, RestState
<1> QED
  BY <1>1, <1>2, <1>3, <1>4, <1>5

\* The network connects only the socket on which the server thread waits in accept,
\* and wakes it.
LEMMA NetworkConnects ==
  ASSUME NetTypeOK, AcceptWaits, Network, NEW i \in Slots,
         socketState'[i] = "ESTABLISHED", socketState[i] # "ESTABLISHED"
  PROVE  /\ pc = "conWait" /\ slot = i /\ connectWaiter' = None /\ acceptOk'
         /\ socketState[i] = "SYN_RECEIVED"
<1> USE DEF NetTypeOK, BlockCleanup, RestState
<1>1. CASE \E j \in Slots : HandshakeAck(j)
  <2>1. PICK j \in Slots : HandshakeAck(j)
    BY <1>1
  <2>2. j = i /\ socketState[i] = "SYN_RECEIVED"
    BY <2>1 DEF HandshakeAck
  <2>3. connectWaiter = i /\ pc = "conWait" /\ slot = i
    BY <2>2, SlotNotNone DEF AcceptWaits
  <2> QED
    BY <2>1, <2>2, <2>3 DEF HandshakeAck, WakeAccept
<1>2. CASE \E p \in Peers : SynArrives(p)
  BY <1>2 DEF SynArrives
<1>3. CASE \E k \in DOMAIN listenQueue : QueuedSynReset(k)
  BY <1>3 DEF QueuedSynReset, socketVars
<1>4. ASSUME NEW j \in Slots, DataArrives(j) \/ LastAck(j) \/ ConnectionReset(j) PROVE FALSE
  <2>1. CASE DataArrives(j)
    BY <2>1 DEF DataArrives
  <2>2. CASE LastAck(j)
    BY <2>2 DEF LastAck
  <2>3. CASE ConnectionReset(j)
    BY <2>3 DEF ConnectionReset
  <2> QED
    BY <1>4, <2>1, <2>2, <2>3
<1>5. CASE \E j \in Slots : \E to \in TcpStates : CloseSegment(j, to)
  BY <1>5 DEF CloseSegment, CloseMoves
<1>6. CASE NetTimer
  BY <1>6 DEF NetTimer, TimedWaitExpires, AcceptTimesOut, DisconnectTimesOut, socketVars
<1> QED
  BY <1>1, <1>2, <1>3, <1>4, <1>5, <1>6 DEF Network, PeerSegment

\* A step that connects a socket is a handshake under the accept of the server
\* thread, and no thread moves in it.
LEMMA EstablishedFrom ==
  ASSUME Base, AcceptWaits, [Next]_vars, NEW i \in Slots,
         socketState'[i] = "ESTABLISHED", socketState[i] # "ESTABLISHED"
  PROVE  /\ pc = "conWait" /\ slot = i /\ connectWaiter' = None /\ acceptOk'
         /\ socketState[i] = "SYN_RECEIVED"
         /\ UNCHANGED <<dataVars, kernelVars, threadVars, appVars>>
<1> USE DEF Base, NetInv
<1>1. CASE NetworkStep
  BY <1>1, NetworkConnects DEF NetworkStep
<1>2. CASE ServerThread
  BY <1>2, ThreadCalls, CallsConnectNobody, FirstSlot DEF Threads
<1>3. CASE TimerExpires \/ UNCHANGED vars
  BY <1>3 DEF TimerExpires, vars, netVars, socketVars
<1>4. CASE Application
  <2>0. appPc \notin {"idle", "discRelisten", "stopUnlisten", "delUnlisten"}
          \/ appSlot < MaxClients => appSlot \in Slots
    BY ConstantsOK DEF Control, ServerTypeOK, InRange, Slots
  <2>1. CASE Start
    BY <2>1, CallsConnectNobody, FirstSlot DEF Start
  <2>2. CASE \/ StopBegin \/ (\E j \in Slots : AppDisconnect(j)) \/ AppDisconnectFinish
             \/ DeleteSocket \/ (Create /\ CreateFails)
    BY <2>2 DEF StopBegin, AppDisconnect, AppDisconnectFinish, DeleteSocket, CreateFails, netVars,
                socketVars
  <2>3. CASE \/ StopDisconnect \/ AppDisconnectCall \/ DeleteDisconnect \/ AppDisconnectWait
    BY <2>0, <2>3, CallsConnectNobody
    DEF StopDisconnect, AppDisconnectCall, DeleteDisconnect, AppDisconnectWait, Threads
  <2>4. CASE StopUnaccept \/ AppDisconnectUnaccept \/ DeleteUnaccept \/ AppDisconnectRelisten
    BY <2>0, <2>4, CallsConnectNobody, FirstSlot
    DEF StopUnaccept, AppDisconnectUnaccept, DeleteUnaccept, AppDisconnectRelisten, netVars
  <2>5. CASE StopUnlisten \/ DeleteUnlisten
    BY <2>5 DEF StopUnlisten, DeleteUnlisten, Unlisten, NetTypeOK
  <2>6. CASE DeleteBegin
    BY <2>6 DEF DeleteBegin, TerminateThread, RestState, NetTypeOK
  <2>7. CASE Create /\ CreateSucceeds
    BY <2>7 DEF CreateSucceeds, SocketsCreated
  <2> QED
    BY <1>4, <2>1, <2>2, <2>3, <2>4, <2>5, <2>6, <2>7 DEF Application, AppContinues, Create
<1> QED
  BY <1>1, <1>2, <1>3, <1>4 DEF Next
-----------------------------------------------------------------------------
(* No client stays connected unannounced.                                  *)

\* accept has returned a client that new_connection does not know yet.
Accepted == \/ pc \in {"conArm", "conLoad", "conStore", "conNew"}
            \/ pc = "conWait" /\ connectWaiter = None /\ acceptOk

\* A connected client is announced, or is the one the server thread is about
\* to announce.
Serving ==
  pc # "none" => \A i \in Slots : socketState[i] = "ESTABLISHED" =>
    i \in session \/ (slot = i /\ Accepted)

\* Who is about to call connection_end has disconnected the socket, and nobody
\* accepts it meanwhile.
Ending ==
  /\ \/ pc \in {"disCall", "disWait", "disUnaccept", "disClear", "disLoad", "disStore", "disEnd",
                "timUnaccept", "timRelisten", "timLoad", "timStoreCount", "timEnd"}
     \/ pc = "disWhile" /\ resetRequest
     => socketState[slot] # "ESTABLISHED"
  /\ appPc \in {"discUnaccept", "discFinish"} =>
       socketState[appSlot] \notin {"ESTABLISHED", "SYN_RECEIVED"}

\* The network wakes an accept only while it waits, and begins none.
LEMMA NetworkAcceptsNobody ==
  ASSUME NetTypeOK, Network
  PROVE  /\ connectWaiter = None => UNCHANGED <<connectWaiter, acceptOk>>
         /\ \A i \in Slots :
              socketState'[i] = "SYN_RECEIVED" => socketState[i] = "SYN_RECEIVED"
<1> USE SlotNotNone DEF NetTypeOK, BlockCleanup, RestState, WakeAccept
<1>1. CASE \E i \in Slots : HandshakeAck(i) \/ ConnectionReset(i) \/ LastAck(i)
  BY <1>1 DEF HandshakeAck, ConnectionReset, LastAck
<1>2. CASE \E p \in Peers : SynArrives(p)
  BY <1>2 DEF SynArrives, waitVars
<1>3. CASE \E k \in DOMAIN listenQueue : QueuedSynReset(k)
  BY <1>3 DEF QueuedSynReset, socketVars, waitVars
<1>4. CASE \E j \in Slots : DataArrives(j)
  BY <1>4 DEF DataArrives, waitVars
<1>5. CASE \E j \in Slots : \E to \in TcpStates : CloseSegment(j, to)
  BY <1>5 DEF CloseSegment, CloseMoves
<1>6. CASE NetTimer
  BY <1>6 DEF NetTimer, TimedWaitExpires, AcceptTimesOut, DisconnectTimesOut, socketVars, waitVars
<1> QED
  BY <1>1, <1>2, <1>3, <1>4, <1>5, <1>6 DEF Network, PeerSegment

\* The application wakes an accept only while it waits, and begins none.
LEMMA ApplicationAcceptsNobody ==
  ASSUME Base, Application
  PROVE  /\ connectWaiter = None => connectWaiter' = None /\ acceptOk' = acceptOk
         /\ \A i \in Slots :
              socketState'[i] = "SYN_RECEIVED" => socketState[i] = "SYN_RECEIVED"
<1>0. appPc \notin {"idle", "discRelisten", "stopUnlisten", "delUnlisten"}
        \/ appSlot < MaxClients => appSlot \in Slots
  BY ConstantsOK DEF Base, Control, ServerTypeOK, InRange, Slots
<1> USE SlotNotNone, FirstSlot DEF Base, NetInv, NetTypeOK, socketVars, waitVars
<1>1. CASE Start
  BY <1>1 DEF Start, Listen
<1>2. CASE \/ StopBegin \/ (\E j \in Slots : AppDisconnect(j)) \/ AppDisconnectFinish
           \/ DeleteSocket \/ (Create /\ CreateFails)
  BY <1>2 DEF StopBegin, AppDisconnect, AppDisconnectFinish, DeleteSocket, CreateFails, netVars
<1>3. CASE StopDisconnect \/ AppDisconnectCall \/ DeleteDisconnect
  BY <1>0, <1>3
  DEF StopDisconnect, AppDisconnectCall, DeleteDisconnect, Disconnect, DisconnectSuspends,
      WakeAccept, BlockCleanup, RestState
<1>4. CASE AppDisconnectWait
  BY <1>0, <1>4 DEF AppDisconnectWait, DisconnectResumed, WakeAccept, BlockCleanup, RestState
<1>5. CASE StopUnaccept \/ AppDisconnectUnaccept \/ DeleteUnaccept
  BY <1>0, <1>5 DEF StopUnaccept, AppDisconnectUnaccept, DeleteUnaccept, Unaccept
<1>6. CASE AppDisconnectRelisten
  BY <1>0, <1>6 DEF AppDisconnectRelisten, Relisten, netVars
<1>7. CASE StopUnlisten \/ DeleteUnlisten
  BY <1>7 DEF StopUnlisten, DeleteUnlisten, Unlisten
<1>8. CASE DeleteBegin
  BY <1>8 DEF DeleteBegin, TerminateThread, RestState
<1>9. CASE Create /\ CreateSucceeds
  BY <1>9 DEF CreateSucceeds, SocketsCreated
<1> QED
  BY <1>1, <1>2, <1>3, <1>4, <1>5, <1>6, <1>7, <1>8, <1>9 DEF Application, AppContinues, Create

\* What the server thread does to the sessions and to the client it accepted.
LEMMA ThreadAnnounces ==
  ASSUME Base, AcceptWaits, ServerThread
  PROVE  /\ pc # "none" /\ pc' # "none"
         /\ \/ session' = session /\ pc # "conNew"
            \/ pc = "conNew" /\ session' = session \cup {slot}
            \/ pc \in {"disEnd", "timEnd"} /\ session' = session \ {slot}
         /\ pc \in {"conArm", "conLoad", "conStore"} =>
              pc' \in {"conLoad", "conStore", "conNew"} /\ slot' = slot
         /\ pc = "conWait" => \/ acceptOk /\ pc' = "conArm" /\ slot' = slot
                              \/ ~acceptOk
<1> USE DEF ThreadRuns, Goto, NextSlot, Done, Process, dataVars
<1>1. CASE GetEvents \/ SuspendSelf
  BY <1>1 DEF GetEvents, SuspendSelf
<1>2. CASE ConnectProcess
  BY <1>2 DEF ConnectProcess, ConnectScan, ConnectAccept, ConnectSuspend, ConnectWait,
              ConnectUnaccept, ConnectArm, LoadCount, ConnectStore, ConnectNew,
              ConnectOptions, RelistenLoop, Local, OnSockets, OnData
<1>3. CASE DataProcess
  BY <1>3 DEF DataProcess, DataScan, DataTouch, DataReceive, Local, OnSockets, OnData
<1>4. CASE DisconnectProcess
  BY <1>4 DEF DisconnectProcess, DisconnectScan, DisconnectWhile, DisconnectCall,
              DisconnectWait, DisconnectUnaccept, DisconnectClear, LoadCount,
              StoreDecremented, ConnectionEnd, RelistenLoop, Local, OnSockets, OnData
<1>5. CASE TimeoutProcess
  BY <1>5 DEF TimeoutProcess, TimeoutScan, TimeoutStore, TimeoutDisconnect, TimeoutUnaccept,
              TimeoutRelisten, LoadCount, StoreDecremented, ConnectionEnd, Local, OnSockets,
              OnData
<1> QED
  BY <1>1, <1>2, <1>3, <1>4, <1>5 DEF ServerThread

\* Every step leaves each connected client announced, or about to be.
LEMMA ServingInductive ==
  Base /\ AcceptWaits /\ Serving /\ Ending /\ [Next]_vars => Serving'
<1> SUFFICES ASSUME Base, AcceptWaits, Serving, Ending, [Next]_vars, pc' # "none",
                    NEW i \in Slots, socketState'[i] = "ESTABLISHED"
             PROVE  i \in session' \/ (slot' = i /\ Accepted')
  BY DEF Serving
<1>1. CASE socketState[i] # "ESTABLISHED"
  BY <1>1, EstablishedFrom DEF threadVars, Accepted
<1>2. CASE socketState[i] = "ESTABLISHED" /\ pc # "none"
  <2>0. i \in session \/ (slot = i /\ Accepted)
    BY <1>2 DEF Serving
  <2>1. CASE NetworkStep
    BY <2>0, <2>1, NetworkAcceptsNobody
    DEF NetworkStep, threadVars, dataVars, Accepted, Base, NetInv
  <2>2. CASE TimerExpires \/ UNCHANGED vars
    BY <2>0, <2>2
    DEF TimerExpires, vars, netVars, waitVars, threadVars, dataVars, Accepted
  <2>3. CASE ServerThread
    <3>1. CASE i \in session
      BY <3>1, <2>3, <1>2, ThreadAnnounces DEF Ending
    <3>2. CASE slot = i /\ Accepted
      <4>1. pc = "conWait" => acceptOk
        BY <3>2 DEF Accepted
      <4> QED
        BY <3>2, <4>1, <2>3, ThreadAnnounces DEF Accepted
    <3> QED
      BY <2>0, <3>1, <3>2
  <2>4. CASE Application
    <3>1. connectWaiter = None => connectWaiter' = None /\ acceptOk' = acceptOk
      BY <2>4, ApplicationAcceptsNobody
    <3>2. CASE AppDisconnectFinish
      <4>1. i # appSlot
        BY <1>2, <3>2 DEF Ending, AppDisconnectFinish
      <4> QED
        BY <2>0, <3>1, <3>2, <4>1 DEF AppDisconnectFinish, threadVars, Accepted
    <3>3. CASE Create
      BY <3>3, <1>2 DEF Create, CreateFails, CreateSucceeds, SocketsCreated, Base, Existing,
                        Ready, Objects
    <3>4. CASE DeleteBegin
      BY <3>4 DEF DeleteBegin, TerminateThread
    <3>5. CASE Start
      BY <2>0, <3>1, <3>5 DEF Start, dataVars, Accepted
    <3>6. UNCHANGED <<pc, slot, session>>
            \/ AppDisconnectFinish \/ Create \/ DeleteBegin \/ Start
      BY <2>4 DEF Application, AppContinues, StopBegin, AppDisconnect, StopDisconnect,
                  StopUnaccept, StopUnlisten, AppDisconnectCall, AppDisconnectWait,
                  AppDisconnectUnaccept, AppDisconnectRelisten, DeleteDisconnect, DeleteUnaccept,
                  DeleteSocket, DeleteUnlisten, threadVars, dataVars
    <3> QED
      BY <2>0, <3>1, <3>2, <3>3, <3>4, <3>5, <3>6 DEF Accepted
  <2> QED
    BY <2>1, <2>2, <2>3, <2>4 DEF Next
<1>3. CASE socketState[i] = "ESTABLISHED" /\ pc = "none"
  <2>1. ~Create
    <3> SUFFICES ASSUME Create PROVE FALSE
      OBVIOUS
    <3>1. CASE CreateFails
      BY <1>3, <3>1 DEF CreateFails, threadVars
    <3>2. CASE CreateSucceeds
      BY <3>2 DEF CreateSucceeds, SocketsCreated
    <3> QED
      BY <3>1, <3>2 DEF Create
  <2>2. ~ServerThread
    BY <1>3, ThreadAnnounces
  <2> QED
    BY <1>3, <2>1, <2>2
    DEF Next, NetworkStep, TimerExpires, vars, Application, AppContinues, Start, StopBegin,
        AppDisconnect, DeleteBegin, TerminateThread, StopDisconnect, StopUnaccept, StopUnlisten,
        AppDisconnectCall, AppDisconnectWait, AppDisconnectUnaccept, AppDisconnectFinish,
        AppDisconnectRelisten, DeleteDisconnect, DeleteUnaccept, DeleteSocket, DeleteUnlisten,
        threadVars
<1> QED
  BY <1>1, <1>2, <1>3

\* Where the server thread is about to call connection_end.
ThreadEnds == \/ pc \in {"disCall", "disWait", "disUnaccept", "disClear", "disLoad", "disStore",
                         "disEnd", "timUnaccept", "timRelisten", "timLoad", "timStoreCount",
                         "timEnd"}
              \/ pc = "disWhile" /\ resetRequest

\* disconnect_process and timeout_processing disconnect a socket before they end
\* its connection, or have found it disconnected.
LEMMA ThreadEndsDisconnected ==
  ASSUME Base, AcceptWaits, Ending, ServerThread, ThreadEnds'
  PROVE  socketState'[slot'] # "ESTABLISHED"
<1> SUFFICES ASSUME socketState'[slot'] = "ESTABLISHED" PROVE FALSE
  OBVIOUS
<1> USE DEF ThreadRuns, Goto, NextSlot, Done, Process, ThreadEnds
<1>0. slot' \in Slots
  <2>1. Control'
    BY ControlInductive DEF Base, Next
  <2> QED
    BY <2>1, ConstantsOK DEF Control, ServerTypeOK, InRange, LoopPcs, Slots
<1>1. socketState[slot'] = "ESTABLISHED"
  BY <1>0, EstablishedFrom DEF Next, threadVars
<1>2. ~(UNCHANGED slot /\ ThreadEnds)
  BY <1>1 DEF Ending
<1>3. CASE GetEvents \/ SuspendSelf \/ ConnectProcess \/ DataProcess
  BY <1>3 DEF GetEvents, SuspendSelf, ConnectProcess, ConnectScan, ConnectAccept, ConnectSuspend,
              ConnectWait, ConnectUnaccept, ConnectArm, LoadCount, ConnectStore, ConnectNew,
              ConnectOptions, RelistenLoop, DataProcess, DataScan, DataTouch, DataReceive
<1>4. CASE DisconnectProcess
  BY <1>1, <1>2, <1>4
  DEF DisconnectProcess, DisconnectScan, DisconnectWhile, DisconnectCall, DisconnectWait,
      DisconnectUnaccept, DisconnectClear, LoadCount, StoreDecremented, ConnectionEnd,
      RelistenLoop, WasReset, AfterEstablished
<1>5. CASE TimeoutDisconnect
  BY <1>0, <1>1, <1>5
  DEF TimeoutDisconnect, Disconnect, DisconnectSuspends, BlockCleanup, RestState, Base, NetInv,
      NetTypeOK
<1>6. CASE TimeoutProcess /\ ~TimeoutDisconnect
  BY <1>2, <1>6
  DEF TimeoutProcess, TimeoutScan, TimeoutStore, TimeoutUnaccept, TimeoutRelisten, LoadCount,
      StoreDecremented, ConnectionEnd
<1> QED
  BY <1>3, <1>4, <1>5, <1>6 DEF ServerThread

\* The application's disconnect, too; the server thread does not accept the socket
\* until that call is over.
LEMMA AppEndsDisconnected ==
  ASSUME Base, AcceptWaits, DisconnectWaits, Ending, [Next]_vars,
         appPc' \in {"discUnaccept", "discFinish"}
  PROVE  socketState'[appSlot'] \notin {"ESTABLISHED", "SYN_RECEIVED"}
<1>0. appPc \notin {"idle", "discRelisten", "stopUnlisten", "delUnlisten"} => appSlot \in Slots
  BY ConstantsOK DEF Base, Control, ServerTypeOK, InRange, Slots
<1>1. CASE NetworkStep
  <2>1. UNCHANGED <<appPc, appSlot>> /\ Network
    BY <1>1 DEF NetworkStep, appVars
  <2>2. /\ appSlot \in Slots
        /\ socketState[appSlot] \notin {"ESTABLISHED", "SYN_RECEIVED"}
    BY <1>0, <2>1 DEF Ending
  <2> QED
    BY <2>1, <2>2, NetworkAcceptsNobody, EstablishedFrom DEF Base, NetInv
<1>2. CASE ServerThread
  BY <1>2, ThreadMoves
<1>3. CASE TimerExpires \/ UNCHANGED vars
  BY <1>3 DEF TimerExpires, vars, netVars, socketVars, appVars, Ending
<1>4. CASE AppDisconnectCall
  BY <1>0, <1>4 DEF AppDisconnectCall, AppGoto, Disconnect, DisconnectSuspends, RestState, Base,
                    NetInv, NetTypeOK
<1>5. CASE AppDisconnectWait
  BY <1>0, <1>5 DEF AppDisconnectWait, AppGoto, DisconnectResumed, BlockCleanup, RestState, Base,
                    NetInv, NetTypeOK
<1>6. CASE AppDisconnectUnaccept
  BY <1>0, <1>6 DEF AppDisconnectUnaccept, AppGoto, Unaccept, Ending, Base,
                    NetInv, NetTypeOK, socketVars
<1>7. CASE Application /\ ~AppDisconnectCall /\ ~AppDisconnectWait /\ ~AppDisconnectUnaccept
  BY <1>7 DEF Application, AppContinues, Create, CreateFails, CreateSucceeds, Start, StopBegin,
              AppDisconnect, DeleteBegin, AppCall, StopDisconnect, StopUnaccept, StopUnlisten,
              AppDisconnectFinish, AppDisconnectRelisten, DeleteDisconnect, DeleteUnaccept,
              DeleteSocket, DeleteUnlisten, AppGoto, appVars
<1> QED
  BY <1>1, <1>2, <1>3, <1>4, <1>5, <1>6, <1>7 DEF Next

\* While one thread is about to end a connection, the others do not connect its
\* socket.
LEMMA EndingInductive ==
  Base /\ AcceptWaits /\ DisconnectWaits /\ Ending /\ [Next]_vars => Ending'
<1> SUFFICES ASSUME Base, AcceptWaits, DisconnectWaits, Ending, [Next]_vars PROVE Ending'
  OBVIOUS
<1>1. ASSUME ThreadEnds' PROVE socketState'[slot'] # "ESTABLISHED"
  <2>1. CASE ServerThread
    BY <1>1, <2>1, ThreadEndsDisconnected
  <2>2. CASE UNCHANGED <<pc, slot, resetRequest>>
    <3>1. /\ slot \in Slots /\ pc # "conWait"
          /\ socketState[slot] # "ESTABLISHED"
      BY <1>1, <2>2, ConstantsOK
      DEF ThreadEnds, Ending, Base, Control, ServerTypeOK, InRange, LoopPcs, Slots
    <3> QED
      BY <2>2, <3>1, EstablishedFrom
  <2>3. CASE Start \/ DeleteBegin \/ (Create /\ CreateSucceeds)
    <3>1. pc' \notin {"get", "none", "suspended"} => UNCHANGED <<pc, slot, resetRequest>>
      BY <2>3 DEF Start, DeleteBegin, TerminateThread, CreateSucceeds
    <3> QED
      BY <1>1, <2>2, <3>1 DEF ThreadEnds
  <2> QED
    BY <2>1, <2>2, <2>3
    DEF Next, NetworkStep, TimerExpires, vars, threadVars, Application, AppContinues, Create,
        CreateFails, StopBegin, AppDisconnect, StopDisconnect, StopUnaccept, StopUnlisten,
        AppDisconnectCall, AppDisconnectWait, AppDisconnectUnaccept, AppDisconnectFinish,
        AppDisconnectRelisten, DeleteDisconnect, DeleteUnaccept, DeleteSocket, DeleteUnlisten
<1> QED
  BY <1>1, AppEndsDisconnected DEF Ending, ThreadEnds

\* The invariant, with what is known already.
LEMMA ServingInvariant == Spec => [](Known /\ Serving /\ Ending)
<1>1. Init => Serving /\ Ending
  BY DEF Init, Serving, Ending
<1>2. Known /\ Serving /\ Ending /\ [Next]_vars => Serving' /\ Ending'
  BY ServingInductive, EndingInductive DEF Known
<1>3. Spec => []Known
  BY LeftInvariant, PTL DEF Known
<1> QED
  BY <1>1, <1>2, <1>3, PTL DEF Spec

\* Once the server thread has handled its events and no call is under way, every
\* connected client was announced by new_connection, whatever calls were made.
THEOREM ClientsAreServed == Spec => []EstablishedIsServed
<1>1. Serving => EstablishedIsServed
  BY DEF Serving, Accepted, EstablishedIsServed, Idle
<1> QED
  BY <1>1, ServingInvariant, PTL
-----------------------------------------------------------------------------
(* Without calls besides create and start.                                 *)

\* The server is created and started, and then only its thread, its timer and
\* the network move; before that it has no connections.
OnlyStarted ==
  /\ appPc = "idle"
  /\ "STOP" \notin events /\ pc # "suspend"
  /\ Ready => pc # "none"
  /\ listening <=> pc \notin {"none", "suspended"}
  /\ ~listening => /\ session = {} /\ openConnections = 0
                   /\ \A i \in Slots : activityTimeout[i] = 0

\* The steps that are left then.
LEMMA StepsWithoutCalls ==
  ASSUME AppCalls = {}, Base, OnlyStarted, [Next]_vars
  PROVE  \/ ServerThread
         \/ Network /\ UNCHANGED <<dataVars, kernelVars, threadVars, appVars>>
         \/ TimerExpires \/ UNCHANGED vars
         \/ Create /\ CreateFails
         \/ Create /\ CreateSucceeds /\ pc = "none"
         \/ Start /\ pc = "suspended" /\ pc' = "get"
<1>1. ~StopBegin /\ ~(\E i \in Slots : AppDisconnect(i)) /\ ~DeleteBegin
  BY DEF StopBegin, AppDisconnect, DeleteBegin, AppCall
<1>2. ~AppContinues
  BY DEF OnlyStarted, AppContinues, StopDisconnect, StopUnaccept, StopUnlisten, AppDisconnectCall,
         AppDisconnectWait, AppDisconnectUnaccept, AppDisconnectFinish, AppDisconnectRelisten,
         DeleteDisconnect, DeleteUnaccept, DeleteSocket, DeleteUnlisten
<1>3. Create => pc = "none"
  BY DEF Create, Base, Existing, Ready, Objects
<1>4. Start => pc = "suspended" /\ pc' = "get"
  BY DEF Start, ListenWorks, OnlyStarted
<1> QED
  BY <1>1, <1>2, <1>3, <1>4 DEF Next, Application, NetworkStep, Create

\* Neither the network nor the timer asks the server thread to stop.
LEMMA NobodyStops ==
  ASSUME "STOP" \notin events, Network \/ TimerExpires
  PROVE  "STOP" \notin events' /\ UNCHANGED listening
<1>1. CASE TimerExpires
  BY <1>1 DEF TimerExpires, Signal, listenVars
<1>2. CASE NetTimer
  BY <1>2 DEF NetTimer, TimedWaitExpires, AcceptTimesOut, DisconnectTimesOut, listenVars
<1>3. CASE \E p \in Peers : SynArrives(p)
  BY <1>3 DEF SynArrives, Signal
<1>4. CASE \E k \in DOMAIN listenQueue : QueuedSynReset(k)
  BY <1>4 DEF QueuedSynReset
<1>5. ASSUME NEW i \in Slots,
             HandshakeAck(i) \/ DataArrives(i) \/ LastAck(i) \/ ConnectionReset(i)
      PROVE  "STOP" \notin events' /\ UNCHANGED listening
  <2>1. UNCHANGED listening
    BY <1>5 DEF HandshakeAck, DataArrives, LastAck, ConnectionReset, listenVars
  <2>2. events' \in {events, events \cup {"DATA"}, events \cup {"DISCONNECT"}}
    BY <1>5 DEF HandshakeAck, DataArrives, LastAck, ConnectionReset, Signal
  <2> QED
    BY <2>1, <2>2
<1>6. CASE \E i \in Slots : \E to \in TcpStates : CloseSegment(i, to)
  BY <1>6 DEF CloseSegment, Signal, listenVars
<1> QED
  BY <1>1, <1>2, <1>3, <1>4, <1>5, <1>6 DEF Network, PeerSegment

\* The server thread keeps running, and leaves the port open.
LEMMA ThreadKeepsRunning ==
  ASSUME ServerThread, "STOP" \notin events, pc # "suspend"
  PROVE  /\ pc \notin {"none", "suspended"} /\ pc' \notin {"none", "suspend", "suspended"}
         /\ "STOP" \notin events'
         /\ UNCHANGED <<listening, appPc, appSlot, appCalls, timerActive, objects, sockets>>
<1> USE DEF ThreadRuns, Goto, NextSlot, Done, Process, listenVars, kernelVars, appVars
<1>1. CASE GetEvents \/ SuspendSelf
  BY <1>1 DEF GetEvents, SuspendSelf
<1>2. CASE ConnectProcess
  BY <1>2 DEF ConnectProcess, ConnectScan, ConnectAccept, ConnectSuspend, ConnectWait,
              ConnectUnaccept, ConnectArm, LoadCount, ConnectStore, ConnectNew,
              ConnectOptions, RelistenLoop, Local, OnSockets, OnData, netVars, AcceptSuspends,
              AcceptGivenUp, Unaccept, Relisten, Signal
<1>3. CASE DataProcess
  BY <1>3 DEF DataProcess, DataScan, DataTouch, DataReceive, Local, OnSockets, OnData, netVars,
              Receive
<1>4. CASE DisconnectProcess
  BY <1>4 DEF DisconnectProcess, DisconnectScan, DisconnectWhile, DisconnectCall,
              DisconnectWait, DisconnectUnaccept, DisconnectClear, LoadCount,
              StoreDecremented, ConnectionEnd, RelistenLoop, Local, OnSockets, OnData, netVars,
              Disconnect, DisconnectResumed, Unaccept, Relisten, Signal
<1>5. CASE TimeoutProcess
  BY <1>5 DEF TimeoutProcess, TimeoutScan, TimeoutStore, TimeoutDisconnect, TimeoutUnaccept,
              TimeoutRelisten, LoadCount, StoreDecremented, ConnectionEnd, Local, OnSockets,
              OnData, netVars, Disconnect, Unaccept, Relisten, Signal
<1> QED
  BY <1>1, <1>2, <1>3, <1>4, <1>5 DEF ServerThread

\* Only create and start happen before the server runs, and nothing ends it then.
LEMMA OnlyStartedInductive ==
  ASSUME AppCalls = {}, Base, OnlyStarted, [Next]_vars
  PROVE  OnlyStarted'
<1> USE DEF OnlyStarted, Ready, threadVars, dataVars, kernelVars, appVars
<1>1. CASE ServerThread
  BY <1>1, ThreadKeepsRunning
<1>2. CASE Network /\ UNCHANGED <<dataVars, kernelVars, threadVars, appVars>>
  BY <1>2, NobodyStops
<1>3. CASE TimerExpires \/ UNCHANGED vars
  BY <1>3, NobodyStops DEF TimerExpires, vars, netVars, listenVars
<1>4. CASE Create /\ CreateFails
  BY <1>4 DEF Create, CreateFails, Undone, netVars, listenVars, Objects
<1>5. CASE Create /\ CreateSucceeds /\ pc = "none"
  BY <1>5 DEF Create, CreateSucceeds, SocketsCreated, listenVars
<1>6. CASE Start /\ pc = "suspended" /\ pc' = "get"
  BY <1>6 DEF Start, Listen
<1> QED
  BY <1>1, <1>2, <1>3, <1>4, <1>5, <1>6, StepsWithoutCalls

\* Where the server thread has stopped the activity timer of a connection, or
\* found it at zero, and not yet called connection_end.
EndPcs == {"disLoad", "disStore", "disEnd", "timDisconnect", "timUnaccept", "timRelisten",
           "timLoad", "timStoreCount", "timEnd"}

\* The timer of a connection runs from before new_connection until the server
\* thread begins to end it.
Armed(i) == \/ i \in session /\ ~(slot = i /\ pc \in EndPcs)
            \/ slot = i /\ pc \in {"conLoad", "conStore", "conNew"}
Timers ==
  /\ \A i \in Slots : activityTimeout[i] > 0 <=> Armed(i)
  /\ pc = "timStore" => register = activityTimeout[slot] - 1

\* The server thread serves and ends only announced connections, and accepts
\* only for slots that have none.
HoldPcs == EndPcs \cup {"disCall", "disWait", "disUnaccept", "disClear", "datTouch",
                        "datReceive", "timStore", "conOptions"}
AcceptPcs == {"conAccept", "conSuspend", "conWait", "conUnaccept", "conArm", "conLoad",
              "conStore", "conNew"}
Announced ==
  /\ pc \in HoldPcs \/ (pc = "disWhile" /\ resetRequest) => slot \in session
  /\ pc \in AcceptPcs => slot \notin session

\* The socket of a connection that accept has returned and nobody has unaccepted
\* is in use; any other socket has no client and no data.  A socket of the
\* client's kind is closed, so one that is about to be given up is not closed.
Released == pc \in {"disClear", "disLoad", "disStore", "disEnd", "timRelisten", "timLoad",
                    "timStoreCount", "timEnd"}
Uses(i) == \/ i \in session /\ ~(slot = i /\ Released)
           \/ slot = i /\ Accepted
Used(i) == /\ bound[i] /\ ~clientType[i] /\ socketState[i] \notin {"CLOSED", "SYN_RECEIVED"}
           /\ socketState[i] = "LISTEN" => connectPort[i] = None
Unused(i) == socketState[i] \in {"CLOSED", "LISTEN", "SYN_RECEIVED"} /\ rxCount[i] = 0
InUse ==
  /\ \A i \in Slots : /\ Uses(i) => Used(i)
                      /\ ~Uses(i) => Unused(i)
                      /\ clientType[i] => socketState[i] = "CLOSED"
  /\ pc \in {"conAccept", "conSuspend", "conWait"} => ~clientType[slot]

\* Steps that leave the thread and its data alone keep what is said of them.
LEMMA DataKept ==
  ASSUME UNCHANGED <<activityTimeout, session, threadVars>>
  PROVE  (Timers => Timers') /\ (Announced => Announced')
  BY DEF threadVars, Timers, Armed, Announced

\* The server thread arms, renews, counts down and stops the timers.
LEMMA ThreadTimers ==
  ASSUME Base, Timers, Announced, ServerThread
  PROVE  Timers'
<1>0. pc \notin LoopPcs \/ slot < MaxClients => slot \in Slots
  BY ConstantsOK DEF Base, Control, ServerTypeOK, InRange, Slots
<1>a. /\ ActivityPeriods \in Nat \ {0}
      /\ activityTimeout \in [Slots -> 0 .. ActivityPeriods]
      /\ slot + 1 # slot /\ session \subseteq Slots /\ slot \in Nat
  BY ServerConstantsOK, ConstantsOK DEF Base, Control, ServerTypeOK
<1> USE <1>a DEF ThreadRuns, Goto, NextSlot, Done, Process, Timers, Armed, Announced, dataVars,
                 EndPcs, HoldPcs, AcceptPcs, LoopPcs
<1>1. CASE GetEvents \/ SuspendSelf
  BY <1>1 DEF GetEvents, SuspendSelf
<1>2. CASE ConnectProcess
  BY <1>0, <1>2
  DEF ConnectProcess, ConnectScan, ConnectAccept, ConnectSuspend, ConnectWait,
      ConnectUnaccept, ConnectArm, LoadCount, ConnectStore, ConnectNew,
      ConnectOptions, RelistenLoop, Local, OnSockets, OnData
<1>3. CASE DataProcess
  BY <1>0, <1>3 DEF DataProcess, DataScan, DataTouch, DataReceive, Local, OnSockets, OnData
<1>4. CASE DisconnectClear
  BY <1>0, <1>4 DEF DisconnectClear, OnData
<1>5. CASE TimeoutStore
  BY <1>0, <1>5 DEF TimeoutStore, OnData
<1>6. CASE ConnectionEnd("disEnd", "disScan") \/ ConnectionEnd("timEnd", "timScan")
  BY <1>0, <1>6 DEF ConnectionEnd, OnData
<1>7. CASE \/ LoadCount("disLoad", "disStore") \/ StoreDecremented("disStore", "disEnd")
           \/ LoadCount("timLoad", "timStoreCount") \/ StoreDecremented("timStoreCount", "timEnd")
  BY <1>7 DEF LoadCount, StoreDecremented, Local, OnData
<1>8. CASE \/ DisconnectScan \/ DisconnectWhile \/ DisconnectCall \/ DisconnectWait
           \/ DisconnectUnaccept \/ RelistenLoop("disRelisten", "DISCONNECT")
  BY <1>8 DEF DisconnectScan, DisconnectWhile, DisconnectCall, DisconnectWait, DisconnectUnaccept,
              RelistenLoop, Local, OnSockets
<1>9. CASE TimeoutScan \/ TimeoutDisconnect \/ TimeoutUnaccept \/ TimeoutRelisten
  BY <1>9 DEF TimeoutScan, TimeoutDisconnect, TimeoutUnaccept, TimeoutRelisten, Local, OnSockets
<1> QED
  BY <1>1, <1>2, <1>3, <1>4, <1>5, <1>6, <1>7, <1>8, <1>9
  DEF ServerThread, DisconnectProcess, TimeoutProcess

\* It turns to a connection for what the timers and the sockets say of it.
LEMMA ThreadAnnounced ==
  ASSUME Base, Timers, Announced, InUse, ServerThread
  PROVE  Announced'
<1>0. pc \notin LoopPcs \/ slot < MaxClients => slot \in Slots
  BY ConstantsOK DEF Base, Control, ServerTypeOK, InRange, Slots
<1>a. slot + 1 # slot /\ slot \in Nat
  BY ConstantsOK DEF Base, Control, ServerTypeOK
<1> USE <1>a DEF ThreadRuns, Goto, NextSlot, Done, Process, Announced, dataVars,
                 EndPcs, HoldPcs, AcceptPcs, LoopPcs
<1>1. CASE GetEvents \/ SuspendSelf
  BY <1>1 DEF GetEvents, SuspendSelf
<1>2. CASE ConnectProcess
  <2>1. pc = "conScan" /\ slot \in Slots /\ BeingConnected(slot) => slot \notin session
    BY DEF BeingConnected, InUse, Uses, Used, Released
  <2> QED
    BY <1>0, <1>2, <2>1
    DEF ConnectProcess, ConnectScan, ConnectAccept, ConnectSuspend, ConnectWait,
        ConnectUnaccept, ConnectArm, LoadCount, ConnectStore, ConnectNew,
        ConnectOptions, RelistenLoop, Local, OnSockets, OnData
<1>3. CASE DataProcess
  <2>1. pc = "datScan" /\ slot \in Slots /\ rxCount[slot] > 0 => slot \in session
    BY DEF InUse, Uses, Unused, Accepted
  <2> QED
    BY <1>0, <1>3, <2>1
    DEF DataProcess, DataScan, DataTouch, DataReceive, Local, OnSockets, OnData
<1>4. CASE DisconnectProcess
  <2>1. pc = "disScan" /\ slot \in Slots /\ WasReset(slot) => slot \in session
    BY DEF WasReset, Timers, Armed
  <2>2. pc = "disWhile" /\ slot \in Slots /\ socketState[slot] \in AfterEstablished
          => slot \in session
    BY DEF InUse, Uses, Unused, Accepted, AfterEstablished
  <2> QED
    BY <1>0, <1>4, <2>1, <2>2
    DEF DisconnectProcess, DisconnectScan, DisconnectWhile, DisconnectCall,
        DisconnectWait, DisconnectUnaccept, DisconnectClear, LoadCount,
        StoreDecremented, ConnectionEnd, RelistenLoop, Local, OnSockets, OnData
<1>5. CASE TimeoutProcess
  <2>1. pc = "timScan" /\ slot \in Slots /\ activityTimeout[slot] > 0 => slot \in session
    BY DEF Timers, Armed
  <2> QED
    BY <1>0, <1>5, <2>1
    DEF TimeoutProcess, TimeoutScan, TimeoutStore, TimeoutDisconnect, TimeoutUnaccept,
        TimeoutRelisten, LoadCount, StoreDecremented, ConnectionEnd, Local, OnSockets, OnData
<1> QED
  BY <1>1, <1>2, <1>3, <1>4, <1>5 DEF ServerThread

\* A step in which no thread moves and no accept succeeds: every socket stays in
\* use, or out of use.
LEMMA InUseKept ==
  ASSUME InUse, UNCHANGED <<pc, slot, session, clientType>>,
         \/ UNCHANGED <<connectWaiter, acceptOk>>
         \/ connectWaiter # None /\ connectWaiter' = None /\ ~acceptOk',
         \A i \in Slots : Used(i) /\ ~(connectWaiter = i) => Used(i)',
         \A i \in Slots : Unused(i) => Unused(i)',
         \A i \in Slots : clientType[i] => socketState'[i] = "CLOSED",
         AcceptWaits, Announced
  PROVE  InUse'
<1>1. ASSUME NEW i \in Slots PROVE Uses(i)' <=> Uses(i)
  BY DEF Uses, Accepted, Released
<1>2. ASSUME NEW i \in Slots, Uses(i) PROVE connectWaiter # i
  BY <1>2, SlotNotNone DEF AcceptWaits, Announced, AcceptPcs, Uses, Accepted
<1> QED
  BY <1>1, <1>2 DEF InUse

\* The network serves a client on a socket in use, and puts one into use by waking
\* the accept that waits for it.
LEMMA NetworkInUse ==
  ASSUME Base, AcceptWaits, Announced, InUse, Network,
         UNCHANGED <<dataVars, kernelVars, threadVars, appVars>>
  PROVE  InUse'
<1> USE SlotNotNone DEF Base, NetInv, NetTypeOK, dataVars, threadVars, BlockCleanup, RestState,
                        WakeAccept, socketVars, waitVars
<1>0. UNCHANGED clientType
  BY DEF Network, PeerSegment, NetTimer, SynArrives, QueuedSynReset, HandshakeAck, DataArrives,
         LastAck, ConnectionReset, CloseSegment, TimedWaitExpires, AcceptTimesOut,
         DisconnectTimesOut
<1>1. CASE \E i \in Slots : HandshakeAck(i)
  <2>1. PICK i \in Slots : HandshakeAck(i)
    BY <1>1
  <2>2. connectWaiter = i /\ pc = "conWait" /\ slot = i
    BY <2>1 DEF HandshakeAck, AcceptWaits
  <2>3. connectWaiter' = None /\ acceptOk'
    BY <2>1, <2>2 DEF HandshakeAck
  <2>4. \A j \in Slots : Uses(j)' <=> Uses(j) \/ j = i
    BY <2>2, <2>3 DEF Uses, Accepted, Released
  <2>5. ~clientType[i] /\ Used(i)'
    BY <2>1 DEF HandshakeAck, InUse, Used
  <2>6. \A j \in Slots \ {i} : /\ Used(j)' <=> Used(j)
                               /\ Unused(j)' <=> Unused(j)
                               /\ socketState'[j] = socketState[j]
    BY <2>1 DEF HandshakeAck, Used, Unused
  <2> QED
    BY <1>0, <2>2, <2>4, <2>5, <2>6 DEF InUse
<1>2. CASE \E p \in Peers : SynArrives(p)
  <2>1. listenSocket # None => ~bound[listenSocket]
    BY DEF ListenerSound
  <2>2. UNCHANGED <<socketState, clientType, rxCount>>
    BY <1>2 DEF SynArrives
  <2>3. \A i \in Slots : bound[i] => /\ bound'[i]
                                    /\ connectPort'[i] = connectPort[i]
    BY <1>2, <2>1 DEF SynArrives
  <2>4. UNCHANGED <<connectWaiter, acceptOk>>
    BY <1>2 DEF SynArrives
  <2>5. \A i \in Slots : /\ Used(i) => Used(i)'
                         /\ Unused(i) => Unused(i)'
    BY <2>2, <2>3 DEF Used, Unused
  <2> QED
    BY <1>0, <2>2, <2>4, <2>5, InUseKept DEF InUse
<1>3. CASE \E k \in DOMAIN listenQueue : QueuedSynReset(k)
  BY <1>0, <1>3, InUseKept DEF QueuedSynReset, Used, Unused, InUse
<1>4. CASE \E i \in Slots : DataArrives(i)
  BY <1>0, <1>4, InUseKept DEF DataArrives, Used, Unused, InUse
<1>5. CASE \E i \in Slots : LastAck(i)
  BY <1>0, <1>5, InUseKept DEF LastAck, Used, Unused, InUse
<1>6. CASE \E i \in Slots : ConnectionReset(i)
  BY <1>0, <1>6, InUseKept DEF ConnectionReset, Used, Unused, InUse
<1>7. CASE \E i \in Slots : \E to \in TcpStates : CloseSegment(i, to)
  BY <1>0, <1>7, InUseKept DEF CloseSegment, CloseMoves, Used, Unused, InUse
<1>8. CASE \E i \in Slots : TimedWaitExpires(i)
  BY <1>0, <1>8, InUseKept DEF TimedWaitExpires, Used, Unused, InUse
<1>9. CASE \E i \in Slots : AcceptTimesOut(i)
  BY <1>0, <1>9, InUseKept DEF AcceptTimesOut, Used, Unused, InUse
<1>10. CASE \E i \in Slots : DisconnectTimesOut(i)
  BY <1>0, <1>10, InUseKept DEF DisconnectTimesOut, Used, Unused, InUse
<1> QED
  BY <1>1, <1>2, <1>3, <1>4, <1>5, <1>6, <1>7, <1>8, <1>9, <1>10
  DEF Network, PeerSegment, NetTimer

\* The server thread takes a socket into use when accept returns, gives it up when
\* it unaccepts it, and uses NetX on it between the two.
LEMMA ThreadInUse ==
  ASSUME Base, AcceptWaits, DisconnectWaits, Ending, Announced, InUse, ServerThread
  PROVE  InUse'
<1>0. pc \notin LoopPcs \/ slot < MaxClients => slot \in Slots
  BY ConstantsOK DEF Base, Control, ServerTypeOK, InRange, Slots
<1>a. session \subseteq Slots /\ slot \in Nat /\ slot + 1 # slot
  BY ConstantsOK DEF Base, Control, ServerTypeOK
<1> USE <1>a, SlotNotNone
        DEF ThreadRuns, Goto, NextSlot, Done, Process, LoopPcs, Base, NetInv, NetTypeOK, dataVars,
            socketVars, listenVars, waitVars, Uses, Accepted, Released, Announced, AcceptPcs,
            HoldPcs, EndPcs
<1>1. CASE \/ GetEvents \/ SuspendSelf \/ ConnectScan \/ ConnectArm \/ ConnectOptions
           \/ LoadCount("conLoad", "conStore") \/ ConnectStore \/ ConnectNew
  <2>1. /\ UNCHANGED <<socketState, clientType, bound, connectPort, rxCount>>
        /\ \A i \in Slots : Uses(i)' <=> Uses(i)
    BY <1>0, <1>1 DEF GetEvents, SuspendSelf, ConnectScan, ConnectArm, ConnectOptions, LoadCount,
                      ConnectStore, ConnectNew, Local, OnData, netVars
  <2>2. pc' = "conAccept" => /\ slot' = slot /\ slot \in Slots
                             /\ socketState[slot] \in {"LISTEN", "SYN_RECEIVED"}
    BY <1>0, <1>1 DEF GetEvents, SuspendSelf, ConnectScan, ConnectArm, ConnectOptions, LoadCount,
                      ConnectStore, ConnectNew, BeingConnected
  <2>3. pc' \notin {"conSuspend", "conWait"}
    BY <1>1 DEF GetEvents, SuspendSelf, ConnectScan, ConnectArm, ConnectOptions, LoadCount,
                ConnectStore, ConnectNew
  <2> QED
    BY <2>1, <2>2, <2>3 DEF InUse, Used, Unused
<1>2. CASE \/ DataScan \/ DataTouch \/ DisconnectScan \/ DisconnectWhile \/ DisconnectClear
           \/ LoadCount("disLoad", "disStore") \/ StoreDecremented("disStore", "disEnd")
           \/ TimeoutScan \/ TimeoutStore \/ LoadCount("timLoad", "timStoreCount")
           \/ StoreDecremented("timStoreCount", "timEnd")
  <2>1. /\ UNCHANGED <<socketState, clientType, bound, connectPort, rxCount>>
        /\ \A i \in Slots : Uses(i)' <=> Uses(i)
    BY <1>0, <1>2
    DEF DataScan, DataTouch, DisconnectScan, DisconnectWhile, DisconnectClear, LoadCount,
        StoreDecremented, TimeoutScan, TimeoutStore, Local, OnData, netVars
  <2>2. pc' \notin {"conAccept", "conSuspend", "conWait"}
    BY <1>2
    DEF DataScan, DataTouch, DisconnectScan, DisconnectWhile, DisconnectClear, LoadCount,
        StoreDecremented, TimeoutScan, TimeoutStore
  <2> QED
    BY <2>1, <2>2 DEF InUse, Used, Unused
<1>3. CASE ConnectionEnd("disEnd", "disScan") \/ ConnectionEnd("timEnd", "timScan")
  BY <1>0, <1>3 DEF ConnectionEnd, OnData, netVars, InUse, Used, Unused
<1>4. CASE ConnectAccept
  <2>1. ~AcceptReturns(slot)
    BY <1>0, <1>4 DEF ConnectAccept, AcceptReturns, InUse, Unused
  <2> QED
    BY <1>0, <1>4, <2>1 DEF ConnectAccept, OnSockets, netVars, InUse, Used, Unused
<1>5. CASE ConnectSuspend
  BY <1>0, <1>5 DEF ConnectSuspend, AcceptSuspends, OnSockets, InUse, Used, Unused
<1>6. CASE ConnectWait
  BY <1>0, <1>6 DEF ConnectWait, AcceptGivenUp, OnSockets, netVars, InUse, Used, Unused
<1>7. CASE ConnectUnaccept
  BY <1>0, <1>7 DEF ConnectUnaccept, Unaccept, OnSockets, InUse, Used, Unused
<1>8. CASE DisconnectUnaccept \/ TimeoutUnaccept
  <2>1. /\ slot \in session /\ slot \in Slots /\ ~Released /\ Released'
        /\ UNCHANGED <<session, slot>> /\ ~Accepted'
        /\ socketState[slot] # "ESTABLISHED" /\ Unaccept(slot)
    BY <1>0, <1>8 DEF DisconnectUnaccept, TimeoutUnaccept, OnSockets, Ending
  <2>2. UnacceptTearsDown(slot) \/ socketState[slot] = "LISTEN"
    BY <2>1 DEF InUse, Used, UnacceptTearsDown, AfterEstablished, TcpStates
  <2>3. pc' \notin {"conAccept", "conSuspend", "conWait"}
    BY <1>8 DEF DisconnectUnaccept, TimeoutUnaccept
  <2>4. Unused(slot)' /\ socketState'[slot] = "CLOSED"
    BY <2>1, <2>2 DEF Unaccept, Unused
  <2>5. \A i \in Slots \ {slot} : /\ Used(i)' <=> Used(i)
                                  /\ Unused(i)' <=> Unused(i)
                                  /\ UNCHANGED <<socketState[i], clientType[i]>>
    BY <2>1, <2>2 DEF Unaccept, Used, Unused
  <2>6. pc \notin AcceptPcs
    BY <1>8 DEF DisconnectUnaccept, TimeoutUnaccept
  <2> QED
    BY <2>1, <2>3, <2>4, <2>5, <2>6 DEF InUse
<1>9. CASE \/ RelistenLoop("conRelisten", "CONNECT") \/ RelistenLoop("disRelisten", "DISCONNECT")
           \/ TimeoutRelisten
  <2>1. /\ UNCHANGED session
        /\ pc' \notin {"conAccept", "conSuspend", "conWait"}
        /\ \A i \in Slots : Uses(i)' <=> Uses(i)
        /\ \/ UNCHANGED <<socketState, clientType, bound, connectPort, rxCount>>
           \/ slot \in Slots /\ Relisten(slot)
    BY <1>0, <1>9 DEF RelistenLoop, TimeoutRelisten, OnSockets, netVars
  <2>2. RelistenWorks(slot) /\ slot \in Slots => ~Used(slot)
    BY DEF RelistenWorks, Used
  <2> QED
    BY <2>1, <2>2 DEF Relisten, InUse, Used, Unused
<1>10. CASE DataReceive
  BY <1>0, <1>10 DEF DataReceive, Receive, OnSockets, netVars, InUse, Used, Unused
<1>11. CASE DisconnectCall \/ TimeoutDisconnect
  <2>1. /\ slot \in session /\ slot \in Slots /\ UNCHANGED <<session, slot>>
        /\ ~Released /\ ~Released' /\ pc \notin AcceptPcs /\ pc' \notin AcceptPcs
        /\ \E wait \in BOOLEAN : Disconnect(slot, wait, "telnet")
    BY <1>0, <1>11 DEF DisconnectCall, TimeoutDisconnect, OnSockets
  <2>2. /\ UNCHANGED <<clientType, rxCount, bound>>
        /\ \A i \in Slots \ {slot} : UNCHANGED <<socketState[i], connectPort[i]>>
        /\ Used(slot) => Used(slot)'
    <3>1. PICK wait \in BOOLEAN : Disconnect(slot, wait, "telnet")
      BY <2>1
    <3>2. UNCHANGED <<clientType, rxCount, bound>>
      BY <3>1 DEF Disconnect
    <3>3. \A i \in Slots \ {slot} : UNCHANGED <<socketState[i], connectPort[i]>>
      BY <2>1, <3>1 DEF Disconnect, BlockCleanup
    <3>4. CASE DisconnectSuspends(slot, wait)
      BY <2>1, <3>1, <3>2, <3>4 DEF Disconnect, DisconnectSuspends, Used
    <3>5. CASE ~DisconnectSuspends(slot, wait)
      BY <2>1, <3>1, <3>2, <3>5 DEF Disconnect, BlockCleanup, RestState, Used
    <3> QED
      BY <3>2, <3>3, <3>4, <3>5
  <2> QED
    BY <2>1, <2>2 DEF InUse, Used, Unused
<1>12. CASE DisconnectWait
  <2>1. /\ slot \in session /\ slot \in Slots /\ UNCHANGED <<session, slot>>
        /\ ~Released /\ ~Released' /\ pc \notin AcceptPcs /\ pc' \notin AcceptPcs
        /\ DisconnectResumed(slot) /\ connectWaiter = None
    BY <1>0, <1>12 DEF DisconnectWait, OnSockets, AcceptWaits
  <2>2. /\ UNCHANGED <<clientType, rxCount, bound>>
        /\ \A i \in Slots \ {slot} : UNCHANGED <<socketState[i], connectPort[i]>>
        /\ Used(slot) => Used(slot)'
    BY <2>1 DEF DisconnectResumed, BlockCleanup, RestState, Used
  <2> QED
    BY <2>1, <2>2 DEF InUse, Used, Unused
<1> QED
  BY <1>1, <1>2, <1>3, <1>4, <1>5, <1>6, <1>7, <1>8, <1>9, <1>10, <1>11, <1>12
  DEF ServerThread, ConnectProcess, DataProcess, DisconnectProcess, TimeoutProcess

\* The counter is the number of connections that are counted: an opened one before
\* new_connection, a closed one no more.  The server thread stores what it loaded:
\* nobody else writes the counter.
CountedSlots == (session \cup {i \in Slots : pc = "conNew" /\ slot = i})
                   \ {i \in Slots : pc \in {"disEnd", "timEnd"} /\ slot = i}
Counter == /\ openConnections = Cardinality(CountedSlots)
           /\ pc \in {"conStore", "disStore", "timStoreCount"} => register = openConnections

\* There are finitely many slots to count.
LEMMA CountedSlotsFinite ==
  ASSUME session \subseteq Slots
  PROVE  IsFiniteSet(CountedSlots) /\ Cardinality(CountedSlots) \in Nat
<1>1. IsFiniteSet(Slots)
  BY FS_Interval, ConstantsOK DEF Slots
<1>2. CountedSlots \subseteq Slots
  BY DEF CountedSlots
<1> QED
  BY <1>1, <1>2, FS_Subset, FS_CardinalityType

\* The server thread counts a connection in when it stores the counter in
\* connect_process, and out when it does in the other two.
LEMMA ThreadCounter ==
  ASSUME Base, Announced, Counter, ServerThread
  PROVE  Counter'
<1>0. pc \notin LoopPcs \/ slot < MaxClients => slot \in Slots
  BY ConstantsOK DEF Base, Control, ServerTypeOK, InRange, Slots
<1>a. session \subseteq Slots /\ openConnections \in Nat
  BY DEF Base, Control, ServerTypeOK
<1>f. IsFiniteSet(CountedSlots) /\ Cardinality(CountedSlots) \in Nat
  BY <1>a, CountedSlotsFinite
<1> USE <1>a DEF ThreadRuns, Goto, NextSlot, Done, Process, LoopPcs, dataVars, Announced,
                 AcceptPcs, HoldPcs, EndPcs
<1>1. CASE ConnectStore
  <2>1. slot \in Slots /\ slot \notin CountedSlots
    BY <1>0, <1>1 DEF ConnectStore, CountedSlots
  <2>2. CountedSlots' = CountedSlots \cup {slot}
    BY <2>1, <1>1 DEF ConnectStore, CountedSlots
  <2>3. Cardinality(CountedSlots') = Cardinality(CountedSlots) + 1
    BY <2>1, <2>2, <1>f, FS_AddElement
  <2> QED
    BY <1>1, <2>3 DEF ConnectStore, Counter
<1>2. CASE StoreDecremented("disStore", "disEnd") \/ StoreDecremented("timStoreCount", "timEnd")
  <2>1. slot \in CountedSlots
    BY <1>2 DEF StoreDecremented, CountedSlots
  <2>2. CountedSlots' = CountedSlots \ {slot}
    BY <1>0, <1>2 DEF StoreDecremented, CountedSlots
  <2>3. /\ Cardinality(CountedSlots') = Cardinality(CountedSlots) - 1
        /\ Cardinality(CountedSlots') \in Nat
    BY <2>1, <2>2, <1>f, FS_RemoveElement, FS_CardinalityType
  <2>4. register = openConnections /\ register > 0
    BY <1>2, <1>f, <2>3 DEF StoreDecremented, Counter
  <2>5. openConnections' = register - 1 /\ pc' \in {"disEnd", "timEnd"}
    BY <1>2, <2>4 DEF StoreDecremented
  <2> QED
    BY <2>3, <2>4, <2>5 DEF Counter
<1>3. CASE ConnectNew \/ ConnectionEnd("disEnd", "disScan") \/ ConnectionEnd("timEnd", "timScan")
  <2>1. CountedSlots' = CountedSlots
    BY <1>0, <1>3 DEF ConnectNew, ConnectionEnd, CountedSlots
  <2> QED
    BY <1>3, <2>1 DEF ConnectNew, ConnectionEnd, Counter
<1>4. CASE \/ LoadCount("conLoad", "conStore") \/ LoadCount("disLoad", "disStore")
           \/ LoadCount("timLoad", "timStoreCount")
  <2>1. CountedSlots' = CountedSlots
    BY <1>4 DEF LoadCount, Local, CountedSlots
  <2> QED
    BY <1>4, <2>1 DEF LoadCount, Local, Counter
<1>5. CASE \/ GetEvents \/ SuspendSelf \/ ConnectScan \/ ConnectAccept \/ ConnectSuspend
           \/ ConnectWait \/ ConnectUnaccept \/ ConnectArm \/ ConnectOptions \/ DataProcess
           \/ RelistenLoop("conRelisten", "CONNECT")
  <2>1. /\ UNCHANGED <<session, openConnections>>
        /\ pc \notin {"conNew", "disEnd", "timEnd"} /\ pc' \notin {"conNew", "disEnd", "timEnd"}
        /\ pc' \notin {"conStore", "disStore", "timStoreCount"}
    BY <1>5 DEF GetEvents, SuspendSelf, ConnectScan, ConnectAccept, ConnectSuspend, ConnectWait,
                ConnectUnaccept, ConnectArm, ConnectOptions, DataProcess, DataScan, DataTouch,
                DataReceive, RelistenLoop, Local, OnSockets, OnData
  <2> QED
    BY <2>1 DEF Counter, CountedSlots
<1>6. CASE \/ DisconnectScan \/ DisconnectWhile \/ DisconnectCall \/ DisconnectWait
           \/ DisconnectUnaccept \/ DisconnectClear \/ RelistenLoop("disRelisten", "DISCONNECT")
           \/ TimeoutScan \/ TimeoutStore \/ TimeoutDisconnect \/ TimeoutUnaccept
           \/ TimeoutRelisten
  <2>1. /\ UNCHANGED <<session, openConnections>>
        /\ pc \notin {"conNew", "disEnd", "timEnd"} /\ pc' \notin {"conNew", "disEnd", "timEnd"}
        /\ pc' \notin {"conStore", "disStore", "timStoreCount"}
    BY <1>6 DEF DisconnectScan, DisconnectWhile, DisconnectCall, DisconnectWait,
                DisconnectUnaccept, DisconnectClear, RelistenLoop, TimeoutScan, TimeoutStore,
                TimeoutDisconnect, TimeoutUnaccept, TimeoutRelisten, Local, OnSockets, OnData
  <2> QED
    BY <2>1 DEF Counter, CountedSlots
<1> QED
  BY <1>1, <1>2, <1>3, <1>4, <1>5, <1>6
  DEF ServerThread, ConnectProcess, DisconnectProcess, TimeoutProcess

-----------------------------------------------------------------------------
(* The ledger.                                                             *)

\* All of it: what holds with any calls, and what holds without.
Orderly == Known /\ Serving /\ Ending
Bookkeeping == OnlyStarted /\ Timers /\ Announced /\ InUse /\ Counter

\* Nothing is created, and nothing is open.
LEMMA BookkeepingInitial == Init => Bookkeeping
<1> SUFFICES ASSUME Init PROVE Bookkeeping
  OBVIOUS
<1>1. CountedSlots = {}
  BY DEF Init, CountedSlots
<1>2. Counter
  BY <1>1, FS_EmptySet DEF Init, Counter
<1>3. OnlyStarted
  BY DEF Init, NetInit, OnlyStarted, Ready, Objects
<1> QED
  BY <1>2, <1>3 DEF Init, NetInit, Bookkeeping, Timers, Armed, Announced, HoldPcs, EndPcs,
                    AcceptPcs, InUse, Uses, Accepted, Unused

\* Creating and starting the server opens nothing.
LEMMA SetupKeeps ==
  ASSUME Base, OnlyStarted, Timers, Announced, InUse, Counter,
         (Create /\ CreateSucceeds /\ pc = "none") \/ (Start /\ pc = "suspended" /\ pc' = "get")
  PROVE  Timers' /\ Announced' /\ InUse' /\ Counter'
<1>1. /\ session = {} /\ openConnections = 0 /\ \A i \in Slots : activityTimeout[i] = 0
      /\ pc \in {"none", "suspended"}
  BY DEF OnlyStarted
<1>2. /\ session' = {} /\ openConnections' = 0 /\ \A i \in Slots : activityTimeout'[i] = 0
      /\ pc' \in {"suspended", "get"}
  BY <1>1 DEF Start, CreateSucceeds, dataVars
<1>3. Timers' /\ Announced'
  BY <1>2 DEF Timers, Armed, Announced, HoldPcs, EndPcs, AcceptPcs
<1>4. CountedSlots' = {}
  BY <1>2 DEF CountedSlots
<1>5. Counter'
  BY <1>2, <1>4, FS_EmptySet DEF Counter
<1>6. \A i \in Slots : ~Uses(i) /\ ~Uses(i)'
  BY <1>1, <1>2 DEF Uses, Accepted
<1>7. InUse'
  <2>1. CASE Start
    BY <1>2, <1>6, <2>1, FirstSlot DEF Start, Listen, InUse, Unused, Base, NetInv, NetTypeOK
  <2>2. CASE CreateSucceeds
    BY <1>2, <1>6, <2>2 DEF CreateSucceeds, SocketsCreated, InUse, Unused
  <2> QED
    BY <2>1, <2>2
<1> QED
  BY <1>3, <1>5, <1>7

\* Every step keeps the books.
LEMMA BookkeepingInductive ==
  AppCalls = {} /\ Orderly /\ Bookkeeping /\ [Next]_vars => Bookkeeping'
<1> SUFFICES ASSUME AppCalls = {}, Orderly, Bookkeeping, [Next]_vars PROVE Bookkeeping'
  OBVIOUS
<1> USE DEF Orderly, Known, Bookkeeping
<1>1. OnlyStarted'
  BY OnlyStartedInductive
<1>2. CASE ServerThread
  BY <1>1, <1>2, ThreadTimers, ThreadAnnounced, ThreadInUse, ThreadCounter
<1>3. CASE Network /\ UNCHANGED <<dataVars, kernelVars, threadVars, appVars>>
  <2>1. Timers' /\ Announced'
    BY <1>3, DataKept DEF dataVars
  <2>2. Counter'
    BY <1>3 DEF dataVars, threadVars, Counter, CountedSlots
  <2> QED
    BY <1>1, <1>3, <2>1, <2>2, NetworkInUse
<1>4. CASE TimerExpires \/ UNCHANGED vars \/ (Create /\ CreateFails)
  <2>1. UNCHANGED <<socketVars, waitVars, dataVars, threadVars>>
    BY <1>4 DEF TimerExpires, vars, netVars, CreateFails
  <2>2. Timers' /\ Announced'
    BY <2>1, DataKept DEF dataVars
  <2>3. Counter'
    BY <2>1 DEF dataVars, threadVars, Counter, CountedSlots
  <2>4. InUse'
    BY <2>1 DEF socketVars, waitVars, dataVars, threadVars, InUse, Uses, Used, Unused, Accepted,
                Released
  <2> QED
    BY <1>1, <2>2, <2>3, <2>4
<1>5. CASE \/ Create /\ CreateSucceeds /\ pc = "none"
           \/ Start /\ pc = "suspended" /\ pc' = "get"
  BY <1>1, <1>5, SetupKeeps
<1> QED
  BY <1>2, <1>3, <1>4, <1>5, StepsWithoutCalls

\* The invariant, without calls besides create and start.
LEMMA BookkeepingInvariant ==
  ASSUME AppCalls = {}
  PROVE  Spec => [](Orderly /\ Bookkeeping)
<1>1. Orderly /\ Bookkeeping /\ [Next]_vars => Bookkeeping'
  BY BookkeepingInductive
<1>2. Spec => []Orderly
  BY ServingInvariant, PTL DEF Orderly
<1> QED
  BY <1>1, <1>2, BookkeepingInitial, PTL DEF Spec

\* The activity timer of a connection runs exactly while the connection is open for
\* the application: connect_process arms it, and both ways of ending it stop it.
THEOREM SessionsHaveTimers ==
  ASSUME AppCalls = {}
  PROVE  Spec => []SessionsMatchTimers
<1>1. Bookkeeping => SessionsMatchTimers
  BY DEF Bookkeeping, Timers, Armed, EndPcs, SessionsMatchTimers
<1> QED
  BY <1>1, BookkeepingInvariant, PTL

\* No socket completes the handshake of a new client while its old connection is
\* still open for the application, although it listens again before connection_end.
THEOREM SessionsAreNotReused ==
  ASSUME AppCalls = {}
  PROVE  Spec => SessionNotReused
<1>1. Orderly /\ Bookkeeping /\ [Next]_vars =>
        [\A i \in session :
           socketState'[i] = "ESTABLISHED" => socketState[i] = "ESTABLISHED"]_vars
  <2> SUFFICES ASSUME Orderly, Bookkeeping, [Next]_vars, NEW i \in session,
                      socketState'[i] = "ESTABLISHED", socketState[i] # "ESTABLISHED"
               PROVE  FALSE
    OBVIOUS
  <2>1. i \in Slots
    BY DEF Orderly, Known, Base, Control, ServerTypeOK
  <2>2. pc = "conWait" /\ slot = i
    BY <2>1, EstablishedFrom DEF Orderly, Known
  <2> QED
    BY <2>2 DEF Bookkeeping, Announced, AcceptPcs
<1> QED
  BY <1>1, BookkeepingInvariant, PTL DEF Spec, SessionNotReused

\* What the ledger's change stands for: the server thread has stored the counter and
\* calls the callback next.
Change == CASE pc = "conNew" -> <<"opened", slot>>
            [] pc \in {"disEnd", "timEnd"} -> <<"closed", slot>>
            [] OTHER -> None

\* A step of the server thread counts one connection, announces it, or is none of
\* the ledger's business.
LEMMA ThreadImplementsLedger ==
  ASSUME Orderly, Bookkeeping, ServerThread
  PROVE  Ledger!Next \/ UNCHANGED <<session, openConnections, Change>>
<1>0. pc \notin LoopPcs \/ slot < MaxClients => slot \in Slots
  BY ConstantsOK DEF Orderly, Known, Base, Control, ServerTypeOK, InRange, Slots
<1>a. /\ session \subseteq Slots /\ openConnections \in Nat
      /\ IsFiniteSet(CountedSlots) /\ Cardinality(CountedSlots) \in Nat
  BY CountedSlotsFinite DEF Orderly, Known, Base, Control, ServerTypeOK
<1> USE <1>a DEF ThreadRuns, Goto, NextSlot, Done, Process, LoopPcs, dataVars, Change
<1>1. CASE ConnectStore
  <2>1. slot \in Slots /\ slot \notin session /\ register = openConnections
    BY <1>0, <1>1 DEF ConnectStore, Bookkeeping, Announced, AcceptPcs, Counter
  <2>2. Ledger!CountOpened(slot)
    BY <1>1, <2>1 DEF ConnectStore, Ledger!CountOpened
  <2> QED
    BY <2>1, <2>2 DEF Ledger!Next
<1>2. CASE ConnectNew
  <2>1. slot \in Slots /\ Ledger!NewConnection(slot)
    BY <1>0, <1>2 DEF ConnectNew, Ledger!NewConnection
  <2> QED
    BY <2>1 DEF Ledger!Next
<1>3. CASE StoreDecremented("disStore", "disEnd") \/ StoreDecremented("timStoreCount", "timEnd")
  <2>1. slot \in Slots /\ slot \in session /\ slot \in CountedSlots
    BY <1>0, <1>3 DEF StoreDecremented, Bookkeeping, Announced, HoldPcs, EndPcs, CountedSlots
  <2>2. register = openConnections /\ openConnections > 0
    <3>1. Cardinality(CountedSlots \ {slot}) = Cardinality(CountedSlots) - 1
      BY <2>1, FS_RemoveElement
    <3>2. Cardinality(CountedSlots \ {slot}) \in Nat
      BY FS_RemoveElement, FS_CardinalityType
    <3> QED
      BY <1>3, <3>1, <3>2 DEF StoreDecremented, Bookkeeping, Counter
  <2>3. Ledger!CountClosed(slot)
    BY <1>3, <2>1, <2>2 DEF StoreDecremented, Ledger!CountClosed
  <2> QED
    BY <2>1, <2>3 DEF Ledger!Next
<1>4. CASE ConnectionEnd("disEnd", "disScan") \/ ConnectionEnd("timEnd", "timScan")
  <2>1. slot \in Slots /\ Ledger!ConnectionEnd(slot)
    BY <1>0, <1>4 DEF ConnectionEnd, Ledger!ConnectionEnd
  <2> QED
    BY <2>1 DEF Ledger!Next
<1>5. CASE \/ GetEvents \/ SuspendSelf \/ ConnectScan \/ ConnectAccept \/ ConnectSuspend
           \/ ConnectWait \/ ConnectUnaccept \/ ConnectArm \/ ConnectOptions \/ DataProcess
           \/ RelistenLoop("conRelisten", "CONNECT")
  <2>1. /\ UNCHANGED <<session, openConnections>>
        /\ pc \notin {"conNew", "disEnd", "timEnd"} /\ pc' \notin {"conNew", "disEnd", "timEnd"}
    BY <1>5 DEF GetEvents, SuspendSelf, ConnectScan, ConnectAccept, ConnectSuspend, ConnectWait,
                ConnectUnaccept, ConnectArm, ConnectOptions, DataProcess, DataScan, DataTouch,
                DataReceive, RelistenLoop, Local, OnSockets, OnData
  <2> QED
    BY <2>1
<1>6. CASE \/ DisconnectScan \/ DisconnectWhile \/ DisconnectCall \/ DisconnectWait
           \/ DisconnectUnaccept \/ DisconnectClear \/ RelistenLoop("disRelisten", "DISCONNECT")
           \/ TimeoutScan \/ TimeoutStore \/ TimeoutDisconnect \/ TimeoutUnaccept
           \/ TimeoutRelisten
  <2>1. /\ UNCHANGED <<session, openConnections>>
        /\ pc \notin {"conNew", "disEnd", "timEnd"} /\ pc' \notin {"conNew", "disEnd", "timEnd"}
    BY <1>6 DEF DisconnectScan, DisconnectWhile, DisconnectCall, DisconnectWait,
                DisconnectUnaccept, DisconnectClear, RelistenLoop, TimeoutScan, TimeoutStore,
                TimeoutDisconnect, TimeoutUnaccept, TimeoutRelisten, Local, OnSockets, OnData
  <2> QED
    BY <2>1
<1>7. CASE \/ LoadCount("conLoad", "conStore") \/ LoadCount("disLoad", "disStore")
           \/ LoadCount("timLoad", "timStoreCount")
  BY <1>7 DEF LoadCount, Local
<1> QED
  BY <1>1, <1>2, <1>3, <1>4, <1>5, <1>6, <1>7
  DEF ServerThread, ConnectProcess, DisconnectProcess, TimeoutProcess

\* The server implements the ledger that its application sees: every step of every
\* thread is a step of the ledger or leaves it alone.
THEOREM ServerImplementsLedger ==
  ASSUME AppCalls = {}
  PROVE  Spec => LedgerImplemented
<1>1. Init => Ledger!Init
  BY DEF Init, Ledger!Init
<1>2. Orderly /\ Bookkeeping /\ [Next]_vars => [Ledger!Next]_(Ledger!vars)
  <2> SUFFICES ASSUME Orderly, Bookkeeping, [Next]_vars
               PROVE  Ledger!Next \/ UNCHANGED <<session, openConnections, Change>>
    BY DEF Ledger!vars, Change
  <2>1. CASE ServerThread
    BY <2>1, ThreadImplementsLedger
  <2>2. CASE UNCHANGED <<dataVars, pc, slot>>
    BY <2>2 DEF dataVars, Change
  <2>3. CASE Create /\ CreateSucceeds /\ pc = "none"
    BY <2>3 DEF CreateSucceeds, Change, Bookkeeping, OnlyStarted
  <2>4. CASE Start /\ pc = "suspended" /\ pc' = "get"
    BY <2>4 DEF Start, dataVars, Change
  <2> QED
    BY <2>1, <2>2, <2>3, <2>4, StepsWithoutCalls
    DEF Bookkeeping, Orderly, Known, TimerExpires, vars, threadVars, CreateFails
<1> QED
  BY <1>1, <1>2, BookkeepingInvariant, PTL DEF Spec, LedgerImplemented, Ledger!Spec
=============================================================================
