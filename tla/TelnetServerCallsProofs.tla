---------------------- MODULE TelnetServerCallsProofs ----------------------
(***************************************************************************)
(* What the calls of the application leave behind, for every number of     *)
(* sockets and every interleaving with the server thread and the network:  *)
(* no waiting thread is forgotten, and stop and delete leave nothing open. *)
(*                                                                         *)
(* The threads that wait inside NetX are the key.  A socket is in          *)
(* SYN_RECEIVED only while the server thread waits in accept on it, and a  *)
(* thread waits in disconnect only in a state in which another disconnect  *)
(* does not wait and accept does not return.                               *)
(***************************************************************************)
EXTENDS TelnetServerProofs

\* The invariant that is known already.
Base == Control /\ NetInv /\ Existing

\* A slot is not the null pointer.
LEMMA SlotNotNone == \A i \in Slots : i # None
  BY ConstantsOK DEF Slots

\* A socket with a client, and a socket whose close waits for the client.
Alive == {"ESTABLISHED", "CLOSE_WAIT"}
Closing == {"FIN_WAIT_1", "FIN_WAIT_2", "CLOSING", "LAST_ACK"}

-----------------------------------------------------------------------------
(* The thread that waits in accept.                                        *)

\* accept waits for one socket at a time, and puts back to LISTEN only a socket
\* that has no client.
AcceptWaits ==
  /\ \A i \in Slots : socketState[i] = "SYN_RECEIVED" => connectWaiter = i
  /\ connectWaiter # None => pc = "conWait" /\ slot = connectWaiter
  /\ pc = "conSuspend" => socketState[slot] \in {"CLOSED", "LISTEN"}
  /\ pc = "conWait" /\ (connectWaiter # None \/ ~acceptOk) =>
       socketState[slot] \in {"CLOSED", "LISTEN", "SYN_RECEIVED"}

\* A step that wakes the accept, or leaves it alone, and connects no client.
LEMMA AcceptKept ==
  ASSUME Base, AcceptWaits, UNCHANGED <<pc, slot>>,
         \/ UNCHANGED <<connectWaiter, acceptOk>>
         \/ connectWaiter # None /\ connectWaiter' = None /\ ~acceptOk',
         \A i \in Slots : socketState'[i] = "SYN_RECEIVED" =>
           socketState[i] = "SYN_RECEIVED" /\ connectWaiter' = connectWaiter,
         \A i \in Slots : socketState[i] \in {"CLOSED", "LISTEN", "SYN_RECEIVED"} =>
           socketState'[i] \in {"CLOSED", "LISTEN", "SYN_RECEIVED"}
  PROVE  AcceptWaits'
<1>1. pc \in {"conSuspend", "conWait"} => slot \in Slots
  BY ConstantsOK DEF Base, Control, ServerTypeOK, InRange, LoopPcs, Slots
<1>2. \A i \in Slots : socketState'[i] = "SYN_RECEIVED" => connectWaiter' = i
  BY DEF AcceptWaits
<1>3. pc' = "conSuspend" => socketState'[slot'] \in {"CLOSED", "LISTEN"}
  BY <1>1 DEF AcceptWaits
<1>4. pc' = "conWait" /\ (connectWaiter' # None \/ ~acceptOk') =>
        socketState'[slot'] \in {"CLOSED", "LISTEN", "SYN_RECEIVED"}
  BY <1>1 DEF AcceptWaits
<1>5. connectWaiter' # None => pc' = "conWait" /\ slot' = connectWaiter'
  BY DEF AcceptWaits
<1> QED
  BY <1>2, <1>3, <1>4, <1>5 DEF AcceptWaits

\* A peer completes or resets the handshake, or it times out: the accept wakes.
LEMMA AcceptNetwork ==
  ASSUME Base, AcceptWaits, NetworkStep
  PROVE  AcceptWaits'
<1>a. /\ pc \in {"conSuspend", "conWait"} => slot \in Slots
      /\ socketState \in [Slots -> TcpStates] /\ clientType \in [Slots -> BOOLEAN]
  BY ConstantsOK DEF Base, Control, ServerTypeOK, InRange, LoopPcs, Slots, NetInv, NetTypeOK
<1> USE <1>a, SlotNotNone DEF AcceptWaits, WakeAccept, BlockCleanup, RestState
<1>0. UNCHANGED <<pc, slot>>
  BY DEF NetworkStep, threadVars
<1>1. CASE \E p \in Peers : SynArrives(p)
  <2>1. UNCHANGED <<socketState, connectWaiter, acceptOk>>
    BY <1>1 DEF SynArrives, waitVars
  <2> QED
    BY <1>0, <2>1
<1>2. CASE \E k \in DOMAIN listenQueue : QueuedSynReset(k)
  BY <1>0, <1>2 DEF QueuedSynReset, waitVars, socketVars
<1>3. CASE \E i \in Slots : HandshakeAck(i)
  BY <1>0, <1>3 DEF HandshakeAck
<1>4. CASE \E i \in Slots : DataArrives(i)
  BY <1>0, <1>4 DEF DataArrives, waitVars
<1>5. CASE \E i \in Slots : LastAck(i)
  BY <1>0, <1>5 DEF LastAck
<1>6. CASE \E i \in Slots : ConnectionReset(i)
  BY <1>0, <1>6 DEF ConnectionReset
<1>7. CASE \E i \in Slots : \E to \in TcpStates : CloseSegment(i, to)
  BY <1>0, <1>7 DEF CloseSegment, CloseMoves
<1>8. CASE \E i \in Slots : TimedWaitExpires(i)
  BY <1>0, <1>8 DEF TimedWaitExpires, waitVars
<1>9. CASE \E i \in Slots : AcceptTimesOut(i)
  BY <1>0, <1>9 DEF AcceptTimesOut
<1>10. CASE \E i \in Slots : DisconnectTimesOut(i)
  BY <1>0, <1>10 DEF DisconnectTimesOut, socketVars
<1> QED
  BY <1>1, <1>2, <1>3, <1>4, <1>5, <1>6, <1>7, <1>8, <1>9, <1>10
  DEF NetworkStep, Network, PeerSegment, NetTimer

\* No thread waits in accept before the step nor after it.
LEMMA AcceptElsewhere ==
  ASSUME AcceptWaits, pc # "conWait", connectWaiter' = connectWaiter,
         pc' \notin {"conSuspend", "conWait"},
         \A i \in Slots : socketState'[i] = "SYN_RECEIVED" => socketState[i] = "SYN_RECEIVED"
  PROVE  AcceptWaits'
  BY ConstantsOK DEF AcceptWaits, Slots

\* Of the server thread only accept itself suspends, on a socket that listens.
LEMMA AcceptThread ==
  ASSUME Base, AcceptWaits, ServerThread
  PROVE  AcceptWaits'
<1> USE DEF Base, NetInv, NetTypeOK, ThreadRuns, Goto, NextSlot, Process, Done, socketVars,
            waitVars, listenVars
<1>1. CASE GetEvents \/ SuspendSelf \/ DataProcess
  <2>1. /\ pc \notin {"conSuspend", "conWait"} /\ pc' \notin {"conSuspend", "conWait"}
        /\ UNCHANGED <<socketState, connectWaiter>>
    BY <1>1 DEF GetEvents, SuspendSelf, DataProcess, DataScan, DataTouch, DataReceive, Receive,
                Local, OnData, netVars
  <2> QED
    BY <2>1, AcceptElsewhere
<1>2. CASE \/ ConnectScan \/ ConnectArm \/ LoadCount("conLoad", "conStore")
           \/ ConnectStore \/ ConnectNew \/ ConnectOptions
  <2>1. /\ pc \notin {"conSuspend", "conWait"} /\ pc' \notin {"conSuspend", "conWait"}
        /\ UNCHANGED <<socketState, connectWaiter>>
    BY <1>2 DEF ConnectScan, ConnectArm, LoadCount, ConnectStore, ConnectNew, ConnectOptions,
                Local, OnData, netVars
  <2> QED
    BY <2>1, AcceptElsewhere
<1>3. CASE ConnectAccept
  <2>1. slot \in Slots
    BY <1>3, ConstantsOK DEF ConnectAccept, Control, ServerTypeOK, InRange, LoopPcs, Slots
  <2>2. /\ UNCHANGED <<socketState, connectWaiter, slot>> /\ pc = "conAccept"
        /\ \/ pc' \in {"conArm", "conUnaccept"}
           \/ pc' = "conSuspend" /\ socketState[slot] \in {"LISTEN", "SYN_RECEIVED"}
    BY <1>3 DEF ConnectAccept, AcceptReturns, AcceptFails, netVars
  <2>3. connectWaiter = None /\ socketState[slot] # "SYN_RECEIVED"
    BY <2>1, <2>2, SlotNotNone DEF AcceptWaits
  <2> QED
    BY <2>1, <2>2, <2>3, SlotNotNone DEF AcceptWaits
<1>4. CASE ConnectSuspend
  BY <1>4, ConstantsOK DEF ConnectSuspend, AcceptSuspends, AcceptWaits, Slots
<1>5. CASE ConnectWait
  BY <1>5, ConstantsOK DEF ConnectWait, AcceptGivenUp, AcceptWaits, Slots, netVars
<1>6. CASE ConnectUnaccept \/ DisconnectUnaccept \/ TimeoutUnaccept
  <2>1. /\ pc \notin {"conSuspend", "conWait"} /\ pc' \notin {"conSuspend", "conWait"}
        /\ connectWaiter' = connectWaiter
        /\ \A i \in Slots : socketState'[i] = "SYN_RECEIVED" => socketState[i] = "SYN_RECEIVED"
    BY <1>6 DEF ConnectUnaccept, DisconnectUnaccept, TimeoutUnaccept, Unaccept
  <2> QED
    BY <2>1, AcceptElsewhere
<1>7. CASE \/ RelistenLoop("conRelisten", "CONNECT") \/ RelistenLoop("disRelisten", "DISCONNECT")
           \/ TimeoutRelisten
  <2>1. /\ pc \notin {"conSuspend", "conWait"} /\ pc' \notin {"conSuspend", "conWait"}
        /\ connectWaiter' = connectWaiter
        /\ \A i \in Slots : socketState'[i] = "SYN_RECEIVED" => socketState[i] = "SYN_RECEIVED"
    BY <1>7 DEF RelistenLoop, TimeoutRelisten, Relisten, netVars
  <2> QED
    BY <2>1, AcceptElsewhere
<1>8. CASE \/ DisconnectScan \/ DisconnectWhile \/ DisconnectClear
           \/ LoadCount("disLoad", "disStore") \/ StoreDecremented("disStore", "disEnd")
           \/ ConnectionEnd("disEnd", "disScan")
  <2>1. /\ pc \notin {"conSuspend", "conWait"} /\ pc' \notin {"conSuspend", "conWait"}
        /\ UNCHANGED <<socketState, connectWaiter>>
    BY <1>8 DEF DisconnectScan, DisconnectWhile, DisconnectClear, LoadCount, StoreDecremented,
                ConnectionEnd, Local, OnData, netVars
  <2> QED
    BY <2>1, AcceptElsewhere
<1>9. CASE DisconnectCall \/ DisconnectWait \/ TimeoutDisconnect
  <2>1. /\ pc \notin {"conSuspend", "conWait"} /\ pc' \notin {"conSuspend", "conWait"}
        /\ connectWaiter = None /\ connectWaiter' = None
    BY <1>9 DEF DisconnectCall, DisconnectWait, TimeoutDisconnect, Disconnect, DisconnectResumed,
                WakeAccept, AcceptWaits
  <2>2. \A i \in Slots : socketState'[i] = "SYN_RECEIVED" => socketState[i] = "SYN_RECEIVED"
    BY <1>9 DEF DisconnectCall, DisconnectWait, TimeoutDisconnect, Disconnect, DisconnectResumed,
                BlockCleanup, RestState
  <2> QED
    BY <2>1, <2>2, AcceptElsewhere
<1>10. CASE \/ TimeoutScan \/ TimeoutStore \/ LoadCount("timLoad", "timStoreCount")
            \/ StoreDecremented("timStoreCount", "timEnd") \/ ConnectionEnd("timEnd", "timScan")
  <2>1. /\ pc \notin {"conSuspend", "conWait"} /\ pc' \notin {"conSuspend", "conWait"}
        /\ UNCHANGED <<socketState, connectWaiter>>
    BY <1>10 DEF TimeoutScan, TimeoutStore, LoadCount, StoreDecremented, ConnectionEnd, Local,
                 OnData, netVars
  <2> QED
    BY <2>1, AcceptElsewhere
<1> QED
  BY <1>1, <1>2, <1>3, <1>4, <1>5, <1>6, <1>7, <1>8, <1>9, <1>10
  DEF ServerThread, ConnectProcess, DisconnectProcess, TimeoutProcess

\* The calls: delete and disconnect on the socket of an accept end its wait.
LEMMA AcceptApplication ==
  ASSUME Base, AcceptWaits, Application
  PROVE  AcceptWaits'
<1> USE DEF Base, NetInv, NetTypeOK, socketVars, waitVars, listenVars, threadVars
<1>0. appPc \notin {"idle", "discRelisten", "stopUnlisten", "delUnlisten"} \/ appSlot < MaxClients
        => appSlot \in Slots /\ appSlot # None
  BY ConstantsOK DEF Control, ServerTypeOK, InRange, Slots
<1>1. CASE Start
  <2>1. pc' \in {"get", pc} /\ slot' = slot /\ UNCHANGED <<connectWaiter, acceptOk>>
        /\ (pc' = pc \/ pc = "suspended")
        /\ \A i \in Slots : socketState'[i] \in {socketState[i], "LISTEN"}
    BY <1>1 DEF Start, Listen, ListenWorks
  <2> QED
    BY <2>1, AcceptKept, AcceptElsewhere
<1>2. CASE StopBegin \/ (\E i \in Slots : AppDisconnect(i)) \/ AppDisconnectFinish \/ DeleteSocket
  BY <1>2, AcceptKept DEF StopBegin, AppDisconnect, AppDisconnectFinish, DeleteSocket, netVars
<1>3. CASE StopDisconnect \/ AppDisconnectCall \/ DeleteDisconnect
  <2>1. /\ appSlot \in Slots /\ appSlot # None /\ UNCHANGED <<pc, slot>>
        /\ \E wait \in BOOLEAN : Disconnect(appSlot, wait, "app")
    BY <1>0, <1>3 DEF StopDisconnect, AppDisconnectCall, DeleteDisconnect
  <2>2. \/ UNCHANGED <<connectWaiter, acceptOk>>
        \/ connectWaiter # None /\ connectWaiter' = None /\ ~acceptOk'
    BY <2>1 DEF Disconnect, WakeAccept
  <2>3. \A i \in Slots : socketState'[i] = "SYN_RECEIVED" =>
          socketState[i] = "SYN_RECEIVED" /\ connectWaiter' = connectWaiter
    BY <2>1 DEF Disconnect, WakeAccept, BlockCleanup, RestState, AcceptWaits
  <2>4. \A i \in Slots : socketState[i] \in {"CLOSED", "LISTEN", "SYN_RECEIVED"} =>
          socketState'[i] \in {"CLOSED", "LISTEN", "SYN_RECEIVED"}
    BY <2>1 DEF Disconnect, DisconnectSuspends, BlockCleanup, RestState
  <2> QED
    BY <2>1, <2>2, <2>3, <2>4, AcceptKept
<1>4. CASE StopUnaccept \/ AppDisconnectUnaccept \/ DeleteUnaccept
  BY <1>0, <1>4, AcceptKept DEF StopUnaccept, AppDisconnectUnaccept, DeleteUnaccept, Unaccept
<1>5. CASE StopUnlisten \/ DeleteUnlisten
  BY <1>5, AcceptKept DEF StopUnlisten, DeleteUnlisten, Unlisten
<1>6. CASE AppDisconnectWait
  BY <1>0, <1>6, AcceptKept
  DEF AppDisconnectWait, DisconnectResumed, BlockCleanup, RestState, WakeAccept, AcceptWaits
<1>7. CASE AppDisconnectRelisten
  BY <1>7, AcceptKept DEF AppDisconnectRelisten, Relisten, RelistenWorks, netVars
<1>8. CASE DeleteBegin
  BY <1>8, ConstantsOK DEF DeleteBegin, TerminateThread, RestState, AcceptWaits
<1>9. CASE Create
  BY <1>9, AcceptKept, AcceptElsewhere DEF Create, CreateFails, CreateSucceeds, SocketsCreated,
                                           netVars, Existing, Ready, Objects
<1> QED
  BY <1>1, <1>2, <1>3, <1>4, <1>5, <1>6, <1>7, <1>8, <1>9 DEF Application, AppContinues

\* Every step keeps it.
LEMMA AcceptWaitsInductive == Base /\ AcceptWaits /\ [Next]_vars => AcceptWaits'
<1> SUFFICES ASSUME Base, AcceptWaits, [Next]_vars PROVE AcceptWaits'
  OBVIOUS
<1>1. CASE TimerExpires \/ UNCHANGED vars
  BY <1>1, AcceptKept DEF TimerExpires, vars, netVars, socketVars, waitVars, threadVars
<1> QED
  BY <1>1, AcceptNetwork, AcceptThread, AcceptApplication DEF Next

-----------------------------------------------------------------------------
(* The threads that wait in disconnect.                                    *)

\* A thread waits for a socket only while the close it began is under way, and
\* only inside its own call.  A call whose wait is over leaves the socket in a
\* state from which no other call suspends in the meantime.
DisconnectWaits ==
  /\ \A i \in Slots : disconnectWaiter[i] # None => socketState[i] \in Closing
  /\ \A i \in Slots : disconnectWaiter[i] = "telnet" => pc = "disWait" /\ slot = i
  /\ \A i \in Slots : disconnectWaiter[i] = "app" => appPc = "discWait" /\ appSlot = i
  /\ pc = "disWait" => socketState[slot] \notin Alive /\ disconnectWaiter[slot] # "app"
  /\ appPc = "discWait" =>
       /\ socketState[appSlot] \notin Alive \cup {"SYN_RECEIVED"}
       /\ disconnectWaiter[appSlot] # "telnet"

\* A step that may end waits and closes, and connects no client.
LEMMA DisconnectKept ==
  ASSUME Base, DisconnectWaits, UNCHANGED <<pc, slot, appPc, appSlot>>,
         \A i \in Slots :
           \/ disconnectWaiter'[i] = None
           \/ /\ disconnectWaiter'[i] = disconnectWaiter[i]
              /\ socketState[i] \in Closing => socketState'[i] \in Closing,
         \A i \in Slots : socketState'[i] \in Alive => socketState[i] \in Alive,
         \A i \in Slots :
           socketState'[i] = "SYN_RECEIVED" => socketState[i] = "SYN_RECEIVED"
  PROVE  DisconnectWaits'
<1>1. /\ pc = "disWait" => slot \in Slots
      /\ appPc = "discWait" => appSlot \in Slots
  BY ConstantsOK DEF Base, Control, ServerTypeOK, InRange, LoopPcs, Slots
<1> QED
  BY <1>1, ConstantsOK DEF DisconnectWaits

\* What ends the close wakes its thread; the rest leaves the close under way.
LEMMA DisconnectNetwork ==
  ASSUME Base, AcceptWaits, DisconnectWaits, NetworkStep
  PROVE  DisconnectWaits'
<1> USE DEF Alive, Closing, Base, NetInv, NetTypeOK, WakeDisconnect, BlockCleanup, RestState
<1>0. UNCHANGED <<pc, slot, appPc, appSlot>>
  BY DEF NetworkStep, threadVars, appVars
<1>1. CASE \E p \in Peers : SynArrives(p)
  <2>1. UNCHANGED <<socketState, disconnectWaiter>>
    BY <1>1 DEF SynArrives, waitVars
  <2> QED
    BY <1>0, <2>1, DisconnectKept
<1>2. CASE \E k \in DOMAIN listenQueue : QueuedSynReset(k)
  BY <1>0, <1>2, DisconnectKept DEF QueuedSynReset, waitVars, socketVars
<1>3. CASE \E i \in Slots : HandshakeAck(i)
  \* nobody waits in accept inside disconnect
  <2>1. PICK i \in Slots : HandshakeAck(i)
    BY <1>3
  <2>2. /\ UNCHANGED disconnectWaiter
        /\ socketState[i] = "SYN_RECEIVED"
        /\ socketState' = [socketState EXCEPT ![i] = "ESTABLISHED"]
    BY <2>1 DEF HandshakeAck
  <2>3. /\ pc = "disWait" => slot # i
        /\ appPc = "discWait" => appSlot # i
        /\ disconnectWaiter[i] = None
    <3>1. i # None
      BY ConstantsOK DEF Slots
    <3>2. pc = "conWait" /\ slot = i
      BY <2>2, <3>1 DEF AcceptWaits
    <3> QED
      BY <2>2, <3>2 DEF DisconnectWaits
  <2> QED
    BY <1>0, <2>2, <2>3 DEF DisconnectWaits
<1>4. CASE \E i \in Slots : DataArrives(i)
  BY <1>0, <1>4, DisconnectKept DEF DataArrives, waitVars
<1>5. CASE \E i \in Slots : LastAck(i)
  BY <1>0, <1>5, DisconnectKept DEF LastAck
<1>6. CASE \E i \in Slots : ConnectionReset(i)
  BY <1>0, <1>6, DisconnectKept DEF ConnectionReset
<1>7. CASE \E i \in Slots : \E to \in TcpStates : CloseSegment(i, to)
  BY <1>0, <1>7, DisconnectKept DEF CloseSegment, CloseMoves
<1>8. CASE \E i \in Slots : TimedWaitExpires(i)
  BY <1>0, <1>8, DisconnectKept DEF TimedWaitExpires, waitVars
<1>9. CASE \E i \in Slots : AcceptTimesOut(i)
  \* the socket of an accept has no client
  <2>1. PICK i \in Slots : AcceptTimesOut(i)
    BY <1>9
  <2>2. socketState[i] \in {"CLOSED", "LISTEN", "SYN_RECEIVED"}
    BY <2>1, ConstantsOK DEF AcceptTimesOut, AcceptWaits, Slots
  <2> QED
    BY <1>0, <2>1, <2>2, DisconnectKept DEF AcceptTimesOut, DisconnectWaits
<1>10. CASE \E i \in Slots : DisconnectTimesOut(i)
  BY <1>0, <1>10, DisconnectKept DEF DisconnectTimesOut, socketVars
<1> QED
  BY <1>1, <1>2, <1>3, <1>4, <1>5, <1>6, <1>7, <1>8, <1>9, <1>10
  DEF NetworkStep, Network, PeerSegment, NetTimer

\* What unaccept does to a socket and its waiter: it closes the one and wakes the
\* other, or it leaves both.
LEMMA UnacceptEnds ==
  ASSUME NetTypeOK, NEW j \in Slots, Unaccept(j)
  PROVE  /\ \A i \in Slots \ {j} : /\ socketState'[i] = socketState[i]
                                   /\ disconnectWaiter'[i] = disconnectWaiter[i]
         /\ \/ socketState'[j] = "CLOSED" /\ disconnectWaiter'[j] = None
            \/ socketState'[j] = socketState[j] /\ disconnectWaiter'[j] = disconnectWaiter[j]
<1>1. CASE UnacceptTearsDown(j) \/ socketState[j] = "LISTEN"
  <2>1. /\ socketState' = [socketState EXCEPT ![j] = "CLOSED"]
        /\ disconnectWaiter' = [disconnectWaiter EXCEPT ![j] = None]
    BY <1>1 DEF Unaccept, WakeDisconnect
  <2> QED
    BY <2>1 DEF NetTypeOK
<1>2. CASE ~(UnacceptTearsDown(j) \/ socketState[j] = "LISTEN")
  BY <1>2 DEF Unaccept, socketVars
<1> QED
  BY <1>1, <1>2

\* A step of the server thread outside disconnect, on a socket nobody waits for.
LEMMA DisconnectElsewhere ==
  ASSUME Base, DisconnectWaits, UNCHANGED <<appPc, appSlot>>, pc # "disWait", pc' # "disWait",
         \A i \in Slots :
           \/ disconnectWaiter'[i] = None
           \/ /\ disconnectWaiter'[i] = disconnectWaiter[i]
              /\ socketState[i] \in Closing => socketState'[i] \in Closing,
         appPc = "discWait" =>
           socketState'[appSlot] \notin Alive \cup {"SYN_RECEIVED"}
  PROVE  DisconnectWaits'
<1>1. appPc = "discWait" => appSlot \in Slots
  BY ConstantsOK DEF Base, Control, ServerTypeOK, InRange, LoopPcs, Slots
<1> QED
  BY <1>1, ConstantsOK DEF DisconnectWaits

\* Where the server thread can be when it moves: beside a disconnect of the
\* application only while that call waits, and its socket is closing then.
LEMMA ThreadMoves ==
  ASSUME Base, DisconnectWaits, ServerThread
  PROVE  /\ pc # "none" /\ UNCHANGED <<appPc, appSlot>>
         /\ pc \notin LoopPcs => slot \in Slots
         /\ appPc = "discWait" => /\ appSlot \in Slots
                                  /\ disconnectWaiter[appSlot] = "app"
                                  /\ socketState[appSlot] \in Closing
         /\ appPc \in {"idle", "discWait"}
<1>1. /\ UNCHANGED <<appPc, appSlot>>
      /\ \E at \in Pcs \ {"none"} : ThreadRuns(at)
  BY DEF ServerThread, GetEvents, SuspendSelf, ConnectProcess, ConnectScan, ConnectAccept,
         ConnectSuspend, ConnectWait, ConnectUnaccept, ConnectArm, LoadCount, ConnectStore,
         ConnectNew, ConnectOptions, RelistenLoop, DataProcess, DataScan, DataTouch, DataReceive,
         DisconnectProcess, DisconnectScan, DisconnectWhile, DisconnectCall, DisconnectWait,
         DisconnectUnaccept, DisconnectClear, StoreDecremented, ConnectionEnd, TimeoutProcess,
         TimeoutScan, TimeoutStore, TimeoutDisconnect, TimeoutUnaccept, TimeoutRelisten, Local,
         OnSockets, OnData, appVars, Pcs, ConnectPcs, DataPcs, DisconnectPcs, TimeoutPcs
<1>2. /\ pc \notin LoopPcs => slot \in Slots
      /\ appPc = "discWait" => appSlot \in Slots
  BY ConstantsOK DEF Base, Control, ServerTypeOK, InRange, Slots
<1>3. appPc = "idle" \/ AppSuspended
  BY <1>1 DEF ThreadRuns
<1> QED
  BY <1>1, <1>2, <1>3, ConstantsOK DEF ThreadRuns, AppSuspended, DisconnectWaits

\* The server thread waits in disconnect for a socket whose client was alive,
\* which no call of the application waits for then.
LEMMA DisconnectThread ==
  ASSUME Base, AcceptWaits, DisconnectWaits, ServerThread
  PROVE  DisconnectWaits'
<1> USE DEF Base, NetInv, NetTypeOK, Goto, NextSlot, Process, Done, socketVars, waitVars,
            listenVars, Alive, Closing
<1>0. /\ pc # "none" /\ UNCHANGED <<appPc, appSlot>>
      /\ appPc = "discWait" => /\ appSlot \in Slots
                               /\ disconnectWaiter[appSlot] = "app"
                               /\ socketState[appSlot] \in Closing
      /\ pc \notin LoopPcs => slot \in Slots
  BY ThreadMoves
<1>1. CASE \/ GetEvents \/ SuspendSelf \/ ConnectScan \/ ConnectAccept \/ ConnectArm
           \/ LoadCount("conLoad", "conStore") \/ ConnectStore \/ ConnectNew \/ ConnectOptions
  <2>1. pc # "disWait" /\ pc' # "disWait" /\ UNCHANGED <<socketState, disconnectWaiter>>
    BY <1>1 DEF GetEvents, SuspendSelf, ConnectScan, ConnectAccept, ConnectArm, LoadCount,
                ConnectStore, ConnectNew, ConnectOptions, ThreadRuns, Local, OnData, netVars
  <2> QED
    BY <1>0, <2>1, DisconnectElsewhere
<1>2. CASE \/ DataProcess \/ DisconnectScan \/ DisconnectWhile \/ DisconnectClear
           \/ LoadCount("disLoad", "disStore") \/ StoreDecremented("disStore", "disEnd")
           \/ ConnectionEnd("disEnd", "disScan")
  <2>1. pc # "disWait" /\ pc' # "disWait" /\ UNCHANGED <<socketState, disconnectWaiter>>
    BY <1>2 DEF DataProcess, DataScan, DataTouch, DataReceive, Receive, DisconnectScan,
                DisconnectWhile, DisconnectClear, LoadCount, StoreDecremented, ConnectionEnd,
                ThreadRuns, Local, OnData, netVars
  <2> QED
    BY <1>0, <2>1, DisconnectElsewhere
<1>3. CASE \/ TimeoutScan \/ TimeoutStore \/ LoadCount("timLoad", "timStoreCount")
           \/ StoreDecremented("timStoreCount", "timEnd") \/ ConnectionEnd("timEnd", "timScan")
  <2>1. pc # "disWait" /\ pc' # "disWait" /\ UNCHANGED <<socketState, disconnectWaiter>>
    BY <1>3 DEF TimeoutScan, TimeoutStore, LoadCount, StoreDecremented, ConnectionEnd,
                ThreadRuns, Local, OnData, netVars
  <2> QED
    BY <1>0, <2>1, DisconnectElsewhere
<1>4. CASE ConnectSuspend \/ ConnectWait
  <2>1. /\ pc # "disWait" /\ pc' # "disWait" /\ UNCHANGED disconnectWaiter
        /\ slot \in Slots
        /\ \/ UNCHANGED socketState
           \/ /\ socketState[slot] \notin Closing
              /\ \E s \in {"CLOSED", "LISTEN", "SYN_RECEIVED"} :
                   socketState' = [socketState EXCEPT ![slot] = s]
    BY <1>0, <1>4 DEF ConnectSuspend, ConnectWait, AcceptSuspends, AcceptGivenUp, AcceptWaits,
                ThreadRuns, LoopPcs, netVars
  <2> QED
    BY <1>0, <2>1, DisconnectElsewhere
<1>5. CASE ConnectUnaccept \/ DisconnectUnaccept \/ TimeoutUnaccept
  <2>1. pc # "disWait" /\ pc' # "disWait" /\ slot \in Slots /\ Unaccept(slot)
    BY <1>0, <1>5 DEF ConnectUnaccept, DisconnectUnaccept, TimeoutUnaccept, ThreadRuns, LoopPcs
  <2> QED
    BY <1>0, <2>1, UnacceptEnds, DisconnectElsewhere
<1>6. CASE \/ RelistenLoop("conRelisten", "CONNECT") \/ RelistenLoop("disRelisten", "DISCONNECT")
           \/ TimeoutRelisten
  <2>1. /\ pc # "disWait" /\ pc' # "disWait" /\ UNCHANGED disconnectWaiter
        /\ UNCHANGED socketState \/ \E i \in Slots :
             socketState[i] = "CLOSED" /\ socketState' = [socketState EXCEPT ![i] = "LISTEN"]
    BY <1>0, <1>6 DEF RelistenLoop, TimeoutRelisten, Relisten, RelistenWorks, ThreadRuns, LoopPcs,
                      netVars
  <2> QED
    BY <1>0, <2>1, DisconnectElsewhere
<1>7. CASE TimeoutDisconnect
  <2>1. pc # "disWait" /\ pc' # "disWait" /\ slot \in Slots /\ Disconnect(slot, FALSE, "telnet")
    BY <1>0, <1>7 DEF TimeoutDisconnect, ThreadRuns, LoopPcs
  <2> QED
    BY <1>0, <2>1, DisconnectElsewhere DEF Disconnect, DisconnectSuspends, BlockCleanup, RestState
<1>8. CASE DisconnectCall
  <2>1. /\ pc = "disCall" /\ pc' = IF DisconnectSuspends(slot, TRUE) THEN "disWait" ELSE "disWhile"
        /\ UNCHANGED slot
        /\ slot \in Slots /\ Disconnect(slot, TRUE, "telnet")
    BY <1>0, <1>8 DEF DisconnectCall, ThreadRuns, LoopPcs
  <2>2. CASE ~DisconnectSuspends(slot, TRUE)
    BY <1>0, <2>1, <2>2, DisconnectElsewhere DEF Disconnect, DisconnectSuspends, BlockCleanup,
                                                 RestState
  <2>3. CASE DisconnectSuspends(slot, TRUE)
    <3>1. /\ socketState[slot] \in Alive
          /\ \E s \in {"FIN_WAIT_1", "LAST_ACK"} : socketState' = [socketState EXCEPT ![slot] = s]
          /\ disconnectWaiter' = [disconnectWaiter EXCEPT ![slot] = "telnet"]
      BY <2>1, <2>3 DEF Disconnect, DisconnectSuspends
    <3> QED
      BY <1>0, <2>1, <2>3, <3>1, ConstantsOK DEF DisconnectWaits
  <2> QED
    BY <2>2, <2>3
<1>9. CASE DisconnectWait
  <2>1. /\ pc = "disWait" /\ pc' = "disWhile" /\ slot \in Slots
        /\ disconnectWaiter[slot] # "telnet" /\ DisconnectResumed(slot)
    BY <1>0, <1>9 DEF DisconnectWait, ThreadRuns, LoopPcs
  <2>2. disconnectWaiter[slot] = None
    BY <2>1 DEF DisconnectWaits, Threads
  <2> QED
    BY <1>0, <2>1, <2>2, ConstantsOK DEF DisconnectWaits, DisconnectResumed, BlockCleanup, RestState
<1> QED
  BY <1>1, <1>2, <1>3, <1>4, <1>5, <1>6, <1>7, <1>8, <1>9
  DEF ServerThread, ConnectProcess, DisconnectProcess, TimeoutProcess

\* The application likewise; delete, which terminates the server thread, takes it
\* out of its socket.
LEMMA DisconnectApplication ==
  ASSUME Base, AcceptWaits, DisconnectWaits, Application
  PROVE  DisconnectWaits'
<1> USE DEF Base, NetInv, NetTypeOK, socketVars, waitVars, listenVars, threadVars, Alive, Closing,
            AppGoto
<1>0. /\ appPc \notin {"idle", "discRelisten", "stopUnlisten", "delUnlisten"}
           \/ appSlot < MaxClients => appSlot \in Slots /\ appSlot # None
      /\ pc \notin LoopPcs => slot \in Slots
  BY ConstantsOK DEF Control, ServerTypeOK, InRange, Slots
<1>1. CASE Start
  <2>1. /\ pc # "disWait" => pc' # "disWait"
        /\ pc = "disWait" => pc' = "disWait" /\ slot' = slot
        /\ UNCHANGED <<appPc, appSlot, disconnectWaiter>> /\ appPc = "idle"
        /\ socketState[0] = "CLOSED" /\ socketState' = [socketState EXCEPT ![0] = "LISTEN"]
    BY <1>1 DEF Start, Listen, ListenWorks, appVars
  <2> QED
    BY <1>0, <2>1, FirstSlot, ConstantsOK DEF DisconnectWaits, LoopPcs
<1>2. CASE StopBegin \/ (\E i \in Slots : AppDisconnect(i)) \/ AppDisconnectFinish \/ DeleteSocket
  <2>1. /\ UNCHANGED <<pc, slot, socketState, disconnectWaiter>>
        /\ appPc # "discWait" /\ appPc' # "discWait"
    BY <1>2 DEF StopBegin, AppDisconnect, AppDisconnectFinish, DeleteSocket, AppCall, netVars
  <2> QED
    BY <2>1 DEF DisconnectWaits
<1>3. CASE StopDisconnect \/ DeleteDisconnect
  <2>1. /\ appSlot \in Slots /\ UNCHANGED <<pc, slot>> /\ Disconnect(appSlot, FALSE, "app")
        /\ appPc # "discWait" /\ appPc' # "discWait"
    BY <1>0, <1>3 DEF StopDisconnect, DeleteDisconnect
  <2> QED
    BY <1>0, <2>1
    DEF Disconnect, DisconnectSuspends, BlockCleanup, RestState, DisconnectWaits, LoopPcs
<1>4. CASE AppDisconnectCall
  <2>1. /\ appSlot \in Slots /\ UNCHANGED <<pc, slot, appSlot>> /\ Disconnect(appSlot, TRUE, "app")
        /\ appPc = "discCall"
        /\ appPc' = IF DisconnectSuspends(appSlot, TRUE) THEN "discWait" ELSE "discUnaccept"
    BY <1>0, <1>4 DEF AppDisconnectCall
  <2>2. CASE ~DisconnectSuspends(appSlot, TRUE)
    BY <1>0, <2>1, <2>2
    DEF Disconnect, DisconnectSuspends, BlockCleanup, RestState, DisconnectWaits, LoopPcs
  <2>3. CASE DisconnectSuspends(appSlot, TRUE)
    <3>1. /\ socketState[appSlot] \in Alive
          /\ \E s \in {"FIN_WAIT_1", "LAST_ACK"} :
               socketState' = [socketState EXCEPT ![appSlot] = s]
          /\ disconnectWaiter' = [disconnectWaiter EXCEPT ![appSlot] = "app"]
      BY <2>1, <2>3 DEF Disconnect, DisconnectSuspends
    <3> QED
      BY <1>0, <2>1, <2>3, <3>1, ConstantsOK DEF DisconnectWaits, LoopPcs
  <2> QED
    BY <2>2, <2>3
<1>5. CASE AppDisconnectWait
  <2>1. /\ appSlot \in Slots /\ UNCHANGED <<pc, slot>>
        /\ appPc = "discWait" /\ appPc' # "discWait"
        /\ disconnectWaiter[appSlot] # "app" /\ DisconnectResumed(appSlot)
    BY <1>0, <1>5 DEF AppDisconnectWait
  <2>2. disconnectWaiter[appSlot] = None
    BY <2>1 DEF DisconnectWaits, Threads
  <2> QED
    BY <1>0, <2>1, <2>2, ConstantsOK
    DEF DisconnectWaits, DisconnectResumed, BlockCleanup, RestState, LoopPcs
<1>6. CASE StopUnaccept \/ AppDisconnectUnaccept \/ DeleteUnaccept
  <2>1. /\ appSlot \in Slots /\ UNCHANGED <<pc, slot>> /\ Unaccept(appSlot)
        /\ appPc # "discWait" /\ appPc' # "discWait"
    BY <1>0, <1>6 DEF StopUnaccept, AppDisconnectUnaccept, DeleteUnaccept
  <2> QED
    BY <1>0, <2>1, UnacceptEnds, ConstantsOK DEF DisconnectWaits, LoopPcs
<1>7. CASE StopUnlisten \/ DeleteUnlisten \/ AppDisconnectRelisten
  <2>1. /\ UNCHANGED <<pc, slot, disconnectWaiter>>
        /\ appPc # "discWait" /\ appPc' # "discWait"
    BY <1>7 DEF StopUnlisten, DeleteUnlisten, AppDisconnectRelisten, Unlisten, Relisten, netVars
  <2>2. \A i \in Slots : socketState'[i] = socketState[i]
                           \/ /\ socketState[i] \notin Closing
                              /\ socketState'[i] \notin Alive
    <3>1. CASE (StopUnlisten \/ DeleteUnlisten) /\ ~UnlistenWorks
      BY <3>1 DEF StopUnlisten, DeleteUnlisten, Unlisten
    <3>2. CASE (StopUnlisten \/ DeleteUnlisten) /\ UnlistenWorks
      BY <3>2, SlotNotNone DEF StopUnlisten, DeleteUnlisten, Unlisten, UnlistenWorks
    <3>3. CASE AppDisconnectRelisten
      BY <1>0, <3>3 DEF AppDisconnectRelisten, Relisten, RelistenWorks, netVars
    <3> QED
      BY <1>7, <3>1, <3>2, <3>3
  <2> QED
    BY <1>0, <2>1, <2>2 DEF DisconnectWaits, LoopPcs
<1>8. CASE DeleteBegin
  BY <1>8, ConstantsOK DEF DeleteBegin, AppCall, TerminateThread, DisconnectWaits
<1>9. CASE Create
  <2>1. CASE CreateFails
    BY <1>9, <2>1 DEF Create, CreateFails, netVars, appVars, DisconnectWaits
  <2>2. CASE CreateSucceeds
    <3>1. pc = "none" /\ appPc = "idle"
      BY <1>9 DEF Create, Existing, Ready, Objects
    <3>2. \A i \in Slots : disconnectWaiter[i] = None
      BY <3>1 DEF DisconnectWaits, Threads
    <3> QED
      BY <2>2, <3>1, <3>2, ConstantsOK
      DEF CreateSucceeds, SocketsCreated, appVars, DisconnectWaits
  <2> QED
    BY <1>9, <2>1, <2>2 DEF Create
<1> QED
  BY <1>1, <1>2, <1>3, <1>4, <1>5, <1>6, <1>7, <1>8, <1>9 DEF Application, AppContinues

\* Every step keeps it.
LEMMA DisconnectWaitsInductive ==
  Base /\ AcceptWaits /\ DisconnectWaits /\ [Next]_vars => DisconnectWaits'
<1> SUFFICES ASSUME Base, AcceptWaits, DisconnectWaits, [Next]_vars PROVE DisconnectWaits'
  OBVIOUS
<1>1. CASE TimerExpires \/ UNCHANGED vars
  BY <1>1, DisconnectKept
  DEF TimerExpires, vars, netVars, socketVars, waitVars, threadVars, appVars
<1> QED
  BY <1>1, DisconnectNetwork, DisconnectThread, DisconnectApplication DEF Next

-----------------------------------------------------------------------------
\* No server exists yet, and nobody waits.
LEMMA WaitsInitial == Init => AcceptWaits /\ DisconnectWaits
  BY ConstantsOK DEF Init, NetInit, AcceptWaits, DisconnectWaits

\* Both hold throughout.
LEMMA WaitsInvariant == Spec => [](Base /\ AcceptWaits /\ DisconnectWaits)
<1>1. Init => Base /\ AcceptWaits /\ DisconnectWaits
  BY Initial, WaitsInitial DEF Base
<1>2. Base /\ AcceptWaits /\ DisconnectWaits /\ [Next]_vars
        => (Base /\ AcceptWaits /\ DisconnectWaits)'
  BY ControlInductive, ExistingInductive, SocketsInductive, AcceptWaitsInductive,
     DisconnectWaitsInductive DEF Base
<1> QED
  BY <1>1, <1>2, PTL DEF Spec

\* No thread is replaced by another one in the sockets' pointers to their waiters.
WaitersStay ==
  \A i \in Slots : disconnectWaiter[i] # None =>
    disconnectWaiter'[i] \in {disconnectWaiter[i], None}

\* Only disconnect makes a thread wait, for a socket whose client is alive.
LEMMA DisconnectTakesFree ==
  ASSUME NetTypeOK, DisconnectWaits, NEW j, NEW wait, NEW th, Disconnect(j, wait, th)
  PROVE  WaitersStay
<1>1. CASE DisconnectSuspends(j, wait)
  <2>1. j \in Slots => disconnectWaiter[j] = None
    BY <1>1 DEF DisconnectSuspends, DisconnectWaits, Alive, Closing
  <2> QED
    BY <1>1, <2>1 DEF Disconnect, DisconnectSuspends, WaitersStay, NetTypeOK
<1>2. CASE ~DisconnectSuspends(j, wait)
  BY <1>2 DEF Disconnect, DisconnectSuspends, WaitersStay, waitVars
<1> QED
  BY <1>1, <1>2

\* To wake a thread, or unaccept the socket, takes no pointer over.
LEMMA WakeLetsGo ==
  ASSUME NetTypeOK, NEW j,
         WakeDisconnect(j) \/ Unaccept(j) \/ UNCHANGED disconnectWaiter
  PROVE  WaitersStay
  BY DEF WaitersStay, WakeDisconnect, Unaccept, NetTypeOK

\* Nor does the network.
LEMMA NetworkLetsGo ==
  ASSUME NetTypeOK, Network
  PROVE  WaitersStay
<1>1. CASE PeerSegment
  <2>1. UNCHANGED disconnectWaiter \/ \E j \in Slots : WakeDisconnect(j)
    BY <1>1 DEF PeerSegment, SynArrives, QueuedSynReset, HandshakeAck, DataArrives, LastAck,
                ConnectionReset, CloseSegment, waitVars
  <2> QED
    BY <2>1, WakeLetsGo
<1>2. CASE NetTimer
  <2>1. UNCHANGED disconnectWaiter \/ \E j \in Slots : WakeDisconnect(j)
    BY <1>2 DEF NetTimer, TimedWaitExpires, AcceptTimesOut, DisconnectTimesOut, waitVars
  <2> QED
    BY <2>1, WakeLetsGo
<1> QED
  BY <1>1, <1>2 DEF Network

\* So no step at all replaces a waiting thread.
LEMMA StepKeepsWaiters ==
  ASSUME Base, DisconnectWaits, [Next]_vars
  PROVE  WaitersStay
<1> USE DEF Base, NetInv
<1>1. CASE ServerThread
  <2>1. \/ UNCHANGED disconnectWaiter \/ Unaccept(slot)
        \/ \E wait \in BOOLEAN : Disconnect(slot, wait, "telnet")
    BY <1>1
    DEF ServerThread, GetEvents, SuspendSelf, ConnectProcess, ConnectScan, ConnectAccept,
        ConnectSuspend, ConnectWait, ConnectUnaccept, ConnectArm, LoadCount, ConnectStore,
        ConnectNew, ConnectOptions, RelistenLoop, DataProcess, DataScan, DataTouch, DataReceive,
        DisconnectProcess, DisconnectScan, DisconnectWhile, DisconnectCall, DisconnectWait,
        DisconnectUnaccept, DisconnectClear, StoreDecremented, ConnectionEnd, TimeoutProcess,
        TimeoutScan, TimeoutStore, TimeoutDisconnect, TimeoutUnaccept, TimeoutRelisten, Local,
        OnSockets, OnData, AcceptSuspends, AcceptGivenUp, Receive, DisconnectResumed, Relisten,
        netVars, waitVars
  <2> QED
    BY <2>1, WakeLetsGo, DisconnectTakesFree
<1>2. CASE Application
  <2>1. CASE DeleteBegin
    BY <2>1 DEF DeleteBegin, TerminateThread, WaitersStay
  <2>2. CASE ~DeleteBegin
    <3>1. \/ UNCHANGED disconnectWaiter \/ Unaccept(appSlot)
          \/ \E wait \in BOOLEAN : Disconnect(appSlot, wait, "app")
      BY <1>2, <2>2
      DEF Application, AppContinues, Create, CreateFails, CreateSucceeds, SocketsCreated, Start,
          Listen, StopBegin, AppDisconnect, StopDisconnect, StopUnaccept, StopUnlisten,
          AppDisconnectCall, AppDisconnectWait, AppDisconnectUnaccept, AppDisconnectFinish,
          AppDisconnectRelisten, DeleteDisconnect, DeleteUnaccept, DeleteSocket, DeleteUnlisten,
          Unlisten, DisconnectResumed, Relisten, netVars, waitVars
    <3> QED
      BY <3>1, WakeLetsGo, DisconnectTakesFree
  <2> QED
    BY <2>1, <2>2
<1>3. CASE NetworkStep
  BY <1>3, NetworkLetsGo DEF NetworkStep
<1>4. CASE TimerExpires \/ UNCHANGED vars
  BY <1>4, WakeLetsGo DEF TimerExpires, vars, netVars, waitVars
<1> QED
  BY <1>1, <1>2, <1>3, <1>4 DEF Next

\* No thread that waits for a disconnect is forgotten: the pointer to it is
\* cleared, which wakes it, before another thread is remembered.
THEOREM WaitersNotLost == Spec => NoLostWaiter
<1>1. Base /\ AcceptWaits /\ DisconnectWaits /\ [Next]_vars => [WaitersStay]_vars
  BY StepKeepsWaiters
<1> QED
  BY <1>1, WaitsInvariant, PTL DEF Spec, NoLostWaiter, WaitersStay

-----------------------------------------------------------------------------
(* What stop and delete leave behind.                                      *)

StopPcs == {"stopDisconnect", "stopUnaccept", "stopUnlisten"}
DiscPcs == {"discCall", "discWait", "discUnaccept", "discFinish", "discRelisten"}

\* A closed socket is the client's kind again: a segment or a time-out that tears
\* it down once more leaves it closed.
ClosedIsClient == \A i \in Slots : socketState[i] = "CLOSED" => clientType[i]

\* A socket that stop or delete is through with, and the sockets they are
\* through with: nothing opens them again before the walk ends.
Quiet(i) == socketState[i] = "CLOSED" /\ ~bound[i] /\ listenSocket # i
Walked == IF appPc \in {"stopUnlisten", "delUnlisten"} THEN Slots
          ELSE {i \in Slots : i < appSlot}

Walk ==
  /\ appPc \in StopPcs \cup DeletePcs => \A i \in Walked : Quiet(i)
  /\ appPc \in {"stopUnaccept", "delUnaccept"} =>
       socketState[appSlot] \notin Alive \cup {"SYN_RECEIVED"}
  /\ appPc = "delSocket" => Quiet(appSlot)
  /\ appPc \in DeletePcs => sockets \cap Walked = {}

\* While the port is closed no socket has a peer.  The one exception to all of
\* them being closed is a socket that the server thread has put back to LISTEN
\* after its accept failed: it unaccepts it next, or delete does.
Portless ==
  ~listening =>
    /\ appPc \notin DiscPcs
    /\ listenSocket = None /\ listenQueue = <<>>
    /\ \A i \in Slots :
         /\ ~bound[i] /\ clientType[i]
         /\ \/ socketState[i] = "CLOSED"
            \/ /\ socketState[i] = "LISTEN"
               /\ (pc = "conUnaccept" /\ slot = i) \/ appPc \in DeletePcs

\* A server that is not there has no sockets and no port.
Gone == ~Ready => appPc \in DeletePcs \/ (sockets = {} /\ ~listening)

Left == ClosedIsClient /\ Walk /\ Portless /\ Gone

\* The calls of NetX the server thread makes, each on its slot.
LEMMA ThreadCalls ==
  ASSUME Base, ServerThread
  PROVE  \/ pc # "conUnaccept" /\ UNCHANGED <<socketVars, listenVars>>
         \/ pc = "conSuspend" /\ slot \in Slots /\ AcceptSuspends(slot) /\ pc' = "conWait"
         \/ /\ pc = "conWait" /\ slot \in Slots /\ AcceptGivenUp(slot)
            /\ pc' = "conUnaccept" /\ slot' = slot
         \/ /\ pc \in {"conUnaccept", "disUnaccept", "timUnaccept"} /\ slot \in Slots
            /\ Unaccept(slot)
            /\ pc' \in {"conScan", "disClear", "timRelisten"}
         \/ slot \in Slots /\ Receive(slot) /\ pc' = "datScan"
         \/ /\ pc \in {"conRelisten", "disRelisten", "timRelisten"} /\ slot \in Slots
            /\ Relisten(slot) /\ pc' # "conUnaccept"
         \/ /\ pc \in {"disCall", "timDisconnect"} /\ slot \in Slots
            /\ \E wait \in BOOLEAN : Disconnect(slot, wait, "telnet")
            /\ pc' # "conUnaccept"
         \/ pc = "disWait" /\ slot \in Slots /\ DisconnectResumed(slot) /\ pc' = "disWhile"
<1>0. pc \notin LoopPcs \/ slot < MaxClients => slot \in Slots
  BY ConstantsOK DEF Base, Control, ServerTypeOK, InRange, Slots
<1> USE DEF ThreadRuns, LoopPcs, Goto, NextSlot, Done, Process
<1>1. CASE GetEvents \/ SuspendSelf
  BY <1>1 DEF GetEvents, SuspendSelf, netVars
<1>2. CASE ConnectProcess
  BY <1>0, <1>2 DEF ConnectProcess, ConnectScan, ConnectAccept, ConnectSuspend, ConnectWait,
                    ConnectUnaccept, ConnectArm, LoadCount, ConnectStore, ConnectNew,
                    ConnectOptions, RelistenLoop, Local, OnData, netVars
<1>3. CASE DataProcess
  BY <1>0, <1>3 DEF DataProcess, DataScan, DataTouch, DataReceive, Local, OnData, netVars
<1>4. CASE DisconnectProcess
  BY <1>0, <1>4 DEF DisconnectProcess, DisconnectScan, DisconnectWhile, DisconnectCall,
                    DisconnectWait, DisconnectUnaccept, DisconnectClear, LoadCount,
                    StoreDecremented, ConnectionEnd, RelistenLoop, Local, OnData, netVars
<1>5. CASE TimeoutProcess
  BY <1>0, <1>5 DEF TimeoutProcess, TimeoutScan, TimeoutStore, TimeoutDisconnect, TimeoutUnaccept,
                    TimeoutRelisten, LoadCount, StoreDecremented, ConnectionEnd, Local, OnData,
                    netVars
<1> QED
  BY <1>1, <1>2, <1>3, <1>4, <1>5 DEF ServerThread

\* A closed socket is the client's kind after any of NetX's calls but unlisten,
\* and after any step of the network.
LEMMA CallsClose ==
  ASSUME NetTypeOK, ClosedIsClient, NEW j \in Slots,
         \/ UNCHANGED socketVars \/ Listen(j) \/ Relisten(j) \/ AcceptSuspends(j)
         \/ AcceptGivenUp(j) \/ Unaccept(j) \/ Receive(j) \/ DisconnectResumed(j)
         \/ \E wait \in BOOLEAN, th \in Threads : Disconnect(j, wait, th)
  PROVE  ClosedIsClient'
<1> USE DEF NetTypeOK, ClosedIsClient, socketVars
<1>1. CASE UNCHANGED socketVars \/ Listen(j) \/ Relisten(j) \/ Receive(j)
  BY <1>1 DEF Listen, Relisten, Receive
<1>2. CASE AcceptSuspends(j) \/ AcceptGivenUp(j)
  BY <1>2 DEF AcceptSuspends, AcceptGivenUp
<1>3. CASE Unaccept(j)
  BY <1>3 DEF Unaccept
<1>4. CASE DisconnectResumed(j)
  BY <1>4 DEF DisconnectResumed, BlockCleanup, RestState
<1>5. CASE \E wait \in BOOLEAN, th \in Threads : Disconnect(j, wait, th)
  BY <1>5 DEF Disconnect, BlockCleanup, RestState
<1> QED
  BY <1>1, <1>2, <1>3, <1>4, <1>5

\* A segment or a timer that closes a socket leaves it to clients.
LEMMA NetworkCloses ==
  ASSUME NetTypeOK, ClosedIsClient, Network
  PROVE  ClosedIsClient'
<1> USE DEF NetTypeOK, ClosedIsClient, BlockCleanup, RestState
<1>1. CASE \E p \in Peers : SynArrives(p)
  BY <1>1 DEF SynArrives
<1>2. CASE \E k \in DOMAIN listenQueue : QueuedSynReset(k)
  BY <1>2 DEF QueuedSynReset, socketVars
<1>3. CASE \E i \in Slots : HandshakeAck(i) \/ DataArrives(i)
  BY <1>3 DEF HandshakeAck, DataArrives
<1>4. ASSUME NEW i \in Slots, LastAck(i) PROVE ClosedIsClient'
  BY <1>4 DEF LastAck
<1>5. ASSUME NEW i \in Slots, ConnectionReset(i) PROVE ClosedIsClient'
  BY <1>5 DEF ConnectionReset
<1>6. CASE \E i \in Slots : \E to \in TcpStates : CloseSegment(i, to)
  BY <1>6 DEF CloseSegment, CloseMoves
<1>7. CASE NetTimer
  BY <1>7 DEF NetTimer, TimedWaitExpires, AcceptTimesOut, DisconnectTimesOut, socketVars
<1> QED
  BY <1>1, <1>2, <1>3, <1>4, <1>5, <1>6, <1>7 DEF Network, PeerSegment

\* unlisten comes when the walk has been over every socket, so the listen request
\* names none.
LEMMA UnlistenLast ==
  ASSUME NetTypeOK, Walk, appPc \in {"stopUnlisten", "delUnlisten"}
  PROVE  listenSocket = None /\ \A i \in Slots : socketState[i] = "CLOSED" /\ ~bound[i]
  BY DEF Walk, Walked, Quiet, NetTypeOK, StopPcs, DeletePcs

\* That unlisten then takes the port and its queue, and nothing else.
LEMMA UnlistenCloses ==
  ASSUME NetTypeOK, Walk, appPc \in {"stopUnlisten", "delUnlisten"}, Unlisten
  PROVE  /\ ~listening' /\ listenSocket' = None
         /\ listening => listenQueue' = <<>>
         /\ ~listening => UNCHANGED listenQueue
         /\ UNCHANGED <<bound, clientType>>
         /\ \A i \in Slots : socketState'[i] = socketState[i]
<1>1. listenSocket = None
  BY UnlistenLast
<1> QED
  BY <1>1, SlotNotNone DEF Unlisten, UnlistenWorks, listenVars, NetTypeOK

\* Every step keeps the kind of the closed sockets.
LEMMA ClosedIsClientInductive ==
  Base /\ Walk /\ ClosedIsClient /\ [Next]_vars => ClosedIsClient'
<1> SUFFICES ASSUME Base, Walk, ClosedIsClient, [Next]_vars PROVE ClosedIsClient'
  OBVIOUS
<1> USE DEF Base, NetInv
<1>1. CASE ServerThread
  BY <1>1, ThreadCalls, CallsClose, FirstSlot DEF Threads
<1>2. CASE NetworkStep
  BY <1>2, NetworkCloses DEF NetworkStep
<1>3. CASE TimerExpires \/ UNCHANGED vars
  BY <1>3, CallsClose, FirstSlot DEF TimerExpires, vars, netVars
<1>4. CASE Application
  <2>0. appPc \notin {"idle", "discRelisten", "stopUnlisten", "delUnlisten"}
          \/ appSlot < MaxClients => appSlot \in Slots
    BY ConstantsOK DEF Control, ServerTypeOK, InRange, Slots
  <2>1. CASE Start
    BY <2>1, CallsClose, FirstSlot DEF Start
  <2>2. CASE \/ StopBegin \/ (\E i \in Slots : AppDisconnect(i)) \/ AppDisconnectFinish
             \/ DeleteSocket \/ (Create /\ CreateFails)
    BY <2>2, CallsClose, FirstSlot
    DEF StopBegin, AppDisconnect, AppDisconnectFinish, DeleteSocket, CreateFails, netVars
  <2>3. CASE \/ StopDisconnect \/ AppDisconnectCall \/ DeleteDisconnect \/ AppDisconnectWait
    BY <2>0, <2>3, CallsClose
    DEF StopDisconnect, AppDisconnectCall, DeleteDisconnect, AppDisconnectWait, Threads
  <2>4. CASE StopUnaccept \/ AppDisconnectUnaccept \/ DeleteUnaccept \/ AppDisconnectRelisten
    BY <2>0, <2>4, CallsClose, FirstSlot
    DEF StopUnaccept, AppDisconnectUnaccept, DeleteUnaccept, AppDisconnectRelisten, netVars
  <2>5. CASE StopUnlisten \/ DeleteUnlisten
    BY <2>5, UnlistenCloses DEF StopUnlisten, DeleteUnlisten, ClosedIsClient
  <2>6. CASE DeleteBegin
    BY <2>6 DEF DeleteBegin, TerminateThread, RestState, ClosedIsClient, NetTypeOK
  <2>7. CASE Create /\ CreateSucceeds
    BY <2>7 DEF CreateSucceeds, SocketsCreated, ClosedIsClient
  <2> QED
    BY <1>4, <2>1, <2>2, <2>3, <2>4, <2>5, <2>6, <2>7 DEF Application, AppContinues, Create
<1> QED
  BY <1>1, <1>2, <1>3, <1>4 DEF Next

\* The network opens no socket behind the walk.
LEMMA NetworkStaysQuiet ==
  ASSUME NetTypeOK, ClosedIsClient, Network, NEW j \in Slots, Quiet(j)
  PROVE  Quiet(j)'
<1> USE DEF NetTypeOK, Quiet, ClosedIsClient, BlockCleanup, RestState
<1>1. CASE \E p \in Peers : SynArrives(p)
  BY <1>1, SlotNotNone DEF SynArrives
<1>2. CASE \E k \in DOMAIN listenQueue : QueuedSynReset(k)
  BY <1>2 DEF QueuedSynReset, socketVars
<1>3. CASE \E i \in Slots : HandshakeAck(i) \/ DataArrives(i)
  BY <1>3 DEF HandshakeAck, DataArrives, listenVars
<1>4. ASSUME NEW i \in Slots, LastAck(i) PROVE Quiet(j)'
  BY <1>4 DEF LastAck, listenVars
<1>5. ASSUME NEW i \in Slots, ConnectionReset(i) PROVE Quiet(j)'
  BY <1>5 DEF ConnectionReset, listenVars
<1>6. CASE \E i \in Slots : \E to \in TcpStates : CloseSegment(i, to)
  BY <1>6 DEF CloseSegment, CloseMoves, listenVars
<1>7. CASE NetTimer
  BY <1>7 DEF NetTimer, TimedWaitExpires, AcceptTimesOut, DisconnectTimesOut, socketVars, listenVars
<1> QED
  BY <1>1, <1>2, <1>3, <1>4, <1>5, <1>6, <1>7 DEF Network, PeerSegment

\* Nor does it connect a socket that was just reset.
LEMMA NetworkStaysEnded ==
  ASSUME NetTypeOK, Network, NEW j \in Slots, socketState[j] \notin Alive \cup {"SYN_RECEIVED"}
  PROVE  socketState'[j] \notin Alive \cup {"SYN_RECEIVED"}
<1> USE DEF NetTypeOK, Alive, BlockCleanup, RestState
<1>1. CASE \E p \in Peers : SynArrives(p)
  BY <1>1 DEF SynArrives
<1>2. CASE \E k \in DOMAIN listenQueue : QueuedSynReset(k)
  BY <1>2 DEF QueuedSynReset, socketVars
<1>3. CASE \E i \in Slots : HandshakeAck(i) \/ DataArrives(i) \/ LastAck(i) \/ ConnectionReset(i)
  <2>1. CASE \E i \in Slots : HandshakeAck(i) \/ DataArrives(i)
    BY <2>1 DEF HandshakeAck, DataArrives
  <2>2. ASSUME NEW i \in Slots, LastAck(i)
        PROVE  socketState'[j] \notin Alive \cup {"SYN_RECEIVED"}
    BY <2>2 DEF LastAck
  <2>3. ASSUME NEW i \in Slots, ConnectionReset(i)
        PROVE  socketState'[j] \notin Alive \cup {"SYN_RECEIVED"}
    BY <2>3 DEF ConnectionReset
  <2> QED
    BY <1>3, <2>1, <2>2, <2>3
<1>4. CASE \E i \in Slots : \E to \in TcpStates : CloseSegment(i, to)
  BY <1>4 DEF CloseSegment, CloseMoves
<1>5. CASE NetTimer
  BY <1>5 DEF NetTimer, TimedWaitExpires, AcceptTimesOut, DisconnectTimesOut, socketVars
<1> QED
  BY <1>1, <1>2, <1>3, <1>4, <1>5 DEF Network, PeerSegment

\* Disconnect without a wait ends the connection; what is left of it, unaccept
\* clears.  Neither touches another socket.
LEMMA DisconnectEnds ==
  ASSUME NetTypeOK, NEW j \in Slots, Disconnect(j, FALSE, "app")
  PROVE  /\ socketState'[j] \notin Alive \cup {"SYN_RECEIVED"}
         /\ \A i \in Slots : Quiet(i) => Quiet(i)'
  BY DEF Disconnect, DisconnectSuspends, BlockCleanup, RestState, NetTypeOK, Alive, Quiet,
         listenVars

\* Unaccept after such a disconnect leaves its socket quiet, and the others.
LEMMA UnacceptQuiet ==
  ASSUME NetInv, NEW j \in Slots, Unaccept(j), socketState[j] \notin Alive \cup {"SYN_RECEIVED"}
  PROVE  /\ Quiet(j)'
         /\ \A i \in Slots : Quiet(i) => Quiet(i)'
<1>1. CASE UnacceptTearsDown(j) \/ socketState[j] = "LISTEN"
  <2>1. listenSocket = j => ~bound[j]
    BY SlotNotNone DEF NetInv, ListenerSound
  <2>2. listenSocket' # j /\ listenSocket' \in {listenSocket, None}
    BY <1>1, <2>1, SlotNotNone DEF Unaccept
  <2> QED
    BY <1>1, <2>2, SlotNotNone DEF Unaccept, Quiet, NetInv, NetTypeOK
<1>2. CASE ~(UnacceptTearsDown(j) \/ socketState[j] = "LISTEN")
  <2>1. socketState[j] = "CLOSED" /\ ~bound[j]
    BY <1>2 DEF UnacceptTearsDown, NetInv, NetTypeOK, TcpStates, Alive, AfterEstablished
  <2>2. listenSocket # j
    BY <2>1, SlotNotNone DEF NetInv, ListenerSound
  <2> QED
    BY <1>2, <2>1, <2>2 DEF Unaccept, Quiet, socketVars
<1> QED
  BY <1>1, <1>2

\* stop and delete walk over the sockets, and what is behind them stays quiet.
LEMMA WalkInductive ==
  Base /\ DisconnectWaits /\ ClosedIsClient /\ Walk /\ [Next]_vars => Walk'
<1> SUFFICES ASSUME Base, DisconnectWaits, ClosedIsClient, Walk, [Next]_vars PROVE Walk'
  OBVIOUS
<1> USE DEF Base
<1>0. /\ appPc \notin {"idle", "discRelisten", "stopUnlisten", "delUnlisten"}
           => appSlot \in Slots
      /\ sockets \in SUBSET Slots /\ appSlot \in Nat
  BY ConstantsOK DEF Control, ServerTypeOK, InRange, Slots
<1>1. CASE ServerThread
  BY <1>1, ThreadMoves DEF Walk, StopPcs, DeletePcs
<1>2. CASE NetworkStep
  <2>1. UNCHANGED <<appPc, appSlot, sockets>> /\ Walked' = Walked /\ Walked \subseteq Slots
    BY <1>2 DEF NetworkStep, kernelVars, appVars, Walked
  <2>2. \A i \in Slots : Quiet(i) => Quiet(i)'
    BY <1>2, NetworkStaysQuiet DEF NetworkStep, NetInv
  <2>3. appPc \in {"stopUnaccept", "delUnaccept"} =>
          socketState'[appSlot] \notin Alive \cup {"SYN_RECEIVED"}
    BY <1>0, <1>2, NetworkStaysEnded DEF NetworkStep, NetInv, Walk
  <2> QED
    BY <1>0, <2>1, <2>2, <2>3 DEF Walk
<1>3. CASE TimerExpires \/ UNCHANGED vars
  <2>1. /\ UNCHANGED <<appPc, appSlot, sockets, socketState, bound, listenSocket>>
        /\ Walked' = Walked
    BY <1>3 DEF TimerExpires, vars, netVars, socketVars, listenVars, kernelVars, appVars, Walked
  <2> QED
    BY <2>1 DEF Walk, Quiet
<1>4. CASE Create \/ Start \/ (\E i \in Slots : AppDisconnect(i)) \/ AppDisconnectCall
           \/ AppDisconnectWait \/ AppDisconnectUnaccept \/ AppDisconnectFinish
           \/ AppDisconnectRelisten \/ StopUnlisten \/ DeleteUnlisten
  <2>1. appPc' \notin StopPcs \cup DeletePcs
    BY <1>4 DEF Create, CreateFails, CreateSucceeds, Start, AppDisconnect, AppCall,
                AppDisconnectCall, AppDisconnectWait, AppDisconnectUnaccept,
                AppDisconnectFinish, AppDisconnectRelisten, StopUnlisten, DeleteUnlisten,
                AppGoto, appVars, StopPcs, DeletePcs
  <2> QED
    BY <2>1 DEF Walk, StopPcs, DeletePcs
<1>5. CASE StopBegin \/ DeleteBegin
  <2>1. appPc' \in {"stopDisconnect", "delDisconnect"} /\ appSlot' = 0
    BY <1>5 DEF StopBegin, DeleteBegin, AppCall
  <2>2. Walked' = {}
    BY <2>1, ConstantsOK DEF Walked, Slots
  <2> QED
    BY <2>1, <2>2 DEF Walk
<1>6. CASE StopDisconnect \/ DeleteDisconnect
  <2>1. /\ appPc \in {"stopDisconnect", "delDisconnect"}
        /\ appPc' \in {"stopUnaccept", "delUnaccept"}
        /\ appPc' \in DeletePcs => appPc \in DeletePcs
        /\ appSlot \in Slots /\ appSlot' = appSlot
        /\ UNCHANGED sockets /\ Disconnect(appSlot, FALSE, "app")
    BY <1>0, <1>6 DEF StopDisconnect, DeleteDisconnect, AppGoto, kernelVars, DeletePcs
  <2>2. Walked' = Walked /\ Walked \subseteq Slots
    BY <2>1 DEF Walked
  <2>3. /\ socketState'[appSlot] \notin Alive \cup {"SYN_RECEIVED"}
        /\ \A i \in Slots : Quiet(i) => Quiet(i)'
    BY <2>1, DisconnectEnds DEF NetInv
  <2> QED
    BY <2>1, <2>2, <2>3 DEF Walk, StopPcs, DeletePcs
<1>7. CASE StopUnaccept
  <2>1. PICK j \in Slots : j = appSlot
    BY <1>0, <1>7 DEF StopUnaccept
  <2>2. \A i \in Slots : i = j \/ Quiet(i) => Quiet(i)'
    BY <1>7, <2>1, UnacceptQuiet DEF StopUnaccept, Walk
  <2>3. \A i \in Walked' : i \in Slots /\ (i \in Walked \/ i = j)
    BY <1>0, <1>7, <2>1, ConstantsOK DEF StopUnaccept, AppGoto, Walked, Slots
  <2>4. \A i \in Walked : Quiet(i)
    BY <1>7 DEF StopUnaccept, Walk, StopPcs
  <2>5. appPc' \in {"stopDisconnect", "stopUnlisten"}
    BY <1>7 DEF StopUnaccept, AppGoto
  <2> QED
    BY <2>2, <2>3, <2>4, <2>5 DEF Walk, DeletePcs
<1>8. CASE DeleteUnaccept
  <2>1. PICK j \in Slots : j = appSlot
    BY <1>0, <1>8 DEF DeleteUnaccept
  <2>2. \A i \in Slots : i = j \/ Quiet(i) => Quiet(i)'
    BY <1>8, <2>1, UnacceptQuiet DEF DeleteUnaccept, Walk
  <2>3. /\ appPc = "delUnaccept" /\ appPc' = "delSocket" /\ appSlot' = j
        /\ UNCHANGED sockets /\ Walked' = Walked /\ Walked \subseteq Slots
    BY <1>8, <2>1 DEF DeleteUnaccept, AppGoto, kernelVars, Walked
  <2>4. Quiet(appSlot)'
    BY <2>2, <2>3 DEF Quiet
  <2> QED
    BY <2>2, <2>3, <2>4 DEF Walk, DeletePcs
<1>9. CASE DeleteSocket
  <2>1. /\ Quiet(appSlot) /\ appSlot \in Slots
        /\ UNCHANGED <<socketState, bound, listenSocket>>
        /\ sockets' = sockets \ {appSlot}
        /\ appPc = "delSocket" /\ appPc' \in {"delDisconnect", "delUnlisten"}
    BY <1>0, <1>9 DEF DeleteSocket, AppGoto, Walk, Quiet, SocketDeletes, netVars, socketVars,
                      listenVars
  <2>2. \A i \in Walked' : i \in Walked \/ i = appSlot
    BY <1>0, <1>9, ConstantsOK DEF DeleteSocket, AppGoto, Walked, Slots
  <2>3. \A i \in Walked : Quiet(i)
    BY <2>1 DEF Walk, DeletePcs
  <2>4. \A i \in Walked' : Quiet(i)'
    BY <2>1, <2>2, <2>3 DEF Quiet
  <2>5. sockets' \cap Walked' = {}
    BY <2>1, <2>2 DEF Walk, DeletePcs
  <2> QED
    BY <2>1, <2>4, <2>5 DEF Walk
<1> QED
  BY <1>1, <1>2, <1>3, <1>4, <1>5, <1>6, <1>7, <1>8, <1>9 DEF Next, Application, AppContinues

\* No segment and no timer opens a socket while the port is closed.
LEMMA NetworkPortless ==
  ASSUME Base, Portless, Network, ~listening, UNCHANGED <<pc, slot, appPc>>
  PROVE  Portless'
<1> USE DEF Base, NetInv, NetTypeOK, Portless, BlockCleanup, RestState
<1>1. CASE \E p \in Peers : SynArrives(p)
  BY <1>1 DEF SynArrives
<1>2. CASE \E k \in DOMAIN listenQueue : QueuedSynReset(k)
  BY <1>2, EmptySeq
<1>3. CASE \E i \in Slots : HandshakeAck(i) \/ DataArrives(i) \/ LastAck(i) \/ ConnectionReset(i)
  BY <1>3 DEF HandshakeAck, DataArrives, LastAck, ConnectionReset
<1>4. CASE \E i \in Slots : \E to \in TcpStates : CloseSegment(i, to)
  BY <1>4 DEF CloseSegment
<1>5. CASE \E i \in Slots : TimedWaitExpires(i) \/ DisconnectTimesOut(i)
  BY <1>5 DEF TimedWaitExpires, DisconnectTimesOut, socketVars, listenVars
<1>6. CASE \E i \in Slots : AcceptTimesOut(i)
  BY <1>6 DEF AcceptTimesOut, listenVars
<1> QED
  BY <1>1, <1>2, <1>3, <1>4, <1>5, <1>6 DEF Network, PeerSegment, NetTimer

\* The server thread leaves a closed port as it is: an accept that failed may put
\* one socket to LISTEN, and the unaccept that follows closes it.
LEMMA ThreadPortless ==
  ASSUME Base, DisconnectWaits, Portless, ServerThread
  PROVE  Portless'
<1> SUFFICES ASSUME ~listening' PROVE Portless'
  BY DEF Portless
<1>1. UNCHANGED <<appPc, appSlot>> /\ appPc \notin DeletePcs
  BY ThreadMoves DEF DeletePcs
<1>2. ~listening
  BY ThreadCalls DEF listenVars, AcceptSuspends, AcceptGivenUp, Unaccept, Receive, Relisten,
                     Disconnect, DisconnectResumed
<1> USE DEF Base, NetInv, NetTypeOK, Portless, socketVars, listenVars
<1>3. CASE pc # "conUnaccept" /\ UNCHANGED <<socketVars, listenVars>>
  BY <1>1, <1>2, <1>3
<1>4. CASE pc = "conSuspend" /\ slot \in Slots /\ AcceptSuspends(slot) /\ pc' = "conWait"
  BY <1>1, <1>2, <1>4 DEF AcceptSuspends
<1>5. CASE /\ pc = "conWait" /\ slot \in Slots /\ AcceptGivenUp(slot)
           /\ pc' = "conUnaccept" /\ slot' = slot
  BY <1>1, <1>2, <1>5 DEF AcceptGivenUp
<1>6. CASE /\ pc \in {"conUnaccept", "disUnaccept", "timUnaccept"} /\ slot \in Slots
           /\ Unaccept(slot)
           /\ pc' \in {"conScan", "disClear", "timRelisten"}
  BY <1>1, <1>2, <1>6 DEF Unaccept, UnacceptTearsDown, AfterEstablished
<1>7. CASE slot \in Slots /\ (Receive(slot) \/ Relisten(slot))
  BY <1>2, <1>7 DEF Receive, ReceiveWorks, Relisten, RelistenWorks
<1>8. CASE /\ pc \in {"disCall", "timDisconnect"} /\ slot \in Slots
           /\ \E wait \in BOOLEAN : Disconnect(slot, wait, "telnet")
           /\ pc' # "conUnaccept"
  BY <1>1, <1>2, <1>8 DEF Disconnect, DisconnectSuspends
<1>9. CASE pc = "disWait" /\ slot \in Slots /\ DisconnectResumed(slot) /\ pc' = "disWhile"
  BY <1>1, <1>2, <1>9 DEF DisconnectResumed, BlockCleanup, RestState
<1> QED
  BY <1>3, <1>4, <1>5, <1>6, <1>7, <1>8, <1>9, ThreadCalls

\* stop and delete close the port when every socket is closed; start opens it, and
\* disconnect is called only while it is open.
LEMMA ApplicationPortless ==
  ASSUME Base, ClosedIsClient, Walk, Portless, Application
  PROVE  Portless'
<1> SUFFICES ASSUME ~listening' PROVE Portless'
  BY DEF Portless
<1>0. appPc \notin {"idle", "discRelisten", "stopUnlisten", "delUnlisten"} => appSlot \in Slots
  BY ConstantsOK DEF Base, Control, ServerTypeOK, InRange, Slots
<1> USE DEF Base, NetInv, NetTypeOK, socketVars, listenVars
<1>1. CASE Start
  BY <1>1 DEF Start, Listen
<1>2. CASE StopBegin \/ DeleteSocket \/ (Create /\ CreateFails)
  BY <1>2 DEF StopBegin, AppCall, DeleteSocket, Create, CreateFails, AppGoto, netVars, threadVars,
              appVars, Portless, DiscPcs, DeletePcs
<1>3. CASE (\E i \in Slots : AppDisconnect(i)) \/ AppDisconnectCall \/ AppDisconnectWait
           \/ AppDisconnectUnaccept \/ AppDisconnectFinish \/ AppDisconnectRelisten
  <2>1. UNCHANGED listening
    BY <1>3 DEF AppDisconnect, AppDisconnectCall, AppDisconnectWait, AppDisconnectUnaccept,
                AppDisconnectFinish, AppDisconnectRelisten, Disconnect, DisconnectResumed,
                Unaccept, Relisten, netVars
  <2>2. \/ appPc \in DiscPcs
        \/ \E i \in Slots : socketState[i] \in {"ESTABLISHED"} \cup AfterEstablished
    BY <1>3 DEF AppDisconnect, AppDisconnectCall, AppDisconnectWait, AppDisconnectUnaccept,
                AppDisconnectFinish, AppDisconnectRelisten, DiscPcs
  <2> QED
    BY <2>1, <2>2 DEF Portless, AfterEstablished
<1>4. CASE StopDisconnect \/ DeleteDisconnect
  BY <1>0, <1>4 DEF StopDisconnect, DeleteDisconnect, AppGoto, Disconnect, DisconnectSuspends,
                    threadVars, Portless, DiscPcs, DeletePcs
<1>5. CASE StopUnaccept \/ DeleteUnaccept
  <2>1. /\ appSlot \in Slots /\ Unaccept(appSlot) /\ UNCHANGED <<pc, slot>>
        /\ appPc' \notin DiscPcs
        /\ appPc \in DeletePcs => appPc' \in DeletePcs
    BY <1>0, <1>5 DEF StopUnaccept, DeleteUnaccept, AppGoto, threadVars, DiscPcs, DeletePcs
  <2>2. ~listening
    BY <2>1 DEF Unaccept
  <2>3. ASSUME NEW i \in Slots
        PROVE  /\ ~bound'[i] /\ clientType'[i]
               /\ socketState'[i] \in {socketState[i], "CLOSED"}
    BY <2>1, <2>2 DEF Unaccept, Portless
  <2>4. listenSocket' = None /\ listenQueue' = <<>>
    BY <2>1, <2>2 DEF Unaccept, Portless
  <2> QED
    BY <2>1, <2>2, <2>3, <2>4 DEF Portless
<1>6. CASE StopUnlisten \/ DeleteUnlisten
  <2>1. /\ appPc \in {"stopUnlisten", "delUnlisten"} /\ Unlisten /\ appPc' = "idle"
    BY <1>6 DEF StopUnlisten, DeleteUnlisten, AppGoto
  <2>2. listenSocket' = None /\ listenQueue' = <<>>
    BY <2>1, UnlistenCloses DEF Portless
  <2>3. \A i \in Slots : socketState'[i] = "CLOSED" /\ ~bound'[i] /\ clientType'[i]
    BY <2>1, UnlistenCloses, UnlistenLast DEF ClosedIsClient
  <2> QED
    BY <2>1, <2>2, <2>3 DEF Portless, DiscPcs
<1>7. CASE DeleteBegin
  BY <1>7 DEF DeleteBegin, AppCall, TerminateThread, RestState, Portless, DiscPcs, DeletePcs
<1>8. CASE Create /\ CreateSucceeds
  BY <1>8 DEF CreateSucceeds, SocketsCreated, Portless, Create, appVars, DiscPcs
<1> QED
  BY <1>1, <1>2, <1>3, <1>4, <1>5, <1>6, <1>7, <1>8 DEF Application, AppContinues, Create

\* Every step keeps what holds without a port.
LEMMA PortlessInductive ==
  Base /\ DisconnectWaits /\ ClosedIsClient /\ Walk /\ Portless /\ [Next]_vars => Portless'
<1> SUFFICES ASSUME Base, DisconnectWaits, ClosedIsClient, Walk, Portless, [Next]_vars
             PROVE  Portless'
  OBVIOUS
<1>1. CASE NetworkStep
  <2>1. UNCHANGED <<pc, slot, appPc>> /\ Network
    BY <1>1 DEF NetworkStep, threadVars, appVars
  <2>2. CASE ~listening
    BY <2>1, <2>2, NetworkPortless
  <2>3. CASE listening
    <3>1. UNCHANGED listening
      BY <2>1 DEF Network, PeerSegment, NetTimer, SynArrives, QueuedSynReset, HandshakeAck,
                  DataArrives, LastAck, ConnectionReset, CloseSegment, TimedWaitExpires,
                  AcceptTimesOut, DisconnectTimesOut, listenVars
    <3> QED
      BY <2>3, <3>1 DEF Portless
  <2> QED
    BY <2>2, <2>3
<1>2. CASE TimerExpires \/ UNCHANGED vars
  BY <1>2 DEF TimerExpires, vars, netVars, socketVars, listenVars, threadVars, appVars, Portless
<1> QED
  BY <1>1, <1>2, ThreadPortless, ApplicationPortless DEF Next

\* Every step keeps what holds of a deleted server.
LEMMA GoneInductive ==
  Base /\ DisconnectWaits /\ Walk /\ Gone /\ [Next]_vars => Gone'
<1> SUFFICES ASSUME Base, DisconnectWaits, Walk, Gone, [Next]_vars PROVE Gone'
  OBVIOUS
<1> USE DEF Base, NetInv, Gone, Ready
<1>1. CASE ServerThread
  <2>1. Ready /\ UNCHANGED objects
    <3>1. UNCHANGED objects
      BY <1>1
      DEF ServerThread, GetEvents, SuspendSelf, ConnectProcess, ConnectScan, ConnectAccept,
          ConnectSuspend, ConnectWait, ConnectUnaccept, ConnectArm, LoadCount, ConnectStore,
          ConnectNew, ConnectOptions, RelistenLoop, DataProcess, DataScan, DataTouch,
          DataReceive, DisconnectProcess, DisconnectScan, DisconnectWhile, DisconnectCall,
          DisconnectWait, DisconnectUnaccept, DisconnectClear, StoreDecremented, ConnectionEnd,
          TimeoutProcess, TimeoutScan, TimeoutStore, TimeoutDisconnect, TimeoutUnaccept,
          TimeoutRelisten, Local, OnSockets, OnData, kernelVars
    <3> QED
      BY <1>1, <3>1, ThreadMoves DEF Existing
  <2> QED
    BY <2>1
<1>2. CASE NetworkStep \/ TimerExpires \/ UNCHANGED vars
  <2>1. UNCHANGED <<objects, sockets, appPc, listening>>
    BY <1>2 DEF NetworkStep, Network, PeerSegment, NetTimer, SynArrives, QueuedSynReset,
                HandshakeAck, DataArrives, LastAck, ConnectionReset, CloseSegment,
                TimedWaitExpires, AcceptTimesOut, DisconnectTimesOut, TimerExpires, vars,
                netVars, listenVars, kernelVars, appVars
  <2> QED
    BY <2>1
<1>3. CASE \/ Start \/ StopBegin \/ (\E i \in Slots : AppDisconnect(i))
           \/ StopDisconnect \/ StopUnaccept \/ StopUnlisten
           \/ AppDisconnectCall \/ AppDisconnectWait \/ AppDisconnectUnaccept
           \/ AppDisconnectFinish \/ AppDisconnectRelisten
  \* these need a server, and keep it
  <2>1. Ready /\ UNCHANGED objects
    BY <1>3 DEF Start, StopBegin, AppDisconnect, AppCall, StopDisconnect, StopUnaccept,
                StopUnlisten, AppDisconnectCall, AppDisconnectWait, AppDisconnectUnaccept,
                AppDisconnectFinish, AppDisconnectRelisten, kernelVars, Existing, CallPcs,
                DeletePcs, AppPcs
  <2> QED
    BY <2>1
<1>4. CASE DeleteBegin \/ DeleteDisconnect \/ DeleteUnaccept \/ DeleteSocket
  <2>1. appPc' \in DeletePcs
    BY <1>4 DEF DeleteBegin, DeleteDisconnect, DeleteUnaccept, DeleteSocket, AppCall, AppGoto,
                DeletePcs
  <2> QED
    BY <2>1
<1>5. CASE DeleteUnlisten
  <2>1. appPc = "delUnlisten" /\ Unlisten /\ UNCHANGED sockets
    BY <1>5 DEF DeleteUnlisten, kernelVars
  <2>2. ~listening'
    BY <2>1, UnlistenCloses
  <2>3. sockets = {}
    BY <2>1 DEF Walk, Walked, DeletePcs, Control, ServerTypeOK
  <2> QED
    BY <2>1, <2>2, <2>3
<1>6. CASE Create
  <2>1. CASE CreateFails
    BY <1>6, <2>1 DEF Create, CreateFails, netVars, listenVars, Objects, DeletePcs
  <2>2. CASE CreateSucceeds
    BY <2>2 DEF CreateSucceeds
  <2> QED
    BY <1>6, <2>1, <2>2 DEF Create
<1> QED
  BY <1>1, <1>2, <1>3, <1>4, <1>5, <1>6 DEF Next, Application, AppContinues

\* A server that was never created left nothing.
LEMMA LeftInitial == Init => Left
  BY DEF Init, NetInit, Left, ClosedIsClient, Walk, Portless, Gone, StopPcs, DeletePcs, DiscPcs

\* What the calls leave behind holds throughout.
LEMMA LeftInvariant == Spec => [](Base /\ AcceptWaits /\ DisconnectWaits /\ Left)
<1>1. Init => Left
  BY LeftInitial
<1>2. (Base /\ AcceptWaits /\ DisconnectWaits) /\ Left /\ [Next]_vars => Left'
  BY ClosedIsClientInductive, WalkInductive, PortlessInductive, GoneInductive DEF Left
<1> QED
  BY <1>1, <1>2, WaitsInvariant, PTL DEF Spec

-----------------------------------------------------------------------------
\* stop closes the port: its unlisten, the last thing it does, never meets a
\* socket that keeps the request.
THEOREM StopClosesThePort == Spec => StopClosesPort
<1>1. (Base /\ AcceptWaits /\ DisconnectWaits /\ Left) => [StopUnlisten => ~listening']_vars
  BY UnlistenCloses DEF Base, NetInv, Left, StopUnlisten
<1> QED
  BY <1>1, LeftInvariant, PTL DEF StopClosesPort

\* Once the server thread has suspended itself after a stop, no socket is open or
\* bound, and no SYN waits.
THEOREM StopLeavesQuiet == Spec => []StoppedQuiet
<1>1. (Base /\ AcceptWaits /\ DisconnectWaits /\ Left) => StoppedQuiet
  BY DEF Left, Portless, StoppedQuiet, Stopped, DeletePcs
<1> QED
  BY <1>1, LeftInvariant, PTL

\* delete leaves no socket, no port and no SYN.
THEOREM DeleteLeavesQuiet == Spec => []DeletedQuiet
<1>1. (Base /\ AcceptWaits /\ DisconnectWaits /\ Left) => DeletedQuiet
  BY DEF Left, Portless, Gone, DeletedQuiet, DeletePcs
<1> QED
  BY <1>1, LeftInvariant, PTL
=============================================================================
