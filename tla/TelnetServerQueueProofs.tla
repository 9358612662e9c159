---------------------- MODULE TelnetServerQueueProofs ----------------------
(***************************************************************************)
(* Clients wait in the listen queue only while every connection is in use, *)
(* whatever calls the application makes, as long as the option requests    *)
(* can be sent to a connected client.                                      *)
(*                                                                         *)
(* Nobody looks at the queue: a SYN leaves it when some thread relistens.  *)
(* So the invariant says, of every state, why a relisten is still to come: *)
(* which event is pending, which call is under way or where the server     *)
(* thread is, and which socket that relisten will find free.               *)
(***************************************************************************)
EXTENDS TelnetServerLedgerProofs

\* The port is open, and no call is about to close it.
PortOpen == listening /\ appPc \notin StopPcs \cup DeletePcs

\* What a socket can be that has no client: free for a relisten, the one that
\* listens, or one whose SYN waits for the server thread to accept it.
Free(i) == socketState[i] = "CLOSED" /\ ~bound[i]
SynWaits(i) == socketState[i] = "LISTEN" /\ bound[i] /\ connectPort[i] # None
Vacant(i) == Free(i) \/ listenSocket = i \/ SynWaits(i)

\* A connection that was reset and that disconnect_process will find by its timer.
Dead(i) == socketState[i] \in {"CLOSED", "LISTEN"} /\ activityTimeout[i] > 0

\* A call, or the server thread, that will put socket i into one of these.
CallOn(i) ==
  appSlot = i /\ appPc \in {"discCall", "discWait", "discUnaccept", "discFinish"}
ThreadEnding ==
  \/ pc \in {"disCall", "disWait", "disUnaccept"}
  \/ pc = "disWhile" /\ resetRequest
ThreadOn(i) ==
  /\ slot = i
  /\ \/ pc \in {"conAccept", "conSuspend", "conWait", "conUnaccept", "conArm",
                "conLoad", "conStore", "conNew"}
     \/ ThreadEnding

\* Nothing waits behind a socket that listens; a connect event, or a disconnect call
\* of the application, ends with a relisten.
Heard == listenSocket # None \/ "CONNECT" \in events \/ appPc \in DiscPcs

ScanPcs == ConnectPcs \ {"conRelisten"}
EndingPcs == DisconnectPcs \ {"disRelisten"}

-----------------------------------------------------------------------------
(* The invariant.                                                          *)

\* A socket without a session is vacant, or somebody is busy with it.
Placed ==
  PortOpen => \A i \in Slots : i \in session \/ Vacant(i) \/ CallOn(i) \/ ThreadOn(i)

\* connect_process leaves no SYN behind that came before it looked.
Scanned ==
  PortOpen /\ pc \in ScanPcs =>
    \A i \in Slots : i < slot =>
      i \in session \/ Free(i) \/ listenSocket = i \/ "CONNECT" \in events \/ CallOn(i)

\* disconnect_process has unaccepted a socket, and timeout_processing has relistened.
EndedPcs == {"disClear", "disLoad", "disStore", "disEnd"}
TimedPcs == {"timLoad", "timStoreCount", "timEnd"}

\* A socket whose connection is ended without its being told yet is vacant.  From
\* timRelisten on the port has a socket before connection_end is called.
EndPlaced ==
  PortOpen =>
    /\ pc \in EndedPcs \cup {"timRelisten"} \cup TimedPcs => Vacant(slot) \/ CallOn(slot)
    /\ pc \in EndedPcs => Heard \/ \E i \in Slots : Free(i)
    /\ pc = "timRelisten" => Heard \/ Free(slot)
    /\ pc \in TimedPcs => Heard

\* A failed accept leaves no connection; a wait in disconnect was a request.
Given ==
  /\ pc = "conUnaccept" => socketState[slot] # "ESTABLISHED"
  /\ pc = "disWait" => resetRequest

\* The application's disconnect finds a socket to relisten on, or needs none.
CallRelistens ==
  /\ appPc = "discFinish" => Free(appSlot)
  /\ appPc = "discRelisten" =>
       \/ listenSocket # None \/ "CONNECT" \in events
       \/ \E i \in Slots : appSlot <= i /\ Free(i)

\* A client that was accepted and is gone before its option requests are sent has
\* left a disconnect event and a running timer, unless a call disconnected it.
OptionPcs == {"conLoad", "conStore", "conNew", "conOptions"}
Lost(i) == "DISCONNECT" \in events /\ socketState[i] \in {"CLOSE_WAIT", "LISTEN", "CLOSED"}
OptionsLost ==
  PortOpen =>
    /\ Accepted \/ pc = "conOptions" =>
         socketState[slot] = "ESTABLISHED" \/ Heard \/ Lost(slot)
    /\ pc \in OptionPcs => Heard \/ activityTimeout[slot] > 0

\* A stop that the server thread has not seen yet has closed the port, or will.
StopSeen == "STOP" \in events => ~PortOpen

\* A reset connection that the server thread has still to come to.
DeadAhead ==
  \E i \in Slots :
    /\ Dead(i)
    /\ \/ "DISCONNECT" \in events
       \/ "DISCONNECT" \in pending /\ pc \in DataPcs
       \/ pc = "disScan" /\ slot <= i
       \/ pc \in EndingPcs \ {"disScan"} /\ slot < i

\* While the port is open, a relisten is to come, or is not needed.
RelistenDue ==
  PortOpen =>
    \/ Heard
    \/ session = Slots
    \/ pc \in ScanPcs
    \/ pc \in {"conRelisten", "disRelisten"} /\ \E i \in Slots : slot <= i /\ Free(i)
    \/ pc \in EndingPcs /\ \E i \in Slots : Free(i)
    \/ ThreadEnding
    \/ pc \in {"timDisconnect", "timUnaccept"}
    \/ pc = "timRelisten" /\ Free(slot)
    \/ DeadAhead

QueueInv ==
  /\ Placed /\ Scanned /\ EndPlaced /\ Given /\ CallRelistens /\ OptionsLost /\ StopSeen
  /\ RelistenDue

\* What is known already.
Served == Known /\ Serving /\ Ending

-----------------------------------------------------------------------------
(* The network.                                                            *)

\* What a segment or a timer of NetX leaves of a socket without a client, and of
\* one whose client was accepted.  A socket that a SYN takes announces it.
LEMMA NetworkKeeps ==
  ASSUME NetTypeOK, ListenerSound, ClosedIsClient, AcceptWaits, Network, NEW i \in Slots
  PROVE  /\ UNCHANGED listening
         /\ events \subseteq events'
         /\ "STOP" \in events' => "STOP" \in events
         /\ listenSocket # None => listenSocket' = listenSocket \/ "CONNECT" \in events'
         /\ Free(i) => Free(i)'
         /\ Vacant(i) => Vacant(i)' \/ (pc = "conWait" /\ slot = i)
         /\ socketState[i] = "ESTABLISHED" =>
              \/ socketState'[i] = "ESTABLISHED"
              \/ /\ "DISCONNECT" \in events'
                 /\ socketState'[i] \in {"CLOSE_WAIT", "LISTEN", "CLOSED"}
         /\ socketState[i] = "CLOSE_WAIT" =>
              socketState'[i] \in {"CLOSE_WAIT", "LISTEN", "CLOSED"}
         /\ socketState[i] \in {"LISTEN", "CLOSED"} => socketState'[i] \in {"LISTEN", "CLOSED"}
         /\ connectWaiter = i /\ connectWaiter' = None /\ acceptOk' =>
              socketState'[i] = "ESTABLISHED"
<1> USE SlotNotNone DEF NetTypeOK, Free, SynWaits, Vacant, BlockCleanup, RestState, WakeAccept,
                        WakeDisconnect, Signal, listenVars
<1>0. connectWaiter = i =>
        pc = "conWait" /\ slot = i /\ socketState[i] \in {"CLOSED", "LISTEN", "SYN_RECEIVED"}
  BY DEF AcceptWaits
<1>2. CASE \E p \in Peers : SynArrives(p)
  <2>1. PICK p \in Peers : SynArrives(p)
    BY <1>2
  <2>2. CASE listenSocket = None
    BY <2>1, <2>2 DEF SynArrives, waitVars
  <2>3. CASE listenSocket # None
    <3>1. socketState[listenSocket] = "SYN_RECEIVED" => pc = "conWait" /\ slot = listenSocket
      BY <2>3 DEF AcceptWaits
    <3> QED
      BY <2>1, <2>3, <3>1, ConstantsOK DEF SynArrives, waitVars, ListenerSound
  <2> QED
    BY <2>2, <2>3
<1>3. CASE \E k \in DOMAIN listenQueue : QueuedSynReset(k)
  BY <1>3 DEF QueuedSynReset, socketVars, waitVars
<1>4. CASE \E j \in Slots : HandshakeAck(j)
  BY <1>4 DEF HandshakeAck
<1>5. CASE \E j \in Slots : DataArrives(j)
  BY <1>5 DEF DataArrives, waitVars
<1>6. CASE \E j \in Slots : LastAck(j)
  BY <1>6 DEF LastAck
<1>9. CASE \E j \in Slots : ConnectionReset(j)
  BY <1>9 DEF ConnectionReset
<1>7. CASE \E j \in Slots : \E to \in TcpStates : CloseSegment(j, to)
  BY <1>7 DEF CloseSegment, CloseMoves
<1>8. CASE NetTimer
  BY <1>0, <1>8
  DEF NetTimer, TimedWaitExpires, AcceptTimesOut, DisconnectTimesOut, ClosedIsClient, socketVars,
      waitVars
<1> QED
  BY <1>2, <1>3, <1>4, <1>5, <1>6, <1>7, <1>8, <1>9 DEF Network, PeerSegment

\* A step of the network, and one that only announces an event, keeps all of it.
LEMMA NetworkKeepsQueue ==
  ASSUME Served, QueueInv, NetworkStep \/ TimerExpires \/ UNCHANGED vars
  PROVE  QueueInv'
<1>0. pc \notin LoopPcs => slot \in Slots
  BY ConstantsOK DEF Served, Known, Base, Control, ServerTypeOK, InRange, Slots
<1>1. UNCHANGED <<pc, slot, pending, resetRequest, activityTimeout, session, appPc, appSlot>>
  BY DEF NetworkStep, TimerExpires, vars, dataVars, threadVars, appVars
<1>2. /\ UNCHANGED listening
      /\ events \subseteq events'
      /\ "STOP" \in events' => "STOP" \in events
      /\ listenSocket # None => listenSocket' = listenSocket \/ "CONNECT" \in events'
  BY NetworkKeeps, FirstSlot
  DEF Served, Known, Base, NetInv, Left, NetworkStep, TimerExpires, Signal, vars, netVars,
      listenVars
<1>3. ASSUME NEW i \in Slots
      PROVE  /\ Free(i) => Free(i)'
             /\ Vacant(i) => Vacant(i)' \/ (pc = "conWait" /\ slot = i)
             /\ socketState[i] = "ESTABLISHED" => socketState'[i] = "ESTABLISHED" \/ Lost(i)'
             /\ Lost(i) => Lost(i)'
             /\ Dead(i) => Dead(i)'
  <2>1. CASE NetworkStep
    BY <1>1, <2>1, NetworkKeeps
    DEF Served, Known, Base, NetInv, Left, NetworkStep, Lost, Dead
  <2>2. CASE TimerExpires \/ UNCHANGED vars
    BY <1>1, <1>2, <2>2
    DEF TimerExpires, vars, netVars, socketVars, listenVars, Free, SynWaits, Vacant, Lost, Dead
  <2> QED
    BY <2>1, <2>2
<1>4. Accepted' => Accepted \/ socketState'[slot] = "ESTABLISHED"
  <2> SUFFICES ASSUME Accepted', ~Accepted PROVE socketState'[slot] = "ESTABLISHED"
    OBVIOUS
  <2>1. NetworkStep /\ Network
    BY <1>1 DEF TimerExpires, vars, netVars, waitVars, Accepted, NetworkStep
  <2>2. pc = "conWait" /\ connectWaiter' = None /\ acceptOk' /\ connectWaiter # None
    BY <1>1, <2>1, NetworkAcceptsNobody DEF Accepted, Served, Known, Base, NetInv
  <2>3. connectWaiter \in Slots /\ slot = connectWaiter
    BY <2>2 DEF Served, Known, Base, NetInv, NetTypeOK, AcceptWaits
  <2> QED
    BY <2>1, <2>2, <2>3, NetworkKeeps DEF Served, Known, Base, NetInv, Left
<1>5. Heard => Heard'
  BY <1>1, <1>2, SlotNotNone DEF Heard, Served, Known, Base, NetInv, NetTypeOK
<1>6. PortOpen' = PortOpen
  BY <1>1, <1>2 DEF PortOpen
<1> USE <1>1, <1>2, <1>3, <1>5, <1>6 DEF QueueInv
<1>7. Placed'
  BY DEF Placed, CallOn, ThreadOn, ThreadEnding
<1>8. Scanned'
  BY SlotNotNone DEF Scanned, CallOn
<1>9. EndPlaced'
  BY <1>0 DEF EndPlaced, EndedPcs, TimedPcs, CallOn, LoopPcs
<1>10. Given'
  <2>1. pc = "conUnaccept" => socketState'[slot] # "ESTABLISHED"
    BY <1>0, EstablishedFrom DEF Given, Served, Known, LoopPcs, Next
  <2> QED
    BY <2>1 DEF Given
<1>11. CallRelistens'
  <2>1. appPc = "discFinish" => appSlot \in Slots
    BY ConstantsOK DEF Served, Known, Base, Control, ServerTypeOK, InRange, Slots
  <2> QED
    BY <2>1, SlotNotNone DEF CallRelistens, Served, Known, Base, NetInv, NetTypeOK
<1>12. OptionsLost'
  BY <1>0, <1>4 DEF OptionsLost, Accepted, OptionPcs, LoopPcs
<1>13. StopSeen'
  BY DEF StopSeen
<1>14. RelistenDue'
  <2>1. DeadAhead => DeadAhead'
    BY DEF DeadAhead
  <2>2. pc = "timRelisten" => slot \in Slots
    BY <1>0 DEF LoopPcs
  <2> QED
    BY <2>1, <2>2 DEF RelistenDue, ThreadEnding
<1> QED
  BY <1>7, <1>8, <1>9, <1>10, <1>11, <1>12, <1>13, <1>14

-----------------------------------------------------------------------------
(* The application.                                                        *)

\* The steps of disconnect.
Disconnects ==
  \/ (\E i \in Slots : AppDisconnect(i)) \/ AppDisconnectCall \/ AppDisconnectWait
  \/ AppDisconnectUnaccept \/ AppDisconnectFinish \/ AppDisconnectRelisten

\* The port is open after a step of the application only in disconnect, or when
\* start has just opened it.
LEMMA ApplicationOpen ==
  ASSUME Served, Application, PortOpen'
  PROVE  (PortOpen /\ Disconnects) \/ Start
<1> USE DEF Served, Known, Base, NetInv, PortOpen, StopPcs, DeletePcs
<1>1. CASE Create
  BY <1>1 DEF Create, CreateFails, CreateSucceeds, SocketsCreated, netVars, listenVars, appVars,
              Left, Gone, Ready, Objects
<1>2. CASE StopBegin \/ DeleteBegin
  BY <1>2 DEF StopBegin, DeleteBegin, AppCall
<1>3. CASE StopDisconnect \/ StopUnaccept \/ DeleteDisconnect \/ DeleteUnaccept \/ DeleteSocket
  BY <1>3 DEF StopDisconnect, StopUnaccept, DeleteDisconnect, DeleteUnaccept, DeleteSocket, AppGoto
<1>4. CASE StopUnlisten \/ DeleteUnlisten
  BY <1>4, UnlistenCloses DEF StopUnlisten, DeleteUnlisten, Left
<1>5. CASE Disconnects
  BY <1>5 DEF Disconnects, AppDisconnect, AppCall, AppDisconnectCall, AppDisconnectWait,
              AppDisconnectUnaccept, AppDisconnectFinish, AppDisconnectRelisten, Disconnect,
              DisconnectResumed, Unaccept, Relisten, netVars, listenVars
<1> QED
  BY <1>1, <1>2, <1>3, <1>4, <1>5 DEF Application, AppContinues, Disconnects

\* What a step of disconnect does to the sockets and to the announcements.
LEMMA DisconnectsKeeps ==
  ASSUME Served, CallRelistens, PortOpen, Disconnects, NEW i \in Slots
  PROVE  /\ UNCHANGED <<pc, slot, pending, resetRequest, listening>>
         /\ Heard'
         /\ "STOP" \in events' => "STOP" \in events
         /\ Vacant(i) \/ CallOn(i) => Vacant(i)' \/ CallOn(i)'
         /\ Free(i) \/ listenSocket = i \/ "CONNECT" \in events \/ CallOn(i) =>
              Free(i)' \/ listenSocket' = i \/ "CONNECT" \in events' \/ CallOn(i)'
         /\ i \in session => i \in session' \/ Free(i)'
<1>0. appPc \notin {"idle", "discRelisten", "stopUnlisten", "delUnlisten"} => appSlot \in Slots
  BY ConstantsOK DEF Served, Known, Base, Control, ServerTypeOK, InRange, Slots
<1> USE SlotNotNone DEF Served, Known, Base, NetInv, NetTypeOK, Free, SynWaits, Vacant, CallOn,
                        Heard, DiscPcs, AppGoto, threadVars, dataVars, netVars, socketVars,
                        listenVars
<1>1. CASE \E j \in Slots : AppDisconnect(j)
  BY <1>1 DEF AppDisconnect, AppCall
<1>2. CASE AppDisconnectCall
  BY <1>0, <1>2 DEF AppDisconnectCall, Disconnect, BlockCleanup
<1>3. CASE AppDisconnectWait
  BY <1>0, <1>3 DEF AppDisconnectWait, DisconnectResumed, BlockCleanup
<1>4. CASE AppDisconnectUnaccept
  BY <1>0, <1>4 DEF AppDisconnectUnaccept, Unaccept
<1>5. CASE AppDisconnectFinish
  BY <1>0, <1>5 DEF AppDisconnectFinish, CallRelistens
<1>6. CASE AppDisconnectRelisten
  <2>1. CASE appSlot < MaxClients /\ Relisten(appSlot) /\ AppGoto("idle", 0)
    <3>1. appSlot \in Slots
      BY <2>1, ConstantsOK DEF Control, ServerTypeOK, Slots
    <3>2. listenQueue # <<>> => Head(listenQueue) # None
      BY ConstantsOK
    <3> QED
      BY <1>6, <2>1, <3>1, <3>2 DEF AppDisconnectRelisten, Relisten, RelistenWorks, Signal
  <2>2. CASE ~(appSlot < MaxClients /\ Relisten(appSlot) /\ AppGoto("idle", 0))
    <3>1. UNCHANGED netVars
      BY <1>6, <2>2 DEF AppDisconnectRelisten
    <3>2. appPc' = "discRelisten" \/ (appSlot = MaxClients /\ appPc' = "idle")
      BY <1>6, <2>2 DEF AppDisconnectRelisten
    <3>3. ~(appSlot = MaxClients /\ \E j \in Slots : appSlot <= j)
      BY ConstantsOK DEF Slots
    <3>4. Heard'
      BY <1>6, <3>1, <3>2, <3>3 DEF AppDisconnectRelisten, CallRelistens
    <3> QED
      BY <1>6, <3>1, <3>4 DEF AppDisconnectRelisten
  <2> QED
    BY <2>1, <2>2
<1> QED
  BY <1>1, <1>2, <1>3, <1>4, <1>5, <1>6 DEF Disconnects

\* disconnect has freed the socket of the connection before it looks for one to
\* relisten on, and passes no free one while the port has none.
LEMMA DisconnectsRelistens ==
  ASSUME Served, CallRelistens, PortOpen, Disconnects
  PROVE  CallRelistens'
<1>0. appPc \notin {"idle", "discRelisten", "stopUnlisten", "delUnlisten"} => appSlot \in Slots
  BY ConstantsOK DEF Served, Known, Base, Control, ServerTypeOK, InRange, Slots
<1> USE DEF Served, Known, Base, NetInv, NetTypeOK, Free, AppGoto, CallRelistens
<1>1. CASE (\E j \in Slots : AppDisconnect(j)) \/ AppDisconnectCall \/ AppDisconnectWait
  BY <1>1 DEF AppDisconnect, AppCall, AppDisconnectCall, AppDisconnectWait
<1>2. CASE AppDisconnectUnaccept
  <2>1. socketState[appSlot] \notin {"ESTABLISHED", "SYN_RECEIVED"} /\ appSlot \in Slots
    BY <1>0, <1>2 DEF AppDisconnectUnaccept, Ending
  <2> QED
    BY <1>2, <2>1 DEF AppDisconnectUnaccept, Unaccept, UnacceptTearsDown, AfterEstablished,
                      TcpStates, socketVars
<1>3. CASE AppDisconnectFinish
  <2>1. /\ socketState'[appSlot] = "CLOSED" /\ ~bound'[appSlot]
        /\ appSlot \in Slots /\ appPc' = "discRelisten" /\ appSlot' = 0
    BY <1>0, <1>3 DEF AppDisconnectFinish, netVars, socketVars
  <2>2. \A i \in Slots : 0 <= i
    BY ConstantsOK DEF Slots
  <2> QED
    BY <1>3, <2>1, <2>2 DEF AppDisconnectFinish, netVars, socketVars
<1>4. CASE AppDisconnectRelisten
  <2> SUFFICES ASSUME appPc' = "discRelisten" PROVE CallRelistens'
    BY <1>4 DEF AppDisconnectRelisten
  <2>1. /\ appPc = "discRelisten" /\ ~RelistenWorks(appSlot) /\ appSlot' = appSlot + 1
        /\ UNCHANGED netVars
    BY <1>4 DEF AppDisconnectRelisten
  <2>2. CASE listenSocket # None \/ "CONNECT" \in events
    BY <2>1, <2>2 DEF netVars, listenVars
  <2>3. CASE listenSocket = None /\ "CONNECT" \notin events
    <3>1. PICK i \in Slots : appSlot <= i /\ Free(i)
      BY <2>1, <2>3
    <3>2. i # appSlot
      BY <2>1, <2>3, <3>1 DEF RelistenWorks, PortOpen
    <3>3. appSlot + 1 <= i
      BY <3>1, <3>2, ConstantsOK DEF Control, ServerTypeOK, Slots
    <3> QED
      BY <2>1, <3>1, <3>3 DEF netVars, socketVars
  <2> QED
    BY <2>2, <2>3
<1> QED
  BY <1>1, <1>2, <1>3, <1>4 DEF Disconnects

\* A step of disconnect keeps all of it: it ends with a relisten itself.
LEMMA DisconnectsQueue ==
  ASSUME Served, QueueInv, PortOpen, Disconnects
  PROVE  Placed' /\ Scanned' /\ EndPlaced' /\ OptionsLost' /\ StopSeen' /\ RelistenDue'
<1>0. pc \notin LoopPcs => slot \in Slots
  BY ConstantsOK DEF Served, Known, Base, Control, ServerTypeOK, InRange, Slots
<1>1. /\ UNCHANGED <<pc, slot, pending, resetRequest>>
      /\ Heard'
      /\ "STOP" \in events' => "STOP" \in events
  BY DisconnectsKeeps, FirstSlot DEF QueueInv
<1>2. ASSUME NEW i \in Slots
      PROVE  /\ Vacant(i) \/ CallOn(i) => Vacant(i)' \/ CallOn(i)'
             /\ Free(i) \/ listenSocket = i \/ "CONNECT" \in events \/ CallOn(i) =>
                  Free(i)' \/ listenSocket' = i \/ "CONNECT" \in events' \/ CallOn(i)'
             /\ i \in session => i \in session' \/ Free(i)'
  BY DisconnectsKeeps DEF QueueInv
<1> USE <1>1, <1>2 DEF QueueInv
<1>3. Placed'
  BY DEF Placed, ThreadOn, ThreadEnding, Vacant
<1>4. Scanned'
  BY DEF Scanned
<1>5. EndPlaced'
  BY <1>0 DEF EndPlaced, EndedPcs, TimedPcs, LoopPcs
<1>6. OptionsLost' /\ RelistenDue'
  BY DEF OptionsLost, RelistenDue
<1>7. StopSeen'
  BY DEF StopSeen
<1> QED
  BY <1>3, <1>4, <1>5, <1>6, <1>7

\* start opens the port on the first socket, when no other one has a client.
LEMMA StartQueue ==
  ASSUME Served, QueueInv, Start
  PROVE  Placed' /\ Scanned' /\ EndPlaced' /\ OptionsLost' /\ StopSeen' /\ RelistenDue'
<1>0. pc \notin LoopPcs => slot \in Slots
  BY ConstantsOK DEF Served, Known, Base, Control, ServerTypeOK, InRange, Slots
<1> USE SlotNotNone DEF Served, Known, Base, NetInv, NetTypeOK
<1>1. /\ listenSocket' = 0 /\ UNCHANGED <<slot, bound>>
      /\ pc' = pc \/ (pc = "suspended" /\ pc' = "get")
      /\ "STOP" \notin events'
    BY DEF Start, Listen
<1>2. ASSUME NEW i \in Slots
      PROVE  \/ listenSocket' = i \/ Free(i)'
             \/ pc = "conUnaccept" /\ slot = i
    BY FirstSlot DEF Start, Listen, ListenWorks, Left, Portless, DeletePcs, Free
<1>3. Heard'
  BY <1>1, FirstSlot DEF Heard
<1>4. Placed'
  BY <1>1, <1>2 DEF Placed, Vacant, ThreadOn
<1>5. Scanned'
  <2>1. \A i \in Slots : i < slot => slot # i
    BY ConstantsOK DEF Control, ServerTypeOK, Slots
  <2> QED
    BY <1>1, <1>2, <2>1 DEF Scanned, ScanPcs, ConnectPcs
<1>6. EndPlaced'
  BY <1>0, <1>1, <1>2, <1>3 DEF EndPlaced, EndedPcs, TimedPcs, Vacant, LoopPcs
<1>7. OptionsLost' /\ RelistenDue' /\ StopSeen'
  BY <1>1, <1>3 DEF OptionsLost, RelistenDue, StopSeen
<1> QED
  BY <1>4, <1>5, <1>6, <1>7

\* Every step of the application keeps it.
LEMMA ApplicationKeepsQueue ==
  ASSUME Served, Served', QueueInv, Application
  PROVE  QueueInv'
<1>0. pc \notin LoopPcs => slot \in Slots
  BY ConstantsOK DEF Served, Known, Base, Control, ServerTypeOK, InRange, Slots
<1>1. UNCHANGED <<pc, slot, resetRequest>> \/ pc' \in {"none", "suspended", "get"}
  BY DEF Application, AppContinues, Create, CreateFails, CreateSucceeds, Start, StopBegin,
         AppDisconnect, DeleteBegin, TerminateThread, StopDisconnect, StopUnaccept, StopUnlisten,
         AppDisconnectCall, AppDisconnectWait, AppDisconnectUnaccept, AppDisconnectFinish,
         AppDisconnectRelisten, DeleteDisconnect, DeleteUnaccept, DeleteSocket, DeleteUnlisten,
         threadVars
<1>2. Given'
  <2>1. pc = "conUnaccept" => socketState'[slot] # "ESTABLISHED"
    BY <1>0, EstablishedFrom DEF QueueInv, Given, Served, Known, LoopPcs, Next
  <2> QED
    BY <1>1, <2>1 DEF QueueInv, Given
<1>3. CASE ~PortOpen'
  <2>1. appPc' \notin DiscPcs
    BY <1>3 DEF Served, Known, Left, Portless, PortOpen, DiscPcs, StopPcs, DeletePcs
  <2>2. CallRelistens'
    BY <2>1 DEF CallRelistens, DiscPcs
  <2> QED
    BY <1>2, <1>3, <2>2
    DEF QueueInv, Placed, Scanned, EndPlaced, OptionsLost, StopSeen, RelistenDue
<1>4. CASE PortOpen /\ Disconnects
  BY <1>2, <1>4, DisconnectsQueue, DisconnectsRelistens DEF QueueInv
<1>5. CASE Start
  <2>1. CallRelistens'
    BY <1>5 DEF Start, appVars, CallRelistens
  <2> QED
    BY <1>2, <1>5, <2>1, StartQueue DEF QueueInv
<1> QED
  BY <1>3, <1>4, <1>5, ApplicationOpen

-----------------------------------------------------------------------------
(* The server thread.                                                      *)

\* A relisten leaves the port with a socket, or announces the SYN that it took.
LEMMA RelistenTakes ==
  ASSUME NetTypeOK, NEW i \in Slots, Relisten(i)
  PROVE  Vacant(i)' /\ Heard'
<1>1. listenQueue # <<>> => Head(listenQueue) # None
  BY ConstantsOK DEF NetTypeOK
<1> QED
  BY <1>1, SlotNotNone DEF NetTypeOK, Relisten, RelistenWorks, Signal, Vacant, SynWaits, Heard

\* An unaccept of the server thread frees the socket: nobody is connected to it.
LEMMA ThreadUnaccepts ==
  ASSUME Served, Given, ServerThread, pc \in {"conUnaccept", "disUnaccept", "timUnaccept"},
         NEW i \in Slots, i = slot
  PROVE  Free(i)'
<1>1. socketState[i] \notin {"ESTABLISHED", "SYN_RECEIVED"}
  <2>1. socketState[i] # "ESTABLISHED"
    BY DEF Given, Served, Ending
  <2>2. socketState[i] # "SYN_RECEIVED"
    BY SlotNotNone DEF Served, Known, AcceptWaits
  <2> QED
    BY <2>1, <2>2
<1>2. Unaccept(i)
  BY DEF ServerThread, GetEvents, SuspendSelf, ConnectProcess, ConnectScan, ConnectAccept,
         ConnectSuspend, ConnectWait, ConnectUnaccept, ConnectArm, LoadCount, ConnectStore,
         ConnectNew, ConnectOptions, RelistenLoop, DataProcess, DataScan, DataTouch, DataReceive,
         DisconnectProcess, DisconnectScan, DisconnectWhile, DisconnectCall, DisconnectWait,
         DisconnectUnaccept, DisconnectClear, StoreDecremented, ConnectionEnd, TimeoutProcess,
         TimeoutScan, TimeoutStore, TimeoutDisconnect, TimeoutUnaccept, TimeoutRelisten,
         ThreadRuns
<1> QED
  BY <1>1, <1>2 DEF Unaccept, UnacceptTearsDown, AfterEstablished, Free, Served, Known, Base,
                    NetInv, NetTypeOK, TcpStates, socketVars

\* The server thread forgets no event but where it fetches them.
LEMMA ThreadEvents ==
  ASSUME ServerThread
  PROVE  /\ pc = "get" \/ events \subseteq events'
         /\ "STOP" \in events' => "STOP" \in events
<1> USE DEF ThreadRuns, netVars
<1>1. CASE GetEvents \/ SuspendSelf
  BY <1>1 DEF GetEvents, SuspendSelf
<1>2. CASE ConnectProcess
  BY <1>2 DEF ConnectProcess, ConnectScan, ConnectAccept, ConnectSuspend, ConnectWait,
              ConnectUnaccept, ConnectArm, LoadCount, ConnectStore, ConnectNew, ConnectOptions,
              RelistenLoop, AcceptSuspends, AcceptGivenUp, Unaccept, Relisten, Signal, Local,
              OnData
<1>3. CASE DataProcess
  BY <1>3 DEF DataProcess, DataScan, DataTouch, DataReceive, Receive, Local, OnData
<1>4. CASE DisconnectProcess
  BY <1>4 DEF DisconnectProcess, DisconnectScan, DisconnectWhile, DisconnectCall,
              DisconnectWait, DisconnectUnaccept, DisconnectClear, LoadCount, StoreDecremented,
              ConnectionEnd, RelistenLoop, Disconnect, DisconnectResumed, Unaccept, Relisten,
              Signal, Local, OnData
<1>5. CASE TimeoutProcess
  BY <1>5 DEF TimeoutProcess, TimeoutScan, TimeoutStore, TimeoutDisconnect, TimeoutUnaccept,
              TimeoutRelisten, LoadCount, StoreDecremented, ConnectionEnd, Disconnect, Unaccept,
              Relisten, Signal, Local, OnData
<1> QED
  BY <1>1, <1>2, <1>3, <1>4, <1>5 DEF ServerThread

\* It neither opens nor closes the port, and no call moves with it.
LEMMA ThreadKeepsPort ==
  ASSUME Served, ServerThread
  PROVE  UNCHANGED <<listening, appPc, appSlot>> /\ PortOpen' = PortOpen
<1>1. UNCHANGED listening
  BY ThreadCalls
  DEF Served, Known, AcceptSuspends, AcceptGivenUp, Unaccept, Receive, Relisten, Disconnect,
      DisconnectResumed, listenVars
<1>2. UNCHANGED <<appPc, appSlot>>
  BY ThreadMoves DEF Served, Known
<1> QED
  BY <1>1, <1>2 DEF PortOpen

\* It leaves the sockets alone it is not at.
LEMMA ThreadElsewhere ==
  ASSUME Served, ServerThread, NEW i \in Slots, i # slot
  PROVE  /\ UNCHANGED <<socketState[i], bound[i], connectPort[i]>>
         /\ listenSocket = i => listenSocket' = i
         /\ i \in session => i \in session'
<1>1. i \in session => i \in session'
  BY ThreadAnnounces DEF Served, Known
<1>2. /\ UNCHANGED <<socketState[i], bound[i], connectPort[i]>>
      /\ listenSocket = i => listenSocket' = i
  <2> USE DEF Served, Known, Base, NetInv, NetTypeOK
  <2>1. CASE UNCHANGED <<socketVars, listenVars>>
    BY <2>1 DEF socketVars, listenVars
  <2>2. CASE slot \in Slots /\ (AcceptSuspends(slot) \/ AcceptGivenUp(slot) \/ Receive(slot))
    BY <2>2 DEF AcceptSuspends, AcceptGivenUp, Receive, listenVars
  <2>3. CASE slot \in Slots /\ Unaccept(slot)
    BY <2>3 DEF Unaccept, socketVars
  <2>4. CASE slot \in Slots /\ Relisten(slot)
    BY <2>4, SlotNotNone DEF Relisten, RelistenWorks
  <2>5. CASE slot \in Slots /\ \E wait \in BOOLEAN : Disconnect(slot, wait, "telnet")
    BY <2>5 DEF Disconnect, BlockCleanup, listenVars
  <2>6. CASE slot \in Slots /\ DisconnectResumed(slot)
    BY <2>6 DEF DisconnectResumed, BlockCleanup, listenVars
  <2> QED
    BY <2>1, <2>2, <2>3, <2>4, <2>5, <2>6, ThreadCalls
<1> QED
  BY <1>1, <1>2

\* The server thread stays with a client it accepts until it announces it, and with
\* one it disconnects until it has freed the socket.
LEMMA ThreadStays ==
  ASSUME Served, Given, ServerThread, NEW i \in Slots, ThreadOn(i)
  PROVE  ThreadOn(i)' \/ i \in session' \/ Free(i)'
<1>1. CASE pc \in {"conUnaccept", "disUnaccept"}
  BY <1>1, ThreadUnaccepts DEF ThreadOn
<1>2. CASE pc \in {"conAccept", "conSuspend", "conWait", "conArm", "conLoad", "conStore", "conNew"}
  <2> USE <1>2 DEF ThreadRuns, Goto
  <2>1. ConnectProcess
    BY DEF ServerThread, GetEvents, SuspendSelf, DataProcess, DataScan, DataTouch, DataReceive,
           DisconnectProcess, DisconnectScan, DisconnectWhile, DisconnectCall, DisconnectWait,
           DisconnectUnaccept, DisconnectClear, LoadCount, StoreDecremented, ConnectionEnd,
           RelistenLoop, TimeoutProcess, TimeoutScan, TimeoutStore, TimeoutDisconnect,
           TimeoutUnaccept, TimeoutRelisten
  <2> QED
    BY <2>1
    DEF ConnectProcess, ConnectScan, ConnectAccept, ConnectSuspend, ConnectWait, ConnectUnaccept,
        ConnectArm, LoadCount, ConnectStore, ConnectNew, ConnectOptions, RelistenLoop, ThreadOn
<1>3. CASE pc \in {"disCall", "disWait"} \/ (pc = "disWhile" /\ resetRequest)
  <2> USE <1>3 DEF ThreadRuns, Goto
  <2>1. DisconnectProcess
    BY DEF ServerThread, GetEvents, SuspendSelf, DataProcess, DataScan, DataTouch, DataReceive,
           ConnectProcess, ConnectScan, ConnectAccept, ConnectSuspend, ConnectWait,
           ConnectUnaccept, ConnectArm, ConnectStore, ConnectNew, ConnectOptions, LoadCount,
           StoreDecremented, ConnectionEnd, RelistenLoop, TimeoutProcess, TimeoutScan,
           TimeoutStore, TimeoutDisconnect, TimeoutUnaccept, TimeoutRelisten
  <2> QED
    BY <2>1
    DEF DisconnectProcess, DisconnectScan, DisconnectWhile, DisconnectCall, DisconnectWait,
        DisconnectUnaccept, DisconnectClear, LoadCount, StoreDecremented, ConnectionEnd,
        RelistenLoop, ThreadOn, ThreadEnding, Given
<1> QED
  BY <1>1, <1>2, <1>3 DEF ThreadOn, ThreadEnding

\* A socket without a client stays so while the server thread does not accept or
\* disconnect it.
LEMMA ThreadLeavesVacant ==
  ASSUME Served, Given, ServerThread, NEW i \in Slots, Vacant(i), ~ThreadOn(i)
  PROVE  Vacant(i)'
<1>0. socketState[i] \in {"CLOSED", "LISTEN"}
  <2>1. socketState[i] # "SYN_RECEIVED"
    BY SlotNotNone DEF Served, Known, AcceptWaits, ThreadOn
  <2> QED
    BY <2>1, SlotNotNone DEF Vacant, Free, SynWaits, Served, Known, Base, NetInv, ListenerSound
<1>1. CASE i # slot
  BY <1>1, ThreadElsewhere DEF Vacant, Free, SynWaits
<1>2. CASE i = slot
  <2> USE <1>2 DEF Served, Known, Base, NetInv, NetTypeOK, Vacant, Free, SynWaits
  <2>0. pc \notin {"conSuspend", "conWait", "conUnaccept", "disCall", "disWait", "disUnaccept"}
    BY DEF ThreadOn, ThreadEnding
  <2>1. CASE UNCHANGED <<socketVars, listenVars>>
    BY <2>1 DEF socketVars, listenVars
  <2>2. CASE pc = "timUnaccept"
    BY <2>2, ThreadUnaccepts
  <2>3. CASE slot \in Slots /\ Receive(slot)
    BY <2>3 DEF Receive, listenVars
  <2>4. CASE slot \in Slots /\ Relisten(slot)
    BY <2>4, RelistenTakes
  <2>5. CASE slot \in Slots /\ \E wait \in BOOLEAN : Disconnect(slot, wait, "telnet")
    BY <1>0, <2>5 DEF Disconnect, DisconnectSuspends, listenVars
  <2> QED
    BY <2>0, <2>1, <2>2, <2>3, <2>4, <2>5, ThreadCalls
<1> QED
  BY <1>1, <1>2

\* No socket without a session is left alone with a client.
LEMMA ThreadPlaced ==
  ASSUME Served, QueueInv, ServerThread, PortOpen
  PROVE  Placed'
<1> SUFFICES ASSUME NEW i \in Slots
             PROVE  i \in session' \/ Vacant(i)' \/ CallOn(i)' \/ ThreadOn(i)'
  BY DEF Placed
<1>1. UNCHANGED <<appPc, appSlot>>
  BY ThreadKeepsPort
<1>2. i \in session \/ Vacant(i) \/ CallOn(i) \/ ThreadOn(i)
  BY DEF QueueInv, Placed
<1>3. CASE i \in session /\ i \notin session'
  <2>1. pc \in {"disEnd", "timEnd"} /\ i = slot
    BY <1>3, ThreadAnnounces DEF Served, Known
  <2>2. Vacant(i) \/ CallOn(i)
    BY <2>1 DEF QueueInv, EndPlaced, EndedPcs, TimedPcs
  <2>3. ~ThreadOn(i)
    BY <2>1 DEF ThreadOn, ThreadEnding
  <2> QED
    BY <1>1, <2>2, <2>3, ThreadLeavesVacant DEF QueueInv, CallOn
<1>4. CASE ThreadOn(i)
  BY <1>4, ThreadStays DEF QueueInv, Vacant
<1>5. CASE ~ThreadOn(i) /\ (Vacant(i) \/ CallOn(i))
  BY <1>1, <1>5, ThreadLeavesVacant DEF QueueInv, CallOn
<1> QED
  BY <1>2, <1>3, <1>4, <1>5

\* What the server thread does to the socket that it passes in connect_process: it
\* has no SYN for it, or has just told the application of it or unaccepted it.
LEMMA ScanPasses ==
  ASSUME Served, QueueInv, PortOpen, ServerThread, pc \in ScanPcs, slot' # slot, pc' \in ScanPcs,
         slot' # 0, NEW i \in Slots, i = slot
  PROVE  /\ slot' = slot + 1
         /\ Free(i)' \/ (UNCHANGED <<netVars, session>>
                         /\ (i \in session \/ Free(i) \/ listenSocket = i \/ CallOn(i)))
<1>1. ConnectProcess
  BY DEF ServerThread, GetEvents, SuspendSelf, DataProcess, DataScan, DataTouch, DataReceive,
         DisconnectProcess, DisconnectScan, DisconnectWhile, DisconnectCall, DisconnectWait,
         DisconnectUnaccept, DisconnectClear, LoadCount, StoreDecremented, ConnectionEnd,
         RelistenLoop, TimeoutProcess, TimeoutScan, TimeoutStore, TimeoutDisconnect,
         TimeoutUnaccept, TimeoutRelisten, ThreadRuns, ScanPcs, ConnectPcs
<1>2. \/ pc = "conUnaccept" /\ slot' = slot + 1
      \/ /\ \/ pc = "conScan" /\ ~BeingConnected(i)
            \/ pc = "conOptions" /\ socketState[i] \in {"ESTABLISHED", "CLOSE_WAIT"}
         /\ slot' = slot + 1 /\ UNCHANGED <<netVars, session>>
  BY <1>1
  DEF ConnectProcess, ConnectScan, ConnectAccept, ConnectSuspend, ConnectWait, ConnectUnaccept,
      ConnectArm, LoadCount, ConnectStore, ConnectNew, ConnectOptions, RelistenLoop, ThreadRuns,
      Goto, NextSlot, Done, Process, Local, dataVars, ScanPcs, ConnectPcs
<1>3. CASE pc = "conUnaccept"
  BY <1>2, <1>3, ThreadUnaccepts DEF QueueInv
<1>4. CASE pc # "conUnaccept"
  <2>1. i \in session \/ Vacant(i) \/ CallOn(i)
    BY <1>2, <1>4 DEF QueueInv, Placed, ThreadOn, ThreadEnding
  <2>2. ~SynWaits(i)
    BY <1>2, <1>4 DEF SynWaits, BeingConnected
  <2> QED
    BY <1>2, <1>4, <2>1, <2>2 DEF Vacant
<1> QED
  BY <1>3, <1>4

\* connect_process leaves no SYN behind.
LEMMA ThreadScanned ==
  ASSUME Served, QueueInv, ServerThread, PortOpen
  PROVE  Scanned'
<1> SUFFICES ASSUME pc' \in ScanPcs, NEW i \in Slots, i < slot'
             PROVE  \/ i \in session' \/ Free(i)' \/ listenSocket' = i
                    \/ "CONNECT" \in events' \/ CallOn(i)'
  BY DEF Scanned
<1>0. slot \in 0 .. MaxClients /\ slot' # 0
  BY ConstantsOK DEF Served, Known, Base, Control, ServerTypeOK, Slots
<1>1. UNCHANGED <<appPc, appSlot>>
  BY ThreadMoves DEF Served, Known
<1>2. pc \in ScanPcs
  BY <1>0
  DEF ServerThread, GetEvents, SuspendSelf, ConnectProcess, ConnectScan, ConnectAccept,
      ConnectSuspend, ConnectWait, ConnectUnaccept, ConnectArm, LoadCount, ConnectStore,
      ConnectNew, ConnectOptions, RelistenLoop, DataProcess, DataScan, DataTouch, DataReceive,
      DisconnectProcess, DisconnectScan, DisconnectWhile, DisconnectCall, DisconnectWait,
      DisconnectUnaccept, DisconnectClear, StoreDecremented, ConnectionEnd, TimeoutProcess,
      TimeoutScan, TimeoutStore, TimeoutDisconnect, TimeoutUnaccept, TimeoutRelisten, ThreadRuns,
      Goto, NextSlot, Done, Process, ScanPcs, ConnectPcs
<1>3. CASE i = slot
  <2>1. slot' # slot
    BY <1>0, <1>3
  <2> QED
    BY <1>0, <1>1, <1>2, <1>3, <2>1, ScanPasses
    DEF CallOn, Free, netVars, socketVars, listenVars
<1>4. CASE i # slot
  <2>1. i < slot
    <3>1. CASE slot' = slot
      BY <3>1
    <3>2. CASE slot' # slot
      <4>1. slot \in Slots => slot' = slot + 1
        BY <1>0, <1>2, <3>2, ScanPasses
      <4> QED
        BY <1>0, <1>4, <4>1, ConstantsOK DEF Slots
    <3> QED
      BY <3>1, <3>2
  <2>2. i \in session \/ Free(i) \/ listenSocket = i \/ "CONNECT" \in events \/ CallOn(i)
    BY <1>2, <2>1 DEF QueueInv, Scanned
  <2>3. events \subseteq events'
    BY <1>2, ThreadEvents DEF ScanPcs, ConnectPcs
  <2> QED
    BY <1>1, <1>4, <2>2, <2>3, ThreadElsewhere DEF CallOn, Free
<1> QED
  BY <1>3, <1>4

\* Who has unaccepted a socket calls connection_end for it next; timeout_processing
\* tries a relisten in between.
LEMMA ThreadEndPlaced ==
  ASSUME Served, QueueInv, ServerThread, PortOpen
  PROVE  EndPlaced'
<1> SUFFICES ASSUME pc' \in EndedPcs \cup {"timRelisten"} \cup TimedPcs
             PROVE  EndPlaced'
  BY DEF EndPlaced
<1> USE DEF EndedPcs, TimedPcs
<1>1. /\ slot' = slot
      /\ \/ pc = "disUnaccept" /\ pc' = "disClear"
         \/ pc = "timUnaccept" /\ pc' = "timRelisten"
         \/ /\ pc = "timRelisten" /\ pc' = "timLoad"
            /\ Relisten(slot) \/ (~RelistenWorks(slot) /\ UNCHANGED netVars)
         \/ pc \in EndedPcs /\ pc' \in EndedPcs /\ UNCHANGED netVars
         \/ pc \in TimedPcs /\ pc' \in TimedPcs /\ UNCHANGED netVars
  BY DEF ServerThread, GetEvents, SuspendSelf, ConnectProcess, ConnectScan, ConnectAccept,
         ConnectSuspend, ConnectWait, ConnectUnaccept, ConnectArm, LoadCount, ConnectStore,
         ConnectNew, ConnectOptions, RelistenLoop, DataProcess, DataScan, DataTouch, DataReceive,
         DisconnectProcess, DisconnectScan, DisconnectWhile, DisconnectCall, DisconnectWait,
         DisconnectUnaccept, DisconnectClear, StoreDecremented, ConnectionEnd, TimeoutProcess,
         TimeoutScan, TimeoutStore, TimeoutDisconnect, TimeoutUnaccept, TimeoutRelisten,
         ThreadRuns, Goto, NextSlot, Done, Process, Local, OnData
<1>2. slot \in Slots /\ UNCHANGED <<appPc, appSlot>>
  BY <1>1, ThreadMoves DEF Served, Known, LoopPcs
<1>3. CASE pc \in {"disUnaccept", "timUnaccept"}
  <2>1. Free(slot)'
    BY <1>1, <1>2, <1>3, ThreadUnaccepts DEF QueueInv, Free
  <2> QED
    BY <1>1, <1>2, <1>3, <2>1 DEF EndPlaced, Vacant
<1>4. CASE pc = "timRelisten" /\ Relisten(slot)
  BY <1>1, <1>2, <1>4, RelistenTakes
  DEF EndPlaced, Vacant, Free, SynWaits, Served, Known, Base, NetInv
<1>5. CASE pc = "timRelisten" /\ ~RelistenWorks(slot) /\ UNCHANGED netVars
  <2>1. Heard
    BY <1>5, SlotNotNone
    DEF QueueInv, EndPlaced, Free, RelistenWorks, PortOpen, Heard
  <2> QED
    BY <1>1, <1>2, <1>5, <2>1
    DEF QueueInv, EndPlaced, Heard, Vacant, Free, SynWaits, CallOn, netVars, socketVars,
        listenVars
<1>6. CASE pc \in EndedPcs \cup TimedPcs /\ UNCHANGED netVars
  BY <1>1, <1>2, <1>6
  DEF QueueInv, EndPlaced, Heard, Vacant, Free, SynWaits, CallOn, netVars, socketVars,
      listenVars
<1> QED
  BY <1>1, <1>3, <1>4, <1>5, <1>6

\* An accept that fails has found no client, or has put the socket back to LISTEN.
LEMMA ThreadGiven ==
  ASSUME Served, ServerThread
  PROVE  Given'
<1>1. pc' = "conUnaccept" =>
        /\ slot' = slot
        /\ \/ pc = "conAccept" /\ AcceptFails(slot) /\ UNCHANGED netVars
           \/ pc = "conWait" /\ AcceptGivenUp(slot)
  BY DEF ServerThread, GetEvents, SuspendSelf, ConnectProcess, ConnectScan, ConnectAccept,
         ConnectSuspend, ConnectWait, ConnectUnaccept, ConnectArm, LoadCount, ConnectStore,
         ConnectNew, ConnectOptions, RelistenLoop, DataProcess, DataScan, DataTouch, DataReceive,
         DisconnectProcess, DisconnectScan, DisconnectWhile, DisconnectCall, DisconnectWait,
         DisconnectUnaccept, DisconnectClear, StoreDecremented, ConnectionEnd, TimeoutProcess,
         TimeoutScan, TimeoutStore, TimeoutDisconnect, TimeoutUnaccept, TimeoutRelisten,
         ThreadRuns, Goto, NextSlot, Done, Process
<1>2. pc' = "disWait" => resetRequest'
  BY DEF ServerThread, GetEvents, SuspendSelf, ConnectProcess, ConnectScan, ConnectAccept,
         ConnectSuspend, ConnectWait, ConnectUnaccept, ConnectArm, LoadCount, ConnectStore,
         ConnectNew, ConnectOptions, RelistenLoop, DataProcess, DataScan, DataTouch, DataReceive,
         DisconnectProcess, DisconnectScan, DisconnectWhile, DisconnectCall, DisconnectWait,
         DisconnectUnaccept, DisconnectClear, StoreDecremented, ConnectionEnd, TimeoutProcess,
         TimeoutScan, TimeoutStore, TimeoutDisconnect, TimeoutUnaccept, TimeoutRelisten,
         ThreadRuns, Goto, NextSlot, Done, Process
<1>3. pc' = "conUnaccept" => slot \in Slots
  BY <1>1, ThreadMoves DEF Served, Known, LoopPcs
<1> QED
  BY <1>1, <1>2, <1>3
  DEF Given, AcceptFails, AcceptGivenUp, netVars, socketVars, Served, Known, Base, NetInv,
      NetTypeOK

\* accept returns a client that is connected; its timer runs before it is announced.
LEMMA ThreadOptionsLost ==
  ASSUME Served, QueueInv, ServerThread, PortOpen
  PROVE  OptionsLost'
<1>a. Accepted' \/ pc' = "conOptions" => ConnectProcess
  BY DEF ServerThread, GetEvents, SuspendSelf, DataProcess, DataScan, DataTouch, DataReceive,
         DisconnectProcess, DisconnectScan, DisconnectWhile, DisconnectCall, DisconnectWait,
         DisconnectUnaccept, DisconnectClear, LoadCount, StoreDecremented, ConnectionEnd,
         RelistenLoop, TimeoutProcess, TimeoutScan, TimeoutStore, TimeoutDisconnect,
         TimeoutUnaccept, TimeoutRelisten, Goto, NextSlot, Done, Process, Accepted
<1>b. ~(ConnectSuspend /\ Accepted')
  <2> SUFFICES ASSUME ConnectSuspend PROVE ~Accepted'
    OBVIOUS
  <2>1. slot \in Slots
    BY ThreadMoves DEF ConnectSuspend, ThreadRuns, Served, Known, LoopPcs
  <2>2. pc' = "conWait" /\ connectWaiter' = slot
    BY DEF ConnectSuspend, Goto, AcceptSuspends
  <2> QED
    BY <2>1, <2>2, SlotNotNone DEF Accepted
<1>1. Accepted' \/ pc' = "conOptions" =>
        /\ slot' = slot /\ UNCHANGED netVars
        /\ \/ pc = "conAccept" /\ pc' = "conArm" /\ AcceptReturns(slot)
           \/ pc = "conWait" /\ pc' = "conArm" /\ Accepted
           \/ /\ pc = "conArm" /\ pc' = "conLoad"
              /\ activityTimeout' = [activityTimeout EXCEPT ![slot] = ActivityPeriods]
           \/ pc \in OptionPcs /\ pc' \in OptionPcs /\ UNCHANGED activityTimeout
  <2> SUFFICES ASSUME Accepted' \/ pc' = "conOptions"
               PROVE  /\ slot' = slot /\ UNCHANGED netVars
                      /\ \/ pc = "conAccept" /\ pc' = "conArm" /\ AcceptReturns(slot)
                         \/ pc = "conWait" /\ pc' = "conArm" /\ Accepted
                         \/ /\ pc = "conArm" /\ pc' = "conLoad"
                            /\ activityTimeout' = [activityTimeout EXCEPT ![slot] = ActivityPeriods]
                         \/ pc \in OptionPcs /\ pc' \in OptionPcs /\ UNCHANGED activityTimeout
    OBVIOUS
  <2> USE DEF ThreadRuns, Goto, NextSlot, Done, Process, Accepted, OptionPcs
  <2>1. CASE ConnectSuspend
    BY <1>b, <2>1 DEF ConnectSuspend
  <2>2. CASE ConnectAccept \/ ConnectWait \/ ConnectArm
    BY <2>2 DEF ConnectAccept, ConnectWait, ConnectArm, OnData
  <2>3. CASE LoadCount("conLoad", "conStore") \/ ConnectStore \/ ConnectNew
    BY <2>3 DEF LoadCount, ConnectStore, ConnectNew, Local, OnData, dataVars
  <2>4. CASE ConnectScan \/ ConnectUnaccept \/ ConnectOptions
             \/ RelistenLoop("conRelisten", "CONNECT")
    BY <2>4 DEF ConnectScan, ConnectUnaccept, ConnectOptions, RelistenLoop
  <2> QED
    BY <1>a, <2>1, <2>2, <2>3, <2>4 DEF ConnectProcess
<1>2. Accepted' \/ pc' = "conOptions" => slot \in Slots
  BY <1>1, ThreadMoves DEF Served, Known, LoopPcs, OptionPcs
<1>3. Accepted' \/ pc' = "conOptions" =>
        \/ socketState[slot] = "ESTABLISHED" \/ Heard \/ Lost(slot)
  BY <1>1 DEF QueueInv, OptionsLost, Accepted, OptionPcs, AcceptReturns
<1>4. pc' \in OptionPcs => Heard \/ activityTimeout'[slot] > 0
  BY <1>1, <1>2, ServerConstantsOK
  DEF QueueInv, OptionsLost, Accepted, OptionPcs, Served, Known, Base, Control, ServerTypeOK
<1>5. UNCHANGED <<appPc, appSlot>>
  BY ThreadMoves DEF Served, Known
<1> QED
  BY <1>1, <1>3, <1>4, <1>5
  DEF OptionsLost, Lost, Heard, Accepted, OptionPcs, netVars, socketVars, listenVars

-----------------------------------------------------------------------------
(* The relisten that is due, while no call of the application is in progress. *)

\* Fetching the events: a connect event is processed first of all, and a reset
\* connection is found by the disconnect event it has left.
LEMMA GetEventsDue ==
  ASSUME Served, QueueInv, PortOpen, appPc = "idle", GetEvents
  PROVE  RelistenDue'
<1>1. /\ pc = "get" /\ Process(events)
      /\ UNCHANGED <<socketVars, listenVars, activityTimeout, session, appPc>>
  BY DEF GetEvents, ThreadRuns, QueueInv, StopSeen, dataVars, appVars
<1>2. listenSocket # None \/ "CONNECT" \in events \/ session = Slots \/ DeadAhead
  BY <1>1 DEF QueueInv, RelistenDue, Heard, DiscPcs, ScanPcs, EndingPcs, ConnectPcs,
              DisconnectPcs, ThreadEnding
<1>3. CASE listenSocket # None \/ "CONNECT" \in events \/ session = Slots
  BY <1>1, <1>3 DEF Process, RelistenDue, Heard, ScanPcs, ConnectPcs, listenVars
<1>4. CASE DeadAhead /\ "CONNECT" \notin events
  <2>1. PICK i \in Slots : Dead(i) /\ "DISCONNECT" \in events
    BY <1>1, <1>4 DEF DeadAhead, DataPcs, EndingPcs, DisconnectPcs
  <2>2. \/ pc' \in DataPcs /\ "DISCONNECT" \in pending'
        \/ pc' = "disScan" /\ slot' = 0
    BY <1>1, <1>4, <2>1 DEF Process, DataPcs
  <2>3. 0 <= i
    BY ConstantsOK DEF Slots
  <2> QED
    BY <1>1, <2>1, <2>2, <2>3 DEF RelistenDue, DeadAhead, Dead, socketVars
<1> QED
  BY <1>2, <1>3, <1>4

\* The loop over the sockets relistens, or passes one that is in use; it passes the
\* last one when nobody is left to listen for.
LEMMA RelistenLoopDue ==
  ASSUME Served, QueueInv, PortOpen, appPc = "idle", NEW at \in {"conRelisten", "disRelisten"},
         NEW e \in Work, RelistenLoop(at, e)
  PROVE  RelistenDue'
<1>0. slot \in 0 .. MaxClients /\ MaxClients \in Nat
  BY ConstantsOK DEF Served, Known, Base, Control, ServerTypeOK
<1>1. pc = at /\ UNCHANGED <<activityTimeout, session, appPc>>
  BY DEF RelistenLoop, ThreadRuns, OnSockets, dataVars, appVars
<1>2. CASE slot < MaxClients /\ Relisten(slot)
  <2>1. slot \in Slots
    BY <1>0, <1>2 DEF Slots
  <2>2. Heard'
    BY <1>2, <2>1, RelistenTakes DEF Served, Known, Base, NetInv
  <2> QED
    BY <2>2 DEF RelistenDue
<1>3. CASE UNCHANGED netVars
  <2>1. CASE Heard \/ session = Slots
    BY <1>1, <1>3, <2>1 DEF RelistenDue, Heard, netVars, listenVars
  <2>2. CASE \E i \in Slots : slot <= i /\ Free(i) /\ ~Heard
    <3>1. PICK i \in Slots : slot <= i /\ Free(i) /\ ~Heard
      BY <2>2
    <3>2. i \in Nat /\ i < MaxClients
      BY <1>0 DEF Slots
    <3>3. slot < MaxClients
      BY <1>0, <3>1, <3>2
    <3>4. i # slot => slot + 1 <= i
      BY <1>0, <3>1, <3>2
    <3>5. \/ Relisten(slot)
          \/ ~RelistenWorks(slot) /\ pc' = at /\ slot' = slot + 1
      BY <1>0, <3>3 DEF RelistenLoop, NextSlot
    <3>6. CASE Relisten(slot)
      BY <1>2, <3>3, <3>6
    <3>7. CASE ~RelistenWorks(slot) /\ pc' = at /\ slot' = slot + 1
      <4>1. i # slot
        BY <3>1, <3>7 DEF RelistenWorks, Free, Heard, PortOpen
      <4> QED
        BY <1>3, <3>1, <3>4, <3>7, <4>1 DEF RelistenDue, Free, netVars, socketVars
    <3> QED
      BY <3>5, <3>6, <3>7
  <2>3. CASE DeadAhead
    BY <1>1, <1>3, <2>3
    DEF RelistenDue, DeadAhead, Dead, DataPcs, EndingPcs, DisconnectPcs, netVars, socketVars
  <2> QED
    BY <1>1, <2>1, <2>2, <2>3
    DEF QueueInv, RelistenDue, ScanPcs, ConnectPcs, EndingPcs, DisconnectPcs, ThreadEnding
<1> QED
  BY <1>2, <1>3 DEF RelistenLoop

\* connect_process relistens unless every connection is in use; when the client it
\* accepted is gone before the options are sent, disconnect_process does.
LEMMA ConnectDue ==
  ASSUME Served, QueueInv, PortOpen, appPc = "idle", OptionsMayFail = FALSE, ConnectProcess
  PROVE  RelistenDue'
<1>0. slot \in 0 .. MaxClients /\ MaxClients \in Nat
  BY ConstantsOK DEF Served, Known, Base, Control, ServerTypeOK
<1>1. CASE pc' \in ScanPcs
  BY <1>1 DEF RelistenDue
<1>2. CASE ConnectScan /\ pc' \notin ScanPcs
  <2>1. /\ pc = "conScan" /\ slot = MaxClients /\ pc' = "conRelisten" /\ slot' = 0
        /\ UNCHANGED <<netVars, session, appPc>>
    BY <1>2 DEF ConnectScan, ThreadRuns, Goto, NextSlot, Local, ScanPcs, ConnectPcs, dataVars,
                appVars
  <2>2. \A i \in Slots : i < slot /\ 0 <= i
    BY <1>0, <2>1 DEF Slots
  <2>3. \A i \in Slots : i \in session \/ Free(i) \/ Heard
    BY <2>1, <2>2, SlotNotNone DEF QueueInv, Scanned, ScanPcs, ConnectPcs, CallOn, Heard
  <2>4. CASE Heard \/ session = Slots
    BY <2>1, <2>4 DEF RelistenDue, Heard, netVars, listenVars
  <2>5. CASE \E i \in Slots : Free(i)
    BY <2>1, <2>2, <2>5 DEF RelistenDue, Free, netVars, socketVars
  <2>6. session \subseteq Slots
    BY DEF Served, Known, Base, Control, ServerTypeOK
  <2> QED
    BY <2>3, <2>4, <2>5, <2>6
<1>3. CASE ConnectOptions /\ pc' \notin ScanPcs
  <2>1. /\ pc = "conOptions" /\ socketState[slot] \notin {"ESTABLISHED", "CLOSE_WAIT"}
        /\ UNCHANGED <<netVars, activityTimeout, appPc>>
    BY <1>3 DEF ConnectOptions, ThreadRuns, NextSlot, Local, ScanPcs, ConnectPcs, dataVars,
                appVars
  <2>2. Heard \/ (Dead(slot) /\ "DISCONNECT" \in events)
    BY <2>1 DEF QueueInv, OptionsLost, OptionPcs, Lost, Dead
  <2>3. slot \in Slots
    BY <1>3, ThreadMoves DEF Served, Known, LoopPcs, ServerThread, ConnectProcess, ConnectOptions,
                             ThreadRuns
  <2> QED
    BY <2>1, <2>2, <2>3
    DEF RelistenDue, DeadAhead, Dead, Heard, netVars, socketVars, listenVars
<1>4. CASE RelistenLoop("conRelisten", "CONNECT")
  BY <1>4, RelistenLoopDue DEF Work
<1>5. CASE \/ ConnectAccept \/ ConnectSuspend \/ ConnectWait \/ ConnectUnaccept \/ ConnectArm
           \/ LoadCount("conLoad", "conStore") \/ ConnectStore \/ ConnectNew
  BY <1>1, <1>5
  DEF ConnectAccept, ConnectSuspend, ConnectWait, ConnectUnaccept, ConnectArm, LoadCount,
      ConnectStore, ConnectNew, Goto, NextSlot, ScanPcs, ConnectPcs
<1> QED
  BY <1>1, <1>2, <1>3, <1>4, <1>5 DEF ConnectProcess

\* Between two processes of the event loop: who fetched a disconnect event with the
\* data event processes it next.
LEMMA DataDue ==
  ASSUME Served, QueueInv, PortOpen, appPc = "idle", DataProcess
  PROVE  RelistenDue'
<1>0. slot \in Slots \/ UNCHANGED activityTimeout
  BY ThreadMoves DEF Served, Known, LoopPcs, ServerThread, DataProcess, DataScan, DataTouch,
                     DataReceive, ThreadRuns, Local, OnSockets, dataVars
<1>1. /\ pc \in DataPcs
      /\ UNCHANGED <<socketState, bound, listenSocket, events, session, appPc>>
  BY DEF DataProcess, DataScan, DataTouch, DataReceive, ThreadRuns, Receive, Local, OnSockets,
         OnData, DataPcs, netVars, socketVars, listenVars, dataVars, appVars
<1>2. ASSUME NEW i \in Slots, Dead(i) PROVE Dead(i)'
  <2>1. activityTimeout'[i] \in {activityTimeout[i], ActivityPeriods}
    BY <1>0 DEF DataProcess, DataScan, DataTouch, DataReceive, Local, OnSockets, dataVars, Served,
                Known, Base, Control, ServerTypeOK
  <2> QED
    BY <1>1, <1>2, <2>1, ServerConstantsOK DEF Dead
<1>3. \/ pc' \in DataPcs /\ UNCHANGED pending
      \/ Done("DATA")
  BY DEF DataProcess, DataScan, DataTouch, DataReceive, Goto, NextSlot, DataPcs
<1>4. Heard \/ session = Slots \/ DeadAhead
  BY <1>1 DEF QueueInv, RelistenDue, ScanPcs, ConnectPcs, EndingPcs, DisconnectPcs, DataPcs,
              ThreadEnding
<1>5. CASE Heard \/ session = Slots
  BY <1>1, <1>5 DEF RelistenDue, Heard
<1>6. CASE DeadAhead
  <2>1. PICK i \in Slots : Dead(i) /\ ("DISCONNECT" \in events \/ "DISCONNECT" \in pending)
    BY <1>1, <1>6 DEF DeadAhead, DataPcs, EndingPcs, DisconnectPcs
  <2>2. CASE "DISCONNECT" \in events
    BY <1>1, <1>2, <2>1, <2>2 DEF RelistenDue, DeadAhead
  <2>3. CASE "DISCONNECT" \in pending /\ pc' \in DataPcs /\ UNCHANGED pending
    BY <1>2, <2>1, <2>3 DEF RelistenDue, DeadAhead
  <2>4. CASE "DISCONNECT" \in pending /\ Done("DATA")
    <3>1. pc' \in ScanPcs \/ (pc' = "disScan" /\ slot' = 0)
      BY <2>4 DEF Done, Process, ScanPcs, ConnectPcs
    <3>2. 0 <= i
      BY ConstantsOK DEF Slots
    <3> QED
      BY <1>2, <2>1, <3>1, <3>2 DEF RelistenDue, DeadAhead
  <2> QED
    BY <1>3, <2>1, <2>2, <2>3, <2>4
<1> QED
  BY <1>4, <1>5, <1>6

\* disconnect_process comes to every reset connection, and relistens when it has
\* freed a socket.
LEMMA DisconnectDue ==
  ASSUME Served, QueueInv, PortOpen, appPc = "idle", DisconnectProcess
  PROVE  RelistenDue'
<1>0. slot \in 0 .. MaxClients /\ MaxClients \in Nat
  BY ConstantsOK DEF Served, Known, Base, Control, ServerTypeOK
<1>a. \A i \in Slots : i \in Nat /\ 0 <= i /\ i < MaxClients
  BY <1>0 DEF Slots
<1> USE DEF EndingPcs, DisconnectPcs, EndedPcs
<1>1. CASE DisconnectScan
  <2>1. /\ pc = "disScan" /\ UNCHANGED <<netVars, activityTimeout, session, appPc>>
        /\ \/ slot = MaxClients /\ pc' = "disRelisten" /\ slot' = 0
           \/ pc' = "disUnaccept"
           \/ activityTimeout[slot] = 0 /\ pc' = "disScan" /\ slot' = slot + 1
           \/ socketState[slot] \notin {"CLOSED", "LISTEN"} /\ pc' = "disWhile" /\ slot' = slot
    BY <1>1 DEF DisconnectScan, ThreadRuns, Goto, NextSlot, Local, dataVars, appVars
  <2>2. Heard \/ session = Slots \/ (\E i \in Slots : Free(i)) \/ DeadAhead
    BY <2>1 DEF QueueInv, RelistenDue, ScanPcs, ConnectPcs, ThreadEnding
  <2>3. CASE Heard \/ session = Slots
    BY <2>1, <2>3 DEF RelistenDue, Heard, netVars, listenVars
  <2>4. CASE \E i \in Slots : Free(i)
    BY <1>a, <2>1, <2>4 DEF RelistenDue, Free, ThreadEnding, netVars, socketVars
  <2>5. CASE DeadAhead
    <3>1. PICK i \in Slots : Dead(i) /\ ("DISCONNECT" \in events \/ slot <= i)
      BY <2>1, <2>5 DEF DeadAhead, DataPcs
    <3>2. CASE "DISCONNECT" \in events
      BY <2>1, <3>1, <3>2 DEF RelistenDue, DeadAhead, Dead, netVars, socketVars
    <3>3. CASE pc' = "disUnaccept"
      BY <3>3 DEF RelistenDue, ThreadEnding
    <3>4. CASE slot <= i /\ pc' # "disUnaccept"
      <4>1. slot # MaxClients
        BY <1>0, <1>a, <3>4
      <4>2. i # slot
        BY <1>0, <2>1, <3>1, <3>4, <4>1 DEF Dead
      <4>3. slot + 1 <= i /\ slot < i
        BY <1>0, <1>a, <3>4, <4>2
      <4> QED
        BY <2>1, <3>1, <3>4, <4>1, <4>3 DEF RelistenDue, DeadAhead, Dead, netVars, socketVars
    <3> QED
      BY <3>1, <3>2, <3>3, <3>4
  <2> QED
    BY <2>2, <2>3, <2>4, <2>5
<1>2. CASE DisconnectWhile
  <2>1. /\ pc = "disWhile" /\ UNCHANGED <<netVars, activityTimeout, session, appPc>>
        /\ \/ pc' \in {"disCall", "disUnaccept"}
           \/ ~resetRequest /\ pc' = "disScan" /\ slot' = slot + 1
    BY <1>2 DEF DisconnectWhile, ThreadRuns, Goto, NextSlot, Local, dataVars, appVars
  <2>2. CASE pc' \in {"disCall", "disUnaccept"}
    BY <2>2 DEF RelistenDue, ThreadEnding
  <2>3. CASE ~resetRequest /\ pc' = "disScan" /\ slot' = slot + 1
    <3>1. Heard \/ session = Slots \/ (\E i \in Slots : Free(i)) \/ DeadAhead
      BY <2>1, <2>3 DEF QueueInv, RelistenDue, ScanPcs, ConnectPcs, ThreadEnding
    <3>2. CASE Heard \/ session = Slots
      BY <2>1, <3>2 DEF RelistenDue, Heard, netVars, listenVars
    <3>3. CASE \E i \in Slots : Free(i)
      BY <2>1, <2>3, <3>3 DEF RelistenDue, Free, netVars, socketVars
    <3>4. CASE DeadAhead
      <4>1. PICK i \in Slots : Dead(i) /\ ("DISCONNECT" \in events \/ slot < i)
        BY <2>1, <3>4 DEF DeadAhead, DataPcs
      <4>2. slot < i => slot + 1 <= i
        BY <1>0, <1>a
      <4> QED
        BY <2>1, <2>3, <4>1, <4>2 DEF RelistenDue, DeadAhead, Dead, netVars, socketVars
    <3> QED
      BY <3>1, <3>2, <3>3, <3>4
  <2> QED
    BY <2>1, <2>2, <2>3
<1>3. CASE DisconnectCall \/ DisconnectWait
  BY <1>3 DEF DisconnectCall, DisconnectWait, ThreadRuns, Goto, QueueInv, Given, RelistenDue,
              ThreadEnding
<1>4. CASE DisconnectUnaccept
  <2>1. pc = "disUnaccept" /\ pc' = "disClear" /\ ServerThread
    BY <1>4 DEF DisconnectUnaccept, ThreadRuns, Goto, ServerThread, DisconnectProcess
  <2>2. slot \in Slots
    BY <2>1, ThreadMoves DEF Served, Known, LoopPcs
  <2>3. \E i \in Slots : Free(i)'
    BY <2>1, <2>2, ThreadUnaccepts DEF QueueInv
  <2> QED
    BY <2>1, <2>3 DEF RelistenDue
<1>5. CASE \/ DisconnectClear \/ LoadCount("disLoad", "disStore")
           \/ StoreDecremented("disStore", "disEnd") \/ ConnectionEnd("disEnd", "disScan")
  <2>1. /\ pc \in EndedPcs /\ pc' \in EndedPcs \cup {"disScan"}
        /\ UNCHANGED <<netVars, appPc>>
    BY <1>5 DEF DisconnectClear, LoadCount, StoreDecremented, ConnectionEnd, ThreadRuns, Goto,
                NextSlot, Local, OnData, appVars
  <2>2. Heard \/ \E i \in Slots : Free(i)
    BY <2>1 DEF QueueInv, EndPlaced
  <2> QED
    BY <2>1, <2>2 DEF RelistenDue, Heard, Free, netVars, socketVars, listenVars
<1>6. CASE RelistenLoop("disRelisten", "DISCONNECT")
  BY <1>6, RelistenLoopDue DEF Work
<1> QED
  BY <1>1, <1>2, <1>3, <1>4, <1>5, <1>6 DEF DisconnectProcess

\* timeout_processing relistens on the socket that it frees.
LEMMA TimeoutDue ==
  ASSUME Served, QueueInv, PortOpen, appPc = "idle", TimeoutProcess
  PROVE  RelistenDue'
<1>1. CASE TimeoutScan \/ TimeoutStore
  <2>1. /\ pc \in {"timScan", "timStore"}
        /\ UNCHANGED <<netVars, session, appPc>>
    BY <1>1 DEF TimeoutScan, TimeoutStore, ThreadRuns, Local, OnData, dataVars, appVars
  <2>2. ASSUME NEW i \in Slots, Dead(i), pc' # "timDisconnect" PROVE Dead(i)'
    BY <1>1, <2>1, <2>2
    DEF TimeoutScan, TimeoutStore, Goto, NextSlot, Local, OnData, Dead, dataVars, netVars,
        socketVars, Served, Known, Base, Control, ServerTypeOK
  <2>3. Heard \/ session = Slots \/ DeadAhead
    BY <2>1 DEF QueueInv, RelistenDue, ScanPcs, ConnectPcs, EndingPcs, DisconnectPcs,
                ThreadEnding
  <2>4. CASE Heard \/ session = Slots
    BY <2>1, <2>4 DEF RelistenDue, Heard, netVars, listenVars
  <2>5. CASE DeadAhead
    <3>1. PICK i \in Slots : Dead(i) /\ "DISCONNECT" \in events
      BY <2>1, <2>5 DEF DeadAhead, DataPcs, EndingPcs, DisconnectPcs
    <3> QED
      BY <2>1, <2>2, <3>1 DEF RelistenDue, DeadAhead, netVars
  <2> QED
    BY <2>3, <2>4, <2>5
<1>2. CASE TimeoutDisconnect
  BY <1>2 DEF TimeoutDisconnect, Goto, RelistenDue
<1>3. CASE TimeoutUnaccept \/ TimeoutRelisten
  <2>1. /\ \/ pc = "timUnaccept" /\ pc' = "timRelisten"
           \/ pc = "timRelisten" /\ pc' = "timLoad"
        /\ slot' = slot /\ UNCHANGED appPc
    BY <1>3 DEF TimeoutUnaccept, TimeoutRelisten, ThreadRuns, Goto, OnSockets, appVars
  <2>2. ServerThread
    BY <1>3 DEF ServerThread, TimeoutProcess
  <2>3. PortOpen'
    BY <2>2, ThreadKeepsPort
  <2>4. EndPlaced'
    BY <2>2, ThreadEndPlaced
  <2> QED
    BY <2>1, <2>3, <2>4 DEF EndPlaced, TimedPcs, RelistenDue
<1>4. CASE \/ LoadCount("timLoad", "timStoreCount") \/ StoreDecremented("timStoreCount", "timEnd")
           \/ ConnectionEnd("timEnd", "timScan")
  <2>1. pc \in TimedPcs /\ UNCHANGED <<netVars, appPc>>
    BY <1>4 DEF LoadCount, StoreDecremented, ConnectionEnd, ThreadRuns, Local, OnData, appVars,
                TimedPcs
  <2> QED
    BY <2>1 DEF QueueInv, EndPlaced, RelistenDue, Heard, netVars, listenVars
<1> QED
  BY <1>1, <1>2, <1>3, <1>4 DEF TimeoutProcess

-----------------------------------------------------------------------------
(* The theorem.                                                            *)

\* Every step of the server thread keeps the invariant, as long as the option
\* requests can be sent to a connected client.
LEMMA ThreadKeepsQueue ==
  ASSUME OptionsMayFail = FALSE, Served, QueueInv, ServerThread
  PROVE  QueueInv'
<1>1. UNCHANGED <<listening, appPc, appSlot>> /\ PortOpen' = PortOpen
  BY ThreadKeepsPort
<1>2. appPc \in {"idle", "discWait"}
  BY ThreadMoves DEF Served, Known
<1>3. Given' /\ CallRelistens'
  BY <1>1, <1>2, ThreadGiven DEF CallRelistens
<1>4. StopSeen'
  BY <1>1, ThreadEvents DEF QueueInv, StopSeen
<1>5. CASE PortOpen
  <2>1. Placed' /\ Scanned' /\ EndPlaced' /\ OptionsLost'
    BY <1>5, ThreadPlaced, ThreadScanned, ThreadEndPlaced, ThreadOptionsLost
  <2>2. RelistenDue'
    <3>1. CASE appPc = "discWait"
      BY <1>1, <3>1 DEF RelistenDue, Heard, DiscPcs
    <3>2. CASE SuspendSelf
      BY <1>1, <3>2
      DEF SuspendSelf, ThreadRuns, Goto, QueueInv, RelistenDue, Heard, DeadAhead, Dead, ScanPcs,
          ConnectPcs, EndingPcs, DisconnectPcs, DataPcs, ThreadEnding, netVars, socketVars,
          listenVars, dataVars
    <3> QED
      BY <1>2, <1>5, <3>1, <3>2, GetEventsDue, ConnectDue, DataDue, DisconnectDue, TimeoutDue
      DEF ServerThread
  <2> QED
    BY <1>3, <1>4, <2>1, <2>2 DEF QueueInv
<1>6. CASE ~PortOpen
  BY <1>1, <1>3, <1>4, <1>6
  DEF QueueInv, Placed, Scanned, EndPlaced, OptionsLost, RelistenDue
<1> QED
  BY <1>5, <1>6

\* The invariant.
LEMMA QueueInvariant ==
  ASSUME OptionsMayFail = FALSE
  PROVE  Spec => [](Served /\ QueueInv)
<1>1. Init => QueueInv
  BY DEF Init, NetInit, QueueInv, Placed, Scanned, EndPlaced, Given, CallRelistens, OptionsLost,
         StopSeen, RelistenDue, PortOpen
<1>2. Served /\ Served' /\ QueueInv /\ [Next]_vars => QueueInv'
  BY NetworkKeepsQueue, ApplicationKeepsQueue, ThreadKeepsQueue DEF Next
<1>3. Spec => []Served
  BY ServingInvariant, PTL DEF Served
<1> QED
  BY <1>1, <1>2, <1>3, PTL DEF Spec

\* A SYN waits in the listen queue only while every connection is in use: whatever
\* the application calls, each path that frees a socket relistens.
THEOREM QueuedOnlyWhenBusy ==
  ASSUME OptionsMayFail = FALSE
  PROVE  Spec => []QueueOnlyWhenBusy
<1>1. Served /\ QueueInv => QueueOnlyWhenBusy
  <2> SUFFICES ASSUME Served, QueueInv, Idle, listenQueue # <<>> PROVE session = Slots
    BY DEF QueueOnlyWhenBusy
  <2>1. PortOpen
    BY DEF Served, Known, Left, Portless, Idle, PortOpen, StopPcs, DeletePcs
  <2>2. listenSocket = None
    BY DEF Served, Known, Base, NetInv, ListenerSound
  <2> QED
    BY <2>1, <2>2
    DEF QueueInv, RelistenDue, Heard, DeadAhead, Idle, DiscPcs, ScanPcs, ConnectPcs, EndingPcs,
        DisconnectPcs, DataPcs, ThreadEnding
<1> QED
  BY <1>1, QueueInvariant, PTL
=============================================================================
