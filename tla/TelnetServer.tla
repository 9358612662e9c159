---------------------------- MODULE TelnetServer ----------------------------
(***************************************************************************)
(* The TELNET server (nxd_telnet_server.c): its thread, the timer, and the *)
(* calls of the application, over the sockets of TcpServerSockets.         *)
(*                                                                         *)
(* The server thread is one program counter (pc) with its locals; a step   *)
(* ends wherever another thread can observe or disturb the next one.  The  *)
(* application thread has the higher priority (the example's main thread   *)
(* runs at 15, the server at 16): it can start a call between any two      *)
(* steps of the server thread, which then waits until the call returns or  *)
(* suspends.  The IP thread has a higher priority than both.               *)
(***************************************************************************)
EXTENDS TcpServerSockets

CONSTANTS
  ActivityPeriods,  \* NX_TELNET_ACTIVITY_TIMEOUT in NX_TELNET_TIMEOUT_PERIODs
  AppCalls,         \* the calls the application makes besides start
  MaxAppCalls,      \* bound of the model: how many of them it makes
  CreateMayFail,    \* a step of create can fail
  OptionsMayFail    \* sending the option requests can fail (no packet, no window)

ASSUME ServerConstantsOK ==
  /\ ActivityPeriods \in Nat \ {0}
  /\ AppCalls \subseteq {"stop", "disconnect", "delete"}
  /\ MaxAppCalls \in Nat
  /\ CreateMayFail \in BOOLEAN
  /\ OptionsMayFail \in BOOLEAN

VARIABLES
  activityTimeout,  \* per slot, in periods
  openConnections,  \* nx_telnet_server_open_connections
  timerActive,      \* the activity timer runs
  objects, sockets, \* the kernel objects and the sockets of the server that exist
  pc, slot,         \* server thread: where it is, and its loop variable i
  pending,          \* the events it fetched and has still to process
  resetRequest,     \* reset_client_request of disconnect_process
  register,         \* a value loaded and not yet stored back
  appPc, appSlot,   \* the application's call in progress
  appCalls,         \* how many calls it made
  session           \* slots with a new_connection and no connection_end yet

threadVars == <<pc, slot, pending, resetRequest, register>>
appVars    == <<appPc, appSlot, appCalls>>
dataVars   == <<activityTimeout, openConnections, session>>
kernelVars == <<timerActive, objects, sockets>>
vars       == <<netVars, dataVars, kernelVars, threadVars, appVars>>

\* What create makes besides the sockets; the server is ready (its id is set)
\* exactly while it has all of them.
Objects == {"thread", "events", "timer", "pool"}
Ready == objects = Objects

Work == {"CONNECT", "DATA", "DISCONNECT", "ACTIVITY_TIMEOUT"}
ConnectPcs == {"conScan", "conAccept", "conSuspend", "conWait", "conUnaccept", "conArm",
               "conLoad", "conStore", "conNew", "conOptions", "conRelisten"}
DataPcs == {"datScan", "datTouch", "datReceive"}
DisconnectPcs == {"disScan", "disWhile", "disCall", "disWait", "disUnaccept", "disClear",
                  "disLoad", "disStore", "disEnd", "disRelisten"}
TimeoutPcs == {"timScan", "timStore", "timDisconnect", "timUnaccept", "timRelisten",
               "timLoad", "timStoreCount", "timEnd"}
Pcs == {"none", "get", "suspend", "suspended"} \cup ConnectPcs \cup DataPcs
         \cup DisconnectPcs \cup TimeoutPcs
AppPcs == {"idle", "stopDisconnect", "stopUnaccept", "stopUnlisten", "discCall",
           "discWait", "discUnaccept", "discFinish", "discRelisten",
           "delDisconnect", "delUnaccept", "delSocket", "delUnlisten"}

ServerTypeOK ==
  /\ activityTimeout \in [Slots -> 0 .. ActivityPeriods]
  /\ openConnections \in Nat
  /\ timerActive \in BOOLEAN
  /\ objects \in SUBSET Objects
  /\ sockets \in SUBSET Slots
  /\ pc \in Pcs
  /\ slot \in 0 .. MaxClients
  /\ pending \in SUBSET Work
  /\ resetRequest \in BOOLEAN
  /\ register \in Nat
  /\ appPc \in AppPcs
  /\ appSlot \in 0 .. MaxClients
  /\ appCalls \in 0 .. MaxAppCalls
  /\ session \in SUBSET Slots

TypeOK == NetTypeOK /\ ServerTypeOK

\* Nothing is created yet: there is no server thread.
Init ==
  /\ NetInit
  /\ activityTimeout = [i \in Slots |-> 0]
  /\ openConnections = 0
  /\ timerActive = FALSE
  /\ objects = {}
  /\ sockets = {}
  /\ pc = "none"
  /\ slot = 0
  /\ pending = {}
  /\ resetRequest = FALSE
  /\ register = 0
  /\ appPc = "idle"
  /\ appSlot = 0
  /\ appCalls = 0
  /\ session = {}

-----------------------------------------------------------------------------
(* The server thread.                                                      *)

\* The application waits inside its disconnect, or is between two calls.
AppSuspended == \E i \in Slots : disconnectWaiter[i] = "app"
ThreadRuns(at) == pc = at /\ (appPc = "idle" \/ AppSuspended)

Goto(to) == pc' = to /\ UNCHANGED <<slot, pending, resetRequest, register>>

\* The next iteration of a loop over the slots.
NextSlot(to) ==
  /\ pc' = to /\ slot' = slot + 1
  /\ UNCHANGED <<pending, resetRequest, register>>

\* Go on with the fetched events evs, in their order, or wait for new ones.
Process(evs) ==
  /\ pc' = IF "CONNECT" \in evs THEN "conScan"
           ELSE IF "DATA" \in evs THEN "datScan"
           ELSE IF "DISCONNECT" \in evs THEN "disScan"
           ELSE IF "ACTIVITY_TIMEOUT" \in evs THEN "timScan" ELSE "get"
  /\ slot' = 0
  /\ pending' = evs
  /\ UNCHANGED <<resetRequest, register>>

\* As a bug: the events that were fetched with e are forgotten.
DoneWithAll(e) == Process({})

Done(e) == Process(pending \ {e})

\* tx_event_flags_get with TX_OR_CLEAR: a STOP discards what came with it.
GetEvents ==
  /\ ThreadRuns("get")
  /\ events # {}
  /\ events' = {}
  /\ IF "STOP" \in events THEN Goto("suspend") ELSE Process(events)
  /\ UNCHANGED <<socketVars, listenVars, waitVars, dataVars, kernelVars, appVars>>

\* tx_thread_suspend of the thread itself.
SuspendSelf ==
  /\ ThreadRuns("suspend")
  /\ Goto("suspended")
  /\ UNCHANGED <<netVars, dataVars, kernelVars, appVars>>

\* A step that only reads, and one that also uses the sockets.
Local == UNCHANGED <<netVars, dataVars, kernelVars, appVars>>
OnSockets == UNCHANGED <<dataVars, kernelVars, appVars>>
OnData == UNCHANGED <<netVars, kernelVars, appVars>>

-----------------------------------------------------------------------------
(* _nx_telnet_server_connect_process                                       *)

BeingConnected(i) ==
  socketState[i] \in {"LISTEN", "SYN_RECEIVED"} /\ connectPort[i] # None

ConnectScan ==
  /\ ThreadRuns("conScan")
  /\ Local
  /\ \/ slot = MaxClients /\ pc' = "conRelisten" /\ slot' = 0
                          /\ UNCHANGED <<pending, resetRequest, register>>
     \/ slot < MaxClients /\ BeingConnected(slot) /\ Goto("conAccept")
     \/ slot < MaxClients /\ ~BeingConnected(slot) /\ NextSlot("conScan")

ConnectAccept ==
  /\ ThreadRuns("conAccept")
  /\ OnSockets
  /\ \/ AcceptReturns(slot) /\ UNCHANGED netVars /\ Goto("conArm")
     \/ AcceptFails(slot) /\ UNCHANGED netVars /\ Goto("conUnaccept")
     \/ /\ ~AcceptReturns(slot) /\ ~AcceptFails(slot)
        /\ UNCHANGED netVars /\ Goto("conSuspend")

ConnectSuspend ==
  /\ ThreadRuns("conSuspend")
  /\ AcceptSuspends(slot)
  /\ Goto("conWait")
  /\ OnSockets

\* accept returns.
ConnectWait ==
  /\ ThreadRuns("conWait")
  /\ connectWaiter = None
  /\ \/ acceptOk /\ UNCHANGED netVars /\ Goto("conArm")
     \/ ~acceptOk /\ AcceptGivenUp(slot) /\ Goto("conUnaccept")
  /\ OnSockets

ConnectUnaccept ==
  /\ ThreadRuns("conUnaccept")
  /\ Unaccept(slot)
  /\ NextSlot("conScan")
  /\ OnSockets

\* As a bug: the timeout is rounded up by one period.
ConnectArmRoundedUp ==
  /\ ThreadRuns("conArm")
  /\ activityTimeout' = [activityTimeout EXCEPT ![slot] = ActivityPeriods + 1]
  /\ Goto("conLoad")
  /\ UNCHANGED <<openConnections, session>> /\ OnData

ConnectArm ==
  /\ ThreadRuns("conArm")
  /\ activityTimeout' = [activityTimeout EXCEPT ![slot] = ActivityPeriods]
  /\ Goto("conLoad")
  /\ UNCHANGED <<openConnections, session>> /\ OnData

\* A read and a write of the shared counter are two steps: it is not locked.
LoadCount(at, to) ==
  /\ ThreadRuns(at)
  /\ pc' = to /\ register' = openConnections
  /\ UNCHANGED <<slot, pending, resetRequest>>
  /\ Local

ConnectStore ==
  /\ ThreadRuns("conStore")
  /\ openConnections' = register + 1
  /\ Goto("conNew")
  /\ UNCHANGED <<activityTimeout, session>> /\ OnData

\* The new_connection callback.
ConnectNew ==
  /\ ThreadRuns("conNew")
  /\ session' = session \cup {slot}
  /\ Goto("conOptions")
  /\ UNCHANGED <<activityTimeout, openConnections>> /\ OnData

\* send_option_requests: the sends need a connection that still stands.  When
\* one fails the function returns and nobody relistens.
ConnectOptions ==
  /\ ThreadRuns("conOptions")
  /\ Local
  /\ \/ socketState[slot] \in {"ESTABLISHED", "CLOSE_WAIT"} /\ NextSlot("conScan")
     \/ /\ OptionsMayFail \/ socketState[slot] \notin {"ESTABLISHED", "CLOSE_WAIT"}
        /\ Done("CONNECT")

\* The relisten loop of the event e, one slot per step.
RelistenLoop(at, e) ==
  /\ ThreadRuns(at)
  /\ OnSockets
  /\ \/ slot < MaxClients /\ Relisten(slot) /\ Done(e)
     \/ slot < MaxClients /\ ~RelistenWorks(slot) /\ UNCHANGED netVars /\ NextSlot(at)
     \/ slot = MaxClients /\ UNCHANGED netVars /\ Done(e)

ConnectProcess ==
  \/ ConnectScan \/ ConnectAccept \/ ConnectSuspend \/ ConnectWait
  \/ ConnectUnaccept \/ ConnectArm
  \/ LoadCount("conLoad", "conStore") \/ ConnectStore \/ ConnectNew \/ ConnectOptions
  \/ RelistenLoop("conRelisten", "CONNECT")

-----------------------------------------------------------------------------
(* _nx_telnet_server_data_process.  What the packets hold is the matter of *)
(* TelnetOptions; here a packet is delivered, or is one on which the loop  *)
(* over the queue breaks (chained, or a lone IAC).                         *)

DataScan ==
  /\ ThreadRuns("datScan")
  /\ Local
  /\ \/ slot = MaxClients /\ Done("DATA")
     \/ slot < MaxClients /\ rxCount[slot] > 0 /\ Goto("datTouch")
     \/ slot < MaxClients /\ rxCount[slot] = 0 /\ NextSlot("datScan")

DataTouch ==
  /\ ThreadRuns("datTouch")
  /\ activityTimeout' = [activityTimeout EXCEPT ![slot] = ActivityPeriods]
  /\ Goto("datReceive")
  /\ UNCHANGED <<openConnections, session>> /\ OnData

\* The receive fails if the queue was emptied meanwhile, or its first packet
\* waits for a gap in the data.
DataReceive ==
  /\ ThreadRuns("datReceive")
  /\ \/ Receive(slot) /\ (Goto("datScan") \/ NextSlot("datScan"))
     \/ UNCHANGED netVars /\ NextSlot("datScan")
  /\ OnSockets

DataProcess == DataScan \/ DataTouch \/ DataReceive

-----------------------------------------------------------------------------
(* _nx_telnet_server_disconnect_process                                    *)

\* As a bug: any idle socket counts as one that was reset.
WasResetOrIdle(i) == socketState[i] \in {"CLOSED", "LISTEN"}

\* A RST left the socket CLOSED or LISTEN with its activity timeout running.
WasReset(i) == socketState[i] \in {"CLOSED", "LISTEN"} /\ activityTimeout[i] > 0

DisconnectScan ==
  /\ ThreadRuns("disScan")
  /\ Local
  /\ \/ slot = MaxClients /\ pc' = "disRelisten" /\ slot' = 0
                          /\ UNCHANGED <<pending, resetRequest, register>>
     \/ slot < MaxClients /\ WasReset(slot) /\ Goto("disUnaccept")
     \/ /\ slot < MaxClients
        /\ socketState[slot] \in {"CLOSED", "LISTEN"} /\ activityTimeout[slot] = 0
        /\ NextSlot("disScan")
     \/ /\ slot < MaxClients
        /\ socketState[slot] \notin {"CLOSED", "LISTEN"}
        /\ pc' = "disWhile" /\ resetRequest' = FALSE
        /\ UNCHANGED <<slot, pending, register>>

\* while (state > NX_TCP_ESTABLISHED): disconnect again.
DisconnectWhile ==
  /\ ThreadRuns("disWhile")
  /\ Local
  /\ \/ socketState[slot] \in AfterEstablished /\ Goto("disCall")
     \/ /\ socketState[slot] \notin AfterEstablished
        /\ IF resetRequest THEN Goto("disUnaccept") ELSE NextSlot("disScan")

DisconnectCall ==
  /\ ThreadRuns("disCall")
  /\ Disconnect(slot, TRUE, "telnet")
  /\ pc' = IF DisconnectSuspends(slot, TRUE) THEN "disWait" ELSE "disWhile"
  /\ resetRequest' = TRUE
  /\ UNCHANGED <<slot, pending, register>>
  /\ OnSockets

DisconnectWait ==
  /\ ThreadRuns("disWait")
  /\ disconnectWaiter[slot] # "telnet"
  /\ DisconnectResumed(slot)
  /\ Goto("disWhile")
  /\ OnSockets

DisconnectUnaccept ==
  /\ ThreadRuns("disUnaccept")
  /\ Unaccept(slot)
  /\ Goto("disClear")
  /\ OnSockets

\* As a bug: the activity timeout of the ended connection keeps running.
DisconnectClearForgotten ==
  /\ ThreadRuns("disClear")
  /\ Goto("disLoad")
  /\ Local

DisconnectClear ==
  /\ ThreadRuns("disClear")
  /\ activityTimeout' = [activityTimeout EXCEPT ![slot] = 0]
  /\ Goto("disLoad")
  /\ UNCHANGED <<openConnections, session>> /\ OnData

\* if (open_connections > 0) open_connections--
StoreDecremented(at, to) ==
  /\ ThreadRuns(at)
  /\ openConnections' = IF register > 0 THEN register - 1 ELSE openConnections
  /\ Goto(to)
  /\ UNCHANGED <<activityTimeout, session>> /\ OnData

\* As a bug: the application is not told.
ConnectionEndUntold(at, to) ==
  /\ ThreadRuns(at)
  /\ NextSlot(to)
  /\ Local

\* The connection_end callback.
ConnectionEnd(at, to) ==
  /\ ThreadRuns(at)
  /\ session' = session \ {slot}
  /\ NextSlot(to)
  /\ UNCHANGED <<activityTimeout, openConnections>> /\ OnData

DisconnectProcess ==
  \/ DisconnectScan \/ DisconnectWhile \/ DisconnectCall \/ DisconnectWait
  \/ DisconnectUnaccept \/ DisconnectClear
  \/ LoadCount("disLoad", "disStore") \/ StoreDecremented("disStore", "disEnd")
  \/ ConnectionEnd("disEnd", "disScan")
  \/ RelistenLoop("disRelisten", "DISCONNECT")

-----------------------------------------------------------------------------
(* _nx_telnet_server_timeout_processing                                    *)

TimeoutScan ==
  /\ ThreadRuns("timScan")
  /\ Local
  /\ \/ slot = MaxClients /\ Done("ACTIVITY_TIMEOUT")
     \/ slot < MaxClients /\ activityTimeout[slot] = 0 /\ NextSlot("timScan")
     \/ /\ slot < MaxClients /\ activityTimeout[slot] > 0
        /\ pc' = "timStore" /\ register' = activityTimeout[slot] - 1
        /\ UNCHANGED <<slot, pending, resetRequest>>

TimeoutStore ==
  /\ ThreadRuns("timStore")
  /\ activityTimeout' = [activityTimeout EXCEPT ![slot] = register]
  /\ IF register = 0 THEN Goto("timDisconnect") ELSE NextSlot("timScan")
  /\ UNCHANGED <<openConnections, session>> /\ OnData

TimeoutDisconnect ==
  /\ ThreadRuns("timDisconnect")
  /\ Disconnect(slot, FALSE, "telnet")
  /\ Goto("timUnaccept")
  /\ OnSockets

TimeoutUnaccept ==
  /\ ThreadRuns("timUnaccept")
  /\ Unaccept(slot)
  /\ Goto("timRelisten")
  /\ OnSockets

\* As a bug: the relisten that "will probably fail" is left out.
TimeoutNoRelisten ==
  /\ ThreadRuns("timRelisten")
  /\ Goto("timLoad")
  /\ Local

\* Relisten on this very socket; the status is ignored.
TimeoutRelisten ==
  /\ ThreadRuns("timRelisten")
  /\ Relisten(slot) \/ (~RelistenWorks(slot) /\ UNCHANGED netVars)
  /\ Goto("timLoad")
  /\ OnSockets

TimeoutProcess ==
  \/ TimeoutScan \/ TimeoutStore \/ TimeoutDisconnect \/ TimeoutUnaccept \/ TimeoutRelisten
  \/ LoadCount("timLoad", "timStoreCount") \/ StoreDecremented("timStoreCount", "timEnd")
  \/ ConnectionEnd("timEnd", "timScan")

ServerThread ==
  GetEvents \/ SuspendSelf \/ ConnectProcess \/ DataProcess \/ DisconnectProcess \/ TimeoutProcess

\* _nx_telnet_server_timeout, in the timer thread.
TimerExpires ==
  /\ timerActive
  /\ Signal("ACTIVITY_TIMEOUT")
  /\ UNCHANGED <<socketVars, listenVars, waitVars, dataVars, kernelVars, threadVars, appVars>>

-----------------------------------------------------------------------------
(* The application's calls.                                                *)

\* nx_telnet_server_start; tx_thread_resume does nothing unless the thread is
\* suspended.  A start that cannot listen changes nothing.
Start ==
  /\ appPc = "idle" /\ Ready
  /\ ListenWorks(0)
  /\ Listen(0)
  /\ timerActive' = TRUE
  /\ events' = events \ {"STOP"}
  /\ pc' = IF pc = "suspended" THEN "get" ELSE pc
  /\ UNCHANGED <<objects, sockets, slot, pending, resetRequest, register, dataVars, appVars>>

\* A call of the kind c begins at appPc to with slot i; then it goes on.
AppCall(c, to, i) ==
  /\ appPc = "idle" /\ Ready
  /\ c \in AppCalls /\ appCalls < MaxAppCalls
  /\ appPc' = to /\ appSlot' = i /\ appCalls' = appCalls + 1

AppGoto(to, i) == appPc' = to /\ appSlot' = i /\ UNCHANGED appCalls

\* nx_telnet_server_stop
StopBegin ==
  /\ AppCall("stop", "stopDisconnect", 0)
  /\ timerActive' = FALSE
  /\ Signal("STOP")
  /\ UNCHANGED <<socketVars, listenVars, waitVars, dataVars, objects, sockets, threadVars>>

StopDisconnect ==
  /\ appPc = "stopDisconnect"
  /\ Disconnect(appSlot, FALSE, "app")
  /\ AppGoto("stopUnaccept", appSlot)
  /\ UNCHANGED <<dataVars, kernelVars, threadVars>>

\* As a bug: the walk over the sockets ends one too early.
StopUnacceptShort ==
  /\ appPc = "stopUnaccept"
  /\ Unaccept(appSlot)
  /\ activityTimeout' = [activityTimeout EXCEPT ![appSlot] = 0]
  /\ IF appSlot + 2 < MaxClients THEN AppGoto("stopDisconnect", appSlot + 1)
                                 ELSE AppGoto("stopUnlisten", 0)
  /\ UNCHANGED <<openConnections, session, kernelVars, threadVars>>

StopUnaccept ==
  /\ appPc = "stopUnaccept"
  /\ Unaccept(appSlot)
  /\ activityTimeout' = [activityTimeout EXCEPT ![appSlot] = 0]
  /\ IF appSlot + 1 < MaxClients THEN AppGoto("stopDisconnect", appSlot + 1)
                                 ELSE AppGoto("stopUnlisten", 0)
  /\ UNCHANGED <<openConnections, session, kernelVars, threadVars>>

StopUnlisten ==
  /\ appPc = "stopUnlisten"
  /\ Unlisten
  /\ AppGoto("idle", 0)
  /\ UNCHANGED <<dataVars, kernelVars, threadVars>>

\* nx_telnet_server_disconnect of a connection the application was told of and
\* that is alive; for a dead one the call returns NX_TELNET_NOT_CONNECTED and
\* changes nothing.
AppDisconnect(i) ==
  /\ AppCall("disconnect", "discCall", i)
  /\ i \in session
  /\ socketState[i] \in {"ESTABLISHED"} \cup AfterEstablished
  /\ UNCHANGED <<netVars, dataVars, kernelVars, threadVars>>

\* As a bug: the socket is unaccepted without being disconnected.
AppDisconnectCallOmitted ==
  /\ appPc = "discCall"
  /\ AppGoto("discUnaccept", appSlot)
  /\ UNCHANGED <<netVars, dataVars, kernelVars, threadVars>>

AppDisconnectCall ==
  /\ appPc = "discCall"
  /\ Disconnect(appSlot, TRUE, "app")
  /\ AppGoto(IF DisconnectSuspends(appSlot, TRUE) THEN "discWait" ELSE "discUnaccept", appSlot)
  /\ UNCHANGED <<dataVars, kernelVars, threadVars>>

AppDisconnectWait ==
  /\ appPc = "discWait"
  /\ disconnectWaiter[appSlot] # "app"
  /\ DisconnectResumed(appSlot)
  /\ AppGoto("discUnaccept", appSlot)
  /\ UNCHANGED <<dataVars, kernelVars, threadVars>>

AppDisconnectUnaccept ==
  /\ appPc = "discUnaccept"
  /\ Unaccept(appSlot)
  /\ AppGoto("discFinish", appSlot)
  /\ UNCHANGED <<dataVars, kernelVars, threadVars>>

\* Counter, timeout and connection_end callback: no other thread gets between.
AppDisconnectFinish ==
  /\ appPc = "discFinish"
  /\ openConnections' = IF openConnections > 0 THEN openConnections - 1 ELSE 0
  /\ activityTimeout' = [activityTimeout EXCEPT ![appSlot] = 0]
  /\ session' = session \ {appSlot}
  /\ AppGoto("discRelisten", 0)
  /\ UNCHANGED <<netVars, kernelVars, threadVars>>

\* As a bug: the freed socket is not listened on.
AppDisconnectNoRelisten ==
  /\ appPc = "discRelisten"
  /\ AppGoto("idle", 0)
  /\ UNCHANGED <<netVars, dataVars, kernelVars, threadVars>>

AppDisconnectRelisten ==
  /\ appPc = "discRelisten"
  /\ \/ appSlot < MaxClients /\ Relisten(appSlot) /\ AppGoto("idle", 0)
     \/ /\ appSlot < MaxClients /\ ~RelistenWorks(appSlot)
        /\ UNCHANGED netVars /\ AppGoto("discRelisten", appSlot + 1)
     \/ appSlot = MaxClients /\ UNCHANGED netVars /\ AppGoto("idle", 0)
  /\ UNCHANGED <<dataVars, kernelVars, threadVars>>

-----------------------------------------------------------------------------
(* Creating and deleting the server.                                       *)

\* Undoing create's steps deletes what it made, but for the thread: it was created
\* suspended, and tx_thread_delete takes only one that has ended.
Undone(made) == made \ {"events", "timer"}

\* create fails after it made some of its objects.  The sockets it made, which
\* nobody has used, are deleted again.
CreateFails ==
  /\ CreateMayFail
  /\ \E made \in {{}, {"thread"}, {"thread", "events"}, {"thread", "events", "timer"}} :
       objects' = Undone(made)
  /\ UNCHANGED <<netVars, dataVars, timerActive, sockets, threadVars, appVars>>

\* create succeeds: the server structure is cleared, the thread does not run.
CreateSucceeds ==
  /\ objects' = Objects
  /\ sockets' = Slots
  /\ SocketsCreated
  /\ activityTimeout' = [i \in Slots |-> 0]
  /\ openConnections' = 0
  /\ session' = {}
  /\ pc' = "suspended"
  /\ UNCHANGED <<timerActive, slot, pending, resetRequest, register, appVars>>

\* nx_telnet_server_create.  Nobody else knows its objects before it returns.  A
\* structure one of whose objects is left over is not cleared again.
Create ==
  /\ appPc = "idle" /\ objects = {} /\ sockets = {}
  /\ CreateFails \/ CreateSucceeds

\* The server thread is terminated: its wait in accept or disconnect is cleaned
\* up as if it timed out.
TerminateThread ==
  /\ pc' = "none" /\ slot' = 0 /\ pending' = {} /\ resetRequest' = FALSE /\ register' = 0
  /\ socketState' = [i \in Slots |-> IF i = connectWaiter THEN RestState(i) ELSE socketState[i]]
  /\ connectWaiter' = None
  /\ disconnectWaiter' = [i \in Slots |-> None]
  /\ UNCHANGED acceptOk

\* nx_telnet_server_delete.  Nobody sees in which order the kernel objects go;
\* the callbacks that follow find no event flags to set.
DeleteBegin ==
  /\ AppCall("delete", "delDisconnect", 0)
  /\ TerminateThread
  /\ objects' = {}
  /\ timerActive' = FALSE
  /\ events' = {}
  /\ UNCHANGED <<connectPort, bound, clientType, rxCount, listenVars, dataVars, sockets>>

DeleteDisconnect ==
  /\ appPc = "delDisconnect"
  /\ Disconnect(appSlot, FALSE, "app")
  /\ AppGoto("delUnaccept", appSlot)
  /\ UNCHANGED <<dataVars, kernelVars, threadVars>>

\* As a bug: the socket is not unaccepted before it is deleted.
DeleteUnacceptOmitted ==
  /\ appPc = "delUnaccept"
  /\ AppGoto("delSocket", appSlot)
  /\ UNCHANGED <<netVars, dataVars, kernelVars, threadVars>>

DeleteUnaccept ==
  /\ appPc = "delUnaccept"
  /\ Unaccept(appSlot)
  /\ AppGoto("delSocket", appSlot)
  /\ UNCHANGED <<dataVars, kernelVars, threadVars>>

\* nx_tcp_socket_delete: a socket that is bound or not closed is kept.
DeleteSocket ==
  /\ appPc = "delSocket"
  /\ sockets' = IF SocketDeletes(appSlot) THEN sockets \ {appSlot} ELSE sockets
  /\ IF appSlot + 1 < MaxClients THEN AppGoto("delDisconnect", appSlot + 1)
                                 ELSE AppGoto("delUnlisten", 0)
  /\ UNCHANGED <<netVars, dataVars, timerActive, objects, threadVars>>

DeleteUnlisten ==
  /\ appPc = "delUnlisten"
  /\ Unlisten
  /\ AppGoto("idle", 0)
  /\ UNCHANGED <<dataVars, kernelVars, threadVars>>

-----------------------------------------------------------------------------
\* The part of a call that follows its first step.
AppContinues ==
  \/ StopDisconnect \/ StopUnaccept \/ StopUnlisten
  \/ AppDisconnectCall \/ AppDisconnectWait \/ AppDisconnectUnaccept
  \/ AppDisconnectFinish \/ AppDisconnectRelisten
  \/ DeleteDisconnect \/ DeleteUnaccept \/ DeleteSocket \/ DeleteUnlisten

Application ==
  \/ Create \/ Start \/ StopBegin \/ (\E i \in Slots : AppDisconnect(i)) \/ DeleteBegin
  \/ AppContinues

-----------------------------------------------------------------------------
NetworkStep == Network /\ UNCHANGED <<dataVars, kernelVars, threadVars, appVars>>

Next == ServerThread \/ TimerExpires \/ Application \/ NetworkStep

Spec == Init /\ [][Next]_vars

\* The threads of the device run and its timers expire; nothing is promised of
\* the peers (every segment may be lost) nor of the application, beyond that a
\* call it has begun goes on.
Step(A) == A /\ UNCHANGED <<dataVars, kernelVars, threadVars, appVars>>

Fairness ==
  /\ WF_vars(ServerThread)
  /\ WF_vars(TimerExpires)
  /\ WF_vars(AppContinues)
  /\ \A i \in Slots : /\ WF_vars(Step(TimedWaitExpires(i)))
                      /\ WF_vars(Step(AcceptTimesOut(i)))
                      /\ WF_vars(Step(DisconnectTimesOut(i)))

FairSpec == Spec /\ Fairness
-----------------------------------------------------------------------------
(* Safety.                                                                 *)

\* The server thread has handled every event and no call is under way.
Idle == pc = "get" /\ events = {} /\ appPc = "idle"

\* The activity timer of a connection runs exactly while the application
\* holds the connection open, however it was closed: connect_process arms it,
\* disconnect_process and timeout_processing find dead connections by it.
SessionsMatchTimers ==
  pc = "get" /\ appPc = "idle" => \A i \in Slots : i \in session <=> activityTimeout[i] > 0

\* While a connection is open for the application, its socket never completes
\* the handshake of another client: connection_end comes before the slot
\* serves again, although the slot is relistened before connection_end.
SessionNotReused ==
  [][\A i \in session : socketState'[i] = "ESTABLISHED" => socketState[i] = "ESTABLISHED"]_vars

\* No client is connected without the application having been told, once
\* connect_process and the callers it races with are through.
EstablishedIsServed ==
  Idle => \A i \in Slots : socketState[i] = "ESTABLISHED" => i \in session

\* A SYN waits in the listen queue only while every connection is in use: each
\* path that frees a socket relistens on it.
QueueOnlyWhenBusy == Idle /\ listenQueue # <<>> => session = Slots

\* A thread that waits in nx_tcp_socket_disconnect is woken before another one
\* waits for the same socket, which holds one pointer to a waiting thread.
NoLostWaiter ==
  [][\A i \in Slots : disconnectWaiter[i] # None =>
       disconnectWaiter'[i] \in {disconnectWaiter[i], None}]_vars

Stopped == pc = "suspended" /\ appPc = "idle" /\ ~listening

\* nx_telnet_server_stop leaves no trace in the network: once the thread is
\* suspended every socket is closed and released, whatever the thread was doing
\* when the call came.
StoppedQuiet ==
  Stopped => /\ listenSocket = None /\ listenQueue = <<>>
             /\ \A i \in Slots : socketState[i] = "CLOSED" /\ ~bound[i]

\* The unlisten at the end of nx_telnet_server_stop never fails: the port is
\* closed when the call returns.
StopClosesPort == [][StopUnlisten => ~listening']_vars

\* No deleted socket is still known to NetX: none is bound to a peer or named by
\* the listen request, although clients go on sending while delete runs.
DeletedUnused == \A i \in Slots \ sockets : ~bound[i] /\ listenSocket # i

\* nx_telnet_server_delete leaves nothing behind: every socket is deleted and
\* the port is closed, whatever the thread was doing when it was terminated.
DeletedQuiet ==
  ~Ready /\ appPc = "idle" => sockets = {} /\ ~listening /\ listenQueue = <<>>

\* The server implements the ledger its application sees, as long as the
\* application neither stops it nor disconnects a client.
Ledger == INSTANCE ConnectionLedger WITH
  Connections <- Slots,
  open <- session,
  count <- openConnections,
  change <- CASE pc = "conNew" -> <<"opened", slot>>
              [] pc \in {"disEnd", "timEnd"} -> <<"closed", slot>>
              [] OTHER -> None

LedgerImplemented == Ledger!Spec

-----------------------------------------------------------------------------
(* Liveness, under FairSpec.                                               *)

\* A connection whose client sends no data is ended, be it alive, half closed,
\* reset or cut off: timeout_processing.
SilentSessionsEnd == MaxRx = 0 => \A i \in Slots : i \in session ~> i \notin session

\* A client in the listen queue is taken out of it, for a socket or for a
\* newer client: no path forgets to relisten for good.
Waits(p) == \E k \in DOMAIN listenQueue : listenQueue[k] = p
QueuedSynLeaves == MaxRx = 0 => \A p \in Peers : Waits(p) ~> ~Waits(p)

\* The port never stays without a socket: there is a socket for the next SYN
\* again, or one has just taken a SYN that was queued.
SynPending(i) == bound[i] /\ socketState[i] = "LISTEN"
PortReopens ==
  MaxRx = 0 =>
    (listening /\ listenSocket = None) ~> (listenSocket # None \/ \E i \in Slots : SynPending(i))

\* Every call of the application returns, whatever the peers leave unanswered
\* and although the server thread works on the same sockets.
AppCallReturns == appPc # "idle" ~> appPc = "idle"

\* The server thread comes back to its event flags, is suspended or terminated:
\* no wait is lost, and the loop of disconnect_process ends.
ThreadRests == pc \in {"none", "get", "suspended"}
ThreadReturns == ~ThreadRests ~> ThreadRests

-----------------------------------------------------------------------------
(* What the source says of the program and the code does not do.           *)

\* "Start the TELNET server thread": it runs when start has returned.
StartRunsThread == listening /\ appPc = "idle" => pc # "suspended"
=============================================================================
