------------------------- MODULE TelnetServerProofs -------------------------
(***************************************************************************)
(* The TELNET server keeps its types, a sound listen request, one socket   *)
(* per peer, and no deleted socket in use, for every number of sockets,    *)
(* every set of peers and every sequence of calls of its application.      *)
(*                                                                         *)
(* The sockets are proved in TcpServerSocketsProofs; what is left to show  *)
(* is that the server only ever calls NetX with a socket it has: its loop  *)
(* variables are in range wherever it uses them.                           *)
(***************************************************************************)
EXTENDS TelnetServer, TcpServerSocketsProofs, TLAPS

\* Where the server thread is between two slots, or past the last one.
LoopPcs == {"none", "get", "suspend", "suspended", "conScan", "conRelisten", "datScan",
            "disScan", "disRelisten", "timScan"}

\* A thread that works on a slot has one; a period it is about to store is one
\* it has loaded from a running timeout.
InRange ==
  /\ pc \notin LoopPcs => slot < MaxClients
  /\ appPc \notin {"idle", "discRelisten", "stopUnlisten", "delUnlisten"} => appSlot < MaxClients
  /\ pc = "timStore" => register <= ActivityPeriods

Control == ServerTypeOK /\ InRange

\* There is a first slot.
LEMMA FirstSlot == 0 \in Slots
  BY ConstantsOK DEF Slots

-----------------------------------------------------------------------------
(* The control of the server thread and of the calls.                      *)

\* What a step of the server thread leaves alone when it changes no data.
OnlyThread == UNCHANGED <<dataVars, kernelVars, appVars>>

\* Three moves of the program counter: on with the same slot, on with the next
\* one, on with the events that are left.
LEMMA GotoControl ==
  ASSUME Control, OnlyThread, NEW to \in Pcs, Goto(to),
         to \notin LoopPcs => slot < MaxClients, to # "timStore"
  PROVE  Control'
  BY DEF Control, ServerTypeOK, InRange, OnlyThread, Goto, dataVars, kernelVars, appVars

\* To the next slot of a loop.
LEMMA NextSlotControl ==
  ASSUME Control, OnlyThread, NEW to \in LoopPcs, NextSlot(to), slot < MaxClients
  PROVE  Control'
<1>1. slot + 1 \in 0 .. MaxClients /\ to \in Pcs /\ to # "timStore"
  BY ConstantsOK DEF Control, ServerTypeOK, LoopPcs, Pcs, ConnectPcs, DataPcs, DisconnectPcs,
                     TimeoutPcs
<1> QED
  BY <1>1 DEF Control, ServerTypeOK, InRange, OnlyThread, NextSlot, dataVars, kernelVars, appVars

\* To the loop of the next event.
LEMMA ProcessControl ==
  ASSUME Control, OnlyThread, NEW evs \in SUBSET Work, Process(evs)
  PROVE  Control'
<1>1. pc' \in LoopPcs /\ pc' \in Pcs /\ pc' # "timStore"
  BY DEF Process, LoopPcs, Pcs, ConnectPcs, DataPcs, DisconnectPcs, TimeoutPcs
<1>2. 0 \in 0 .. MaxClients
  BY ConstantsOK
<1> QED
  BY <1>1, <1>2 DEF Control, ServerTypeOK, InRange, OnlyThread, Process, dataVars, kernelVars,
    appVars

\* Done forgets one event.
LEMMA DoneControl ==
  ASSUME Control, OnlyThread, NEW e, Done(e)
  PROVE  Control'
<1>1. pending \ {e} \in SUBSET Work
  BY DEF Control, ServerTypeOK
<1> QED
  BY <1>1, ProcessControl DEF Done

\* The walk over the slots ends and another one begins.
LEMMA RewindControl ==
  ASSUME Control, OnlyThread, NEW to \in LoopPcs, pc' = to, slot' = 0,
         UNCHANGED <<pending, resetRequest, register>>
  PROVE  Control'
<1>1. 0 \in 0 .. MaxClients /\ to \in Pcs /\ to # "timStore"
  BY ConstantsOK DEF LoopPcs, Pcs, ConnectPcs, DataPcs, DisconnectPcs, TimeoutPcs
<1> QED
  BY <1>1 DEF Control, ServerTypeOK, InRange, OnlyThread, dataVars, kernelVars, appVars

\* A loaded counter is a number.
LEMMA LoadControl ==
  ASSUME Control, NEW at \in Pcs \ LoopPcs, NEW to \in Pcs, to # "timStore", LoadCount(at, to)
  PROVE  Control'
  BY DEF Control, ServerTypeOK, InRange, LoadCount, ThreadRuns, Local, dataVars, kernelVars, appVars

\* So is a stored one.
LEMMA StoreControl ==
  ASSUME Control, NEW at \in Pcs \ LoopPcs, NEW to \in Pcs, to # "timStore",
         StoreDecremented(at, to)
  PROVE  Control'
<1>1. openConnections' \in Nat
  BY DEF Control, ServerTypeOK, StoreDecremented
<1> QED
  BY <1>1 DEF Control, ServerTypeOK, InRange, StoreDecremented, ThreadRuns, Goto, OnData,
    kernelVars, appVars

\* connection_end, and on with the next slot.
LEMMA EndControl ==
  ASSUME Control, NEW at \in Pcs \ LoopPcs, NEW to \in LoopPcs, ConnectionEnd(at, to)
  PROVE  Control'
<1>1. slot + 1 \in 0 .. MaxClients /\ to \in Pcs /\ to # "timStore"
  BY ConstantsOK DEF Control, ServerTypeOK, InRange, ConnectionEnd, ThreadRuns, LoopPcs, Pcs,
                     ConnectPcs, DataPcs, DisconnectPcs, TimeoutPcs
<1> QED
  BY <1>1 DEF Control, ServerTypeOK, InRange, ConnectionEnd, ThreadRuns, NextSlot, OnData,
    kernelVars, appVars

\* The relisten loops.
LEMMA RelistenControl ==
  ASSUME Control, NEW at \in LoopPcs, NEW e, RelistenLoop(at, e)
  PROVE  Control'
<1>1. OnlyThread /\ (Done(e) \/ (slot < MaxClients /\ NextSlot(at)))
  BY DEF RelistenLoop, OnSockets, OnlyThread
<1> QED
  BY <1>1, DoneControl, NextSlotControl

\* connect_process keeps its loop variable in range.
LEMMA ConnectControl == Control /\ ConnectProcess => Control'
<1> SUFFICES ASSUME Control, ConnectProcess PROVE Control'
  OBVIOUS
<1> USE ConstantsOK, ServerConstantsOK
    DEF LoopPcs, Pcs, ConnectPcs, DataPcs, DisconnectPcs, TimeoutPcs, ThreadRuns, Local,
        OnSockets, OnData
<1>1. CASE ConnectScan
  <2>1. OnlyThread
    BY <1>1 DEF ConnectScan, OnlyThread
  <2>2. \/ pc' = "conRelisten" /\ slot' = 0 /\ UNCHANGED <<pending, resetRequest, register>>
        \/ slot < MaxClients /\ Goto("conAccept")
        \/ slot < MaxClients /\ NextSlot("conScan")
    BY <1>1 DEF ConnectScan
  <2> QED
    BY <2>1, <2>2, RewindControl, GotoControl, NextSlotControl
<1>2. CASE ConnectAccept \/ ConnectSuspend \/ ConnectWait
  <2>1. OnlyThread
    BY <1>2 DEF ConnectAccept, ConnectSuspend, ConnectWait, OnlyThread
  <2>2. slot < MaxClients
    BY <1>2 DEF Control, InRange, ConnectAccept, ConnectSuspend, ConnectWait
  <2>3. \E to \in {"conArm", "conUnaccept", "conSuspend", "conWait"} : Goto(to)
    BY <1>2 DEF ConnectAccept, ConnectSuspend, ConnectWait
  <2> QED
    BY <2>1, <2>2, <2>3, GotoControl
<1>3. CASE ConnectUnaccept
  BY <1>3, NextSlotControl DEF ConnectUnaccept, OnlyThread, Control, InRange
<1>4. CASE ConnectArm \/ ConnectStore \/ ConnectNew
  <2>1. /\ slot < MaxClients /\ slot \in Slots
        /\ UNCHANGED <<slot, pending, resetRequest, register, kernelVars, appVars>>
        /\ pc' \in {"conLoad", "conNew", "conOptions"}
    BY <1>4 DEF ConnectArm, ConnectStore, ConnectNew, Control, ServerTypeOK, InRange, Goto, Slots
  <2>2. activityTimeout' \in [Slots -> 0 .. ActivityPeriods]
    <3>1. ActivityPeriods \in 0 .. ActivityPeriods
      OBVIOUS
    <3> QED
      BY <1>4, <3>1 DEF ConnectArm, ConnectStore, ConnectNew, Control, ServerTypeOK
  <2>3. openConnections' \in Nat
    BY <1>4 DEF ConnectArm, ConnectStore, ConnectNew, Control, ServerTypeOK
  <2>4. session' \in SUBSET Slots
    BY <1>4, <2>1 DEF ConnectArm, ConnectStore, ConnectNew, Control, ServerTypeOK
  <2> QED
    BY <2>1, <2>2, <2>3, <2>4 DEF Control, ServerTypeOK, InRange, kernelVars, appVars
<1>5. CASE LoadCount("conLoad", "conStore")
  BY <1>5, LoadControl
<1>6. CASE ConnectOptions
  <2>1. OnlyThread /\ slot < MaxClients /\ (NextSlot("conScan") \/ Done("CONNECT"))
    BY <1>6 DEF ConnectOptions, OnlyThread, Control, InRange
  <2> QED
    BY <2>1, NextSlotControl, DoneControl
<1>7. CASE RelistenLoop("conRelisten", "CONNECT")
  BY <1>7, RelistenControl
<1> QED
  BY <1>1, <1>2, <1>3, <1>4, <1>5, <1>6, <1>7 DEF ConnectProcess

\* data_process works on slots in range.
LEMMA DataControl == Control /\ DataProcess => Control'
<1> SUFFICES ASSUME Control, DataProcess PROVE Control'
  OBVIOUS
<1> USE ConstantsOK, ServerConstantsOK
    DEF LoopPcs, Pcs, ConnectPcs, DataPcs, DisconnectPcs, TimeoutPcs, ThreadRuns, Local,
        OnSockets, OnData
<1>1. CASE DataScan
  <2>1. OnlyThread
    BY <1>1 DEF DataScan, OnlyThread
  <2>2. \/ Done("DATA")
        \/ slot < MaxClients /\ Goto("datTouch")
        \/ slot < MaxClients /\ NextSlot("datScan")
    BY <1>1 DEF DataScan
  <2> QED
    BY <2>1, <2>2, DoneControl, GotoControl, NextSlotControl
<1>2. CASE DataTouch
  <2>1. activityTimeout' \in [Slots -> 0 .. ActivityPeriods]
    <3>1. ActivityPeriods \in 0 .. ActivityPeriods
      OBVIOUS
    <3> QED
      BY <1>2, <3>1 DEF DataTouch, Control, ServerTypeOK
  <2> QED
    BY <1>2, <2>1 DEF DataTouch, Control, ServerTypeOK, InRange, Goto, kernelVars, appVars
<1>3. CASE DataReceive
  <2>1. OnlyThread /\ slot < MaxClients
    BY <1>3 DEF DataReceive, OnlyThread, Control, InRange
  <2>2. Goto("datScan") \/ NextSlot("datScan")
    BY <1>3 DEF DataReceive
  <2> QED
    BY <2>1, <2>2, GotoControl, NextSlotControl
<1> QED
  BY <1>1, <1>2, <1>3 DEF DataProcess

\* disconnect_process likewise.
LEMMA DisconnectControl == Control /\ DisconnectProcess => Control'
<1> SUFFICES ASSUME Control, DisconnectProcess PROVE Control'
  OBVIOUS
<1> USE ConstantsOK, ServerConstantsOK
    DEF LoopPcs, Pcs, ConnectPcs, DataPcs, DisconnectPcs, TimeoutPcs, ThreadRuns, Local,
        OnSockets, OnData
<1>1. CASE DisconnectScan
  <2>1. OnlyThread
    BY <1>1 DEF DisconnectScan, OnlyThread
  <2>2. CASE pc' = "disRelisten" /\ slot' = 0 /\ UNCHANGED <<pending, resetRequest, register>>
    BY <2>1, <2>2, RewindControl
  <2>3. CASE slot < MaxClients /\ (Goto("disUnaccept") \/ NextSlot("disScan"))
    BY <2>1, <2>3, GotoControl, NextSlotControl
  <2>4. CASE /\ slot < MaxClients /\ pc' = "disWhile" /\ resetRequest' = FALSE
             /\ UNCHANGED <<slot, pending, register>>
    BY <2>1, <2>4 DEF OnlyThread, Control, ServerTypeOK, InRange, dataVars, kernelVars, appVars
  <2> QED
    BY <1>1, <2>2, <2>3, <2>4 DEF DisconnectScan
<1>2. CASE DisconnectWhile
  <2>1. OnlyThread /\ slot < MaxClients
    BY <1>2 DEF DisconnectWhile, OnlyThread, Control, InRange
  <2>2. Goto("disCall") \/ Goto("disUnaccept") \/ NextSlot("disScan")
    BY <1>2 DEF DisconnectWhile
  <2> QED
    BY <2>1, <2>2, GotoControl, NextSlotControl
<1>3. CASE DisconnectCall
  <2>1. /\ OnlyThread /\ slot < MaxClients /\ resetRequest' = TRUE
        /\ pc' \in {"disWait", "disWhile"} /\ UNCHANGED <<slot, pending, register>>
    BY <1>3 DEF DisconnectCall, OnlyThread, Control, InRange
  <2> QED
    BY <2>1 DEF OnlyThread, Control, ServerTypeOK, InRange, dataVars, kernelVars, appVars
<1>4. CASE DisconnectWait \/ DisconnectUnaccept
  <2>1. /\ OnlyThread /\ slot < MaxClients
        /\ Goto("disWhile") \/ Goto("disClear")
    BY <1>4 DEF DisconnectWait, DisconnectUnaccept, OnlyThread, Control, InRange
  <2> QED
    BY <2>1, GotoControl
<1>5. CASE DisconnectClear
  <2>1. activityTimeout' \in [Slots -> 0 .. ActivityPeriods]
    <3>1. 0 \in 0 .. ActivityPeriods
      OBVIOUS
    <3> QED
      BY <1>5, <3>1 DEF DisconnectClear, Control, ServerTypeOK
  <2> QED
    BY <1>5, <2>1 DEF DisconnectClear, Control, ServerTypeOK, InRange, Goto, kernelVars,
                   appVars
<1>6. CASE LoadCount("disLoad", "disStore")
  BY <1>6, LoadControl
<1>7. CASE StoreDecremented("disStore", "disEnd")
  BY <1>7, StoreControl
<1>8. CASE ConnectionEnd("disEnd", "disScan")
  BY <1>8, EndControl
<1>9. CASE RelistenLoop("disRelisten", "DISCONNECT")
  BY <1>9, RelistenControl
<1> QED
  BY <1>1, <1>2, <1>3, <1>4, <1>5, <1>6, <1>7, <1>8, <1>9 DEF DisconnectProcess

\* timeout_processing stores a period less than it loaded.
LEMMA TimeoutControl == Control /\ TimeoutProcess => Control'
<1> SUFFICES ASSUME Control, TimeoutProcess PROVE Control'
  OBVIOUS
<1> USE ConstantsOK, ServerConstantsOK
    DEF LoopPcs, Pcs, ConnectPcs, DataPcs, DisconnectPcs, TimeoutPcs, ThreadRuns, Local,
        OnSockets, OnData
<1>1. CASE TimeoutScan
  <2>1. OnlyThread
    BY <1>1 DEF TimeoutScan, OnlyThread
  <2>2. CASE Done("ACTIVITY_TIMEOUT")
    BY <2>1, <2>2, DoneControl
  <2>3. CASE slot < MaxClients /\ NextSlot("timScan")
    BY <2>1, <2>3, NextSlotControl
  <2>4. CASE /\ slot < MaxClients /\ activityTimeout[slot] > 0
             /\ pc' = "timStore" /\ register' = activityTimeout[slot] - 1
             /\ UNCHANGED <<slot, pending, resetRequest>>
    <3>1. activityTimeout[slot] \in 0 .. ActivityPeriods
      BY <2>4 DEF Control, ServerTypeOK, Slots
    <3>2. register' \in Nat /\ register' <= ActivityPeriods
      BY <2>4, <3>1
    <3> QED
      BY <2>1, <2>4, <3>2 DEF OnlyThread, Control, ServerTypeOK, InRange, dataVars, kernelVars,
        appVars
  <2> QED
    BY <1>1, <2>2, <2>3, <2>4 DEF TimeoutScan
<1>2. CASE TimeoutStore
  <2>1. slot < MaxClients /\ register \in 0 .. ActivityPeriods
    BY <1>2 DEF TimeoutStore, Control, ServerTypeOK, InRange
  <2>2. activityTimeout' \in [Slots -> 0 .. ActivityPeriods]
    BY <1>2, <2>1 DEF TimeoutStore, Control, ServerTypeOK
  <2>3. slot + 1 \in 0 .. MaxClients
    BY <2>1 DEF Control, ServerTypeOK
  <2> QED
    BY <1>2, <2>1, <2>2, <2>3
    DEF TimeoutStore, Control, ServerTypeOK, InRange, Goto, NextSlot, kernelVars, appVars
<1>3. CASE TimeoutDisconnect \/ TimeoutUnaccept \/ TimeoutRelisten
  <2>1. /\ OnlyThread /\ slot < MaxClients
        /\ \E to \in {"timUnaccept", "timRelisten", "timLoad"} : Goto(to)
    BY <1>3 DEF TimeoutDisconnect, TimeoutUnaccept, TimeoutRelisten, OnlyThread, Control, InRange
  <2> QED
    BY <2>1, GotoControl
<1>4. CASE LoadCount("timLoad", "timStoreCount")
  BY <1>4, LoadControl
<1>5. CASE StoreDecremented("timStoreCount", "timEnd")
  BY <1>5, StoreControl
<1>6. CASE ConnectionEnd("timEnd", "timScan")
  BY <1>6, EndControl
<1> QED
  BY <1>1, <1>2, <1>3, <1>4, <1>5, <1>6 DEF TimeoutProcess

\* The calls of the application walk over the sockets they have.
LEMMA ApplicationControl == Control /\ Application => Control'
<1> SUFFICES ASSUME Control, Application PROVE Control'
  OBVIOUS
<1> USE ConstantsOK, ServerConstantsOK DEF AppPcs, Slots, AppGoto, dataVars, kernelVars, threadVars
<1>1. CASE Start
  <2>1. /\ pc' \in {pc, "get"}
        /\ UNCHANGED <<objects, sockets, slot, pending, resetRequest, register, dataVars, appVars>>
        /\ timerActive' \in BOOLEAN
    BY <1>1 DEF Start
  <2> QED
    BY <2>1 DEF Control, ServerTypeOK, InRange, LoopPcs, Pcs, appVars
<1>2. CASE StopBegin \/ \E i \in Slots : AppDisconnect(i)
  <2>1. /\ appPc' \in {"stopDisconnect", "discCall"}
        /\ appSlot' \in Slots
        /\ appCalls < MaxAppCalls /\ appCalls' = appCalls + 1
        /\ timerActive' \in BOOLEAN /\ UNCHANGED <<objects, sockets, dataVars, threadVars>>
    <3>1. CASE StopBegin
      BY <3>1, FirstSlot DEF StopBegin, AppCall
    <3>2. CASE \E i \in Slots : AppDisconnect(i)
      BY <3>2 DEF AppDisconnect, AppCall, Control, ServerTypeOK, kernelVars
    <3> QED
      BY <1>2, <3>1, <3>2
  <2>2. appCalls' \in 0 .. MaxAppCalls
    BY <2>1 DEF Control, ServerTypeOK
  <2> QED
    BY <2>1, <2>2 DEF Control, ServerTypeOK, InRange
<1>3. CASE \/ StopDisconnect \/ AppDisconnectCall \/ AppDisconnectWait \/ AppDisconnectUnaccept
           \/ DeleteDisconnect \/ DeleteUnaccept
  <2>1. /\ appPc' \in {"stopUnaccept", "discWait", "discUnaccept", "discFinish", "delUnaccept",
                      "delSocket"}
        /\ UNCHANGED <<appSlot, appCalls, dataVars, kernelVars, threadVars>>
        /\ appSlot < MaxClients
    BY <1>3 DEF StopDisconnect, AppDisconnectCall, AppDisconnectWait, AppDisconnectUnaccept,
                DeleteDisconnect, DeleteUnaccept, Control, InRange
  <2> QED
    BY <2>1 DEF Control, ServerTypeOK, InRange
<1>4. CASE StopUnaccept
  <2>1. /\ \/ appSlot + 1 < MaxClients /\ appPc' = "stopDisconnect" /\ appSlot' = appSlot + 1
           \/ appPc' = "stopUnlisten" /\ appSlot' = 0
        /\ UNCHANGED <<appCalls, openConnections, session, kernelVars, threadVars>>
    BY <1>4 DEF StopUnaccept
  <2>2. appSlot' \in 0 .. MaxClients
    BY <2>1 DEF Control, ServerTypeOK
  <2>3. activityTimeout' \in [Slots -> 0 .. ActivityPeriods]
    <3>1. 0 \in 0 .. ActivityPeriods
      OBVIOUS
    <3> QED
      BY <1>4, <3>1 DEF StopUnaccept, Control, ServerTypeOK
  <2> QED
    BY <2>1, <2>2, <2>3 DEF Control, ServerTypeOK, InRange
<1>5. CASE AppDisconnectFinish
  <2>1. /\ appPc' = "discRelisten" /\ appSlot' = 0
        /\ session' = session \ {appSlot}
        /\ UNCHANGED <<appCalls, kernelVars, threadVars>>
    BY <1>5 DEF AppDisconnectFinish
  <2>2. openConnections' \in Nat
    BY <1>5 DEF AppDisconnectFinish, Control, ServerTypeOK
  <2>3. activityTimeout' \in [Slots -> 0 .. ActivityPeriods]
    <3>1. 0 \in 0 .. ActivityPeriods
      OBVIOUS
    <3> QED
      BY <1>5, <3>1 DEF AppDisconnectFinish, Control, ServerTypeOK
  <2> QED
    BY <2>1, <2>2, <2>3 DEF Control, ServerTypeOK, InRange
<1>6. CASE StopUnlisten \/ DeleteUnlisten \/ AppDisconnectRelisten
  <2>1. /\ \/ appPc' = "idle" /\ appSlot' = 0
           \/ appSlot < MaxClients /\ appPc' = "discRelisten" /\ appSlot' = appSlot + 1
        /\ UNCHANGED <<appCalls, dataVars, kernelVars, threadVars>>
    BY <1>6 DEF StopUnlisten, DeleteUnlisten, AppDisconnectRelisten
  <2>2. appSlot' \in 0 .. MaxClients
    BY <2>1 DEF Control, ServerTypeOK
  <2> QED
    BY <2>1, <2>2 DEF Control, ServerTypeOK, InRange
<1>7. CASE DeleteSocket
  <2>1. /\ \/ appSlot + 1 < MaxClients /\ appPc' = "delDisconnect" /\ appSlot' = appSlot + 1
           \/ appPc' = "delUnlisten" /\ appSlot' = 0
        /\ sockets' \in SUBSET Slots
        /\ UNCHANGED <<appCalls, dataVars, timerActive, objects, threadVars>>
    BY <1>7 DEF DeleteSocket, Control, ServerTypeOK
  <2>2. appSlot' \in 0 .. MaxClients
    BY <2>1 DEF Control, ServerTypeOK
  <2> QED
    BY <2>1, <2>2 DEF Control, ServerTypeOK, InRange
<1>8. CASE DeleteBegin
  <2>1. /\ appPc' = "delDisconnect" /\ appSlot' = 0 /\ appCalls' = appCalls + 1
        /\ pc' = "none" /\ slot' = 0 /\ pending' = {} /\ resetRequest' = FALSE /\ register' = 0
        /\ objects' = {} /\ timerActive' = FALSE /\ appCalls < MaxAppCalls
        /\ UNCHANGED <<dataVars, sockets>>
    BY <1>8 DEF DeleteBegin, AppCall, TerminateThread
  <2>2. appCalls' \in 0 .. MaxAppCalls
    BY <2>1 DEF Control, ServerTypeOK
  <2> QED
    <3>1. 0 \in 0 .. MaxClients /\ 0 \in Nat
      OBVIOUS
    <3>2. ServerTypeOK'
      BY <2>1, <2>2, <3>1 DEF Control, ServerTypeOK, Pcs
    <3>3. InRange'
      BY <2>1 DEF InRange, LoopPcs
    <3> QED
      BY <3>2, <3>3 DEF Control
<1>9. CASE Create
  <2>1. CASE CreateFails
    <3>1. objects' \in SUBSET Objects
      BY <2>1 DEF CreateFails, Undone, Objects
    <3> QED
      BY <2>1, <3>1 DEF CreateFails, Control, ServerTypeOK, InRange, appVars
  <2>2. CASE CreateSucceeds
    <3>1. 0 \in 0 .. ActivityPeriods
      OBVIOUS
    <3> QED
      BY <2>2, <3>1 DEF CreateSucceeds, Control, ServerTypeOK, InRange, LoopPcs, Pcs, appVars
  <2> QED
    BY <1>9, <2>1, <2>2 DEF Create
<1> QED
  BY <1>1, <1>2, <1>3, <1>4, <1>5, <1>6, <1>7, <1>8, <1>9 DEF Application, AppContinues

\* Every step keeps the threads in range.
LEMMA ControlInductive == Control /\ NetInv /\ [Next]_vars => Control'
<1> SUFFICES ASSUME Control, NetInv, [Next]_vars PROVE Control'
  OBVIOUS
<1>1. CASE GetEvents
  <2>1. OnlyThread
    BY <1>1 DEF GetEvents, OnlyThread
  <2>2. CASE Goto("suspend")
    BY <2>1, <2>2, GotoControl DEF LoopPcs, Pcs
  <2>3. CASE Process(events) /\ "STOP" \notin events
    <3>1. events \in SUBSET Work
      BY <2>3 DEF NetInv, NetTypeOK, Work, Events
    <3> QED
      BY <2>1, <2>3, <3>1, ProcessControl
  <2> QED
    BY <1>1, <2>2, <2>3 DEF GetEvents
<1>2. CASE SuspendSelf
  BY <1>2, GotoControl DEF SuspendSelf, OnlyThread, LoopPcs, Pcs
<1>3. CASE ConnectProcess \/ DataProcess \/ DisconnectProcess \/ TimeoutProcess
  BY <1>3, ConnectControl, DataControl, DisconnectControl, TimeoutControl
<1>4. CASE Application
  BY <1>4, ApplicationControl
<1>5. CASE TimerExpires \/ NetworkStep \/ UNCHANGED vars
  BY <1>5 DEF TimerExpires, NetworkStep, vars, Control, ServerTypeOK, InRange, dataVars,
              kernelVars, threadVars, appVars
<1> QED
  BY <1>1, <1>2, <1>3, <1>4, <1>5 DEF Next, ServerThread

-----------------------------------------------------------------------------
(* The kernel objects and the sockets that exist.                          *)

\* The places of delete, and of a call that needs a server.
DeletePcs == {"delDisconnect", "delUnaccept", "delSocket", "delUnlisten"}
CallPcs == AppPcs \ (DeletePcs \cup {"idle"})

\* Whoever uses a socket has a server that is ready, and a ready server has all
\* its sockets; what is deleted is not used.
Existing ==
  /\ pc # "none" => Ready
  /\ appPc \in CallPcs => Ready
  /\ appPc \in DeletePcs => ~Ready
  /\ Ready => sockets = Slots
  /\ DeletedUnused

\* While there is a server every socket exists: nothing can use a deleted one.
LEMMA ReadyExisting ==
  ASSUME Existing, Ready, UNCHANGED <<objects, sockets>>, appPc' \notin DeletePcs
  PROVE  Existing'
  BY DEF Existing, Ready, DeletedUnused

\* Between two calls, or in delete: a step that binds no deleted socket and puts
\* none into the listen request.
LEMMA UnusedKept ==
  ASSUME Existing, ~Ready, UNCHANGED <<objects, sockets>>, pc' = pc, appPc' \notin CallPcs,
         \A i \in Slots : bound'[i] => bound[i] \/ listenSocket = i,
         listenSocket' \in {listenSocket, None}
  PROVE  Existing'
<1>1. ASSUME NEW i \in Slots \ sockets PROVE ~bound'[i] /\ listenSocket' # i
  <2>1. ~bound[i] /\ listenSocket # i
    BY DEF Existing, DeletedUnused
  <2> QED
    BY <2>1, ConstantsOK DEF Slots
<1> QED
  BY <1>1 DEF Existing, Ready, DeletedUnused

\* Every sequence of creates, calls and deletes keeps it.
LEMMA ExistingInductive == Control /\ NetInv /\ Existing /\ [Next]_vars => Existing'
<1> SUFFICES ASSUME Control, NetInv, Existing, [Next]_vars PROVE Existing'
  OBVIOUS
<1>1. CASE ServerThread
  <2>1. pc # "none" /\ UNCHANGED <<objects, sockets>> /\ appPc' = appPc
    BY <1>1 DEF ServerThread, GetEvents, SuspendSelf, ConnectProcess, ConnectScan, ConnectAccept,
                ConnectSuspend, ConnectWait, ConnectUnaccept, ConnectArm, LoadCount,
                ConnectStore, ConnectNew, ConnectOptions, RelistenLoop, DataProcess, DataScan,
                DataTouch, DataReceive, DisconnectProcess, DisconnectScan, DisconnectWhile,
                DisconnectCall, DisconnectWait, DisconnectUnaccept, DisconnectClear,
                StoreDecremented, ConnectionEnd, TimeoutProcess, TimeoutScan, TimeoutStore,
                TimeoutDisconnect, TimeoutUnaccept, TimeoutRelisten, ThreadRuns, Local,
                OnSockets, OnData, kernelVars, appVars
  <2> QED
    BY <2>1, ReadyExisting DEF Existing
<1>2. CASE NetworkStep \/ TimerExpires \/ UNCHANGED vars
  <2>1. UNCHANGED <<objects, sockets>> /\ pc' = pc /\ appPc' = appPc
    BY <1>2 DEF NetworkStep, TimerExpires, vars, kernelVars, threadVars, appVars
  <2>2. CASE Ready
    BY <2>1, <2>2, ReadyExisting DEF Existing
  <2>3. CASE ~Ready
    <3>1. \A i \in Slots : bound'[i] => bound[i] \/ listenSocket = i
      BY <1>2 DEF NetworkStep, Network, PeerSegment, NetTimer, SynArrives, QueuedSynReset,
                  HandshakeAck, DataArrives, LastAck, ConnectionReset, CloseSegment,
                  TimedWaitExpires, AcceptTimesOut, DisconnectTimesOut, TimerExpires, vars,
                  netVars, socketVars, listenVars, NetInv, NetTypeOK
    <3>2. listenSocket' \in {listenSocket, None}
      BY <1>2 DEF NetworkStep, Network, PeerSegment, NetTimer, SynArrives, QueuedSynReset,
                  HandshakeAck, DataArrives, LastAck, ConnectionReset, CloseSegment,
                  TimedWaitExpires, AcceptTimesOut, DisconnectTimesOut, TimerExpires, vars,
                  netVars, socketVars, listenVars
    <3> QED
      BY <2>1, <2>3, <3>1, <3>2, UnusedKept DEF Existing
  <2> QED
    BY <2>2, <2>3
<1>3. CASE \/ Start \/ StopBegin \/ (\E i \in Slots : AppDisconnect(i))
           \/ StopDisconnect \/ StopUnaccept \/ StopUnlisten
           \/ AppDisconnectCall \/ AppDisconnectWait \/ AppDisconnectUnaccept
           \/ AppDisconnectFinish \/ AppDisconnectRelisten
  <2>1. UNCHANGED <<objects, sockets>>
    BY <1>3 DEF Start, StopBegin, AppDisconnect, StopDisconnect, StopUnaccept, StopUnlisten,
                AppDisconnectCall, AppDisconnectWait, AppDisconnectUnaccept,
                AppDisconnectFinish, AppDisconnectRelisten, kernelVars
  <2>2. Ready
    BY <1>3 DEF Start, StopBegin, AppDisconnect, AppCall, StopDisconnect, StopUnaccept,
                StopUnlisten, AppDisconnectCall, AppDisconnectWait, AppDisconnectUnaccept,
                AppDisconnectFinish, AppDisconnectRelisten, Existing, CallPcs, DeletePcs, AppPcs
  <2>3. appPc' \notin DeletePcs
    BY <1>3 DEF Start, StopBegin, AppDisconnect, AppCall, StopDisconnect, StopUnaccept,
                StopUnlisten, AppDisconnectCall, AppDisconnectWait, AppDisconnectUnaccept,
                AppDisconnectFinish, AppDisconnectRelisten, AppGoto, DeletePcs, appVars
  <2> QED
    BY <2>1, <2>2, <2>3, ReadyExisting
<1>4. CASE DeleteBegin
  <2>1. /\ sockets = Slots /\ UNCHANGED sockets /\ objects' = {} /\ pc' = "none"
        /\ appPc' = "delDisconnect"
    BY <1>4 DEF DeleteBegin, AppCall, TerminateThread, Existing
  <2> QED
    BY <2>1 DEF Existing, DeletedUnused, Ready, Objects, CallPcs, DeletePcs
<1>5. CASE DeleteDisconnect \/ DeleteUnaccept \/ DeleteUnlisten
  <2>1. /\ UNCHANGED <<objects, sockets>> /\ pc' = pc
        /\ appPc' \in {"delUnaccept", "delSocket", "idle"}
    BY <1>5 DEF DeleteDisconnect, DeleteUnaccept, DeleteUnlisten, AppGoto, kernelVars, threadVars
  <2>2. ~Ready
    BY <1>5 DEF DeleteDisconnect, DeleteUnaccept, DeleteUnlisten, Existing, DeletePcs
  <2>3. \A i \in Slots : bound'[i] => bound[i] \/ listenSocket = i
    BY <1>5 DEF DeleteDisconnect, DeleteUnaccept, DeleteUnlisten, Disconnect, Unaccept,
                Unlisten, socketVars, NetInv, NetTypeOK
  <2>4. listenSocket' \in {listenSocket, None}
    BY <1>5 DEF DeleteDisconnect, DeleteUnaccept, DeleteUnlisten, Disconnect, Unaccept,
                Unlisten, listenVars, socketVars
  <2> QED
    BY <2>1, <2>2, <2>3, <2>4, UnusedKept DEF CallPcs, DeletePcs
<1>6. CASE DeleteSocket
  \* the socket that goes is closed and not bound, and a listening one is not closed
  <2>1. /\ UNCHANGED <<netVars, objects>> /\ pc' = pc /\ appPc' \in {"delDisconnect", "delUnlisten"}
        /\ appSlot \in Slots
        /\ sockets' = IF SocketDeletes(appSlot) THEN sockets \ {appSlot} ELSE sockets
    BY <1>6, ConstantsOK
    DEF DeleteSocket, AppGoto, threadVars, Control, ServerTypeOK, InRange, Slots
  <2>2. SocketDeletes(appSlot) => ~bound[appSlot] /\ listenSocket # appSlot
    BY <2>1, ConstantsOK DEF SocketDeletes, NetInv, ListenerSound, Slots
  <2>3. DeletedUnused'
    BY <2>1, <2>2 DEF Existing, DeletedUnused, netVars, socketVars, listenVars
  <2>4. ~Ready
    BY <1>6 DEF DeleteSocket, Existing, DeletePcs
  <2> QED
    BY <2>1, <2>3, <2>4 DEF Existing, Ready, CallPcs, DeletePcs
<1>7. CASE Create
  <2>1. sockets = {} /\ objects = {} /\ appPc = "idle" /\ UNCHANGED appPc
    BY <1>7 DEF Create, CreateFails, CreateSucceeds, appVars
  <2>2. CASE CreateFails
    <3>1. /\ UNCHANGED <<netVars, sockets, pc>> /\ pc = "none"
          /\ objects' \in {{}, {"thread"}}
      BY <2>1, <2>2 DEF CreateFails, Undone, threadVars, Existing, Ready, Objects
    <3> QED
      BY <2>1, <3>1 DEF Existing, DeletedUnused, Ready, Objects, CallPcs, DeletePcs, netVars,
                          socketVars, listenVars
  <2>3. CASE CreateSucceeds
    BY <2>1, <2>3 DEF CreateSucceeds, Existing, DeletedUnused, Ready, CallPcs, DeletePcs
  <2> QED
    BY <1>7, <2>2, <2>3 DEF Create
<1> QED
  BY <1>1, <1>2, <1>3, <1>4, <1>5, <1>6, <1>7 DEF Next, Application, AppContinues

-----------------------------------------------------------------------------
(* The sockets.                                                            *)

\* A step that leaves NetX alone.
LEMMA OffSockets ==
  ASSUME NetInv, UNCHANGED netVars
  PROVE  NetInv'
  BY NetUnchanged DEF NetInv, NetTypeOK, netVars

\* The server thread calls NetX with its slot, which is one it has.
LEMMA ThreadSockets ==
  ASSUME Control, NetInv, ServerThread
  PROVE  NetInv'
<1>0. pc \notin LoopPcs \/ slot < MaxClients => slot \in Slots
  BY ConstantsOK DEF Control, ServerTypeOK, InRange, Slots
<1>1. CASE GetEvents
  BY <1>1, NetUnchanged DEF GetEvents
<1>2. CASE \/ ConnectScan \/ ConnectAccept \/ ConnectArm \/ LoadCount("conLoad", "conStore")
           \/ ConnectStore \/ ConnectNew \/ ConnectOptions \/ SuspendSelf
  BY <1>2, OffSockets DEF ConnectScan, ConnectAccept, ConnectArm, LoadCount, ConnectStore,
                          ConnectNew, ConnectOptions, SuspendSelf, Local, OnData
<1>3. CASE ConnectSuspend
  BY <1>0, <1>3, AcceptSuspendsPreserves DEF ConnectSuspend, ThreadRuns, LoopPcs
<1>4. CASE ConnectWait
  BY <1>0, <1>4, AcceptGivenUpPreserves, OffSockets DEF ConnectWait, ThreadRuns, LoopPcs
<1>5. CASE ConnectUnaccept \/ DisconnectUnaccept \/ TimeoutUnaccept
  BY <1>0, <1>5, UnacceptPreserves
  DEF ConnectUnaccept, DisconnectUnaccept, TimeoutUnaccept, ThreadRuns, LoopPcs
<1>6. CASE RelistenLoop("conRelisten", "CONNECT") \/ RelistenLoop("disRelisten", "DISCONNECT")
  BY <1>0, <1>6, RelistenPreserves, OffSockets DEF RelistenLoop
<1>7. CASE DataProcess
  BY <1>0, <1>7, ReceivePreserves, OffSockets
  DEF DataProcess, DataScan, DataTouch, DataReceive, ThreadRuns, LoopPcs, Local, OnData
<1>8. CASE \/ DisconnectScan \/ DisconnectWhile \/ DisconnectClear
           \/ LoadCount("disLoad", "disStore") \/ StoreDecremented("disStore", "disEnd")
           \/ ConnectionEnd("disEnd", "disScan")
  BY <1>8, OffSockets DEF DisconnectScan, DisconnectWhile, DisconnectClear, LoadCount,
                          StoreDecremented, ConnectionEnd, Local, OnData
<1>9. CASE DisconnectCall \/ TimeoutDisconnect
  BY <1>0, <1>9, DisconnectPreserves
  DEF DisconnectCall, TimeoutDisconnect, ThreadRuns, LoopPcs, Threads
<1>10. CASE DisconnectWait
  BY <1>0, <1>10, DisconnectResumedPreserves DEF DisconnectWait, ThreadRuns, LoopPcs
<1>11. CASE \/ TimeoutScan \/ TimeoutStore \/ LoadCount("timLoad", "timStoreCount")
            \/ StoreDecremented("timStoreCount", "timEnd") \/ ConnectionEnd("timEnd", "timScan")
  BY <1>11, OffSockets DEF TimeoutScan, TimeoutStore, LoadCount, StoreDecremented,
                           ConnectionEnd, Local, OnData
<1>12. CASE TimeoutRelisten
  BY <1>0, <1>12, RelistenPreserves, OffSockets DEF TimeoutRelisten, ThreadRuns, LoopPcs
<1> QED
  BY <1>1, <1>2, <1>3, <1>4, <1>5, <1>6, <1>7, <1>8, <1>9, <1>10, <1>11, <1>12
  DEF ServerThread, ConnectProcess, DisconnectProcess, TimeoutProcess

\* A terminated thread leaves no wait behind.
LEMMA TerminatePreserves ==
  ASSUME NetInv, TerminateThread, events' \in SUBSET Events,
         UNCHANGED <<connectPort, bound, clientType, rxCount, listenVars>>
  PROVE  NetInv'
<1>1. NetTypeOK'
  BY DEF NetInv, NetTypeOK, TerminateThread, RestState, TcpStates, listenVars
<1>2. PeersReleased /\ ListenerKept
  BY DEF NetInv, NetTypeOK, ListenerSound, PeersReleased, ListenerKept, TerminateThread,
         RestState, listenVars
<1> QED
  BY <1>1, <1>2, QuietStep

\* New sockets face no peer.
LEMMA CreatedPreserves ==
  ASSUME NetInv, SocketsCreated, listenSocket = None
  PROVE  NetInv'
<1>0. 0 \in 0 .. MaxRx
  BY ConstantsOK
<1>1. NetTypeOK'
  BY <1>0 DEF NetInv, NetTypeOK, SocketsCreated, TcpStates, Events, listenVars, waitVars
<1>2. ListenerSound'
  BY DEF SocketsCreated, ListenerSound, listenVars
<1>3. OneSocketPerPeer'
  BY DEF NetInv, SocketsCreated, OneSocketPerPeer, Matched, listenVars
<1> QED
  BY <1>1, <1>2, <1>3 DEF NetInv

\* So does the application.
LEMMA ApplicationSockets ==
  ASSUME Control, NetInv, Existing, Application
  PROVE  NetInv'
<1>0. appPc \notin {"idle", "discRelisten", "stopUnlisten", "delUnlisten"} \/ appSlot < MaxClients
        => appSlot \in Slots
  BY ConstantsOK DEF Control, ServerTypeOK, InRange, Slots
<1>1. CASE Start
  <2>1. events' \in SUBSET Events
    BY <1>1 DEF Start, NetInv, NetTypeOK
  <2> QED
    BY <1>1, <2>1, FirstSlot, ListenPreserves DEF Start
<1>2. CASE StopBegin
  BY <1>2, NetUnchanged DEF StopBegin, Signal, Events, NetInv, NetTypeOK
<1>3. CASE (\E i \in Slots : AppDisconnect(i)) \/ AppDisconnectFinish
  BY <1>3, OffSockets DEF AppDisconnect, AppDisconnectFinish
<1>4. CASE StopDisconnect \/ AppDisconnectCall \/ DeleteDisconnect
  BY <1>0, <1>4, DisconnectPreserves
  DEF StopDisconnect, AppDisconnectCall, DeleteDisconnect, Threads
<1>5. CASE StopUnaccept \/ AppDisconnectUnaccept \/ DeleteUnaccept
  BY <1>0, <1>5, UnacceptPreserves DEF StopUnaccept, AppDisconnectUnaccept, DeleteUnaccept
<1>6. CASE StopUnlisten \/ DeleteUnlisten
  BY <1>6, UnlistenPreserves DEF StopUnlisten, DeleteUnlisten
<1>7. CASE AppDisconnectWait
  BY <1>0, <1>7, DisconnectResumedPreserves DEF AppDisconnectWait
<1>8. CASE AppDisconnectRelisten
  BY <1>0, <1>8, RelistenPreserves, OffSockets DEF AppDisconnectRelisten
<1>9. CASE DeleteSocket \/ CreateFails
  BY <1>9, OffSockets DEF DeleteSocket, CreateFails
<1>10. CASE DeleteBegin
  BY <1>10, TerminatePreserves DEF DeleteBegin
<1>11. CASE Create /\ CreateSucceeds
  <2>1. listenSocket = None
    BY <1>11 DEF Create, Existing, DeletedUnused, NetInv, NetTypeOK
  <2> QED
    BY <1>11, <2>1, CreatedPreserves DEF CreateSucceeds
<1> QED
  BY <1>1, <1>2, <1>3, <1>4, <1>5, <1>6, <1>7, <1>8, <1>9, <1>10, <1>11
  DEF Application, AppContinues, Create

\* Every step keeps the sockets as they should be.
LEMMA SocketsInductive == Control /\ NetInv /\ Existing /\ [Next]_vars => NetInv'
<1> SUFFICES ASSUME Control, NetInv, Existing, [Next]_vars PROVE NetInv'
  OBVIOUS
<1>1. CASE TimerExpires
  BY <1>1, NetUnchanged DEF TimerExpires, Signal, Events, NetInv, NetTypeOK
<1>2. CASE NetworkStep
  BY <1>2, NetworkPreserves DEF NetworkStep
<1>3. CASE UNCHANGED vars
  BY <1>3, OffSockets DEF vars
<1> QED
  BY <1>1, <1>2, <1>3, ThreadSockets, ApplicationSockets DEF Next

\* No server exists yet.
LEMMA Initial == Init => Control /\ NetInv /\ Existing
<1> SUFFICES ASSUME Init PROVE Control /\ NetInv /\ Existing
  OBVIOUS
<1>1. NetInv
  BY NetInitial DEF Init
<1>2. 0 \in 0 .. ActivityPeriods /\ 0 \in 0 .. MaxClients /\ 0 \in 0 .. MaxAppCalls
  BY ConstantsOK, ServerConstantsOK
<1>3. Control
  BY <1>2 DEF Init, Control, ServerTypeOK, InRange, LoopPcs, Pcs, AppPcs
<1>4. DeletedUnused
  BY ConstantsOK DEF Init, NetInit, DeletedUnused, Slots
<1>5. Existing
  BY <1>4 DEF Init, Existing, Ready, Objects, CallPcs, DeletePcs
<1> QED
  BY <1>1, <1>3, <1>5

\* The invariant of the specification from which the theorems follow.
LEMMA Invariant == Spec => [](Control /\ NetInv /\ Existing)
  BY Initial, ControlInductive, ExistingInductive, SocketsInductive, PTL DEF Spec

-----------------------------------------------------------------------------
\* Every variable keeps its type: the loops of the server thread and of the
\* calls stay within the sockets, however the two are interleaved.
THEOREM TypeCorrect == Spec => []TypeOK
<1>1. Control /\ NetInv /\ Existing => TypeOK
  BY DEF Control, NetInv, TypeOK
<1> QED
  BY <1>1, Invariant, PTL

\* The listen request never names a socket that cannot take a SYN, whatever
\* start, stop, disconnect, the timeouts and the peers do to the socket.
THEOREM ListenRequestSound == Spec => []ListenerSound
<1>1. Control /\ NetInv /\ Existing => ListenerSound
  BY DEF NetInv
<1> QED
  BY <1>1, Invariant, PTL

\* No client holds two sockets, or a socket and a place in the listen queue.
THEOREM PeersServedOnce == Spec => []OneSocketPerPeer
<1>1. Control /\ NetInv /\ Existing => OneSocketPerPeer
  BY DEF NetInv
<1> QED
  BY <1>1, Invariant, PTL

\* delete never frees a socket that a client, or the listen request, still
\* refers to, and create never starts from one.
THEOREM DeletedSocketsUnused == Spec => []DeletedUnused
<1>1. Control /\ NetInv /\ Existing => DeletedUnused
  BY DEF Existing
<1> QED
  BY <1>1, Invariant, PTL
=============================================================================
