------------------------- MODULE TelnetSessionsProofs -------------------------
(***************************************************************************)
(* What holds of the ledger and of the sessions that follow it, for every  *)
(* finite set of connections, every number of sessions, packets, clients   *)
(* and lines.                                                              *)
(***************************************************************************)
EXTENDS TelnetSessions, FiniteSetTheorems, SequenceTheorems, WellFoundedInduction, TLAPS

-----------------------------------------------------------------------------
(* The ledger.                                                             *)

\* A change under way concerns a connection on its old side: an opened one is
\* not open yet, a closed one still is.
Orderly ==
  \A c \in Connections : /\ change = <<"opened", c>> => c \notin open
                         /\ change = <<"closed", c>> => c \in open

LedgerInv == LedgerTypeOK /\ Orderly /\ Balanced

\* The set that is counted is finite, so its cardinality is a number.
LEMMA CountedIsFinite ==
  ASSUME open \in SUBSET Connections
  PROVE  IsFiniteSet(Counted) /\ Cardinality(Counted) \in Nat
<1>1. Counted \subseteq Connections
  BY DEF Counted
<1>2. IsFiniteSet(Counted)
  BY <1>1, FS_Subset, LedgerConstantsOK
<1> QED
  BY <1>2, FS_CardinalityType

\* Init establishes the invariant: nothing is open and nothing counted.
LEMMA LedgerInitial == Init => LedgerInv
<1> SUFFICES ASSUME Init PROVE LedgerInv
  OBVIOUS
<1>1. \A c \in Connections : change # <<"opened", c>> /\ change # <<"closed", c>>
  BY LedgerConstantsOK DEF Init
<1>2. Counted = {}
  BY <1>1 DEF Init, Counted
<1>3. Balanced
  BY <1>2, FS_EmptySet DEF Init, Balanced
<1> QED
  BY <1>1, <1>3 DEF Init, LedgerInv, LedgerTypeOK, Orderly

\* Each action changes the set that is counted by the connection it counts.
LEMMA LedgerInductive == LedgerInv /\ [Next]_vars => LedgerInv'
<1> SUFFICES ASSUME LedgerInv, [Next]_vars PROVE LedgerInv'
  OBVIOUS
<1> USE DEF LedgerInv
<1>0. IsFiniteSet(Counted) /\ Cardinality(Counted) \in Nat
  BY CountedIsFinite DEF LedgerTypeOK
<1>none. \A c \in Connections : None # <<"opened", c>> /\ None # <<"closed", c>>
  BY LedgerConstantsOK
<1>1. ASSUME NEW c \in Connections, CountOpened(c) PROVE LedgerInv'
  <2>1. c \notin Counted /\ Counted' = Counted \cup {c}
    BY <1>1, <1>none DEF CountOpened, Counted, LedgerTypeOK
  <2>2. Cardinality(Counted') = Cardinality(Counted) + 1
    BY <2>1, <1>0, FS_AddElement
  <2>3. Balanced'
    BY <1>1, <2>2 DEF CountOpened, Balanced
  <2>4. LedgerTypeOK' /\ Orderly'
    BY <1>1 DEF CountOpened, LedgerTypeOK, Orderly
  <2> QED
    BY <2>3, <2>4
<1>2. ASSUME NEW c \in Connections, NewConnection(c) PROVE LedgerInv'
  <2>1. Counted' = Counted
    BY <1>2, <1>none DEF NewConnection, Counted, LedgerTypeOK
  <2>2. Balanced'
    BY <1>2, <2>1 DEF NewConnection, Balanced
  <2>3. LedgerTypeOK' /\ Orderly'
    BY <1>2, <1>none DEF NewConnection, LedgerTypeOK, Orderly
  <2> QED
    BY <2>2, <2>3
<1>3. ASSUME NEW c \in Connections, CountClosed(c) PROVE LedgerInv'
  <2>1. c \in Counted /\ Counted' = Counted \ {c}
    BY <1>3, <1>none DEF CountClosed, Counted, LedgerTypeOK
  <2>2. Cardinality(Counted') = Cardinality(Counted) - 1 /\ Cardinality(Counted') \in Nat
    BY <2>1, <1>0, FS_RemoveElement, FS_CardinalityType
  <2>3. Balanced'
    BY <1>3, <2>2 DEF CountClosed, Balanced
  <2>4. LedgerTypeOK' /\ Orderly'
    BY <1>3, <2>2, <2>3 DEF CountClosed, LedgerTypeOK, Orderly, Balanced
  <2> QED
    BY <2>3, <2>4
<1>4. ASSUME NEW c \in Connections, ConnectionEnd(c) PROVE LedgerInv'
  <2>1. Counted' = Counted
    BY <1>4, <1>none DEF ConnectionEnd, Counted, LedgerTypeOK
  <2>2. Balanced'
    BY <1>4, <2>1 DEF ConnectionEnd, Balanced
  <2>3. LedgerTypeOK' /\ Orderly'
    BY <1>4, <1>none DEF ConnectionEnd, LedgerTypeOK, Orderly
  <2> QED
    BY <2>2, <2>3
<1>5. CASE UNCHANGED vars
  BY <1>5 DEF vars, LedgerTypeOK, Orderly, Balanced, Counted
<1> QED
  BY <1>1, <1>2, <1>3, <1>4, <1>5 DEF Next

\* The number of open connections the server reports is that of the
\* connections it has counted in and not counted out.
THEOREM LedgerBalanced == Spec => []Balanced
<1>1. LedgerInv => Balanced
  BY DEF LedgerInv
<1> QED
  BY <1>1, LedgerInitial, LedgerInductive, PTL DEF Spec

-----------------------------------------------------------------------------
(* The sessions.                                                           *)

\* The part of the types the proofs need.
Record == [of : Nat, tx : Seq(Nat \X Nat), written : Nat, rx : {0, 1}, lines : Nat]

Shape ==
  /\ client \in [Connections -> Nat]
  /\ alive \subseteq Connections
  /\ session \in [Connections -> Record \cup {None}]
  /\ size \in Nat

\* A setup() that sleeps keeps its session: no callback runs meanwhile.
SetupHasSession == setup # None => setup \in HasSession

SessionsInv == Shape /\ SetupHasSession /\ SessionsFollow

-----------------------------------------------------------------------------
\* One more output in a session leaves a session of the same client.
LEMMA WrittenSession ==
  ASSUME NEW s \in Record
  PROVE  Written(s) \in Record /\ Written(s).of = s.of
<1>1. <<s.of, s.written + 1>> \in Nat \X Nat
  BY DEF Record
<1>2. Append(s.tx, <<s.of, s.written + 1>>) \in Seq(Nat \X Nat)
  BY <1>1 DEF Record
<1>3. s.written + 1 \in Nat
  BY DEF Record
<1>4. QED
  BY <1>2, <1>3 DEF Written, Record

\* Removing what was sent leaves a session of the same client.
LEMMA RemovedSession ==
  ASSUME NEW s \in Record, size \in Nat
  PROVE  Unsent(s) \in Record /\ Unsent(s).of = s.of
<1>1. SubSeq(s.tx, size + 1, Len(s.tx)) \in Seq(Nat \X Nat)
  BY DEF Record
<1>2. QED
  BY <1>1 DEF Unsent, Record

\* A session record is not the null pointer.
LEMMA SessionExists == None \notin Record /\ None \notin Connections
  BY SessionConstantsOK DEF Record

-----------------------------------------------------------------------------
\* Every step of the server and its main thread is a step of the ledger or
\* leaves it alone.
LEMMA LedgerStep == SessionsNext => [Next]_vars
<1> SUFFICES ASSUME SessionsNext PROVE [Next]_vars
  OBVIOUS
<1> USE DEF vars, serverVars
<1>1. CASE Callback
  <2> SUFFICES ASSUME NEW c \in Connections,
                      \/ Connected(c) \/ NewConnectionCallback(c) \/ SetupWakes(c)
                      \/ ReceiveData(c) \/ Disconnected(c) \/ ConnectionEndCallback(c)
               PROVE  [Next]_vars
    BY <1>1 DEF Callback
  <2>1. QED
    BY DEF Connected, NewConnectionCallback, SetupWakes, ReceiveData, Disconnected,
           ConnectionEndCallback, Next
<1>2. CASE NetworkStep
  BY <1>2 DEF NetworkStep, PeerLost, Acknowledged
<1>3. CASE WindowOpens
  BY <1>3 DEF WindowOpens
<1>4. CASE LoopBegins
  BY <1>4 DEF LoopBegins
<1>5. CASE MainStep
  BY <1>5 DEF MainStep, LoopVisits, LoopEnds, Allocate, AppendData, PacketWaitTimesOut,
              SendReturns, SendWhole, SendPart, SendSegment, SendFails
<1>6. QED
  BY <1>1, <1>2, <1>3, <1>4, <1>5 DEF SessionsNext

\* The application sees the ledger: the server with its sessions, its loop and
\* its peers implements the callbacks ConnectionLedger promises.
THEOREM SessionsImplementLedger == SessionsSpec => Spec
<1>1. SessionsInit => Init
  BY DEF SessionsInit
<1>2. [SessionsNext]_allVars => [Next]_vars
  BY LedgerStep DEF allVars, serverVars, vars
<1>3. QED
  BY <1>1, <1>2, PTL DEF SessionsSpec, Spec

-----------------------------------------------------------------------------
\* Nobody has a session at the start.
LEMMA SessionsInitial == SessionsInit => SessionsInv
  BY SessionExists DEF SessionsInit, Init, SessionsInv, Shape, SetupHasSession, SessionsFollow,
                       HasSession

\* A session record per connection, as far as the properties go: a step that
\* keeps who has a session, and for whom, keeps the invariant.
LEMMA SameSessions ==
  ASSUME SessionsInv, Shape', UNCHANGED <<open, client>>,
         setup' = setup \/ setup' = None,
         HasSession' = HasSession,
         \A c \in HasSession : session'[c].of = session[c].of
  PROVE  SessionsInv'
  BY DEF SessionsInv, SetupHasSession, SessionsFollow

\* With a free session for every connection, a connection that has none yet
\* gets one.
LEMMA EnoughSessions ==
  ASSUME NEW c \in Connections, MaxSessions >= Cardinality(Connections)
  PROVE  GetsSession(c)
<1> SUFFICES ASSUME c \notin HasSession PROVE Cardinality(HasSession) < MaxSessions
  BY DEF GetsSession
<1>1. IsFiniteSet(Connections) /\ Cardinality(Connections) \in Nat
  BY LedgerConstantsOK, FS_CardinalityType
<1>2. HasSession \subseteq Connections \ {c}
  BY DEF HasSession
<1>3. /\ IsFiniteSet(Connections \ {c})
      /\ Cardinality(Connections \ {c}) = Cardinality(Connections) - 1
  BY <1>1, FS_RemoveElement
<1>4. /\ IsFiniteSet(HasSession)
      /\ Cardinality(HasSession) <= Cardinality(Connections \ {c})
  BY <1>2, <1>3, FS_Subset
<1>5. Cardinality(HasSession) \in Nat
  BY <1>4, FS_CardinalityType
<1>6. QED
  BY <1>1, <1>3, <1>4, <1>5, SessionConstantsOK

\* The callbacks keep the invariant.
LEMMA CallbackInv == SessionsInv /\ Callback => SessionsInv'
<1> SUFFICES ASSUME SessionsInv, NEW c \in Connections,
                    \/ Connected(c) \/ NewConnectionCallback(c) \/ SetupWakes(c)
                    \/ ReceiveData(c) \/ Disconnected(c) \/ ConnectionEndCallback(c)
             PROVE  SessionsInv'
  BY DEF Callback
<1> USE SessionExists DEF serverVars, netVars, loopVars, sendVars, ServerRuns
<1>1. CASE Connected(c)
  <2>1. c \notin HasSession
    BY <1>1 DEF Connected, CountOpened, SessionsInv, SessionsFollow
  <2>2. Shape'
    BY <1>1 DEF Connected, SessionsInv, Shape
  <2>3. HasSession' = HasSession /\ UNCHANGED <<session, setup, open>>
    BY <1>1 DEF Connected, CountOpened, HasSession
  <2>4. \A d \in HasSession : client'[d] = client[d]
    BY <1>1, <2>1 DEF Connected, HasSession, SessionsInv, Shape
  <2>5. QED
    BY <2>2, <2>3, <2>4 DEF SessionsInv, SetupHasSession, SessionsFollow
<1>2. CASE NewConnectionCallback(c)
  <2>1. UNCHANGED <<client, alive, size>> /\ open' = open \cup {c}
    BY <1>2 DEF NewConnectionCallback, NewConnection
  <2>2. CASE GetsSession(c)
    <3> DEFINE s == IF session[c] = None THEN NewSession(c) ELSE session[c]
    <3>1. s \in Record /\ s.of = client[c]
      <4>1. CASE session[c] = None
        <5>1. <<>> \in Seq(Nat \X Nat)
          OBVIOUS
        <5>2. client[c] \in Nat
          BY DEF SessionsInv, Shape
        <5>3. QED
          BY <4>1, <5>1, <5>2 DEF NewSession, Record
      <4>2. CASE session[c] # None
        BY <4>2 DEF SessionsInv, Shape, SessionsFollow, HasSession
      <4>3. QED
        BY <4>1, <4>2
    <3>2. Written(s) \in Record /\ Written(s).of = client[c]
      BY <3>1, WrittenSession
    <3>3. session' = [session EXCEPT ![c] = Written(s)] /\ setup' = c
      BY <1>2, <2>2 DEF NewConnectionCallback
    <3>4. HasSession' = HasSession \cup {c}
      BY <3>2, <3>3 DEF HasSession, SessionsInv, Shape
    <3>5. Shape'
      BY <2>1, <3>2, <3>3 DEF SessionsInv, Shape
    <3>6. \A d \in HasSession' : session'[d].of = client'[d]
      BY <2>1, <3>2, <3>3, <3>4 DEF SessionsInv, Shape, SessionsFollow, HasSession
    <3>7. SessionsFollow'
      BY <2>1, <3>4, <3>6 DEF SessionsInv, SessionsFollow
    <3>8. QED
      BY <3>3, <3>4, <3>5, <3>7 DEF SessionsInv, SetupHasSession
  <2>3. CASE ~GetsSession(c)
    <3>1. UNCHANGED session /\ setup' = None
      BY <1>2, <2>3 DEF NewConnectionCallback
    <3>2. ~(MaxSessions >= Cardinality(Connections))
      BY <2>3, EnoughSessions
    <3>3. QED
      BY <2>1, <3>1, <3>2 DEF SessionsInv, Shape, SetupHasSession, SessionsFollow, HasSession
  <2>4. QED
    BY <2>2, <2>3
<1>3. CASE SetupWakes(c)
  <2>1. session[c] \in Record
    BY <1>3 DEF SetupWakes, SessionsInv, Shape, SetupHasSession, HasSession
  <2>2. session' = [session EXCEPT ![c] = Written(session[c])]
    BY <1>3 DEF SetupWakes
  <2>3. Written(session[c]) \in Record /\ Written(session[c]).of = session[c].of
    BY <2>1, WrittenSession
  <2>4. HasSession' = HasSession
    BY <2>1, <2>2, <2>3 DEF HasSession, SessionsInv, Shape
  <2>5. Shape' /\ \A d \in HasSession : session'[d].of = session[d].of
    BY <1>3, <2>2, <2>3 DEF SetupWakes, HasSession, SessionsInv, Shape
  <2>6. QED
    BY <1>3, <2>4, <2>5, SameSessions DEF SetupWakes
<1>4. CASE ReceiveData(c)
  <2>1. session[c] \in Record
    BY <1>4 DEF ReceiveData, SessionsInv, Shape, HasSession
  <2> DEFINE s == [session[c] EXCEPT !.rx = 1, !.lines = @ + 1]
  <2>2. session' = [session EXCEPT ![c] = s]
    BY <1>4, <2>1 DEF ReceiveData, SessionsInv, Shape
  <2>3. s \in Record /\ s.of = session[c].of
    <3>1. session[c].lines + 1 \in Nat
      BY <2>1 DEF Record
    <3>2. QED
      BY <2>1, <3>1 DEF Record
  <2>4. HasSession' = HasSession
    BY <2>1, <2>2, <2>3 DEF HasSession, SessionsInv, Shape
  <2>5. Shape' /\ \A d \in HasSession : session'[d].of = session[d].of
    BY <1>4, <2>2, <2>3 DEF ReceiveData, HasSession, SessionsInv, Shape
  <2>6. QED
    BY <1>4, <2>4, <2>5, SameSessions DEF ReceiveData
<1>5. CASE Disconnected(c)
  BY <1>5 DEF Disconnected, CountClosed, Ended, SessionsInv, Shape, SetupHasSession,
              SessionsFollow, HasSession
<1>6. CASE ConnectionEndCallback(c)
  <2>1. session' = [session EXCEPT ![c] = None] /\ open' = open \ {c}
        /\ UNCHANGED <<client, alive, size, setup>> /\ setup = None
    BY <1>6 DEF ConnectionEndCallback, ConnectionEnd
  <2>2. HasSession' = HasSession \ {c}
    BY <2>1 DEF HasSession, SessionsInv, Shape
  <2>3. Shape'
    BY <2>1 DEF SessionsInv, Shape
  <2>4. \A d \in HasSession' : session'[d] = session[d]
    BY <2>1, <2>2 DEF HasSession, SessionsInv, Shape
  <2>5. QED
    BY <2>1, <2>2, <2>3, <2>4 DEF SessionsInv, SetupHasSession, SessionsFollow
<1>7. QED
  BY <1>1, <1>2, <1>3, <1>4, <1>5, <1>6

\* The network and the main thread keep the invariant.
LEMMA OtherStepInv ==
  SessionsInv /\ (NetworkStep \/ WindowOpens \/ LoopBegins \/ MainStep) => SessionsInv'
<1> SUFFICES ASSUME SessionsInv, NetworkStep \/ WindowOpens \/ LoopBegins \/ MainStep
             PROVE  SessionsInv'
  OBVIOUS
<1> USE SessionExists DEF serverVars, netVars, loopVars, sendVars
<1>0. ASSUME UNCHANGED <<client, session, open, setup>>, alive' \subseteq Connections, size' \in Nat
      PROVE  SessionsInv'
  BY <1>0 DEF SessionsInv, Shape, SetupHasSession, SessionsFollow, HasSession
<1>1. CASE NetworkStep
  BY <1>0, <1>1 DEF NetworkStep, PeerLost, Ended, Acknowledged, SessionsInv, Shape
<1>2. CASE WindowOpens
  BY <1>0, <1>2 DEF WindowOpens, SessionsInv, Shape
<1>3. CASE LoopBegins
  <2>1. \A c \in Connections :
          session'[c] = IF c \in HasSession /\ session[c].rx = 1
                        THEN [Written(session[c]) EXCEPT !.rx = 0] ELSE session[c]
    BY <1>3 DEF LoopBegins
  <2>2. DOMAIN session' = Connections /\ session' = [c \in Connections |-> session'[c]]
    BY <1>3 DEF LoopBegins
  <2>3. \A c \in HasSession : session'[c] \in Record /\ session'[c].of = session[c].of
    <3> TAKE c \in HasSession
    <3>1. session[c] \in Record /\ c \in Connections
      BY DEF HasSession, SessionsInv, Shape
    <3>2. Written(session[c]) \in Record /\ Written(session[c]).of = session[c].of
      BY <3>1, WrittenSession
    <3>3. /\ [Written(session[c]) EXCEPT !.rx = 0] \in Record
          /\ [Written(session[c]) EXCEPT !.rx = 0].of = session[c].of
      BY <3>2 DEF Record
    <3>4. QED
      BY <2>1, <3>1, <3>3
  <2>4. \A c \in Connections \ HasSession : session'[c] = None
    BY <2>1 DEF HasSession
  <2>5. HasSession' = HasSession
    BY <2>3, <2>4 DEF HasSession
  <2>6. session' \in [Connections -> Record \cup {None}]
    BY <2>2, <2>3, <2>4
  <2>7. Shape'
    BY <1>3, <2>6 DEF LoopBegins, SessionsInv, Shape
  <2>8. QED
    BY <1>3, <2>3, <2>5, <2>7, SameSessions DEF LoopBegins
<1>4. CASE MainStep
  <2>1. ASSUME NEW c \in Connections, LoopVisits(c) PROVE SessionsInv'
    <3>1. size' \in Nat
      <4>1. CASE size' = Len(session[c].tx)
        <5>1. session[c].tx \in Seq(Nat \X Nat)
          BY <2>1 DEF LoopVisits, HasSession, SessionsInv, Shape, Record
        <5>2. QED
          BY <4>1, <5>1
      <4>2. CASE size' = size
        BY <4>2 DEF SessionsInv, Shape
      <4>3. QED
        BY <2>1, <4>1, <4>2 DEF LoopVisits
    <3>2. QED
      BY <1>0, <2>1, <3>1 DEF LoopVisits, SessionsInv, Shape
  <2>2. CASE LoopEnds \/ Allocate \/ AppendData
    BY <1>0, <2>2 DEF LoopEnds, Allocate, AppendData, SessionsInv, Shape
  <2>3. CASE PacketWaitTimesOut \/ SendFails
    BY <1>0, <2>3 DEF PacketWaitTimesOut, SendFails, BackToLoop, SessionsInv, Shape
  <2>4. CASE SendPart \/ SendSegment
    BY <1>0, <2>4 DEF SendPart, SendSegment, SessionsInv, Shape
  <2>5. CASE SendWhole
    <3>1. at \in Connections /\ size \in Nat
      BY <2>5 DEF SendWhole, SessionsInv, Shape
    <3>2. session' = IF at \in HasSession THEN [session EXCEPT ![at] = Unsent(session[at])]
                                          ELSE session
      BY <2>5 DEF SendWhole, Removed
    <3>3. at \in HasSession => /\ Unsent(session[at]) \in Record
                               /\ Unsent(session[at]).of = session[at].of
      BY <3>1, RemovedSession DEF SessionsInv, Shape, HasSession
    <3>4. session' \in [Connections -> Record \cup {None}]
      BY <3>1, <3>2, <3>3 DEF SessionsInv, Shape
    <3>5. HasSession' = HasSession
      BY <3>1, <3>2, <3>3 DEF HasSession, SessionsInv, Shape
    <3>6. \A d \in HasSession : session'[d].of = session[d].of
      BY <3>1, <3>2, <3>3 DEF HasSession, SessionsInv, Shape
    <3>7. Shape'
      BY <2>5, <3>4 DEF SendWhole, BackToLoop, SessionsInv, Shape
    <3>8. QED
      BY <2>5, <3>5, <3>6, <3>7, SameSessions DEF SendWhole
  <2>6. QED
    BY <1>4, <2>1, <2>2, <2>3, <2>4, <2>5 DEF MainStep, SendReturns
<1>5. QED
  BY <1>1, <1>2, <1>3, <1>4

\* The sessions follow their connections in every step.
LEMMA SessionsInvInductive == SessionsInv /\ [SessionsNext]_allVars => SessionsInv'
<1> SUFFICES ASSUME SessionsInv, [SessionsNext]_allVars PROVE SessionsInv'
  OBVIOUS
<1>1. CASE UNCHANGED allVars
  BY <1>1 DEF allVars, serverVars, netVars, loopVars, sendVars, SessionsInv, Shape,
              SetupHasSession, SessionsFollow, HasSession
<1> QED
  BY <1>1, CallbackInv, OtherStepInv DEF SessionsNext

\* The invariant holds throughout.
LEMMA SessionsInvHolds == SessionsSpec => []SessionsInv
  BY SessionsInitial, SessionsInvInductive, PTL DEF SessionsSpec

\* A session belongs to the client its connection has now, and with a session
\* for every connection each open connection has one, however the callbacks
\* fall between the calls of the main thread.
THEOREM SessionsFollowConnections == SessionsSpec => []SessionsFollow
<1>1. SessionsInv => SessionsFollow
  BY DEF SessionsInv
<1>2. QED
  BY <1>1, SessionsInvHolds, PTL

\* A send that waits for the window keeps its client: the connection is taken
\* over only after the main thread has been woken.
THEOREM SendWaitKeepsClient == SessionsSpec => WaitKeepsClient
<1>1. SessionsInv /\ [SessionsNext]_allVars
        => [mainPc = "sendWait" => client'[at] = client[at]]_allVars
  <2> SUFFICES ASSUME SessionsInv, SessionsNext, mainPc = "sendWait"
               PROVE  client'[at] = client[at]
    BY DEF allVars
  <2> USE DEF serverVars
  <2>1. ASSUME NEW c \in Connections, Connected(c) PROVE client'[at] = client[at]
    <3>1. at \in alive /\ c \notin alive
      BY <2>1 DEF Connected, ServerRuns, MainWaits, NeedsPacket
    <3>2. QED
      BY <2>1, <3>1 DEF Connected, SessionsInv, Shape
  <2>2. CASE Callback
    BY <2>1, <2>2 DEF Callback, NewConnectionCallback, SetupWakes, ReceiveData, Disconnected,
                      ConnectionEndCallback
  <2>3. CASE NetworkStep \/ WindowOpens \/ LoopBegins \/ MainStep
    BY <2>3 DEF NetworkStep, PeerLost, Acknowledged, WindowOpens, LoopBegins, MainStep,
                LoopVisits, LoopEnds, Allocate, AppendData, PacketWaitTimesOut, SendReturns,
                SendWhole, SendPart, SendSegment, SendFails
  <2>4. QED
    BY <2>2, <2>3 DEF SessionsNext
<1>2. QED
  BY <1>1, SessionsInvHolds, PTL DEF SessionsSpec, WaitKeepsClient

-----------------------------------------------------------------------------
(* Sums over the connections.  SumOver takes the connections out of the    *)
(* set one by one, each time the one that Pick chooses.                    *)

Pick(s) == CHOOSE c \in s : TRUE

\* What is left when the picked connection is taken out.
Rest(s) == s \ {Pick(s)}

\* The recursion: the sums over all sets of connections, given those over smaller ones.
SumStep(f, sum) ==
  [s \in SUBSET Connections |-> IF s = {} THEN 0 ELSE f[Pick(s)] + sum[Rest(s)]]
Sums(f) == CHOOSE sum : sum = SumStep(f, sum)

\* A set of numbers has a least element.
LEMMA Least ==
  ASSUME NEW T \in SUBSET Nat, T # {}
  PROVE  \E n \in T : \A m \in T : n <= m
<1>1. \E x \in T : \A y \in T : ~(<<y, x>> \in OpToRel(<, Nat))
  BY WFMin, NatLessThanWellFounded
<1>2. PICK x \in T : \A y \in T : ~(<<y, x>> \in OpToRel(<, Nat))
  BY <1>1
<1>3. x \in Nat /\ \A y \in T : y \in Nat /\ ~(y < x)
  BY <1>2 DEF OpToRel
<1>4. \A m \in T : x <= m
  BY <1>3
<1> QED
  BY <1>4

\* Every set of connections is finite, and its rest has one connection less.
LEMMA RestIsSmaller ==
  ASSUME NEW s \in SUBSET Connections
  PROVE  /\ IsFiniteSet(s) /\ Cardinality(s) \in Nat
         /\ s = {} <=> Cardinality(s) = 0
         /\ s # {} => /\ Pick(s) \in s /\ Rest(s) \in SUBSET Connections
                      /\ Cardinality(Rest(s)) = Cardinality(s) - 1
<1>1. IsFiniteSet(s) /\ Cardinality(s) \in Nat
  BY LedgerConstantsOK, FS_Subset, FS_CardinalityType
<1>2. s # {} => Pick(s) \in s
  BY DEF Pick
<1>3. s # {} => Cardinality(Rest(s)) = Cardinality(s) - 1
  BY <1>1, <1>2, FS_RemoveElement DEF Rest
<1> QED
  BY <1>1, <1>2, <1>3, FS_EmptySet DEF Rest

\* What holds of the empty set, and of a set if it holds of its rest, holds of
\* every set of connections: there is no smallest one of which it does not.
LEMMA SetInduction ==
  ASSUME NEW P, {} \in P,
         \A s \in SUBSET Connections : s # {} /\ Rest(s) \in P => s \in P
  PROVE  SUBSET Connections \subseteq P
<1> SUFFICES ASSUME NEW s0 \in SUBSET Connections, s0 \notin P PROVE FALSE
  OBVIOUS
<1> DEFINE T == {Cardinality(s) : s \in {t \in SUBSET Connections : t \notin P}}
<1>1. T \in SUBSET Nat /\ T # {}
  BY RestIsSmaller
<1>2. PICK n \in T : \A m \in T : n <= m
  BY <1>1, Least
<1>3. PICK s \in SUBSET Connections : s \notin P /\ Cardinality(s) = n
  BY <1>2
<1>4. Rest(s) \in SUBSET Connections /\ Cardinality(Rest(s)) = n - 1 /\ n \in Nat
  BY <1>1, <1>3, RestIsSmaller
<1>5. Rest(s) \notin P
  BY <1>3
<1> QED
  BY <1>2, <1>4, <1>5

\* The recursion has a solution: the solutions for sets of up to n connections grow
\* into one for all.
LEMMA SumsExist ==
  ASSUME NEW f
  PROVE  \E sum : sum = SumStep(f, sum)
<1> DEFINE UpTo(n, sum) ==
             \A s \in SUBSET Connections :
               Cardinality(s) <= n => sum[s] = SumStep(f, sum)[s]
           T == {n \in Nat : ~\E sum : UpTo(n, sum)}
<1>1. UpTo(0, [s \in SUBSET Connections |-> 0])
  BY RestIsSmaller DEF SumStep
<1>2. ASSUME NEW n \in Nat, NEW sum, UpTo(n, sum)
      PROVE  UpTo(n + 1, SumStep(f, sum))
  <2> SUFFICES ASSUME NEW s \in SUBSET Connections, Cardinality(s) <= n + 1
               PROVE  SumStep(f, sum)[s] = SumStep(f, SumStep(f, sum))[s]
    OBVIOUS
  <2>1. CASE s = {}
    BY <2>1 DEF SumStep
  <2>2. CASE s # {}
    <3>1. Rest(s) \in SUBSET Connections /\ Cardinality(Rest(s)) <= n
      BY <2>2, RestIsSmaller
    <3>2. sum[Rest(s)] = SumStep(f, sum)[Rest(s)]
      BY <1>2, <3>1
    <3>3. /\ SumStep(f, sum)[s] = f[Pick(s)] + sum[Rest(s)]
          /\ SumStep(f, SumStep(f, sum))[s] = f[Pick(s)] + SumStep(f, sum)[Rest(s)]
      BY <2>2 DEF SumStep
    <3> QED
      BY <3>2, <3>3
  <2> QED
    BY <2>1, <2>2
<1>3. T = {}
  <2> HIDE DEF UpTo
  <2> SUFFICES ASSUME T # {} PROVE FALSE
    OBVIOUS
  <2>1. PICK n \in T : \A m \in T : n <= m
    BY Least
  <2>2. n # 0
    BY <1>1
  <2>3. n - 1 \in Nat /\ n - 1 \notin T /\ (n - 1) + 1 = n
    BY <2>1, <2>2
  <2>4. PICK sum : UpTo(n - 1, sum)
    BY <2>3
  <2> QED
    BY <1>2, <2>3, <2>4
<1>4. Cardinality(Connections) \in Nat
      /\ \A s \in SUBSET Connections : Cardinality(s) <= Cardinality(Connections)
  BY LedgerConstantsOK, FS_Subset, FS_CardinalityType
<1>5. PICK sum : UpTo(Cardinality(Connections), sum)
  BY <1>3, <1>4
<1>6. \A s \in SUBSET Connections : sum[s] = SumStep(f, sum)[s]
  BY <1>4, <1>5
<1> DEFINE g == [s \in SUBSET Connections |-> sum[s]]
<1>7. g = SumStep(f, g)
  <2>1. SumStep(f, g) = SumStep(f, sum)
    <3>1. \A s \in SUBSET Connections : Rest(s) \in SUBSET Connections
      BY DEF Rest
    <3> QED
      BY <3>1 DEF SumStep
  <2>2. SumStep(f, sum) = [s \in SUBSET Connections |-> SumStep(f, sum)[s]]
    BY DEF SumStep
  <2> QED
    BY <1>6, <2>1, <2>2
<1> QED
  BY <1>7

\* So SumOver is the solution at the set of all connections.
LEMMA SumsRecursion ==
  ASSUME NEW f
  PROVE  /\ SumOver(f) = Sums(f)[Connections]
         /\ Sums(f)[{}] = 0
         /\ \A s \in SUBSET Connections :
              s # {} => Sums(f)[s] = f[Pick(s)] + Sums(f)[Rest(s)]
<1>1. SumOver(f) = Sums(f)[Connections]
  BY Zenon DEF SumOver, MapThenSumSet, MapThenFoldSet, Sums, SumStep, Pick, Rest
<1>2. Sums(f) = SumStep(f, Sums(f))
  BY SumsExist DEF Sums
<1>3. \A s \in SUBSET Connections : Sums(f)[s] = SumStep(f, Sums(f))[s]
  BY <1>2
<1> QED
  BY <1>1, <1>3 DEF SumStep

\* A sum of numbers is a number.
LEMMA SumIsNat ==
  ASSUME NEW f \in [Connections -> Nat]
  PROVE  SumOver(f) \in Nat
<1> DEFINE P == {s \in SUBSET Connections : Sums(f)[s] \in Nat}
<1>1. {} \in P
  BY SumsRecursion
<1>2. \A s \in SUBSET Connections : s # {} /\ Rest(s) \in P => s \in P
  <2> SUFFICES ASSUME NEW s \in SUBSET Connections, s # {}, Rest(s) \in P PROVE s \in P
    OBVIOUS
  <2>1. f[Pick(s)] \in Nat
    BY RestIsSmaller
  <2> QED
    BY <2>1, SumsRecursion
<1>3. SUBSET Connections \subseteq P
  BY <1>1, <1>2, SetInduction
<1> QED
  BY <1>3, SumsRecursion

\* Changing one summand changes the sum by as much.
LEMMA SumChanges ==
  ASSUME NEW f \in [Connections -> Nat], NEW c \in Connections, NEW n \in Nat
  PROVE  SumOver([f EXCEPT ![c] = n]) = SumOver(f) - f[c] + n
<1> DEFINE g == [f EXCEPT ![c] = n]
           P == {s \in SUBSET Connections :
                   /\ Sums(f)[s] \in Nat
                   /\ Sums(g)[s] = IF c \in s THEN Sums(f)[s] - f[c] + n ELSE Sums(f)[s]}
<1>1. {} \in P
  BY SumsRecursion
<1>2. \A s \in SUBSET Connections : s # {} /\ Rest(s) \in P => s \in P
  <2> SUFFICES ASSUME NEW s \in SUBSET Connections, s # {}, Rest(s) \in P PROVE s \in P
    OBVIOUS
  <2>1. Pick(s) \in Connections /\ f[Pick(s)] \in Nat /\ f[c] \in Nat
    BY RestIsSmaller
  <2>2. /\ Sums(f)[s] = f[Pick(s)] + Sums(f)[Rest(s)]
        /\ Sums(g)[s] = g[Pick(s)] + Sums(g)[Rest(s)]
    BY SumsRecursion
  <2>3. Sums(f)[s] \in Nat
    BY <2>1, <2>2
  <2> HIDE DEF g
  <2>4. CASE Pick(s) = c
    <3>1. c \in s /\ c \notin Rest(s) /\ g[Pick(s)] = n
      BY <2>1, <2>4, RestIsSmaller DEF Rest, g
    <3> QED
      BY <2>1, <2>2, <2>3, <2>4, <3>1
  <2>5. CASE Pick(s) # c
    <3>1. (c \in s <=> c \in Rest(s)) /\ g[Pick(s)] = f[Pick(s)]
      BY <2>1, <2>5 DEF Rest, g
    <3> QED
      BY <2>1, <2>2, <2>3, <3>1
  <2> QED
    BY <2>4, <2>5
<1>3. Connections \in P
  BY <1>1, <1>2, SetInduction
<1> QED
  BY <1>3, SumsRecursion

\* Nothing sums up to nothing.
LEMMA SumOfZeros == SumOver([c \in Connections |-> 0]) = 0
<1> DEFINE f == [c \in Connections |-> 0]
           P == {s \in SUBSET Connections : Sums(f)[s] = 0}
<1>1. {} \in P
  BY SumsRecursion
<1>2. \A s \in SUBSET Connections : s # {} /\ Rest(s) \in P => s \in P
  <2> SUFFICES ASSUME NEW s \in SUBSET Connections, s # {}, Rest(s) \in P PROVE s \in P
    OBVIOUS
  <2>1. Pick(s) \in Connections /\ f[Pick(s)] = 0
    BY RestIsSmaller
  <2> QED
    BY <2>1, SumsRecursion
<1>3. Connections \in P
  BY <1>1, <1>2, SetInduction
<1> QED
  BY <1>3, SumsRecursion

\* No summand exceeds the sum.
LEMMA SumBounds ==
  ASSUME NEW f \in [Connections -> Nat], NEW c \in Connections
  PROVE  f[c] <= SumOver(f)
<1>1. [f EXCEPT ![c] = 0] \in [Connections -> Nat] /\ f[c] \in Nat
  OBVIOUS
<1>2. SumOver([f EXCEPT ![c] = 0]) \in Nat /\ SumOver(f) \in Nat
  BY <1>1, SumIsNat
<1>3. SumOver([f EXCEPT ![c] = 0]) = SumOver(f) - f[c] + 0
  BY SumChanges
<1> QED
  BY <1>1, <1>2, <1>3

-----------------------------------------------------------------------------
(* The types, and the packets.                                             *)

\* There are never more packets than the pool had, nor more clients than connect.
Room == Packets <= PoolSize /\ SumOver(client) <= MaxClients

\* A connection that was counted has a client.
Numbered == \A c \in Connections : c \in open \/ change = <<"opened", c>> => client[c] > 0

\* A session wrote the greeting, the prompt when setup() is through, and the answers
\* to the lines it was given, of which it may not have read the last one yet.
Fits(s, n) == s \in SessionRecord /\ s.written + s.rx <= n + s.lines
SessionsFit ==
  \A c \in Connections : session[c] = None \/ Fits(session[c], IF setup = c THEN 1 ELSE 2)

\* bufferSend holds packets only behind its allocate, and works for a connection.
Sending ==
  /\ mainPc \in {"idle", "visit", "allocate"} => taken = 0
  /\ mainPc = "append" => taken = 1
  /\ mainPc \notin {"idle", "visit"} => at \in Connections
  /\ mainPc = "segment" => Len(held) > 1

Books == SessionsTypeOK /\ Room /\ Numbered /\ SessionsFit /\ Sending

\* One more output, as long as the numbers last, leaves a session with its types.
LEMMA WrittenTypes ==
  ASSUME NEW s \in SessionRecord, s.written < MaxOutputs
  PROVE  /\ Written(s) \in SessionRecord
         /\ Written(s).written = s.written + 1
         /\ Written(s).rx = s.rx /\ Written(s).lines = s.lines
<1>1. MaxOutputs \in Nat
  BY SessionConstantsOK DEF MaxOutputs
<1>2. s.written + 1 \in 1 .. MaxOutputs /\ s.written + 1 \in 0 .. MaxOutputs
  BY <1>1 DEF SessionRecord
<1>3. <<s.of, s.written + 1>> \in Outputs
  BY <1>2 DEF SessionRecord, Outputs
<1>4. Append(s.tx, <<s.of, s.written + 1>>) \in Seq(Outputs)
  BY <1>3, AppendProperties DEF SessionRecord
<1> QED
  BY <1>2, <1>4 DEF Written, SessionRecord

\* The greeting of a session that is new.
LEMMA GreetingFits ==
  ASSUME NEW n \in 1 .. MaxClients
  PROVE  Fits(Written([of |-> n, tx |-> <<>>, written |-> 0, rx |-> 0, lines |-> 0]), 1)
<1> DEFINE s == [of |-> n, tx |-> <<>>, written |-> 0, rx |-> 0, lines |-> 0]
<1>1. MaxOutputs \in Nat /\ 0 < MaxOutputs /\ MaxLines \in Nat
  BY SessionConstantsOK DEF MaxOutputs
<1>2. s \in SessionRecord /\ s.written = 0 /\ s.rx = 0 /\ s.lines = 0
  BY <1>1, EmptySeq DEF SessionRecord
<1> HIDE DEF s
<1>3. Written(s) \in SessionRecord /\ Written(s).written = 1 /\ Written(s).rx = 0
      /\ Written(s).lines = 0
  BY <1>1, <1>2, WrittenTypes
<1>4. Fits(Written(s), 1)
  BY <1>3 DEF Fits
<1> QED
  BY <1>4 DEF s

\* The prompt that ends setup().
LEMMA PromptFits ==
  ASSUME NEW s, Fits(s, 1)
  PROVE  Fits(Written(s), 2)
<1>1. /\ s \in SessionRecord /\ s.written + s.rx <= 1 + s.lines
      /\ s.written \in Nat /\ s.rx \in Nat /\ s.lines \in Nat /\ s.lines <= MaxLines
      /\ MaxLines \in Nat
  BY SessionConstantsOK DEF Fits, SessionRecord, MaxOutputs
<1>2. s.written < MaxOutputs
  BY <1>1 DEF MaxOutputs
<1>3. (s.written + 1) + s.rx <= 2 + s.lines
  BY <1>1
<1> QED
  BY <1>1, <1>2, <1>3, WrittenTypes DEF Fits

\* The answer to a line.
LEMMA AnswerFits ==
  ASSUME NEW s, NEW n \in {1, 2}, Fits(s, n), s.rx = 1
  PROVE  Fits([Written(s) EXCEPT !.rx = 0], n)
<1>1. /\ s \in SessionRecord /\ s.written + 1 <= n + s.lines
      /\ s.written \in Nat /\ s.lines \in Nat /\ s.lines <= MaxLines /\ MaxLines \in Nat
  BY SessionConstantsOK DEF Fits, SessionRecord, MaxOutputs
<1>2. s.written < MaxOutputs
  BY <1>1 DEF MaxOutputs
<1>3. Written(s) \in SessionRecord /\ Written(s).written = s.written + 1
      /\ Written(s).lines = s.lines
  BY <1>1, <1>2, WrittenTypes
<1>4. ASSUME NEW t \in SessionRecord
      PROVE  /\ [t EXCEPT !.rx = 0] \in SessionRecord /\ [t EXCEPT !.rx = 0].rx = 0
             /\ [t EXCEPT !.rx = 0].written = t.written
             /\ [t EXCEPT !.rx = 0].lines = t.lines
  BY DEF SessionRecord
<1>5. (s.written + 1) + 0 <= n + s.lines
  BY <1>1
<1> QED
  BY <1>3, <1>4, <1>5 DEF Fits

\* One more line.
LEMMA LineFits ==
  ASSUME NEW s, Fits(s, 2), s.lines < MaxLines
  PROVE  Fits([s EXCEPT !.rx = 1, !.lines = @ + 1], 2)
<1> DEFINE t == [s EXCEPT !.rx = 1, !.lines = @ + 1]
<1>1. /\ s \in SessionRecord /\ s.written + s.rx <= 2 + s.lines
      /\ s.written \in Nat /\ s.rx \in Nat /\ s.lines \in Nat /\ MaxLines \in Nat
  BY SessionConstantsOK DEF Fits, SessionRecord, MaxOutputs
<1>2. s.lines + 1 \in 0 .. MaxLines
  BY <1>1
<1>3. t \in SessionRecord /\ t.written = s.written /\ t.rx = 1 /\ t.lines = s.lines + 1
  BY <1>1, <1>2 DEF SessionRecord
<1>4. s.written + 1 <= 2 + (s.lines + 1)
  BY <1>1
<1> HIDE DEF t
<1>5. Fits(t, 2)
  BY <1>3, <1>4 DEF Fits
<1> QED
  BY <1>5 DEF t

\* What was sent is taken out of the session.
LEMMA UnsentFits ==
  ASSUME NEW s, NEW n, Fits(s, n), size \in Nat
  PROVE  Fits(Unsent(s), n)
<1>0. s \in SessionRecord
  BY DEF Fits
<1>1. SubSeq(s.tx, size + 1, Len(s.tx)) \in Seq(Outputs)
  <2>1. s.tx \in Seq(Outputs) /\ Len(s.tx) \in Nat
    BY <1>0, LenProperties DEF SessionRecord
  <2>2. \A i \in size + 1 .. Len(s.tx) : s.tx[i] \in Outputs
    BY <2>1, ElementOfSeq
  <2> QED
    BY <2>1, <2>2, SubSeqProperties
<1>2. /\ Unsent(s) \in SessionRecord
      /\ Unsent(s).written = s.written /\ Unsent(s).rx = s.rx /\ Unsent(s).lines = s.lines
  BY <1>0, <1>1 DEF Unsent, SessionRecord
<1> QED
  BY <1>2 DEF Fits

\* Packets move between the pool, NetX and bufferSend; only a send that fails
\* loses some.
LEMMA PacketsMove ==
  ASSUME SessionsTypeOK, Sending, [SessionsNext]_allVars
  PROVE  /\ Packets' = Packets \/ (SendFails /\ Packets' <= Packets)
         /\ Packets \in Nat /\ free' \in Nat /\ taken' \in 0 .. 2
         /\ queued' \in [Connections -> Nat] /\ Packets' \in Nat
<1>0. /\ free \in Nat /\ taken \in 0 .. 2 /\ queued \in [Connections -> Nat]
      /\ SumOver(queued) \in Nat /\ PoolSize \in Nat
  BY SumIsNat, SessionConstantsOK DEF SessionsTypeOK
<1> DEFINE Goal == /\ Packets' = Packets \/ (SendFails /\ Packets' <= Packets)
                   /\ free' \in Nat /\ taken' \in 0 .. 2
                   /\ queued' \in [Connections -> Nat]
<1>1. ASSUME NEW c \in Connections, NEW n \in Nat, NEW f \in Nat, NEW t \in 0 .. 2,
             queued' = [queued EXCEPT ![c] = n], free' = f, taken' = t,
             f + t + n = free + taken + queued[c]
      PROVE  Goal
  <2>1. queued[c] \in Nat /\ queued' \in [Connections -> Nat]
    BY <1>0, <1>1
  <2>2. SumOver(queued') = SumOver(queued) - queued[c] + n
    BY <1>0, <1>1, SumChanges
  <2>3. f + t + (SumOver(queued) - queued[c] + n) = free + taken + SumOver(queued)
    BY <1>0, <1>1, <2>1
  <2> QED
    BY <1>1, <2>1, <2>2, <2>3 DEF Packets
<1>2. ASSUME NEW f \in Nat, NEW t \in 0 .. 2, UNCHANGED queued, free' = f, taken' = t,
             f + t = free + taken \/ (SendFails /\ f + t <= free + taken)
      PROVE  Goal
  <2>1. SumOver(queued') = SumOver(queued)
    BY <1>2
  <2>2. f + t = free + taken => f + t + SumOver(queued) = free + taken + SumOver(queued)
    BY <1>0
  <2>3. f + t <= free + taken => f + t + SumOver(queued) <= free + taken + SumOver(queued)
    BY <1>0
  <2> QED
    BY <1>0, <1>2, <2>1, <2>2, <2>3 DEF Packets
<1> HIDE DEF Goal
<1>3. ASSUME NEW c \in Connections, Ended(c), UNCHANGED taken PROVE Goal
  <2>1. queued[c] \in Nat /\ free + queued[c] \in Nat
        /\ (free + queued[c]) + taken + 0 = free + taken + queued[c]
    BY <1>0
  <2> QED
    BY <1>0, <1>1, <1>3, <2>1 DEF Ended
<1>4. ASSUME UNCHANGED <<queued, free, taken>> PROVE Goal
  BY <1>0, <1>2, <1>4
<1> USE DEF serverVars, netVars, loopVars, sendVars
<1>5. ASSUME Callback PROVE Goal
  <2>1. \/ UNCHANGED <<queued, free, taken>>
        \/ \E c \in Connections : Ended(c) /\ UNCHANGED taken
    BY <1>5 DEF Callback, Connected, NewConnectionCallback, SetupWakes, ReceiveData,
                Disconnected, ConnectionEndCallback
  <2> QED
    BY <1>3, <1>4, <2>1
<1>6. ASSUME NetworkStep PROVE Goal
  <2>1. ASSUME NEW c \in Connections, Acknowledged(c) PROVE Goal
    <3>1. queued[c] \in Nat /\ queued[c] > 0
      BY <1>0, <2>1 DEF Acknowledged
    <3>2. queued[c] - 1 \in Nat /\ free + 1 \in Nat
          /\ (free + 1) + taken + (queued[c] - 1) = free + taken + queued[c]
      BY <1>0, <3>1
    <3> QED
      BY <1>0, <1>1, <2>1, <3>2 DEF Acknowledged
  <2>2. ASSUME NEW c \in Connections, PeerLost(c) PROVE Goal
    BY <1>3, <2>2 DEF PeerLost
  <2> QED
    BY <1>6, <2>1, <2>2 DEF NetworkStep
<1>7. ASSUME \/ WindowOpens \/ LoopBegins \/ LoopEnds \/ SendPart \/ UNCHANGED allVars
             \/ \E c \in Connections : LoopVisits(c)
      PROVE  Goal
  BY <1>4, <1>7 DEF WindowOpens, LoopBegins, LoopEnds, SendPart, LoopVisits, allVars
<1>8. ASSUME Allocate \/ AppendData PROVE Goal
  <2>1. free > 0
    BY <1>8 DEF Allocate, AppendData
  <2>2. free - 1 \in Nat
    BY <1>0, <2>1
  <2>3. CASE Allocate
    BY <1>0, <1>2, <2>2, <2>3 DEF Allocate, Sending
  <2>4. CASE AppendData
    BY <1>0, <1>2, <2>2, <2>4 DEF AppendData, Sending
  <2> QED
    BY <1>8, <2>3, <2>4
<1>9. ASSUME PacketWaitTimesOut \/ SendFails PROVE Goal
  <2>1. free + taken \in Nat
    BY <1>0
  <2> QED
    BY <1>0, <1>2, <1>9, <2>1 DEF PacketWaitTimesOut, SendFails, BackToLoop
<1>10. ASSUME SendWhole PROVE Goal
  <2>1. at \in Connections
    BY <1>10 DEF SendWhole, Sending
  <2>2. queued[at] + taken \in Nat /\ free + 0 + (queued[at] + taken) = free + taken + queued[at]
    BY <1>0, <2>1
  <2>3. /\ queued' = [queued EXCEPT ![at] = queued[at] + taken]
        /\ free' = free /\ taken' = 0 /\ 0 \in 0 .. 2
    BY <1>10 DEF SendWhole, BackToLoop
  <2> QED
    BY <1>0, <1>1, <2>1, <2>2, <2>3
<1>11. ASSUME SendSegment PROVE Goal
  <2>1. at \in Connections /\ free > 0
    BY <1>11 DEF SendSegment, Sending
  <2>2. queued[at] + 1 \in Nat /\ free - 1 \in Nat
        /\ (free - 1) + taken + (queued[at] + 1) = free + taken + queued[at]
    BY <1>0, <2>1
  <2> QED
    BY <1>0, <1>1, <1>11, <2>1, <2>2 DEF SendSegment
<1>12. Goal
  BY <1>5, <1>6, <1>7, <1>8, <1>9, <1>10, <1>11
  DEF SessionsNext, MainStep, SendReturns
<1>13. Packets \in Nat
  BY <1>0 DEF Packets
<1>14. SumOver(queued') \in Nat
  BY <1>12, SumIsNat DEF Goal
<1> QED
  BY <1>12, <1>13, <1>14 DEF Goal, Packets

\* The pool has no more packets than at the start, and a client connects only while
\* another one may.
LEMMA RoomInductive ==
  ASSUME SessionsInv, Books, [SessionsNext]_allVars
  PROVE  Room' /\ free' \in 0 .. PoolSize /\ client' \in [Connections -> 0 .. MaxClients]
<1>1. /\ client \in [Connections -> Nat] /\ SumOver(client) \in Nat
      /\ MaxClients \in Nat /\ PoolSize \in Nat
  BY SumIsNat, SessionConstantsOK DEF SessionsInv, Shape
<1>2. Packets' <= PoolSize
  <2>1. \A a, b, n \in Nat : a <= b /\ b <= n => a <= n
    OBVIOUS
  <2>2. Packets \in Nat /\ Packets' \in Nat /\ (Packets' = Packets \/ Packets' <= Packets)
    BY PacketsMove DEF Books
  <2> QED
    BY <1>1, <2>1, <2>2 DEF Books, Room
<1>3. free' \in 0 .. PoolSize
  <2>1. \A a, b, n, m \in Nat : a + b + n <= m => a \in 0 .. m
    OBVIOUS
  <2>2. free' \in Nat /\ taken' \in Nat /\ SumOver(queued') \in Nat
    BY PacketsMove, SumIsNat DEF Books
  <2>3. free' + taken' + SumOver(queued') <= PoolSize
    BY <1>2 DEF Packets
  <2> QED
    BY <1>1, <2>1, <2>2, <2>3
<1>4. client' \in [Connections -> Nat] /\ SumOver(client') <= MaxClients
  <2>1. ASSUME NEW c \in Connections, Connected(c)
        PROVE  client' \in [Connections -> Nat] /\ SumOver(client') <= MaxClients
    <3>1. client' = [client EXCEPT ![c] = client[c] + 1] /\ SumOver(client) < MaxClients
      BY <2>1 DEF Connected
    <3>2. client[c] + 1 \in Nat /\ client[c] \in Nat
      BY <1>1
    <3>3. SumOver(client') = SumOver(client) - client[c] + (client[c] + 1)
      BY <1>1, <3>1, <3>2, SumChanges
    <3>4. SumOver(client) - client[c] + (client[c] + 1) <= MaxClients
      BY <1>1, <3>1, <3>2
    <3> QED
      BY <1>1, <3>1, <3>2, <3>3, <3>4
  <2>2. CASE UNCHANGED client
    BY <1>1, <2>2 DEF Books, Room
  <2>3. (\E c \in Connections : Connected(c)) \/ UNCHANGED client
    BY DEF SessionsNext, Callback, NewConnectionCallback, SetupWakes, ReceiveData, Disconnected,
           ConnectionEndCallback, NetworkStep, PeerLost, Acknowledged, WindowOpens, LoopBegins,
           MainStep, LoopVisits, LoopEnds, Allocate, AppendData, PacketWaitTimesOut, SendReturns,
           SendWhole, SendPart, SendSegment, SendFails, serverVars, allVars
  <2> QED
    BY <2>1, <2>2, <2>3
<1>5. client' \in [Connections -> 0 .. MaxClients]
  <2>1. \A a, b, n \in Nat : a <= b /\ b <= n => a \in 0 .. n
    OBVIOUS
  <2>2. SumOver(client') \in Nat /\ \A c \in Connections : client'[c] <= SumOver(client')
    BY <1>4, SumIsNat, SumBounds
  <2>3. \A c \in Connections : client'[c] \in 0 .. MaxClients
    BY <1>1, <1>4, <2>1, <2>2
  <2> QED
    BY <1>4, <2>3
<1> QED
  BY <1>2, <1>3, <1>4, <1>5 DEF Room

\* A client is numbered before its connection is announced, and keeps its number.
LEMMA NumberedInductive ==
  ASSUME LedgerInv, SessionsInv, Books, [SessionsNext]_allVars
  PROVE  Numbered'
<1>0. /\ client \in [Connections -> Nat] /\ Numbered
      /\ \A c \in Connections : None # <<"opened", c>>
  BY LedgerConstantsOK DEF SessionsInv, Shape, Books
<1>1. ASSUME NEW c \in Connections, Connected(c) PROVE Numbered'
  <2>1. /\ client' = [client EXCEPT ![c] = client[c] + 1] /\ client[c] + 1 > 0
        /\ change' = <<"opened", c>> /\ open' = open
    BY <1>0, <1>1 DEF Connected, CountOpened
  <2> QED
    BY <1>0, <2>1 DEF Numbered
<1>2. ASSUME NEW c \in Connections,
             \/ NewConnectionCallback(c) \/ SetupWakes(c) \/ ReceiveData(c)
             \/ Disconnected(c) \/ ConnectionEndCallback(c)
      PROVE  Numbered'
  <2>1. UNCHANGED client
    BY <1>2 DEF NewConnectionCallback, SetupWakes, ReceiveData, Disconnected,
                ConnectionEndCallback, serverVars
  <2>2. \A d \in Connections : d \in open' \/ change' = <<"opened", d>>
                                => d \in open \/ change = <<"opened", d>>
    BY <1>0, <1>2 DEF NewConnectionCallback, NewConnection, SetupWakes, ReceiveData, Disconnected,
                      CountClosed, ConnectionEndCallback, ConnectionEnd, serverVars
  <2> QED
    BY <1>0, <2>1, <2>2 DEF Numbered
<1>3. CASE NetworkStep \/ WindowOpens \/ LoopBegins \/ MainStep \/ UNCHANGED allVars
  <2>1. UNCHANGED serverVars
    BY <1>3 DEF NetworkStep, PeerLost, Acknowledged, WindowOpens, LoopBegins, MainStep, LoopVisits,
                LoopEnds, Allocate, AppendData, PacketWaitTimesOut, SendReturns, SendWhole,
                SendPart, SendSegment, SendFails, allVars
  <2> QED
    BY <1>0, <2>1 DEF Numbered, serverVars
<1> QED
  BY <1>1, <1>2, <1>3 DEF SessionsNext, Callback

\* What a session was asked to write fits its numbers: it is greeted once, prompted
\* once, and answers a line once.
LEMMA SessionsFitInductive ==
  ASSUME LedgerInv, SessionsInv, Books, [SessionsNext]_allVars
  PROVE  SessionsFit'
<1>0. /\ session \in [Connections -> Record \cup {None}] /\ size \in Nat /\ SessionsFit
      /\ None \notin Record /\ None \notin Connections
      /\ \A c \in Connections : session[c] # None => c \in open
  BY SessionExists DEF SessionsInv, SessionsFollow, HasSession, Shape, Books
<1>1. ASSUME UNCHANGED <<session, setup>> PROVE SessionsFit'
  BY <1>0, <1>1 DEF SessionsFit
<1>2. ASSUME NEW c \in Connections, NewConnectionCallback(c) PROVE SessionsFit'
  <2>1. change = <<"opened", c>> /\ setup = None
    BY <1>2 DEF NewConnectionCallback, NewConnection, ServerRuns
  <2>2. session[c] = None
    BY <1>0, <2>1 DEF LedgerInv, Orderly
  <2>3. client[c] \in 1 .. MaxClients
    BY <2>1, SessionConstantsOK DEF Books, Numbered, SessionsTypeOK
  <2>4. Fits(Written(NewSession(c)), 1)
    BY <2>3, GreetingFits DEF NewSession
  <2>5. CASE GetsSession(c)
    <3>1. session' = [session EXCEPT ![c] = Written(NewSession(c))] /\ setup' = c
      BY <1>0, <1>2, <2>2, <2>5 DEF NewConnectionCallback
    <3> QED
      BY <1>0, <2>1, <2>4, <3>1 DEF SessionsFit
  <2>6. CASE ~GetsSession(c)
    BY <1>1, <1>2, <2>1, <2>6 DEF NewConnectionCallback
  <2> QED
    BY <2>5, <2>6
<1>3. ASSUME NEW c \in Connections, SetupWakes(c) PROVE SessionsFit'
  <2>1. /\ session' = [session EXCEPT ![c] = Written(session[c])] /\ setup = c /\ setup' = None
        /\ session[c] # None
    BY <1>0, <1>3 DEF SetupWakes, SessionsInv, SetupHasSession, HasSession
  <2>2. Fits(Written(session[c]), 2)
    BY <1>0, <2>1, PromptFits DEF SessionsFit
  <2> QED
    BY <1>0, <2>1, <2>2 DEF SessionsFit
<1>4. ASSUME NEW c \in Connections, ReceiveData(c) PROVE SessionsFit'
  <2>1. /\ session[c] # None /\ session[c].lines < MaxLines
        /\ setup = None /\ setup' = None
    BY <1>4 DEF ReceiveData, HasSession, ServerRuns, serverVars
  <2>2. session' = [session EXCEPT ![c] = [session[c] EXCEPT !.rx = 1, !.lines = @ + 1]]
    BY <1>0, <1>4, <2>1 DEF ReceiveData, Record
  <2>3. Fits([session[c] EXCEPT !.rx = 1, !.lines = @ + 1], 2)
    BY <1>0, <2>1, LineFits DEF SessionsFit
  <2> QED
    BY <1>0, <2>1, <2>2, <2>3 DEF SessionsFit
<1>5. ASSUME NEW c \in Connections, ConnectionEndCallback(c) PROVE SessionsFit'
  BY <1>0, <1>5 DEF ConnectionEndCallback, SessionsFit
<1>6. ASSUME NEW c \in Connections, Connected(c) \/ Disconnected(c) PROVE SessionsFit'
  BY <1>1, <1>6 DEF Connected, Disconnected
<1>7. CASE LoopBegins
  <2>1. /\ setup' = setup
        /\ \A c \in Connections :
             session'[c] = IF session[c] # None /\ session[c].rx = 1
                           THEN [Written(session[c]) EXCEPT !.rx = 0] ELSE session[c]
    BY <1>7 DEF LoopBegins, HasSession, serverVars
  <2>2. \A c \in Connections : \A n \in {1, 2} :
          session[c] # None /\ session[c].rx = 1 /\ Fits(session[c], n)
            => Fits([Written(session[c]) EXCEPT !.rx = 0], n)
    BY AnswerFits
  <2> QED
    BY <1>0, <2>1, <2>2 DEF SessionsFit
<1>8. CASE SendWhole
  <2>1. setup' = setup
        /\ session' = IF session[at] # None /\ at \in Connections
                      THEN [session EXCEPT ![at] = Unsent(session[at])] ELSE session
    BY <1>8 DEF SendWhole, Removed, HasSession, serverVars
  <2>2. \A n : Fits(session[at], n) => Fits(Unsent(session[at]), n)
    BY <1>0, UnsentFits
  <2> QED
    BY <1>0, <2>1, <2>2 DEF SessionsFit
<1>9. CASE \/ NetworkStep \/ WindowOpens \/ (\E c \in Connections : LoopVisits(c)) \/ LoopEnds
           \/ Allocate \/ AppendData \/ PacketWaitTimesOut \/ SendPart \/ SendSegment
           \/ SendFails \/ UNCHANGED allVars
  <2>1. UNCHANGED <<session, setup>>
    BY <1>9 DEF NetworkStep, PeerLost, Acknowledged, WindowOpens, LoopVisits, LoopEnds, Allocate,
                AppendData, PacketWaitTimesOut, SendPart, SendSegment, SendFails, serverVars,
                allVars
  <2> QED
    BY <1>1, <2>1
<1> QED
  BY <1>2, <1>3, <1>4, <1>5, <1>6, <1>7, <1>8, <1>9
  DEF SessionsNext, Callback, MainStep, SendReturns

\* bufferSend takes its packets for a connection, one by one, and gives them back.
LEMMA SendingInductive ==
  ASSUME Books, [SessionsNext]_allVars
  PROVE  Sending'
<1> USE DEF Books, Sending, serverVars, netVars, sendVars
<1>1. CASE Callback \/ NetworkStep \/ UNCHANGED allVars
  <2>1. UNCHANGED loopVars
    BY <1>1 DEF Callback, Connected, NewConnectionCallback, SetupWakes, ReceiveData, Disconnected,
                ConnectionEndCallback, NetworkStep, PeerLost, Acknowledged, allVars
  <2> QED
    BY <2>1 DEF loopVars
<1>2. CASE LoopBegins \/ LoopEnds \/ \E c \in Connections : LoopVisits(c)
  BY <1>2 DEF LoopBegins, LoopEnds, LoopVisits
<1>3. CASE Allocate \/ AppendData \/ PacketWaitTimesOut
  BY <1>3 DEF Allocate, AppendData, PacketWaitTimesOut, BackToLoop
<1>4. CASE SendPart \/ SendSegment \/ WindowOpens
  BY <1>4 DEF SendPart, SendSegment, WindowOpens
<1>5. CASE SendWhole \/ SendFails
  BY <1>5 DEF SendWhole, SendFails, BackToLoop
<1> QED
  BY <1>1, <1>2, <1>3, <1>4, <1>5 DEF SessionsNext, MainStep, SendReturns

\* The types, given what the other parts say after the step.
LEMMA SessionsTypesInductive ==
  ASSUME SessionsInv, Books, [SessionsNext]_allVars, SessionsInv', SessionsFit'
  PROVE  SessionsTypeOK'
<1>1. /\ client' \in [Connections -> 0 .. MaxClients] /\ free' \in 0 .. PoolSize
      /\ queued' \in [Connections -> Nat] /\ taken' \in 0 .. 2
  BY RoomInductive, PacketsMove DEF Books
<1>2. /\ alive' \in SUBSET Connections /\ size' \in Nat
      /\ session' \in [Connections -> SessionRecord \cup {None}]
  <2>1. \A c \in Connections : session'[c] \in SessionRecord \cup {None}
    BY DEF SessionsFit, Fits
  <2> QED
    BY <2>1 DEF SessionsInv, Shape
<1> USE DEF serverVars, netVars, loopVars, sendVars
<1>3. setup' \in Connections \cup {None}
  BY DEF SessionsNext, Callback, Connected, NewConnectionCallback, SetupWakes, ReceiveData,
         Disconnected, ConnectionEndCallback, NetworkStep, PeerLost, Acknowledged, WindowOpens,
         LoopBegins, MainStep, LoopVisits, LoopEnds, Allocate, AppendData, PacketWaitTimesOut,
         SendReturns, SendWhole, SendPart, SendSegment, SendFails, allVars, Books, SessionsTypeOK
<1>4. /\ mainPc' \in {"idle", "visit", "allocate", "append", "send", "segment", "sendWait",
                      "opened"}
      /\ at' \in Connections \cup {None} /\ visit' \in SUBSET Connections
  <2>1. CASE Callback \/ NetworkStep \/ UNCHANGED allVars
    <3>1. UNCHANGED loopVars
      BY <2>1 DEF Callback, Connected, NewConnectionCallback, SetupWakes, ReceiveData,
                  Disconnected, ConnectionEndCallback, NetworkStep, PeerLost, Acknowledged,
                  allVars
    <3> QED
      BY <3>1 DEF Books, SessionsTypeOK
  <2>2. CASE WindowOpens \/ LoopBegins \/ MainStep
    BY <2>2 DEF WindowOpens, LoopBegins, MainStep, LoopVisits, LoopEnds, Allocate, AppendData,
                PacketWaitTimesOut, SendReturns, SendWhole, SendPart, SendSegment, SendFails,
                BackToLoop, HasSession, Books, SessionsTypeOK
  <2> QED
    BY <2>1, <2>2 DEF SessionsNext
<1>5. held' \in Seq(Outputs) /\ received' \in [Connections -> Seq(Outputs)]
  <2>0. /\ held \in Seq(Outputs) /\ received \in [Connections -> Seq(Outputs)]
        /\ <<>> \in Seq(Outputs)
    BY EmptySeq DEF Books, SessionsTypeOK
  <2>1. CASE UNCHANGED <<held, received>>
    BY <2>0, <2>1
  <2>2. ASSUME NEW c \in Connections, Connected(c)
        PROVE  held' \in Seq(Outputs) /\ received' \in [Connections -> Seq(Outputs)]
    BY <2>0, <2>2 DEF Connected
  <2>3. ASSUME NEW c \in Connections, LoopVisits(c)
        PROVE  held' \in Seq(Outputs) /\ received' \in [Connections -> Seq(Outputs)]
    <3>1. session[c].tx \in Seq(Outputs)
      BY <2>3 DEF LoopVisits, HasSession, Books, SessionsTypeOK, SessionRecord
    <3> QED
      BY <2>0, <2>3, <3>1 DEF LoopVisits
  <2>4. CASE SendWhole
    <3>1. at \in Connections /\ received[at] \o held \in Seq(Outputs)
      BY <2>0, <2>4, ConcatProperties DEF SendWhole, Books, Sending
    <3> QED
      BY <2>0, <2>4, <3>1 DEF SendWhole, BackToLoop
  <2>5. CASE SendSegment
    <3>1. at \in Connections /\ Len(held) > 1
      BY <2>5 DEF SendSegment, Books, Sending
    <3>2. held # <<>>
      BY <3>1, EmptySeq
    <3>3. Head(held) \in Outputs /\ Tail(held) \in Seq(Outputs)
      BY <2>0, <3>2, HeadTailProperties
    <3>4. Append(received[at], Head(held)) \in Seq(Outputs)
      BY <2>0, <3>1, <3>3, AppendProperties
    <3> QED
      BY <2>0, <2>5, <3>1, <3>3, <3>4 DEF SendSegment
  <2>6. CASE PacketWaitTimesOut \/ SendFails
    BY <2>0, <2>6 DEF PacketWaitTimesOut, SendFails, BackToLoop
  <2>7. ASSUME NEW c \in Connections,
               \/ NewConnectionCallback(c) \/ SetupWakes(c) \/ ReceiveData(c)
               \/ Disconnected(c) \/ ConnectionEndCallback(c) \/ PeerLost(c) \/ Acknowledged(c)
        PROVE  UNCHANGED <<held, received>>
    BY <2>7 DEF NewConnectionCallback, SetupWakes, ReceiveData, Disconnected,
                ConnectionEndCallback, PeerLost, Acknowledged, Ended
  <2>8. CASE WindowOpens \/ LoopBegins \/ LoopEnds \/ Allocate \/ AppendData \/ SendPart
             \/ UNCHANGED allVars
    BY <2>1, <2>8 DEF WindowOpens, LoopBegins, LoopEnds, Allocate, AppendData, SendPart, allVars
  <2> QED
    BY <2>1, <2>2, <2>3, <2>4, <2>5, <2>6, <2>7, <2>8
    DEF SessionsNext, Callback, NetworkStep, MainStep, SendReturns
<1> QED
  BY <1>1, <1>2, <1>3, <1>4, <1>5 DEF SessionsTypeOK

\* At the start every packet is in the pool, and nobody was there.
LEMMA BooksInitial == SessionsInit => Books
<1> SUFFICES ASSUME SessionsInit PROVE Books
  OBVIOUS
<1>1. /\ SumOver(queued) = 0 /\ SumOver(client) = 0
      /\ MaxClients \in Nat /\ PoolSize \in Nat
  BY SumOfZeros, SessionConstantsOK DEF SessionsInit
<1>2. \A c \in Connections : None # <<"opened", c>>
  BY LedgerConstantsOK
<1>3. SessionsTypeOK
  BY <1>1, EmptySeq DEF SessionsInit, SessionsTypeOK
<1>4. Room
  BY <1>1 DEF SessionsInit, Room, Packets
<1>5. Numbered /\ SessionsFit /\ Sending
  BY <1>2 DEF SessionsInit, Init, Numbered, SessionsFit, Sending
<1> QED
  BY <1>3, <1>4, <1>5 DEF Books

\* All of it holds throughout.
LEMMA BooksInvariant == SessionsSpec => [](LedgerInv /\ SessionsInv /\ Books)
<1>1. SessionsInit => LedgerInv /\ SessionsInv /\ Books
  BY LedgerInitial, SessionsInitial, BooksInitial DEF SessionsInit
<1>2. LedgerInv /\ SessionsInv /\ Books /\ [SessionsNext]_allVars
        => (LedgerInv /\ SessionsInv /\ Books)'
  <2> SUFFICES ASSUME LedgerInv, SessionsInv, Books, [SessionsNext]_allVars
               PROVE  LedgerInv' /\ SessionsInv' /\ Books'
    OBVIOUS
  <2>1. LedgerInv'
    BY LedgerInductive, LedgerStep DEF allVars, serverVars, vars
  <2>2. SessionsInv'
    BY SessionsInvInductive
  <2>3. Room' /\ Numbered' /\ SessionsFit' /\ Sending'
    BY RoomInductive, NumberedInductive, SessionsFitInductive, SendingInductive
  <2>4. SessionsTypeOK'
    BY <2>2, <2>3, SessionsTypesInductive
  <2> QED
    BY <2>1, <2>2, <2>3, <2>4 DEF Books
<1> QED
  BY <1>1, <1>2, PTL DEF SessionsSpec

\* The sessions, their outputs and the main thread have their types: in particular
\* the pool never has more packets than at the start, and a session writes no more
\* outputs than its client's lines account for.
THEOREM SessionsTypeCorrect == SessionsSpec => []TypeOK
<1>1. LedgerInv /\ SessionsInv /\ Books => TypeOK
  BY DEF LedgerInv, Books, TypeOK
<1> QED
  BY <1>1, BooksInvariant, PTL

\* bufferSend loses packets of the device's pool only when
\* nx_telnet_server_packet_send fails: every other way out of it, every
\* acknowledgement and every end of a connection gives them back.
THEOREM PacketsAreKept == SessionsSpec => PacketsKept
<1>1. LedgerInv /\ SessionsInv /\ Books /\ [SessionsNext]_allVars
        => [Packets' = Packets \/ SendFails]_allVars
  BY PacketsMove DEF Books
<1> QED
  BY <1>1, BooksInvariant, PTL DEF SessionsSpec, PacketsKept
=============================================================================
