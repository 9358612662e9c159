---------------------------- MODULE TelnetOptions ----------------------------
(***************************************************************************)
(* What the server thread does with the packets of one connection: the     *)
(* loop of _nx_telnet_server_data_process over the receive queue, and      *)
(* _nx_telnet_server_process_option.  A packet is a sequence of bytes; one *)
(* packet is not chained.                                                  *)
(***************************************************************************)
EXTENDS Naturals, Sequences, FiniteSetsExt

CONSTANTS
  Segments,     \* the packets the client may send
  MaxSegments   \* bound of the model: how many of them it sends

IAC  == 255
WILL == 251
DO   == 253
DONT == 254
ECHO == 1
SGA  == 3

ASSUME SegmentsOK ==
  /\ Segments \subseteq Seq(0 .. 255) \ {<<>>}
  /\ MaxSegments \in Nat

VARIABLES
  receiveQueue,  \* nx_tcp_socket_receive_queue: packets that wait
  dataEvent,     \* NX_TELNET_SERVER_DATA is set
  processing,    \* data_process is in its loop over this queue
  agreed,        \* the client agreed to these: the two _success flags
  remoteEcho,    \* nx_telnet_set_echo was called
  segments       \* what the client sent

optionVars == <<receiveQueue, dataEvent, processing, agreed, remoteEcho, segments>>

OptionsTypeOK ==
  /\ receiveQueue \in Seq(Segments)
  /\ dataEvent \in BOOLEAN
  /\ processing \in BOOLEAN
  /\ agreed \in SUBSET {ECHO, SGA}
  /\ remoteEcho \in BOOLEAN
  /\ segments \in Seq(Segments)

\* The option requests of a new connection were sent.
OptionsInit ==
  /\ receiveQueue = <<>>
  /\ dataEvent = FALSE
  /\ processing = FALSE
  /\ agreed = {}
  /\ remoteEcho = FALSE
  /\ segments = <<>>

-----------------------------------------------------------------------------
(* process_option and the loop that calls it.                              *)

\* The offsets, counted from 0, at which the loop finds an option: every third
\* byte, as long as each is IAC.
Options(p) ==
  {o \in 0 .. Len(p) - 1 : o % 3 = 0 /\ \A q \in 0 .. o : q % 3 = 0 => p[q + 1] = IAC}

\* Where the loop ends: after an option that is cut off, at the end.
Offset(p) == Min({Len(p), Max(Options(p)) + 3})

\* As a bug: any answer about an option is taken for an agreement.
AgreedByAny(p) ==
  {ECHO, SGA} \cap {p[o + 3] : o \in {x \in Options(p) : x + 2 < Len(p)}}

AgreedBy(p) ==
  {ECHO, SGA} \cap {p[o + 3] : o \in {x \in Options(p) : x + 2 < Len(p) /\ p[x + 2] = DO}}

Negotiates(p) == Len(p) > 1 /\ p[1] = IAC /\ p[2] \in WILL .. DONT

\* What is left for the application.
DataOf(p) == IF Negotiates(p) THEN SubSeq(p, Offset(p) + 1, Len(p)) ELSE p

-----------------------------------------------------------------------------
\* A packet arrives: the receive notification sets the event.
SegmentArrives(p) ==
  /\ Len(segments) < MaxSegments
  /\ segments' = Append(segments, p)
  /\ receiveQueue' = Append(receiveQueue, p)
  /\ dataEvent' = TRUE
  /\ UNCHANGED <<processing, agreed, remoteEcho>>

DataProcessBegins ==
  /\ dataEvent /\ ~processing
  /\ dataEvent' = FALSE
  /\ processing' = TRUE
  /\ UNCHANGED <<receiveQueue, agreed, remoteEcho, segments>>

\* The queue is empty: on to the next connection.
DataProcessEnds ==
  /\ processing /\ receiveQueue = <<>>
  /\ processing' = FALSE
  /\ UNCHANGED <<receiveQueue, dataEvent, agreed, remoteEcho, segments>>

\* A lone IAC is released, and the loop left.
LoneIac(p) == p = <<IAC>>
PacketDropped ==
  /\ processing /\ receiveQueue # <<>>
  /\ LoneIac(Head(receiveQueue))
  /\ receiveQueue' = Tail(receiveQueue)
  /\ processing' = FALSE
  /\ UNCHANGED <<dataEvent, agreed, remoteEcho, segments>>

\* As a bug: one packet is processed, not all of them.
PacketProcessedOnce ==
  /\ processing /\ receiveQueue # <<>>
  /\ ~LoneIac(Head(receiveQueue))
  /\ receiveQueue' = Tail(receiveQueue)
  /\ processing' = FALSE
  /\ UNCHANGED <<dataEvent, agreed, remoteEcho, segments>>

\* Every other packet: its options, then the echo; the rest goes to the
\* application.
PacketProcessed ==
  /\ processing /\ receiveQueue # <<>>
  /\ LET p == Head(receiveQueue)
         flags == IF Negotiates(p) THEN agreed \cup AgreedBy(p) ELSE agreed
     IN  /\ ~LoneIac(p)
         /\ agreed' = flags
         /\ remoteEcho' = (remoteEcho \/ (p[1] = IAC /\ flags = {ECHO, SGA}))
  /\ receiveQueue' = Tail(receiveQueue)
  /\ UNCHANGED <<dataEvent, processing, segments>>
=============================================================================
