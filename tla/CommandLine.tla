---------------------------- MODULE CommandLine ----------------------------
(***************************************************************************)
(* One connection from the wire to the command line: the packets that      *)
(* TelnetOptions leaves, Server::receive_data, the byte machine of         *)
(* LogicalConnectionMicrorl::loop, and the commands microrlExec hands to   *)
(* the worker.                                                             *)
(*                                                                         *)
(* The main thread, which runs the loop, has a higher priority than the    *)
(* server thread, which waits until the loop returns.                      *)
(*                                                                         *)
(* External: microrl, which collects a line and executes it at Enter; the  *)
(* parser, which knows the Commands; the worker and its contexts.          *)
(***************************************************************************)
EXTENDS TelnetOptions

CONSTANTS
  RxSize,        \* LIBSMART_STM32NETXTELNET_BUFFER_SIZE_RX
  Commands,      \* the lines that are commands
  Contexts       \* command contexts of the worker

ASSUME CommandLineConstantsOK ==
  /\ RxSize \in Nat
  /\ Commands \subseteq Seq(0 .. 255)
  /\ Contexts \in Nat \ {0}

Enter == 13

VARIABLES
  rx,       \* rxBuffer
  lost,     \* receive_data found no room, once or more
  looping,  \* the main thread is in loop()
  line,     \* state of the byte machine and of the command: see LineRecord
  others    \* contexts that other sessions use

lineVars == <<rx, lost, looping, line, others>>
vars == <<optionVars, lineVars>>

\* typed is all that microrl was given; cmd says whether the pointer is set;
\* running counts the contexts of this session.
LineRecord ==
  [iac : 0 .. 2, iacCmd : {0, 250}, typed : Seq(0 .. 255), cmd : BOOLEAN,
   running : 0 .. Contexts]

LineTypeOK ==
  /\ rx \in Seq(0 .. 255) /\ Len(rx) <= RxSize
  /\ lost \in BOOLEAN
  /\ looping \in BOOLEAN /\ (looping => rx # <<>>)
  /\ line \in LineRecord
  /\ others \in 0 .. Contexts

TypeOK == OptionsTypeOK /\ LineTypeOK

Init ==
  /\ OptionsInit
  /\ rx = <<>>
  /\ lost = FALSE
  /\ looping = FALSE
  /\ line = [iac |-> 0, iacCmd |-> 0, typed |-> <<>>, cmd |-> FALSE, running |-> 0]
  /\ others = 0

-----------------------------------------------------------------------------
(* Server::receive_data                                                    *)

\* As a bug: the room in the buffer is not checked.
ReceiveDataUnchecked(d) == rx' = rx \o d /\ UNCHANGED lost

ReceiveData(d) ==
  IF Len(d) <= RxSize - Len(rx)
  THEN rx' = rx \o d /\ UNCHANGED lost
  ELSE lost' = TRUE /\ UNCHANGED rx

DataArrives ==
  /\ PacketProcessed
  /\ ReceiveData(DataOf(Head(receiveQueue)))
  /\ UNCHANGED <<looping, line, others>>

-----------------------------------------------------------------------------
(* LogicalConnectionMicrorl::loop                                          *)

\* The line that the next Enter ends.
CurrentLine(typed) ==
  LET ends == {k \in DOMAIN typed : typed[k] = Enter}
  IN  SubSeq(typed, (IF ends = {} THEN 0 ELSE Max(ends)) + 1, Len(typed))

\* microrlExec: the command is set before its context is asked for; without one
\* it prints "Command buffer full".
Executed(s) ==
  [s EXCEPT !.cmd = TRUE,
            !.running = IF @ + others < Contexts THEN @ + 1 ELSE @]

\* microrl_processing_input of one character.
Typed(s, ch) ==
  LET t == [s EXCEPT !.typed = Append(@, ch)]
  IN  IF ch = Enter /\ CurrentLine(s.typed) \in Commands THEN Executed(t) ELSE t

\* As a bug: a doubled IAC is swallowed.
ByteReadNoEscape(s, ch) ==
  CASE s.iac = 0 /\ ch = IAC -> [s EXCEPT !.iac = 1]
    [] s.iac = 0 /\ ch # IAC -> Typed(s, ch)
    [] s.iac = 1 /\ (ch \in 240 .. 249 \cup WILL .. DONT \cup {IAC}) -> [s EXCEPT !.iac = 0]
    [] s.iac = 1 /\ ch = 250 -> [s EXCEPT !.iac = 2, !.iacCmd = ch]
    [] OTHER -> s

\* One byte.  WILL .. DONT set the machine back to data at once, in the test
\* that was meant for their option byte; a subnegotiation (250) is never left,
\* as the test for its end wants iac > 2; another byte after IAC is swallowed.
ByteRead(s, ch) ==
  CASE s.iac = 0 /\ ch = IAC -> [s EXCEPT !.iac = 1]
    [] s.iac = 0 /\ ch # IAC -> Typed(s, ch)
    [] s.iac = 1 /\ ch = IAC -> Typed([s EXCEPT !.iac = 0], ch)
    [] s.iac = 1 /\ ch \in 240 .. 249 \cup WILL .. DONT -> [s EXCEPT !.iac = 0, !.iacCmd = 0]
    [] s.iac = 1 /\ ch = 250 -> [s EXCEPT !.iac = 2, !.iacCmd = ch]
    [] OTHER -> s

\* loop() returns at once while a command runs.
LoopBegins ==
  /\ ~looping /\ ~line.cmd
  /\ rx # <<>>
  /\ looping' = TRUE
  /\ UNCHANGED <<optionVars, rx, lost, line, others>>

\* All that was received is read, whatever it starts.
LoopReads ==
  /\ looping
  /\ line' = ByteRead(line, Head(rx))
  /\ rx' = Tail(rx)
  /\ looping' = (Len(rx) > 1)
  /\ UNCHANGED <<optionVars, lost, others>>

Loop == LoopBegins \/ LoopReads

\* As a bug: the end of a command does not reset the pointer.
CommandEndsKept ==
  /\ line.running > 0
  /\ line' = [line EXCEPT !.running = @ - 1]
  /\ UNCHANGED <<optionVars, rx, lost, looping, others>>

\* The worker: onCmdEnd.
CommandEnds ==
  /\ line.running > 0
  /\ line' = [line EXCEPT !.running = @ - 1, !.cmd = FALSE]
  /\ UNCHANGED <<optionVars, rx, lost, looping, others>>

\* Commands of other sessions begin and end.
OthersChange ==
  /\ others' \in 0 .. Contexts - line.running
  /\ UNCHANGED <<optionVars, rx, lost, looping, line>>

-----------------------------------------------------------------------------
ServerThread ==
  /\ ~looping
  /\ \/ DataArrives
     \/ (DataProcessBegins \/ DataProcessEnds \/ PacketDropped) /\ UNCHANGED lineVars

ClientSends == \E p \in Segments : SegmentArrives(p) /\ UNCHANGED lineVars

Next == ClientSends \/ ServerThread \/ Loop \/ CommandEnds \/ OthersChange

Spec == Init /\ [][Next]_vars

\* The threads run and commands end.
FairSpec == Spec /\ WF_vars(ServerThread) /\ WF_vars(Loop) /\ WF_vars(CommandEnds)
-----------------------------------------------------------------------------
(* The reference: what a segment says, by the protocol (RFC 854).          *)

\* The data of p from its i-th byte on.
DataFrom(p) ==
  LET from[i \in 1 .. Len(p) + 2] ==
        CASE i > Len(p) -> <<>>
          [] i <= Len(p) /\ p[i] # IAC -> <<p[i]>> \o from[i + 1]
          [] i = Len(p) /\ p[i] = IAC -> <<>>
          [] i < Len(p) /\ p[i] = IAC /\ p[i + 1] = IAC -> <<IAC>> \o from[i + 2]
          [] i < Len(p) /\ p[i] = IAC /\ p[i + 1] \in WILL .. DONT ->
               from[IF i + 3 > Len(p) THEN Len(p) + 1 ELSE i + 3]
          [] OTHER -> from[i + 2]
  IN  from[1]

Sent ==
  LET first[k \in 0 .. Len(segments)] ==
        IF k = 0 THEN <<>> ELSE first[k - 1] \o DataFrom(segments[k])
  IN  first[Len(segments)]

\* t is s without some of its elements: each is found behind the one before.
IsSubsequence(t, s) ==
  LET found[k \in 0 .. Len(s)] ==
        IF k = 0 THEN 0
        ELSE LET n == found[k - 1] IN IF n < Len(t) /\ t[n + 1] = s[k] THEN n + 1 ELSE n
  IN  found[Len(s)] = Len(t)

\* Everything the client sent has been read, and nothing was thrown away.
Complete ==
  /\ receiveQueue = <<>> /\ rx = <<>>
  /\ ~lost /\ <<IAC>> \notin {segments[k] : k \in DOMAIN segments}

\* Up to TELNET commands the command line reads what the client sent: nothing else,
\* nothing twice, in order; and all of it when no buffer ran full.  Two machines
\* take the commands out, one for a packet that begins with an option and one
\* for the bytes of the session.
TypedIsSent ==
  /\ IsSubsequence(line.typed, Sent)
  /\ Complete => line.typed = Sent

\* The server echoes only for a client that answered DO to both requests.
Answered(opt) ==
  \E k \in DOMAIN segments : \E i \in 1 .. Len(segments[k]) - 2 :
    SubSeq(segments[k], i, i + 2) = <<IAC, DO, opt>>
EchoIsAgreed == remoteEcho => Answered(ECHO) /\ Answered(SGA)

\* data_process leaves packets in the queue only behind one that it dropped.
LeftBehindADrop ==
  ~processing /\ ~dataEvent /\ receiveQueue # <<>> =>
    LoneIac(segments[Len(segments) - Len(receiveQueue)])

\* What was received is read, as long as the other sessions leave a context: a
\* command that ran gives the connection back, also when two were started by
\* one call of the loop.
InputIsRead == [](others < Contexts) => (rx # <<>> ~> rx = <<>>)
-----------------------------------------------------------------------------
(* What the source says of the program and the code does not do.           *)

\* "Send character to microrl, if not in IAC mode", with "2 byte commands" among
\* those that are taken out: no byte of a command is read as data.
OnlyDataTyped == Complete => line.typed = Sent
=============================================================================
