-------------------------- MODULE CommandLineProofs --------------------------
(***************************************************************************)
(* One connection from the wire to the command line, for every set of      *)
(* segments, every buffer size and every set of commands: the types, the   *)
(* agreement behind the remote echo, and what data_process leaves in the   *)
(* receive queue.                                                          *)
(*                                                                         *)
(* The receive queue is the end of what the client sent, and an option     *)
(* that counts as agreed was found in a part of it.                        *)
(***************************************************************************)
EXTENDS CommandLine, SequenceTheorems, WellFoundedInduction, TLAPS

-----------------------------------------------------------------------------
(* Least and greatest elements: Min and Max choose one when there is one.  *)

\* A set of numbers has a least element.
LEMMA Least ==
  ASSUME NEW T \in SUBSET Nat, T # {}
  PROVE  \E n \in T : \A m \in T : n <= m
<1>1. \E x \in T : \A y \in T : ~(<<y, x>> \in OpToRel(<, Nat))
  BY WFMin, NatLessThanWellFounded
<1>2. PICK x \in T : \A y \in T : ~(<<y, x>> \in OpToRel(<, Nat))
  BY <1>1
<1>3. x \in Nat /\ \A y \in T : y \in Nat /\ ~(y < x)
  BY <1>2 DEF OpToRel
<1>4. \A m \in T : x <= m
  BY <1>3
<1> QED
  BY <1>4

\* A bounded one has a greatest, which is its Max.
LEMMA MaxIsGreatest ==
  ASSUME NEW n \in Nat, NEW T \in SUBSET (0 .. n), T # {}
  PROVE  Max(T) \in T
<1> DEFINE Below == {d \in 0 .. n : n - d \in T}
<1>1. Below \in SUBSET Nat /\ Below # {}
  <2>1. PICK m \in T : TRUE
    OBVIOUS
  <2>2. m \in 0 .. n /\ n - m \in 0 .. n /\ n - (n - m) = m
    BY <2>1
  <2>3. n - m \in Below
    BY <2>1, <2>2
  <2> QED
    BY <2>3
<1>2. PICK d \in Below : \A e \in Below : d <= e
  BY <1>1, Least
<1>3. \A m \in T : n - d >= m
  <2> TAKE m \in T
  <2>1. m \in 0 .. n /\ n - m \in 0 .. n /\ n - (n - m) = m
    OBVIOUS
  <2>2. d <= n - m
    BY <1>2, <2>1
  <2> QED
    BY <2>1, <2>2
<1> QED
  BY <1>2, <1>3 DEF Max

-----------------------------------------------------------------------------
(* The types.                                                              *)

\* What is left of a packet for the application is a sequence of bytes.
LEMMA DataIsBytes ==
  ASSUME NEW p \in Segments
  PROVE  DataOf(p) \in Seq(0 .. 255)
<1>0. p \in Seq(0 .. 255) /\ Len(p) \in Nat
  BY SegmentsOK, LenProperties
<1>1. CASE ~Negotiates(p)
  BY <1>0, <1>1 DEF DataOf
<1>2. CASE Negotiates(p)
  <2>1. Len(p) > 1 /\ p[1] = IAC
    BY <1>2 DEF Negotiates
  <2>2. 0 \in Options(p) /\ Options(p) \in SUBSET (0 .. (Len(p) - 1)) /\ Len(p) - 1 \in Nat
    BY <1>0, <2>1 DEF Options
  <2>3. Max(Options(p)) \in Nat
    <3>1. Max(Options(p)) \in Options(p)
      BY <2>2, MaxIsGreatest
    <3> QED
      BY <2>2, <3>1
  <2>4. {Len(p), Max(Options(p)) + 3} \in SUBSET Nat
    BY <1>0, <2>3
  <2>5. Offset(p) \in {Len(p), Max(Options(p)) + 3}
    BY <2>4, Least DEF Offset, Min
  <2>6. Offset(p) \in Nat
    BY <2>4, <2>5
  <2>7. \A i \in Offset(p) + 1 .. Len(p) : p[i] \in 0 .. 255
    BY <1>0, <2>6, ElementOfSeq
  <2> QED
    BY <1>0, <1>2, <2>6, <2>7, SubSeqProperties DEF DataOf
<1> QED
  BY <1>1, <1>2

\* receive_data never overfills the receive buffer.
LEMMA ReceiveDataFits ==
  ASSUME LineTypeOK, NEW d \in Seq(0 .. 255), ReceiveData(d)
  PROVE  /\ rx' \in Seq(0 .. 255) /\ Len(rx') <= RxSize
         /\ lost' \in BOOLEAN
         /\ rx # <<>> => rx' # <<>>
<1>1. /\ rx \o d \in Seq(0 .. 255)
      /\ Len(rx \o d) = Len(rx) + Len(d) /\ Len(rx) \in Nat /\ Len(d) \in Nat
  BY ConcatProperties, LenProperties DEF LineTypeOK
<1>2. rx # <<>> => rx \o d # <<>>
  BY <1>1, EmptySeq DEF LineTypeOK
<1>3. CASE Len(d) <= RxSize - Len(rx)
  <2>1. rx' = rx \o d /\ UNCHANGED lost
    BY <1>3 DEF ReceiveData
  <2>2. Len(rx \o d) <= RxSize
    BY <1>1, <1>3, CommandLineConstantsOK
  <2> QED
    BY <1>1, <1>2, <2>1, <2>2 DEF LineTypeOK
<1>4. CASE ~(Len(d) <= RxSize - Len(rx))
  BY <1>4 DEF ReceiveData, LineTypeOK
<1> QED
  BY <1>3, <1>4

\* A command that ends or begins changes two fields of the line.
LEMMA CommandTypes ==
  ASSUME NEW s \in LineRecord, NEW c \in BOOLEAN, NEW n \in 0 .. Contexts
  PROVE  [s EXCEPT !.cmd = c, !.running = n] \in LineRecord
<1>1. [s EXCEPT !.cmd = c, !.running = n] = [[s EXCEPT !.cmd = c] EXCEPT !.running = n]
  OBVIOUS
<1>2. [s EXCEPT !.cmd = c] \in LineRecord
  BY DEF LineRecord
<1>3. \A r \in LineRecord : [r EXCEPT !.running = n] \in LineRecord
  BY DEF LineRecord
<1> QED
  BY <1>1, <1>2, <1>3

\* So does a byte of a TELNET command.
LEMMA IacTypes ==
  ASSUME NEW s \in LineRecord, NEW n \in 0 .. 2, NEW c \in {0, 250}
  PROVE  [s EXCEPT !.iac = n, !.iacCmd = c] \in LineRecord
<1>1. [s EXCEPT !.iac = n, !.iacCmd = c] = [[s EXCEPT !.iac = n] EXCEPT !.iacCmd = c]
  OBVIOUS
<1>2. [s EXCEPT !.iac = n] \in LineRecord
  BY DEF LineRecord
<1>3. ASSUME NEW r \in LineRecord PROVE [r EXCEPT !.iacCmd = c] \in LineRecord
  BY DEF LineRecord
<1> QED
  BY <1>1, <1>2, <1>3

\* The byte machine keeps its types, whatever it reads.
LEMMA ByteReadTypes ==
  ASSUME NEW s \in LineRecord, NEW ch \in 0 .. 255, others \in 0 .. Contexts
  PROVE  ByteRead(s, ch) \in LineRecord
<1>1. ASSUME NEW t \in LineRecord PROVE Typed(t, ch) \in LineRecord
  <2>1. Append(t.typed, ch) \in Seq(0 .. 255)
    BY <1>1, AppendProperties DEF LineRecord
  <2>2. [t EXCEPT !.typed = Append(@, ch)] \in LineRecord
    BY <2>1 DEF LineRecord
  <2>3. ASSUME NEW u \in LineRecord PROVE Executed(u) \in LineRecord
    <3> DEFINE r == IF u.running + others < Contexts THEN u.running + 1 ELSE u.running
    <3>1. u.running \in 0 .. Contexts
      BY DEF LineRecord
    <3>2. r \in 0 .. Contexts
      BY <3>1, CommandLineConstantsOK
    <3>3. Executed(u) = [u EXCEPT !.cmd = TRUE, !.running = r]
      BY DEF Executed
    <3> HIDE DEF r
    <3> QED
      BY <3>2, <3>3, CommandTypes
  <2> QED
    BY <2>2, <2>3 DEF Typed
<1>2. [s EXCEPT !.iac = 1] \in LineRecord /\ [s EXCEPT !.iac = 0] \in LineRecord
  BY DEF LineRecord
<1>3. \A n \in 0 .. 2 : \A c \in {0, 250} : [s EXCEPT !.iac = n, !.iacCmd = c] \in LineRecord
  BY IacTypes
<1>4. 0 \in 0 .. 2 /\ 2 \in 0 .. 2 /\ 0 \in {0, 250} /\ 250 \in {0, 250}
  OBVIOUS
<1>5. CASE s.iac = 0
  BY <1>1, <1>2, <1>5 DEF ByteRead
<1>6. CASE s.iac = 1
  <2>1. CASE ch = IAC
    BY <1>1, <1>2, <1>6, <2>1 DEF ByteRead, IAC, WILL, DONT
  <2>2. CASE ch \in 240 .. 249 \cup WILL .. DONT
    BY <1>3, <1>4, <1>6, <2>2 DEF ByteRead, IAC, WILL, DONT
  <2>3. CASE ch = 250
    BY <1>3, <1>4, <1>6, <2>3 DEF ByteRead, IAC, WILL, DONT
  <2>4. CASE ch # IAC /\ ch \notin 240 .. 249 \cup WILL .. DONT /\ ch # 250
    BY <1>6, <2>4 DEF ByteRead
  <2> QED
    BY <2>1, <2>2, <2>3, <2>4
<1>7. CASE s.iac # 0 /\ s.iac # 1
  BY <1>7 DEF ByteRead
<1> QED
  BY <1>5, <1>6, <1>7

\* A packet is taken out of the queue, and its bytes are received.
LEMMA DataArrivesTypes ==
  ASSUME TypeOK, DataArrives, ~looping
  PROVE  TypeOK'
<1> USE DEF TypeOK, OptionsTypeOK, DataArrives, PacketProcessed
<1>1. /\ Head(receiveQueue) \in Segments
      /\ Tail(receiveQueue) \in Seq(Segments)
  BY HeadTailProperties
<1>2. DataOf(Head(receiveQueue)) \in Seq(0 .. 255)
  BY <1>1, DataIsBytes
<1>3. LineTypeOK'
  BY <1>2, ReceiveDataFits DEF LineTypeOK
<1>4. agreed' \in SUBSET {ECHO, SGA} /\ remoteEcho' \in BOOLEAN
  BY DEF AgreedBy
<1> QED
  BY <1>1, <1>3, <1>4

\* Every step keeps the types.
LEMMA TypesInductive == TypeOK /\ [Next]_vars => TypeOK'
<1> SUFFICES ASSUME TypeOK, [Next]_vars PROVE TypeOK'
  OBVIOUS
<1> USE DEF TypeOK, OptionsTypeOK, optionVars, lineVars
<1>1. CASE ClientSends
  <2>1. PICK p \in Segments : SegmentArrives(p) /\ UNCHANGED lineVars
    BY <1>1 DEF ClientSends
  <2>2. Append(segments, p) \in Seq(Segments) /\ Append(receiveQueue, p) \in Seq(Segments)
    BY AppendProperties
  <2> QED
    BY <2>1, <2>2 DEF SegmentArrives, LineTypeOK
<1>2. CASE ServerThread
  <2>1. CASE ~looping /\ DataArrives
    BY <2>1, DataArrivesTypes
  <2>2. CASE DataProcessBegins /\ UNCHANGED lineVars
    BY <2>2 DEF DataProcessBegins, LineTypeOK
  <2>3. CASE DataProcessEnds /\ UNCHANGED lineVars
    BY <2>3 DEF DataProcessEnds, LineTypeOK
  <2>4. CASE PacketDropped /\ UNCHANGED lineVars
    BY <2>4, HeadTailProperties DEF PacketDropped, LineTypeOK
  <2> QED
    BY <1>2, <2>1, <2>2, <2>3, <2>4 DEF ServerThread
<1>3. CASE LoopBegins
  BY <1>3 DEF LoopBegins, LineTypeOK
<1>4. CASE LoopReads
  <2>0. rx \in Seq(0 .. 255) /\ rx # <<>> /\ Len(rx) <= RxSize
    BY <1>4 DEF LoopReads, LineTypeOK
  <2>1. /\ Head(rx) \in 0 .. 255 /\ Tail(rx) \in Seq(0 .. 255)
        /\ Len(Tail(rx)) = Len(rx) - 1 /\ Len(rx) \in Nat
    BY <2>0, HeadTailProperties, LenProperties
  <2>2. line' \in LineRecord
    BY <1>4, <2>1, ByteReadTypes DEF LoopReads, LineTypeOK
  <2>3. Len(rx) > 1 => Tail(rx) # <<>>
    <3>1. Len(rx) > 1 => Len(Tail(rx)) # 0
      BY <2>1
    <3> QED
      BY <3>1, EmptySeq
  <2>4. Len(Tail(rx)) <= RxSize
    BY <2>0, <2>1, CommandLineConstantsOK
  <2>5. LineTypeOK'
    <3>1. rx' = Tail(rx) /\ looping' = (Len(rx) > 1) /\ UNCHANGED <<lost, others>>
      BY <1>4 DEF LoopReads
    <3>2. (looping' => rx' # <<>>) /\ looping' \in BOOLEAN
      <4>1. CASE Len(rx) > 1
        <5>1. looping' = TRUE
          BY <3>1, <4>1, Zenon
        <5> QED
          BY <3>1, <4>1, <5>1, <2>3
      <4>2. CASE ~(Len(rx) > 1)
        <5>1. (Len(rx) > 1) = FALSE
          BY <4>2
        <5>2. looping' = FALSE
          BY <3>1, <5>1
        <5> QED
          BY <5>2
      <4> QED
        BY <4>1, <4>2
    <3>3. rx' \in Seq(0 .. 255) /\ Len(rx') <= RxSize
      BY <3>1, <2>1, <2>4
    <3> QED
      BY <3>1, <3>2, <3>3, <2>2 DEF LineTypeOK
  <2> QED
    BY <1>4, <2>5 DEF LoopReads
<1>5. CASE CommandEnds
  <2>1. line.running \in 0 .. Contexts /\ line.running > 0
    BY <1>5 DEF CommandEnds, LineTypeOK, LineRecord
  <2>2. line.running - 1 \in 0 .. Contexts
    BY <2>1, CommandLineConstantsOK
  <2>3. line' = [line EXCEPT !.cmd = FALSE, !.running = line.running - 1]
    BY <1>5 DEF CommandEnds
  <2>4. line' \in LineRecord
    BY <2>2, <2>3, CommandTypes DEF LineTypeOK
  <2> QED
    BY <1>5, <2>4 DEF CommandEnds, LineTypeOK
<1>6. CASE OthersChange
  <2>1. line.running \in 0 .. Contexts
    BY DEF LineTypeOK, LineRecord
  <2>2. others' \in 0 .. Contexts
    BY <1>6, <2>1, CommandLineConstantsOK DEF OthersChange
  <2> QED
    BY <1>6, <2>2 DEF OthersChange, LineTypeOK
<1>7. CASE UNCHANGED vars
  BY <1>7 DEF vars, LineTypeOK
<1> QED
  BY <1>1, <1>2, <1>3, <1>4, <1>5, <1>6, <1>7 DEF Next, Loop

\* Initially nothing was sent, received or typed.
LEMMA TypesInitial == Init => TypeOK
<1> SUFFICES ASSUME Init PROVE TypeOK
  OBVIOUS
<1>1. \A S : <<>> \in Seq(S) /\ Len(<<>>) = 0
  BY EmptySeq
<1>2. OptionsTypeOK
  BY <1>1 DEF Init, OptionsInit, OptionsTypeOK
<1>3. 0 \in 0 .. Contexts /\ 0 <= RxSize
  BY CommandLineConstantsOK
<1>4. line \in LineRecord
  BY <1>1, <1>3 DEF Init, LineRecord
<1>5. LineTypeOK
  BY <1>1, <1>3, <1>4 DEF Init, LineTypeOK
<1> QED
  BY <1>2, <1>5 DEF TypeOK

\* The variables keep their types; in particular the receive buffer is never
\* overfilled, and no session holds more contexts than there are.
THEOREM CommandLineTypes == Spec => []TypeOK
  BY TypesInitial, TypesInductive, PTL DEF Spec

-----------------------------------------------------------------------------
(* The receive queue and the options.                                      *)

\* The queue is the end of what the client sent.
QueueIsSuffix ==
  /\ Len(receiveQueue) <= Len(segments)
  /\ \A k \in 1 .. Len(receiveQueue) :
       receiveQueue[k] = segments[Len(segments) - Len(receiveQueue) + k]

\* What counts as agreed the client sent, and the echo is set when all is agreed.
AgreedWasSent ==
  /\ \A opt \in agreed : Answered(opt)
  /\ remoteEcho => ECHO \in agreed /\ SGA \in agreed

\* The oldest packet of the queue is taken out.
LEMMA SuffixShrinks ==
  ASSUME TypeOK, QueueIsSuffix, receiveQueue # <<>>,
         receiveQueue' = Tail(receiveQueue), UNCHANGED segments
  PROVE  /\ QueueIsSuffix'
         /\ Len(segments) - Len(receiveQueue) + 1 \in DOMAIN segments
         /\ Head(receiveQueue) = segments[Len(segments) - Len(receiveQueue) + 1]
         /\ Len(segments') - Len(receiveQueue') = Len(segments) - Len(receiveQueue) + 1
<1>1. /\ receiveQueue \in Seq(Segments) /\ segments \in Seq(Segments)
      /\ Len(receiveQueue) \in Nat \ {0} /\ Len(segments) \in Nat
      /\ DOMAIN segments = 1 .. Len(segments)
  BY EmptySeq, LenProperties DEF TypeOK, OptionsTypeOK
<1>2. /\ Len(Tail(receiveQueue)) = Len(receiveQueue) - 1
      /\ \A k \in 1 .. Len(Tail(receiveQueue)) : Tail(receiveQueue)[k] = receiveQueue[k + 1]
  BY <1>1, HeadTailProperties
<1>3. Head(receiveQueue) = receiveQueue[1]
  BY <1>1
<1>4. ASSUME NEW k \in 1 .. Len(receiveQueue')
      PROVE  receiveQueue'[k] = segments[Len(segments) - Len(receiveQueue') + k]
  <2>1. k + 1 \in 1 .. Len(receiveQueue)
    BY <1>1, <1>2
  <2>2. receiveQueue'[k] = receiveQueue[k + 1]
    BY <1>2
  <2>3. Len(segments) - Len(receiveQueue') + k = Len(segments) - Len(receiveQueue) + (k + 1)
    BY <1>1, <1>2
  <2> QED
    BY <2>1, <2>2, <2>3 DEF QueueIsSuffix
<1> QED
  BY <1>1, <1>2, <1>3, <1>4 DEF QueueIsSuffix

\* A packet joins both ends.
LEMMA SuffixGrows ==
  ASSUME TypeOK, QueueIsSuffix, NEW p \in Segments, SegmentArrives(p)
  PROVE  QueueIsSuffix' /\ Len(receiveQueue') # 0
<1>1. /\ receiveQueue \in Seq(Segments) /\ segments \in Seq(Segments)
      /\ Len(receiveQueue) \in Nat /\ Len(segments) \in Nat
  BY LenProperties DEF TypeOK, OptionsTypeOK
<1>2. /\ Len(receiveQueue') = Len(receiveQueue) + 1 /\ Len(segments') = Len(segments) + 1
      /\ \A k \in 1 .. Len(receiveQueue) : receiveQueue'[k] = receiveQueue[k]
      /\ \A k \in 1 .. Len(segments) : segments'[k] = segments[k]
      /\ receiveQueue'[Len(receiveQueue) + 1] = p /\ segments'[Len(segments) + 1] = p
  BY <1>1, AppendProperties DEF SegmentArrives
<1>3. ASSUME NEW k \in 1 .. Len(receiveQueue')
      PROVE  receiveQueue'[k] = segments'[Len(segments') - Len(receiveQueue') + k]
  <2>1. CASE k = Len(receiveQueue) + 1
    BY <1>1, <1>2, <2>1 DEF QueueIsSuffix
  <2>2. CASE k # Len(receiveQueue) + 1
    <3>1. k \in 1 .. Len(receiveQueue)
      BY <1>1, <1>2, <2>2
    <3>2. Len(segments) - Len(receiveQueue) + k \in 1 .. Len(segments)
      BY <1>1, <3>1 DEF QueueIsSuffix
    <3>3. Len(segments') - Len(receiveQueue') + k = Len(segments) - Len(receiveQueue) + k
      BY <1>1, <1>2
    <3> QED
      BY <1>2, <3>1, <3>2, <3>3 DEF QueueIsSuffix
  <2> QED
    BY <2>1, <2>2
<1> QED
  BY <1>1, <1>2, <1>3 DEF QueueIsSuffix

\* What was answered stays answered.
LEMMA AnsweredStays ==
  ASSUME TypeOK, NEW opt, Answered(opt), NEW p \in Segments, SegmentArrives(p)
  PROVE  Answered(opt)'
<1>1. PICK k \in DOMAIN segments : \E i \in 1 .. Len(segments[k]) - 2 :
        SubSeq(segments[k], i, i + 2) = <<IAC, DO, opt>>
  BY DEF Answered
<1>2. k \in DOMAIN segments' /\ segments'[k] = segments[k]
  <2>1. segments' = Append(segments, p) /\ segments \in Seq(Segments)
    BY DEF SegmentArrives, TypeOK, OptionsTypeOK
  <2>2. DOMAIN segments = 1 .. Len(segments) /\ Len(segments) \in Nat
    BY <2>1, LenProperties
  <2>3. /\ segments' \in Seq(Segments) /\ Len(segments') = Len(segments) + 1
        /\ \A j \in 1 .. Len(segments) : segments'[j] = segments[j]
    BY <2>1, AppendProperties
  <2>4. DOMAIN segments' = 1 .. Len(segments')
    BY <2>3, LenProperties
  <2> QED
    BY <2>2, <2>3, <2>4
<1> QED
  BY <1>1, <1>2 DEF Answered

\* An option is agreed to by the bytes IAC DO and the option, somewhere in a packet.
LEMMA AgreedByBytes ==
  ASSUME NEW p \in Segments, NEW opt \in AgreedBy(p)
  PROVE  \E i \in 1 .. Len(p) - 2 : SubSeq(p, i, i + 2) = <<IAC, DO, opt>>
<1>0. p \in Seq(0 .. 255) /\ Len(p) \in Nat
  BY SegmentsOK, LenProperties
<1>1. PICK o \in Options(p) : o + 2 < Len(p) /\ p[o + 2] = DO /\ p[o + 3] = opt
  BY DEF AgreedBy
<1>2. o \in 0 .. Len(p) - 1 /\ o % 3 = 0 /\ p[o + 1] = IAC
  BY <1>0, <1>1 DEF Options
<1>3. o + 1 \in 1 .. Len(p) - 2 /\ o \in Nat
  BY <1>0, <1>1, <1>2
<1>4. /\ Len(SubSeq(p, o + 1, o + 3)) = 3
      /\ SubSeq(p, o + 1, o + 3) \in Seq(0 .. 255)
      /\ SubSeq(p, o + 1, o + 3)[1] = IAC
      /\ SubSeq(p, o + 1, o + 3)[2] = DO
      /\ SubSeq(p, o + 1, o + 3)[3] = opt
  <2>1. \A i \in o + 1 .. o + 3 : p[i] \in 0 .. 255
    <3>1. ASSUME NEW i \in o + 1 .. o + 3 PROVE i \in 1 .. Len(p)
      BY <1>0, <1>3
    <3> QED
      BY <1>0, <3>1, ElementOfSeq
  <2>2. /\ SubSeq(p, o + 1, o + 3) \in Seq(0 .. 255)
        /\ Len(SubSeq(p, o + 1, o + 3)) =
             IF o + 1 <= o + 3 THEN (o + 3) - (o + 1) + 1 ELSE 0
        /\ \A i \in 1 .. (o + 3) - (o + 1) + 1 :
             SubSeq(p, o + 1, o + 3)[i] = p[(o + 1) + i - 1]
    BY <1>3, <2>1, SubSeqProperties
  <2>3. (o + 3) - (o + 1) + 1 = 3 /\ o + 1 <= o + 3
    BY <1>3
  <2>4. (o + 1) + 1 - 1 = o + 1 /\ (o + 1) + 2 - 1 = o + 2 /\ (o + 1) + 3 - 1 = o + 3
    BY <1>3
  <2>5. 1 \in 1 .. 3 /\ 2 \in 1 .. 3 /\ 3 \in 1 .. 3
    OBVIOUS
  <2>6. /\ SubSeq(p, o + 1, o + 3)[1] = p[o + 1]
        /\ SubSeq(p, o + 1, o + 3)[2] = p[o + 2]
        /\ SubSeq(p, o + 1, o + 3)[3] = p[o + 3]
    BY <2>2, <2>3, <2>4, <2>5
  <2>7. Len(SubSeq(p, o + 1, o + 3)) = 3
    BY <2>2, <2>3
  <2> QED
    BY <1>1, <1>2, <2>2, <2>6, <2>7
<1>5. SubSeq(p, o + 1, o + 3) = <<IAC, DO, opt>>
  <2> DEFINE s == SubSeq(p, o + 1, o + 3)
             t == <<IAC, DO, opt>>
  <2>1. opt \in 0 .. 255 /\ IAC \in 0 .. 255 /\ DO \in 0 .. 255
    BY DEF AgreedBy, ECHO, SGA, IAC, DO
  <2>2. t \in Seq(0 .. 255) /\ Len(t) = 3 /\ t[1] = IAC /\ t[2] = DO /\ t[3] = opt
    BY <2>1
  <2>3. \A i \in 1 .. 3 : i = 1 \/ i = 2 \/ i = 3
    OBVIOUS
  <2>4. \A i \in 1 .. 3 : s[i] = t[i]
    BY <1>4, <2>2, <2>3
  <2> HIDE DEF s, t
  <2>5. s = t
    <3>1. s \in Seq(0 .. 255) /\ Len(s) = Len(t)
      BY <1>4, <2>2 DEF s
    <3>2. \A i \in 1 .. Len(s) : s[i] = t[i]
      BY <2>2, <2>4, <3>1
    <3> QED
      BY <2>2, <3>1, <3>2, SeqEqual
  <2> QED
    BY <2>5 DEF s, t
<1>6. (o + 1) + 2 = o + 3
  BY <1>3
<1> QED
  BY <1>3, <1>5, <1>6

\* The loop of data_process records what the packet at the head says.
LEMMA ProcessedWasSent ==
  ASSUME TypeOK, QueueIsSuffix, AgreedWasSent, PacketProcessed
  PROVE  AgreedWasSent'
<1> DEFINE p == Head(receiveQueue)
<1> DEFINE flags == IF Negotiates(p) THEN agreed \cup AgreedBy(p) ELSE agreed
<1>1. /\ receiveQueue # <<>> /\ receiveQueue' = Tail(receiveQueue)
      /\ UNCHANGED segments
      /\ agreed' = flags
      /\ remoteEcho' = (remoteEcho \/ (p[1] = IAC /\ flags = {ECHO, SGA}))
  BY DEF PacketProcessed
<1>2. /\ Len(segments) - Len(receiveQueue) + 1 \in DOMAIN segments
      /\ p = segments[Len(segments) - Len(receiveQueue) + 1]
  BY <1>1, SuffixShrinks
<1>3. p \in Segments
  BY <1>1, HeadTailProperties DEF TypeOK, OptionsTypeOK
<1>4. \A opt \in AgreedBy(p) : Answered(opt)
  BY <1>2, <1>3, AgreedByBytes DEF Answered
<1>5. \A opt \in agreed' : Answered(opt)'
  <2>1. \A opt \in agreed' : Answered(opt)
    BY <1>1, <1>4 DEF AgreedWasSent
  <2> QED
    BY <1>1, <2>1 DEF Answered
<1>6. ASSUME remoteEcho' PROVE ECHO \in agreed' /\ SGA \in agreed'
  <2>1. CASE remoteEcho
    BY <1>1, <2>1 DEF AgreedWasSent
  <2>2. CASE flags = {ECHO, SGA}
    BY <1>1, <2>2
  <2> QED
    BY <1>1, <1>6, <2>1, <2>2, Zenon
<1> QED
  BY <1>5, <1>6 DEF AgreedWasSent

\* Nothing else changes what is agreed.
LEMMA AgreedInductive ==
  ASSUME TypeOK, QueueIsSuffix, AgreedWasSent, [Next]_vars
  PROVE  AgreedWasSent'
<1> DEFINE Same == UNCHANGED <<agreed, remoteEcho, segments>>
<1>1. ASSUME Same PROVE AgreedWasSent'
  BY <1>1 DEF AgreedWasSent, Answered
<1>2. ASSUME ClientSends PROVE AgreedWasSent'
  <2>1. PICK p \in Segments : SegmentArrives(p)
    BY <1>2 DEF ClientSends
  <2>2. agreed' = agreed /\ remoteEcho' = remoteEcho
    BY <2>1 DEF SegmentArrives
  <2>3. ASSUME NEW opt \in agreed PROVE Answered(opt)'
    BY <2>1, <2>3, AnsweredStays DEF AgreedWasSent
  <2> QED
    BY <2>2, <2>3 DEF AgreedWasSent
<1>3. ASSUME DataArrives PROVE AgreedWasSent'
  BY <1>3, ProcessedWasSent DEF DataArrives
<1>4. ASSUME DataProcessBegins \/ DataProcessEnds \/ PacketDropped PROVE Same
  BY <1>4 DEF DataProcessBegins, DataProcessEnds, PacketDropped
<1>5. ASSUME Loop \/ CommandEnds \/ OthersChange PROVE Same
  BY <1>5 DEF Loop, LoopBegins, LoopReads, CommandEnds, OthersChange, optionVars
<1>6. ASSUME UNCHANGED vars PROVE Same
  BY <1>6 DEF vars, optionVars
<1> QED
  BY <1>1, <1>2, <1>3, <1>4, <1>5, <1>6 DEF Next, ServerThread

\* The queue stays the end of what was sent.
LEMMA SuffixInductive ==
  ASSUME TypeOK, QueueIsSuffix, [Next]_vars
  PROVE  QueueIsSuffix'
<1> DEFINE Same == UNCHANGED <<receiveQueue, segments>>
<1> DEFINE Out == /\ receiveQueue # <<>> /\ receiveQueue' = Tail(receiveQueue)
                  /\ UNCHANGED segments
<1>1. ASSUME Same PROVE QueueIsSuffix'
  BY <1>1 DEF QueueIsSuffix
<1>2. ASSUME Out PROVE QueueIsSuffix'
  BY <1>2, SuffixShrinks
<1>3. ASSUME ClientSends PROVE QueueIsSuffix'
  BY <1>3, SuffixGrows DEF ClientSends
<1>4. ASSUME DataArrives \/ PacketDropped PROVE Out
  BY <1>4 DEF DataArrives, PacketProcessed, PacketDropped
<1>5. ASSUME DataProcessBegins \/ DataProcessEnds PROVE Same
  BY <1>5 DEF DataProcessBegins, DataProcessEnds
<1>6. ASSUME Loop \/ CommandEnds \/ OthersChange PROVE Same
  BY <1>6 DEF Loop, LoopBegins, LoopReads, CommandEnds, OthersChange, optionVars
<1>7. ASSUME UNCHANGED vars PROVE Same
  BY <1>7 DEF vars, optionVars
<1> QED
  BY <1>1, <1>2, <1>3, <1>4, <1>5, <1>6, <1>7 DEF Next, ServerThread

\* The loop of data_process is left with an empty queue, or at a lone IAC that
\* stood right before what is in the queue; what arrives later sets the event.
LEMMA DropInductive ==
  ASSUME TypeOK, QueueIsSuffix, LeftBehindADrop, [Next]_vars
  PROVE  LeftBehindADrop'
<1> DEFINE Same == UNCHANGED <<receiveQueue, segments, dataEvent, processing>>
<1>1. ASSUME Same PROVE LeftBehindADrop'
  BY <1>1 DEF LeftBehindADrop
<1>2. ASSUME ClientSends PROVE LeftBehindADrop'
  BY <1>2 DEF ClientSends, SegmentArrives, LeftBehindADrop
<1>3. ASSUME DataArrives \/ DataProcessBegins PROVE LeftBehindADrop'
  BY <1>3 DEF DataArrives, PacketProcessed, DataProcessBegins, LeftBehindADrop
<1>4. ASSUME DataProcessEnds PROVE LeftBehindADrop'
  BY <1>4 DEF DataProcessEnds, LeftBehindADrop
<1>5. ASSUME PacketDropped PROVE LeftBehindADrop'
  <2>1. /\ receiveQueue # <<>> /\ receiveQueue' = Tail(receiveQueue)
        /\ UNCHANGED segments /\ LoneIac(Head(receiveQueue))
    BY <1>5 DEF PacketDropped
  <2>2. /\ Head(receiveQueue) = segments[Len(segments) - Len(receiveQueue) + 1]
        /\ Len(segments') - Len(receiveQueue') = Len(segments) - Len(receiveQueue) + 1
    BY <2>1, SuffixShrinks
  <2>3. LoneIac(segments'[Len(segments') - Len(receiveQueue')])
    BY <2>1, <2>2
  <2> QED
    BY <2>3 DEF LeftBehindADrop, LoneIac
<1>6. ASSUME Loop \/ CommandEnds \/ OthersChange PROVE Same
  BY <1>6 DEF Loop, LoopBegins, LoopReads, CommandEnds, OthersChange, optionVars
<1>7. ASSUME UNCHANGED vars PROVE Same
  BY <1>7 DEF vars, optionVars
<1> QED
  BY <1>1, <1>2, <1>3, <1>4, <1>5, <1>6, <1>7 DEF Next, ServerThread

\* Initially nothing was sent and nothing agreed.
LEMMA QueueInitial == Init => QueueIsSuffix /\ AgreedWasSent /\ LeftBehindADrop
<1>1. Len(<<>>) = 0
  OBVIOUS
<1> QED
  BY <1>1 DEF Init, OptionsInit, QueueIsSuffix, AgreedWasSent, LeftBehindADrop

\* The server echoes only for a client that answered DO, in a packet of its own
\* or among others, to both requests: process_option takes nothing else for an
\* agreement, whatever the segments are.
THEOREM EchoWasAgreed == Spec => []EchoIsAgreed
<1>1. QueueIsSuffix /\ AgreedWasSent /\ TypeOK /\ [Next]_vars
        => QueueIsSuffix' /\ AgreedWasSent'
  BY SuffixInductive, AgreedInductive
<1>2. AgreedWasSent => EchoIsAgreed
  BY DEF AgreedWasSent, EchoIsAgreed
<1> QED
  BY <1>1, <1>2, QueueInitial, CommandLineTypes, PTL DEF Spec

\* data_process leaves packets in the receive queue, with no event to fetch them,
\* only behind a lone IAC that it dropped.
THEOREM DropsLeaveTheQueue == Spec => []LeftBehindADrop
<1>1. QueueIsSuffix /\ LeftBehindADrop /\ TypeOK /\ [Next]_vars
        => QueueIsSuffix' /\ LeftBehindADrop'
  BY SuffixInductive, DropInductive
<1> QED
  BY <1>1, QueueInitial, CommandLineTypes, PTL DEF Spec
=============================================================================
