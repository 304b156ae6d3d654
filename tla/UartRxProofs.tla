---------------------------- MODULE UartRxProofs ----------------------------
(***************************************************************************)
(* Proofs about UartRx, for every size of the ring, every set of packets   *)
(* and every kind of node.                                                 *)
(*                                                                         *)
(* With any disturbance of the line and any senders, UartInv is inductive. *)
(* It implies that the main loop only handles packets that have arrived    *)
(* completely, and that uartread never passes uartwrite.                   *)
(*                                                                         *)
(* As generally, TraceInv says that the ring is a queue of bytes and that  *)
(* no byte of it is handled twice or out of order.                         *)
(*                                                                         *)
(* With senders that wait until the node rests, whose packets are well     *)
(* formed and do not look like one another's fragments, CleanInv is        *)
(* inductive while no frame is disturbed.  It says what the ring holds,    *)
(* and implies that the ring does not overflow, that every packet is       *)
(* reported, and that what is handled was sent.                            *)
(***************************************************************************)
EXTENDS UartRxTrace, TLAPS

-----------------------------------------------------------------------------
(* Arithmetic of the ring *)

LEMMA SuccType == ASSUME NEW i \in Index PROVE Succ(i) \in Index
BY UartAssumption DEF Index, Succ, HeaderSize

LEMMA AheadType ==
    ASSUME NEW i \in Index, NEW k \in Index PROVE Ahead(i, k) \in Index
BY UartAssumption DEF Index, Ahead, HeaderSize

LEMMA WaitingType ==
    ASSUME NEW rd \in Index, NEW wr \in Index PROVE bytes_waiting(rd, wr) \in Index
BY UartAssumption DEF Index, bytes_waiting, HeaderSize

\* Storing a byte makes one more byte wait.
LEMMA WaitingStore ==
    ASSUME NEW rd \in Index, NEW wr \in Index, Succ(wr) # rd
    PROVE  bytes_waiting(rd, Succ(wr)) = bytes_waiting(rd, wr) + 1
BY UartAssumption DEF Index, Succ, bytes_waiting, HeaderSize

\* Passing a byte makes one byte less wait.
LEMMA WaitingAdvance ==
    ASSUME NEW rd \in Index, NEW wr \in Index, bytes_waiting(rd, wr) > 0
    PROVE  bytes_waiting(Succ(rd), wr) = bytes_waiting(rd, wr) - 1
BY UartAssumption DEF Index, Succ, bytes_waiting, HeaderSize

\* The slot that is written next is not one of the waiting bytes.
LEMMA FrontIsNotWritten ==
    ASSUME NEW rd \in Index, NEW wr \in Index, NEW k \in Nat, k < bytes_waiting(rd, wr)
    PROVE  Ahead(rd, k) # wr /\ Ahead(rd, k) \in Index
BY UartAssumption DEF Index, Ahead, bytes_waiting, HeaderSize

LEMMA WordType == ASSUME NEW x \in Byte, NEW y \in Byte PROVE Word(x, y) \in Int
BY DEF Byte, Word

LEMMA Uint16Type == ASSUME NEW n \in Int PROVE Uint16(n) \in Nat
BY DEF Uint16

LEMMA LengthType ==
    ASSUME NEW buf \in [Index -> Byte], NEW rd \in Index, NEW wr \in Index
    PROVE  packet_length(buf, rd, wr) \in Nat
<1>1. 4 \in Index /\ 5 \in Index
  BY UartAssumption DEF Index, HeaderSize
<1>2. Ahead(rd, 4) \in Index /\ Ahead(rd, 5) \in Index
  BY <1>1, AheadType
<1>3. Word(buf[Ahead(rd, 4)], buf[Ahead(rd, 5)]) \in Int
  BY <1>2, WordType
<1>4. Uint16(HeaderSize + Word(buf[Ahead(rd, 4)], buf[Ahead(rd, 5)])) \in Nat
  <2>1. HeaderSize + Word(buf[Ahead(rd, 4)], buf[Ahead(rd, 5)]) \in Int
    BY <1>3 DEF HeaderSize
  <2> QED
    BY <2>1, Uint16Type
<1> QED
  BY <1>4 DEF packet_length

\* The interrupt does not touch a header that has arrived.
LEMMA HeaderIsStable ==
    ASSUME NEW buf \in [Index -> Byte], NEW rd \in Index, NEW wr \in Index, NEW d \in Byte,
           bytes_waiting(rd, wr) >= HeaderSize, Succ(wr) # rd
    PROVE  LET buf2 == [buf EXCEPT ![wr] = d]
           IN  /\ HeaderOk(buf2, rd) = HeaderOk(buf, rd)
               /\ packet_length(buf2, rd, Succ(wr)) = packet_length(buf, rd, wr)
<1> DEFINE buf2 == [buf EXCEPT ![wr] = d]
<1>1. bytes_waiting(rd, wr) \in Nat
  BY WaitingType, UartAssumption DEF Index
<1>2. \A k \in 0 .. 5 : Ahead(rd, k) # wr /\ Ahead(rd, k) \in Index
  BY <1>1, FrontIsNotWritten DEF HeaderSize
<1>3. rd # wr
  BY <1>1, UartAssumption DEF bytes_waiting, HeaderSize, Index
<1>4. /\ buf2[rd] = buf[rd]
      /\ \A k \in 0 .. 5 : buf2[Ahead(rd, k)] = buf[Ahead(rd, k)]
  BY <1>2, <1>3
<1>5. /\ buf2[Ahead(rd, 1)] = buf[Ahead(rd, 1)] /\ buf2[Ahead(rd, 2)] = buf[Ahead(rd, 2)]
      /\ buf2[Ahead(rd, 3)] = buf[Ahead(rd, 3)] /\ buf2[Ahead(rd, 4)] = buf[Ahead(rd, 4)]
      /\ buf2[Ahead(rd, 5)] = buf[Ahead(rd, 5)]
  BY <1>4
<1>6. HeaderOk(buf2, rd) = HeaderOk(buf, rd)
  BY <1>4, <1>5 DEF HeaderOk
<1>7. bytes_waiting(rd, Succ(wr)) >= HeaderSize
  <2>1. bytes_waiting(rd, Succ(wr)) = bytes_waiting(rd, wr) + 1
    BY WaitingStore
  <2> QED
    BY <1>1, <2>1 DEF HeaderSize
<1>8. packet_length(buf2, rd, Succ(wr)) = packet_length(buf, rd, wr)
  <2>1. /\ ~(bytes_waiting(rd, wr) < HeaderSize)
        /\ ~(bytes_waiting(rd, Succ(wr)) < HeaderSize)
    <3>1. bytes_waiting(rd, Succ(wr)) = bytes_waiting(rd, wr) + 1
      BY WaitingStore
    <3> QED
      BY <1>1, <1>7, <3>1 DEF HeaderSize
  <2> QED
    BY <1>5, <2>1 DEF packet_length
<1> QED
  BY <1>6, <1>8

\* What check_complete says of the ring: MESSAGE is either new, and then the
\* packet is exactly what it counted, or it was there before.
LEMMA CheckComplete ==
    ASSUME NEW buf, NEW rd, NEW wr, NEW w \in Index,
           NEW st \in {"idle", "message", "wrong_crc"}
    PROVE  LET new == check_complete(w, buf, rd, wr, st)
           IN  /\ new \in {"idle", "message", "wrong_crc"}
               /\ new = "message" /\ st # "message" =>
                     w >= HeaderSize /\ HeaderOk(buf, rd) /\ w = packet_length(buf, rd, wr)
               /\ new = "wrong_crc" /\ st # "wrong_crc" =>
                     w >= HeaderSize /\ ~HeaderOk(buf, rd)
               /\ w >= HeaderSize /\ HeaderOk(buf, rd) /\ st = "message" => new = "message"
<1>1. w \in Int
  BY UartAssumption DEF Index
<1>2. CASE w < HeaderSize
  BY <1>1, <1>2 DEF check_complete, HeaderSize
<1>3. CASE w >= HeaderSize /\ ~HeaderOk(buf, rd)
  BY <1>1, <1>3 DEF check_complete, HeaderSize
<1>4. CASE w >= HeaderSize /\ HeaderOk(buf, rd)
  BY <1>1, <1>4 DEF check_complete, HeaderSize
<1> QED
  BY <1>1, <1>2, <1>3, <1>4 DEF HeaderSize

-----------------------------------------------------------------------------
(* The interrupt *)

\* Storing a byte, with the ring not full, keeps the packet in front.
LEMMA FrontSurvivesStore ==
    ASSUME TypeOK, NEW d \in Byte, Succ(uartwrite) # uartread, PacketInFront,
           uartbuf' = [uartbuf EXCEPT ![uartwrite] = d],
           uartwrite' = Succ(uartwrite), uartread' = uartread
    PROVE  PacketInFront'
<1>1. /\ uartbuf \in [Index -> Byte] /\ uartread \in Index /\ uartwrite \in Index
      /\ bytes_waiting(uartread, uartwrite) >= HeaderSize
  BY DEF TypeOK, PacketInFront, Waiting
<1>2. /\ HeaderOk(uartbuf', uartread) = HeaderOk(uartbuf, uartread)
      /\ packet_length(uartbuf', uartread, uartwrite')
            = packet_length(uartbuf, uartread, uartwrite)
  BY <1>1, HeaderIsStable
<1>3. Waiting' = Waiting + 1
  BY <1>1, WaitingStore DEF Waiting
<1>4. Waiting \in Nat
  BY <1>1, WaitingType, UartAssumption DEF Waiting, Index
<1>5. packet_length(uartbuf, uartread, uartwrite) \in Nat
  BY <1>1, LengthType
<1> QED
  BY <1>2, <1>3, <1>4, <1>5 DEF PacketInFront, HeaderSize

LEMMA StoreKeepsInv ==
    ASSUME UartInv, NEW f \in Frame, Store(f), pc # "hung",
           line' \in Seq(Frame), faults' \in 0 .. MaxFaults, caught_up' = FALSE,
           UNCHANGED <<packet, locals, sent, handled>>
    PROVE  UartInv'
<1> USE DEF UartInv
<1>1. f.addr \in BOOLEAN /\ f.data \in Byte
  BY DEF Frame
<1>2. Listens(f) \in BOOLEAN
  BY DEF Listens
<1>3. CASE Succ(uartwrite) = uartread
  <2>1. pc' = "hung" /\ wdt' = TRUE /\ mpcm' = Listens(f) /\ UNCHANGED <<ring, status>>
    BY <1>3 DEF Store
  <2>2. TypeOK'
    BY <1>2, <2>1 DEF TypeOK, ring, locals, Locations
  <2> QED
    BY <2>1, <2>2 DEF MessageIsWhole, ReadStaysBehindWrite, Steady
<1>4. CASE Succ(uartwrite) # uartread
  <2> DEFINE st == check_complete(bytes_waiting(uartread, uartwrite'),
                                  uartbuf', uartread, uartwrite', status)
  <2>1. /\ uartbuf' = [uartbuf EXCEPT ![uartwrite] = f.data]
        /\ uartwrite' = Succ(uartwrite) /\ status' = st
        /\ mpcm' \in BOOLEAN
        /\ UNCHANGED <<uartread, wdt, pc>>
    BY <1>2, <1>4 DEF Store
  <2>2. /\ uartbuf \in [Index -> Byte] /\ uartread \in Index /\ uartwrite \in Index
        /\ status \in {"idle", "message", "wrong_crc"}
    BY DEF TypeOK
  <2>3. uartwrite' \in Index /\ uartbuf' \in [Index -> Byte]
    BY <1>1, <2>1, <2>2, SuccType
  <2>4. Waiting \in Index /\ Waiting' \in Index /\ Waiting' = Waiting + 1
    BY <1>4, <2>1, <2>2, <2>3, WaitingType, WaitingStore DEF Waiting
  <2>5. Waiting \in Nat /\ Waiting' \in Nat
    BY <2>4, UartAssumption DEF Index
  <2>6. /\ st \in {"idle", "message", "wrong_crc"}
        /\ st = "message" /\ status # "message" =>
              Waiting' >= HeaderSize /\ HeaderOk(uartbuf', uartread)
              /\ Waiting' = packet_length(uartbuf', uartread, uartwrite')
        /\ st = "wrong_crc" /\ status # "wrong_crc" => Waiting' >= HeaderSize
    BY <2>1, <2>2, <2>4, CheckComplete DEF Waiting
  <2>7. PacketInFront => PacketInFront'
    BY <1>1, <1>4, <2>1, FrontSurvivesStore
  <2>8. TypeOK'
    BY <2>1, <2>3, <2>6 DEF TypeOK, locals
  <2>9. MessageIsWhole'
    BY <2>1, <2>7 DEF MessageIsWhole
  <2>10. ReadStaysBehindWrite'
    <3>1. length' = length /\ length \in Nat
      BY DEF locals, TypeOK
    <3> QED
      BY <2>1, <2>4, <2>5, <3>1 DEF ReadStaysBehindWrite
  <2>11. (Steady /\ status = "message" => PacketInFront)'
    <3> SUFFICES ASSUME Steady, st = "message" PROVE PacketInFront'
      BY <2>1 DEF Steady
    <3>1. CASE status = "message"
      BY <2>7, <3>1
    <3>2. CASE status # "message"
      BY <2>1, <2>5, <2>6, <3>2 DEF PacketInFront, HeaderSize
    <3> QED
      BY <3>1, <3>2
  <2>12. (Steady /\ status = "wrong_crc" => Waiting >= HeaderSize)'
    BY <2>1, <2>4, <2>5, <2>6 DEF Steady, HeaderSize
  <2>13. (pc = "judge" => waiting <= Waiting)'
    <3>1. waiting' = waiting /\ waiting \in Nat
      BY UartAssumption DEF locals, TypeOK, Index
    <3> QED
      BY <2>1, <2>4, <2>5, <3>1
  <2> QED
    BY <2>8, <2>9, <2>10, <2>11, <2>12, <2>13
<1> QED
  BY <1>3, <1>4

-----------------------------------------------------------------------------
(* The steps *)

\* Everything the conjuncts of UartInv besides TypeOK depend on.
control == <<uartbuf, uartread, uartwrite, status, pc, waiting, length>>

LEMMA StutterKeepsInv == ASSUME UartInv, TypeOK', UNCHANGED control PROVE UartInv'
BY DEF UartInv, control, MessageIsWhole, ReadStaysBehindWrite, Steady, PacketInFront, Waiting

\* A state as after a reset satisfies everything but the type of the rest.
LEMMA BootIsFine ==
    ASSUME NEW armed, Boot(armed), TypeOK'
    PROVE  UartInv'
BY DEF Boot, UartInv, MessageIsWhole, ReadStaysBehindWrite, Steady

LEMMA InitInv == Init => UartInv
<1> SUFFICES ASSUME Init PROVE UartInv
  OBVIOUS
<1>1. TypeOK
  <2>1. 0 \in Index /\ [i \in Index |-> 0] \in [Index -> Byte]
    BY UartAssumption DEF Index, Byte, HeaderSize
  <2>2. <<>> \in Seq(Frame) /\ <<>> \in Seq(Packets) /\ <<>> \in Seq(HandledPacket)
    OBVIOUS
  <2>3. 0 \in 0 .. MaxFaults /\ 0 \in Nat
    BY UartAssumption
  <2> QED
    BY <2>1, <2>2, <2>3 DEF Init, TypeOK, Locations
<1> QED
  BY <1>1 DEF Init, UartInv, MessageIsWhole, ReadStaysBehindWrite, Steady

LEMMA ResetKeepsInv == UartInv /\ WatchdogReset => UartInv'
<1> SUFFICES ASSUME UartInv, WatchdogReset PROVE UartInv'
  OBVIOUS
<1>1. Boot(TRUE) /\ UNCHANGED <<world, handled>>
  BY DEF WatchdogReset
<1>2. TypeOK'
  BY <1>1, UartAssumption
     DEF UartInv, TypeOK, Boot, world, Index, Byte, Locations, HeaderSize
<1> QED
  BY <1>1, <1>2, BootIsFine

LEMMA TransmitKeepsInv ==
    ASSUME UartInv, NEW p \in Packets, Transmit(p) PROVE UartInv'
<1>1. p \in Seq(Byte)
  BY UartAssumption
<1>2. Frames(p) \in Seq(Frame)
  BY <1>1 DEF Frames, Frame
<1>3. UNCHANGED control
  BY DEF Transmit, control, ring, locals
<1>4. TypeOK'
  BY <1>2 DEF Transmit, UartInv, TypeOK, ring, locals
<1> QED
  BY <1>3, <1>4, StutterKeepsInv

\* The frame that arrives is one of the line's, the others stay.
LEMMA ArrivalType ==
    ASSUME TypeOK, line # <<>>
    PROVE  Head(line) \in Frame /\ Tail(line) \in Seq(Frame)
BY DEF TypeOK

LEMMA ReceiveKeepsInv == UartInv /\ Receive => UartInv'
<1> SUFFICES ASSUME UartInv, Receive PROVE UartInv'
  OBVIOUS
<1> USE DEF UartInv
<1>1. line # <<>>
  BY DEF Receive, RxFrame, LoseFrame, Arrival
<1>2. Head(line) \in Frame /\ Tail(line) \in Seq(Frame)
  BY <1>1, ArrivalType
<1>3. CASE RxFrame
  <2>1. /\ pc # "hung" /\ line' = Tail(line) /\ caught_up' = FALSE
        /\ UNCHANGED <<packet, locals, sent, handled, faults>>
    BY <1>3 DEF RxFrame, Arrival
  <2>2. CASE mpcm /\ ~Head(line).addr
    <3>1. UNCHANGED <<ring, status, mpcm, wdt, pc>>
      BY <1>3, <2>2 DEF RxFrame
    <3>2. TypeOK'
      BY <1>2, <2>1, <3>1 DEF TypeOK, ring, locals
    <3> QED
      BY <2>1, <3>1, <3>2, StutterKeepsInv DEF control, ring, locals
  <2>3. CASE ~(mpcm /\ ~Head(line).addr)
    <3>1. Store(Head(line))
      BY <1>3, <2>3 DEF RxFrame
    <3>2. faults' \in 0 .. MaxFaults
      BY <2>1 DEF TypeOK
    <3> QED
      BY <1>2, <2>1, <3>1, <3>2, StoreKeepsInv
  <2> QED
    BY <2>2, <2>3
<1>4. CASE LoseFrame
  <2>1. UNCHANGED control
    BY <1>4 DEF LoseFrame, control, ring, locals
  <2>2. TypeOK'
    BY <1>2, <1>4 DEF LoseFrame, TypeOK, ring, locals
  <2> QED
    BY <2>1, <2>2, StutterKeepsInv
<1> QED
  BY <1>3, <1>4 DEF Receive

LEMMA DisturbKeepsInv == UartInv /\ Disturb => UartInv'
<1> SUFFICES ASSUME UartInv, Disturb PROVE UartInv'
  OBVIOUS
<1> USE DEF UartInv
<1>1. /\ line # <<>> /\ pc # "hung" /\ line' = Tail(line) /\ caught_up' = FALSE
      /\ faults < MaxFaults /\ faults' = faults + 1
      /\ UNCHANGED <<packet, locals, sent, handled>>
  BY DEF Disturb, RxError, RxNoise, Arrival
<1>2. Head(line) \in Frame /\ Tail(line) \in Seq(Frame)
  BY <1>1, ArrivalType
<1>3. faults' \in 0 .. MaxFaults
  BY <1>1, UartAssumption DEF TypeOK
<1>4. CASE RxError
  <2>1. UNCHANGED control
    BY <1>4 DEF RxError, control, ring, locals
  <2>2. Listens(Head(line)) \in BOOLEAN
    BY DEF Listens
  <2>3. TypeOK'
    BY <1>1, <1>2, <1>3, <1>4, <2>2 DEF RxError, TypeOK, ring, locals
  <2> QED
    BY <2>1, <2>3, StutterKeepsInv
<1>5. ASSUME NEW d \in Noise, RxNoise(d) PROVE UartInv'
  <2>1. CASE mpcm /\ ~Head(line).addr
    <3>1. UNCHANGED <<ring, status, mpcm, wdt, pc>>
      BY <1>5, <2>1 DEF RxNoise
    <3>2. TypeOK'
      BY <1>1, <1>2, <1>3, <3>1 DEF TypeOK, ring, locals
    <3> QED
      BY <1>1, <3>1, <3>2, StutterKeepsInv DEF control, ring, locals
  <2>2. CASE ~(mpcm /\ ~Head(line).addr)
    <3> DEFINE f == [Head(line) EXCEPT !.data = d]
    <3>1. Store(f)
      BY <1>5, <2>2 DEF RxNoise
    <3>2. f \in Frame
      BY <1>2, UartAssumption DEF Frame
    <3> HIDE DEF f
    <3>3. line' \in Seq(Frame)
      BY <1>1, <1>2
    <3> QED
      BY <1>1, <1>3, <3>1, <3>2, <3>3, StoreKeepsInv
  <2> QED
    BY <2>1, <2>2
<1> QED
  BY <1>4, <1>5 DEF Disturb

\* The copy that current_packet makes consists of bytes of the ring.
LEMMA CopyType ==
    ASSUME TypeOK
    PROVE  /\ CopiedPacket \in [Index -> Byte]
           /\ [i \in 1 .. CopyLength |-> uartbuf[Ahead(uartread, i - 1)]] \in Seq(Byte)
<1>1. uartbuf \in [Index -> Byte] /\ uartread \in Index /\ uartwrite \in Index
      /\ packet \in [Index -> Byte]
  BY DEF TypeOK
<1>2. packet_length(uartbuf, uartread, uartwrite) \in Nat
  BY <1>1, LengthType
<1>3. UARTBUF \in Nat
  BY UartAssumption
<1>4. CopyLength \in Nat /\ CopyLength <= UARTBUF
  BY <1>2, <1>3 DEF CopyLength
<1>5. \A i \in Index : uartbuf[Ahead(uartread, i)] \in Byte
  BY <1>1, AheadType
<1>6. CopiedPacket \in [Index -> Byte]
  BY <1>1, <1>5 DEF CopiedPacket
<1>7. \A i \in 1 .. CopyLength : uartbuf[Ahead(uartread, i - 1)] \in Byte
  <2> SUFFICES ASSUME NEW i \in 1 .. CopyLength PROVE i - 1 \in Index
    BY <1>5
  <2> QED
    BY <1>3, <1>4 DEF Index
<1>8. [i \in 1 .. CopyLength |-> uartbuf[Ahead(uartread, i - 1)]] \in Seq(Byte)
  BY <1>4, <1>7
<1> QED
  BY <1>6, <1>8

LEMMA MainKeepsType == ASSUME UartInv, Main PROVE TypeOK'
<1> USE DEF Locations, GoTo, ring, locals, world
<1>0. TypeOK /\ ReadStaysBehindWrite
  BY DEF UartInv
<1>1. /\ uartbuf \in [Index -> Byte] /\ uartread \in Index /\ uartwrite \in Index
      /\ status \in {"idle", "message", "wrong_crc"} /\ pc \in Locations
  BY <1>0 DEF TypeOK
<1>2. Waiting \in Index /\ packet_length(uartbuf, uartread, uartwrite) \in Nat
  BY <1>1, WaitingType, LengthType DEF Waiting
<1>3. \A place : caught_up \/ Slow(place) \in BOOLEAN
  BY <1>0 DEF TypeOK, Slow
<1>4. CASE Started
  BY <1>0, <1>3, <1>4 DEF Started, TypeOK, Slow
<1>5. CASE Poll
  BY <1>0, <1>2, <1>3, <1>5 DEF Poll, TypeOK, Waiting, Slow
<1>6. CASE Recheck
  BY <1>0, <1>2, <1>3, <1>6 DEF Recheck, TypeOK, Waiting, Slow
<1>7. CASE Judge
  <2>1. status' \in {"idle", "message", "wrong_crc"}
    BY <1>0, <1>1, <1>7, CheckComplete DEF Judge, TypeOK
  <2> QED
    BY <1>0, <2>1, <1>7 DEF Judge, TypeOK, Slow
<1>8. CASE Decide
  <2>1. packet' \in [Index -> Byte]
    BY <1>0, <1>8, CopyType DEF Decide, TypeOK
  <2>2. pc' \in Locations
    BY <1>1, <1>8 DEF Decide
  <2> QED
    BY <1>0, <2>1, <2>2, <1>8 DEF Decide, TypeOK, Slow
<1>9. CASE Handle
  <2> DEFINE entry == [bytes   |-> [i \in 1 .. CopyLength |-> uartbuf[Ahead(uartread, i - 1)]],
                       command |-> CopiedPacket[HeaderSize]]
  <2>1. HeaderSize \in Index
    BY UartAssumption DEF Index, HeaderSize
  <2>2. entry \in HandledPacket
    BY <1>0, <2>1, CopyType DEF HandledPacket
  <2>3. handled' = Append(handled, entry) /\ packet' = CopiedPacket
    BY <1>9 DEF Handle
  <2>4. handled' \in Seq(HandledPacket) /\ packet' \in [Index -> Byte]
    <3> HIDE DEF entry
    <3> QED
      BY <1>0, <2>2, <2>3, CopyType DEF TypeOK
  <2> QED
    BY <1>0, <2>4, <1>9 DEF Handle, TypeOK, Slow
<1>10. CASE StartDiscard
  BY <1>0, <1>2, <1>10 DEF StartDiscard, TypeOK, Slow
<1>11. CASE ClearByte
  <2>1. uartbuf' \in [Index -> Byte]
    BY <1>1, <1>11 DEF ClearByte, Byte
  <2> QED
    BY <1>0, <2>1, <1>11 DEF ClearByte, TypeOK, Slow
<1>12. CASE Advance
  <2>1. uartread' \in Index
    BY <1>1, <1>12, SuccType DEF Advance
  <2>2. length' \in Nat
    BY <1>0, <1>12 DEF Advance, ReadStaysBehindWrite, TypeOK
  <2> QED
    BY <1>0, <1>12, <2>1, <2>2 DEF Advance, TypeOK, Slow
<1>13. CASE EndDiscard
  BY <1>0, <1>13 DEF EndDiscard, TypeOK, Slow
<1>14. CASE SkipByte
  BY <1>0, <1>1, <1>14, SuccType DEF SkipByte, TypeOK, Slow
<1>15. CASE EndSkip
  BY <1>0, <1>15 DEF EndSkip, TypeOK, Slow
<1> QED
  BY <1>4, <1>5, <1>6, <1>7, <1>8, <1>9, <1>10, <1>11, <1>12,
     <1>13, <1>14, <1>15 DEF Main

LEMMA MainKeepsInv == UartInv /\ Main => UartInv'
<1> SUFFICES ASSUME UartInv, Main PROVE UartInv'
  OBVIOUS
<1> DEFINE length_in_front == packet_length(uartbuf, uartread, uartwrite)
<1>1. TypeOK'
  BY MainKeepsType
<1>2. /\ uartread \in Index /\ uartwrite \in Index /\ length \in Nat
      /\ waiting \in Index /\ ret \in {"decide", "poll"}
      /\ status \in {"idle", "message", "wrong_crc"}
      /\ uartbuf \in [Index -> Byte]
  BY DEF UartInv, TypeOK
<1>3. Waiting \in Nat /\ waiting \in Nat /\ length_in_front \in Nat
  <2>1. Waiting \in Index
    BY <1>2, WaitingType DEF Waiting
  <2>2. length_in_front \in Nat
    BY <1>2, LengthType
  <2> QED
    BY <1>2, <2>1, <2>2, UartAssumption DEF Index
<1> USE DEF UartInv, MessageIsWhole, ReadStaysBehindWrite, Steady, GoTo
<1>4. CASE Started
  <2>1. pc = "boot" /\ pc' = "poll" /\ UNCHANGED <<ring, status, locals>>
    BY <1>4 DEF Started
  <2>2. Waiting' = Waiting /\ PacketInFront' = PacketInFront
    BY <2>1 DEF Waiting, PacketInFront, ring
  <2> QED
    BY <1>1, <2>1, <2>2
<1>5. CASE Poll
  BY <1>1, <1>3, <1>5 DEF Poll, PacketInFront, Waiting, ring
<1>6. CASE Recheck
  BY <1>1, <1>3, <1>6 DEF Recheck, PacketInFront, Waiting, ring
<1>7. CASE Judge
  <2>1. /\ pc = "judge" /\ pc' = ret /\ UNCHANGED <<ring, locals>>
        /\ status' = check_complete(waiting, uartbuf, uartread, uartwrite, status)
    BY <1>7 DEF Judge
  <2>2. waiting <= Waiting
    BY <2>1
  <2>3. /\ status' = "message" /\ status # "message" =>
              waiting >= HeaderSize /\ HeaderOk(uartbuf, uartread) /\ waiting = length_in_front
        /\ status' = "wrong_crc" /\ status # "wrong_crc" => waiting >= HeaderSize
    BY <1>2, <2>1, CheckComplete
  <2>4. status' = "message" => PacketInFront
    BY <1>3, <2>1, <2>2, <2>3 DEF PacketInFront, HeaderSize
  <2>5. status' = "wrong_crc" => Waiting >= HeaderSize
    BY <1>3, <2>1, <2>2, <2>3 DEF HeaderSize
  <2>6. Waiting' = Waiting /\ PacketInFront' = PacketInFront
    BY <2>1 DEF Waiting, PacketInFront, ring
  <2> QED
    BY <1>1, <1>2, <2>1, <2>4, <2>5, <2>6
<1>8. CASE Decide
  <2>1. /\ pc = "decide" /\ pc' \in {"poll", "handle", "skip"} /\ UNCHANGED <<ring, status>>
        /\ pc' = "handle" => status = "message"
        /\ pc' = "skip" => status = "wrong_crc"
    BY <1>2, <1>8 DEF Decide
  <2>2. Waiting' = Waiting /\ PacketInFront' = PacketInFront
    BY <2>1 DEF Waiting, PacketInFront, ring
  <2>3. pc' = "skip" => Waiting > 0
    BY <1>3, <2>1 DEF HeaderSize
  <2> QED
    BY <1>1, <2>1, <2>2, <2>3
<1>9. CASE Handle
  BY <1>1, <1>9 DEF Handle, PacketInFront, Waiting, ring
<1>10. CASE StartDiscard
  <2>1. pc = "done" /\ pc' = "clear" /\ length' = length_in_front /\ UNCHANGED ring
    BY <1>10 DEF StartDiscard
  <2>2. length_in_front <= Waiting
    BY <1>3, <2>1 DEF PacketInFront, HeaderSize
  <2>3. Waiting' = Waiting
    BY <2>1 DEF Waiting, ring
  <2> QED
    BY <1>1, <2>1, <2>2, <2>3
<1>11. CASE ClearByte
  <2>1. Waiting' = Waiting
    BY <1>11 DEF ClearByte, Waiting
  <2> QED
    BY <1>1, <1>11, <2>1 DEF ClearByte, locals
<1>12. CASE Advance
  <2>1. /\ pc = "advance" /\ pc' = "clear" /\ length' = length - 1
        /\ uartread' = Succ(uartread) /\ uartwrite' = uartwrite
    BY <1>12 DEF Advance
  <2>2. length > 0 /\ length <= Waiting
    BY <2>1
  <2>3. Waiting' = Waiting - 1
    BY <1>2, <1>3, <2>1, <2>2, WaitingAdvance DEF Waiting
  <2>4. length' <= Waiting'
    BY <1>2, <1>3, <2>1, <2>2, <2>3
  <2> QED
    BY <1>1, <2>1, <2>4
<1>13. CASE EndDiscard
  BY <1>1, <1>13 DEF EndDiscard
<1>14. CASE SkipByte
  BY <1>1, <1>14 DEF SkipByte
<1>15. CASE EndSkip
  BY <1>1, <1>15 DEF EndSkip
<1> QED
  BY <1>4, <1>5, <1>6, <1>7, <1>8, <1>9, <1>10, <1>11, <1>12,
     <1>13, <1>14, <1>15 DEF Main

-----------------------------------------------------------------------------
(* The theorems *)

\* UartInv is an invariant of the receive interrupt and the main loop
\* (lib/uart.c:98-233), with no assumption about when packets or frames
\* arrive and how they are disturbed.
THEOREM UartInvariant == Spec => []UartInv
<1>1. Init => UartInv
  BY InitInv
<1>2. UartInv /\ [Next]_vars => UartInv'
  <2> SUFFICES ASSUME UartInv, [Next]_vars PROVE UartInv'
    OBVIOUS
  <2>1. ASSUME NEW p \in Packets, Transmit(p) PROVE UartInv'
    BY <2>1, TransmitKeepsInv
  <2>2. CASE Receive
    BY <2>2, ReceiveKeepsInv
  <2>3. CASE Disturb
    BY <2>3, DisturbKeepsInv
  <2>4. CASE Main
    BY <2>4, MainKeepsInv
  <2>5. CASE WatchdogReset
    BY <2>5, ResetKeepsInv
  <2>6. CASE UNCHANGED vars
    <3>1. UNCHANGED control
      BY <2>6 DEF vars, control, ring, locals
    <3>2. TypeOK'
      BY <2>6 DEF UartInv, TypeOK, vars, ring, locals, world
    <3> QED
      BY <3>1, <3>2, StutterKeepsInv
  <2> QED
    BY <2>1, <2>2, <2>3, <2>4, <2>5, <2>6 DEF Next
<1> QED
  BY <1>1, <1>2, PTL DEF Spec

\* The ring indices, the status, the program counter and the histories keep
\* their types (lib/uart.c:33-45).
THEOREM TypeCorrect == Spec => []TypeOK
<1>1. UartInv => TypeOK
  BY DEF UartInv
<1> QED
  BY <1>1, UartInvariant, PTL

\* current_packet and packet_done only ever see a packet that has arrived
\* completely (lib/uart.c:198-226).
THEOREM HandledPacketIsWhole == Spec => []MessageIsWhole
<1>1. UartInv => MessageIsWhole
  BY DEF UartInv
<1> QED
  BY <1>1, UartInvariant, PTL

\* packet_done and skip_byte never move uartread past uartwrite
\* (lib/uart.c:216-233).
THEOREM ReadNeverPassesWrite == Spec => []ReadStaysBehindWrite
<1>1. UartInv => ReadStaysBehindWrite
  BY DEF UartInv
<1> QED
  BY <1>1, UartInvariant, PTL

-----------------------------------------------------------------------------
(* The ring as a queue of bytes: any packets, any noise, overflows and resets *)

\* The bytes that wait are the last ones stored.  packet_done has cleared the first
\* of them where it is about to pass it.
RingHasTrace ==
    /\ Waiting <= Len(stored)
    /\ \A k \in Index : k < Waiting /\ (k = 0 => pc \notin {"advance", "hung"}) =>
          uartbuf[Ahead(uartread, k)] = stored[Passed + k + 1]

\* How far the bytes are spent on packets: up to uartread, or up to the end of the
\* packet that is discarded.
Spent ==
    CASE pc = "hung" -> Len(stored)
      [] pc = "done" -> Passed + packet_length(uartbuf, uartread, uartwrite)
      [] pc \in {"clear", "advance"} -> Passed + length
      [] OTHER -> Passed

TraceType ==
    /\ stored \in Seq(Byte) /\ places \in Seq(Nat) /\ Len(places) = Len(handled)

TraceInv ==
    /\ UartInv /\ TraceType /\ RingHasTrace /\ HandledOnce
    /\ \A i \in DOMAIN handled : EndOf(i) <= Spent

LEMMA TraceTypes ==
    ASSUME UartInv, TraceType
    PROVE  /\ uartbuf \in [Index -> Byte] /\ uartread \in Index /\ uartwrite \in Index
           /\ Waiting \in Index /\ Waiting \in Nat /\ Len(stored) \in Nat /\ Passed \in Int
           /\ length \in Nat
           /\ handled \in Seq(HandledPacket) /\ DOMAIN handled = 1 .. Len(handled)
           /\ Len(handled) \in Nat
           /\ packet_length(uartbuf, uartread, uartwrite) \in Nat
           /\ \A i \in DOMAIN handled : /\ places[i] \in Nat /\ handled[i].bytes \in Seq(Byte)
                                        /\ Len(handled[i].bytes) \in Nat /\ EndOf(i) \in Nat
<1>1. /\ uartbuf \in [Index -> Byte] /\ uartread \in Index /\ uartwrite \in Index
      /\ length \in Nat /\ handled \in Seq(HandledPacket)
  BY DEF UartInv, TypeOK
<1>2. Waiting \in Index
  BY <1>1, WaitingType DEF Waiting
<1>3. Waiting \in Nat
  BY <1>2, UartAssumption DEF Index
<1>4. Len(stored) \in Nat
  BY DEF TraceType
<1>5. DOMAIN handled = 1 .. Len(handled) /\ Len(handled) \in Nat
  BY <1>1
<1>6. ASSUME NEW i \in DOMAIN handled
      PROVE  /\ places[i] \in Nat /\ handled[i].bytes \in Seq(Byte)
             /\ Len(handled[i].bytes) \in Nat /\ EndOf(i) \in Nat
  <2>1. handled[i] \in HandledPacket
    BY <1>1, <1>6
  <2>2. handled[i].bytes \in Seq(Byte)
    BY <2>1 DEF HandledPacket
  <2>3. places[i] \in Nat
    BY <1>5, <1>6 DEF TraceType
  <2>4. Len(handled[i].bytes) \in Nat
    BY <2>2
  <2> QED
    BY <2>2, <2>3, <2>4 DEF EndOf
<1> QED
  BY <1>1, <1>2, <1>3, <1>4, <1>5, <1>6, LengthType DEF Passed

\* What is spent has been stored.
LEMMA SpentIsStored == ASSUME TraceInv PROVE Spent \in Int /\ Spent <= Len(stored)
<1>1. UartInv /\ TraceType
  BY DEF TraceInv
<1>2. /\ Waiting \in Nat /\ Len(stored) \in Nat /\ Passed \in Int /\ length \in Nat
      /\ packet_length(uartbuf, uartread, uartwrite) \in Nat
  BY <1>1, TraceTypes
<1>3. pc = "done" => packet_length(uartbuf, uartread, uartwrite) <= Waiting
  BY <1>1, <1>2 DEF UartInv, MessageIsWhole, PacketInFront, HeaderSize
<1>4. pc \in {"clear", "advance"} => length <= Waiting
  BY <1>1 DEF UartInv, ReadStaysBehindWrite
<1> DEFINE ahead == packet_length(uartbuf, uartread, uartwrite)
<1> HIDE DEF ahead
<1>5. ahead = packet_length(uartbuf, uartread, uartwrite)
  BY DEF ahead
<1>6. CASE pc = "hung"
  BY <1>2, <1>6 DEF Spent
<1>7. CASE pc = "done"
  <2>1. Spent = Passed + ahead
    BY <1>5, <1>7 DEF Spent
  <2> QED
    BY <1>2, <1>3, <1>5, <1>7, <2>1 DEF Passed
<1>8. CASE pc \in {"clear", "advance"}
  <2>1. Spent = Passed + length
    BY <1>8 DEF Spent
  <2> QED
    BY <1>2, <1>4, <1>8, <2>1 DEF Passed
<1>9. CASE pc \notin {"hung", "done", "clear", "advance"}
  <2>1. Spent = Passed
    BY <1>9 DEF Spent
  <2> QED
    BY <1>2, <2>1 DEF Passed
<1> QED
  BY <1>6, <1>7, <1>8, <1>9

\* What was handled stays what it was while bytes are only added behind.
LEMMA HandledStays ==
    ASSUME TraceInv, UNCHANGED <<handled, places>>, stored' \in Seq(Byte),
           Len(stored) <= Len(stored'),
           \A n \in 1 .. Len(stored) : stored'[n] = stored[n],
           Spent' \in Int, Spent <= Spent'
    PROVE  TraceType' /\ HandledOnce' /\ (\A i \in DOMAIN handled : EndOf(i) <= Spent)'
<1>1. /\ UartInv /\ TraceType /\ HandledOnce
      /\ \A i \in DOMAIN handled : EndOf(i) <= Spent
  BY DEF TraceInv
<1>2. TraceType'
  BY <1>1 DEF TraceType
<1>3. /\ Len(stored) \in Nat /\ Len(stored') \in Nat /\ Spent \in Int
      /\ \A i \in DOMAIN handled : places[i] \in Nat /\ EndOf(i) \in Nat
  BY <1>1, TraceTypes, SpentIsStored
<1>4. \A i : EndOf(i)' = EndOf(i)
  BY DEF EndOf
<1>5. ASSUME NEW i \in DOMAIN handled
      PROVE  SubSeq(stored', places[i] + 1, EndOf(i)) = SubSeq(stored, places[i] + 1, EndOf(i))
  <2>1. 0 <= places[i] /\ EndOf(i) <= Len(stored)
    BY <1>1, <1>5 DEF HandledOnce
  <2> DEFINE from == places[i] + 1 to == EndOf(i)
  <2>2. from \in 1 .. Len(stored) + 1 /\ to \in Nat /\ to <= Len(stored)
    <3>1. EndOf(i) >= places[i]
      <4>1. Len(handled[i].bytes) \in Nat
        BY <1>1, TraceTypes
      <4> QED
        BY <1>3, <4>1 DEF EndOf
    <3> QED
      BY <1>3, <2>1, <3>1
  <2> HIDE DEF from, to
  <2>3. \A n \in from .. to : stored'[n] = stored[n]
    BY <1>3, <2>2
  <2>4. SubSeq(stored', from, to) = SubSeq(stored, from, to)
    BY <1>3, <2>2, <2>3
  <2> QED
    BY <2>4 DEF from, to
<1>6. HandledOnce'
  <2> SUFFICES ASSUME NEW i \in DOMAIN handled
               PROVE  /\ 0 <= places[i] /\ EndOf(i) <= Len(stored')
                      /\ handled[i].bytes = SubSeq(stored', places[i] + 1, EndOf(i))
                      /\ \A j \in 1 .. i - 1 : EndOf(j) <= places[i]
    BY <1>4 DEF HandledOnce
  <2>1. /\ 0 <= places[i] /\ EndOf(i) <= Len(stored)
        /\ handled[i].bytes = SubSeq(stored, places[i] + 1, EndOf(i))
        /\ \A j \in 1 .. i - 1 : EndOf(j) <= places[i]
    BY <1>1 DEF HandledOnce
  <2>2. EndOf(i) <= Len(stored')
    BY <1>3, <2>1
  <2>3. handled[i].bytes = SubSeq(stored', places[i] + 1, EndOf(i))
    BY <1>5, <2>1
  <2> QED
    BY <2>1, <2>2, <2>3
<1>7. (\A i \in DOMAIN handled : EndOf(i) <= Spent)'
  BY <1>1, <1>3, <1>4
<1> QED
  BY <1>2, <1>6, <1>7

-----------------------------------------------------------------------------
(* The steps with their history *)

\* Steps that neither store nor pass a byte, and after which as much is spent.
LEMMA QuietKeepsTrace ==
    ASSUME TraceInv, UartInv', UNCHANGED <<uartbuf, uartread, uartwrite, handled, stored, places>>,
           Spent' \in Int, Spent <= Spent',
           pc \in {"advance", "hung"} => pc' \in {"advance", "hung"}
    PROVE  TraceInv'
<1>1. UartInv /\ TraceType /\ RingHasTrace
  BY DEF TraceInv
<1>2. Len(stored) \in Nat /\ stored \in Seq(Byte)
  BY <1>1, TraceTypes DEF TraceType
<1>3. TraceType' /\ HandledOnce' /\ (\A i \in DOMAIN handled : EndOf(i) <= Spent)'
  BY <1>2, HandledStays
<1>4. RingHasTrace'
  BY <1>1 DEF RingHasTrace, Passed, Waiting
<1> QED
  BY <1>3, <1>4 DEF TraceInv

\* The ring as a queue: the k-th byte that waits is not the one written next, which
\* is the one behind them.
LEMMA NextSlot ==
    ASSUME NEW rd \in Index, NEW wr \in Index, Succ(wr) # rd
    PROVE  Ahead(rd, bytes_waiting(rd, wr)) = wr
BY UartAssumption DEF Index, Succ, Ahead, bytes_waiting, HeaderSize

LEMMA SuccAhead ==
    ASSUME NEW rd \in Index, NEW k \in Index, k + 1 \in Index
    PROVE  Ahead(Succ(rd), k) = Ahead(rd, k + 1)
BY UartAssumption DEF Index, Succ, Ahead, HeaderSize

\* The interrupt has a byte to store.
LEMMA StoreKeepsTrace ==
    ASSUME TraceInv, UartInv', NEW f \in Frame, Store(f), line' # line,
           UNCHANGED <<handled, locals>>, pc # "hung", Record
    PROVE  TraceInv'
<1>1. /\ UartInv /\ TraceType /\ RingHasTrace /\ HandledOnce
  BY DEF TraceInv
<1>2. /\ uartbuf \in [Index -> Byte] /\ uartread \in Index /\ uartwrite \in Index
      /\ Waiting \in Index /\ Waiting \in Nat /\ Len(stored) \in Nat /\ Passed \in Int
      /\ length \in Nat /\ stored \in Seq(Byte)
      /\ packet_length(uartbuf, uartread, uartwrite) \in Nat
  BY <1>1, TraceTypes DEF TraceType
<1>3. f.data \in Byte
  BY DEF Frame
<1>4. Spent \in Int /\ Spent <= Len(stored)
  BY SpentIsStored
<1>5. CASE Succ(uartwrite) = uartread
  <2>1. pc' = "hung" /\ UNCHANGED ring
    BY <1>5 DEF Store
  <2>2. UNCHANGED <<handled, stored, places, uartbuf, uartread, uartwrite>>
    BY <2>1 DEF Record, ring
  <2>3. Spent' = Len(stored)
    BY <2>1, <2>2 DEF Spent
  <2> QED
    BY <1>2, <1>4, <2>1, <2>2, <2>3, QuietKeepsTrace
<1>6. CASE Succ(uartwrite) # uartread
  <2>1. /\ uartbuf' = [uartbuf EXCEPT ![uartwrite] = f.data]
        /\ uartwrite' = Succ(uartwrite) /\ UNCHANGED <<uartread, pc>>
    BY <1>6 DEF Store
  <2>2. uartwrite' # uartwrite
    BY <1>2, <2>1, UartAssumption DEF Succ, Index, HeaderSize
  <2>3. stored' = Append(stored, f.data)
    BY <1>2, <2>1, <2>2 DEF Record
  <2>4. places' = places /\ length' = length
    BY DEF Record, locals
  <2>5. /\ stored' \in Seq(Byte) /\ Len(stored') = Len(stored) + 1
        /\ \A n \in 1 .. Len(stored) : stored'[n] = stored[n]
        /\ stored'[Len(stored) + 1] = f.data
    BY <1>2, <1>3, <2>3
  <2>6. Waiting' = Waiting + 1
    BY <1>2, <1>6, <2>1, WaitingStore DEF Waiting
  <2>7. Passed' = Passed
    BY <1>2, <2>5, <2>6 DEF Passed
  <2>8. Spent' \in Int /\ Spent <= Spent'
    <3> DEFINE front == packet_length(uartbuf, uartread, uartwrite)
    <3>1. pc = "done" => front' = front
      <4> SUFFICES ASSUME pc = "done" PROVE front' = front
        OBVIOUS
      <4>1. bytes_waiting(uartread, uartwrite) >= HeaderSize
        BY <1>1 DEF UartInv, MessageIsWhole, PacketInFront, Waiting
      <4> QED
        BY <1>2, <1>3, <1>6, <2>1, <4>1, HeaderIsStable
    <3>2. front \in Nat
      BY <1>2
    <3> HIDE DEF front
    <3>3. pc = "done" => Spent = Passed + front /\ Spent' = Passed' + front'
      BY <2>1 DEF Spent, front
    <3>4. pc \in {"clear", "advance"} => Spent = Passed + length /\ Spent' = Passed' + length'
      BY <2>1 DEF Spent
    <3>5. pc \notin {"done", "clear", "advance"} => Spent = Passed /\ Spent' = Passed'
      BY <2>1 DEF Spent
    <3> QED
      BY <1>2, <2>4, <2>7, <3>1, <3>2, <3>3, <3>4, <3>5
  <2>9. TraceType' /\ HandledOnce' /\ (\A i \in DOMAIN handled : EndOf(i) <= Spent)'
    BY <1>2, <2>4, <2>5, <2>8, HandledStays
  <2>10. RingHasTrace'
    <3>1. Waiting' <= Len(stored')
      BY <1>1, <1>2, <2>5, <2>6 DEF RingHasTrace
    <3>2. ASSUME NEW k \in Index, k < Waiting', k = 0 => pc \notin {"advance", "hung"}
          PROVE  uartbuf'[Ahead(uartread, k)] = stored'[Passed + k + 1]
      <4>1. k \in Nat
        BY UartAssumption DEF Index
      <4>2. CASE k < Waiting
        <5>1. Ahead(uartread, k) # uartwrite /\ Ahead(uartread, k) \in Index
          BY <1>2, <4>1, <4>2, FrontIsNotWritten DEF Waiting
        <5>2. uartbuf'[Ahead(uartread, k)] = uartbuf[Ahead(uartread, k)]
          BY <1>2, <2>1, <5>1
        <5>3. uartbuf[Ahead(uartread, k)] = stored[Passed + k + 1]
          BY <1>1, <3>2, <4>2 DEF RingHasTrace
        <5>4. Passed + k + 1 \in 1 .. Len(stored)
          BY <1>1, <1>2, <4>1, <4>2 DEF RingHasTrace, Passed
        <5> QED
          BY <2>5, <5>2, <5>3, <5>4
      <4>3. CASE k = Waiting
        <5>1. Ahead(uartread, k) = uartwrite
          BY <1>2, <1>6, <4>3, NextSlot DEF Waiting
        <5>2. uartbuf'[uartwrite] = f.data
          BY <1>2, <2>1
        <5>3. Passed + k + 1 = Len(stored) + 1
          BY <1>2, <4>3 DEF Passed
        <5> QED
          BY <2>5, <5>1, <5>2, <5>3
      <4> QED
        BY <1>2, <2>6, <3>2, <4>1, <4>2, <4>3
    <3> QED
      BY <2>1, <2>7, <3>1, <3>2 DEF RingHasTrace
  <2> QED
    BY <2>9, <2>10 DEF TraceInv
<1> QED
  BY <1>5, <1>6

LEMMA InitTrace == TraceInit => TraceInv
<1> SUFFICES ASSUME TraceInit PROVE TraceInv
  OBVIOUS
<1>1. UartInv /\ stored = <<>> /\ places = <<>> /\ handled = <<>>
  BY InitInv DEF TraceInit, Init
<1>2. uartread = 0 /\ uartwrite = 0
  BY DEF TraceInit, Init
<1>3. Waiting = 0 /\ Len(stored) = 0
  BY <1>1, <1>2 DEF Waiting, bytes_waiting
<1>4. RingHasTrace
  BY <1>3, UartAssumption DEF RingHasTrace, Index
<1>5. TraceType
  BY <1>1 DEF TraceType
<1> QED
  BY <1>1, <1>4, <1>5 DEF TraceInv, HandledOnce

\* A reset loses what waits: all that was stored counts as passed.
LEMMA ResetKeepsTrace ==
    ASSUME TraceInv, UartInv', WatchdogReset, Record PROVE TraceInv'
<1>1. /\ pc' = "boot" /\ uartread' = 0 /\ uartwrite' = 0
      /\ line' = line /\ handled' = handled
  BY DEF WatchdogReset, Boot, world
<1>2. stored' = stored /\ places' = places
  BY <1>1 DEF Record
<1>3. Waiting' = 0
  BY <1>1 DEF Waiting, bytes_waiting
<1>4. UartInv /\ TraceType
  BY DEF TraceInv
<1>5. Len(stored) \in Nat /\ stored \in Seq(Byte)
  BY <1>4, TraceTypes DEF TraceType
<1>6. Spent' = Len(stored)
  BY <1>1, <1>2, <1>3, <1>5 DEF Spent, Passed
<1>7. Spent \in Int /\ Spent <= Len(stored)
  BY SpentIsStored
<1>8. TraceType' /\ HandledOnce' /\ (\A i \in DOMAIN handled : EndOf(i) <= Spent)'
  BY <1>1, <1>2, <1>5, <1>6, <1>7, HandledStays
<1>9. RingHasTrace'
  BY <1>2, <1>3, <1>5, UartAssumption DEF RingHasTrace, Index
<1> QED
  BY <1>8, <1>9 DEF TraceInv

LEMMA LineKeepsTrace ==
    ASSUME TraceInv, UartInv', Record,
           Receive \/ Disturb \/ (\E p \in Packets : Transmit(p))
    PROVE  TraceInv'
<1>1. TypeOK /\ UartInv /\ TraceType
  BY DEF TraceInv, UartInv
<1>2. line \in Seq(Frame)
  BY <1>1 DEF TypeOK
\* Steps that leave ring, main loop and history alone.
<1>3. ASSUME UNCHANGED <<uartbuf, uartread, uartwrite, pc, length, handled>> PROVE TraceInv'
  <2>1. stored' = stored /\ places' = places
    BY <1>3 DEF Record
  <2>2. Spent' = Spent
    BY <1>3, <2>1 DEF Spent, Passed, Waiting
  <2>3. Spent \in Int
    BY SpentIsStored
  <2> QED
    BY <1>3, <2>1, <2>2, <2>3, QuietKeepsTrace
<1>4. ASSUME NEW p \in Packets, Transmit(p) PROVE TraceInv'
  BY <1>3, <1>4 DEF Transmit, ring, locals
<1>5. CASE LoseFrame
  BY <1>3, <1>5 DEF LoseFrame, ring, locals
<1>6. CASE RxError
  BY <1>3, <1>6 DEF RxError, ring, locals
<1>7. ASSUME Arrival PROVE line' # line /\ Head(line) \in Frame /\ pc # "hung"
  BY <1>2, <1>7 DEF Arrival
<1>8. CASE RxFrame
  <2>1. Arrival /\ UNCHANGED <<handled, locals>>
    BY <1>8 DEF RxFrame
  <2>2. CASE mpcm /\ ~Head(line).addr
    BY <1>3, <1>8, <2>1, <2>2 DEF RxFrame, ring, locals
  <2>3. CASE ~(mpcm /\ ~Head(line).addr)
    <3>1. Store(Head(line))
      BY <1>8, <2>3 DEF RxFrame
    <3> QED
      BY <1>7, <2>1, <3>1, StoreKeepsTrace
  <2> QED
    BY <2>2, <2>3
<1>9. ASSUME NEW d \in Noise, RxNoise(d) PROVE TraceInv'
  <2>1. Arrival /\ UNCHANGED <<handled, locals>>
    BY <1>9 DEF RxNoise
  <2>2. CASE mpcm /\ ~Head(line).addr
    BY <1>3, <1>9, <2>1, <2>2 DEF RxNoise, ring, locals
  <2>3. CASE ~(mpcm /\ ~Head(line).addr)
    <3> DEFINE f == [Head(line) EXCEPT !.data = d]
    <3>1. Store(f)
      BY <1>9, <2>3 DEF RxNoise
    <3>2. f \in Frame
      BY <1>7, <2>1, UartAssumption DEF Frame
    <3> HIDE DEF f
    <3> QED
      BY <1>7, <2>1, <3>1, <3>2, StoreKeepsTrace
  <2> QED
    BY <2>2, <2>3
<1> QED
  BY <1>4, <1>5, <1>6, <1>8, <1>9 DEF Receive, Disturb

\* The main loop passes a byte.
LEMMA PassKeepsTrace ==
    ASSUME TraceInv, UartInv', UNCHANGED <<uartbuf, uartwrite, handled, stored, places>>,
           uartread' = Succ(uartread), Waiting > 0, pc' \notin {"advance", "hung"},
           Spent' = IF pc = "advance" THEN Spent ELSE Spent + 1
    PROVE  TraceInv'
<1>1. UartInv /\ TraceType /\ RingHasTrace
  BY DEF TraceInv
<1>2. /\ uartread \in Index /\ uartwrite \in Index /\ Waiting \in Index /\ Waiting \in Nat
      /\ Len(stored) \in Nat /\ Passed \in Int /\ stored \in Seq(Byte)
  BY <1>1, TraceTypes DEF TraceType
<1>3. Waiting' = Waiting - 1
  BY <1>2, WaitingAdvance DEF Waiting
<1>4. Passed' = Passed + 1
  BY <1>2, <1>3 DEF Passed
<1>5. Spent' \in Int /\ Spent <= Spent'
  BY SpentIsStored
<1>6. TraceType' /\ HandledOnce' /\ (\A i \in DOMAIN handled : EndOf(i) <= Spent)'
  BY <1>2, <1>5, HandledStays
<1>7. RingHasTrace'
  <2>1. Waiting' <= Len(stored)
    BY <1>1, <1>2, <1>3 DEF RingHasTrace
  <2>2. ASSUME NEW k \in Index, k < Waiting'
        PROVE  uartbuf[Ahead(Succ(uartread), k)] = stored[Passed' + k + 1]
    <3>1. k \in Nat /\ k + 1 \in Index /\ k + 1 < Waiting
      BY <1>2, <1>3, <2>2, UartAssumption DEF Index
    <3>2. Ahead(Succ(uartread), k) = Ahead(uartread, k + 1)
      BY <1>2, <3>1, SuccAhead
    <3>3. k + 1 # 0
      BY <3>1
    <3>4. uartbuf[Ahead(uartread, k + 1)] = stored[Passed + (k + 1) + 1]
      BY <1>1, <3>1, <3>3 DEF RingHasTrace
    <3>5. Passed + (k + 1) + 1 = Passed' + k + 1
      BY <1>2, <1>4, <3>1
    <3> QED
      BY <3>2, <3>4, <3>5
  <2> QED
    BY <2>1, <2>2 DEF RingHasTrace
<1> QED
  BY <1>6, <1>7 DEF TraceInv

\* The packet that is handled is the bytes at the front of the queue, and all packets
\* before it end before them.
LEMMA HandleKeepsTrace == ASSUME TraceInv, UartInv', Handle, Record PROVE TraceInv'
<1> DEFINE front == packet_length(uartbuf, uartread, uartwrite)
           bytes == [i \in 1 .. front |-> uartbuf[Ahead(uartread, i - 1)]]
           n == Len(handled) + 1
<1>1. /\ UartInv /\ TraceType /\ RingHasTrace /\ HandledOnce
      /\ \A i \in DOMAIN handled : EndOf(i) <= Spent
  BY DEF TraceInv
<1>2. /\ uartread \in Index /\ uartwrite \in Index /\ Waiting \in Index /\ Waiting \in Nat
      /\ Len(stored) \in Nat /\ Passed \in Int /\ stored \in Seq(Byte) /\ front \in Nat
      /\ uartbuf \in [Index -> Byte]
      /\ handled \in Seq(HandledPacket) /\ DOMAIN handled = 1 .. Len(handled)
      /\ Len(handled) \in Nat /\ places \in Seq(Nat) /\ Len(places) = Len(handled)
  BY <1>1, TraceTypes DEF TraceType
<1>3. pc = "handle" /\ pc' = "done" /\ UNCHANGED ring /\ line' = line
  BY DEF Handle, GoTo, world
<1>4. Waiting <= Len(stored) /\ Passed \in Nat
  BY <1>1, <1>2 DEF RingHasTrace, Passed
<1>5. front <= Waiting
  BY <1>1, <1>2, <1>3 DEF UartInv, MessageIsWhole, PacketInFront, HeaderSize
<1>6. CopyLength = front
  <2>1. front <= UARTBUF
    BY <1>2, <1>5, UartAssumption DEF Index
  <2> QED
    BY <1>2, <2>1, UartAssumption DEF CopyLength
<1> HIDE DEF front
<1>7. \E c : handled' = Append(handled, [bytes |-> bytes, command |-> c])
  BY <1>6 DEF Handle
<1> HIDE DEF bytes
<1>8. PICK c : handled' = Append(handled, [bytes |-> bytes, command |-> c])
  BY <1>7
<1>9. /\ Len(handled') = n /\ DOMAIN handled' = 1 .. n /\ handled'[n].bytes = bytes
      /\ \A i \in DOMAIN handled : handled'[i] = handled[i]
  BY <1>2, <1>8
<1>10. stored' = stored /\ places' = Append(places, Passed)
  <2>1. handled' # handled
    BY <1>2, <1>9
  <2> QED
    BY <1>3, <2>1 DEF Record
<1>11. /\ places' \in Seq(Nat) /\ Len(places') = n /\ places'[n] = Passed
       /\ \A i \in DOMAIN handled : places'[i] = places[i]
  BY <1>2, <1>4, <1>10
<1>12. Len(bytes) = front /\ DOMAIN bytes = 1 .. front
       /\ \A i \in 1 .. front : bytes[i] = uartbuf[Ahead(uartread, i - 1)]
  BY <1>2 DEF bytes
<1>13. \A i : i = n => EndOf(i)' = Passed + front
  BY <1>9, <1>11, <1>12 DEF EndOf
<1>14. \A i \in DOMAIN handled : EndOf(i)' = EndOf(i) /\ EndOf(i) \in Nat
  BY <1>1, <1>9, <1>11, TraceTypes DEF EndOf
<1>15. Spent = Passed /\ Spent' = Passed + front
  <2>1. Passed' = Passed /\ packet_length(uartbuf, uartread, uartwrite)' = front
    BY <1>3, <1>10 DEF Passed, Waiting, ring, front
  <2> QED
    BY <1>3, <2>1 DEF Spent
<1>16. bytes = SubSeq(stored, Passed + 1, Passed + front)
  <2>1. /\ DOMAIN SubSeq(stored, Passed + 1, Passed + front) = 1 .. front
        /\ \A i \in 1 .. front :
              SubSeq(stored, Passed + 1, Passed + front)[i] = stored[Passed + i]
        /\ SubSeq(stored, Passed + 1, Passed + front) \in Seq(Byte)
    BY <1>2, <1>4, <1>5 DEF Passed
  <2>2. ASSUME NEW i \in 1 .. front PROVE bytes[i] = stored[Passed + i]
    <3>1. i - 1 \in Index /\ i - 1 < Waiting
      BY <1>2, <1>5, <2>2, UartAssumption DEF Index
    <3>2. uartbuf[Ahead(uartread, i - 1)] = stored[Passed + (i - 1) + 1]
      BY <1>1, <1>3, <3>1 DEF RingHasTrace
    <3>3. Passed + (i - 1) + 1 = Passed + i
      BY <1>2, <2>2
    <3> QED
      BY <1>12, <3>2, <3>3
  <2>3. bytes \in Seq(Byte)
    <3>1. \A i \in 1 .. front : bytes[i] \in Byte
      <4> SUFFICES ASSUME NEW i \in 1 .. front PROVE bytes[i] \in Byte
        OBVIOUS
      <4>1. i - 1 \in Index
        BY <1>2, <1>5, UartAssumption DEF Index
      <4>2. Ahead(uartread, i - 1) \in Index
        BY <1>2, <4>1, AheadType
      <4> QED
        BY <1>2, <1>12, <4>2
    <3> QED
      BY <1>2, <3>1 DEF bytes
  <2> DEFINE part == SubSeq(stored, Passed + 1, Passed + front)
  <2>4. DOMAIN part = 1 .. front /\ part \in Seq(Byte) /\ \A i \in 1 .. front : part[i] = bytes[i]
    BY <2>1, <2>2
  <2> HIDE DEF part
  <2>5. bytes = [i \in 1 .. front |-> bytes[i]]
    BY <1>12, <2>3
  <2>6. part = [i \in 1 .. front |-> part[i]]
    BY <2>4
  <2>7. bytes = part
    BY <2>4, <2>5, <2>6
  <2> QED
    BY <2>7 DEF part
<1>17. HandledOnce'
  <2> SUFFICES ASSUME NEW i \in 1 .. n
               PROVE  /\ 0 <= places'[i] /\ EndOf(i)' <= Len(stored)
                      /\ handled'[i].bytes = SubSeq(stored, places'[i] + 1, EndOf(i)')
                      /\ \A j \in 1 .. i - 1 : EndOf(j)' <= places'[i]
    BY <1>9, <1>10 DEF HandledOnce
  <2>1. CASE i = n
    <3>1. Passed + front <= Len(stored)
      BY <1>2, <1>5 DEF Passed
    <3>2. \A j \in 1 .. n - 1 : EndOf(j)' <= Passed
      BY <1>1, <1>2, <1>14, <1>15
    <3> QED
      BY <1>4, <1>9, <1>11, <1>13, <1>16, <2>1, <3>1, <3>2
  <2>2. CASE i # n
    <3>1. i \in DOMAIN handled
      BY <1>2, <2>2
    <3>2. /\ 0 <= places[i] /\ EndOf(i) <= Len(stored)
          /\ handled[i].bytes = SubSeq(stored, places[i] + 1, EndOf(i))
          /\ \A j \in 1 .. i - 1 : EndOf(j) <= places[i]
      BY <1>1, <3>1 DEF HandledOnce
    <3>3. \A j \in 1 .. i - 1 : j \in DOMAIN handled
      BY <1>2, <3>1
    <3> QED
      BY <1>9, <1>11, <1>14, <3>1, <3>2, <3>3
  <2> QED
    BY <2>1, <2>2
<1>18. (\A i \in DOMAIN handled : EndOf(i) <= Spent)'
  <2> SUFFICES ASSUME NEW i \in 1 .. n PROVE EndOf(i)' <= Passed + front
    BY <1>9, <1>15
  <2>1. CASE i = n
    BY <1>2, <1>13, <2>1
  <2>2. CASE i # n
    <3>1. i \in DOMAIN handled
      BY <1>2, <2>2
    <3>2. EndOf(i) <= Passed /\ EndOf(i) \in Nat /\ EndOf(i)' = EndOf(i)
      BY <1>1, <1>14, <1>15, <3>1
    <3> QED
      BY <1>2, <3>2
  <2> QED
    BY <2>1, <2>2
<1>19. RingHasTrace'
  BY <1>1, <1>3, <1>10 DEF RingHasTrace, Passed, Waiting, ring
<1> QED
  BY <1>2, <1>9, <1>10, <1>11, <1>17, <1>18, <1>19 DEF TraceInv, TraceType

LEMMA MainKeepsTrace == ASSUME TraceInv, UartInv', Main, Record PROVE TraceInv'
<1>1. UartInv /\ TraceType /\ RingHasTrace
  BY DEF TraceInv
<1>2. /\ uartbuf \in [Index -> Byte] /\ uartread \in Index
      /\ uartwrite \in Index /\ Waiting \in Index
      /\ Waiting \in Nat /\ Len(stored) \in Nat /\ Passed \in Int
      /\ length \in Nat /\ stored \in Seq(Byte) /\ Spent \in Int
      /\ packet_length(uartbuf, uartread, uartwrite) \in Nat
  BY <1>1, TraceTypes, SpentIsStored DEF TraceType
<1>3. /\ line' = line
      /\ ~Handle => stored' = stored /\ places' = places /\ handled' = handled
  BY DEF Main, Record, world, Started, Poll, Recheck, Judge, Decide, Handle,
         StartDiscard, ClearByte, Advance, EndDiscard, SkipByte, EndSkip
<1> USE DEF GoTo
<1>4. CASE Handle
  BY <1>4, HandleKeepsTrace
<1> SUFFICES ASSUME ~Handle PROVE TraceInv'
  BY <1>4
<1>5. UNCHANGED <<stored, places, handled>>
  BY <1>3
\* Before a packet is handled and after it is discarded, just what is passed is spent.
<1>6. ASSUME UNCHANGED <<uartbuf, uartread, uartwrite>>,
             pc \notin {"hung", "done", "clear", "advance"},
             pc' \notin {"hung", "done", "clear", "advance"}
      PROVE  TraceInv'
  <2>1. Spent = Passed /\ Spent' = Passed'
    BY <1>6 DEF Spent
  <2>2. Passed' = Passed
    BY <1>5, <1>6 DEF Passed, Waiting
  <2> QED
    BY <1>2, <1>5, <1>6, <2>1, <2>2, QuietKeepsTrace
<1>7. CASE Started
  BY <1>6, <1>7 DEF Started, ring
<1>8. CASE Poll
  BY <1>6, <1>8 DEF Poll, ring
<1>9. CASE Recheck
  BY <1>6, <1>9 DEF Recheck, ring
<1>10. CASE Judge
  <2>1. ret \in {"decide", "poll"}
    BY <1>1 DEF UartInv, TypeOK
  <2> QED
    BY <1>6, <1>10, <2>1 DEF Judge, ring
<1>11. CASE Decide
  <2>1. status \in {"idle", "message", "wrong_crc"}
    BY <1>1 DEF UartInv, TypeOK
  <2>2. pc' \in {"poll", "handle", "skip"}
    BY <1>11, <2>1 DEF Decide
  <2> QED
    BY <1>6, <1>11, <2>2 DEF Decide, ring
<1>12. CASE EndSkip
  BY <1>6, <1>12 DEF EndSkip, ring
<1>13. CASE StartDiscard
  <2>1. /\ pc = "done" /\ pc' = "clear" /\ UNCHANGED ring
        /\ length' = packet_length(uartbuf, uartread, uartwrite)
    BY <1>13 DEF StartDiscard
  <2>2. Spent = Passed + packet_length(uartbuf, uartread, uartwrite)
    BY <2>1 DEF Spent
  <2>3. Spent' = Passed' + length'
    BY <2>1 DEF Spent
  <2>4. Passed' = Passed
    BY <1>5, <2>1 DEF Passed, Waiting, ring
  <2> QED
    BY <1>2, <1>5, <2>1, <2>2, <2>3, <2>4, QuietKeepsTrace DEF ring
<1>14. CASE EndDiscard
  <2>1. pc = "clear" /\ length = 0 /\ pc' = "recheck" /\ UNCHANGED ring
    BY <1>14 DEF EndDiscard
  <2>2. Spent = Passed + length /\ Spent' = Passed'
    BY <2>1 DEF Spent
  <2>3. Passed' = Passed
    BY <1>5, <2>1 DEF Passed, Waiting, ring
  <2> QED
    BY <1>2, <1>5, <2>1, <2>2, <2>3, QuietKeepsTrace DEF ring
<1>15. CASE ClearByte
  <2>1. /\ pc = "clear" /\ length > 0 /\ pc' = "advance" /\ length' = length
        /\ uartbuf' = [uartbuf EXCEPT ![uartread] = 1]
        /\ uartread' = uartread /\ uartwrite' = uartwrite
    BY <1>15 DEF ClearByte, locals
  <2>2. Waiting' = Waiting /\ Passed' = Passed
    BY <1>5, <2>1 DEF Passed, Waiting
  <2>3. Spent' = Spent
    BY <2>1, <2>2 DEF Spent
  <2>4. TraceType' /\ HandledOnce' /\ (\A i \in DOMAIN handled : EndOf(i) <= Spent)'
    BY <1>2, <1>5, <2>3, HandledStays
  <2>5. RingHasTrace'
    <3>1. ASSUME NEW k \in Index, k < Waiting, k # 0
          PROVE  uartbuf'[Ahead(uartread, k)] = stored[Passed + k + 1]
      <4>1. Ahead(uartread, k) # uartread
        BY <1>2, <3>1, UartAssumption DEF Ahead, Index
      <4>2. uartbuf'[Ahead(uartread, k)] = uartbuf[Ahead(uartread, k)]
        BY <1>2, <2>1, <4>1
      <4> QED
        BY <1>1, <3>1, <4>2 DEF RingHasTrace
    <3> QED
      BY <1>1, <1>5, <2>1, <2>2, <3>1 DEF RingHasTrace
  <2> QED
    BY <2>4, <2>5 DEF TraceInv
<1>16. CASE Advance
  <2>1. /\ pc = "advance" /\ pc' = "clear" /\ length' = length - 1
        /\ uartread' = Succ(uartread) /\ uartbuf' = uartbuf /\ uartwrite' = uartwrite
    BY <1>16 DEF Advance
  <2>2. Waiting > 0
    BY <1>1, <1>2, <2>1 DEF UartInv, ReadStaysBehindWrite
  <2>3. Waiting' = Waiting - 1
    BY <1>2, <2>1, <2>2, WaitingAdvance DEF Waiting
  <2>4. Passed' = Passed + 1
    BY <1>2, <1>5, <2>3 DEF Passed
  <2>5. Spent = Passed + length /\ Spent' = Passed' + length'
    BY <2>1 DEF Spent
  <2>6. Spent' = Spent
    BY <1>2, <2>1, <2>4, <2>5
  <2> QED
    BY <1>5, <2>1, <2>2, <2>6, PassKeepsTrace
<1>17. CASE SkipByte
  <2>1. /\ pc = "skip" /\ pc' = "skipped"
        /\ uartread' = Succ(uartread) /\ uartbuf' = uartbuf /\ uartwrite' = uartwrite
    BY <1>17 DEF SkipByte
  <2>2. Waiting > 0
    BY <1>1, <2>1 DEF UartInv, ReadStaysBehindWrite
  <2>3. Waiting' = Waiting - 1
    BY <1>2, <2>1, <2>2, WaitingAdvance DEF Waiting
  <2>4. Passed' = Passed + 1
    BY <1>2, <1>5, <2>3 DEF Passed
  <2>5. Spent = Passed /\ Spent' = Passed'
    BY <2>1 DEF Spent
  <2> QED
    BY <1>5, <2>1, <2>2, <2>4, <2>5, PassKeepsTrace
<1> QED
  BY <1>7, <1>8, <1>9, <1>10, <1>11, <1>12, <1>13, <1>14, <1>15, <1>16, <1>17 DEF Main

\* The ring with its history is the ring: the history records and decides nothing.
LEMMA TraceIsSpec == TraceSpec => Spec
<1>1. TraceInit => Init
  BY DEF TraceInit
<1>2. [Next /\ Record]_traceVars => [Next]_vars
  BY DEF traceVars
<1> QED
  BY <1>1, <1>2, PTL DEF TraceSpec, Spec

\* The ring between the receive interrupt and the main loop (lib/uart.c:98-233) is a
\* queue of bytes, for any packets, any disturbed frames, any overflow and reset: the
\* bytes that wait in it are the last ones stored, in their order.
THEOREM TraceInvariant == TraceSpec => []TraceInv
<1>1. TraceInit => TraceInv
  BY InitTrace
<1>2. TraceInv /\ UartInv' /\ [Next /\ Record]_traceVars => TraceInv'
  <2> SUFFICES ASSUME TraceInv, UartInv', [Next /\ Record]_traceVars PROVE TraceInv'
    OBVIOUS
  <2>1. CASE UNCHANGED traceVars
    <3>1. UNCHANGED <<uartbuf, uartread, uartwrite, handled, stored, places, pc, length>>
      BY <2>1 DEF traceVars, vars, ring, locals
    <3>2. Spent' = Spent
      BY <3>1 DEF Spent, Passed, Waiting
    <3> QED
      BY <3>1, <3>2, SpentIsStored, QuietKeepsTrace
  <2>2. CASE Main /\ Record
    BY <2>2, MainKeepsTrace
  <2>3. CASE WatchdogReset /\ Record
    BY <2>3, ResetKeepsTrace
  <2>4. CASE (Receive \/ Disturb \/ \E p \in Packets : Transmit(p)) /\ Record
    BY <2>4, LineKeepsTrace
  <2> QED
    BY <2>1, <2>2, <2>3, <2>4 DEF Next
<1> QED
  BY <1>1, <1>2, TraceIsSpec, UartInvariant, PTL DEF TraceSpec

\* What main handles (lib/uart.c:198-233) was stored by the interrupt, byte for byte,
\* and no byte is handled twice or behind a later one.
THEOREM PacketsAreHandledOnce == TraceSpec => []HandledOnce
<1>1. TraceInv => HandledOnce
  BY DEF TraceInv
<1> QED
  BY <1>1, TraceInvariant, PTL

-----------------------------------------------------------------------------
(* A line without faults and with senders that wait                        *)

\* The header checksum fits and the length field is true.
WellFormed(p) ==
    /\ Len(p) >= HeaderSize
    /\ p[3] = HeaderSum(p[1], p[2], p[4], p[5], p[6])
    /\ Len(p) = Uint16(HeaderSize + Word(p[5], p[6]))

\* Packets for other nodes.  Of these, a node in multi-processor mode stores
\* the address byte.
Foreign == {p \in Packets : ~Mine(p)}
Leftover == {p[1] : p \in Foreign}

\* Address bytes of other nodes, alone or with the beginning of a packet behind
\* them, do not look like a header.
LooksLikeHeader(h) == h[2] = HeaderSum(h[0], h[1], h[3], h[4], h[5])
NoFalseHeader ==
    \A s \in [0 .. 5 -> Leftover], p \in Packets, r \in 1 .. 6 :
        ~LooksLikeHeader([i \in 0 .. 5 |-> IF i < r THEN s[i] ELSE p[i - r + 1]])

\* The ring has room for a packet, behind the address bytes that can be there.
Fits == \A p \in Packets : Len(p) < UARTBUF /\ (Foreign # {} => Len(p) + 5 < UARTBUF)

\* What the senders do and send.
CourteousSenders ==
    /\ Paced
    /\ \A p \in Packets : WellFormed(p)
    /\ NoFalseHeader
    /\ Fits

\* The packet on the line or last there, and how much of it has arrived.
Current == sent[Len(sent)]
Arrived == IF sent = <<>> THEN 0 ELSE Len(Current) - Len(line)

\* No overflow, no reset, and a busmaster never filters.
Calm == ~wdt /\ pc # "hung" /\ (IsBusmaster => ~mpcm)

\* The line carries the rest of the current packet.
LineInv ==
    /\ sent = <<>> => line = <<>>
    /\ sent # <<>> =>
          /\ Len(line) <= Len(Current)
          /\ \A i \in 1 .. Len(line) : line[i] = Frames(Current)[Arrived + i]

\* The ring holds r address bytes of other nodes and the first n bytes of p.
Holds(buf, rd, wr, p, r, n) ==
    /\ bytes_waiting(rd, wr) = r + n
    /\ \A i \in Index : i < r => buf[Ahead(rd, i)] \in Leftover
    /\ \A i \in Index : i < n => buf[Ahead(rd, r + i)] = p[i + 1]
RingHolds(r, n) == Holds(uartbuf, uartread, uartwrite, Current, r, n)

\* The handled packets are among the first b that were sent, in their order.
HandledUpTo(h, s, b) ==
    \E f \in [DOMAIN h -> 1 .. b] :
        /\ \A i, j \in DOMAIN h : i < j => f[i] < f[j]
        /\ \A i \in DOMAIN h : h[i].bytes = s[f[i]]
Unhandled == HandledUpTo(handled, sent, Len(sent) - 1)

\* There is nothing that bus_status could report.
Quiet(r) == Waiting < HeaderSize \/ (r = 0 /\ line # <<>>)

\* The status is true of the ring, except where main has just changed the one
\* and not yet the other.
Noticed(r, n) ==
    /\ status = "message" => r = 0 /\ n > 0 /\ line = <<>>
    /\ status = "wrong_crc" /\ pc # "skipped" => r > 0 /\ Waiting >= HeaderSize
    /\ status = "idle" /\ pc \in {"boot", "poll", "judge", "decide"} =>
          Quiet(r) \/ (pc = "judge" /\ waiting = Waiting)
    /\ pc = "skip" => status = "wrong_crc"

\* While no packet is being handled, the ring holds address bytes of other
\* nodes and, unless the node filters it or has handled it, the part of the
\* current packet that has arrived.
LooksAt(r, n) ==
    /\ RingHolds(r, n)
    /\ n > 0 => n = Arrived /\ r <= 5 /\ Unhandled
    /\ line # <<>> /\ Arrived > 0 => (mpcm <=> n = 0)
    /\ line # <<>> /\ Arrived = 0 => r <= 5
    /\ Noticed(r, n)
Looking == pc \in {"boot", "poll", "judge", "decide", "recheck", "skip", "skipped"}
LookInv == Looking => \E r \in 0 .. 6, n \in Nat : LooksAt(r, n)

\* While a packet is handled, it is the current one and alone in the ring.
ServeInv ==
    /\ pc \in {"handle", "done"} =>
          line = <<>> /\ sent # <<>> /\ status = "message" /\ RingHolds(0, Len(Current))
    /\ pc \in {"clear", "advance"} => line = <<>> /\ length = Waiting

OrderInv ==
    /\ HandledUpTo(handled, sent, Len(sent))
    /\ line # <<>> \/ pc = "handle" => Unhandled

CleanInv == Calm /\ LineInv /\ LookInv /\ ServeInv /\ OrderInv

-----------------------------------------------------------------------------
(* What stands in the ring *)

\* The slot k behind the next is the slot k + 1 behind this one.
LEMMA AheadOfSucc ==
    ASSUME NEW rd \in Index, NEW k \in Nat, k + 1 < UARTBUF
    PROVE  Ahead(Succ(rd), k) = Ahead(rd, k + 1)
BY UartAssumption DEF Index, Ahead, Succ, HeaderSize

\* The next byte is stored behind those that wait.
LEMMA WriteIsBehind ==
    ASSUME NEW rd \in Index, NEW wr \in Index
    PROVE  Ahead(rd, bytes_waiting(rd, wr)) = wr
BY UartAssumption DEF Index, Ahead, bytes_waiting, HeaderSize

\* With fewer than UARTBUF - 1 bytes there is room for one more.
LEMMA RoomForOne ==
    ASSUME NEW rd \in Index, NEW wr \in Index, bytes_waiting(rd, wr) + 1 < UARTBUF
    PROVE  Succ(wr) # rd
BY UartAssumption DEF Index, Succ, bytes_waiting, HeaderSize

\* In buf2 the byte d stands behind those that wait in buf.
Behind(buf, buf2, rd, wr, d) ==
    /\ bytes_waiting(rd, Succ(wr)) = bytes_waiting(rd, wr) + 1
    /\ buf2[Ahead(rd, bytes_waiting(rd, wr))] = d
    /\ \A k \in Nat : k < bytes_waiting(rd, wr) => buf2[Ahead(rd, k)] = buf[Ahead(rd, k)]

\* Storing a byte leaves those that wait and puts it behind them.
LEMMA Stored ==
    ASSUME NEW buf \in [Index -> Byte], NEW rd \in Index, NEW wr \in Index,
           NEW d \in Byte, Succ(wr) # rd
    PROVE  Behind(buf, [buf EXCEPT ![wr] = d], rd, wr, d)
<1> DEFINE buf2 == [buf EXCEPT ![wr] = d]
<1>1. bytes_waiting(rd, Succ(wr)) = bytes_waiting(rd, wr) + 1
  BY WaitingStore
<1>2. buf2[Ahead(rd, bytes_waiting(rd, wr))] = d
  BY WriteIsBehind
<1>3. ASSUME NEW k \in Nat, k < bytes_waiting(rd, wr)
      PROVE  buf2[Ahead(rd, k)] = buf[Ahead(rd, k)]
  BY <1>3, FrontIsNotWritten
<1> QED
  BY <1>1, <1>2, <1>3 DEF Behind

\* The address byte of a packet for another node joins those that wait.
LEMMA StoredLeftover ==
    ASSUME NEW buf \in [Index -> Byte], NEW rd \in Index, NEW wr \in Index,
           NEW d \in Byte, Succ(wr) # rd, d \in Leftover,
           NEW p, NEW p2, NEW r \in Nat, Holds(buf, rd, wr, p, r, 0)
    PROVE  Holds([buf EXCEPT ![wr] = d], rd, Succ(wr), p2, r + 1, 0)
<1> DEFINE buf2 == [buf EXCEPT ![wr] = d]
<1>1. /\ bytes_waiting(rd, Succ(wr)) = r + 1
      /\ buf2[Ahead(rd, r)] = d
      /\ \A k \in Nat : k < r => buf2[Ahead(rd, k)] = buf[Ahead(rd, k)]
  <2>1. bytes_waiting(rd, wr) = r
    BY DEF Holds
  <2>2. Behind(buf, buf2, rd, wr, d)
    BY Stored
  <2> QED
    BY <2>1, <2>2 DEF Behind
<1> HIDE DEF buf2
<1>2. ASSUME NEW i \in Index, i < r + 1 PROVE buf2[Ahead(rd, i)] \in Leftover
  <2>1. i \in Nat
    BY UartAssumption DEF Index
  <2>2. CASE i = r
    BY <1>1, <2>2
  <2>3. CASE i < r
    BY <1>1, <2>1, <2>3 DEF Holds
  <2> QED
    BY <1>2, <2>1, <2>2, <2>3
<1>3. \A i \in Index : ~(i < 0)
  BY UartAssumption DEF Index
<1> QED
  BY <1>1, <1>2, <1>3 DEF Holds, buf2

\* The next byte of the packet joins its beginning.
LEMMA StoredNext ==
    ASSUME NEW buf \in [Index -> Byte], NEW rd \in Index, NEW wr \in Index,
           NEW d \in Byte, Succ(wr) # rd,
           NEW p, NEW r \in Nat, NEW n \in Nat, Holds(buf, rd, wr, p, r, n), d = p[n + 1]
    PROVE  Holds([buf EXCEPT ![wr] = d], rd, Succ(wr), p, r, n + 1)
<1> DEFINE buf2 == [buf EXCEPT ![wr] = d]
<1>1. /\ bytes_waiting(rd, Succ(wr)) = r + (n + 1)
      /\ buf2[Ahead(rd, r + n)] = d
      /\ \A k \in Nat : k < r + n => buf2[Ahead(rd, k)] = buf[Ahead(rd, k)]
  <2>1. bytes_waiting(rd, wr) = r + n
    BY DEF Holds
  <2>2. Behind(buf, buf2, rd, wr, d)
    BY Stored
  <2> QED
    BY <2>1, <2>2 DEF Behind
<1> HIDE DEF buf2
<1>2. ASSUME NEW i \in Index, i < r PROVE buf2[Ahead(rd, i)] \in Leftover
  <2>1. i \in Nat /\ i < r + n
    BY <1>2, UartAssumption DEF Index
  <2> QED
    BY <1>1, <1>2, <2>1 DEF Holds
<1>3. ASSUME NEW i \in Index, i < n + 1 PROVE buf2[Ahead(rd, r + i)] = p[i + 1]
  <2>1. i \in Nat /\ r + i \in Nat
    BY UartAssumption DEF Index
  <2>2. CASE i = n
    BY <1>1, <2>2
  <2>3. CASE i < n
    <3>1. r + i < r + n
      BY <2>1, <2>3
    <3> QED
      BY <1>1, <2>1, <2>3, <3>1 DEF Holds
  <2> QED
    BY <1>3, <2>1, <2>2, <2>3
<1> QED
  BY <1>1, <1>2, <1>3 DEF Holds, buf2

\* Passing an address byte leaves the others and the packet.
LEMMA PassedLeftover ==
    ASSUME NEW buf, NEW rd \in Index, NEW wr \in Index, NEW p,
           NEW r \in Nat, NEW n \in Nat, r > 0, Holds(buf, rd, wr, p, r, n)
    PROVE  Holds(buf, Succ(rd), wr, p, r - 1, n)
<1>1. bytes_waiting(rd, wr) = r + n /\ bytes_waiting(rd, wr) < UARTBUF
  BY WaitingType, UartAssumption DEF Holds, Index
<1>2. bytes_waiting(Succ(rd), wr) = (r - 1) + n
  BY <1>1, WaitingAdvance
<1>3. ASSUME NEW i \in Index, i < r - 1 PROVE buf[Ahead(Succ(rd), i)] \in Leftover
  <2>1. i \in Nat /\ i + 1 < r /\ i + 1 < UARTBUF /\ i + 1 \in Index
    BY <1>1, <1>3, UartAssumption DEF Index
  <2>2. Ahead(Succ(rd), i) = Ahead(rd, i + 1)
    BY <2>1, AheadOfSucc
  <2> QED
    BY <2>1, <2>2 DEF Holds
<1>4. ASSUME NEW i \in Index, i < n PROVE buf[Ahead(Succ(rd), (r - 1) + i)] = p[i + 1]
  <2>1. (r - 1) + i \in Nat /\ ((r - 1) + i) + 1 = r + i /\ r + i < UARTBUF
    BY <1>1, <1>4, UartAssumption DEF Index
  <2>2. Ahead(Succ(rd), (r - 1) + i) = Ahead(rd, r + i)
    BY <2>1, AheadOfSucc
  <2> QED
    BY <1>4, <2>2 DEF Holds
<1> QED
  BY <1>2, <1>3, <1>4 DEF Holds

\* A ring with address bytes in front does not begin with a header.
LEMMA NoHeaderInFront ==
    ASSUME CourteousSenders, NEW buf \in [Index -> Byte], NEW rd \in Index, NEW wr \in Index,
           NEW p, NEW r \in Nat, NEW n \in Nat, n > 0 => p \in Packets,
           Holds(buf, rd, wr, p, r, n), r > 0, r + n >= HeaderSize
    PROVE  ~HeaderOk(buf, rd)
<1>1. \A i \in 0 .. 5 : i \in Index /\ i \in Nat
  BY UartAssumption DEF Index, HeaderSize
<1>2. buf[Ahead(rd, 0)] \in Leftover
  BY <1>1 DEF Holds
<1>3. PICK q \in Foreign : TRUE
  BY <1>2 DEF Leftover
<1>4. PICK t \in Packets : n > 0 => t = p
  <2>1. CASE n > 0
    BY <2>1
  <2>2. CASE ~(n > 0)
    BY <1>3, <2>2 DEF Foreign
  <2> QED
    BY <2>1, <2>2
<1> DEFINE k == IF r < 6 THEN r ELSE 6
           s == [i \in 0 .. 5 |-> IF i < k THEN buf[Ahead(rd, i)] ELSE buf[Ahead(rd, 0)]]
           h == [i \in 0 .. 5 |-> IF i < k THEN s[i] ELSE t[i - k + 1]]
<1>5. k \in 1 .. 6 /\ k <= r
  OBVIOUS
<1>6. s \in [0 .. 5 -> Leftover]
  BY <1>1, <1>2, <1>5 DEF Holds
<1>7. ~LooksLikeHeader(h)
  <2> HIDE DEF k, s
  <2> QED
    BY <1>4, <1>5, <1>6 DEF CourteousSenders, NoFalseHeader
<1>8. ASSUME NEW i \in 0 .. 5 PROVE h[i] = buf[Ahead(rd, i)]
  <2>1. CASE i < k
    BY <2>1
  <2>2. CASE ~(i < k)
    <3>1. k = r /\ i - r \in Nat /\ i - r < n /\ r + (i - r) = i /\ n > 0
      BY <1>5, <2>2 DEF HeaderSize
    <3>2. i - r \in Index
      BY <3>1, UartAssumption DEF Index, HeaderSize
    <3>3. buf[Ahead(rd, i)] = p[i - r + 1]
      BY <3>1, <3>2 DEF Holds
    <3> QED
      BY <1>4, <2>2, <3>1, <3>3
  <2> QED
    BY <2>1, <2>2
<1>9. Ahead(rd, 0) = rd
  BY UartAssumption DEF Ahead, Index, HeaderSize
<1> HIDE DEF h
<1>10. /\ h[0] = buf[rd] /\ h[1] = buf[Ahead(rd, 1)] /\ h[2] = buf[Ahead(rd, 2)]
       /\ h[3] = buf[Ahead(rd, 3)] /\ h[4] = buf[Ahead(rd, 4)] /\ h[5] = buf[Ahead(rd, 5)]
  BY <1>8, <1>9
<1> QED
  BY <1>7, <1>10 DEF LooksLikeHeader, HeaderOk

\* A ring with the beginning of a packet in front begins with its header.
LEMMA HeaderInFront ==
    ASSUME CourteousSenders, NEW buf \in [Index -> Byte], NEW rd \in Index, NEW wr \in Index,
           NEW p \in Packets, NEW n \in Nat, n >= HeaderSize, Holds(buf, rd, wr, p, 0, n)
    PROVE  HeaderOk(buf, rd) /\ packet_length(buf, rd, wr) = Len(p)
<1>1. \A i \in 0 .. 5 : i \in Index /\ i < n /\ 0 + i = i
  BY UartAssumption DEF Index, HeaderSize
<1>2. \A i \in 0 .. 5 : buf[Ahead(rd, i)] = p[i + 1]
  BY <1>1 DEF Holds
<1>3. Ahead(rd, 0) = rd
  BY UartAssumption DEF Ahead, Index, HeaderSize
<1>4. /\ buf[rd] = p[1] /\ buf[Ahead(rd, 1)] = p[2] /\ buf[Ahead(rd, 2)] = p[3]
      /\ buf[Ahead(rd, 3)] = p[4] /\ buf[Ahead(rd, 4)] = p[5] /\ buf[Ahead(rd, 5)] = p[6]
  BY <1>2, <1>3
<1>5. WellFormed(p)
  BY DEF CourteousSenders
<1>6. HeaderOk(buf, rd)
  BY <1>4, <1>5 DEF WellFormed, HeaderOk
<1>7. ~(bytes_waiting(rd, wr) < HeaderSize)
  BY DEF Holds, HeaderSize
<1>8. packet_length(buf, rd, wr) = Len(p)
  BY <1>4, <1>5, <1>7 DEF WellFormed, packet_length
<1> QED
  BY <1>6, <1>8

\* What check_complete makes of the status st, when it counted w bytes.
Judged(w, p, r, st, new) ==
    /\ w < HeaderSize => new = st
    /\ w >= HeaderSize /\ r > 0 => new = "wrong_crc"
    /\ w >= HeaderSize /\ r = 0 => new = IF w = Len(p) THEN "message" ELSE st

\* check_complete judges what stands in the ring.
LEMMA Judgement ==
    ASSUME CourteousSenders, NEW buf \in [Index -> Byte], NEW rd \in Index, NEW wr \in Index,
           NEW p, NEW r \in Nat, NEW n \in Nat, n > 0 => p \in Packets,
           Holds(buf, rd, wr, p, r, n), NEW w \in Nat, w <= r + n, NEW st
    PROVE  Judged(w, p, r, st, check_complete(w, buf, rd, wr, st))
<1> USE DEF Judged
<1>1. CASE w < HeaderSize
  BY <1>1 DEF check_complete, HeaderSize
<1>2. CASE w >= HeaderSize /\ r > 0
  <2>1. r + n >= HeaderSize
    BY <1>2 DEF HeaderSize
  <2>2. ~HeaderOk(buf, rd)
    BY <1>2, <2>1, NoHeaderInFront
  <2> QED
    BY <1>2, <2>2 DEF check_complete, HeaderSize
<1>3. CASE w >= HeaderSize /\ r = 0
  <2>1. n >= HeaderSize /\ p \in Packets
    BY <1>3 DEF HeaderSize
  <2>2. HeaderOk(buf, rd) /\ packet_length(buf, rd, wr) = Len(p)
    BY <1>3, <2>1, HeaderInFront
  <2> QED
    BY <1>3, <2>2 DEF check_complete, HeaderSize
<1> QED
  BY <1>1, <1>2, <1>3 DEF HeaderSize

-----------------------------------------------------------------------------
(* Frames and the status *)

LEMMA EmptyLine == ASSUME NEW s \in Seq(Frame) PROVE s = <<>> <=> Len(s) = 0
OBVIOUS

LEMMA CurrentType ==
    ASSUME UartInv, sent # <<>>
    PROVE  /\ Current \in Packets /\ Current \in Seq(Byte) /\ Len(Current) \in Nat
           /\ Len(sent) \in Nat /\ Len(sent) > 0
<1>1. sent \in Seq(Packets)
  BY DEF UartInv, TypeOK
<1>2. Len(sent) \in Nat /\ Len(sent) > 0 /\ Current \in Packets
  BY <1>1 DEF Current
<1> QED
  BY <1>2, UartAssumption

LEMMA ArrivedType == ASSUME UartInv, LineInv PROVE Arrived \in Nat
<1>1. line \in Seq(Frame) /\ Len(line) \in Nat
  BY DEF UartInv, TypeOK
<1>2. CASE sent = <<>>
  BY <1>2 DEF Arrived
<1>3. CASE sent # <<>>
  BY <1>1, <1>3, CurrentType DEF Arrived, LineInv
<1> QED
  BY <1>2, <1>3

\* The frame that arrives is the next of the current packet.
LEMMA NextFrame ==
    ASSUME UartInv, LineInv, line # <<>>
    PROVE  /\ sent # <<>> /\ Arrived \in Nat /\ Arrived + 1 <= Len(Current)
           /\ Head(line) \in Frame
           /\ (Head(line).addr <=> Arrived = 0) /\ Head(line).data = Current[Arrived + 1]
<1>1. line \in Seq(Frame) /\ Len(line) \in Nat /\ Len(line) > 0 /\ Head(line) = line[1]
  BY DEF UartInv, TypeOK
<1>2. sent # <<>> /\ Len(line) <= Len(Current)
  BY DEF LineInv
<1>3. Len(Current) \in Nat /\ Arrived = Len(Current) - Len(line)
  BY <1>2, CurrentType DEF Arrived
<1>4. Arrived \in Nat /\ Arrived + 1 <= Len(Current)
  BY <1>1, <1>2, <1>3
<1>5. Head(line) = Frames(Current)[Arrived + 1]
  BY <1>1, <1>2 DEF LineInv
<1>6. /\ Frames(Current)[Arrived + 1].addr = (Arrived + 1 = 1)
      /\ Frames(Current)[Arrived + 1].data = Current[Arrived + 1]
  BY <1>3, <1>4 DEF Frames
<1>7. Head(line) \in Frame
  BY <1>1
<1>8. Head(line).addr <=> Arrived = 0
  <2>1. Arrived + 1 = 1 <=> Arrived = 0
    BY <1>4
  <2> QED
    BY <1>5, <1>6, <2>1, Zenon
<1>9. Head(line).data = Current[Arrived + 1]
  BY <1>5, <1>6, Zenon
<1> QED
  BY <1>2, <1>4, <1>7, <1>8, <1>9

\* One frame later.
LEMMA LineMovesOn ==
    ASSUME UartInv, LineInv, line # <<>>, line' = Tail(line), sent' = sent
    PROVE  /\ LineInv' /\ Current' = Current /\ Arrived' = Arrived + 1
           /\ line' = <<>> <=> Arrived + 1 = Len(Current)
<1>1. line \in Seq(Frame) /\ Len(line) \in Nat /\ Len(line) > 0
  BY DEF UartInv, TypeOK
<1>2. /\ line' \in Seq(Frame) /\ Len(line') = Len(line) - 1
      /\ \A i \in 1 .. Len(line') : line'[i] = line[i + 1]
  BY <1>1
<1>3. Current' = Current
  BY DEF Current
<1>4. sent # <<>> /\ Len(line) <= Len(Current) /\ Len(Current) \in Nat
  BY CurrentType DEF LineInv
<1>5. Arrived = Len(Current) - Len(line) /\ Arrived' = Len(Current) - Len(line')
  BY <1>3, <1>4 DEF Arrived
<1>6. Arrived' = Arrived + 1
  BY <1>1, <1>2, <1>4, <1>5
<1>7. line' = <<>> <=> Len(line') = 0
  BY <1>2, EmptyLine
<1>8. line' = <<>> <=> Arrived + 1 = Len(Current)
  <2>1. Len(line') \in Int /\ Len(line) \in Int /\ Len(Current) \in Int
    BY <1>1, <1>2, <1>4
  <2>2. Arrived + 1 = Len(Current) - Len(line')
    BY <1>5, <1>6
  <2>3. Len(line') = 0 <=> Arrived + 1 = Len(Current)
    <3>1. \A a, b, c \in Int : a = b - c => (c = 0 <=> a = b)
      OBVIOUS
    <3>2. Arrived + 1 \in Int
      BY <2>1, <2>2
    <3> HIDE DEF Arrived
    <3> QED
      BY <2>1, <2>2, <3>1, <3>2, Zenon
  <2> QED
    BY <1>7, <2>3
<1>9. ASSUME NEW i \in 1 .. Len(line')
      PROVE  line'[i] = Frames(Current)[Arrived' + i]
  <2>1. i + 1 \in 1 .. Len(line) /\ line'[i] = line[i + 1]
    BY <1>1, <1>2
  <2>2. line[i + 1] = Frames(Current)[Arrived + (i + 1)]
    BY <1>4, <2>1 DEF LineInv
  <2>3. Arrived + (i + 1) = Arrived' + i
    BY <1>1, <1>4, <1>5, <1>6
  <2> QED
    BY <2>1, <2>2, <2>3
<1>10. Frames(Current)' = Frames(Current)
  BY <1>3 DEF Frames
<1>11. LineInv'
  BY <1>1, <1>2, <1>3, <1>4, <1>9, <1>10 DEF LineInv
<1> QED
  BY <1>3, <1>6, <1>8, <1>11

\* What is in the ring of the current packet is part of it.
LEMMA PartOfPacket ==
    ASSUME UartInv, LineInv, NEW n \in Nat, n > 0 => n = Arrived
    PROVE  n > 0 => /\ sent # <<>> /\ Current \in Packets /\ n <= Len(Current)
                    /\ n = Len(Current) <=> line = <<>>
<1> SUFFICES ASSUME n > 0
             PROVE  /\ sent # <<>> /\ Current \in Packets /\ n <= Len(Current)
                    /\ n = Len(Current) <=> line = <<>>
  OBVIOUS
<1>1. sent # <<>>
  BY DEF Arrived
<1>2. line \in Seq(Frame) /\ Len(line) \in Nat /\ Current \in Packets /\ Len(Current) \in Nat
  BY <1>1, CurrentType DEF UartInv, TypeOK
<1>3. n = Len(Current) - Len(line)
  BY <1>1 DEF Arrived
<1>4. Len(line) = 0 <=> line = <<>>
  BY <1>2
<1> QED
  BY <1>1, <1>2, <1>3, <1>4

LEMMA RingTypes ==
    ASSUME UartInv
    PROVE  /\ uartbuf \in [Index -> Byte] /\ uartread \in Index /\ uartwrite \in Index
           /\ Waiting \in Nat /\ Waiting < UARTBUF /\ waiting \in Nat /\ length \in Nat
           /\ status \in {"idle", "message", "wrong_crc"}
<1>1. /\ uartbuf \in [Index -> Byte] /\ uartread \in Index /\ uartwrite \in Index
      /\ waiting \in Index /\ length \in Nat /\ status \in {"idle", "message", "wrong_crc"}
  BY DEF UartInv, TypeOK
<1>2. Waiting \in Index
  BY <1>1, WaitingType DEF Waiting
<1> QED
  BY <1>1, <1>2, UartAssumption DEF Index

\* The interrupt has stored a byte: the status is still true.
LEMMA StoreIsNoticed ==
    ASSUME CourteousSenders, UartInv, UartInv', LineInv, line # <<>>,
           NEW r \in Nat, NEW n \in Nat, LooksAt(r, n),
           NEW r2 \in Nat, NEW n2 \in Nat, r2 >= r, n2 > 0 => n2 = Arrived + 1,
           Holds(uartbuf', uartread', uartwrite', Current, r2, n2),
           line' = Tail(line), sent' = sent, pc' = pc, Waiting' = Waiting + 1,
           status' = check_complete(Waiting', uartbuf', uartread', uartwrite', status)
    PROVE  /\ status' = "message" => r2 = 0 /\ n2 > 0 /\ line' = <<>>
           /\ status' = "wrong_crc" /\ pc # "skipped" => r2 > 0 /\ Waiting' >= HeaderSize
           /\ status' = "idle" => Waiting' < HeaderSize \/ (r2 = 0 /\ line' # <<>>)
           /\ pc = "skip" => status' = "wrong_crc"
<1>1. /\ Waiting \in Nat /\ Waiting' \in Nat /\ status \in {"idle", "message", "wrong_crc"}
      /\ uartbuf' \in [Index -> Byte] /\ uartread' \in Index /\ uartwrite' \in Index
      /\ status' \in {"idle", "message", "wrong_crc"}
  <2>1. (UartInv => /\ uartbuf \in [Index -> Byte] /\ uartread \in Index /\ uartwrite \in Index
                    /\ Waiting \in Nat /\ status \in {"idle", "message", "wrong_crc"})'
    BY RingTypes, PTL
  <2> QED
    BY <2>1, RingTypes
<1>2. /\ LineInv' /\ Current' = Current /\ Arrived' = Arrived + 1
      /\ line' = <<>> <=> Arrived + 1 = Len(Current)
  BY LineMovesOn
<1>3. sent # <<>> /\ Arrived \in Nat /\ Current \in Packets /\ Len(Current) \in Nat
  BY NextFrame, CurrentType
<1>5. Waiting' = r2 + n2
  BY DEF Holds, Waiting
<1>6. Judged(Waiting', Current, r2, status, status')
  <2>1. Waiting' <= r2 + n2
    BY <1>1, <1>5
  <2> QED
    BY <1>1, <1>3, <2>1, Judgement
<1>7. Noticed(r, n)
  BY DEF LooksAt
<1>8. status # "message"
  BY <1>7 DEF Noticed
<1>9. status' = "message" => r2 = 0 /\ n2 > 0 /\ line' = <<>>
  BY <1>1, <1>2, <1>5, <1>6, <1>8 DEF HeaderSize, Judged
<1>10. status' = "wrong_crc" /\ pc # "skipped" => r2 > 0 /\ Waiting' >= HeaderSize
  BY <1>1, <1>6, <1>7 DEF Noticed, HeaderSize, Judged
<1>11. status' = "idle" => Waiting' < HeaderSize \/ (r2 = 0 /\ line' # <<>>)
  BY <1>1, <1>2, <1>3, <1>5, <1>6 DEF HeaderSize, Judged
<1>12. pc = "skip" => status' = "wrong_crc"
  BY <1>1, <1>6, <1>7 DEF Noticed, HeaderSize, Judged
<1> QED
  BY <1>9, <1>10, <1>11, <1>12

-----------------------------------------------------------------------------
(* A frame arrives *)

\* The ring has room for the next frame.
LEMMA RingHasRoom ==
    ASSUME CourteousSenders, UartInv, LineInv, line # <<>>,
           NEW r \in Nat, NEW n \in Nat, LooksAt(r, n), r <= 5, n <= Arrived
    PROVE  Succ(uartwrite) # uartread
<1>1. /\ uartread \in Index /\ uartwrite \in Index
      /\ bytes_waiting(uartread, uartwrite) = r + n
  BY RingTypes DEF LooksAt, RingHolds, Holds
<1>2. /\ Current \in Packets /\ Len(Current) \in Nat /\ Arrived \in Nat
      /\ Arrived + 1 <= Len(Current)
  BY NextFrame, CurrentType
<1>3. r + n + 1 < UARTBUF
  <2>1. CASE r = 0
    <3>1. Len(Current) < UARTBUF
      BY <1>2 DEF CourteousSenders, Fits
    <3> HIDE DEF Arrived, Current
    <3> QED
      BY <1>2, <2>1, <3>1, UartAssumption
  <2>2. CASE r > 0
    <3>1. 0 \in Index /\ 0 < r
      BY <2>2, UartAssumption DEF Index, HeaderSize
    <3>2. Leftover # {}
      BY <3>1 DEF LooksAt, RingHolds, Holds
    <3>3. Foreign # {}
      BY <3>2 DEF Leftover
    <3>4. Len(Current) + 5 < UARTBUF
      BY <1>2, <3>3 DEF CourteousSenders, Fits
    <3> HIDE DEF Arrived, Current
    <3> QED
      BY <1>2, <3>4, UartAssumption
  <2> QED
    BY <2>1, <2>2
<1> QED
  BY <1>1, <1>3, RoomForOne

\* What a frame changes besides the ring.
LEMMA FrameBasics ==
    ASSUME UartInv, CleanInv, RxFrame
    PROVE  /\ line # <<>> /\ line' = Tail(line) /\ sent' = sent /\ handled' = handled
           /\ Looking /\ Unhandled /\ Unhandled'
           /\ uartread' = uartread
           /\ pc' = pc => ServeInv' /\ OrderInv'
<1>1. /\ line # <<>> /\ line' = Tail(line) /\ sent' = sent /\ handled' = handled
      /\ pc # "hung"
  BY DEF RxFrame, Arrival
<1>2. pc \notin {"handle", "done", "clear", "advance"}
  BY <1>1 DEF CleanInv, ServeInv
<1>3. pc \in Locations
  BY DEF UartInv, TypeOK
<1>4. Looking
  BY <1>1, <1>2, <1>3 DEF Looking, Locations
<1>5. Unhandled /\ Unhandled'
  BY <1>1 DEF CleanInv, OrderInv, Unhandled
<1>6. uartread' = uartread
  BY DEF RxFrame, Store, ring
<1>7. pc' = pc => ServeInv'
  BY <1>2 DEF ServeInv
<1>8. HandledUpTo(handled, sent, Len(sent))'
  BY <1>1 DEF CleanInv, OrderInv
<1>9. OrderInv'
  BY <1>5, <1>8 DEF OrderInv
<1> QED
  BY <1>1, <1>4, <1>5, <1>6, <1>7, <1>9

\* The hardware drops a frame of a packet for another node.
LEMMA DropKeepsClean ==
    ASSUME CourteousSenders, UartInv, UartInv', CleanInv, RxFrame, mpcm, ~Head(line).addr
    PROVE  CleanInv'
<1>1. /\ UNCHANGED <<uartbuf, uartread, uartwrite, status, mpcm, wdt, pc, waiting>>
  BY DEF RxFrame, ring, locals
<1>2. /\ line # <<>> /\ line' = Tail(line) /\ sent' = sent /\ handled' = handled
      /\ Looking /\ Unhandled' /\ ServeInv' /\ OrderInv'
  BY <1>1, FrameBasics
<1>3. LineInv /\ Calm
  BY DEF CleanInv
<1>4. PICK r \in 0 .. 6, n \in Nat : LooksAt(r, n)
  BY <1>2 DEF CleanInv, LookInv
<1>5. /\ Arrived \in Nat /\ Arrived > 0
  BY <1>2, <1>3, NextFrame
<1>6. LineInv' /\ Current' = Current /\ Arrived' = Arrived + 1
  BY <1>2, <1>3, LineMovesOn
<1>7. n = 0
  BY <1>2, <1>4, <1>5 DEF LooksAt
<1>8. RingHolds(r, 0)' /\ Waiting' = Waiting /\ Waiting = r
  BY <1>1, <1>4, <1>6, <1>7 DEF LooksAt, RingHolds, Holds, Waiting
<1>9. Noticed(r, 0)'
  <2>1. Noticed(r, 0)
    BY <1>4, <1>7 DEF LooksAt
  <2>2. Quiet(r) => Waiting < HeaderSize
    BY <1>8 DEF Quiet, HeaderSize
  <2> QED
    BY <1>1, <1>8, <2>1, <2>2 DEF Noticed, Quiet
<1>10. LooksAt(r, 0)'
  BY <1>1, <1>5, <1>6, <1>8, <1>9 DEF LooksAt
<1>11. LookInv'
  BY <1>10 DEF LookInv
<1>12. Calm'
  BY <1>1, <1>3 DEF Calm
<1> QED
  BY <1>2, <1>6, <1>11, <1>12 DEF CleanInv

\* The node stores the address byte of a packet for another node.
LEMMA FilterKeepsClean ==
    ASSUME CourteousSenders, UartInv, UartInv', CleanInv, RxFrame,
           mpcm, Head(line).addr, Head(line).data # MyAddress
    PROVE  CleanInv'
<1>1. /\ line # <<>> /\ line' = Tail(line) /\ sent' = sent /\ handled' = handled
      /\ Looking /\ Unhandled' /\ uartread' = uartread
      /\ pc' = pc => ServeInv' /\ OrderInv'
  BY FrameBasics
<1>2. LineInv /\ Calm
  BY DEF CleanInv
<1>3. PICK r \in 0 .. 6, n \in Nat : LooksAt(r, n)
  BY <1>1 DEF CleanInv, LookInv
<1>4. /\ Arrived = 0 /\ Head(line).data = Current[1] /\ Head(line) \in Frame /\ sent # <<>>
  BY <1>1, <1>2, NextFrame
<1>5. n = 0 /\ r <= 5
  BY <1>1, <1>3, <1>4 DEF LooksAt
<1>6. Succ(uartwrite) # uartread
  BY <1>1, <1>2, <1>3, <1>4, <1>5, RingHasRoom
<1>7. /\ uartbuf' = [uartbuf EXCEPT ![uartwrite] = Head(line).data]
      /\ uartwrite' = Succ(uartwrite)
      /\ status' = check_complete(bytes_waiting(uartread, uartwrite'), uartbuf', uartread,
                                  uartwrite', status)
      /\ mpcm' /\ UNCHANGED <<wdt, pc, waiting>>
  BY <1>6 DEF RxFrame, Store, Listens, locals
<1>8. Current[1] \in Leftover
  <2>1. Current \in Packets
    BY <1>4, CurrentType
  <2>2. ~Mine(Current)
    BY <1>2, <1>4 DEF Mine, Calm
  <2> QED
    BY <2>1, <2>2 DEF Leftover, Foreign
<1>9. LineInv' /\ Current' = Current /\ Arrived' = 1
  BY <1>1, <1>2, <1>4, LineMovesOn
<1>10. Holds(uartbuf', uartread', uartwrite', Current, r + 1, 0)
  <2>1. Holds(uartbuf, uartread, uartwrite, Current, r, 0)
    BY <1>3, <1>5 DEF LooksAt, RingHolds
  <2>2. uartbuf \in [Index -> Byte] /\ uartread \in Index /\ uartwrite \in Index
    BY RingTypes
  <2>3. Head(line).data \in Byte
    BY <1>4 DEF Frame
  <2>4. r \in Nat /\ Head(line).data \in Leftover
    BY <1>3, <1>4, <1>8
  <2>5. Holds([uartbuf EXCEPT ![uartwrite] = Head(line).data], uartread, Succ(uartwrite),
              Current, r + 1, 0)
    BY <1>6, <2>1, <2>2, <2>3, <2>4, StoredLeftover, Zenon
  <2> QED
    BY <1>1, <1>7, <2>5, Zenon
<1>11. Waiting' = Waiting + 1
  BY <1>1, <1>6, <1>7, RingTypes, WaitingStore DEF Waiting
<1>12. Noticed(r + 1, 0)'
  <2>1. status' = check_complete(Waiting', uartbuf', uartread', uartwrite', status)
    BY <1>1, <1>7 DEF Waiting
  <2>2. r \in Nat /\ r + 1 \in Nat /\ r + 1 >= r /\ 0 \in Nat /\ ~(0 > 0) /\ r + 1 # 0
    BY <1>3
  <2>3. /\ status' # "message"
        /\ status' = "wrong_crc" /\ pc # "skipped" => r + 1 > 0 /\ Waiting' >= HeaderSize
        /\ status' = "idle" => Waiting' < HeaderSize \/ (r + 1 = 0 /\ line' # <<>>)
        /\ pc = "skip" => status' = "wrong_crc"
    BY <1>1, <1>2, <1>3, <1>5, <1>7, <1>10, <1>11, <2>1, <2>2, StoreIsNoticed
  <2> QED
    BY <1>7, <2>3 DEF Noticed, Quiet
<1>13. LooksAt(r + 1, 0)'
  BY <1>7, <1>9, <1>10, <1>12 DEF LooksAt, RingHolds
<1>14. LookInv'
  BY <1>5, <1>13 DEF LookInv
<1>15. Calm'
  BY <1>2, <1>7 DEF Calm
<1> QED
  BY <1>1, <1>7, <1>9, <1>14, <1>15 DEF CleanInv

\* The node stores the next byte of the current packet.
LEMMA AcceptKeepsClean ==
    ASSUME CourteousSenders, UartInv, UartInv', CleanInv, RxFrame,
           mpcm => Head(line).addr /\ Head(line).data = MyAddress
    PROVE  CleanInv'
<1>1. /\ line # <<>> /\ line' = Tail(line) /\ sent' = sent /\ handled' = handled
      /\ Looking /\ Unhandled' /\ uartread' = uartread
      /\ pc' = pc => ServeInv' /\ OrderInv'
  BY FrameBasics
<1>2. LineInv /\ Calm
  BY DEF CleanInv
<1>3. PICK r \in 0 .. 6, n \in Nat : LooksAt(r, n)
  BY <1>1 DEF CleanInv, LookInv
<1>4. /\ Arrived \in Nat /\ (Head(line).addr <=> Arrived = 0)
      /\ Head(line).data = Current[Arrived + 1] /\ Head(line) \in Frame /\ sent # <<>>
  BY <1>1, <1>2, NextFrame
<1>5. n = Arrived /\ r <= 5
  <2>1. CASE Arrived = 0
    BY <1>1, <1>3, <2>1 DEF LooksAt
  <2>2. CASE Arrived > 0
    <3>1. ~mpcm
      BY <1>4, <2>2
    <3>2. n > 0
      BY <1>1, <1>3, <2>2, <3>1 DEF LooksAt
    <3> QED
      BY <1>3, <3>2 DEF LooksAt
  <2> QED
    BY <1>4, <2>1, <2>2
<1>6. Succ(uartwrite) # uartread
  <2>1. n <= Arrived
    BY <1>4, <1>5
  <2> QED
    BY <1>1, <1>2, <1>3, <1>5, <2>1, RingHasRoom
<1>7. /\ uartbuf' = [uartbuf EXCEPT ![uartwrite] = Head(line).data]
      /\ uartwrite' = Succ(uartwrite)
      /\ status' = check_complete(bytes_waiting(uartread, uartwrite'), uartbuf', uartread,
                                  uartwrite', status)
      /\ mpcm' => ~IsBusmaster /\ status' = "message"
      /\ UNCHANGED <<wdt, pc, waiting>>
  BY <1>6 DEF RxFrame, Store, Listens, locals
<1>8. LineInv' /\ Current' = Current /\ Arrived' = Arrived + 1
  BY <1>1, <1>2, LineMovesOn
<1>9. Holds(uartbuf', uartread', uartwrite', Current, r, n + 1)
  <2>1. Holds(uartbuf, uartread, uartwrite, Current, r, n)
    BY <1>3 DEF LooksAt, RingHolds
  <2>2. uartbuf \in [Index -> Byte] /\ uartread \in Index /\ uartwrite \in Index
    BY RingTypes
  <2>3. Head(line).data \in Byte
    BY <1>4 DEF Frame
  <2>4. Head(line).data = Current[n + 1]
    BY <1>4, <1>5
  <2>5. r \in Nat /\ n \in Nat
    BY <1>3
  <2>6. Holds([uartbuf EXCEPT ![uartwrite] = Head(line).data], uartread, Succ(uartwrite),
              Current, r, n + 1)
    BY <1>6, <2>1, <2>2, <2>3, <2>4, <2>5, StoredNext, Zenon
  <2> QED
    BY <1>1, <1>7, <2>6, Zenon
<1>10. Waiting' = Waiting + 1
  BY <1>1, <1>6, <1>7, RingTypes, WaitingStore DEF Waiting
<1>11. Noticed(r, n + 1)' /\ (status' = "message" => line' = <<>>)
  <2>1. status' = check_complete(Waiting', uartbuf', uartread', uartwrite', status)
    BY <1>1, <1>7 DEF Waiting
  <2>2. n + 1 = Arrived + 1
    BY <1>5
  <2>3. r \in Nat /\ n + 1 \in Nat /\ r >= r
    BY <1>3
  <2>4. /\ status' = "message" => r = 0 /\ n + 1 > 0 /\ line' = <<>>
        /\ status' = "wrong_crc" /\ pc # "skipped" => r > 0 /\ Waiting' >= HeaderSize
        /\ status' = "idle" => Waiting' < HeaderSize \/ (r = 0 /\ line' # <<>>)
        /\ pc = "skip" => status' = "wrong_crc"
    BY <1>1, <1>2, <1>3, <1>7, <1>9, <1>10, <2>1, <2>2, <2>3, StoreIsNoticed
  <2> QED
    BY <1>7, <2>4 DEF Noticed, Quiet
<1>12. LooksAt(r, n + 1)'
  <2>1. n + 1 = Arrived' /\ n + 1 > 0
    BY <1>5, <1>8
  <2>2. mpcm' \in BOOLEAN
    BY DEF UartInv, TypeOK
  <2>3. line' # <<>> => ~mpcm'
    BY <1>7, <1>11
  <2> QED
    BY <1>1, <1>5, <1>8, <1>9, <1>11, <2>1, <2>2, <2>3 DEF LooksAt, RingHolds
<1>13. LookInv'
  BY <1>12 DEF LookInv
<1>14. Calm'
  BY <1>2, <1>7 DEF Calm
<1> QED
  BY <1>1, <1>7, <1>8, <1>13, <1>14 DEF CleanInv

\* However a frame is treated.
LEMMA FrameKeepsClean ==
    ASSUME CourteousSenders, UartInv, UartInv', CleanInv, RxFrame
    PROVE  CleanInv'
BY DropKeepsClean, FilterKeepsClean, AcceptKeepsClean

-----------------------------------------------------------------------------
(* The main loop *)

\* The main loop touches neither the line nor the filter.
LEMMA MainBasics ==
    ASSUME UartInv, CleanInv, Main
    PROVE  /\ line' = line /\ sent' = sent /\ mpcm' = mpcm
           /\ Calm' /\ LineInv' /\ Current' = Current /\ Arrived' = Arrived
           /\ pc' # "handle" /\ handled' = handled => OrderInv'
<1>1. line' = line /\ sent' = sent /\ mpcm' = mpcm /\ wdt' = wdt
  BY DEF Main, Started, Poll, Recheck, Judge, Decide, Handle, StartDiscard, ClearByte,
         Advance, EndDiscard, SkipByte, EndSkip, world
<1>2. pc' # "hung"
  <2>1. ret \in {"decide", "poll"} /\ status \in {"idle", "message", "wrong_crc"}
    BY DEF UartInv, TypeOK
  <2> QED
    BY <2>1 DEF Main, Started, Poll, Recheck, Judge, Decide, Handle, StartDiscard, ClearByte,
                Advance, EndDiscard, SkipByte, EndSkip, GoTo
<1>3. Current' = Current /\ Arrived' = Arrived
  BY <1>1 DEF Current, Arrived
<1>4. LineInv'
  BY <1>1, <1>3 DEF CleanInv, LineInv, Frames
<1>5. Calm'
  BY <1>1, <1>2 DEF CleanInv, Calm
<1>6. pc' # "handle" /\ handled' = handled => OrderInv'
  BY <1>1 DEF CleanInv, OrderInv, Unhandled
<1> QED
  BY <1>1, <1>3, <1>4, <1>5, <1>6

\* The status says MESSAGE: the current packet stands alone in the ring.
LEMMA MessageIsCurrent ==
    ASSUME UartInv, LineInv, NEW r \in Nat, NEW n \in Nat, LooksAt(r, n), status = "message"
    PROVE  /\ r = 0 /\ n = Len(Current) /\ RingHolds(0, Len(Current))
           /\ line = <<>> /\ sent # <<>> /\ Unhandled
<1>1. r = 0 /\ n > 0 /\ line = <<>> /\ n = Arrived /\ Unhandled
  BY DEF LooksAt, Noticed
<1>2. sent # <<>> /\ n = Len(Current)
  BY <1>1, PartOfPacket
<1> QED
  BY <1>1, <1>2 DEF LooksAt

\* bus_status, the branch on what it returns, and the end of skip_byte.
LEMMA LookKeepsClean ==
    ASSUME CourteousSenders, UartInv, UartInv', CleanInv,
           Started \/ Poll \/ Recheck \/ Judge \/ Decide \/ EndSkip
    PROVE  CleanInv'
<1>1. Main
  BY DEF Main
<1>2. /\ line' = line /\ sent' = sent /\ mpcm' = mpcm
      /\ Calm' /\ LineInv' /\ Current' = Current /\ Arrived' = Arrived
      /\ pc' # "handle" /\ handled' = handled => OrderInv'
  BY <1>1, MainBasics
<1>3. Looking /\ handled' = handled /\ UNCHANGED <<uartbuf, uartread, uartwrite>>
  BY DEF Started, Poll, Recheck, Judge, Decide, EndSkip, Looking, ring
<1>4. PICK r \in 0 .. 6, n \in Nat : LooksAt(r, n)
  BY <1>3 DEF CleanInv, LookInv
<1>5. LineInv /\ r \in Nat /\ Noticed(r, n) /\ RingHolds(r, n)
  BY <1>4 DEF CleanInv, LooksAt
<1>6. /\ RingHolds(r, n)' /\ RingHolds(0, Len(Current))' = RingHolds(0, Len(Current))
      /\ Waiting' = Waiting /\ Unhandled' = Unhandled /\ Quiet(r)' = Quiet(r)
  BY <1>2, <1>3, <1>5 DEF RingHolds, Waiting, Unhandled, Quiet
<1>7. Noticed(r, n)' => LooksAt(r, n)'
  BY <1>2, <1>4, <1>6 DEF LooksAt
<1>8. Noticed(r, n)' /\ pc' \in {"poll", "judge", "decide", "skip", "recheck"} => CleanInv'
  BY <1>2, <1>3, <1>4, <1>7 DEF CleanInv, LookInv, ServeInv
<1>9. /\ status \in {"idle", "message", "wrong_crc"} /\ ret \in {"decide", "poll"}
      /\ waiting \in Nat /\ Waiting \in Nat
  BY RingTypes DEF UartInv, TypeOK
<1>10. CASE Started
  <2>1. pc = "boot" /\ pc' = "poll" /\ status' = status
    BY <1>10 DEF Started, GoTo
  <2> QED
    BY <1>2, <1>5, <1>6, <1>8, <2>1 DEF Noticed
<1>11. CASE Poll \/ Recheck
  <2>1. /\ pc \in {"poll", "recheck"} /\ pc' = "judge" /\ status' = status
        /\ waiting' = Waiting
    BY <1>11 DEF Poll, Recheck, GoTo, Waiting
  <2> QED
    BY <1>2, <1>5, <1>6, <1>8, <2>1 DEF Noticed
<1>12. CASE Judge
  <2>1. /\ pc = "judge" /\ pc' \in {"decide", "poll"} /\ waiting <= Waiting
        /\ status' = check_complete(waiting, uartbuf, uartread, uartwrite, status)
    BY <1>9, <1>12 DEF Judge, GoTo, UartInv
  <2>2. Waiting = r + n
    BY <1>5 DEF RingHolds, Holds, Waiting
  <2>3. n > 0 => n = Arrived
    BY <1>4 DEF LooksAt
  <2>4. n > 0 => /\ sent # <<>> /\ Current \in Packets /\ n <= Len(Current)
                 /\ n = Len(Current) <=> line = <<>>
    BY <1>5, <2>3, PartOfPacket
  <2>5. Judged(waiting, Current, r, status, status')
    <3>1. uartbuf \in [Index -> Byte] /\ uartread \in Index /\ uartwrite \in Index
      BY RingTypes
    <3>2. Holds(uartbuf, uartread, uartwrite, Current, r, n)
      BY <1>5 DEF RingHolds
    <3> QED
      BY <1>5, <1>9, <2>1, <2>2, <2>4, <3>1, <3>2, Judgement
  <2>6. n > 0 => Len(Current) \in Nat
    BY <2>4, CurrentType
  <2>7. status' = "message" => r = 0 /\ n > 0 /\ line = <<>>
    BY <1>5, <1>9, <2>1, <2>2, <2>4, <2>5, <2>6 DEF Judged, Noticed, HeaderSize
  <2>8. status' = "wrong_crc" => r > 0 /\ Waiting >= HeaderSize
    BY <1>5, <1>9, <2>1, <2>5 DEF Judged, Noticed, HeaderSize
  <2>9. status' = "idle" => Quiet(r)
    <3> SUFFICES ASSUME status' = "idle", waiting = Waiting PROVE Quiet(r)
      BY <1>5, <1>9, <2>1, <2>5 DEF Judged, Noticed, HeaderSize
    <3>1. Waiting < HeaderSize \/ (r = 0 /\ n > 0 /\ n # Len(Current))
      BY <1>9, <2>2, <2>5 DEF Judged, HeaderSize
    <3> QED
      BY <2>4, <3>1 DEF Quiet
  <2> QED
    BY <1>2, <1>6, <1>8, <2>1, <2>7, <2>8, <2>9 DEF Noticed
<1>13. CASE Decide /\ status # "message"
  <2>1. /\ pc = "decide" /\ pc' \in {"poll", "skip"} /\ status' = status
        /\ pc' = "skip" => status = "wrong_crc"
    BY <1>9, <1>13 DEF Decide, GoTo
  <2> QED
    BY <1>2, <1>5, <1>6, <1>8, <2>1 DEF Noticed
<1>14. CASE Decide /\ status = "message"
  <2>1. pc' = "handle" /\ status' = status
    BY <1>14 DEF Decide, GoTo
  <2>2. RingHolds(0, Len(Current)) /\ line = <<>> /\ sent # <<>> /\ Unhandled
    BY <1>4, <1>5, <1>14, MessageIsCurrent
  <2>3. LookInv' /\ ServeInv'
    BY <1>2, <1>6, <1>14, <2>1, <2>2 DEF LookInv, ServeInv, Looking
  <2>4. OrderInv'
    BY <1>2, <1>3, <1>6, <2>2 DEF CleanInv, OrderInv
  <2> QED
    BY <1>2, <2>3, <2>4 DEF CleanInv
<1>15. CASE EndSkip
  <2>1. pc = "skipped" /\ pc' = "recheck" /\ status' = "idle"
    BY <1>15 DEF EndSkip, GoTo
  <2> QED
    BY <1>6, <1>8, <2>1 DEF Noticed
<1> QED
  BY <1>10, <1>11, <1>12, <1>13, <1>14, <1>15

\* skip_byte passes an address byte of another node.
LEMMA SkipKeepsClean ==
    ASSUME CourteousSenders, UartInv, UartInv', CleanInv, SkipByte
    PROVE  CleanInv'
<1>1. Main
  BY DEF Main
<1>2. /\ line' = line /\ sent' = sent /\ mpcm' = mpcm
      /\ Calm' /\ LineInv' /\ Current' = Current /\ Arrived' = Arrived
      /\ pc' # "handle" /\ handled' = handled => OrderInv'
  BY <1>1, MainBasics
<1>3. /\ pc = "skip" /\ pc' = "skipped" /\ handled' = handled /\ status' = status
      /\ uartread' = Succ(uartread) /\ UNCHANGED <<uartbuf, uartwrite>>
  BY DEF SkipByte, GoTo
<1>4. PICK r \in 0 .. 6, n \in Nat : LooksAt(r, n)
  BY <1>3 DEF CleanInv, LookInv, Looking
<1>5. r > 0 /\ status = "wrong_crc"
  BY <1>3, <1>4 DEF LooksAt, Noticed
<1>6. Holds(uartbuf', uartread', uartwrite', Current, r - 1, n)
  <2>1. Holds(uartbuf, uartread, uartwrite, Current, r, n)
    BY <1>4 DEF LooksAt, RingHolds
  <2> QED
    BY <1>3, <1>4, <1>5, <2>1, RingTypes, PassedLeftover
<1>7. r - 1 \in 0 .. 6 /\ r - 1 <= r
  BY <1>4, <1>5
<1>8. Noticed(r - 1, n)'
  BY <1>3, <1>5 DEF Noticed
<1>9. Unhandled' = Unhandled
  BY <1>2, <1>3 DEF Unhandled
<1>10. LooksAt(r - 1, n)'
  BY <1>2, <1>4, <1>6, <1>7, <1>8, <1>9 DEF LooksAt, RingHolds
<1>11. LookInv'
  BY <1>4, <1>7, <1>10 DEF LookInv
<1>12. ServeInv' /\ OrderInv'
  BY <1>2, <1>3 DEF ServeInv
<1> QED
  BY <1>2, <1>11, <1>12 DEF CleanInv

\* One packet more has been handled.
LEMMA HandledOneMore ==
    ASSUME NEW h \in Seq(HandledPacket), NEW s, NEW b \in Nat, b > 0,
           HandledUpTo(h, s, b - 1), NEW e \in HandledPacket, e.bytes = s[b]
    PROVE  HandledUpTo(Append(h, e), s, b)
<1>1. PICK f \in [DOMAIN h -> 1 .. (b - 1)] :
          /\ \A i, j \in DOMAIN h : i < j => f[i] < f[j]
          /\ \A i \in DOMAIN h : h[i].bytes = s[f[i]]
  BY DEF HandledUpTo
<1> DEFINE h2 == Append(h, e)
           k == Len(h) + 1
           g == [i \in DOMAIN h2 |-> IF i = k THEN b ELSE f[i]]
<1>2. /\ Len(h) \in Nat /\ DOMAIN h = 1 .. Len(h) /\ DOMAIN h2 = 1 .. k
      /\ h2[k] = e /\ \A i \in DOMAIN h : h2[i] = h[i]
  OBVIOUS
<1> HIDE DEF h2
<1>3. \A i \in DOMAIN h2 : i # k => i \in DOMAIN h /\ f[i] \in 1 .. (b - 1)
  BY <1>1, <1>2
<1>4. g \in [DOMAIN h2 -> 1 .. b]
  BY <1>3
<1>5. ASSUME NEW i \in DOMAIN h2, NEW j \in DOMAIN h2, i < j PROVE g[i] < g[j]
  <2>1. i # k
    BY <1>2, <1>5
  <2>2. CASE j = k
    BY <1>3, <2>1, <2>2
  <2>3. CASE j # k
    BY <1>1, <1>3, <1>5, <2>1, <2>3
  <2> QED
    BY <2>2, <2>3
<1>6. ASSUME NEW i \in DOMAIN h2 PROVE h2[i].bytes = s[g[i]]
  <2>1. CASE i = k
    BY <1>2, <2>1
  <2>2. CASE i # k
    BY <1>1, <1>2, <1>3, <2>2
  <2> QED
    BY <2>1, <2>2
<1> HIDE DEF g
<1>7. HandledUpTo(h2, s, b)
  BY <1>4, <1>5, <1>6 DEF HandledUpTo
<1> QED
  BY <1>7 DEF h2

\* main handles the current packet, byte for byte.
LEMMA HandleKeepsClean ==
    ASSUME CourteousSenders, UartInv, UartInv', CleanInv, Handle
    PROVE  CleanInv'
<1>1. Main
  BY DEF Main
<1>2. /\ line' = line /\ sent' = sent /\ mpcm' = mpcm
      /\ Calm' /\ LineInv' /\ Current' = Current /\ Arrived' = Arrived
  BY <1>1, MainBasics
<1> DEFINE e == [bytes   |-> [i \in 1 .. CopyLength |-> uartbuf[Ahead(uartread, i - 1)]],
                 command |-> CopiedPacket[HeaderSize]]
<1>3. /\ pc = "handle" /\ pc' = "done" /\ handled' = Append(handled, e)
      /\ status' = status /\ UNCHANGED <<uartbuf, uartread, uartwrite>>
  BY DEF Handle, GoTo, ring
<1>4. /\ line = <<>> /\ sent # <<>> /\ status = "message" /\ RingHolds(0, Len(Current))
      /\ Unhandled
  BY <1>3 DEF CleanInv, ServeInv, OrderInv
<1>5. Current \in Packets /\ Current \in Seq(Byte) /\ Len(Current) \in Nat
      /\ Len(sent) \in Nat /\ Len(sent) > 0
  BY <1>4, CurrentType
<1>6. Holds(uartbuf, uartread, uartwrite, Current, 0, Len(Current))
  BY <1>4 DEF RingHolds
<1>7. CopyLength = Len(Current) /\ Len(Current) < UARTBUF
  <2>1. Len(Current) >= HeaderSize /\ Len(Current) < UARTBUF
    BY <1>5 DEF CourteousSenders, WellFormed, Fits
  <2>2. packet_length(uartbuf, uartread, uartwrite) = Len(Current)
    BY <1>5, <1>6, <2>1, RingTypes, HeaderInFront
  <2>3. ~(Len(Current) > UARTBUF)
    BY <1>5, <2>1, UartAssumption
  <2> QED
    BY <2>1, <2>2, <2>3 DEF CopyLength
<1>8. ASSUME NEW i \in 1 .. Len(Current) PROVE uartbuf[Ahead(uartread, i - 1)] = Current[i]
  <2>1. /\ i - 1 \in Index /\ i - 1 < Len(Current) /\ 0 + (i - 1) = i - 1
        /\ (i - 1) + 1 = i
    BY <1>5, <1>7, UartAssumption DEF Index
  <2> HIDE DEF Current
  <2> QED
    BY <1>6, <2>1 DEF Holds
<1>9. [i \in 1 .. CopyLength |-> uartbuf[Ahead(uartread, i - 1)]] = Current
  <2>1. Current = [i \in 1 .. Len(Current) |-> Current[i]]
    BY <1>5
  <2> HIDE DEF Current
  <2> QED
    BY <1>7, <1>8, <2>1
<1>10. e \in HandledPacket /\ e.bytes = sent[Len(sent)] /\ handled \in Seq(HandledPacket)
  <2>1. HeaderSize \in Index
    BY UartAssumption DEF Index, HeaderSize
  <2>2. TypeOK
    BY DEF UartInv
  <2>3. e \in HandledPacket
    BY <2>1, <2>2, CopyType DEF HandledPacket
  <2>4. e.bytes = Current
    BY <1>9
  <2> QED
    BY <2>2, <2>3, <2>4 DEF Current, TypeOK
<1> HIDE DEF e
<1>11. HandledUpTo(handled', sent, Len(sent))
  BY <1>3, <1>4, <1>5, <1>10, HandledOneMore DEF Unhandled
<1>12. OrderInv'
  BY <1>2, <1>3, <1>4, <1>11 DEF OrderInv
<1>13. RingHolds(0, Len(Current))'
  BY <1>2, <1>3, <1>4 DEF RingHolds
<1>14. LookInv' /\ ServeInv'
  BY <1>2, <1>3, <1>4, <1>13 DEF LookInv, ServeInv, Looking
<1> QED
  BY <1>2, <1>12, <1>14 DEF CleanInv

\* packet_done passes exactly what is in the ring.
LEMMA DiscardKeepsClean ==
    ASSUME CourteousSenders, UartInv, UartInv', CleanInv,
           StartDiscard \/ ClearByte \/ Advance \/ EndDiscard
    PROVE  CleanInv'
<1>1. Main
  BY DEF Main
<1>2. /\ line' = line /\ sent' = sent /\ mpcm' = mpcm
      /\ Calm' /\ LineInv' /\ Current' = Current /\ Arrived' = Arrived
      /\ pc' # "handle" /\ handled' = handled => OrderInv'
  BY <1>1, MainBasics
<1>3. /\ uartread \in Index /\ uartwrite \in Index /\ uartbuf \in [Index -> Byte]
      /\ Waiting \in Nat /\ length \in Nat
  BY RingTypes
<1>4. CASE StartDiscard
  <2>1. /\ pc = "done" /\ pc' = "clear" /\ handled' = handled
        /\ length' = packet_length(uartbuf, uartread, uartwrite)
        /\ UNCHANGED <<uartbuf, uartread, uartwrite>>
    BY <1>4 DEF StartDiscard, GoTo, ring
  <2>2. line = <<>> /\ sent # <<>> /\ RingHolds(0, Len(Current))
    BY <2>1 DEF CleanInv, ServeInv
  <2>3. /\ Current \in Packets /\ Len(Current) \in Nat /\ Len(Current) >= HeaderSize
        /\ Holds(uartbuf, uartread, uartwrite, Current, 0, Len(Current))
    BY <2>2, CurrentType DEF CourteousSenders, WellFormed, RingHolds
  <2>4. packet_length(uartbuf, uartread, uartwrite) = Len(Current)
    BY <1>3, <2>3, HeaderInFront
  <2>5. Waiting = Len(Current)
    BY <2>3 DEF Holds, Waiting
  <2>6. length' = Waiting'
    BY <2>1, <2>4, <2>5 DEF Waiting
  <2>7. LookInv' /\ ServeInv'
    BY <1>2, <2>1, <2>2, <2>6 DEF LookInv, ServeInv, Looking
  <2> QED
    BY <1>2, <2>1, <2>7 DEF CleanInv
<1>5. CASE ClearByte
  <2>1. /\ pc = "clear" /\ pc' = "advance" /\ handled' = handled
        /\ length' = length /\ Waiting' = Waiting
    BY <1>5 DEF ClearByte, GoTo, locals, Waiting
  <2>2. LookInv' /\ ServeInv'
    BY <1>2, <2>1 DEF CleanInv, LookInv, ServeInv, Looking
  <2> QED
    BY <1>2, <2>1, <2>2 DEF CleanInv
<1>6. CASE Advance
  <2>1. /\ pc = "advance" /\ pc' = "clear" /\ handled' = handled
        /\ length' = length - 1 /\ uartread' = Succ(uartread) /\ uartwrite' = uartwrite
    BY <1>6 DEF Advance, GoTo
  <2>2. length = Waiting /\ length > 0 /\ line = <<>>
    BY <2>1 DEF CleanInv, ServeInv, UartInv, ReadStaysBehindWrite
  <2>3. Waiting' = Waiting - 1
    BY <1>3, <2>1, <2>2, WaitingAdvance DEF Waiting
  <2>4. LookInv' /\ ServeInv'
    BY <1>2, <2>1, <2>2, <2>3 DEF LookInv, ServeInv, Looking
  <2> QED
    BY <1>2, <2>1, <2>4 DEF CleanInv
<1>7. CASE EndDiscard
  <2>1. /\ pc = "clear" /\ pc' = "recheck" /\ handled' = handled
        /\ length = 0 /\ status' = "idle" /\ UNCHANGED <<uartbuf, uartread, uartwrite>>
    BY <1>7 DEF EndDiscard, GoTo, ring
  <2>2. line = <<>> /\ Waiting = 0
    BY <2>1 DEF CleanInv, ServeInv
  <2>3. bytes_waiting(uartread', uartwrite') = 0 /\ \A i \in Index : ~(i < 0)
    BY <2>1, <2>2, UartAssumption DEF Waiting, Index
  <2>4. RingHolds(0, 0)'
    BY <2>3 DEF RingHolds, Holds
  <2>5. Noticed(0, 0)'
    BY <2>1 DEF Noticed
  <2>6. LooksAt(0, 0)'
    BY <1>2, <2>2, <2>4, <2>5 DEF LooksAt
  <2>7. LookInv'
    BY <2>6 DEF LookInv
  <2>8. ServeInv'
    BY <2>1 DEF ServeInv
  <2> QED
    BY <1>2, <2>1, <2>7, <2>8 DEF CleanInv
<1> QED
  BY <1>4, <1>5, <1>6, <1>7

\* Whatever the main loop does next.
LEMMA MainKeepsClean ==
    ASSUME CourteousSenders, UartInv, UartInv', CleanInv, Main
    PROVE  CleanInv'
BY LookKeepsClean, SkipKeepsClean, HandleKeepsClean, DiscardKeepsClean DEF Main

-----------------------------------------------------------------------------
(* The senders *)

\* What is handled does not change when a packet is sent.
LEMMA HandledBefore ==
    ASSUME NEW s \in Seq(Packets), NEW p \in Packets, NEW h, HandledUpTo(h, s, Len(s))
    PROVE  LET s2 == Append(s, p)
           IN  HandledUpTo(h, s2, Len(s2) - 1) /\ HandledUpTo(h, s2, Len(s2))
<1> DEFINE s2 == Append(s, p)
<1>1. PICK f \in [DOMAIN h -> 1 .. Len(s)] :
          /\ \A i, j \in DOMAIN h : i < j => f[i] < f[j]
          /\ \A i \in DOMAIN h : h[i].bytes = s[f[i]]
  BY DEF HandledUpTo
<1>2. /\ Len(s) \in Nat /\ Len(s2) = Len(s) + 1 /\ Len(s2) - 1 = Len(s)
      /\ \A i \in 1 .. Len(s) : s2[i] = s[i]
  OBVIOUS
<1> HIDE DEF s2
<1>3. \A i \in DOMAIN h : h[i].bytes = s2[f[i]]
  BY <1>1, <1>2
<1>4. f \in [DOMAIN h -> 1 .. Len(s2)]
  BY <1>1, <1>2
<1>5. HandledUpTo(h, s2, Len(s2))
  BY <1>1, <1>3, <1>4 DEF HandledUpTo
<1>6. HandledUpTo(h, s2, Len(s))
  BY <1>1, <1>3 DEF HandledUpTo
<1> QED
  BY <1>2, <1>5, <1>6 DEF s2

\* When the node rests, nothing of the last packet is in its ring.
LEMMA TransmitKeepsClean ==
    ASSUME CourteousSenders, UartInv, UartInv', CleanInv, NEW p \in Packets, Transmit(p)
    PROVE  CleanInv'
<1>1. /\ pc = "poll" /\ status = "idle" /\ line = <<>>
      /\ line' = Frames(p) /\ sent' = Append(sent, p)
      /\ UNCHANGED <<uartbuf, uartread, uartwrite, status, mpcm, wdt, pc, waiting, handled>>
  BY DEF Transmit, Rested, CourteousSenders, ring, locals
<1>2. PICK r \in 0 .. 6, n \in Nat : LooksAt(r, n)
  BY <1>1 DEF CleanInv, LookInv, Looking
<1>3. LineInv /\ Calm
  BY DEF CleanInv
<1>4. sent \in Seq(Packets) /\ p \in Seq(Byte) /\ Len(p) \in Nat
  BY UartAssumption DEF UartInv, TypeOK
<1>5. Waiting = r + n /\ Waiting \in Nat /\ Waiting < HeaderSize
  BY <1>1, <1>2, RingTypes DEF LooksAt, RingHolds, Holds, Waiting, Noticed, Quiet
<1>6. n = 0
  <2> SUFFICES ASSUME n > 0 PROVE FALSE
    OBVIOUS
  <2>1. n = Arrived
    BY <1>2 DEF LooksAt
  <2>2. Current \in Packets /\ n = Len(Current)
    BY <1>1, <1>3, <2>1, PartOfPacket
  <2>3. n >= HeaderSize
    BY <2>2 DEF CourteousSenders, WellFormed
  <2> QED
    BY <1>2, <1>5, <2>3 DEF HeaderSize
<1>7. r <= 5
  BY <1>2, <1>5, <1>6 DEF HeaderSize
<1>8. Current' = p /\ sent' # <<>>
  BY <1>1, <1>4 DEF Current
<1>9. Len(line') = Len(p) /\ Arrived' = 0
  <2>1. Len(Frames(p)) = Len(p)
    BY <1>4 DEF Frames
  <2> QED
    BY <1>1, <1>4, <1>8, <2>1 DEF Arrived
<1>10. LineInv'
  <2>1. \A i \in 1 .. Len(line') : line'[i] = Frames(p)[0 + i]
    BY <1>1, <1>4, <1>9
  <2>2. Frames(Current)' = Frames(p)
    BY <1>8 DEF Frames
  <2> QED
    BY <1>4, <1>8, <1>9, <2>1, <2>2 DEF LineInv
<1>11. RingHolds(r, 0)' /\ Waiting' = Waiting
  BY <1>1, <1>2, <1>6, UartAssumption DEF LooksAt, RingHolds, Holds, Waiting, Index
<1>12. Noticed(r, 0)'
  BY <1>1, <1>5, <1>11 DEF Noticed, Quiet
<1>13. LooksAt(r, 0)'
  BY <1>7, <1>9, <1>11, <1>12 DEF LooksAt
<1>14. LookInv' /\ ServeInv' /\ Calm'
  BY <1>1, <1>2, <1>3, <1>13 DEF LookInv, ServeInv, Calm
<1>15. OrderInv'
  <2>1. HandledUpTo(handled, sent, Len(sent))
    BY DEF CleanInv, OrderInv
  <2>2. HandledUpTo(handled, sent', Len(sent') - 1) /\ HandledUpTo(handled, sent', Len(sent'))
    BY <1>1, <1>4, <2>1, HandledBefore
  <2> QED
    BY <1>1, <2>2 DEF OrderInv, Unhandled
<1> QED
  BY <1>10, <1>14, <1>15 DEF CleanInv

LEMMA InitClean == Init => CleanInv
<1> SUFFICES ASSUME Init PROVE CleanInv
  OBVIOUS
<1>1. /\ uartread = 0 /\ uartwrite = 0 /\ status = "idle" /\ pc = "boot"
      /\ (mpcm <=> ~IsBusmaster) /\ ~wdt /\ line = <<>> /\ sent = <<>> /\ handled = <<>>
  BY DEF Init
<1>2. Arrived = 0
  BY <1>1 DEF Arrived
<1>3. Waiting = 0 /\ bytes_waiting(uartread, uartwrite) = 0
  BY <1>1 DEF Waiting, bytes_waiting
<1>4. RingHolds(0, 0)
  <2>1. \A i \in Index : ~(i < 0)
    BY UartAssumption DEF Index
  <2> QED
    BY <1>3, <2>1 DEF RingHolds, Holds
<1>5. Noticed(0, 0)
  BY <1>1, <1>3 DEF Noticed, Quiet, HeaderSize
<1>6. LooksAt(0, 0)
  BY <1>1, <1>4, <1>5 DEF LooksAt
<1>7. LookInv
  BY <1>6 DEF LookInv
<1>8. HandledUpTo(handled, sent, Len(sent))
  <2> DEFINE f == [i \in {} |-> 1]
  <2>1. DOMAIN handled = {} /\ f \in [DOMAIN handled -> 1 .. Len(sent)]
    BY <1>1
  <2> QED
    BY <2>1 DEF HandledUpTo
<1> QED
  BY <1>1, <1>7, <1>8 DEF CleanInv, Calm, LineInv, ServeInv, OrderInv

-----------------------------------------------------------------------------
(* Theorems about senders that wait *)

\* While no frame is disturbed, the ring holds nothing but the part of the
\* current packet that has arrived, behind at most six address bytes of packets
\* for other nodes, and the status is true of it, wherever the interrupt cuts
\* the main loop (lib/uart.c:98-233).
THEOREM CleanInvariant ==
    ASSUME CourteousSenders
    PROVE  Spec /\ [](faults = 0) => []CleanInv
<1>1. Init => CleanInv
  BY InitClean
<1>2. UartInv /\ UartInv' /\ CleanInv /\ faults = 0 /\ (faults = 0)' /\ [Next]_vars => CleanInv'
  <2> SUFFICES ASSUME UartInv, UartInv', CleanInv, faults = 0, faults' = 0, [Next]_vars
               PROVE  CleanInv'
    OBVIOUS
  <2>1. ASSUME NEW p \in Packets, Transmit(p) PROVE CleanInv'
    BY <2>1, TransmitKeepsClean
  <2>2. CASE Receive
    <3>1. pc # "hung"
      BY DEF CleanInv, Calm
    <3>2. RxFrame
      BY <2>2, <3>1 DEF Receive, LoseFrame
    <3> QED
      BY <3>2, FrameKeepsClean
  <2>3. CASE Disturb
    <3>1. faults' = faults + 1
      BY <2>3 DEF Disturb, RxError, RxNoise
    <3> QED
      BY <3>1
  <2>4. CASE Main
    BY <2>4, MainKeepsClean
  <2>5. CASE WatchdogReset
    BY <2>5 DEF WatchdogReset, CleanInv, Calm
  <2>6. CASE UNCHANGED vars
    <3>1. /\ UNCHANGED <<uartbuf, uartread, uartwrite, status, mpcm, wdt, pc, waiting, length>>
          /\ UNCHANGED <<line, sent, handled>>
      BY <2>6 DEF vars, ring, locals, world
    <3>2. Calm' = Calm /\ LineInv' = LineInv /\ OrderInv' = OrderInv
      BY <3>1 DEF Calm, LineInv, OrderInv, Current, Arrived, Frames, Unhandled
    <3>3. ServeInv' = ServeInv
      BY <3>1 DEF ServeInv, RingHolds, Current, Waiting
    <3>4. LookInv' = LookInv
      BY <3>1 DEF LookInv, Looking, LooksAt, RingHolds, Current, Arrived, Unhandled,
                  Noticed, Quiet, Waiting
    <3> QED
      BY <3>2, <3>3, <3>4 DEF CleanInv
  <2> QED
    BY <2>1, <2>2, <2>3, <2>4, <2>5, <2>6 DEF Next
<1>3. Spec => []UartInv
  BY UartInvariant
<1> QED
  BY <1>1, <1>2, <1>3, PTL DEF Spec

\* A ring that has room for a packet and five address bytes does not overflow:
\* the interrupt never waits for the watchdog (lib/uart.c:170-177).
THEOREM RingSuffices ==
    ASSUME CourteousSenders
    PROVE  Spec /\ [](faults = 0) => []NeverHung
<1>1. CleanInv => NeverHung
  BY DEF CleanInv, Calm, NeverHung
<1> QED
  BY <1>1, CleanInvariant, PTL

\* bus_status reports every packet that has arrived: its status is not lost
\* when packet_done or skip_byte resets it while the interrupt sets it
\* (lib/uart.c:124-127, 216-233).
THEOREM PacketsAreReported ==
    ASSUME CourteousSenders
    PROVE  Spec /\ [](faults = 0) => []CompleteIsReported
<1>1. UartInv /\ CleanInv => CompleteIsReported
  <2> SUFFICES ASSUME UartInv, CleanInv, pc = "decide", PacketInFront
               PROVE  status = "message"
    BY DEF CompleteIsReported
  <2>1. PICK r \in 0 .. 6, n \in Nat : LooksAt(r, n)
    BY DEF CleanInv, LookInv, Looking
  <2>2. /\ uartbuf \in [Index -> Byte] /\ uartread \in Index /\ uartwrite \in Index
        /\ Waiting \in Nat /\ status \in {"idle", "message", "wrong_crc"}
    BY RingTypes
  <2>3. Holds(uartbuf, uartread, uartwrite, Current, r, n) /\ Waiting = r + n
    BY <2>1 DEF LooksAt, RingHolds, Holds, Waiting
  <2>4. LineInv /\ (n > 0 => n = Arrived)
    BY <2>1 DEF CleanInv, LooksAt
  <2>5. n > 0 => /\ sent # <<>> /\ Current \in Packets /\ n <= Len(Current)
                 /\ n = Len(Current) <=> line = <<>>
    BY <2>4, PartOfPacket
  <2>6. Waiting >= HeaderSize /\ HeaderOk(uartbuf, uartread)
    BY DEF PacketInFront
  <2>7. r = 0
    <3> SUFFICES ASSUME r > 0 PROVE FALSE
      BY <2>1
    <3>1. r \in Nat /\ r + n >= HeaderSize
      BY <2>1, <2>3, <2>6
    <3> QED
      BY <2>2, <2>3, <2>5, <2>6, <3>1, NoHeaderInFront
  <2>8. n >= HeaderSize /\ n > 0
    BY <2>1, <2>3, <2>6, <2>7 DEF HeaderSize
  <2>9. packet_length(uartbuf, uartread, uartwrite) = Len(Current)
    BY <2>2, <2>3, <2>5, <2>7, <2>8, HeaderInFront
  <2>10. n = Len(Current)
    <3>1. Len(Current) <= Waiting /\ Len(Current) \in Nat
      BY <2>2, <2>9, LengthType, UartAssumption DEF PacketInFront, HeaderSize
    <3> QED
      BY <2>1, <2>3, <2>5, <2>7, <2>8, <3>1
  <2>11. line = <<>>
    BY <2>5, <2>8, <2>10
  <2> QED
    BY <2>1, <2>2, <2>6, <2>7, <2>11 DEF LooksAt, Noticed, Quiet, HeaderSize
<1> QED
  BY <1>1, CleanInvariant, UartInvariant, PTL

\* With only packets for this node on the line, as always for the busmaster,
\* what main handles was sent: byte for byte, in order, each packet at most
\* once (lib/uart.c:198-226).
THEOREM HandledPacketsWereSent ==
    ASSUME CourteousSenders, Foreign = {}
    PROVE  Spec /\ [](faults = 0) => []HandledWasSent
<1>1. UartInv /\ CleanInv => HandledWasSent
  <2> SUFFICES ASSUME UartInv, CleanInv PROVE HandledWasSent
    OBVIOUS
  <2>1. sent \in Seq(Packets) /\ handled \in Seq(HandledPacket)
    BY DEF UartInv, TypeOK
  <2>2. PICK f \in [DOMAIN handled -> 1 .. Len(sent)] :
            /\ \A i, j \in DOMAIN handled : i < j => f[i] < f[j]
            /\ \A i \in DOMAIN handled : handled[i].bytes = sent[f[i]]
    BY DEF CleanInv, OrderInv, HandledUpTo
  <2>3. DOMAIN sent = 1 .. Len(sent)
    BY <2>1
  <2>4. \A i \in DOMAIN handled : sent[f[i]] \in Packets
    BY <2>1, <2>2, <2>3
  <2>5. \A i \in DOMAIN handled : Mine(sent[f[i]])
    BY <2>4 DEF Foreign
  <2>6. \A i \in DOMAIN handled : HandledBytes[i] = sent[f[i]]
    BY <2>2 DEF HandledBytes
  <2> QED
    BY <2>2, <2>3, <2>5, <2>6 DEF HandledWasSent
<1> QED
  BY <1>1, CleanInvariant, UartInvariant, PTL
=============================================================================
