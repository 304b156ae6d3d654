---------------------------- MODULE UartTxProofs ----------------------------
(***************************************************************************)
(* Proofs about UartTx, for any lengths of packets and any number of       *)
(* calls, however they overlap.  DriverInv is inductive and implies that   *)
(* no frame goes to a released line; WholeInv is inductive with it and     *)
(* implies that a call that finds the line released sends its packet       *)
(* whole.                                                                  *)
(***************************************************************************)
EXTENDS UartTx, TLAPS

Calling == {"count", "enable", "address", "set address", "load", "first", "interrupt",
            "set interrupt"}

\* The packet's length is in txcnt.
Counted == Calling \ {"count"}

\* The driver is on, the first byte not yet written.
Driving == {"address", "set address", "load", "first"}

Frame == (Nat \X Nat) \X BOOLEAN

TxTypeOK ==
    /\ version \in Nat /\ calls \in Nat
    /\ txwalk \in Nat /\ txcnt \in Nat /\ txsize \in Nat
    /\ DE \in BOOLEAN /\ txc \in BOOLEAN /\ fresh \in BOOLEAN /\ overlap \in BOOLEAN
    /\ UCSR0B \in SUBSET {"TXB8", "TXCIE"}
    /\ UDR \in Frame \cup {NoFrame} /\ shift \in Frame \cup {NoFrame}
    /\ line \in Seq(Frame)
    /\ tpc \in Calling \cup {"idle"}
    /\ tpc \in {"set address", "set interrupt"} => register[2] \in SUBSET {"TXB8", "TXCIE"}
    /\ tpc = "first" => register[2] \in Nat \X Nat
    /\ tpc \in Calling => txsize > 1

\* An interrupt that is due, and a frame that could still end during the call,
\* finds a byte to send; so the interrupt that releases the line comes when the
\* shift register is empty, and never between EnableDriver and WriteFirst.
DriverInv ==
    /\ TxTypeOK
    /\ UDR # NoFrame => shift # NoFrame
    /\ (txc \/ shift # NoFrame \/ tpc \in Driving) => DE
    /\ (txc /\ shift # NoFrame) => txcnt > 0
    /\ tpc \in Counted => (txcnt > 0 \/ (~txc /\ (fresh \/ UDR # NoFrame)))

\* The frames are the bytes 1, 2, ... of the packet, of the version that the buffer
\* held then.
InPlace(k) ==
    /\ line[k][1][2] = k
    /\ line[k][2] = (k = 1)
    /\ line[k][1][1] \in {calls, version}
    /\ k > 1 => line[k - 1][1][1] <= line[k][1][1]

LineInPlace ==
    /\ txwalk = Len(line) + 1
    /\ \A k \in DOMAIN line : InPlace(k)

\* Of a call that found the line released, each byte waits for the one before.
WholeInv ==
    /\ version \in {calls, calls + 1}
    /\ tpc # "idle" => version = calls
    /\ (calls > 0 /\ ~overlap) =>
          /\ UDR = NoFrame
          /\ txc => (shift = NoFrame /\ tpc = "idle")
          /\ LineInPlace
          /\ tpc \in {"count", "enable"} \cup Driving => (shift = NoFrame /\ line = <<>>)
          /\ tpc \in {"load", "first"} => "TXB8" \in UCSR0B
          /\ tpc = "first" => register[2] = <<calls, 1>>
          /\ tpc \in {"enable"} \cup Driving => txcnt = txsize - 1
          /\ tpc \in {"interrupt", "set interrupt"} => (fresh /\ shift # NoFrame)
          /\ tpc \in {"interrupt", "set interrupt", "idle"} =>
                (txwalk > 1 /\ txwalk + txcnt = txsize + 1)
          /\ (tpc = "idle" /\ ~DE) => txcnt = 0

-----------------------------------------------------------------------------
(* The USART *)

LEMMA FrameType ==
    ASSUME NEW byte \in Nat \X Nat, NEW bit \in BOOLEAN
    PROVE  <<byte, bit>> \in Frame /\ <<byte, bit>> # NoFrame
BY DEF Frame, NoFrame

\* A byte written is in the shift register, or waits behind another.
LEMMA WrittenByte ==
    ASSUME TxTypeOK, NEW byte \in Nat \X Nat, NEW control, Written(byte, control)
    PROVE  /\ shift' \in Frame /\ shift' # NoFrame
           /\ UDR' \in Frame \cup {NoFrame}
           /\ fresh' \in BOOLEAN
           /\ line' \in Seq(Frame)
           /\ shift # NoFrame => (UDR' # NoFrame /\ fresh' = fresh)
           /\ shift = NoFrame => (fresh' = (tpc # "idle") /\ UDR' = UDR)
<1> DEFINE bit == "TXB8" \in control
           frame == <<byte, bit>>
<1>1. frame \in Frame /\ frame # NoFrame
  <2>1. bit \in BOOLEAN
    OBVIOUS
  <2> HIDE DEF bit
  <2> QED
    BY <2>1, FrameType
<1>2. CASE shift = NoFrame
  <2>1. shift' = frame /\ line' = Append(line, frame) /\ fresh' = (tpc # "idle") /\ UDR' = UDR
    BY <1>2 DEF Written
  <2> HIDE DEF frame
  <2>2. line' \in Seq(Frame)
    <3>1. line \in Seq(Frame)
      BY Zenon DEF TxTypeOK
    <3> QED
      BY <1>1, <2>1, <3>1
  <2>3. fresh' \in BOOLEAN
    BY <2>1
  <2>4. UDR' \in Frame \cup {NoFrame}
    BY <2>1 DEF TxTypeOK
  <2> QED
    BY <1>1, <1>2, <2>1, <2>2, <2>3, <2>4
<1>3. CASE shift # NoFrame
  <2>1. UDR' = frame /\ shift' = shift /\ line' = line /\ fresh' = fresh
    BY <1>3 DEF Written
  <2> HIDE DEF frame
  <2>2. line \in Seq(Frame) /\ shift \in Frame \cup {NoFrame} /\ fresh \in BOOLEAN
    BY Zenon DEF TxTypeOK
  <2>3. line' \in Seq(Frame) /\ shift' \in Frame \cup {NoFrame} /\ fresh' \in BOOLEAN
    BY <2>1, <2>2, Zenon
  <2> QED
    BY <1>1, <1>3, <2>1, <2>2, <2>3
<1> QED
  BY <1>2, <1>3

-----------------------------------------------------------------------------
(* The line is driven while a frame is shifted out *)

LEMMA InitDriver == TxInit => DriverInv
<1> SUFFICES ASSUME TxInit PROVE DriverInv
  OBVIOUS
<1>1. <<>> \in Seq(Frame)
  OBVIOUS
<1>2. line \in Seq(Frame)
  BY <1>1 DEF TxInit
<1>3. UCSR0B \in SUBSET {"TXB8", "TXCIE"}
  BY DEF TxInit
<1>4. UDR \in Frame \cup {NoFrame} /\ shift \in Frame \cup {NoFrame}
  BY Zenon DEF TxInit
<1>5. /\ version = 0 /\ calls = 0 /\ txwalk = 0 /\ txcnt = 0 /\ txsize = 0
      /\ DE = FALSE /\ txc = FALSE /\ fresh = FALSE /\ overlap = FALSE /\ tpc = "idle"
  BY DEF TxInit
<1>6. TxTypeOK
  BY <1>2, <1>3, <1>4, <1>5 DEF TxTypeOK, Calling
<1> QED
  BY <1>5, <1>6 DEF TxInit, DriverInv, Counted, Calling, Driving

LEMMA FrameEndsKeepsDriver == ASSUME DriverInv, FrameEnds PROVE DriverInv'
<1> TxTypeOK
  BY DEF DriverInv
<1>1. TxTypeOK'
  <2>1. line' \in Seq(Frame)
    <3>1. CASE UDR = NoFrame
      BY <3>1 DEF TxTypeOK, FrameEnds
    <3>2. CASE UDR # NoFrame
      <4>1. UDR \in Frame /\ line \in Seq(Frame) /\ line' = Append(line, UDR)
        BY <3>2 DEF TxTypeOK, FrameEnds
      <4> QED
        BY <4>1
    <3> QED
      BY <3>1, <3>2
  <2>2. fresh' \in BOOLEAN /\ txc' \in BOOLEAN
    BY DEF FrameEnds, TxTypeOK
  <2> QED
    BY <2>1, <2>2 DEF TxTypeOK, FrameEnds
<1>2. (UDR # NoFrame => shift # NoFrame)'
  BY DEF FrameEnds
<1>3. DE /\ DE' = DE /\ txcnt' = txcnt /\ tpc' = tpc
  BY DEF DriverInv, FrameEnds
<1>4. (txc /\ shift # NoFrame => txcnt > 0)'
  BY <1>3 DEF DriverInv, FrameEnds
<1>5. (tpc \in Counted => (txcnt > 0 \/ (~txc /\ (fresh \/ UDR # NoFrame))))'
  BY <1>3 DEF DriverInv, FrameEnds, Counted, Calling
<1> QED
  BY <1>1, <1>2, <1>3, <1>4, <1>5 DEF DriverInv

LEMMA TxInterruptKeepsDriver == ASSUME DriverInv, TxInterrupt PROVE DriverInv'
<1> USE DEF DriverInv
<1>1. tpc' = tpc /\ ~txc' /\ txc /\ DE /\ version' = version /\ register' = register
  BY DEF TxInterrupt
<1>2. CASE txcnt = 0
  <2>1. /\ shift = NoFrame /\ UDR = NoFrame /\ tpc \notin Counted
        /\ shift' = shift /\ UDR' = UDR /\ txcnt' = txcnt /\ txwalk' = txwalk /\ fresh' = fresh
        /\ line' = line
        /\ UCSR0B' = UCSR0B \ {"TXCIE"}
        /\ DE' = FALSE
    BY <1>1, <1>2 DEF TxInterrupt
  <2>2. TxTypeOK'
    BY <1>1, <2>1 DEF TxTypeOK, TxInterrupt, Calling
  <2>3. tpc \notin Driving
    BY <2>1 DEF Driving, Counted, Calling
  <2> QED
    BY <1>1, <2>1, <2>2, <2>3
<1>3. CASE txcnt # 0
  <2>1. /\ Written(<<version, txwalk>>, UCSR0B')
        /\ txwalk' = txwalk + 1 /\ txcnt' = txcnt - 1 /\ DE' = DE
        /\ UCSR0B' = UCSR0B \ {"TXB8"}
    BY <1>3 DEF TxInterrupt
  <2>2. <<version, txwalk>> \in Nat \X Nat
    BY DEF TxTypeOK
  <2>3. /\ shift' \in Frame /\ shift' # NoFrame
        /\ UDR' \in Frame \cup {NoFrame}
        /\ fresh' \in BOOLEAN
        /\ line' \in Seq(Frame)
        /\ shift # NoFrame => (UDR' # NoFrame /\ fresh' = fresh)
        /\ shift = NoFrame => (fresh' = (tpc # "idle") /\ UDR' = UDR)
    BY <2>1, <2>2, WrittenByte
  <2>4. TxTypeOK'
    <3>1. /\ txwalk' \in Nat /\ txcnt' \in Nat /\ UCSR0B' \in SUBSET {"TXB8", "TXCIE"}
          /\ txc' \in BOOLEAN /\ DE' \in BOOLEAN
      <4>1. txwalk' \in Nat /\ txcnt' \in Nat
        <5>1. txcnt \in Nat /\ txwalk \in Nat
          BY Zenon DEF TxTypeOK
        <5> QED
          BY <1>3, <2>1, <5>1, SMT
      <4>2. UCSR0B' \in SUBSET {"TXB8", "TXCIE"}
        BY <2>1 DEF TxTypeOK
      <4>3. txc' \in BOOLEAN /\ DE' \in BOOLEAN
        <5>1. txc' = FALSE /\ DE \in BOOLEAN
          BY Zenon DEF TxInterrupt, TxTypeOK
        <5> QED
          BY <2>1, <5>1, Zenon
      <4> QED
        BY <4>1, <4>2, <4>3
    <3>2. UNCHANGED <<version, calls, txsize, overlap, tpc, register>>
      BY DEF TxInterrupt
    <3> QED
      BY <2>3, <3>1, <3>2 DEF TxTypeOK
  <2>5. (tpc \in Counted => (~txc /\ (fresh \/ UDR # NoFrame)))'
    BY <1>1, <2>3 DEF Counted, Calling
  <2> QED
    BY <1>1, <2>1, <2>3, <2>4, <2>5
<1> QED
  BY <1>2, <1>3

\* The steps of send_packet before and after the first byte.
LEMMA CallKeepsDriver ==
    ASSUME UartTxAssumption, DriverInv, send_packet, ~WriteFirst PROVE DriverInv'
<1> USE DEF DriverInv, NoFrame
<1>1. CASE SetWalk
  <2>1. txsize' \in Nat /\ txsize' > 1
    BY <1>1 DEF SetWalk, UartTxAssumption
  <2>2. line' \in Seq(Frame)
    BY <1>1 DEF SetWalk
  <2>3. /\ txwalk' \in Nat /\ calls' \in Nat
        /\ overlap' \in BOOLEAN /\ fresh' \in BOOLEAN
    <3>1. txwalk' = 1 /\ calls' = calls + 1 /\ overlap' = DE /\ fresh' = FALSE
      BY <1>1, Zenon DEF SetWalk
    <3>2. calls \in Nat /\ DE \in BOOLEAN
      BY Zenon DEF TxTypeOK
    <3>3. txwalk' \in Nat /\ calls' \in Nat
      BY <3>1, <3>2, SMT
    <3>4. overlap' \in BOOLEAN /\ fresh' \in BOOLEAN
      BY <3>1, <3>2, Zenon
    <3> QED
      BY <3>3, <3>4
  <2>4. UNCHANGED <<version, txcnt, DE, UCSR0B, txc, UDR, shift>> /\ tpc' = "count"
    BY <1>1 DEF SetWalk
  <2>5. TxTypeOK'
    BY <2>1, <2>2, <2>3, <2>4 DEF TxTypeOK, Calling
  <2> QED
    BY <2>4, <2>5 DEF Counted, Calling, Driving
<1>2. CASE SetCount
  <2>1. txcnt' \in Nat /\ txcnt' > 0 /\ tpc = "count" /\ tpc' = "enable"
    BY <1>2 DEF SetCount, TxTypeOK, Calling
  <2>2. UNCHANGED <<version, txwalk, DE, UCSR0B, txc, UDR, shift, register, fresh, line, txsize,
                    calls, overlap>>
    BY <1>2 DEF SetCount
  <2>3. TxTypeOK'
    BY <2>1, <2>2 DEF TxTypeOK, Calling
  <2> QED
    BY <2>1, <2>2, <2>3 DEF Counted, Calling, Driving
<1>3. CASE EnableDriver
  BY <1>3 DEF EnableDriver, TxTypeOK, Calling, Counted, Driving
<1>4. CASE Load("address", <<"control", UCSR0B>>, "set address")
  BY <1>4 DEF Load, TxTypeOK, Calling, Counted, Driving
<1>5. CASE SetBit("set address", "TXB8", "load")
  BY <1>5 DEF SetBit, TxTypeOK, Calling, Counted, Driving
<1>6. CASE Load("load", <<"byte", <<version, txwalk>>>>, "first")
  BY <1>6 DEF Load, TxTypeOK, Calling, Counted, Driving
<1>7. CASE Load("interrupt", <<"control", UCSR0B>>, "set interrupt")
  BY <1>7 DEF Load, TxTypeOK, Calling, Counted, Driving
<1>8. CASE EnableInterrupt
  BY <1>8 DEF EnableInterrupt, SetBit, TxTypeOK, Calling, Counted, Driving
<1> QED
  BY <1>1, <1>2, <1>3, <1>4, <1>5, <1>6, <1>7, <1>8 DEF send_packet

LEMMA WriteFirstKeepsDriver == ASSUME DriverInv, WriteFirst PROVE DriverInv'
<1> USE DEF DriverInv
<1>1. /\ tpc = "first" /\ tpc' = "interrupt" /\ DE /\ register[2] \in Nat \X Nat
      /\ Written(register[2], UCSR0B)
      /\ txwalk' = register[2][2] + 1
      /\ UNCHANGED <<version, txcnt, DE, UCSR0B, txc, txsize, calls, overlap>>
  BY DEF WriteFirst, TxTypeOK, Driving
<1>2. /\ shift' \in Frame /\ shift' # NoFrame
      /\ UDR' \in Frame \cup {NoFrame}
      /\ fresh' \in BOOLEAN
      /\ line' \in Seq(Frame)
      /\ shift # NoFrame => (UDR' # NoFrame /\ fresh' = fresh)
      /\ shift = NoFrame => (fresh' = (tpc # "idle") /\ UDR' = UDR)
  BY <1>1, WrittenByte
<1>3. txwalk' \in Nat
  BY <1>1
<1>4. TxTypeOK'
  BY <1>1, <1>2, <1>3 DEF TxTypeOK, Calling
<1>5. txcnt > 0 \/ ~txc
  BY <1>1 DEF Counted, Calling
<1>6. (txcnt > 0 \/ (~txc /\ (fresh \/ UDR # NoFrame)))'
  BY <1>1, <1>2, <1>5
<1> QED
  BY <1>1, <1>2, <1>4, <1>5, <1>6 DEF Driving

LEMMA DriverStep ==
    ASSUME UartTxAssumption, DriverInv, [TxNext]_txVars PROVE DriverInv'
<1>1. CASE FrameEnds
  BY <1>1, FrameEndsKeepsDriver
<1>2. CASE TxInterrupt
  BY <1>2, TxInterruptKeepsDriver
<1>3. CASE FillBuffer
  BY <1>3 DEF FillBuffer, DriverInv, TxTypeOK, Calling, Counted, Driving
<1>4. CASE WriteFirst
  BY <1>4, WriteFirstKeepsDriver
<1>5. CASE send_packet /\ ~WriteFirst
  BY <1>5, CallKeepsDriver
<1>6. CASE UNCHANGED txVars
  BY <1>6 DEF txVars, DriverInv, TxTypeOK
<1> QED
  BY <1>1, <1>2, <1>3, <1>4, <1>5, <1>6 DEF TxNext

\* At every instruction of a call and of the interrupt, DE, TXCIE and the two registers
\* of the USART agree on what is still to be sent.
THEOREM DriverInvariant == TxSpec => []DriverInv
<1>1. TxInit => DriverInv
  BY InitDriver
<1>2. DriverInv /\ [TxNext]_txVars => DriverInv'
  BY DriverStep, UartTxAssumption
<1> QED
  BY <1>1, <1>2, PTL DEF TxSpec

\* Whenever the calls of send_packet come, and however the interrupt cuts them, no
\* frame is shifted out while the driver of the line is off.
THEOREM LineIsDriven == TxSpec => []DriverCoversFrames
<1>1. DriverInv => DriverCoversFrames
  BY DEF DriverInv, DriverCoversFrames
<1> QED
  BY <1>1, DriverInvariant, PTL

-----------------------------------------------------------------------------
(* The packet of a call that finds the line released *)

\* The next byte of the packet goes behind the ones before it.
LEMMA NextByte ==
    ASSUME TxTypeOK, LineInPlace, version \in {calls, calls + 1},
           NEW bit \in BOOLEAN, bit = (txwalk = 1),
           line' = Append(line, <<<<version, txwalk>>, bit>>),
           txwalk' = txwalk + 1, UNCHANGED <<version, calls>>
    PROVE  LineInPlace'
<1> DEFINE n == Len(line)
           new == <<<<version, txwalk>>, bit>>
<1>1. line \in Seq(Frame) /\ version \in Nat /\ calls \in Nat /\ txwalk \in Nat
  BY Zenon DEF TxTypeOK
<1>2. n \in Nat /\ DOMAIN line = 1 .. n /\ txwalk = n + 1
  BY <1>1 DEF LineInPlace
<1>3. new \in Frame
  BY <1>1 DEF Frame
<1>4. /\ DOMAIN line' = 1 .. n + 1 /\ Len(line') = n + 1
      /\ \A k \in 1 .. n : line'[k] = line[k]
      /\ line'[n + 1] = new
  <2> HIDE DEF new
  <2>1. line' = Append(line, new)
    BY DEF new
  <2> QED
    BY <1>1, <1>2, <1>3, <2>1
<1>5. new[1][1] = version /\ new[1][2] = n + 1 /\ new[2] = (n + 1 = 1)
  BY <1>2
<1>6. \A k \in 1 .. n : InPlace(k)
  BY <1>2 DEF LineInPlace
<1> HIDE DEF n, new
<1>7. ASSUME NEW k \in DOMAIN line' PROVE InPlace(k)'
  <2>1. CASE k \in 1 .. n
    <3>1. line'[k] = line[k]
      BY <1>4, <2>1
    <3>2. k > 1 => line'[k - 1] = line[k - 1]
      BY <1>2, <1>4, <2>1
    <3>3. InPlace(k)
      BY <1>6, <2>1
    <3> QED
      BY <3>1, <3>2, <3>3, Zenon DEF InPlace
  <2>2. CASE k = n + 1
    <3>1. line'[k][1][2] = k /\ line'[k][1][1] = version
      BY <1>4, <1>5, <2>2
    <3>2. line'[k][2] = (k = 1)
      BY <1>4, <1>5, <2>2
    <3>3. ASSUME k > 1 PROVE line'[k - 1][1][1] <= version
      <4>1. n \in 1 .. n /\ k - 1 = n
        BY <1>2, <2>2, <3>3
      <4>2. line'[n] = line[n] /\ InPlace(n)
        BY <1>4, <1>6, <4>1
      <4>3. line'[n][1][1] \in {calls, version}
        BY <4>2, Zenon DEF InPlace
      <4>4. calls <= version
        BY <1>1
      <4> QED
        BY <1>1, <4>1, <4>3, <4>4
    <3> QED
      BY <3>1, <3>2, <3>3, Zenon DEF InPlace
  <2> QED
    BY <1>2, <1>4, <2>1, <2>2
<1>8. txwalk' = Len(line') + 1
  BY <1>2, <1>4
<1> QED
  BY <1>7, <1>8 DEF LineInPlace

LEMMA InitWhole == TxInit => WholeInv
BY DEF TxInit, WholeInv

LEMMA FrameEndsKeepsWhole == ASSUME DriverInv, WholeInv, FrameEnds PROVE WholeInv'
<1>1. UNCHANGED <<version, calls, overlap, tpc, register, txsize, txcnt, txwalk, DE, UCSR0B>>
  BY DEF FrameEnds
<1>2. ASSUME calls > 0, ~overlap
      PROVE  tpc = "idle" /\ UDR' = NoFrame /\ shift' = NoFrame /\ line' = line
  <2>1. tpc = "idle"
    BY <1>2 DEF FrameEnds, WholeInv, DriverInv, TxTypeOK, Calling, Driving
  <2> QED
    BY <1>2, <2>1 DEF FrameEnds, WholeInv
<1> QED
  BY <1>1, <1>2 DEF WholeInv, LineInPlace, InPlace, Driving

LEMMA TxInterruptKeepsWhole == ASSUME DriverInv, WholeInv, TxInterrupt PROVE WholeInv'
<1>1. UNCHANGED <<version, calls, overlap, tpc, register, txsize>> /\ txc /\ txc' = FALSE
  BY DEF TxInterrupt
<1>2. ASSUME calls > 0, ~overlap
      PROVE  /\ UDR' = NoFrame /\ LineInPlace'
             /\ txwalk' > 1 /\ txwalk' + txcnt' = txsize + 1
             /\ ~DE' => txcnt' = 0
  <2>1. /\ tpc = "idle" /\ shift = NoFrame /\ UDR = NoFrame /\ LineInPlace
        /\ txwalk > 1 /\ txwalk + txcnt = txsize + 1
    BY <1>1, <1>2 DEF WholeInv
  <2>2. txwalk \in Nat /\ txcnt \in Nat /\ txsize \in Nat
    BY Zenon DEF DriverInv, TxTypeOK
  <2>3. CASE txcnt = 0
    <3>1. UNCHANGED <<txwalk, txcnt, UDR, line>>
      BY <2>3 DEF TxInterrupt
    <3> QED
      BY <1>1, <2>1, <2>3, <3>1 DEF LineInPlace, InPlace
  <2>4. CASE txcnt # 0
    <3>1. /\ UCSR0B' = UCSR0B \ {"TXB8"} /\ DE' = DE
          /\ Written(<<version, txwalk>>, UCSR0B')
          /\ txwalk' = txwalk + 1 /\ txcnt' = txcnt - 1
      BY <2>4 DEF TxInterrupt
    <3>2. ("TXB8" \in UCSR0B') = FALSE
      BY <3>1
    <3>3. line' = Append(line, <<<<version, txwalk>>, FALSE>>) /\ UDR' = UDR
      BY <2>1, <3>1, <3>2 DEF Written
    <3>4. FALSE = (txwalk = 1)
      BY <2>1, <2>2
    <3>5. version \in {calls, calls + 1} /\ TxTypeOK
      BY DEF WholeInv, DriverInv
    <3>6. LineInPlace'
      BY <1>1, <2>1, <3>1, <3>3, <3>4, <3>5, NextByte
    <3>7. DE
      BY <1>1 DEF DriverInv
    <3> QED
      BY <2>1, <2>2, <3>1, <3>3, <3>6, <3>7
  <2> QED
    BY <2>3, <2>4
<1>3. (calls > 0 /\ ~overlap) => tpc = "idle"
  BY <1>1 DEF WholeInv
<1> QED
  BY <1>1, <1>2, <1>3 DEF WholeInv, Driving

LEMMA FillBufferKeepsWhole == ASSUME DriverInv, WholeInv, FillBuffer PROVE WholeInv'
<1>1. /\ tpc = "idle" /\ version = calls /\ version' = calls + 1
      /\ UNCHANGED <<txwalk, txcnt, DE, UCSR0B, txc, UDR, shift, tpc, register, fresh, line, txsize,
                     calls, overlap>>
  BY DEF FillBuffer
<1>2. LineInPlace => LineInPlace'
  BY <1>1 DEF LineInPlace, InPlace
<1> QED
  BY <1>1, <1>2 DEF WholeInv, Driving

LEMMA SetWalkKeepsWhole == ASSUME DriverInv, WholeInv, SetWalk PROVE WholeInv'
<1>1. /\ tpc' = "count" /\ txwalk' = 1 /\ calls' = calls + 1 /\ overlap' = DE /\ line' = <<>>
      /\ version > calls
      /\ UNCHANGED <<version, txcnt, DE, UCSR0B, txc, UDR, shift>>
  BY DEF SetWalk
<1>2. version' = calls'
  <2>1. version \in {calls, calls + 1} /\ version \in Nat /\ calls \in Nat
    BY Zenon DEF WholeInv, DriverInv, TxTypeOK
  <2> QED
    BY <1>1, <2>1, SMT
<1>3. ~overlap' => (~txc /\ shift = NoFrame /\ UDR = NoFrame)
  BY <1>1 DEF DriverInv
<1>4. LineInPlace'
  BY <1>1 DEF LineInPlace, InPlace
<1> QED
  BY <1>1, <1>2, <1>3, <1>4 DEF WholeInv, Driving

LEMMA WriteFirstKeepsWhole == ASSUME DriverInv, WholeInv, WriteFirst PROVE WholeInv'
<1>1. /\ tpc = "first" /\ tpc' = "interrupt"
      /\ Written(register[2], UCSR0B)
      /\ txwalk' = register[2][2] + 1
      /\ UNCHANGED <<version, txcnt, DE, UCSR0B, txc, txsize, calls, overlap>>
  BY DEF WriteFirst
<1>2. ASSUME calls > 0, ~overlap
      PROVE  /\ UDR' = NoFrame /\ LineInPlace' /\ ~txc
             /\ fresh' /\ shift' # NoFrame
             /\ txwalk' > 1 /\ txwalk' + txcnt' = txsize + 1
  <2>1. /\ UDR = NoFrame /\ shift = NoFrame /\ ~txc /\ line = <<>> /\ LineInPlace
        /\ register[2] = <<calls, 1>> /\ "TXB8" \in UCSR0B /\ txcnt = txsize - 1
        /\ version = calls
    BY <1>1, <1>2 DEF WholeInv, Driving
  <2>2. txwalk = 1
    <3>1. txwalk = Len(line) + 1
      BY <2>1 DEF LineInPlace
    <3>2. Len(<<>>) = 0
      OBVIOUS
    <3> QED
      BY <2>1, <3>1, <3>2
  <2>3. /\ line' = Append(line, <<<<version, txwalk>>, TRUE>>) /\ UDR' = UDR
        /\ shift' = <<<<version, txwalk>>, TRUE>> /\ fresh'
    <3>1. ("TXB8" \in UCSR0B) = TRUE
      BY <2>1
    <3>2. register[2] = <<version, txwalk>>
      BY <2>1, <2>2
    <3> QED
      BY <1>1, <2>1, <3>1, <3>2 DEF Written
  <2>4. TRUE = (txwalk = 1)
    BY <2>2
  <2>5. TxTypeOK /\ version \in Nat /\ txwalk \in Nat /\ txsize \in Nat
    BY Zenon DEF DriverInv, TxTypeOK
  <2>6. txwalk' = txwalk + 1
    BY <1>1, <2>1, <2>2
  <2>7. LineInPlace'
    BY <1>1, <2>1, <2>3, <2>4, <2>5, <2>6, NextByte
  <2>8. shift' # NoFrame
    BY <2>3, <2>5, FrameType
  <2> QED
    <3>1. UDR' = NoFrame /\ ~txc /\ fresh'
      BY <2>1, <2>3
    <3>2. txwalk' = 2 /\ txcnt' = txsize - 1
      BY <1>1, <2>1, <2>2, <2>6
    <3>3. txwalk' > 1 /\ txwalk' + txcnt' = txsize + 1
      BY <2>5, <3>2, SMT
    <3> QED
      BY <2>7, <2>8, <3>1, <3>3, Zenon
<1>3. version' = version /\ calls' = calls /\ version \in {calls, calls + 1} /\ version = calls
  BY <1>1 DEF WholeInv
<1> QED
  BY <1>1, <1>2, <1>3 DEF WholeInv, Driving

LEMMA CallKeepsWhole ==
    ASSUME DriverInv, WholeInv, send_packet, ~SetWalk, ~WriteFirst PROVE WholeInv'
<1> UNCHANGED <<version, calls, overlap, txwalk, txsize, txc, UDR, shift, line, fresh>>
  BY DEF send_packet, SetCount, EnableDriver, Load, SetBit, EnableInterrupt
<1> LineInPlace => LineInPlace'
  BY DEF LineInPlace, InPlace
<1> DriverInv
  OBVIOUS
<1> USE DEF WholeInv, Driving
<1>1. CASE SetCount
  BY <1>1 DEF SetCount
<1>2. CASE EnableDriver
  BY <1>2 DEF EnableDriver
<1>3. CASE Load("address", <<"control", UCSR0B>>, "set address")
  <2>1. tpc = "address" /\ tpc' = "set address" /\ UNCHANGED <<txcnt, DE, UCSR0B>>
    BY <1>3 DEF Load
  <2> QED
    BY <2>1
<1>4. CASE SetBit("set address", "TXB8", "load")
  <2>1. tpc = "set address" /\ tpc' = "load" /\ UNCHANGED <<txcnt, DE>> /\ "TXB8" \in UCSR0B'
    BY <1>4 DEF SetBit
  <2> QED
    BY <2>1
<1>5. CASE Load("load", <<"byte", <<version, txwalk>>>>, "first")
  <2>1. /\ tpc = "load" /\ tpc' = "first" /\ UNCHANGED <<txcnt, DE, UCSR0B>>
        /\ register'[2] = <<version, txwalk>>
    BY <1>5 DEF Load
  <2>2. (LineInPlace /\ line = <<>>) => txwalk = 1
    <3> SUFFICES ASSUME LineInPlace, line = <<>> PROVE txwalk = 1
      BY Zenon
    <3> HIDE DEF WholeInv, Driving
    <3>1. txwalk = Len(line) + 1
      BY Zenon DEF LineInPlace
    <3>2. Len(line) = 0
      OBVIOUS
    <3> QED
      BY <3>1, <3>2
  <2> QED
    BY <2>1, <2>2
<1>6. CASE Load("interrupt", <<"control", UCSR0B>>, "set interrupt")
  <2>1. tpc = "interrupt" /\ tpc' = "set interrupt" /\ UNCHANGED <<txcnt, DE, UCSR0B>>
    BY <1>6 DEF Load
  <2> QED
    BY <2>1
<1>7. CASE EnableInterrupt
  <2>1. tpc = "set interrupt" /\ tpc' = "idle" /\ UNCHANGED <<txcnt, DE>>
    BY <1>7 DEF EnableInterrupt, SetBit
  <2>2. shift # NoFrame => DE
    BY DEF DriverInv
  <2> QED
    BY <2>1, <2>2
<1> QED
  BY <1>1, <1>2, <1>3, <1>4, <1>5, <1>6, <1>7 DEF send_packet

\* What has left since the call that found the line released is a beginning of its packet,
\* and the pointer and the counter speak of the rest.
THEOREM WholeInvariant == TxSpec => []WholeInv
<1>1. TxInit => WholeInv
  BY InitWhole
<1>2. DriverInv /\ WholeInv /\ [TxNext]_txVars => WholeInv'
  <2> SUFFICES ASSUME DriverInv, WholeInv, [TxNext]_txVars PROVE WholeInv'
    OBVIOUS
  <2>1. CASE FrameEnds
    BY <2>1, FrameEndsKeepsWhole
  <2>2. CASE TxInterrupt
    BY <2>2, TxInterruptKeepsWhole
  <2>3. CASE FillBuffer
    BY <2>3, FillBufferKeepsWhole
  <2>4. CASE send_packet
    BY <2>4, SetWalkKeepsWhole, WriteFirstKeepsWhole, CallKeepsWhole
  <2>5. CASE UNCHANGED txVars
    BY <2>5 DEF txVars, WholeInv, LineInPlace, InPlace, Driving
  <2> QED
    BY <2>1, <2>2, <2>3, <2>4, <2>5 DEF TxNext
<1> QED
  BY <1>1, <1>2, DriverInvariant, PTL DEF TxSpec

\* A call that finds the line released sends its packet from the first byte to the
\* last, each byte once and in its place, the first one alone with the address bit.
THEOREM PacketIsSentWhole == TxSpec => []PacketIsWhole
<1>1. ASSUME DriverInv, WholeInv PROVE PacketIsWhole
  <2>1. ASSUME calls > 0, ~overlap
        PROVE  /\ LineInPlace
               /\ Len(line) <= txsize
               /\ (tpc = "idle" /\ ~DE) => Len(line) = txsize
    <3>1. line \in Seq(Frame)
      BY <1>1, Zenon DEF DriverInv, TxTypeOK
    <3>2. LineInPlace
      BY <1>1, <2>1 DEF WholeInv
    <3>3. txwalk = Len(line) + 1 /\ Len(line) \in Nat
      BY <3>1, <3>2 DEF LineInPlace
    <3>4. txcnt \in Nat /\ txsize \in Nat /\ txwalk \in Nat /\ tpc \in Calling \cup {"idle"}
      BY <1>1, Zenon DEF DriverInv, TxTypeOK
    <3>5. line = <<>> \/ txwalk + txcnt = txsize + 1
      BY <1>1, <2>1, <3>4 DEF WholeInv, Driving, Calling
    <3>6. Len(line) <= txsize
      BY <3>3, <3>4, <3>5
    <3>7. (tpc = "idle" /\ ~DE) => (txwalk + txcnt = txsize + 1 /\ txcnt = 0)
      BY <1>1, <2>1 DEF WholeInv
    <3>8. (tpc = "idle" /\ ~DE) => Len(line) = txsize
      BY <3>3, <3>4, <3>7
    <3> QED
      BY <3>2, <3>6, <3>8
  <2>2. LineInPlace => \A k \in DOMAIN line :
                          /\ line[k][1][2] = k
                          /\ line[k][2] = (k = 1)
                          /\ line[k][1][1] \in {calls, version}
                          /\ k > 1 => line[k - 1][1][1] <= line[k][1][1]
    BY Zenon DEF LineInPlace, InPlace
  <2> QED
    BY <2>1, <2>2, Zenon DEF PacketIsWhole
<1> QED
  BY <1>1, DriverInvariant, WholeInvariant, PTL

=============================================================================
