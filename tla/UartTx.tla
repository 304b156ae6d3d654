------------------------------- MODULE UartTx -------------------------------
(***************************************************************************)
(* The transmitter of a bus node (lib/uart.c): send_packet starts a packet *)
(* and the transmit interrupt goes on with it and releases the line.  The  *)
(* packet is read from the caller's buffer while it is sent, and a caller  *)
(* may fill the buffer again, or send again, before it is out: the         *)
(* busmaster has one buffer for all its packets and never waits.           *)
(*                                                                         *)
(* A byte is its version, the packet the buffer held, and its index; a     *)
(* frame on the line also has its ninth bit.  txwalk and txcnt are not     *)
(* volatile; the statements are taken in the order of the source.          *)
(***************************************************************************)
EXTENDS Integers, Sequences

CONSTANTS
    Lengths,   \* of packets, headers included
    MaxCalls   \* bound on the packets sent

ASSUME UartTxAssumption == Lengths \subseteq Nat \ (0 .. 1) /\ MaxCalls \in Nat

VARIABLES
    version,        \* what the buffer holds
    txwalk, txcnt,
    DE,             \* driver enable of the RS485 line
    UCSR0B,         \* its bits TXB8 and TXCIE
    txc,            \* the interrupt is due
    UDR, shift,     \* the USART's buffer and shift register
    tpc, register,  \* send_packet, and what it has loaded
    fresh,          \* the frame being shifted began during the call
    line,           \* the frames shifted out or being so since the call
    txsize,           \* of the packet sent last
    calls, overlap  \* history: the calls, and whether the last one came too early

txVars == <<version, txwalk, txcnt, DE, UCSR0B, txc, UDR, shift, tpc, register, fresh, line,
            txsize, calls, overlap>>

NoFrame == <<>>

TxInit ==
    /\ version = 0 /\ txwalk = 0 /\ txcnt = 0 /\ DE = FALSE
    /\ UCSR0B = {} /\ txc = FALSE /\ UDR = NoFrame /\ shift = NoFrame
    /\ tpc = "idle" /\ register = <<>> /\ fresh = FALSE
    /\ line = <<>> /\ txsize = 0 /\ calls = 0 /\ overlap = FALSE

-----------------------------------------------------------------------------
(* The USART.  A byte written goes into the shift register at once when that *)
(* is empty; the ninth bit goes with it.                                     *)

Written(byte, control) ==
    LET frame == <<byte, "TXB8" \in control>>
    IN  IF shift = NoFrame
        THEN shift' = frame /\ line' = Append(line, frame) /\ fresh' = (tpc # "idle") /\ UNCHANGED UDR
        ELSE UDR' = frame /\ UNCHANGED <<shift, line, fresh>>

\* A frame takes 286 us, longer than send_packet: none begins and ends meanwhile.
FrameEnds ==
    /\ shift # NoFrame
    /\ tpc # "idle" => ~fresh
    /\ fresh' = (tpc # "idle")
    /\ shift' = UDR /\ UDR' = NoFrame
    /\ line' = IF UDR = NoFrame THEN line ELSE Append(line, UDR)
    /\ txc' = (txc \/ UDR = NoFrame)
    /\ UNCHANGED <<version, txwalk, txcnt, DE, UCSR0B, tpc, register, txsize, calls, overlap>>

-----------------------------------------------------------------------------

\* (mutant) the line is released when the last byte is written, not sent.
TxInterrupt_releases_early ==
    /\ txc /\ "TXCIE" \in UCSR0B
    /\ txc' = FALSE
    /\ IF txcnt <= 1 THEN DE' = FALSE /\ UCSR0B' = UCSR0B \ {"TXCIE"} ELSE UNCHANGED DE /\ UCSR0B' = UCSR0B \ {"TXB8"}
    /\ IF txcnt = 0 THEN UNCHANGED <<txwalk, txcnt, UDR, shift, line, fresh>>
       ELSE /\ Written(<<version, txwalk>>, UCSR0B')
            /\ txwalk' = txwalk + 1 /\ txcnt' = txcnt - 1
    /\ UNCHANGED <<version, tpc, register, txsize, calls, overlap>>

\* ISR(USART0_TX_vect)
TxInterrupt ==
    /\ txc /\ "TXCIE" \in UCSR0B
    /\ txc' = FALSE
    /\ IF txcnt = 0
       THEN /\ DE' = FALSE /\ UCSR0B' = UCSR0B \ {"TXCIE"}
            /\ UNCHANGED <<txwalk, txcnt, UDR, shift, line, fresh>>
       ELSE /\ UCSR0B' = UCSR0B \ {"TXB8"}
            /\ Written(<<version, txwalk>>, UCSR0B')
            /\ txwalk' = txwalk + 1 /\ txcnt' = txcnt - 1
            /\ UNCHANGED DE
    /\ UNCHANGED <<version, tpc, register, txsize, calls, overlap>>

\* The caller's fmt_packet.
FillBuffer ==
    /\ tpc = "idle" /\ calls < MaxCalls /\ version = calls
    /\ version' = version + 1
    /\ UNCHANGED <<txwalk, txcnt, DE, UCSR0B, txc, UDR, shift, tpc, register, fresh, line, txsize,
                   calls, overlap>>

\* send_packet; the callers' delays keep two calls more than a frame apart.
SetWalk ==
    /\ tpc = "idle" /\ version > calls /\ UDR = NoFrame
    /\ txwalk' = 1
    /\ tpc' = "count" /\ fresh' = FALSE
    /\ calls' = calls + 1 /\ overlap' = DE
    /\ line' = <<>> /\ txsize' \in Lengths
    /\ UNCHANGED <<version, txcnt, DE, UCSR0B, txc, UDR, shift, register>>

\* (mutant) the first byte, which is sent here, is counted.
SetCount_counts_first ==
    /\ tpc = "count"
    /\ txcnt' = txsize
    /\ tpc' = "enable"
    /\ UNCHANGED <<version, txwalk, DE, UCSR0B, txc, UDR, shift, register, fresh, line, txsize, calls, overlap>>

SetCount ==
    /\ tpc = "count"
    /\ txcnt' = txsize - 1
    /\ tpc' = "enable"
    /\ UNCHANGED <<version, txwalk, DE, UCSR0B, txc, UDR, shift, register, fresh, line, txsize,
                   calls, overlap>>

EnableDriver ==
    /\ tpc = "enable"
    /\ DE' = TRUE
    /\ tpc' = "address"
    /\ UNCHANGED <<version, txwalk, txcnt, UCSR0B, txc, UDR, shift, register, fresh, line, txsize,
                   calls, overlap>>

\* `UCSR0B |= ...' and `*txwalk++' load, change and store: the interrupt can come
\* in between.
Load(at, value, to) ==
    /\ tpc = at
    /\ register' = value
    /\ tpc' = to
    /\ UNCHANGED <<version, txwalk, txcnt, DE, UCSR0B, txc, UDR, shift, fresh, line, txsize, calls,
                   overlap>>

SetBit(at, bit, to) ==
    /\ tpc = at
    /\ UCSR0B' = register[2] \cup {bit}
    /\ register' = <<>>
    /\ tpc' = to
    /\ UNCHANGED <<version, txwalk, txcnt, DE, txc, UDR, shift, fresh, line, txsize, calls, overlap>>

WriteFirst ==
    /\ tpc = "first"
    /\ Written(register[2], UCSR0B)
    /\ txwalk' = register[2][2] + 1
    /\ register' = <<>>
    /\ tpc' = "interrupt"
    /\ UNCHANGED <<version, txcnt, DE, UCSR0B, txc, txsize, calls, overlap>>

\* (mutant) the interrupt is not enabled.
EnableInterrupt_forgotten == SetBit("set interrupt", "TXB8", "idle")

EnableInterrupt == SetBit("set interrupt", "TXCIE", "idle")

send_packet ==
    \/ SetWalk \/ SetCount \/ EnableDriver
    \/ Load("address", <<"control", UCSR0B>>, "set address") \/ SetBit("set address", "TXB8", "load")
    \/ Load("load", <<"byte", <<version, txwalk>>>>, "first") \/ WriteFirst
    \/ Load("interrupt", <<"control", UCSR0B>>, "set interrupt") \/ EnableInterrupt

TxNext == FrameEnds \/ TxInterrupt \/ FillBuffer \/ send_packet

\* The USART, the interrupt and a call that has begun go on.
TxFairness ==
    /\ WF_txVars(FrameEnds) /\ WF_txVars(TxInterrupt)
    /\ WF_txVars(tpc # "idle" /\ send_packet)

TxSpec == TxInit /\ [][TxNext]_txVars /\ TxFairness

-----------------------------------------------------------------------------
(* Properties *)

\* When a call finds the line released, its packet is sent from the first byte to
\* the last, the first one alone with the address bit; a buffer filled again
\* meanwhile shows from some byte on, in its place.
PacketIsWhole ==
    (calls > 0 /\ ~overlap) =>
        /\ Len(line) <= txsize
        /\ \A k \in DOMAIN line :
              /\ line[k][1][2] = k
              /\ line[k][2] = (k = 1)
              /\ line[k][1][1] \in {calls, version}
              /\ k > 1 => line[k - 1][1][1] <= line[k][1][1]
        /\ (tpc = "idle" /\ ~DE) => Len(line) = txsize

\* Whenever calls come, no frame is shifted out to a line that is released.
DriverCoversFrames == shift # NoFrame => DE

\* Whatever calls overlapped, the line is released again, for the others on the bus.
LineIsReleased == []<>~DE

=============================================================================
