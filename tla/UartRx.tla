------------------------------- MODULE UartRx -------------------------------
(***************************************************************************)
(* The receiving half of lib/uart.c and the main loop that polls it.       *)
(*                                                                         *)
(* Two activities share the ring buffer: the receive interrupt, which      *)
(* appends one byte and looks whether a packet is complete, and the main   *)
(* loop, which polls bus_status, handles the packet at the front, and      *)
(* discards it.  The interrupt runs to completion (AVR interrupts do not   *)
(* nest); the main loop is cut wherever an interrupt between two steps     *)
(* changes the outcome.  `line' holds the frames of the packet that some   *)
(* node is transmitting, at most one packet at a time (the bus is half     *)
(* duplex).                                                                *)
(***************************************************************************)
EXTENDS BusPacket

CONSTANTS
    UARTBUF,          \* slots of the ring, one of which always stays free
    MyAddress,        \* MYADDRESS of this node
    IsBusmaster,      \* compiled with -DBUSMASTER: no multi-processor mode
    BadHeader,        \* what main does on WRONG_CRC: "skip" (pinpad), "report"
                      \* (busmaster), "ignore" (helloworld)
    DisablesWatchdog, \* main switches the watchdog off when it starts
    Packets,          \* the packets the other nodes transmit
    MaxSent,          \* bound on the packets transmitted
    Noise,            \* values a disturbed byte can take
    MaxFaults,        \* bound on the disturbed frames
    Paced,            \* a packet is only sent after the previous one is handled
    Prompt            \* the main loop is fast compared with a frame

Index == 0 .. UARTBUF - 1
Frame == [addr : BOOLEAN, data : Byte]

ASSUME UartAssumption ==
    /\ UARTBUF \in Nat /\ UARTBUF > HeaderSize
    /\ MyAddress \in Byte
    /\ IsBusmaster \in BOOLEAN
    /\ BadHeader \in {"skip", "report", "ignore"}
    /\ DisablesWatchdog \in BOOLEAN
    /\ Packets \subseteq Seq(Byte)
    /\ MaxSent \in Nat
    /\ Noise \subseteq Byte
    /\ MaxFaults \in Nat
    /\ Paced \in BOOLEAN /\ Prompt \in BOOLEAN

VARIABLES
    uartbuf, uartread, uartwrite,  \* the ring
    status,     \* BUS_STATUS_*
    packet,     \* the linear copy current_packet hands out
    mpcm,       \* the MPCM0 bit: the hardware drops data frames
    wdt,        \* the watchdog is armed
    pc,         \* where the main loop is
    ret,        \* where check_complete returns to
    waiting,    \* check_complete's local: bytes_waiting() when it was called
    length,     \* packet_done's local: bytes still to discard
    caught_up,  \* no frame arrived since the main loop last was at a slow place
    line,       \* the frames of the packet on the line, still to arrive
    sent,       \* history: the packets transmitted
    handled,    \* history: what the main loop handled
    faults      \* the frames disturbed so far

ring == <<uartbuf, uartread, uartwrite>>
locals == <<ret, waiting, length>>
world == <<line, sent, faults>>
vars == <<ring, status, packet, mpcm, wdt, pc, locals, caught_up, world, handled>>

-----------------------------------------------------------------------------
(* The ring and the functions that read it *)

\* (i + 1) & (UARTBUF - 1)
Succ(i) == IF i + 1 = UARTBUF THEN 0 ELSE i + 1

\* the index k slots after i
Ahead(i, k) == IF i + k < UARTBUF THEN i + k ELSE i + k - UARTBUF

bytes_waiting(rd, wr) == IF rd <= wr THEN wr - rd ELSE wr - rd + UARTBUF

\* 6 + length as an uint16_t; 0xfe when the header is not complete
packet_length(buf, rd, wr) ==
    IF bytes_waiting(rd, wr) < HeaderSize THEN 254
    ELSE Uint16(HeaderSize + Word(buf[Ahead(rd, 4)], buf[Ahead(rd, 5)]))

HeaderOk(buf, rd) ==
    buf[Ahead(rd, 2)] = HeaderSum(buf[rd], buf[Ahead(rd, 1)], buf[Ahead(rd, 3)],
                                  buf[Ahead(rd, 4)], buf[Ahead(rd, 5)])

\* (mutant) a packet counts as complete once its header has arrived.
check_complete_header_only(w, buf, rd, wr, st) ==
    IF w < HeaderSize THEN st ELSE IF HeaderOk(buf, rd) THEN "message" ELSE "wrong_crc"

\* The status check_complete leaves, when bytes_waiting() returned w at its
\* start and the status was st.
check_complete(w, buf, rd, wr, st) ==
    CASE w < HeaderSize -> st
      [] w >= HeaderSize /\ ~HeaderOk(buf, rd) -> "wrong_crc"
      [] w >= HeaderSize /\ HeaderOk(buf, rd) ->
            IF w = packet_length(buf, rd, wr) THEN "message" ELSE st

\* The bytes of the packet at the front of the ring, at most UARTBUF of them.
CopyLength == LET l == packet_length(uartbuf, uartread, uartwrite)
              IN  IF l > UARTBUF THEN UARTBUF ELSE l
CopiedPacket == [i \in Index |-> IF i < CopyLength
                                 THEN uartbuf[Ahead(uartread, i)] ELSE packet[i]]

-----------------------------------------------------------------------------
(* Power-on and reset: the C runtime clears the statics, net_init enables  *)
(* the interrupt, and main still has its start-up delays before it.        *)

\* (mutant) main forgets wdt_disable.
Boot_keeps_watchdog(armed) ==
    /\ uartbuf' = [i \in Index |-> 0] /\ uartread' = 0 /\ uartwrite' = 0
    /\ status' = "idle" /\ packet' = [i \in Index |-> 0] /\ mpcm' = ~IsBusmaster
    /\ wdt' = armed
    /\ pc' = "boot" /\ ret' = "poll" /\ waiting' = 0 /\ length' = 0
    /\ caught_up' = TRUE

Boot(armed) ==
    /\ uartbuf' = [i \in Index |-> 0] /\ uartread' = 0 /\ uartwrite' = 0
    /\ status' = "idle"
    /\ packet' = [i \in Index |-> 0]
    /\ mpcm' = ~IsBusmaster
    /\ wdt' = (armed /\ ~DisablesWatchdog)
    /\ pc' = "boot" /\ ret' = "poll" /\ waiting' = 0 /\ length' = 0
    /\ caught_up' = TRUE

Init ==
    /\ uartbuf = [i \in Index |-> 0] /\ uartread = 0 /\ uartwrite = 0
    /\ status = "idle"
    /\ packet = [i \in Index |-> 0]
    /\ mpcm = ~IsBusmaster
    /\ wdt = FALSE
    /\ pc = "boot" /\ ret = "poll" /\ waiting = 0 /\ length = 0
    /\ caught_up = TRUE
    /\ line = <<>> /\ sent = <<>> /\ handled = <<>> /\ faults = 0

\* An armed watchdog is never fed: it restarts the controller.
WatchdogReset ==
    /\ wdt
    /\ Boot(TRUE)
    /\ UNCHANGED <<world, handled>>

-----------------------------------------------------------------------------
(* The line: another node transmits, the frames arrive one by one *)

\* send_packet and the transmit interrupt mark the first byte only.
Frames(p) == [i \in 1 .. Len(p) |-> [addr |-> i = 1, data |-> p[i]]]

Rested == pc = "poll" /\ status = "idle"

Transmit(p) ==
    /\ line = <<>>
    /\ Len(sent) < MaxSent
    /\ Paced => Rested
    /\ line' = Frames(p)
    /\ sent' = Append(sent, p)
    /\ UNCHANGED <<ring, status, packet, mpcm, wdt, pc, locals, caught_up, handled, faults>>

\* The data register is read; an address byte of ours ends the filtering.
Listens(f) == mpcm /\ ~(f.addr /\ f.data = MyAddress)

\* The receive interrupt stores a byte, or finds the ring full and waits for
\* the watchdog with interrupts off.
Store(f) ==
    IF Succ(uartwrite) = uartread
    THEN /\ wdt' = TRUE /\ pc' = "hung"
         /\ mpcm' = Listens(f)
         /\ UNCHANGED <<ring, status>>
    ELSE LET buf == [uartbuf EXCEPT ![uartwrite] = f.data]
             wr  == Succ(uartwrite)
             st  == check_complete(bytes_waiting(uartread, wr), buf, uartread, wr, status)
         IN  /\ uartbuf' = buf /\ uartwrite' = wr /\ status' = st
             /\ mpcm' = IF ~IsBusmaster /\ st = "message" THEN TRUE ELSE Listens(f)
             /\ UNCHANGED <<uartread, wdt, pc>>

\* Places where the main loop can stay longer than a frame takes: the start-up
\* delays, the work between two polls, and the handlers with their delays.
Slow(place) == place \in {"boot", "poll", "handle", "done"}

\* A frame has been shifted in.  At 38400 baud a frame takes 286 us, and the
\* main loop needs far less from one slow place to the next: there at most one
\* frame arrives on the way.
Arrival ==
    /\ line # <<>> /\ pc # "hung"
    /\ Prompt => caught_up \/ Slow(pc)
    /\ line' = Tail(line)
    /\ caught_up' = FALSE

\* A frame arrives intact.  In multi-processor mode the hardware drops data
\* frames; address frames of every node get through.
RxFrame ==
    /\ Arrival
    /\ IF mpcm /\ ~Head(line).addr
       THEN UNCHANGED <<ring, status, mpcm, wdt, pc>>
       ELSE Store(Head(line))
    /\ UNCHANGED <<packet, locals, sent, handled, faults>>

\* A frame arrives with an error flag: the interrupt looks at its address
\* first, then returns without storing anything.
RxError ==
    /\ Arrival /\ faults < MaxFaults
    /\ faults' = faults + 1
    /\ mpcm' = Listens(Head(line))
    /\ UNCHANGED <<ring, status, packet, wdt, pc, locals, sent, handled>>

\* A frame arrives with a wrong value that the UART cannot see (no parity).
RxNoise(d) ==
    /\ Arrival /\ faults < MaxFaults
    /\ faults' = faults + 1
    /\ IF mpcm /\ ~Head(line).addr
       THEN UNCHANGED <<ring, status, mpcm, wdt, pc>>
       ELSE Store([Head(line) EXCEPT !.data = d])
    /\ UNCHANGED <<packet, locals, sent, handled>>

\* Nobody reads the data register while the controller waits for its reset.
LoseFrame ==
    /\ line # <<>> /\ pc = "hung"
    /\ line' = Tail(line)
    /\ UNCHANGED <<ring, status, packet, mpcm, wdt, pc, locals, caught_up, sent, handled, faults>>

-----------------------------------------------------------------------------
(* The main loop *)

GoTo(place) == pc' = place /\ caught_up' = (caught_up \/ Slow(place))

\* The start-up delays are over.
Started ==
    /\ pc = "boot" /\ GoTo("poll")
    /\ UNCHANGED <<ring, status, packet, mpcm, wdt, locals, world, handled>>

\* bus_status calls check_complete, which first counts the waiting bytes.
Poll ==
    /\ pc = "poll" /\ GoTo("judge") /\ ret' = "decide"
    /\ waiting' = bytes_waiting(uartread, uartwrite)
    /\ UNCHANGED <<ring, status, packet, mpcm, wdt, length, world, handled>>

\* check_complete at the end of packet_done and skip_byte.
Recheck ==
    /\ pc = "recheck" /\ GoTo("judge") /\ ret' = "poll"
    /\ waiting' = bytes_waiting(uartread, uartwrite)
    /\ UNCHANGED <<ring, status, packet, mpcm, wdt, length, world, handled>>

\* (mutant) main's check_complete leaves the status to the interrupt.
Judge_leaves_status ==
    /\ pc = "judge" /\ GoTo(ret)
    /\ UNCHANGED <<ring, status, packet, mpcm, wdt, locals, world, handled>>

\* The rest of check_complete, on the count taken before.
Judge ==
    /\ pc = "judge" /\ GoTo(ret)
    /\ status' = check_complete(waiting, uartbuf, uartread, uartwrite, status)
    /\ UNCHANGED <<ring, packet, mpcm, wdt, locals, world, handled>>

\* (mutant) main has no branch for WRONG_CRC.
Decide_ignores_bad_header ==
    /\ pc = "decide"
    /\ GoTo(IF status = "message" THEN "handle" ELSE "poll")
    /\ UNCHANGED <<ring, status, packet, mpcm, wdt, locals, world, handled>>

\* bus_status returns and main branches on the status it read.
Decide ==
    /\ pc = "decide"
    /\ GoTo(CASE status = "idle" -> "poll"
              [] status = "message" -> "handle"
              [] status = "wrong_crc" -> IF BadHeader = "ignore" THEN "poll" ELSE "skip")
    /\ packet' = IF status = "wrong_crc" /\ BadHeader = "report" THEN CopiedPacket ELSE packet
    /\ UNCHANGED <<ring, status, mpcm, wdt, locals, world, handled>>

\* current_packet and the handler.  The handlers compare the start of the
\* payload in the copy with their commands, whatever the length says: command
\* is the byte they look at first.
Handle ==
    /\ pc = "handle" /\ GoTo("done")
    /\ packet' = CopiedPacket
    /\ handled' = Append(handled,
                    [bytes   |-> [i \in 1 .. CopyLength |-> uartbuf[Ahead(uartread, i - 1)]],
                     command |-> CopiedPacket[HeaderSize]])
    /\ UNCHANGED <<ring, status, mpcm, wdt, locals, world>>

\* (mutant) the header is counted twice.
StartDiscard_counts_header_twice ==
    /\ pc = "done" /\ GoTo("clear")
    /\ length' = packet_length(uartbuf, uartread, uartwrite) + HeaderSize
    /\ UNCHANGED <<ring, status, packet, mpcm, wdt, ret, waiting, world, handled>>

\* packet_done: the length is read once, then the bytes are cleared and
\* passed one by one, the interrupt free to run between any two of them.
StartDiscard ==
    /\ pc = "done" /\ GoTo("clear")
    /\ length' = packet_length(uartbuf, uartread, uartwrite)
    /\ UNCHANGED <<ring, status, packet, mpcm, wdt, ret, waiting, world, handled>>

ClearByte ==
    /\ pc = "clear" /\ length > 0 /\ GoTo("advance")
    /\ uartbuf' = [uartbuf EXCEPT ![uartread] = 1]
    /\ UNCHANGED <<uartread, uartwrite, status, packet, mpcm, wdt, locals, world, handled>>

Advance ==
    /\ pc = "advance" /\ GoTo("clear")
    /\ uartread' = Succ(uartread)
    /\ length' = length - 1
    /\ UNCHANGED <<uartbuf, uartwrite, status, packet, mpcm, wdt, ret, waiting, world, handled>>

\* (mutant) the status is not reset.
EndDiscard_keeps_status ==
    /\ pc = "clear" /\ length = 0 /\ GoTo("recheck")
    /\ UNCHANGED <<ring, status, packet, mpcm, wdt, locals, world, handled>>

EndDiscard ==
    /\ pc = "clear" /\ length = 0 /\ GoTo("recheck")
    /\ status' = "idle"
    /\ UNCHANGED <<ring, packet, mpcm, wdt, locals, world, handled>>

\* skip_byte
SkipByte ==
    /\ pc = "skip" /\ GoTo("skipped")
    /\ uartread' = Succ(uartread)
    /\ UNCHANGED <<uartbuf, uartwrite, status, packet, mpcm, wdt, locals, world, handled>>

EndSkip ==
    /\ pc = "skipped" /\ GoTo("recheck")
    /\ status' = "idle"
    /\ UNCHANGED <<ring, packet, mpcm, wdt, locals, world, handled>>

Main == \/ Started \/ Poll \/ Recheck \/ Judge \/ Decide \/ Handle
        \/ StartDiscard \/ ClearByte \/ Advance \/ EndDiscard
        \/ SkipByte \/ EndSkip

Receive == RxFrame \/ LoseFrame
Disturb == RxError \/ \E d \in Noise : RxNoise(d)

Next == \/ \E p \in Packets : Transmit(p)
        \/ Receive
        \/ Disturb
        \/ Main
        \/ WatchdogReset

Spec == Init /\ [][Next]_vars

\* The processor runs whenever it is not hung, a started frame arrives, and
\* an armed watchdog fires.
Fairness == WF_vars(Main) /\ WF_vars(Receive) /\ WF_vars(WatchdogReset)

FairSpec == Spec /\ Fairness

-----------------------------------------------------------------------------
(* Properties *)

Locations == {"boot", "poll", "judge", "decide", "handle", "done", "clear",
              "advance", "recheck", "skip", "skipped", "hung"}

HandledPacket == [bytes : Seq(Byte), command : Byte]

TypeOK ==
    /\ uartbuf \in [Index -> Byte] /\ uartread \in Index /\ uartwrite \in Index
    /\ status \in {"idle", "message", "wrong_crc"}
    /\ packet \in [Index -> Byte]
    /\ mpcm \in BOOLEAN /\ wdt \in BOOLEAN /\ caught_up \in BOOLEAN
    /\ pc \in Locations /\ ret \in {"decide", "poll"}
    /\ waiting \in Index /\ length \in Nat
    /\ line \in Seq(Frame) /\ sent \in Seq(Packets)
    /\ handled \in Seq(HandledPacket)
    /\ faults \in 0 .. MaxFaults

Waiting == bytes_waiting(uartread, uartwrite)

\* The ring begins with a packet: a header whose checksum fits and at least
\* as many bytes as it announces.
PacketInFront ==
    /\ Waiting >= HeaderSize
    /\ HeaderOk(uartbuf, uartread)
    /\ packet_length(uartbuf, uartread, uartwrite) \in HeaderSize .. Waiting

\* What current_packet copies and packet_done discards is a packet that has
\* arrived completely, whatever the interrupt stores between the moment the
\* status became MESSAGE and the moment the ring is read.
MessageIsWhole == pc \in {"handle", "done"} => PacketInFront

\* Discarding a packet byte by byte, or skipping one, while the interrupt
\* appends never moves uartread past uartwrite.
ReadStaysBehindWrite ==
    /\ pc \in {"clear", "advance"} => length <= Waiting
    /\ pc = "advance" => length > 0
    /\ pc = "skip" => Waiting > 0

\* The inductive invariant behind both.  Between two polls the status speaks
\* of the front of the ring: MESSAGE of a whole packet, WRONG_CRC of at least
\* a header; the count main is judging is never larger than the real one.
Steady == pc \in {"boot", "poll", "judge", "decide", "recheck"}
UartInv ==
    /\ TypeOK
    /\ MessageIsWhole
    /\ ReadStaysBehindWrite
    /\ Steady /\ status = "message" => PacketInFront
    /\ Steady /\ status = "wrong_crc" => Waiting >= HeaderSize
    /\ pc = "judge" => waiting <= Waiting

Mine(p) == p[1] = MyAddress \/ IsBusmaster
SentToMe == SelectSeq(sent, Mine)
HandledBytes == [i \in DOMAIN handled |-> handled[i].bytes]
Packet(b) == \E i \in DOMAIN sent : sent[i] = b
HandledToMe == SelectSeq(HandledBytes, LAMBDA b : Packet(b) /\ Mine(b))

\* On an undisturbed line that carries only packets for this node, it handles
\* packets that were sent, each at most once, in the order of transmission and
\* byte for byte, although packets that arrive while it is busy leave
\* fragments in the ring and overflows restart it.
HandledWasSent ==
    \E f \in [DOMAIN handled -> DOMAIN sent] :
        /\ \A i, j \in DOMAIN handled : i < j => f[i] < f[j]
        /\ \A i \in DOMAIN handled : Mine(sent[f[i]]) /\ HandledBytes[i] = sent[f[i]]

\* When senders wait until the node has dealt with the previous packet, every
\* packet addressed to it is handled in the end, whatever other nodes' packets
\* leave in its ring; a frame lost to a framing error costs at most two: its
\* own packet and the one whose first bytes complete it.
LossIsBounded == <>[](Len(SentToMe) - Len(HandledToMe) <= 2 * faults)

\* The ring never overflows.
NeverHung == pc # "hung"

\* A ring overflow ends in a running node with the watchdog off.
OverflowRecovers == pc = "hung" ~> pc # "hung" /\ ~wdt

\* When bus_status returns and a whole packet is in front, the status says so:
\* what the interrupt found out is not lost in the reset of packet_done and
\* skip_byte.  ("Returns whether a complete packet is in the ringbuffer",
\* lib/uart.c:95.)  It holds for senders that wait: with a byte of the next
\* packet in the ring, the count no longer equals the length.
CompleteIsReported == pc = "decide" /\ PacketInFront => status = "message"

\* Only packets for this node reach its handlers.  The README: "pakete fuer
\* andere mikrokontroller werden verworfen" (README:70-71).
OnlyOwnPackets ==
    \A i \in DOMAIN handled : Packet(HandledBytes[i]) => Mine(HandledBytes[i])

=============================================================================
