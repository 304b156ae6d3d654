------------------------------ MODULE Enc28j60 ------------------------------
(***************************************************************************)
(* The busmaster's driver of the Ethernet controller ENC28J60 (busmaster/  *)
(* enc28j60.c, enc28j60_process.c, enc28j60_transmit.c), beside the        *)
(* controller, which goes on on its own: it stores frames into the receive *)
(* ring, raises flags and ends transmissions between any two accesses.     *)
(*                                                                         *)
(* The controller is not in the repository; it is modelled as the driver's *)
(* comments and its use of the registers take it to be.  The ring is       *)
(* counted in words of two bytes, because frames start at even addresses.  *)
(* A frame takes a header word, which holds the address of the next frame  *)
(* and the size, and a word for every unit of its size.                    *)
(***************************************************************************)
EXTENDS Integers, Sequences

CONSTANTS
    Words,         \* size of the receive ring, 2048 in the code
    MaxSize,       \* UIP_BUFSIZE in units of the frame sizes
    Sizes,         \* sizes of the frames on the Ethernet
    Timeout,       \* 100 in transmit_packet
    MaxFrames,     \* bound on the frames that come in
    MaxTransmits   \* bound on the frames sent

ASSUME EncAssumption ==
    /\ Words \in Nat \ {0} /\ MaxSize \in Nat \ {0} /\ Sizes \subseteq Nat
    /\ Timeout \in Nat \ {0} /\ Timeout <= 255 /\ {MaxFrames, MaxTransmits} \subseteq Nat

VARIABLES
    \* the controller
    ring, ERXWRPT, ERXRDPT,   \* the pointers count bytes
    EPKTCNT,
    EIR,                      \* flags that are set, of "RXERIF", "TXIF", "LINKIF"
    filter,                   \* what ERXFCON lets in
    TXRTS,                    \* a frame is being transmitted
    bank,                     \* the bank its register accesses go to
    \* the driver
    enc28j60_current_bank, enc28j60_next_packet_pointer,
    encpc, flags, header, uip_recvbuf, timeout,
    \* history
    frames,                   \* frames that came in
    waiting,                  \* frames stored and not handed to main, since the last init
    misdirected,              \* an access went to a register of another bank
    busy,                     \* busy reads of the last wait
    transmits, spoilt         \* frames sent; whether the last one was dropped or cut off another

chipVars == <<ring, ERXWRPT, ERXRDPT, EPKTCNT, EIR, filter, TXRTS>>
bankVars == <<bank, enc28j60_current_bank, misdirected>>
driverVars == <<enc28j60_next_packet_pointer, encpc, flags, header, uip_recvbuf, timeout>>
sendVars == <<busy, transmits, spoilt>>
encVars == <<chipVars, bankVars, driverVars, frames, waiting, sendVars>>

RXBUFFER_END == 2 * Words - 1

Header(next, size, n) == <<"header", next, size, n>>
Data(n, i) == <<"data", n, i>>
Empty == <<"empty">>

\* What a word that is taken for a header says.
AsHeader(word) == IF word[1] = "header" THEN word ELSE Header(0, 0, 0)

EncInit ==
    /\ ring = [w \in 0 .. Words - 1 |-> Empty]
    /\ ERXWRPT = 0 /\ ERXRDPT = 0 /\ EPKTCNT = 0
    /\ EIR = {} /\ filter = {"unicast", "multicast"} /\ TXRTS = FALSE
    /\ bank = 3 /\ enc28j60_current_bank = 3
    /\ enc28j60_next_packet_pointer = 0
    /\ encpc = "main" /\ flags = {} /\ header = Header(0, 0, 0)
    /\ uip_recvbuf = <<>> /\ timeout = 0
    /\ frames = 0 /\ waiting = <<>> /\ misdirected = FALSE
    /\ busy = 0 /\ transmits = 0 /\ spoilt = FALSE

-----------------------------------------------------------------------------
(* The controller *)

\* Bytes free behind the write pointer: the byte at ERXRDPT is the last the
\* controller may not write.
Free == IF ERXWRPT > ERXRDPT THEN RXBUFFER_END - (ERXWRPT - ERXRDPT)
        ELSE IF ERXWRPT = ERXRDPT THEN RXBUFFER_END
        ELSE ERXRDPT - ERXWRPT - 1

Arrive(size, kind) ==
    /\ frames < MaxFrames /\ frames' = frames + 1
    /\ IF kind \notin filter THEN UNCHANGED <<ring, ERXWRPT, EPKTCNT, EIR, waiting>>
       ELSE IF 2 * (size + 1) > Free
       THEN EIR' = EIR \cup {"RXERIF"} /\ UNCHANGED <<ring, ERXWRPT, EPKTCNT, waiting>>
       ELSE LET at == ERXWRPT \div 2
                next == (at + size + 1) % Words
            IN  /\ ring' = [w \in 0 .. Words - 1 |->
                       LET i == (w - at) % Words
                       IN  IF i = 0 THEN Header(2 * next, size, frames')
                           ELSE IF i <= size THEN Data(frames', i) ELSE ring[w]]
                /\ ERXWRPT' = 2 * next
                /\ EPKTCNT' = EPKTCNT + 1
                /\ waiting' = Append(waiting, <<frames', size>>)
                /\ UNCHANGED EIR
    /\ UNCHANGED <<ERXRDPT, filter, TXRTS, bankVars, driverVars, sendVars>>

LinkChange ==
    /\ EIR' = EIR \cup {"LINKIF"} /\ EIR # EIR'
    /\ UNCHANGED <<ring, ERXWRPT, ERXRDPT, EPKTCNT, filter, TXRTS, bankVars, driverVars,
                   frames, waiting, sendVars>>

EndOfTransmission ==
    /\ TXRTS /\ TXRTS' = FALSE
    /\ EIR' = EIR \cup {"TXIF"}
    /\ UNCHANGED <<ring, ERXWRPT, ERXRDPT, EPKTCNT, filter, bankVars, driverVars,
                   frames, waiting, sendVars>>

Controller ==
    \/ \E size \in Sizes, kind \in {"unicast", "multicast"} : Arrive(size, kind)
    \/ LinkChange
    \/ EndOfTransmission

-----------------------------------------------------------------------------
(* Register accesses: read_control_register, write_control_register and      *)
(* bit_field_modify switch the bank when they believe it is another one.     *)

\* (mutant) the new bank is not remembered.
switch_bank_forgets(to, state) == [state EXCEPT !.chip = to]

switch_bank(to, state) == [state EXCEPT !.chip = to, !.driver = to]

\* What the controller and the driver think of the bank; `chip' is the controller's.
Banks(chip) == [chip |-> chip, driver |-> enc28j60_current_bank, wrong |-> misdirected]

\* An access to a register of bank `to'; key registers need no bank.
Reach(state, to) ==
    IF to = state.driver THEN [state EXCEPT !.wrong = state.wrong \/ state.chip # to]
    ELSE switch_bank(to, state)

\* The PHY is reached through registers of bank 2; whether it is done says one of bank 3.
write_phy(state) == Reach(Reach(state, 2), 3)
read_phy(state) == Reach(write_phy(state), 2)

BanksAre(state) ==
    bank' = state.chip /\ enc28j60_current_bank' = state.driver /\ misdirected' = state.wrong

Access(to) == BanksAre(Reach(Banks(bank), to))

\* The ring pointers, MACON, MAADR, ERXFCON and the PHY.
InitBanks(state) == write_phy(Reach(Reach(Reach(Reach(state, 0), 2), 3), 1))

\* init_enc28j60: the reset empties the controller and selects bank 0, but the
\* driver still believes in the bank it used last.
init_enc28j60 ==
    /\ ring' = [w \in 0 .. Words - 1 |-> Empty]
    /\ ERXWRPT' = 0 /\ ERXRDPT' = 0 /\ EPKTCNT' = 0
    /\ EIR' = {} /\ filter' = {"unicast", "multicast"} /\ TXRTS' = FALSE
    /\ enc28j60_next_packet_pointer' = 0
    /\ waiting' = <<>>
    /\ BanksAre(InitBanks(Banks(0)))

-----------------------------------------------------------------------------
(* network_process *)

\* Nothing to do without a frame, whatever the flags say.
ReadPacketCounter ==
    /\ encpc = "main" /\ uip_recvbuf = <<>>
    /\ Access(1)
    /\ encpc' = IF EPKTCNT = 0 THEN "main" ELSE "flags"
    /\ UNCHANGED <<chipVars, enc28j60_next_packet_pointer, flags, header, uip_recvbuf, timeout,
                   frames, waiting, sendVars>>

\* The link and the transmit flag: read_phy uses the banks 2 and 3, and reading
\* PHIR clears the flag.
ReadFlags ==
    /\ encpc = "flags"
    /\ flags' = EIR
    /\ EIR' = EIR \ {"LINKIF", "TXIF"}
    /\ IF "LINKIF" \in EIR THEN BanksAre(read_phy(Banks(bank))) ELSE UNCHANGED bankVars
    /\ encpc' = "header"
    /\ UNCHANGED <<ring, ERXWRPT, ERXRDPT, EPKTCNT, filter, TXRTS,
                   enc28j60_next_packet_pointer, header, uip_recvbuf, timeout,
                   frames, waiting, sendVars>>

\* (mutant) the room of the frame is given back before the frame is copied.
ReadHeader_frees ==
    /\ encpc = "header"
    /\ BanksAre(Reach(Reach(Banks(bank), 1), 0))
    /\ header' = AsHeader(ring[enc28j60_next_packet_pointer \div 2])
    /\ ERXRDPT' = IF header'[2] = 0 THEN RXBUFFER_END ELSE header'[2] - 1
    /\ encpc' = "size"
    /\ UNCHANGED <<ring, ERXWRPT, EPKTCNT, EIR, filter, TXRTS, enc28j60_next_packet_pointer, flags,
                   uip_recvbuf, timeout, frames, waiting, sendVars>>

\* process_packet: the next packet pointer and the status vector.
ReadHeader ==
    /\ encpc = "header"
    /\ BanksAre(Reach(Reach(Banks(bank), 1), 0))
    /\ header' = AsHeader(ring[enc28j60_next_packet_pointer \div 2])
    /\ encpc' = "size"
    /\ UNCHANGED <<chipVars, enc28j60_next_packet_pointer, flags, uip_recvbuf, timeout,
                   frames, waiting, sendVars>>

\* A frame of the wrong size ends in an init; all frames that wait are lost.
CheckSize ==
    /\ encpc = "size"
    /\ IF header[3] \notin 1 .. MaxSize
       THEN init_enc28j60 /\ encpc' = "errors"
       ELSE /\ encpc' = "copy"
            /\ UNCHANGED <<chipVars, bankVars, enc28j60_next_packet_pointer, waiting>>
    /\ UNCHANGED <<flags, header, uip_recvbuf, timeout, frames, sendVars>>

CopyFrame ==
    /\ encpc = "copy"
    /\ uip_recvbuf' = [i \in 1 .. header[3] |->
                           ring[((enc28j60_next_packet_pointer \div 2) + i) % Words]]
    /\ enc28j60_next_packet_pointer' = header[2]
    /\ encpc' = "advance"
    /\ UNCHANGED <<chipVars, bankVars, flags, header, timeout, frames, waiting, sendVars>>

\* (mutant) the packet counter is not taken down.
Advance_keeps_counter ==
    /\ encpc = "advance"
    /\ Access(0)
    /\ ERXRDPT' = IF header[2] = 0 THEN RXBUFFER_END ELSE header[2] - 1
    /\ encpc' = "errors"
    /\ waiting' = Tail(waiting)
    /\ UNCHANGED <<ring, ERXWRPT, EPKTCNT, EIR, filter, TXRTS, enc28j60_next_packet_pointer,
                   flags, header, uip_recvbuf, timeout, frames, sendVars>>

\* The read pointer is set to the odd address in front of the next frame, which
\* gives the room back, and the packet counter is taken down.
Advance ==
    /\ encpc = "advance"
    /\ Access(0)
    /\ ERXRDPT' = IF header[2] = 0 THEN RXBUFFER_END ELSE header[2] - 1
    /\ EPKTCNT' = EPKTCNT - 1
    /\ encpc' = "errors"
    /\ waiting' = Tail(waiting)
    /\ UNCHANGED <<ring, ERXWRPT, EIR, filter, TXRTS, enc28j60_next_packet_pointer, flags, header,
                   uip_recvbuf, timeout, frames, sendVars>>

\* A receive error that was noted at the beginning ends in an init, too.
HandleErrors ==
    /\ encpc = "errors"
    /\ IF "RXERIF" \in flags THEN init_enc28j60
       ELSE UNCHANGED <<chipVars, bankVars, enc28j60_next_packet_pointer, waiting>>
    /\ flags' = {} /\ header' = Header(0, 0, 0)
    /\ encpc' = "main"
    /\ UNCHANGED <<uip_recvbuf, timeout, frames, sendVars>>

\* main has handled the frame.
FrameHandled ==
    /\ encpc = "main" /\ uip_recvbuf # <<>>
    /\ uip_recvbuf' = <<>>
    /\ UNCHANGED <<chipVars, bankVars, enc28j60_next_packet_pointer, encpc, flags, header, timeout,
                   frames, waiting, sendVars>>

-----------------------------------------------------------------------------
(* transmit_packet *)

StartTransmit ==
    /\ encpc = "main" /\ transmits < MaxTransmits
    /\ transmits' = transmits + 1
    /\ timeout' = Timeout /\ busy' = 0 /\ spoilt' = FALSE
    /\ encpc' = "wait"
    /\ UNCHANGED <<chipVars, bankVars, enc28j60_next_packet_pointer, flags, header, uip_recvbuf,
                   frames, waiting>>

\* (mutant) nobody waits.
WaitRound_none ==
    /\ encpc = "wait"
    /\ encpc' = "fill"
    /\ spoilt' = TXRTS
    /\ UNCHANGED <<chipVars, bankVars, enc28j60_next_packet_pointer, flags, header, uip_recvbuf,
                   timeout, busy, frames, waiting, transmits>>

\* One round of the wait.  The uint8_t is compared with 0 and then taken down: the
\* last round leaves 255, not 0.
WaitRound ==
    /\ encpc = "wait"
    /\ IF TXRTS
       THEN /\ timeout' = (timeout - 1) % 256
            /\ busy' = busy + 1
            /\ encpc' = IF timeout > 0 THEN "wait" ELSE "fill"
       ELSE /\ encpc' = IF timeout = 0 THEN "main" ELSE "fill"
            /\ UNCHANGED <<timeout, busy>>
    /\ spoilt' = (encpc' = "main" \/ (encpc' = "fill" /\ TXRTS))
    /\ UNCHANGED <<chipVars, bankVars, enc28j60_next_packet_pointer, flags, header, uip_recvbuf,
                   frames, waiting, transmits>>

\* Only unicast frames are let in while the transmit buffer is written; the
\* transmit logic is reset, which ends whatever it was doing.
Fill ==
    /\ encpc = "fill"
    /\ BanksAre(Reach(Reach(Banks(bank), 1), 0))
    /\ filter' = {"unicast"} /\ TXRTS' = FALSE
    /\ encpc' = "send"
    /\ UNCHANGED <<ring, ERXWRPT, ERXRDPT, EPKTCNT, EIR, enc28j60_next_packet_pointer, flags, header,
                   uip_recvbuf, timeout, frames, waiting, sendVars>>

Send ==
    /\ encpc = "send"
    /\ Access(1)
    /\ TXRTS' = TRUE
    /\ filter' = {"unicast", "multicast"}
    /\ encpc' = "main" /\ timeout' = 0
    /\ UNCHANGED <<ring, ERXWRPT, ERXRDPT, EPKTCNT, EIR, enc28j60_next_packet_pointer, flags, header,
                   uip_recvbuf, frames, waiting, sendVars>>

Driver ==
    \/ ReadPacketCounter \/ ReadFlags \/ ReadHeader \/ CheckSize \/ CopyFrame \/ Advance
    \/ HandleErrors \/ FrameHandled
    \/ StartTransmit \/ WaitRound \/ Fill \/ Send

EncNext == Controller \/ Driver

EncSpec == EncInit /\ [][EncNext]_encVars

-----------------------------------------------------------------------------
(* Properties *)

\* The frame handed to main is the first of those that wait, all of it, though the
\* controller stores others while it is copied: none is skipped, repeated or
\* overwritten but by an init.
HandsUpInOrder ==
    encpc = "advance" =>
        /\ waiting # <<>>
        /\ uip_recvbuf = [i \in 1 .. Head(waiting)[2] |-> Data(Head(waiting)[1], i)]

\* The controller's counter and the driver's pointer speak of the frames that
\* wait: nobody reads where no frame is, and no room is lost for good.
RingInStep ==
    encpc \in {"main", "flags", "header", "wait", "fill", "send"} =>
        /\ EPKTCNT = Len(waiting)
        /\ waiting # <<>> =>
              LET h == ring[enc28j60_next_packet_pointer \div 2]
              IN  h[1] = "header" /\ h[4] = Head(waiting)[1] /\ h[3] = Head(waiting)[2]
        /\ waiting = <<>> => ERXWRPT = enc28j60_next_packet_pointer /\ Free >= RXBUFFER_END - 1

\* No register access goes to a register of another bank.
BankIsRight == ~misdirected

\* A frame is dropped or cuts off the one before only when the transmitter was
\* busy as often as it may be.
SpoiltOnlyIfBusy == spoilt => busy >= Timeout

\* Both: whatever the controller stores meanwhile, frames come up in order, whole, once.
FramesInStep == HandsUpInOrder /\ RingInStep

=============================================================================
