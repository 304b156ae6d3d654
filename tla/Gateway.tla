------------------------------ MODULE Gateway ------------------------------
(***************************************************************************)
(* How a gateway (eth-to-hausbus/nemogw.pl, nemo-to-hausbus/nemogw.pl)     *)
(* finds the packets in the stream of bytes from the reset card busmaster, *)
(* which sends each packet of the bus as "^00ll<header><payload>$" and     *)
(* does not escape anything: a checksum or a payload can hold '$' or '^'.  *)
(* Bytes get lost on the serial line, and text for debugging comes between.*)
(*                                                                         *)
(* A byte is its kind and its packet; the four digits are one byte.  The   *)
(* destination is never one of the two characters, every byte behind it    *)
(* may be: the checksums, the length and the payload are the content.      *)
(***************************************************************************)
EXTENDS Integers, Sequences, SequencesExt

CONSTANTS
    Length,        \* of the content, in bytes
    TooLong,       \* 125 in the code, where a packet has at most 37 bytes
    MaxBusPackets, \* bound on the packets
    MaxBytesLost,  \* bound on the bytes lost
    Destinations   \* of the packets: participants and groups

\* A packet in front of its '$' is not too long.
ASSUME GatewayAssumption ==
    /\ {Length, TooLong, MaxBusPackets, MaxBytesLost} \subseteq Nat
    /\ TooLong >= Length + 3

VARIABLES
    stream,        \* the bytes of the packet on the way
    passed,        \* the packets so far
    readbuffer,
    distributed,   \* history: the packets that were distributed as they are
    invented,      \* history: how many buffers were distributed that are no packet
    faults         \* history: bytes lost, and bytes '$' within a packet

gatewayVars == <<stream, passed, readbuffer, distributed, invented, faults>>

KindOf(b) == b[1]

Contents == [1 .. Length -> {"other", "$", "^"}]

\* What uart_puts and the loops behind it write for a packet.
CardBytes(p, to, content) ==
    << <<"^", p>>, <<"digits", p>>, <<"destination", p, to>> >>
        \o [k \in 1 .. Length |-> <<content[k], p>>] \o << <<"$", p>> >>

DollarsIn(bytes) == {k \in 1 .. Len(bytes) : KindOf(bytes[k]) = "$"}

GatewayInit ==
    /\ stream = <<>> /\ passed = 0 /\ readbuffer = <<>>
    /\ distributed = <<>> /\ invented = 0 /\ faults = 0

FromCard ==
    /\ stream = <<>> /\ passed < MaxBusPackets
    /\ passed' = passed + 1
    /\ \E to \in Destinations, content \in Contents :
          stream' = CardBytes(passed', to, content)
    /\ faults' = faults + Cardinality(DollarsIn(stream')) - 1
    /\ UNCHANGED <<readbuffer, distributed, invented>>

LoseByteOnLine ==
    /\ stream # <<>> /\ faults < MaxBytesLost
    /\ stream' = Tail(stream)
    /\ faults' = faults + 1
    /\ UNCHANGED <<passed, readbuffer, distributed, invented>>

\* Debug output of the busmaster between two packets.
DebugText ==
    /\ stream = <<>> /\ faults < MaxBytesLost
    /\ stream' = << <<"text", 0>> >>
    /\ UNCHANGED <<passed, readbuffer, distributed, invented, faults>>

\* unpack("CCCCCC", substr($readbuffer, 5)): the byte where the destination should be.
DestinationIn(buffer) ==
    IF Len(buffer) >= 3 /\ KindOf(buffer[3]) = "destination" THEN buffer[3][3] ELSE "none"

\* The packets that would stand like this between their first and their last byte.
PacketsIn(buffer) ==
    {p \in 1 .. passed : \E content \in Contents :
        buffer \o << <<"$", p>> >> = CardBytes(p, DestinationIn(buffer), content)}

Distributes(buffer) ==
    /\ distributed' = distributed \o SetToSeq(PacketsIn(buffer))
    /\ invented' = IF PacketsIn(buffer) = {} THEN invented + 1 ELSE invented

\* (mutant) the buffer is not emptied.
distribute_packet_keeps(buffer) == Distributes(buffer) /\ readbuffer' = buffer

\* To the clients that read its group: which ones these are is left out.
distribute_packet(buffer) == Distributes(buffer) /\ readbuffer' = <<>>

\* A packet starts with '^'.
Discarded(byte) == readbuffer = <<>> /\ KindOf(byte) # "^"

\* The callback for a byte.  An overlong packet is dropped, but what follows of it
\* is collected like the beginning of a packet.
TakeByte ==
    /\ stream # <<>>
    /\ stream' = Tail(stream)
    /\ LET byte == Head(stream)
           buffer == IF Len(readbuffer) > TooLong THEN <<>> ELSE readbuffer
       IN  IF Discarded(byte) THEN UNCHANGED <<readbuffer, distributed, invented>>
           ELSE IF KindOf(byte) = "$" THEN distribute_packet(buffer)
           ELSE readbuffer' = Append(buffer, byte) /\ UNCHANGED <<distributed, invented>>
    /\ UNCHANGED <<passed, faults>>

GatewayNext == FromCard \/ LoseByteOnLine \/ DebugText \/ TakeByte

GatewaySpec == GatewayInit /\ [][GatewayNext]_gatewayVars

-----------------------------------------------------------------------------
(* Properties *)

\* When the line is silent, a fault has cost two packets at most, and made up two at
\* most (a '$' within a packet ends it early, and a '^' behind it begins another one):
\* the gateway finds its way back into the stream, whatever bytes stand in a packet
\* and though an overlong one is dropped in its middle.
FaultsAreBounded ==
    stream = <<>> => passed - Len(distributed) <= 2 * faults /\ invented <= 2 * faults

=============================================================================
