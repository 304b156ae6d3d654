------------------------------ MODULE UartRxMC ------------------------------
(***************************************************************************)
(* Small instances of UartRx: the packets that travel on the line.         *)
(***************************************************************************)
EXTENDS UartRx

\* Commands of the busmaster to client 1, with payloads of two lengths.
OpenCmd == fmt_packet(1, 255, <<111>>)
StatusCmd == fmt_packet(1, 0, <<115, 36>>)
\* A packet of the busmaster to another client.
ToOther == fmt_packet(2, 0, <<112>>)
\* Packets of client 1: a reply to a ping, a message to a broadcast address.
Pong == fmt_packet(0, 1, <<112, 0>>)
News == fmt_packet(50, 1, <<79>>)

OwnPackets == {OpenCmd, StatusCmd}
MixedPackets == {OpenCmd, ToOther}
ToMaster == {Pong, News}

=============================================================================
