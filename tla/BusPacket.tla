----------------------------- MODULE BusPacket -----------------------------
(***************************************************************************)
(* The packet format of the Hausbus (lib/bus.h, lib/bus.c).                *)
(*                                                                         *)
(* A packet is a sequence of bytes: a header of six bytes followed by the  *)
(* payload.  The C code builds it in place in a caller's buffer; here it   *)
(* is a value.                                                             *)
(***************************************************************************)
EXTENDS Integers, Sequences

Byte == 0..255

\* sizeof(struct buspkt): destination, source, header_chk, payload_chk,
\* length_hi, length_lo.
HeaderSize == 6

\* Two bytes as a 16-bit value, high byte first.
Word(hi, lo) == 256 * hi + lo

Uint16(n) == n % 65536

\* The five summed header bytes, as an uint8_t addition.
HeaderSum(destination, source, payload_chk, length_hi, length_lo) ==
    (destination + source + payload_chk + length_hi + length_lo) % 256

\* fmt_packet writes the header and copies the payload behind it.  The length
\* parameter of the C function is an uint8_t; the payload checksum is never
\* computed, the field always holds 0xFF.
fmt_packet(destination, source, payload) ==
    LET len == Len(payload) % 256
    IN  << destination, source,
           HeaderSum(destination, source, 255, 0, len), 255, 0, len >>
        \o SubSeq(payload, 1, len)

=============================================================================
