---------------------------- MODULE InetChecksum ----------------------------
(***************************************************************************)
(* The Internet checksum of the busmaster (busmaster/main.c and icmpv6.c): *)
(* chksum adds 16-bit words with the carry brought round, first those of   *)
(* the addresses and then those of the datagram, whose checksum field is   *)
(* zero, and the frame gets the complement.  An action is one round of the *)
(* loop.                                                                   *)
(***************************************************************************)
EXTENDS Integers

CONSTANTS
    BYTE,        \* values of a byte, 256 in the code
    Addresses,   \* bytes of the two addresses, 32 in the code
    MaxLength    \* bound on the length of a datagram

ASSUME ChecksumAssumption ==
    /\ BYTE \in Nat \ {0, 1} /\ MaxLength \in Nat
    /\ Addresses \in Nat /\ Addresses % 2 = 0

WORD == BYTE * BYTE
Ones == WORD - 1

VARIABLES
    sum,
    summing,   \* "addresses" or "datagram": which call of chksum
    left,      \* bytes from dataptr to last_byte
    added      \* history: the sum of all words so far, without wrapping

checksumVars == <<sum, summing, left, added>>

\* The sum starts with length and protocol.
ChecksumInit ==
    /\ sum \in 1 .. Ones /\ added = sum
    /\ summing = "addresses" /\ left = Addresses

\* (mutant) a carry is dropped.
AddWord_no_carry(s, t) == (s + t) % WORD

\* sum += t; if (sum < t) sum++;
AddWord(s, t) ==
    LET wrapped == (s + t) % WORD
    IN  IF wrapped < t THEN (wrapped + 1) % WORD ELSE wrapped

Add(t) == sum' = AddWord(sum, t) /\ added' = added + t /\ UNCHANGED summing

AddTwoBytes ==
    /\ left >= 2 /\ left' = left - 2
    /\ \E high, low \in 0 .. BYTE - 1 : Add(high * BYTE + low)

\* A last odd byte is the high one of its word.
AddLastByte ==
    /\ left = 1 /\ left' = 0
    /\ \E high \in 0 .. BYTE - 1 : Add(high * BYTE)

StartDatagram ==
    /\ summing = "addresses" /\ left = 0
    /\ summing' = "datagram" /\ left' \in 0 .. MaxLength
    /\ UNCHANGED <<sum, added>>

ChecksumNext == AddTwoBytes \/ AddLastByte \/ StartDatagram

ChecksumSpec == ChecksumInit /\ [][ChecksumNext]_checksumVars

\* Zero means no checksum: it is sent as all ones.
Complement(s) ==
    LET c == IF s = 0 THEN Ones ELSE Ones - s
    IN  IF c = 0 THEN Ones ELSE c

-----------------------------------------------------------------------------
(* Properties *)

\* A receiver, who adds all words of the frame, the checksum among them, and
\* brings the carries round at the end, finds all ones; no frame says that it has
\* no checksum.
ReceiverAccepts ==
    summing = "datagram" /\ left = 0 =>
        /\ Complement(sum) \in 1 .. Ones
        /\ (added + Complement(sum)) % Ones = 0

=============================================================================
