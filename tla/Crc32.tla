------------------------------- MODULE Crc32 -------------------------------
(***************************************************************************)
(* The CRC-32 that protects the PINs in the EEPROM (lib/crc32.c), bit by   *)
(* bit and in its real width: a word is the set of its bits that are one.  *)
(* The data are the image in poc-pinstore/verifypin.c, which noise flips   *)
(* bits of before they are read.                                           *)
(***************************************************************************)
EXTENDS Integers, Sequences, FiniteSets

CONSTANTS
    Image   \* parts: bytes, the CRC the image has for them, bound on the bits flipped

ASSUME CrcAssumption == \A part \in DOMAIN Image : Image[part].maxFlips \in Nat

VARIABLES
    block,      \* the part of the image that is read
    bit,        \* how many of its bits were read
    reg32,
    flipped,    \* history: the bits that were flipped
    clean       \* history: what reg32 would be without

crcVars == <<block, bit, reg32, flipped, clean>>

BitsOf(n) == {i \in 0 .. 7 : (n \div 2^i) % 2 = 1}
XorBits(a, b) == (a \ b) \cup (b \ a)
ShiftRight(word) == {i - 1 : i \in word \ {0}}
AllOnes == 0 .. 31

\* 0xEDB88320
polynom == {5, 8, 9, 15, 19, 20, 21, 23, 24, 26, 27, 29, 30, 31}

CrcInit ==
    /\ block \in DOMAIN Image
    /\ bit = 0 /\ reg32 = AllOnes /\ clean = AllOnes /\ flipped = {}

\* The bits of a byte, the low one first.
BitRead == (bit % 8) \in BitsOf(Image[block].bytes[bit \div 8 + 1])

\* (mutant) the bit shifted out is not looked at.
Differs_no_feedback(word, one) == one

Differs(word, one) == (0 \in word) # one

Round(word, one) ==
    IF Differs(word, one) THEN XorBits(ShiftRight(word), polynom) ELSE ShiftRight(word)

AllRead == bit = 8 * Len(Image[block].bytes)

\* A round of the loop in crc32_bytecalc.
NextBit ==
    /\ ~AllRead
    /\ \E flip \in IF Cardinality(flipped) < Image[block].maxFlips THEN BOOLEAN ELSE {FALSE} :
          /\ reg32' = Round(reg32, BitRead # flip)
          /\ flipped' = IF flip THEN flipped \cup {bit} ELSE flipped
    /\ clean' = Round(clean, BitRead)
    /\ bit' = bit + 1
    /\ UNCHANGED block

\* The four bytes of what crc32_messagecalc returns, the high one first.
CrcBytes(word) == [k \in 1 .. 4 |-> {i \in 0 .. 7 : i + 8 * (4 - k) \in XorBits(word, AllOnes)}]

CrcSpec == CrcInit /\ [][NextBit]_crcVars

-----------------------------------------------------------------------------
(* Properties *)

\* The CRC is the one that the image of poc-pinstore was written with, and is not if
\* one or two bits of the data are different.
CrcTellsFlips ==
    AllRead =>
        ((CrcBytes(reg32) = [k \in 1 .. 4 |-> BitsOf(Image[block].crc[k])]) <=> (flipped = {}))

=============================================================================
