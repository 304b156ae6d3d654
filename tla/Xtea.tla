-------------------------------- MODULE Xtea --------------------------------
(***************************************************************************)
(* XTEA with the key in flash (lib/crypto.c, lib/key.h): a buffer is       *)
(* enciphered and deciphered in place, in chunks of two words.  No         *)
(* firmware links it.  A word has four bytes; int is taken to be as wide   *)
(* as a word, as on the host: where it has 16 bits, to shift a byte by 24  *)
(* is undefined.                                                           *)
(***************************************************************************)
EXTENDS Integers

CONSTANTS
    BYTE,        \* values of a byte, 256 in the code
    delta, xkey,
    Chunks,      \* the argument chunks
    Fillings     \* contents of the buffer, eight bytes for every chunk

Bytes == 0 .. BYTE - 1
Buffers == [1 .. 8 * Chunks -> Bytes]

ASSUME XteaAssumption ==
    /\ BYTE \in {16, 32, 64, 128, 256}
    /\ delta \in Nat /\ xkey \in [0 .. 3 -> Nat]
    /\ Chunks \in 1 .. 255 /\ Fillings \subseteq Buffers

VARIABLES
    plain,           \* what the buffer was filled with
    xbuf,            \* the caller's buffer
    xop,             \* "encipher", "decipher" or "done"
    chunk, round,
    v0, v1, xsum     \* the words of the chunk, while it is worked on

xteaVars == <<plain, xbuf, xop, chunk, round, v0, v1, xsum>>

Modulus == BYTE * BYTE * BYTE * BYTE
Rounds == 32

XteaInit ==
    /\ plain \in Fillings /\ xbuf = plain
    /\ xop = "encipher" /\ chunk = 0 /\ round = 0
    /\ v0 = 0 /\ v1 = 0 /\ xsum = 0

\* The four bytes behind a place in the buffer, the high one first, and back.
WordAt(buffer, at) ==
    ((buffer[at + 1] * BYTE + buffer[at + 2]) * BYTE + buffer[at + 3]) * BYTE + buffer[at + 4]
Upper(v) == v \div BYTE
BytesOf(v) == <<Upper(Upper(Upper(v))), Upper(Upper(v)) % BYTE, Upper(v) % BYTE, v % BYTE>>

\* Exclusive or, half by half down to the single bits.
Halves(Op(_, _), n, a, b) == n * Op(a \div n, b \div n) + Op(a % n, b % n)
Xor1(a, b) == (a + b) % 2
Xor2(a, b) == Halves(Xor1, 2, a, b)
Xor4(a, b) == Halves(Xor2, 4, a, b)
Xor8(a, b) == Halves(Xor4, 16, a, b)
Xor16(a, b) == Halves(Xor8, 256, a, b)
Xor(a, b) == Halves(Xor16, 65536, a, b)

Mixed(v) == (Xor((v * 16) % Modulus, v \div 32) + v) % Modulus
KeyAt(s, n) == (s + xkey[n % 4]) % Modulus
Low(s) == KeyAt(s, s)
High(s) == KeyAt(s, s \div 2048)

\* A chunk is taken out of the buffer.
TakeChunk ==
    /\ xop # "done" /\ round = 0
    /\ v0' = WordAt(xbuf, 8 * chunk) /\ v1' = WordAt(xbuf, 8 * chunk + 4)
    /\ xsum' = IF xop = "encipher" THEN 0 ELSE (delta * Rounds) % Modulus
    /\ round' = 1
    /\ UNCHANGED <<plain, xbuf, xop, chunk>>

xtea_encipher ==
    /\ xop = "encipher" /\ round \in 1 .. Rounds
    /\ v0' = (v0 + Xor(Mixed(v1), Low(xsum))) % Modulus
    /\ xsum' = (xsum + delta) % Modulus
    /\ v1' = (v1 + Xor(Mixed(v0'), High(xsum'))) % Modulus
    /\ round' = round + 1
    /\ UNCHANGED <<plain, xbuf, xop, chunk>>

\* (mutant) the words are taken in the order of xtea_encipher.
xtea_decipher_same_order ==
    /\ xop = "decipher" /\ round \in 1 .. Rounds
    /\ v0' = (v0 - Xor(Mixed(v1), Low(xsum))) % Modulus
    /\ xsum' = (xsum - delta) % Modulus
    /\ v1' = (v1 - Xor(Mixed(v0'), High(xsum'))) % Modulus
    /\ round' = round + 1
    /\ UNCHANGED <<plain, xbuf, xop, chunk>>

xtea_decipher ==
    /\ xop = "decipher" /\ round \in 1 .. Rounds
    /\ v1' = (v1 - Xor(Mixed(v0), High(xsum))) % Modulus
    /\ xsum' = (xsum - delta) % Modulus
    /\ v0' = (v0 - Xor(Mixed(v1'), Low(xsum'))) % Modulus
    /\ round' = round + 1
    /\ UNCHANGED <<plain, xbuf, xop, chunk>>

\* The chunk is put back, the high bytes first; deciphering follows enciphering.
PutChunk ==
    /\ xop # "done" /\ round = Rounds + 1
    /\ xbuf' = [k \in DOMAIN xbuf |->
           IF k - 8 * chunk \in 1 .. 4 THEN BytesOf(v0)[k - 8 * chunk]
           ELSE IF k - 8 * chunk \in 5 .. 8 THEN BytesOf(v1)[k - 8 * chunk - 4]
           ELSE xbuf[k]]
    /\ round' = 0 /\ v0' = 0 /\ v1' = 0 /\ xsum' = 0
    /\ IF chunk + 1 < Chunks
       THEN chunk' = chunk + 1 /\ UNCHANGED xop
       ELSE chunk' = 0 /\ xop' = IF xop = "encipher" THEN "decipher" ELSE "done"
    /\ UNCHANGED plain

XteaNext == TakeChunk \/ xtea_encipher \/ xtea_decipher \/ PutChunk

XteaSpec == XteaInit /\ [][XteaNext]_xteaVars

-----------------------------------------------------------------------------
(* Properties *)

\* decipher gives back what encipher was given, in every byte of every chunk.
DecipherUndoesEncipher == xop = "done" => xbuf = plain

=============================================================================
