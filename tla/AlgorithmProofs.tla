-------------------------- MODULE AlgorithmProofs --------------------------
(***************************************************************************)
(* Proofs about the two algorithms of lib/, each with an inductive         *)
(* invariant of its own: the CRC of the PIN store for data of any length   *)
(* and any noise within 32 bits, and XTEA for any key, any words of four   *)
(* bytes, and any number and contents of chunks.                           *)
(***************************************************************************)
EXTENDS Crc32, Xtea, WellFoundedInduction, TLAPS

-----------------------------------------------------------------------------
(* The CRC of the PIN store *)

IsWord(w) == w \subseteq 0 .. 31
Apart(v, w, i) == ~(i \in v <=> i \in w)

\* All flips are among 32 bits one behind the other.
Burst == \A f, g \in flipped : g - f < 32

\* Up to 32 bits behind the first flip a high bit of the register is wrong: it comes
\* down one place a round, or the bit shifted out is wrong and sets bit 31 anew.
HighBitIsWrong ==
    \E f \in flipped :
        /\ \A g \in flipped : f <= g
        /\ bit - f <= 32 => \E i \in 0 .. 31 : i >= 32 - (bit - f) /\ Apart(reg32, clean, i)

CrcInv ==
    /\ bit \in Nat /\ flipped \subseteq 0 .. bit - 1
    /\ IsWord(reg32) /\ IsWord(clean)
    /\ flipped = {} => reg32 = clean
    /\ Burst /\ flipped # {} => reg32 # clean /\ HighBitIsWrong

LEMMA UnequalBits ==
    ASSUME NEW a \in BOOLEAN, NEW b \in BOOLEAN
    PROVE  (a # b) \in BOOLEAN /\ ((a # b) <=> ~(a <=> b))
OBVIOUS

LEMMA DiffersMeans ==
    ASSUME NEW w, NEW one \in BOOLEAN PROVE Differs(w, one) <=> ~(0 \in w <=> one)
<1>1. (0 \in w) \in BOOLEAN
  OBVIOUS
<1> QED
  BY <1>1, UnequalBits DEF Differs

LEMMA ShiftedBits ==
    ASSUME NEW w, IsWord(w)
    PROVE  /\ ShiftRight(w) \subseteq 0 .. 30
           /\ \A i \in 0 .. 30 : i \in ShiftRight(w) <=> i + 1 \in w
<1>1. ShiftRight(w) \subseteq 0 .. 30
  BY DEF ShiftRight, IsWord
<1>2. ASSUME NEW i \in 0 .. 30 PROVE i \in ShiftRight(w) <=> i + 1 \in w
  <2>1. i + 1 \in w => i \in ShiftRight(w)
    <3>1. i + 1 # 0 /\ (i + 1) - 1 = i
      OBVIOUS
    <3> QED
      BY <3>1 DEF ShiftRight
  <2>2. ASSUME i \in ShiftRight(w) PROVE i + 1 \in w
    <3>1. PICK j \in w \ {0} : i = j - 1
      BY <2>2 DEF ShiftRight
    <3>2. j \in 0 .. 31
      BY DEF IsWord
    <3>3. i + 1 = j
      BY <3>1, <3>2
    <3> QED
      BY <3>3
  <2> QED
    BY <2>1, <2>2
<1> QED
  BY <1>1, <1>2

\* A round shifts every bit down a place and, if the bit shifted out is not the one
\* read, changes those of the polynom; bit 31 is one of them.
LEMMA RoundBits ==
    ASSUME NEW w, NEW one \in BOOLEAN, IsWord(w)
    PROVE  /\ IsWord(Round(w, one))
           /\ \A i \in 0 .. 30 :
                 i \in Round(w, one) <=> ~(i + 1 \in w <=> i \in polynom /\ Differs(w, one))
           /\ 31 \in Round(w, one) <=> Differs(w, one)
<1> DEFINE shifted == ShiftRight(w)
<1>1. shifted \subseteq 0 .. 30 /\ \A i \in 0 .. 30 : i \in shifted <=> i + 1 \in w
  BY ShiftedBits
<1>2. polynom \subseteq 0 .. 31 /\ 31 \in polynom
  BY DEF polynom
<1> HIDE DEF shifted
<1>3. CASE Differs(w, one)
  <2>1. Round(w, one) = (shifted \ polynom) \cup (polynom \ shifted)
    BY <1>3 DEF Round, XorBits, shifted
  <2> QED
    BY <1>1, <1>2, <1>3, <2>1 DEF IsWord
<1>4. CASE ~Differs(w, one)
  <2>1. Round(w, one) = shifted
    BY <1>4 DEF Round, shifted
  <2> QED
    BY <1>1, <1>4, <2>1 DEF IsWord
<1> QED
  BY <1>3, <1>4

\* A wrong bit above bit 0 is wrong one place below, or bit 31 gets wrong.
LEMMA WrongBitStays ==
    ASSUME NEW v, NEW w, IsWord(v), IsWord(w), NEW one \in BOOLEAN, NEW other \in BOOLEAN,
           NEW i \in 1 .. 31, Apart(v, w, i)
    PROVE  \E j \in 0 .. 31 : j >= i - 1 /\ Apart(Round(v, one), Round(w, other), j)
<1>1. CASE Differs(v, one) <=> Differs(w, other)
  <2>1. i - 1 \in 0 .. 30 /\ (i - 1) + 1 = i
    OBVIOUS
  <2>2. /\ i - 1 \in Round(v, one) <=> ~(i \in v <=> i - 1 \in polynom /\ Differs(v, one))
        /\ i - 1 \in Round(w, other) <=> ~(i \in w <=> i - 1 \in polynom /\ Differs(w, other))
    BY <2>1, RoundBits
  <2>3. Apart(Round(v, one), Round(w, other), i - 1)
    BY <1>1, <2>2 DEF Apart
  <2> QED
    BY <2>1, <2>3
<1>2. CASE ~(Differs(v, one) <=> Differs(w, other))
  <2>1. Apart(Round(v, one), Round(w, other), 31)
    BY <1>2, RoundBits DEF Apart
  <2> QED
    BY <2>1
<1> QED
  BY <1>1, <1>2

\* Two registers that are different stay so while the same bits are read.
LEMMA DifferentStays ==
    ASSUME NEW v, NEW w, IsWord(v), IsWord(w), v # w, NEW one \in BOOLEAN
    PROVE  Round(v, one) # Round(w, one)
<1>1. PICK i \in 0 .. 31 : Apart(v, w, i)
  BY DEF IsWord, Apart
<1>2. CASE i = 0
  <2>1. ~(Differs(v, one) <=> Differs(w, one))
    BY <1>1, <1>2, DiffersMeans DEF Apart
  <2> QED
    BY <2>1, RoundBits
<1>3. CASE i # 0
  <2>1. PICK j \in 0 .. 31 : Apart(Round(v, one), Round(w, one), j)
    BY <1>1, <1>3, WrongBitStays
  <2> QED
    BY <2>1 DEF Apart
<1> QED
  BY <1>2, <1>3

LEMMA InitCrc == CrcInit => CrcInv
BY DEF CrcInit, CrcInv, IsWord, AllOnes

LEMMA NextCrc == CrcInv /\ [NextBit]_crcVars => CrcInv'
<1> SUFFICES ASSUME CrcInv, [NextBit]_crcVars PROVE CrcInv'
  OBVIOUS
<1>1. CASE UNCHANGED crcVars
  BY <1>1 DEF crcVars, CrcInv, Burst, HighBitIsWrong
<1> SUFFICES ASSUME NextBit PROVE CrcInv'
  BY <1>1
<1>2. PICK flip \in BOOLEAN :
          /\ reg32' = Round(reg32, BitRead # flip)
          /\ flipped' = IF flip THEN flipped \cup {bit} ELSE flipped
  BY DEF NextBit
<1> DEFINE one == BitRead
           other == BitRead # flip
<1>3. one \in BOOLEAN /\ other \in BOOLEAN /\ (other <=> ~(one <=> flip))
  <2>1. one \in BOOLEAN
    BY DEF BitRead
  <2> HIDE DEF one
  <2>2. (one # flip) \in BOOLEAN /\ ((one # flip) <=> ~(one <=> flip))
    BY <2>1, UnequalBits
  <2> QED
    BY <2>1, <2>2 DEF one
<1>4. reg32' = Round(reg32, other) /\ clean' = Round(clean, one) /\ bit' = bit + 1
  BY <1>2 DEF NextBit
<1>5. bit \in Nat /\ flipped \subseteq 0 .. bit - 1 /\ IsWord(reg32) /\ IsWord(clean)
  BY DEF CrcInv
<1> HIDE DEF one, other
<1>6. IsWord(reg32') /\ IsWord(clean')
  BY <1>3, <1>4, <1>5, RoundBits
<1>7. bit' \in Nat /\ flipped' \subseteq 0 .. bit' - 1 /\ flipped \subseteq flipped'
  BY <1>2, <1>4, <1>5
<1>8. flipped' = {} => reg32' = clean'
  BY <1>2, <1>3, <1>4 DEF CrcInv
<1>9. ASSUME Burst', flipped' # {} PROVE reg32' # clean' /\ HighBitIsWrong'
  <2>1. CASE flipped = {}
    <3>1. flip /\ flipped' = {bit} /\ reg32 = clean
      BY <1>2, <1>9, <2>1 DEF CrcInv
    <3>2. ~(Differs(reg32, other) <=> Differs(clean, one))
      BY <1>3, <3>1, DiffersMeans
    <3>3. Apart(reg32', clean', 31)
      BY <1>3, <1>4, <1>5, <3>2, RoundBits DEF Apart
    <3>4. HighBitIsWrong'
      BY <1>4, <1>5, <3>1, <3>3 DEF HighBitIsWrong
    <3> QED
      BY <3>3, <3>4 DEF Apart
  <2>2. CASE flipped # {}
    <3>1. Burst
      BY <1>7, <1>9 DEF Burst
    <3>2. reg32 # clean /\ HighBitIsWrong
      BY <2>2, <3>1 DEF CrcInv
    <3>3. PICK f \in flipped :
              /\ \A g \in flipped : f <= g
              /\ bit - f <= 32 =>
                     \E i \in 0 .. 31 : i >= 32 - (bit - f) /\ Apart(reg32, clean, i)
      BY <3>2 DEF HighBitIsWrong
    <3>4. f \in flipped' /\ f \in 0 .. bit - 1 /\ \A g \in flipped' : f <= g
      BY <1>2, <1>5, <3>3
    <3>5. bit' - f <= 32 =>
              \E i \in 0 .. 31 : i >= 32 - (bit' - f) /\ Apart(reg32', clean', i)
      <4> SUFFICES ASSUME bit' - f <= 32
                   PROVE  \E i \in 0 .. 31 : i >= 32 - (bit' - f) /\ Apart(reg32', clean', i)
        OBVIOUS
      <4>1. bit - f <= 31
        BY <1>4, <1>5, <3>4
      <4>2. PICK i \in 0 .. 31 : i >= 32 - (bit - f) /\ Apart(reg32, clean, i)
        BY <1>5, <3>3, <3>4, <4>1
      <4>3. i \in 1 .. 31
        BY <1>5, <3>4, <4>1, <4>2
      <4>4. PICK j \in 0 .. 31 : j >= i - 1 /\ Apart(reg32', clean', j)
        BY <1>3, <1>4, <1>5, <4>2, <4>3, WrongBitStays
      <4>5. j >= 32 - (bit' - f)
        BY <1>4, <1>5, <3>4, <4>2, <4>4
      <4> QED
        BY <4>4, <4>5
    <3>6. HighBitIsWrong'
      BY <3>4, <3>5 DEF HighBitIsWrong
    <3>7. reg32' # clean'
      <4>1. CASE flip
        <5>1. bit \in flipped'
          BY <1>2, <4>1
        <5>2. bit - f < 32
          BY <1>9, <3>4, <5>1 DEF Burst
        <5>3. bit' - f <= 32
          BY <1>4, <1>5, <3>4, <5>2
        <5> QED
          BY <3>5, <5>3 DEF Apart
      <4>2. CASE ~flip
        <5>1. other = one
          BY <1>3, <4>2
        <5> QED
          BY <1>3, <1>4, <1>5, <3>2, <5>1, DifferentStays
      <4> QED
        BY <4>1, <4>2
    <3> QED
      BY <3>6, <3>7
  <2> QED
    BY <2>1, <2>2
<1> QED
  BY <1>6, <1>7, <1>8, <1>9 DEF CrcInv

\* The four bytes show every bit of the register.
LEMMA BytesShowAll ==
    ASSUME NEW v, NEW w, IsWord(v), IsWord(w), CrcBytes(v) = CrcBytes(w) PROVE v = w
<1> SUFFICES ASSUME NEW j \in 0 .. 31 PROVE j \in v <=> j \in w
  BY DEF IsWord
<1> DEFINE k == 4 - j \div 8
           i == j % 8
           Byte(u) == {m \in 0 .. 7 : m + 8 * (4 - k) \in XorBits(u, AllOnes)}
<1>1. k \in 1 .. 4 /\ i \in 0 .. 7 /\ i + 8 * (4 - k) = j
  OBVIOUS
<1>2. CrcBytes(v)[k] = Byte(v) /\ CrcBytes(w)[k] = Byte(w)
  BY <1>1 DEF CrcBytes
<1>3. i \in Byte(v) <=> i \in Byte(w)
  BY <1>2
<1>4. j \in XorBits(v, AllOnes) <=> j \in XorBits(w, AllOnes)
  BY <1>1, <1>3
<1> QED
  BY <1>4 DEF XorBits, AllOnes

\* The image has the CRC of its data, as its writer computed it.
ImageFits == AllRead => CrcBytes(clean) = [k \in 1 .. 4 |-> BitsOf(Image[block].crc[k])]

LEMMA CrcTells == CrcInv /\ ImageFits => (Burst => CrcTellsFlips)
<1> SUFFICES ASSUME CrcInv, ImageFits, Burst, AllRead
             PROVE  CrcBytes(reg32) = CrcBytes(clean) <=> flipped = {}
  BY DEF ImageFits, CrcTellsFlips
<1>1. CASE flipped = {}
  BY <1>1 DEF CrcInv
<1>2. CASE flipped # {}
  BY <1>2, BytesShowAll DEF CrcInv
<1> QED
  BY <1>1, <1>2

\* The invariant of the CRC, for any data and any flips: with none, register and clean
\* register are equal; with some within 32 bits, they are not.
THEOREM CrcInvariant == CrcSpec => []CrcInv
<1> QED
  BY InitCrc, NextCrc, PTL DEF CrcSpec

\* The CRC tells data that noise has changed from those it was computed from, of any
\* length and wherever the noise is, as long as all bits it flips, any number of them,
\* are within 32 one behind the other.
THEOREM CrcTellsBursts == CrcSpec /\ []ImageFits => [](Burst => CrcTellsFlips)
<1> QED
  BY CrcInvariant, CrcTells, PTL

-----------------------------------------------------------------------------
(* XTEA: remainders and exclusive or *)

Words == 0 .. Modulus - 1

LEMMA BytePositive == BYTE \in Nat /\ BYTE >= 16
BY XteaAssumption

LEMMA ModulusPositive == Modulus \in Nat /\ Modulus >= 1
<1>1. BYTE * BYTE \in Nat /\ BYTE * BYTE >= 1
  BY BytePositive
<1>2. BYTE * BYTE * BYTE \in Nat /\ BYTE * BYTE * BYTE >= 1
  BY <1>1, BytePositive
<1> QED
  BY <1>2, BytePositive DEF Modulus

LEMMA DivMod ==
    ASSUME NEW x \in Int, NEW n \in Nat, n >= 1
    PROVE  /\ x \div n \in Int /\ x % n \in 0 .. n - 1
           /\ x = n * (x \div n) + (x % n)
OBVIOUS

LEMMA ModUnique ==
    ASSUME NEW n \in Nat, n >= 1, NEW q \in Int, NEW r \in 0 .. n - 1
    PROVE  (n * q + r) % n = r /\ (n * q + r) \div n = q
OBVIOUS

LEMMA Divided ==
    ASSUME NEW x \in Int, NEW n \in Nat, n >= 1
    PROVE  \E q \in Int, r \in 0 .. n - 1 : x % n = r /\ x = n * q + r
<1>1. x \div n \in Int /\ x % n \in 0 .. n - 1 /\ x = n * (x \div n) + (x % n)
  BY DivMod
<1> QED
  BY <1>1, Zenon

\* Modulo n, subtracting takes an addition back.
LEMMA SubUndoesAdd ==
    ASSUME NEW n \in Nat, n >= 1, NEW x \in 0 .. n - 1, NEW y \in Int
    PROVE  (((x + y) % n) - y) % n = x
<1>1. PICK q \in Int, r \in 0 .. n - 1 : (x + y) % n = r /\ x + y = n * q + r
  <2>1. x + y \in Int
    OBVIOUS
  <2> QED
    BY <2>1, Divided
<1>2. r - y = n * (-q) + x /\ -q \in Int
  BY <1>1
<1>3. (n * (-q) + x) % n = x
  BY <1>2, ModUnique
<1> QED
  BY <1>1, <1>2, <1>3

LEMMA ModAdd ==
    ASSUME NEW n \in Nat, n >= 1, NEW x \in Int, NEW y \in Int
    PROVE  ((x % n) + y) % n = (x + y) % n
<1>1. PICK q \in Int, r \in 0 .. n - 1 : x % n = r /\ x = n * q + r
  BY Divided
<1>2. PICK p \in Int, t \in 0 .. n - 1 : (x + y) % n = t /\ x + y = n * p + t
  <2>1. x + y \in Int
    OBVIOUS
  <2> QED
    BY <2>1, Divided
<1>3. r + y = n * (p - q) + t /\ p - q \in Int
  BY <1>1, <1>2
<1>4. (n * (p - q) + t) % n = t
  BY <1>3, ModUnique
<1> QED
  BY <1>1, <1>2, <1>3, <1>4

LEMMA XorIsInt == \A x, y \in Int : Xor(x, y) \in Int
<1>1. \A x, y \in Int : Xor1(x, y) \in Int
  BY DEF Xor1
<1>2. \A x, y \in Int : Xor2(x, y) \in Int
  <2> SUFFICES ASSUME NEW x \in Int, NEW y \in Int PROVE Xor2(x, y) \in Int
    OBVIOUS
  <2>1. Xor1(x \div 2, y \div 2) \in Int /\ Xor1(x % 2, y % 2) \in Int
    BY <1>1
  <2>2. Xor2(x, y) = 2 * Xor1(x \div 2, y \div 2) + Xor1(x % 2, y % 2)
    BY Zenon DEF Xor2, Halves
  <2> QED
    BY <2>1, <2>2
<1>3. \A x, y \in Int : Xor4(x, y) \in Int
  <2> SUFFICES ASSUME NEW x \in Int, NEW y \in Int PROVE Xor4(x, y) \in Int
    OBVIOUS
  <2>1. Xor2(x \div 4, y \div 4) \in Int /\ Xor2(x % 4, y % 4) \in Int
    BY <1>2
  <2>2. Xor4(x, y) = 4 * Xor2(x \div 4, y \div 4) + Xor2(x % 4, y % 4)
    BY Zenon DEF Xor4, Halves
  <2> QED
    BY <2>1, <2>2
<1>4. \A x, y \in Int : Xor8(x, y) \in Int
  <2> SUFFICES ASSUME NEW x \in Int, NEW y \in Int PROVE Xor8(x, y) \in Int
    OBVIOUS
  <2>1. Xor4(x \div 16, y \div 16) \in Int /\ Xor4(x % 16, y % 16) \in Int
    BY <1>3
  <2>2. Xor8(x, y) = 16 * Xor4(x \div 16, y \div 16) + Xor4(x % 16, y % 16)
    BY Zenon DEF Xor8, Halves
  <2> QED
    BY <2>1, <2>2
<1>5. \A x, y \in Int : Xor16(x, y) \in Int
  <2> SUFFICES ASSUME NEW x \in Int, NEW y \in Int PROVE Xor16(x, y) \in Int
    OBVIOUS
  <2>1. Xor8(x \div 256, y \div 256) \in Int /\ Xor8(x % 256, y % 256) \in Int
    BY <1>4
  <2>2. Xor16(x, y) = 256 * Xor8(x \div 256, y \div 256) + Xor8(x % 256, y % 256)
    BY Zenon DEF Xor16, Halves
  <2> QED
    BY <2>1, <2>2
<1>6. \A x, y \in Int : Xor(x, y) \in Int
  <2> SUFFICES ASSUME NEW x \in Int, NEW y \in Int PROVE Xor(x, y) \in Int
    OBVIOUS
  <2>1. Xor16(x \div 65536, y \div 65536) \in Int /\ Xor16(x % 65536, y % 65536) \in Int
    BY <1>5
  <2>2. Xor(x, y) = 65536 * Xor16(x \div 65536, y \div 65536) + Xor16(x % 65536, y % 65536)
    BY SMT DEF Xor, Halves
  <2> QED
    BY <2>1, <2>2
<1> QED
  BY <1>6

LEMMA MixedIsInt == \A v \in Int : Mixed(v) \in Int
<1> SUFFICES ASSUME NEW v \in Int PROVE Mixed(v) \in Int
  OBVIOUS
<1>1. (v * 16) % Modulus \in Int /\ v \div 32 \in Int
  BY ModulusPositive
<1>2. Xor((v * 16) % Modulus, v \div 32) \in Int
  BY <1>1, XorIsInt
<1> QED
  BY <1>2, ModulusPositive DEF Mixed

LEMMA KeysAreInts == \A s \in Int : Low(s) \in Int /\ High(s) \in Int
<1>1. ASSUME NEW s \in Int, NEW n \in Int PROVE KeyAt(s, n) \in Int
  <2>1. xkey[n % 4] \in Nat
    BY XteaAssumption
  <2> QED
    BY <2>1, ModulusPositive DEF KeyAt
<1> QED
  BY <1>1 DEF Low, High

-----------------------------------------------------------------------------
(* XTEA: a round and its inverse *)

\* The sum after some rounds of xtea_encipher, and what the next round makes of the words.
SumAfter(k) == (delta * k) % Modulus
Lower(w, k) == (w[1] + Xor(Mixed(w[2]), Low(SumAfter(k)))) % Modulus
Upward(w, k) == (w[2] + Xor(Mixed(Lower(w, k)), High(SumAfter(k + 1)))) % Modulus
Forward(w, k) == <<Lower(w, k), Upward(w, k)>>

LEMMA SumsAdd ==
    ASSUME NEW k \in Nat
    PROVE  /\ SumAfter(k) \in Int
           /\ (SumAfter(k) + delta) % Modulus = SumAfter(k + 1)
           /\ (SumAfter(k + 1) - delta) % Modulus = SumAfter(k)
<1> DEFINE m == delta * k
           n == delta * (k + 1)
<1>1. m \in Int /\ n \in Int /\ n = m + delta /\ delta \in Int /\ -delta \in Int
  BY XteaAssumption
<1>2. SumAfter(k) = m % Modulus /\ SumAfter(k + 1) = n % Modulus
  BY DEF SumAfter
<1> HIDE DEF m, n
<1>3. m % Modulus \in Int /\ n % Modulus \in Int
  BY <1>1, ModulusPositive
<1>4. ((m % Modulus) + delta) % Modulus = (m + delta) % Modulus
  BY <1>1, ModulusPositive, ModAdd
<1>5. ((n % Modulus) + (-delta)) % Modulus = (n + (-delta)) % Modulus
  BY <1>1, ModulusPositive, ModAdd
<1>6. n + (-delta) = m /\ (n % Modulus) + (-delta) = (n % Modulus) - delta
  BY <1>1, <1>3
<1> QED
  BY <1>1, <1>2, <1>3, <1>4, <1>5, <1>6

LEMMA RoundTerms ==
    ASSUME NEW w \in Words \X Words, NEW k \in Nat
    PROVE  /\ Xor(Mixed(w[2]), Low(SumAfter(k))) \in Int
           /\ Lower(w, k) \in Words
           /\ Xor(Mixed(Lower(w, k)), High(SumAfter(k + 1))) \in Int
           /\ Upward(w, k) \in Words
<1>1. w[1] \in Int /\ w[2] \in Int
  BY ModulusPositive DEF Words
<1>2. SumAfter(k) \in Int /\ SumAfter(k + 1) \in Int
  BY SumsAdd
<1>3. Xor(Mixed(w[2]), Low(SumAfter(k))) \in Int
  BY <1>1, <1>2, MixedIsInt, KeysAreInts, XorIsInt
<1>4. Lower(w, k) \in Words
  BY <1>1, <1>3, ModulusPositive DEF Lower, Words
<1>5. Lower(w, k) \in Int
  BY <1>4, ModulusPositive DEF Words
<1>6. Xor(Mixed(Lower(w, k)), High(SumAfter(k + 1))) \in Int
  BY <1>2, <1>5, MixedIsInt, KeysAreInts, XorIsInt
<1>7. Upward(w, k) \in Words
  BY <1>1, <1>6, ModulusPositive DEF Upward, Words
<1> QED
  BY <1>3, <1>4, <1>6, <1>7

\* A round of xtea_decipher takes a round of xtea_encipher back.
LEMMA RoundIsUndone ==
    ASSUME NEW w \in Words \X Words, NEW k \in Nat
    PROVE  /\ (Upward(w, k) - Xor(Mixed(Lower(w, k)), High(SumAfter(k + 1)))) % Modulus = w[2]
           /\ (Lower(w, k) - Xor(Mixed(w[2]), Low(SumAfter(k)))) % Modulus = w[1]
<1>1. w[1] \in 0 .. Modulus - 1 /\ w[2] \in 0 .. Modulus - 1
  BY DEF Words
<1> QED
  BY <1>1, RoundTerms, ModulusPositive, SubUndoesAdd DEF Lower, Upward

\* The words of a chunk before the first round and after every one.
IsTrace(trace, n, w) ==
    /\ trace \in [0 .. n -> Words \X Words] /\ trace[0] = w
    /\ \A k \in 0 .. n - 1 : trace[k + 1] = Forward(trace[k], k)

Trace(w) == CHOOSE trace : IsTrace(trace, Rounds, w)

\* Induction on the natural numbers, for a set of them.
LEMMA SetInduction ==
    ASSUME NEW S, 0 \in S, \A n \in Nat : n \in S => n + 1 \in S
    PROVE  Nat \subseteq S
<1> DEFINE T == {n \in Nat : n \notin S}
           R == OpToRel(<, Nat)
<1> SUFFICES ASSUME T # {} PROVE FALSE
  OBVIOUS
<1>1. PICK x \in T : \A y \in T : ~(<<y, x>> \in R)
  <2>1. IsWellFoundedOn(R, Nat)
    BY NatLessThanWellFounded
  <2>2. T \subseteq Nat
    OBVIOUS
  <2> HIDE DEF T, R
  <2> QED
    BY <2>1, <2>2, WFMin
<1>2. x # 0 /\ x - 1 \in Nat /\ x - 1 \in T
  OBVIOUS
<1>3. <<x - 1, x>> \in R
  BY <1>2 DEF OpToRel
<1> QED
  BY <1>1, <1>2, <1>3

LEMMA TraceGrows ==
    ASSUME NEW w, NEW n \in Nat, NEW trace, IsTrace(trace, n, w)
    PROVE  \E longer : IsTrace(longer, n + 1, w)
<1> DEFINE longer == [k \in 0 .. n + 1 |-> IF k \in 0 .. n THEN trace[k] ELSE Forward(trace[n], n)]
<1>1. trace \in [0 .. n -> Words \X Words] /\ trace[n] \in Words \X Words
  BY DEF IsTrace
<1>2. Forward(trace[n], n) \in Words \X Words
  BY <1>1, RoundTerms DEF Forward
<1>3. longer \in [0 .. n + 1 -> Words \X Words] /\ longer[0] = w
  BY <1>1, <1>2 DEF IsTrace
<1>4. ASSUME NEW k \in 0 .. n PROVE longer[k + 1] = Forward(longer[k], k)
  BY DEF IsTrace
<1> HIDE DEF longer
<1>5. IsTrace(longer, n + 1, w)
  BY <1>3, <1>4 DEF IsTrace
<1> QED
  BY <1>5

LEMMA TraceExists ==
    ASSUME NEW w \in Words \X Words PROVE IsTrace(Trace(w), Rounds, w)
<1> DEFINE S == {n \in Nat : \E trace : IsTrace(trace, n, w)}
<1>1. 0 \in S
  <2>1. IsTrace([k \in 0 .. 0 |-> w], 0, w)
    BY DEF IsTrace
  <2> QED
    BY <2>1
<1>2. \A n \in Nat : n \in S => n + 1 \in S
  BY TraceGrows
<1> HIDE DEF S
<1>3. Nat \subseteq S
  BY <1>1, <1>2, SetInduction
<1>4. \E trace : IsTrace(trace, Rounds, w)
  BY <1>3 DEF S, Rounds
<1> QED
  BY <1>4 DEF Trace

-----------------------------------------------------------------------------
(* XTEA: words and bytes *)

WordOf(a, b, c, d) == ((a * BYTE + b) * BYTE + c) * BYTE + d

LEMMA BytesSplit ==
    ASSUME NEW x \in Nat, NEW y \in Bytes
    PROVE  Upper(x * BYTE + y) = x /\ (x * BYTE + y) % BYTE = y /\ x * BYTE + y \in Nat
<1>1. y \in 0 .. BYTE - 1 /\ BYTE \in Nat /\ BYTE >= 1
  BY BytePositive DEF Bytes
<1>2. (BYTE * x + y) % BYTE = y /\ (BYTE * x + y) \div BYTE = x
  BY <1>1, ModUnique
<1>3. BYTE * x = x * BYTE /\ x * BYTE \in Nat
  BY <1>1
<1> QED
  BY <1>1, <1>2, <1>3 DEF Upper

\* The bytes of the word that bytes make are these bytes.
LEMMA BytesComeBack ==
    ASSUME NEW a \in Bytes, NEW b \in Bytes, NEW c \in Bytes, NEW d \in Bytes
    PROVE  BytesOf(WordOf(a, b, c, d)) = <<a, b, c, d>>
<1> DEFINE x == a * BYTE + b
           y == x * BYTE + c
           z == y * BYTE + d
<1>0. a \in Nat
  BY BytePositive DEF Bytes
<1>1. Upper(x) = a /\ x % BYTE = b /\ x \in Nat
  BY <1>0, BytesSplit
<1> HIDE DEF x
<1>2. Upper(y) = x /\ y % BYTE = c /\ y \in Nat
  BY <1>1, BytesSplit
<1> HIDE DEF y
<1>3. Upper(z) = y /\ z % BYTE = d
  BY <1>2, BytesSplit
<1>4. BytesOf(z) = <<a, b, c, d>>
  BY <1>1, <1>2, <1>3 DEF BytesOf
<1> QED
  BY <1>4 DEF WordOf, z, y, x

LEMMA WordsFit ==
    ASSUME NEW n \in Nat, NEW x \in 0 .. n - 1, NEW y \in Bytes
    PROVE  x * BYTE + y \in 0 .. n * BYTE - 1
<1>1. y \in 0 .. BYTE - 1 /\ BYTE \in Nat /\ BYTE >= 1
  BY BytePositive DEF Bytes
<1>2. x * BYTE \in Nat /\ x * BYTE <= (n - 1) * BYTE /\ (n - 1) * BYTE = n * BYTE - BYTE
  BY <1>1
<1> QED
  BY <1>1, <1>2

LEMMA BytesMakeAWord ==
    ASSUME NEW a \in Bytes, NEW b \in Bytes, NEW c \in Bytes, NEW d \in Bytes
    PROVE  WordOf(a, b, c, d) \in Words
<1> DEFINE n2 == BYTE * BYTE
           n3 == n2 * BYTE
           x == a * BYTE + b
           y == x * BYTE + c
<1>1. BYTE \in Nat /\ n2 \in Nat /\ n3 \in Nat /\ a \in 0 .. BYTE - 1
  BY BytePositive DEF Bytes
<1>2. x \in 0 .. n2 - 1
  BY <1>1, WordsFit
<1> HIDE DEF n2, x
<1>3. y \in 0 .. n3 - 1
  BY <1>1, <1>2, WordsFit
<1> HIDE DEF n3, y
<1>4. y * BYTE + d \in 0 .. n3 * BYTE - 1
  BY <1>1, <1>3, WordsFit
<1> QED
  BY <1>4 DEF WordOf, Words, Modulus, n3, n2, x, y

\* The byte above the last one of a number below n * BYTE is below n.
LEMMA UpperFits ==
    ASSUME NEW n \in Nat, NEW v \in 0 .. n * BYTE - 1
    PROVE  Upper(v) \in 0 .. n - 1 /\ v % BYTE \in Bytes /\ v = Upper(v) * BYTE + (v % BYTE)
<1>1. BYTE \in Nat /\ BYTE >= 1 /\ n * BYTE \in Nat
  BY BytePositive
<1>2. v \in Nat /\ v < n * BYTE
  BY <1>1
<1>3. /\ v \div BYTE \in Int /\ v % BYTE \in 0 .. BYTE - 1
      /\ v = BYTE * (v \div BYTE) + (v % BYTE)
  BY <1>1, <1>2, DivMod
<1> DEFINE q == v \div BYTE
           r == v % BYTE
<1> HIDE DEF q, r
<1>4. q \in Int /\ r \in 0 .. BYTE - 1 /\ v = BYTE * q + r /\ BYTE * q = q * BYTE
  BY <1>1, <1>3 DEF q, r
<1>5. q >= 0
  <2> SUFFICES ASSUME q <= -1 PROVE FALSE
    BY <1>4
  <2>1. BYTE * q <= -BYTE
    BY <1>1, <1>4
  <2> QED
    BY <1>1, <1>2, <1>4, <2>1
<1>6. q < n
  <2> SUFFICES ASSUME q >= n PROVE FALSE
    BY <1>4
  <2>1. q * BYTE >= n * BYTE
    BY <1>1, <1>4
  <2> QED
    BY <1>1, <1>2, <1>4, <2>1
<1> QED
  BY <1>4, <1>5, <1>6 DEF Upper, Bytes, q, r

\* The word that the bytes of a word make is this word.
LEMMA WordComesBack ==
    ASSUME NEW v \in Words
    PROVE  /\ BytesOf(v) \in [1 .. 4 -> Bytes]
           /\ WordOf(BytesOf(v)[1], BytesOf(v)[2], BytesOf(v)[3], BytesOf(v)[4]) = v
<1> DEFINE n2 == BYTE * BYTE
           n3 == n2 * BYTE
           x == Upper(v)
           y == Upper(x)
<1>1. BYTE \in Nat /\ n2 \in Nat /\ n3 \in Nat /\ v \in 0 .. n3 * BYTE - 1
  BY BytePositive DEF Words, Modulus
<1> HIDE DEF n3
<1>2. x \in 0 .. n3 - 1 /\ v % BYTE \in Bytes /\ v = x * BYTE + (v % BYTE)
  BY <1>1, UpperFits
<1> HIDE DEF x, n2
<1>3. y \in 0 .. n2 - 1 /\ x % BYTE \in Bytes /\ x = y * BYTE + (x % BYTE)
  BY <1>1, <1>2, UpperFits DEF n3
<1> HIDE DEF y
<1>4. Upper(y) \in Bytes /\ y % BYTE \in Bytes /\ y = Upper(y) * BYTE + (y % BYTE)
  BY <1>1, <1>3, UpperFits DEF n2, Bytes
<1>5. BytesOf(v) = <<Upper(y), y % BYTE, x % BYTE, v % BYTE>>
  BY DEF BytesOf, x, y
<1>6. BytesOf(v) \in [1 .. 4 -> Bytes]
  BY <1>2, <1>3, <1>4, <1>5
<1>7. WordOf(Upper(y), y % BYTE, x % BYTE, v % BYTE) = v
  BY <1>2, <1>3, <1>4, Zenon DEF WordOf
<1> QED
  BY <1>5, <1>6, <1>7

-----------------------------------------------------------------------------
(* XTEA: the chunks of the buffer *)

ChunkNumbers == 0 .. Chunks - 1

\* The two words of a chunk, and its eight bytes in two buffers.
Pair(buffer, c) == <<WordAt(buffer, 8 * c), WordAt(buffer, 8 * c + 4)>>
SameChunk(buffer, other, c) == \A k \in 1 .. 8 : buffer[8 * c + k] = other[8 * c + k]

LEMMA SameChunksSameBuffers ==
    ASSUME NEW buffer \in Buffers, NEW other \in Buffers,
           \A c \in ChunkNumbers : SameChunk(buffer, other, c)
    PROVE  buffer = other
<1> DEFINE places == 1 .. 8 * Chunks
<1>1. ASSUME NEW n \in places PROVE buffer[n] = other[n]
  <2> DEFINE c == (n - 1) \div 8
             k == ((n - 1) % 8) + 1
  <2>1. c \in ChunkNumbers /\ k \in 1 .. 8 /\ 8 * c + k = n
    BY XteaAssumption DEF ChunkNumbers
  <2> QED
    BY <2>1 DEF SameChunk
<1>2. buffer \in [places -> Bytes] /\ other \in [places -> Bytes]
  BY DEF Buffers
<1> HIDE DEF places
<1> QED
  BY <1>1, <1>2

\* What PutChunk makes of the buffer.
Replaced(buffer, c, a, b) ==
    [k \in DOMAIN buffer |->
        IF k - 8 * c \in 1 .. 4 THEN BytesOf(a)[k - 8 * c]
        ELSE IF k - 8 * c \in 5 .. 8 THEN BytesOf(b)[k - 8 * c - 4]
        ELSE buffer[k]]

LEMMA PlacesOfAChunk ==
    ASSUME NEW c \in ChunkNumbers, NEW k \in 1 .. 8
    PROVE  8 * c + k \in 1 .. 8 * Chunks /\ (8 * c + k) - 8 * c = k
BY XteaAssumption DEF ChunkNumbers

LEMMA BytesOfAChunk ==
    ASSUME NEW buffer \in Buffers, NEW c \in ChunkNumbers, NEW k \in 1 .. 8
    PROVE  buffer[8 * c + k] \in Bytes
BY PlacesOfAChunk DEF Buffers

LEMMA WordsOfAChunk ==
    ASSUME NEW buffer, NEW c \in ChunkNumbers
    PROVE  Pair(buffer, c) =
               <<WordOf(buffer[8 * c + 1], buffer[8 * c + 2], buffer[8 * c + 3], buffer[8 * c + 4]),
                 WordOf(buffer[8 * c + 5], buffer[8 * c + 6], buffer[8 * c + 7], buffer[8 * c + 8])>>
<1>1. /\ 8 * c + 4 + 1 = 8 * c + 5 /\ 8 * c + 4 + 2 = 8 * c + 6
      /\ 8 * c + 4 + 3 = 8 * c + 7 /\ 8 * c + 4 + 4 = 8 * c + 8
  BY XteaAssumption DEF ChunkNumbers
<1> QED
  BY <1>1, Zenon DEF Pair, WordAt, WordOf

LEMMA PairsAreWords ==
    ASSUME NEW buffer \in Buffers, NEW c \in ChunkNumbers
    PROVE  Pair(buffer, c) \in Words \X Words
<1>1. \A k \in 1 .. 8 : buffer[8 * c + k] \in Bytes
  BY BytesOfAChunk
<1>2. WordOf(buffer[8 * c + 1], buffer[8 * c + 2], buffer[8 * c + 3], buffer[8 * c + 4]) \in Words
  BY <1>1, BytesMakeAWord
<1>3. WordOf(buffer[8 * c + 5], buffer[8 * c + 6], buffer[8 * c + 7], buffer[8 * c + 8]) \in Words
  BY <1>1, BytesMakeAWord
<1> QED
  BY <1>2, <1>3, WordsOfAChunk

LEMMA SameChunksSamePairs ==
    ASSUME NEW buffer, NEW other, NEW c \in ChunkNumbers, SameChunk(buffer, other, c)
    PROVE  Pair(buffer, c) = Pair(other, c)
<1>1. /\ buffer[8 * c + 1] = other[8 * c + 1] /\ buffer[8 * c + 2] = other[8 * c + 2]
      /\ buffer[8 * c + 3] = other[8 * c + 3] /\ buffer[8 * c + 4] = other[8 * c + 4]
      /\ buffer[8 * c + 5] = other[8 * c + 5] /\ buffer[8 * c + 6] = other[8 * c + 6]
      /\ buffer[8 * c + 7] = other[8 * c + 7] /\ buffer[8 * c + 8] = other[8 * c + 8]
  BY DEF SameChunk
<1> QED
  BY <1>1, WordsOfAChunk, Zenon

\* Only the chunk that is put back changes.
LEMMA ReplacedBytes ==
    ASSUME NEW buffer \in Buffers, NEW c \in ChunkNumbers, NEW a \in Words, NEW b \in Words
    PROVE  /\ Replaced(buffer, c, a, b) \in Buffers
           /\ \A k \in 1 .. 4 : Replaced(buffer, c, a, b)[8 * c + k] = BytesOf(a)[k]
           /\ \A k \in 1 .. 4 : Replaced(buffer, c, a, b)[8 * c + (4 + k)] = BytesOf(b)[k]
           /\ \A d \in ChunkNumbers : d # c => SameChunk(Replaced(buffer, c, a, b), buffer, d)
<1> DEFINE new == Replaced(buffer, c, a, b)
<1>1. DOMAIN buffer = 1 .. 8 * Chunks /\ c \in Nat
  BY XteaAssumption DEF Buffers, ChunkNumbers
<1>2. BytesOf(a) \in [1 .. 4 -> Bytes] /\ BytesOf(b) \in [1 .. 4 -> Bytes]
  BY WordComesBack
<1>3. ASSUME NEW k \in 1 .. 8 * Chunks PROVE new[k] \in Bytes
  <2>1. new[k] = IF k - 8 * c \in 1 .. 4 THEN BytesOf(a)[k - 8 * c]
                 ELSE IF k - 8 * c \in 5 .. 8 THEN BytesOf(b)[k - 8 * c - 4]
                 ELSE buffer[k]
    BY <1>1 DEF Replaced
  <2>2. k - 8 * c \in 5 .. 8 => k - 8 * c - 4 \in 1 .. 4
    BY <1>1
  <2>3. buffer[k] \in Bytes
    BY DEF Buffers
  <2> HIDE DEF new
  <2> QED
    BY <1>2, <2>1, <2>2, <2>3
<1>4. new \in Buffers
  BY <1>1, <1>3 DEF Replaced, Buffers
<1>5. ASSUME NEW k \in 1 .. 4 PROVE new[8 * c + k] = BytesOf(a)[k]
  <2>1. 8 * c + k \in DOMAIN buffer /\ (8 * c + k) - 8 * c = k
    <3>1. k \in 1 .. 8
      OBVIOUS
    <3> QED
      BY <1>1, <3>1, PlacesOfAChunk
  <2> QED
    BY <2>1 DEF Replaced
<1>6. ASSUME NEW k \in 1 .. 4 PROVE new[8 * c + (4 + k)] = BytesOf(b)[k]
  <2>1. /\ 8 * c + (4 + k) \in DOMAIN buffer /\ (8 * c + (4 + k)) - 8 * c = 4 + k
        /\ 4 + k \in 5 .. 8 /\ 4 + k \notin 1 .. 4 /\ (4 + k) - 4 = k
    BY <1>1, PlacesOfAChunk
  <2> QED
    BY <2>1 DEF Replaced
<1>7. ASSUME NEW d \in ChunkNumbers, d # c PROVE SameChunk(new, buffer, d)
  <2> SUFFICES ASSUME NEW k \in 1 .. 8 PROVE new[8 * d + k] = buffer[8 * d + k]
    BY DEF SameChunk
  <2>1. 8 * d + k \in DOMAIN buffer
    BY <1>1, PlacesOfAChunk
  <2>2. (8 * d + k) - 8 * c \notin 1 .. 4 /\ (8 * d + k) - 8 * c \notin 5 .. 8
    <3>1. d \in Int /\ c \in Int /\ k \in 1 .. 8 /\ (d <= c - 1 \/ d >= c + 1)
      BY <1>7, XteaAssumption DEF ChunkNumbers
    <3> QED
      BY <3>1
  <2> QED
    BY <2>1, <2>2 DEF Replaced
<1> QED
  BY <1>4, <1>5, <1>6, <1>7

LEMMA ReplacedWords ==
    ASSUME NEW buffer \in Buffers, NEW c \in ChunkNumbers, NEW a \in Words, NEW b \in Words
    PROVE  Pair(Replaced(buffer, c, a, b), c) = <<a, b>>
<1> DEFINE new == Replaced(buffer, c, a, b)
           u == BytesOf(a)
           v == BytesOf(b)
<1>1. /\ \A k \in 1 .. 4 : new[8 * c + k] = u[k]
      /\ \A k \in 1 .. 4 : new[8 * c + (4 + k)] = v[k]
  BY ReplacedBytes
<1>2. WordOf(u[1], u[2], u[3], u[4]) = a /\ WordOf(v[1], v[2], v[3], v[4]) = b
  BY WordComesBack
<1> HIDE DEF new, u, v
<1>3. /\ new[8 * c + 1] = u[1] /\ new[8 * c + 2] = u[2]
      /\ new[8 * c + 3] = u[3] /\ new[8 * c + 4] = u[4]
  BY <1>1
<1>4. /\ new[8 * c + 5] = v[1] /\ new[8 * c + 6] = v[2]
      /\ new[8 * c + 7] = v[3] /\ new[8 * c + 8] = v[4]
  BY <1>1
<1>5. Pair(new, c) = <<a, b>>
  BY <1>2, <1>3, <1>4, WordsOfAChunk, Zenon
<1> QED
  BY <1>5 DEF new

\* A chunk that gets the words it once had gets the bytes it once had.
LEMMA ReplacedAsBefore ==
    ASSUME NEW buffer \in Buffers, NEW other \in Buffers, NEW c \in ChunkNumbers,
           NEW a \in Words, NEW b \in Words, Pair(other, c) = <<a, b>>
    PROVE  SameChunk(Replaced(buffer, c, a, b), other, c)
<1> DEFINE new == Replaced(buffer, c, a, b)
           o == [k \in 1 .. 8 |-> other[8 * c + k]]
<1>1. \A k \in 1 .. 8 : o[k] \in Bytes
  BY BytesOfAChunk
<1>2. a = WordOf(o[1], o[2], o[3], o[4]) /\ b = WordOf(o[5], o[6], o[7], o[8])
  BY WordsOfAChunk
<1>3. \A k \in 1 .. 8 : o[k] = other[8 * c + k]
  OBVIOUS
<1> HIDE DEF o
<1>4. BytesOf(a) = <<o[1], o[2], o[3], o[4]>>
  <2>1. o[1] \in Bytes /\ o[2] \in Bytes /\ o[3] \in Bytes /\ o[4] \in Bytes
    BY <1>1
  <2>2. BytesOf(WordOf(o[1], o[2], o[3], o[4])) = <<o[1], o[2], o[3], o[4]>>
    BY <2>1, BytesComeBack
  <2> QED
    BY <1>2, <2>2
<1>5. BytesOf(b) = <<o[5], o[6], o[7], o[8]>>
  <2>1. o[5] \in Bytes /\ o[6] \in Bytes /\ o[7] \in Bytes /\ o[8] \in Bytes
    BY <1>1
  <2>2. BytesOf(WordOf(o[5], o[6], o[7], o[8])) = <<o[5], o[6], o[7], o[8]>>
    BY <2>1, BytesComeBack
  <2> QED
    BY <1>2, <2>2
<1>6. /\ \A k \in 1 .. 4 : new[8 * c + k] = BytesOf(a)[k]
      /\ \A k \in 1 .. 4 : new[8 * c + (4 + k)] = BytesOf(b)[k]
  BY ReplacedBytes
<1> HIDE DEF new
<1>7. ASSUME NEW k \in 1 .. 8 PROVE new[8 * c + k] = o[k]
  <2>1. CASE k \in 1 .. 4
    BY <1>4, <1>6, <2>1
  <2>2. CASE k \in 5 .. 8
    <3>1. k - 4 \in 1 .. 4 /\ 4 + (k - 4) = k
      BY <2>2
    <3>2. new[8 * c + (4 + (k - 4))] = BytesOf(b)[k - 4]
      BY <1>6, <3>1
    <3>3. BytesOf(b)[k - 4] = o[k]
      BY <1>5, <2>2
    <3> QED
      BY <3>1, <3>2, <3>3
  <2> QED
    BY <2>1, <2>2
<1> QED
  BY <1>3, <1>7 DEF SameChunk, new

-----------------------------------------------------------------------------
(* XTEA: the rounds in the buffer *)

TraceOf(c) == Trace(Pair(plain, c))
Enciphered(c) == Pair(xbuf, c) = TraceOf(c)[Rounds]

XteaTypes ==
    /\ plain \in Buffers /\ xbuf \in Buffers
    /\ xop \in {"encipher", "decipher", "done"}
    /\ chunk \in ChunkNumbers /\ round \in 0 .. Rounds + 1

\* The words of the chunk that is worked on are those after so many rounds.
WordsAre(k) == <<v0, v1>> = TraceOf(chunk)[k] /\ xsum = SumAfter(k)

Enciphering ==
    xop = "encipher" =>
        /\ \A c \in ChunkNumbers : IF c < chunk THEN Enciphered(c) ELSE SameChunk(xbuf, plain, c)
        /\ round > 0 => WordsAre(round - 1)

Deciphering ==
    xop = "decipher" =>
        /\ \A c \in ChunkNumbers : IF c < chunk THEN SameChunk(xbuf, plain, c) ELSE Enciphered(c)
        /\ round > 0 => WordsAre(Rounds + 1 - round)

XteaInv == XteaTypes /\ Enciphering /\ Deciphering /\ DecipherUndoesEncipher

LEMMA TraceOfAChunk ==
    ASSUME XteaTypes, NEW c \in ChunkNumbers
    PROVE  /\ TraceOf(c)[0] = Pair(plain, c)
           /\ \A k \in 0 .. Rounds : TraceOf(c)[k] \in Words \X Words
           /\ \A k \in 0 .. Rounds - 1 : TraceOf(c)[k + 1] = Forward(TraceOf(c)[k], k)
<1>1. Pair(plain, c) \in Words \X Words
  BY PairsAreWords DEF XteaTypes
<1>2. IsTrace(TraceOf(c), Rounds, Pair(plain, c))
  BY <1>1, TraceExists DEF TraceOf
<1> QED
  BY <1>2 DEF IsTrace

LEMMA InitXtea == XteaInit => XteaInv
<1> SUFFICES ASSUME XteaInit PROVE XteaInv
  OBVIOUS
<1>1. XteaTypes
  BY XteaAssumption DEF XteaInit, XteaTypes, ChunkNumbers, Rounds
<1>2. \A c \in ChunkNumbers : ~(c < chunk) /\ SameChunk(xbuf, plain, c)
  BY XteaAssumption DEF XteaInit, SameChunk, ChunkNumbers
<1>3. xop = "encipher" /\ round = 0
  BY DEF XteaInit
<1> QED
  BY <1>1, <1>2, <1>3 DEF XteaInv, Enciphering, Deciphering, DecipherUndoesEncipher

LEMMA TakeKeeps == ASSUME XteaInv, TakeChunk PROVE XteaInv'
<1>1. /\ xop # "done" /\ round = 0 /\ round' = 1
      /\ <<v0', v1'>> = Pair(xbuf, chunk)
      /\ UNCHANGED <<plain, xbuf, xop, chunk>>
  BY DEF TakeChunk, Pair
<1>2. XteaTypes /\ XteaTypes' /\ chunk \in ChunkNumbers
  BY <1>1 DEF XteaInv, XteaTypes, Rounds
<1>3. chunk \in Int
  BY <1>2, XteaAssumption DEF ChunkNumbers
<1>4. CASE xop = "encipher"
  <2>1. SameChunk(xbuf, plain, chunk)
    BY <1>2, <1>3, <1>4 DEF XteaInv, Enciphering
  <2>2. <<v0', v1'>> = TraceOf(chunk)[0]
    BY <1>1, <1>2, <2>1, SameChunksSamePairs, TraceOfAChunk
  <2>3. xsum' = SumAfter(0)
    BY <1>4, XteaAssumption, ModulusPositive DEF TakeChunk, SumAfter
  <2>4. WordsAre(0)'
    BY <1>1, <2>2, <2>3 DEF WordsAre, TraceOf
  <2>5. Enciphering'
    BY <1>1, <1>4, <2>4 DEF XteaInv, Enciphering, Enciphered, TraceOf
  <2> QED
    BY <1>1, <1>2, <1>4, <2>5 DEF XteaInv, Deciphering, DecipherUndoesEncipher
<1>5. CASE xop = "decipher"
  <2>1. Enciphered(chunk)
    BY <1>2, <1>3, <1>5 DEF XteaInv, Deciphering
  <2>2. <<v0', v1'>> = TraceOf(chunk)[Rounds]
    BY <1>1, <2>1 DEF Enciphered
  <2>3. xsum' = SumAfter(Rounds)
    BY <1>5 DEF TakeChunk, SumAfter
  <2>4. WordsAre(Rounds)' /\ Rounds + 1 - round' = Rounds
    BY <1>1, <2>2, <2>3 DEF WordsAre, TraceOf, Rounds
  <2>5. Deciphering'
    BY <1>1, <1>5, <2>4 DEF XteaInv, Deciphering, Enciphered, TraceOf
  <2> QED
    BY <1>1, <1>2, <1>5, <2>5 DEF XteaInv, Enciphering, DecipherUndoesEncipher
<1> QED
  BY <1>1, <1>2, <1>4, <1>5 DEF XteaTypes

LEMMA EncipherKeeps == ASSUME XteaInv, xtea_encipher PROVE XteaInv'
<1> DEFINE k == round - 1
           w == TraceOf(chunk)[k]
<1>1. /\ xop = "encipher" /\ round \in 1 .. Rounds /\ round' = round + 1
      /\ UNCHANGED <<plain, xbuf, xop, chunk>>
  BY DEF xtea_encipher
<1>2. XteaTypes /\ XteaTypes' /\ chunk \in ChunkNumbers
  BY <1>1 DEF XteaInv, XteaTypes, Rounds
<1>3. k \in 0 .. Rounds - 1 /\ k \in 0 .. Rounds /\ k \in Nat
  BY <1>1 DEF Rounds
<1>4. v0 = w[1] /\ v1 = w[2] /\ xsum = SumAfter(k)
  <2>1. WordsAre(k)
    BY <1>1 DEF XteaInv, Enciphering, Rounds
  <2> QED
    BY <2>1 DEF WordsAre
<1>5. TraceOf(chunk)[k + 1] = Forward(w, k)
  BY <1>2, <1>3, TraceOfAChunk
<1> HIDE DEF w
<1>6. xsum' = SumAfter(k + 1)
  BY <1>3, <1>4, SumsAdd DEF xtea_encipher
<1>7. v0' = Lower(w, k) /\ v1' = Upward(w, k)
  BY <1>4, <1>6 DEF xtea_encipher, Lower, Upward
<1>8. round' - 1 = k + 1 /\ TraceOf(chunk)' = TraceOf(chunk)
  BY <1>1 DEF TraceOf
<1>9. WordsAre(round - 1)'
  BY <1>5, <1>6, <1>7, <1>8 DEF WordsAre, Forward
<1>10. Enciphering'
  BY <1>1, <1>9 DEF XteaInv, Enciphering, Enciphered, TraceOf
<1> QED
  BY <1>1, <1>2, <1>10 DEF XteaInv, Deciphering, DecipherUndoesEncipher

LEMMA DecipherKeeps == ASSUME XteaInv, xtea_decipher PROVE XteaInv'
<1> DEFINE k == Rounds - round
           w == TraceOf(chunk)[k]
<1>1. /\ xop = "decipher" /\ round \in 1 .. Rounds /\ round' = round + 1
      /\ UNCHANGED <<plain, xbuf, xop, chunk>>
  BY DEF xtea_decipher
<1>2. XteaTypes /\ XteaTypes' /\ chunk \in ChunkNumbers
  BY <1>1 DEF XteaInv, XteaTypes, Rounds
<1>3. k \in 0 .. Rounds - 1 /\ k \in 0 .. Rounds /\ k \in Nat /\ Rounds + 1 - round = k + 1
  BY <1>1 DEF Rounds
<1>4. <<v0, v1>> = TraceOf(chunk)[k + 1] /\ xsum = SumAfter(k + 1)
  <2>1. WordsAre(Rounds + 1 - round)
    BY <1>1 DEF XteaInv, Deciphering, Rounds
  <2> QED
    BY <1>3, <2>1 DEF WordsAre
<1>5. TraceOf(chunk)[k + 1] = Forward(w, k) /\ w \in Words \X Words
  BY <1>2, <1>3, TraceOfAChunk
<1>6. w = <<w[1], w[2]>>
  BY <1>5
<1> HIDE DEF w, k
<1>7. v0 = Lower(w, k) /\ v1 = Upward(w, k)
  BY <1>4, <1>5 DEF Forward
<1>8. v1' = w[2]
  BY <1>3, <1>4, <1>5, <1>7, RoundIsUndone DEF xtea_decipher
<1>9. xsum' = SumAfter(k)
  BY <1>3, <1>4, SumsAdd DEF xtea_decipher
<1>10. v0' = w[1]
  BY <1>3, <1>5, <1>7, <1>8, <1>9, RoundIsUndone DEF xtea_decipher
<1>11. Rounds + 1 - round' = k /\ TraceOf(chunk)' = TraceOf(chunk)
  BY <1>1 DEF k, Rounds, TraceOf
<1>12. WordsAre(Rounds + 1 - round)'
  BY <1>6, <1>8, <1>9, <1>10, <1>11 DEF WordsAre, w
<1>13. Deciphering'
  BY <1>1, <1>12 DEF XteaInv, Deciphering, Enciphered, TraceOf
<1> QED
  BY <1>1, <1>2, <1>13 DEF XteaInv, Enciphering, DecipherUndoesEncipher

LEMMA PutKeeps == ASSUME XteaInv, PutChunk PROVE XteaInv'
<1>1. /\ xop # "done" /\ round = Rounds + 1 /\ round' = 0
      /\ xbuf' = Replaced(xbuf, chunk, v0, v1) /\ plain' = plain
  BY DEF PutChunk, Replaced
<1>2. XteaTypes /\ chunk \in ChunkNumbers /\ chunk \in Int
  BY XteaAssumption DEF XteaInv, XteaTypes, ChunkNumbers
<1>3. \/ /\ chunk + 1 \in ChunkNumbers /\ chunk' = chunk + 1 /\ xop' = xop
      \/ /\ chunk = Chunks - 1 /\ chunk' = 0
         /\ xop' = IF xop = "encipher" THEN "decipher" ELSE "done"
  BY <1>2, XteaAssumption DEF PutChunk, ChunkNumbers
<1>4. CASE xop = "encipher"
  <2>1. WordsAre(Rounds)
    BY <1>1, <1>4 DEF XteaInv, Enciphering, Rounds
  <2>2. TraceOf(chunk)[Rounds] \in Words \X Words
    BY <1>2, TraceOfAChunk DEF Rounds
  <2>3. v0 \in Words /\ v1 \in Words
    BY <2>1, <2>2 DEF WordsAre
  <2>4. /\ xbuf' \in Buffers
        /\ \A d \in ChunkNumbers : d # chunk => SameChunk(xbuf', xbuf, d)
    BY <1>1, <1>2, <2>3, ReplacedBytes DEF XteaTypes
  <2>5. Pair(xbuf', chunk) = TraceOf(chunk)[Rounds]
    BY <1>1, <1>2, <2>1, <2>3, ReplacedWords DEF XteaTypes, WordsAre
  <2>6. ASSUME NEW c \in ChunkNumbers
        PROVE  IF c <= chunk THEN Enciphered(c)' ELSE SameChunk(xbuf', plain', c)
    <3>0. c \in Int
      BY XteaAssumption DEF ChunkNumbers
    <3>1. CASE c = chunk
      BY <1>1, <1>2, <2>5, <3>1 DEF Enciphered, TraceOf
    <3>2. CASE c < chunk
      <4>1. Enciphered(c) /\ Pair(xbuf', c) = Pair(xbuf, c)
        BY <1>2, <1>4, <2>4, <3>0, <3>2, SameChunksSamePairs DEF XteaInv, Enciphering
      <4> QED
        BY <1>1, <1>2, <3>0, <3>2, <4>1 DEF Enciphered, TraceOf
    <3>3. CASE c > chunk
      <4>1. SameChunk(xbuf, plain, c) /\ SameChunk(xbuf', xbuf, c)
        BY <1>2, <1>4, <2>4, <3>0, <3>3 DEF XteaInv, Enciphering
      <4> QED
        BY <1>1, <1>2, <3>0, <3>3, <4>1 DEF SameChunk
    <3> QED
      BY <1>2, <3>0, <3>1, <3>2, <3>3
  <2> QED
    BY <1>1, <1>2, <1>3, <1>4, <2>4, <2>6, XteaAssumption
    DEF XteaInv, XteaTypes, Enciphering, Deciphering, DecipherUndoesEncipher, ChunkNumbers, Rounds
<1>5. CASE xop = "decipher"
  <2>1. WordsAre(0)
    BY <1>1, <1>5 DEF XteaInv, Deciphering, Rounds
  <2>2. <<v0, v1>> = Pair(plain, chunk)
    BY <1>2, <2>1, TraceOfAChunk DEF WordsAre
  <2>3. v0 \in Words /\ v1 \in Words
    BY <1>2, <2>2, PairsAreWords DEF XteaTypes
  <2>4. /\ xbuf' \in Buffers
        /\ \A d \in ChunkNumbers : d # chunk => SameChunk(xbuf', xbuf, d)
    BY <1>1, <1>2, <2>3, ReplacedBytes DEF XteaTypes
  <2>5. SameChunk(xbuf', plain, chunk)
    BY <1>1, <1>2, <2>2, <2>3, ReplacedAsBefore DEF XteaTypes
  <2>6. ASSUME NEW c \in ChunkNumbers
        PROVE  IF c <= chunk THEN SameChunk(xbuf', plain', c) ELSE Enciphered(c)'
    <3>0. c \in Int
      BY XteaAssumption DEF ChunkNumbers
    <3>1. CASE c = chunk
      BY <1>1, <1>2, <2>5, <3>1
    <3>2. CASE c < chunk
      <4>1. SameChunk(xbuf, plain, c) /\ SameChunk(xbuf', xbuf, c)
        BY <1>2, <1>5, <2>4, <3>0, <3>2 DEF XteaInv, Deciphering
      <4> QED
        BY <1>1, <1>2, <3>0, <3>2, <4>1 DEF SameChunk
    <3>3. CASE c > chunk
      <4>1. Enciphered(c) /\ Pair(xbuf', c) = Pair(xbuf, c)
        BY <1>2, <1>5, <2>4, <3>0, <3>3, SameChunksSamePairs DEF XteaInv, Deciphering
      <4> QED
        BY <1>1, <1>2, <3>0, <3>3, <4>1 DEF Enciphered, TraceOf
    <3> QED
      BY <1>2, <3>0, <3>1, <3>2, <3>3
  <2>7. XteaTypes'
    BY <1>1, <1>2, <1>3, <1>5, <2>4, XteaAssumption DEF XteaTypes, ChunkNumbers, Rounds
  <2>8. CASE chunk + 1 \in ChunkNumbers /\ chunk' = chunk + 1 /\ xop' = xop
    <3>1. \A c \in ChunkNumbers : c < chunk' <=> c <= chunk
      BY <1>2, <2>8, XteaAssumption DEF ChunkNumbers
    <3>2. Deciphering'
      BY <1>1, <2>6, <3>1 DEF Deciphering
    <3> QED
      BY <1>5, <2>7, <2>8, <3>2 DEF XteaInv, Enciphering, DecipherUndoesEncipher
  <2>9. CASE chunk = Chunks - 1 /\ xop' = "done"
    <3>1. \A c \in ChunkNumbers : SameChunk(xbuf', plain', c)
      BY <1>2, <2>6, <2>9, XteaAssumption DEF ChunkNumbers
    <3>2. xbuf' = plain'
      BY <1>1, <1>2, <2>4, <3>1, SameChunksSameBuffers DEF XteaTypes
    <3> QED
      BY <2>7, <2>9, <3>2 DEF XteaInv, Enciphering, Deciphering, DecipherUndoesEncipher
  <2> QED
    BY <1>3, <1>5, <2>8, <2>9
<1> QED
  BY <1>1, <1>2, <1>4, <1>5 DEF XteaTypes

LEMMA NextXtea == XteaInv /\ [XteaNext]_xteaVars => XteaInv'
<1> SUFFICES ASSUME XteaInv, [XteaNext]_xteaVars PROVE XteaInv'
  OBVIOUS
<1>1. CASE UNCHANGED xteaVars
  BY <1>1 DEF xteaVars, XteaInv, XteaTypes, Enciphering, Deciphering, DecipherUndoesEncipher,
              Enciphered, WordsAre, TraceOf
<1> QED
  BY <1>1, TakeKeeps, EncipherKeeps, DecipherKeeps, PutKeeps DEF XteaNext

\* The invariant of XTEA, for any key and delta, any words of four bytes, any number of
\* chunks and any contents: between two rounds of deciphering the words are those that
\* enciphering had there.
THEOREM XteaInvariant == XteaSpec => []XteaInv
<1> QED
  BY InitXtea, NextXtea, PTL DEF XteaSpec

\* decipher gives back every byte that encipher was given.
THEOREM DecipheredIsPlain == XteaSpec => []DecipherUndoesEncipher
<1> QED
  BY XteaInvariant, PTL DEF XteaInv

=============================================================================
