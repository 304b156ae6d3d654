--------------------------- MODULE PinEntryProofs ---------------------------
(***************************************************************************)
(* Proofs about the PIN store and the PIN entry on it, for every size of   *)
(* PINs, blocks, checksums and packets, and any images and codes.          *)
(* EepromInv is inductive: the first byte of the store is erased or tells  *)
(* which image's checksum it belongs to, and an acknowledged packet is in  *)
(* its place.  With the layout it implies what verify_checksum, search_pin *)
(* and the broadcast are for; with EntryInv, that the door obeys the keys. *)
(***************************************************************************)
EXTENDS PinEntry, SequenceTheorems, TLAPS

-----------------------------------------------------------------------------
(* The layout of the store *)

\* The quotient and the remainder of a place counted in pieces of n.
LEMMA TimesGrows ==
    ASSUME NEW n \in Nat \ {0}, NEW p \in Int, NEW q \in Int, p < q
    PROVE  p * n + n <= q * n
<1>1. (q - p - 1) * n >= 0 /\ (q - p - 1) * n = q * n - p * n - n
  OBVIOUS
<1>2. q * n \in Int /\ p * n \in Int
  OBVIOUS
<1> QED
  BY <1>1, <1>2

LEMMA DivMod ==
    ASSUME NEW n \in Nat \ {0}, NEW q \in Nat, NEW r \in Nat, r < n
    PROVE  (q * n + r) \div n = q /\ (q * n + r) % n = r
<1> DEFINE a == q * n + r
           d == a \div n
           m == a % n
<1>1. a \in Nat /\ d \in Int /\ m \in Int /\ 0 <= m /\ m < n /\ a = d * n + m
  OBVIOUS
<1>2. q * n \in Int /\ d * n \in Int
  BY <1>1
<1>3. a = q * n + r
  OBVIOUS
<1> HIDE DEF a, d, m
<1>4. ~(d < q)
  <2> SUFFICES ASSUME d < q PROVE FALSE
    OBVIOUS
  <2>1. d * n + n <= q * n
    BY <1>1, TimesGrows
  <2> QED
    BY <1>1, <1>2, <1>3, <2>1
<1>5. ~(q < d)
  <2> SUFFICES ASSUME q < d PROVE FALSE
    OBVIOUS
  <2>1. q * n + n <= d * n
    BY <1>1, TimesGrows
  <2> QED
    BY <1>1, <1>2, <1>3, <2>1
<1>6. d = q
  BY <1>1, <1>4, <1>5
<1>7. m = r
  BY <1>1, <1>2, <1>3, <1>6
<1> QED
  BY <1>6, <1>7 DEF a, d, m

LEMMA DivIs ==
    ASSUME NEW n \in Nat \ {0}, NEW a \in Nat
    PROVE  \E q, r \in Nat : r < n /\ a = q * n + r /\ a \div n = q /\ a % n = r
<1>1. a \div n \in Nat /\ a % n \in Nat /\ a % n < n /\ a = (a \div n) * n + (a % n)
  OBVIOUS
<1> QED
  BY <1>1

\* A sequence of n elements.
IsList(f, n) == f = [i \in 1 .. n |-> f[i]]

\* h is the m elements of f and the n of g behind them.
IsConcat(h, f, m, g, n) ==
    /\ IsList(h, m + n)
    /\ \A i \in 1 .. m : h[i] = f[i]
    /\ \A i \in 1 .. n : h[m + i] = g[i]

LEMMA ConcatLists ==
    ASSUME NEW m \in Nat, NEW n \in Nat, NEW f, NEW g, IsList(f, m), IsList(g, n)
    PROVE  IsConcat(f \o g, f, m, g, n)
<1> DEFINE S == {f[i] : i \in 1 .. m} \cup {g[i] : i \in 1 .. n}
<1>1. f \in [1 .. m -> S] /\ g \in [1 .. n -> S]
  BY DEF IsList
<1> HIDE DEF S
<1>2. f \in Seq(S) /\ g \in Seq(S) /\ Len(f) = m /\ Len(g) = n
  BY <1>1
<1>3. f \o g \in Seq(S) /\ Len(f \o g) = m + n
  BY <1>2
<1>4. IsList(f \o g, m + n)
  <2>1. PICK h \in Seq(S) : h = f \o g
    BY <1>3
  <2>2. h \in [1 .. Len(h) -> S]
    BY <2>1, LenProperties
  <2> QED
    BY <1>3, <2>1, <2>2 DEF IsList
<1>5. \A i \in 1 .. m : (f \o g)[i] = f[i]
  BY <1>2
<1>6. \A i \in 1 .. n : (f \o g)[m + i] = g[i]
  BY <1>2
<1> QED
  BY <1>4, <1>5, <1>6 DEF IsConcat

\* The sizes of a block and of an image.
LEMMA Sizes ==
    /\ CRC32_SIZE \in Nat \ {0} /\ PIN_SIZE \in Nat \ {0} /\ PINS_PER_BLOCK \in Nat \ {0}
    /\ PacketBytes \in Nat \ {0}
    /\ PINS_PER_BLOCK * PIN_SIZE \in Nat \ {0}
    /\ BLOCK_SIZE \in Nat \ {0} /\ BLOCK_SIZE = PINS_PER_BLOCK * PIN_SIZE + CRC32_SIZE
<1>1. /\ CRC32_SIZE \in Nat \ {0} /\ PIN_SIZE \in Nat \ {0} /\ PINS_PER_BLOCK \in Nat \ {0}
      /\ PacketBytes \in Nat \ {0}
  BY EepromAssumption
<1>2. PINS_PER_BLOCK * PIN_SIZE \in Nat \ {0}
  BY <1>1
<1> QED
  BY <1>1, <1>2 DEF BLOCK_SIZE

LEMMA ImageIs ==
    ASSUME NEW img \in Images
    PROVE  /\ Len(img) \in Nat \ {0} /\ DOMAIN img = 1 .. Len(img) /\ img # <<>>
           /\ \A k \in 1 .. Len(img) : img[k] \in Seq(0 .. 9) /\ Len(img[k]) = 2 * PIN_SIZE
<1>1. img \in Seq(Seq(0 .. 9))
  BY EepromAssumption
<1>2. \A k \in DOMAIN img : Len(img[k]) = 2 * PIN_SIZE
  BY EepromAssumption
<1>3. Len(img) \in Nat \ {0}
  <2>1. PICK n \in 1 .. 180 : n = Len(img)
    BY EepromAssumption
  <2>2. n \in Nat \ {0}
    OBVIOUS
  <2> QED
    BY <2>1, <2>2, Zenon
<1>4. DOMAIN img = 1 .. Len(img) /\ \A k \in 1 .. Len(img) : img[k] \in Seq(0 .. 9)
  BY <1>1, LenProperties
<1>5. img # <<>>
  <2>1. Len(<<>>) = 0
    OBVIOUS
  <2> QED
    BY <1>3, <2>1
<1> QED
  BY <1>2, <1>3, <1>4, <1>5, Zenon

\* The blocks that n PINs need.
LEMMA BlocksNeeded ==
    ASSUME NEW n \in Nat \ {0}
    PROVE  /\ Blocks(n) \in Nat \ {0}
           /\ \A k \in 0 .. n - 1 : k \div PINS_PER_BLOCK \in 0 .. Blocks(n) - 1
<1> DEFINE P == PINS_PER_BLOCK
           e == n + P - 1
<1>1. P \in Nat \ {0} /\ e \in Nat
  BY Sizes
<1> HIDE DEF P
<1>2. PICK b, r \in Nat : r < P /\ e = b * P + r /\ e \div P = b
  BY <1>1, DivIs
<1> HIDE DEF e
<1>3. b * P \in Nat
  BY <1>1, <1>2
<1>4. \A k \in 0 .. n - 1 : k \div P \in 0 .. b - 1
  <2> TAKE k \in 0 .. n - 1
  <2>1. PICK q, m \in Nat : m < P /\ k = q * P + m /\ k \div P = q
    BY <1>1, DivIs
  <2>2. q * P \in Nat
    BY <1>1, <2>1
  <2>3. ~(b <= q)
    <3> SUFFICES ASSUME b <= q PROVE FALSE
      OBVIOUS
    <3>1. b * P <= q * P
      <4>1. CASE b = q
        BY <1>3, <4>1
      <4>2. CASE b < q
        BY <1>1, <1>2, <1>3, <2>1, <2>2, <4>2, TimesGrows
      <4> QED
        BY <1>2, <2>1, <4>1, <4>2
    <3>2. e = n + P - 1
      BY DEF e
    <3> QED
      BY <1>1, <1>2, <1>3, <2>1, <2>2, <3>1, <3>2
  <2> QED
    BY <1>2, <2>1, <2>3
<1>5. b # 0
  <2>1. 0 \in 0 .. n - 1
    OBVIOUS
  <2> QED
    BY <1>2, <1>4, <2>1
<1>6. Blocks(n) = b
  BY <1>2 DEF Blocks, e, P
<1> QED
  BY <1>2, <1>4, <1>5, <1>6 DEF P

\* What is where in a block: its PINs one behind the other, then their checksum.
LEMMA BlockIs ==
    ASSUME NEW img \in Images, NEW b \in Nat
    PROVE  /\ IsList(BlockBytes(img, b), BLOCK_SIZE)
           /\ \A k \in 1 .. PINS_PER_BLOCK * PIN_SIZE :
                 BlockBytes(img, b)[k] = PinsOfBlock(img, b)[k]
           /\ \A k \in 1 .. CRC32_SIZE :
                 BlockBytes(img, b)[PINS_PER_BLOCK * PIN_SIZE + k] = CrcBytes(PinsOfBlock(img, b))[k]
           /\ \A r \in 0 .. PINS_PER_BLOCK - 1 : \A i \in 1 .. PIN_SIZE :
                 PinsOfBlock(img, b)[r * PIN_SIZE + i] = PinOf(img, b * PINS_PER_BLOCK + r + 1)[i]
<1> DEFINE pins == PinsOfBlock(img, b)
           n == PINS_PER_BLOCK * PIN_SIZE
<1>1. n \in Nat /\ CRC32_SIZE \in Nat /\ BLOCK_SIZE = n + CRC32_SIZE
  BY Sizes
<1>2. IsList(pins, n)
  BY DEF IsList, PinsOfBlock
<1>3. IsList(CrcBytes(pins), CRC32_SIZE)
  BY DEF IsList, CrcBytes
<1>4. BlockBytes(img, b) = pins \o CrcBytes(pins)
  BY DEF BlockBytes
<1> HIDE DEF n, pins
<1>5. IsConcat(BlockBytes(img, b), pins, n, CrcBytes(pins), CRC32_SIZE)
  BY <1>1, <1>2, <1>3, <1>4, ConcatLists
<1>6. ASSUME NEW r \in 0 .. PINS_PER_BLOCK - 1, NEW i \in 1 .. PIN_SIZE
      PROVE  pins[r * PIN_SIZE + i] = PinOf(img, b * PINS_PER_BLOCK + r + 1)[i]
  <2> DEFINE k == r * PIN_SIZE + i
  <2>1. PIN_SIZE \in Nat \ {0} /\ PINS_PER_BLOCK \in Nat \ {0} /\ r \in Nat /\ i - 1 \in Nat /\ i - 1 < PIN_SIZE
    BY Sizes
  <2>2. r * PIN_SIZE \in Nat /\ r * PIN_SIZE + PIN_SIZE <= n
    BY <2>1, TimesGrows DEF n
  <2>3. k \in 1 .. n /\ k - 1 = r * PIN_SIZE + (i - 1)
    BY <1>1, <2>1, <2>2
  <2>4. (k - 1) \div PIN_SIZE = r /\ (k - 1) % PIN_SIZE = i - 1
    <3>1. (r * PIN_SIZE + (i - 1)) \div PIN_SIZE = r /\ (r * PIN_SIZE + (i - 1)) % PIN_SIZE = i - 1
      BY <2>1, DivMod
    <3> HIDE DEF k
    <3> QED
      BY <2>3, <3>1
  <2> HIDE DEF k
  <2>5. pins[k] = PinOf(img, b * PINS_PER_BLOCK + (k - 1) \div PIN_SIZE + 1)[((k - 1) % PIN_SIZE) + 1]
    BY <2>3 DEF pins, PinsOfBlock, n
  <2>6. (i - 1) + 1 = i
    BY <2>1
  <2> QED
    BY <2>4, <2>5, <2>6 DEF k
<1> QED
  BY <1>1, <1>5, <1>6 DEF n, pins, IsConcat

\* What is where in an image behind its checksum: the number of PINs, then the blocks.
LEMMA BodyIs ==
    ASSUME NEW img \in Images
    PROVE  /\ IsList(ImageBody[img], BodySize(Len(img)))
           /\ BodySize(Len(img)) \in Nat \ {0}
           /\ ImageBody[img][1] = NumByte(Len(img))
           /\ \A b \in 0 .. Blocks(Len(img)) - 1 : \A k \in 1 .. BLOCK_SIZE :
                 /\ 1 + b * BLOCK_SIZE + k \in 1 .. BodySize(Len(img))
                 /\ ImageBody[img][1 + b * BLOCK_SIZE + k] = BlockBytes(img, b)[k]
<1> DEFINE first == <<NumByte(Len(img))>>
           n == Blocks(Len(img)) * BLOCK_SIZE
           rest == [i \in 1 .. n |-> BlockBytes(img, (i - 1) \div BLOCK_SIZE)[((i - 1) % BLOCK_SIZE) + 1]]
<1>1. Blocks(Len(img)) \in Nat \ {0} /\ BLOCK_SIZE \in Nat \ {0}
  BY ImageIs, BlocksNeeded, Sizes
<1>2. n \in Nat /\ BodySize(Len(img)) = 1 + n
  BY <1>1 DEF BodySize, NUM_SIZE
<1>3. ImageBody[img] = first \o rest
  BY DEF ImageBody
<1>4. IsList(first, 1) /\ first[1] = NumByte(Len(img))
  BY DEF IsList
<1>5. IsList(rest, n)
  BY DEF IsList
<1>6. ASSUME NEW b \in 0 .. Blocks(Len(img)) - 1, NEW k \in 1 .. BLOCK_SIZE
      PROVE  b * BLOCK_SIZE + k \in 1 .. n /\ rest[b * BLOCK_SIZE + k] = BlockBytes(img, b)[k]
  <2> DEFINE i == b * BLOCK_SIZE + k
  <2>1. b \in Nat /\ k - 1 \in Nat /\ k - 1 < BLOCK_SIZE
    BY <1>1
  <2>2. b * BLOCK_SIZE \in Nat /\ b * BLOCK_SIZE + BLOCK_SIZE <= n
    BY <1>1, <2>1, TimesGrows
  <2> HIDE DEF n
  <2>3. i \in 1 .. n /\ i - 1 = b * BLOCK_SIZE + (k - 1)
    BY <1>1, <1>2, <2>1, <2>2
  <2>4. (i - 1) \div BLOCK_SIZE = b /\ (i - 1) % BLOCK_SIZE = k - 1
    BY <1>1, <2>1, <2>3, DivMod
  <2> HIDE DEF i
  <2>5. rest[i] = BlockBytes(img, (i - 1) \div BLOCK_SIZE)[((i - 1) % BLOCK_SIZE) + 1]
    BY <2>3
  <2> HIDE DEF rest
  <2>6. (k - 1) + 1 = k
    BY <2>1
  <2> QED
    BY <2>3, <2>4, <2>5, <2>6 DEF i
<1> HIDE DEF n
<1>7. IsConcat(first \o rest, first, 1, rest, n)
  <2>1. 1 \in Nat
    OBVIOUS
  <2> QED
    BY <1>2, <1>4, <1>5, <2>1, ConcatLists
<1> HIDE DEF first, rest
<1>8. ASSUME NEW b \in 0 .. Blocks(Len(img)) - 1, NEW k \in 1 .. BLOCK_SIZE
      PROVE  /\ 1 + b * BLOCK_SIZE + k \in 1 .. 1 + n
             /\ (first \o rest)[1 + b * BLOCK_SIZE + k] = BlockBytes(img, b)[k]
  <2>1. b \in Nat /\ k \in Nat /\ b * BLOCK_SIZE \in Nat
    BY <1>1
  <2>2. PICK i \in 1 .. n : i = b * BLOCK_SIZE + k
    BY <1>6
  <2>3. 1 + b * BLOCK_SIZE + k = 1 + i
    BY <2>1, <2>2
  <2>4. 1 + i \in 1 .. 1 + n
    BY <1>2
  <2>5. (first \o rest)[1 + i] = rest[i] /\ rest[i] = BlockBytes(img, b)[k]
    BY <1>6, <1>7, <2>2 DEF IsConcat
  <2> QED
    BY <2>3, <2>4, <2>5
<1>9. IsList(first \o rest, 1 + n) /\ (first \o rest)[1] = NumByte(Len(img))
  <2>1. 1 \in 1 .. 1
    OBVIOUS
  <2> QED
    BY <1>4, <1>7, <2>1, Zenon DEF IsConcat
<1>10. 1 + n \in Nat \ {0}
  BY <1>2
<1> QED
  BY <1>2, <1>3, <1>8, <1>9, <1>10, Zenon

LEMMA ImageBytesAre ==
    ASSUME NEW img \in Images
    PROVE  /\ Size(img) = CRC32_SIZE + BodySize(Len(img)) /\ Size(img) \in Nat
           /\ \A i \in 1 .. CRC32_SIZE : ImageBytes[img][i] = WholeCrc(ImageBody[img])[i]
           /\ \A i \in 1 .. BodySize(Len(img)) : ImageBytes[img][CRC32_SIZE + i] = ImageBody[img][i]
<1> DEFINE crc == WholeCrc(ImageBody[img])
           body == ImageBody[img]
           n == BodySize(Len(img))
<1>1. IsList(crc, CRC32_SIZE)
  BY DEF WholeCrc, CrcBytes, IsList
<1>2. IsList(body, n) /\ n \in Nat /\ CRC32_SIZE \in Nat
  BY BodyIs, Sizes
<1>3. Size(img) = CRC32_SIZE + n
  BY DEF Size
<1>4. ImageBytes[img] = crc \o body
  BY DEF ImageBytes
<1> HIDE DEF crc, body, n
<1>5. IsConcat(ImageBytes[img], crc, CRC32_SIZE, body, n)
  BY <1>1, <1>2, <1>4, ConcatLists
<1>6. CRC32_SIZE + n \in Nat
  BY <1>2
<1> QED
  BY <1>3, <1>5, <1>6, Zenon DEF IsConcat, crc, body, n

LEMMA CrcTells ==
    ASSUME NEW x, NEW y, CrcBytes(x)[1] = CrcBytes(y)[1]
    PROVE  x = y
<1>1. 1 \in 1 .. CRC32_SIZE
  BY Sizes
<1>2. CrcBytes(x)[1] = <<"crc", 1, x>> /\ CrcBytes(y)[1] = <<"crc", 1, y>>
  BY <1>1 DEF CrcBytes
<1>3. <<"crc", 1, x>> = <<"crc", 1, y>>
  BY <1>2, Zenon
<1> QED
  BY ONLY <1>3

\* The checksum of a body names the image it belongs to, if it does.
Names(x, body) ==
    /\ WholeCrc(body) = CrcBytes(x)
    /\ x \in Images => ImageBody[x] = body
    /\ x \notin Images => x = <<>> /\ \A img \in Images : ImageBody[img] # body

LEMMA WholeCrcNames == ASSUME NEW body PROVE \E x : Names(x, body)
<1>1. CASE \E img \in Images : ImageBody[img] = body
  <2> DEFINE x == CHOOSE img \in Images : ImageBody[img] = body
  <2>1. x \in Images /\ ImageBody[x] = body
    BY <1>1
  <2>2. WholeCrc(body) = CrcBytes(x)
    BY <1>1 DEF WholeCrc
  <2> HIDE DEF x
  <2> QED
    BY <2>1, <2>2 DEF Names
<1>2. CASE ~\E img \in Images : ImageBody[img] = body
  <2>1. WholeCrc(body) = CrcBytes(<<>>)
    BY <1>2 DEF WholeCrc
  <2>2. <<>> \notin Images
    BY ImageIs
  <2> QED
    BY <1>2, <2>1, <2>2 DEF Names
<1> QED
  BY <1>1, <1>2

-----------------------------------------------------------------------------
(* Reading *)

LEMMA ReadIs ==
    ASSUME NEW a, NEW n, NEW f, IsList(f, n), \A i \in 1 .. n : At(a + i - 1) = f[i]
    PROVE  eeprom_read_block(a, n) = f
BY DEF eeprom_read_block, IsList

\* Of an image that is intact, all of its bytes are where they are read.
LEMMA IntactIs ==
    ASSUME NEW img \in Images, Intact(img)
    PROVE  /\ \A i \in 1 .. CRC32_SIZE : At(i - 1) = WholeCrc(ImageBody[img])[i]
           /\ \A i \in 1 .. BodySize(Len(img)) : At(CRC32_SIZE + i - 1) = ImageBody[img][i]
<1>1. /\ BodySize(Len(img)) \in Nat /\ CRC32_SIZE \in Nat
      /\ Size(img) = CRC32_SIZE + BodySize(Len(img))
  BY BodyIs, Sizes, ImageBytesAre
<1> DEFINE n == BodySize(Len(img))
<1>2. ASSUME NEW i \in 1 .. CRC32_SIZE PROVE At(i - 1) = WholeCrc(ImageBody[img])[i]
  <2> HIDE DEF n
  <2>1. i - 1 \in 0 .. Size(img) - 1 /\ (i - 1) + 1 = i
    BY <1>1 DEF n
  <2>2. At(i - 1) = ImageBytes[img][(i - 1) + 1]
    BY <2>1 DEF Intact
  <2> QED
    BY <2>1, <2>2, ImageBytesAre
<1>3. ASSUME NEW i \in 1 .. n PROVE At(CRC32_SIZE + i - 1) = ImageBody[img][i]
  <2>1. CRC32_SIZE + i - 1 \in 0 .. Size(img) - 1 /\ (CRC32_SIZE + i - 1) + 1 = CRC32_SIZE + i
    BY <1>1
  <2>2. At(CRC32_SIZE + i - 1) = ImageBytes[img][(CRC32_SIZE + i - 1) + 1]
    BY <2>1 DEF Intact
  <2> QED
    BY <2>1, <2>2, ImageBytesAre
<1> QED
  BY <1>2, <1>3

\* An intact image is read as it is: the number, the checksums, the blocks.
IsRead(img) ==
    /\ num_pins = Len(img)
    /\ eeprom_read_block(CRC32_SIZE, BodySize(Len(img))) = ImageBody[img]
    /\ eeprom_read_block(0, CRC32_SIZE) = WholeCrc(ImageBody[img])
    /\ \A b \in 0 .. Blocks(Len(img)) - 1 : BlockPins(b) = PinsOfBlock(img, b) /\ BlockCrcFits(b)

LEMMA IntactIsRead == ASSUME NEW img \in Images, Intact(img) PROVE IsRead(img)
<1>1. /\ BodySize(Len(img)) \in Nat \ {0} /\ IsList(ImageBody[img], BodySize(Len(img)))
      /\ ImageBody[img][1] = NumByte(Len(img))
  BY BodyIs
<1>2. CRC32_SIZE \in Nat \ {0} /\ BLOCK_SIZE \in Nat \ {0}
      /\ PINS_PER_BLOCK * PIN_SIZE \in Nat
      /\ BLOCK_SIZE = PINS_PER_BLOCK * PIN_SIZE + CRC32_SIZE
  BY Sizes
<1>3. num_pins = Len(img)
  <2>1. 1 \in 1 .. BodySize(Len(img)) /\ CRC32_SIZE + 1 - 1 = CRC32_SIZE
    BY <1>1, <1>2
  <2>2. At(CRC32_SIZE) = NumByte(Len(img))
    BY <1>1, <2>1, IntactIs
  <2> QED
    BY <2>2 DEF num_pins, NumByte
<1>4. eeprom_read_block(CRC32_SIZE, BodySize(Len(img))) = ImageBody[img]
  BY <1>1, IntactIs, ReadIs
<1>5. eeprom_read_block(0, CRC32_SIZE) = WholeCrc(ImageBody[img])
  <2>1. IsList(WholeCrc(ImageBody[img]), CRC32_SIZE)
    BY DEF WholeCrc, CrcBytes, IsList
  <2>2. \A i \in 1 .. CRC32_SIZE : 0 + i - 1 = i - 1
    OBVIOUS
  <2>3. \A i \in 1 .. CRC32_SIZE : At(0 + i - 1) = WholeCrc(ImageBody[img])[i]
    BY <2>2, IntactIs
  <2> QED
    BY <2>1, <2>3, ReadIs
<1>6. ASSUME NEW b \in 0 .. Blocks(Len(img)) - 1
      PROVE  BlockPins(b) = PinsOfBlock(img, b) /\ BlockCrcFits(b)
  <2> DEFINE at == BlockOffset(b)
             n == PINS_PER_BLOCK * PIN_SIZE
  <2>0. b \in Nat /\ b * BLOCK_SIZE \in Nat /\ at = CRC32_SIZE + 1 + b * BLOCK_SIZE /\ at \in Nat
    <3>1. Blocks(Len(img)) \in Nat
      BY ImageIs, BlocksNeeded
    <3>2. b \in Nat
      BY <3>1
    <3> QED
      BY <1>2, <3>2 DEF BlockOffset, NUM_SIZE
  <2>1. ASSUME NEW k \in 1 .. BLOCK_SIZE PROVE At(at + k - 1) = BlockBytes(img, b)[k]
    <3>1. PICK i \in 1 .. BodySize(Len(img)) :
             i = 1 + b * BLOCK_SIZE + k /\ ImageBody[img][i] = BlockBytes(img, b)[k]
      BY BodyIs
    <3>2. k \in Nat
      BY <1>2
    <3>3. at + k - 1 = CRC32_SIZE + i - 1
      <4> DEFINE q == b * BLOCK_SIZE
      <4>1. q \in Nat /\ at = CRC32_SIZE + 1 + q /\ i = 1 + q + k /\ CRC32_SIZE \in Nat
        BY <1>2, <2>0, <3>1
      <4> HIDE DEF q, at
      <4> QED
        BY <3>2, <4>1
    <3>4. At(CRC32_SIZE + i - 1) = ImageBody[img][i]
      BY IntactIs
    <3> QED
      BY <3>1, <3>3, <3>4
  <2>2. PICK x : x = b /\ x \in Nat
    BY <2>0
  <2>3. /\ \A k \in 1 .. n : BlockBytes(img, b)[k] = PinsOfBlock(img, b)[k]
        /\ \A k \in 1 .. CRC32_SIZE : BlockBytes(img, b)[n + k] = CrcBytes(PinsOfBlock(img, b))[k]
    BY <2>2, BlockIs
  <2> HIDE DEF at, n
  <2>4. n \in Nat /\ BLOCK_SIZE = n + CRC32_SIZE
    BY <1>2 DEF n
  <2>5. BlockPins(b) = PinsOfBlock(img, b)
    <3>1. IsList(PinsOfBlock(img, b), n)
      BY DEF IsList, PinsOfBlock, n
    <3>2. \A k \in 1 .. n : k \in 1 .. BLOCK_SIZE
      BY <1>2, <2>4
    <3>3. \A k \in 1 .. n : At(at + k - 1) = PinsOfBlock(img, b)[k]
      BY <2>1, <2>3, <3>2
    <3>4. BlockPins(b) = eeprom_read_block(at, n)
      <4>1. BLOCK_SIZE - CRC32_SIZE = n
        BY <1>2, <2>4
      <4> QED
        BY <4>1 DEF BlockPins, at
    <3> QED
      BY <3>1, <3>3, <3>4, ReadIs
  <2>6. BlockCrcFits(b)
    <3>1. IsList(CrcBytes(PinsOfBlock(img, b)), CRC32_SIZE)
      BY DEF IsList, CrcBytes
    <3>2. at + BLOCK_SIZE - CRC32_SIZE = at + n
      <4>1. at \in Nat /\ CRC32_SIZE \in Nat
        BY <1>2, <2>0
      <4> QED
        BY <2>4, <4>1
    <3>3. ASSUME NEW k \in 1 .. CRC32_SIZE
          PROVE  At(at + n + k - 1) = CrcBytes(PinsOfBlock(img, b))[k]
      <4>0. k \in 1 .. CRC32_SIZE /\ CRC32_SIZE \in Nat /\ k \in Nat /\ at \in Nat
        BY <1>2, <2>0
      <4>1. n + k \in 1 .. BLOCK_SIZE /\ at + n + k - 1 = at + (n + k) - 1
        BY <2>4, <4>0
      <4>2. At(at + (n + k) - 1) = BlockBytes(img, b)[n + k]
        BY <2>1, <4>1
      <4> QED
        BY <2>3, <4>1, <4>2
    <3>4. eeprom_read_block(at + n, CRC32_SIZE) = CrcBytes(PinsOfBlock(img, b))
      BY <3>1, <3>3, ReadIs
    <3> QED
      BY <2>5, <3>2, <3>4 DEF BlockCrcFits, at
  <2> QED
    BY <2>5, <2>6
<1> QED
  BY <1>3, <1>4, <1>5, <1>6 DEF IsRead

\* search_pin finds the PINs at their places, behind the checksums of the blocks before.
LEMMA PinsAreFound ==
    ASSUME NEW img \in Images, Intact(img), NEW c \in 0 .. Len(img) - 1
    PROVE  eeprom_read_block(PinOffset(c), PIN_SIZE) = store_pin(img[c + 1])
<1> DEFINE S == PIN_SIZE
           P == PINS_PER_BLOCK
           n == P * S
<1>1. /\ CRC32_SIZE \in Nat \ {0} /\ S \in Nat \ {0} /\ P \in Nat \ {0} /\ n \in Nat
      /\ BLOCK_SIZE \in Nat /\ BLOCK_SIZE = n + CRC32_SIZE
  BY Sizes
<1>2. Len(img) \in Nat \ {0} /\ c \in Nat
  BY ImageIs
<1>3. PICK q, r \in Nat : r < P /\ c = q * P + r /\ c \div P = q
  BY <1>1, <1>2, DivIs
<1>4. q \in 0 .. Blocks(Len(img)) - 1
  <2>1. c \div P \in 0 .. Blocks(Len(img)) - 1
    BY <1>2, BlocksNeeded
  <2> QED
    BY <1>3, <2>1
<1>5. PinOffset(c) = BlockOffset(q) + r * S
  <2>1. c * S = q * n + r * S
    <3>1. (q * P + r) * S = (q * P) * S + r * S /\ (q * P) * S = q * (P * S)
      BY <1>1
    <3> QED
      BY <1>3, <3>1
  <2>2. q * BLOCK_SIZE = q * n + q * CRC32_SIZE
    <3> HIDE DEF n
    <3>1. q * (n + CRC32_SIZE) = q * n + q * CRC32_SIZE
      BY <1>1
    <3> QED
      BY <1>1, <3>1
  <2>3. /\ PinOffset(c) = CRC32_SIZE + 1 + c * S + q * CRC32_SIZE
        /\ BlockOffset(q) = CRC32_SIZE + 1 + q * BLOCK_SIZE
    BY <1>3 DEF PinOffset, BlockOffset, NUM_SIZE
  <2>4. PICK u, v, w \in Nat : u = q * n /\ v = r * S /\ w = q * CRC32_SIZE
    BY <1>1
  <2> HIDE DEF n
  <2> QED
    BY <1>1, <2>1, <2>2, <2>3, <2>4
<1>6. BlockOffset(q) \in Nat /\ r * S \in Nat /\ r * S + S <= n
  <2>1. q * BLOCK_SIZE \in Nat
    BY <1>1
  <2>2. r * S + S <= P * S
    BY <1>1, <1>3, TimesGrows
  <2> QED
    BY <1>1, <2>1, <2>2 DEF BlockOffset, NUM_SIZE
<1>7. BlockPins(q) = PinsOfBlock(img, q)
  BY <1>4, IntactIsRead DEF IsRead
<1>8. \A j \in 1 .. n : At(BlockOffset(q) + j - 1) = PinsOfBlock(img, q)[j]
  <2>1. BLOCK_SIZE - CRC32_SIZE = n
    BY <1>1
  <2>2. BlockPins(q) = [j \in 1 .. n |-> At(BlockOffset(q) + j - 1)]
    BY <2>1 DEF BlockPins, eeprom_read_block
  <2> QED
    BY <1>7, <2>2
<1>9. ASSUME NEW i \in 1 .. S PROVE At(PinOffset(c) + i - 1) = store_pin(img[c + 1])[i]
  <2> DEFINE j == r * S + i
  <2> HIDE DEF n
  <2>1. j \in 1 .. n /\ PinOffset(c) + i - 1 = BlockOffset(q) + j - 1
    <3>1. PICK v \in Nat : v = r * S
      BY <1>6
    <3>2. i \in Nat /\ 1 <= i /\ i <= S
      BY <1>1
    <3> QED
      BY <1>1, <1>5, <1>6, <3>1, <3>2
  <2>2. At(PinOffset(c) + i - 1) = PinsOfBlock(img, q)[j]
    BY <1>8, <2>1
  <2>3. PinsOfBlock(img, q)[r * PIN_SIZE + i] = PinOf(img, q * PINS_PER_BLOCK + r + 1)[i]
    <3>1. r \in 0 .. PINS_PER_BLOCK - 1
      BY <1>1, <1>3
    <3> QED
      BY <3>1, BlockIs
  <2>4. q * P + r + 1 = c + 1 /\ c + 1 <= Len(img)
    BY <1>2, <1>3
  <2>5. PinOf(img, c + 1) = store_pin(img[c + 1])
    BY <2>4 DEF PinOf
  <2> QED
    BY <2>2, <2>3, <2>4, <2>5
<1>10. IsList(store_pin(img[c + 1]), S)
  BY DEF IsList, store_pin
<1> QED
  BY <1>9, <1>10, ReadIs

\* An intact image that is protected is accepted.
LEMMA IntactIsAccepted ==
    ASSUME NEW img \in Images, Intact(img), IsProtected(img)
    PROVE  verify_checksum
<1>1. IsRead(img)
  BY IntactIsRead
<1>2. num_pins = Len(img) /\ num_pins # 0
  BY <1>1, ImageIs DEF IsRead
<1>3. eeprom_read_block(0, CRC32_SIZE) = whole_crc
  BY <1>1 DEF IsRead, whole_crc
<1>4. \A b \in 0 .. Blocks(Len(img)) - 1 : BlockCrcFits(b)
  BY <1>1 DEF IsRead
<1>5. \E b \in 0 .. Blocks(Len(img)) - 1 : ~Trivial(b)
  BY <1>1 DEF IsRead, IsProtected, Trivial
<1> QED
  BY <1>2, <1>3, <1>4, <1>5 DEF verify_checksum

\* The first byte of the store is nothing, or tells of an image.
FirstByteTold == At(0) = Erased \/ \E img \in Images : At(0) = CrcBytes(img)[1]

\* What the checksum in front tells of is what is stored.
LEMMA AcceptedIsAnImage ==
    ASSUME FirstByteTold, verify_checksum
    PROVE  \E img \in Images : Intact(img) /\ IsProtected(img)
<1> DEFINE body == eeprom_read_block(CRC32_SIZE, BodySize(num_pins))
<1>1. /\ eeprom_read_block(0, CRC32_SIZE) = WholeCrc(body)
      /\ \E b \in 0 .. Blocks(num_pins) - 1 : ~Trivial(b)
  BY DEF verify_checksum, whole_crc
<1>2. PICK x : Names(x, body)
  BY WholeCrcNames
<1> HIDE DEF body
<1>3. CRC32_SIZE \in Nat \ {0}
  BY Sizes
<1>4. \A i \in 1 .. CRC32_SIZE : At(i - 1) = CrcBytes(x)[i]
  <2> TAKE i \in 1 .. CRC32_SIZE
  <2>1. eeprom_read_block(0, CRC32_SIZE)[i] = At(0 + i - 1)
    BY DEF eeprom_read_block
  <2>2. 0 + i - 1 = i - 1
    OBVIOUS
  <2> QED
    BY <1>1, <1>2, <2>1, <2>2 DEF Names
<1>5. x \in Images /\ ImageBody[x] = body
  <2>1. 1 \in 1 .. CRC32_SIZE /\ 1 - 1 = 0
    BY <1>3
  <2>2. At(0) = CrcBytes(x)[1]
    BY <1>4, <2>1
  <2>3. CrcBytes(x)[1] # Erased
    <3>1. CrcBytes(x)[1] = <<"crc", 1, x>>
      BY <2>1 DEF CrcBytes
    <3> QED
      BY <3>1 DEF Erased
  <2>4. PICK img \in Images : At(0) = CrcBytes(img)[1]
    BY <2>2, <2>3 DEF FirstByteTold
  <2>5. x = img
    BY <2>2, <2>4, CrcTells
  <2> QED
    BY <1>2, <2>5 DEF Names
<1>6. num_pins = Len(x)
  <2>1. ImageBody[x][1] = NumByte(Len(x)) /\ IsList(ImageBody[x], BodySize(Len(x)))
        /\ BodySize(Len(x)) \in Nat \ {0}
    BY <1>5, BodyIs
  <2>2. DOMAIN ImageBody[x] = 1 .. BodySize(Len(x))
    BY <2>1 DEF IsList
  <2>3. DOMAIN body = 1 .. BodySize(num_pins)
    BY DEF body, eeprom_read_block
  <2>4. 1 \in 1 .. BodySize(num_pins)
    <3>1. 1 \in 1 .. BodySize(Len(x))
      BY <2>1
    <3> QED
      BY <1>5, <2>2, <2>3, <3>1, Zenon
  <2>5. body[1] = At(CRC32_SIZE + 1 - 1) /\ CRC32_SIZE + 1 - 1 = CRC32_SIZE
    BY <1>3, <2>4 DEF body, eeprom_read_block
  <2>6. At(CRC32_SIZE) = NumByte(Len(x))
    BY <1>5, <2>1, <2>5
  <2> QED
    BY <2>6 DEF num_pins, NumByte
<1>7. Intact(x)
  <2>1. Size(x) = CRC32_SIZE + BodySize(Len(x)) /\ BodySize(Len(x)) \in Nat
    BY <1>5, BodyIs, ImageBytesAre
  <2>2. ASSUME NEW a \in 0 .. Size(x) - 1 PROVE At(a) = ImageBytes[x][a + 1]
    <3>1. CASE a < CRC32_SIZE
      <4>1. a + 1 \in 1 .. CRC32_SIZE /\ (a + 1) - 1 = a
        BY <1>3, <2>1, <3>1
      <4>2. ImageBytes[x][a + 1] = WholeCrc(ImageBody[x])[a + 1]
        BY <1>5, <4>1, ImageBytesAre
      <4>3. WholeCrc(ImageBody[x]) = CrcBytes(x)
        BY <1>2, <1>5 DEF Names
      <4> QED
        BY <1>4, <4>1, <4>2, <4>3
    <3>2. CASE ~(a < CRC32_SIZE)
      <4> DEFINE i == a - CRC32_SIZE + 1
      <4>1. i \in 1 .. BodySize(Len(x)) /\ CRC32_SIZE + i = a + 1 /\ CRC32_SIZE + i - 1 = a
        BY <1>3, <2>1, <3>2
      <4> HIDE DEF i
      <4>2. ImageBytes[x][CRC32_SIZE + i] = ImageBody[x][i]
        BY <1>5, <4>1, ImageBytesAre
      <4>3. body[i] = At(CRC32_SIZE + i - 1)
        BY <1>6, <4>1 DEF body, eeprom_read_block
      <4> QED
        BY <1>5, <4>1, <4>2, <4>3
    <3> QED
      BY <3>1, <3>2
  <2> QED
    BY <2>2 DEF Intact
<1>8. IsProtected(x)
  BY <1>1, <1>5, <1>6, <1>7, IntactIsRead DEF IsRead, IsProtected, Trivial
<1> QED
  BY <1>5, <1>7, <1>8

-----------------------------------------------------------------------------
(* Writing *)

\* What was acknowledged is there.
AcknowledgedIsThere ==
    \A p \in Packets(image) \ unacked : \A a \in Addresses(image, p) : At(a) = ImageBytes[image][a + 1]

EepromInv ==
    /\ image \in Images \cup {<<>>}
    /\ FirstByteTold
    /\ AcknowledgedIsThere

LEMMA UpdatedIs ==
    ASSUME NEW as, eeprom' = Updated(as), NEW a
    PROVE  At(a)' = IF a \in as THEN ImageBytes[image][a + 1] ELSE At(a)
BY DEF Updated, At

LEMMA FirstByteIs ==
    ASSUME NEW img \in Images PROVE \E x \in Images : ImageBytes[img][0 + 1] = CrcBytes(x)[1]
<1>1. 1 \in 1 .. CRC32_SIZE /\ 0 + 1 = 1
  BY Sizes
<1>2. ImageBytes[img][1] = WholeCrc(ImageBody[img])[1]
  BY <1>1, ImageBytesAre
<1>3. PICK x : Names(x, ImageBody[img])
  BY WholeCrcNames
<1> QED
  BY <1>1, <1>2, <1>3 DEF Names

LEMMA WriteKeeps ==
    ASSUME EepromInv, NEW p \in Packets(image), NEW as, as \subseteq Addresses(image, p),
           eeprom' = Updated(as), image' = image,
           unacked' = unacked \/ (unacked' = unacked \ {p} /\ as = Addresses(image, p))
    PROVE  EepromInv'
<1>1. image \in Images
  BY DEF EepromInv, Packets
<1>2. FirstByteTold'
  <2>1. CASE 0 \in as
    <3>1. PICK x \in Images : ImageBytes[image][0 + 1] = CrcBytes(x)[1]
      BY <1>1, FirstByteIs
    <3>2. At(0)' = ImageBytes[image][0 + 1]
      BY <2>1, UpdatedIs
    <3> QED
      BY <3>1, <3>2 DEF FirstByteTold
  <2>2. CASE 0 \notin as
    <3>1. At(0)' = At(0)
      BY <2>2, UpdatedIs
    <3> QED
      BY <3>1 DEF EepromInv, FirstByteTold
  <2> QED
    BY <2>1, <2>2
<1>3. ASSUME NEW q \in Packets(image) \ unacked', NEW a \in Addresses(image, q)
      PROVE  At(a)' = ImageBytes[image][a + 1]
  <2>1. CASE a \in as
    BY <2>1, UpdatedIs
  <2>2. CASE a \notin as
    <3>1. q \notin unacked
      BY <2>2
    <3>2. At(a) = ImageBytes[image][a + 1]
      BY <3>1 DEF EepromInv, AcknowledgedIsThere
    <3> QED
      BY <2>2, <3>2, UpdatedIs
  <2> QED
    BY <2>1, <2>2
<1>4. AcknowledgedIsThere'
  BY <1>3 DEF AcknowledgedIsThere
<1> QED
  BY <1>1, <1>2, <1>4 DEF EepromInv

\* EepromInv holds in every state.
THEOREM EepromInvariant == EepromSpec => []EepromInv
<1>1. EepromInit => EepromInv
  <2> SUFFICES ASSUME EepromInit PROVE EepromInv
    OBVIOUS
  <2>1. At(0) = Erased
    BY DEF EepromInit, At
  <2>2. image = <<>> /\ Packets(image) = {}
    BY DEF EepromInit, Packets
  <2> QED
    BY <2>1, <2>2 DEF EepromInv, FirstByteTold, AcknowledgedIsThere
<1>2. EepromInv /\ [EepromNext]_eepromVars => EepromInv'
  <2> SUFFICES ASSUME EepromInv, [EepromNext]_eepromVars PROVE EepromInv'
    OBVIOUS
  <2>1. ASSUME NEW img \in Images, BeginImage(img) PROVE EepromInv'
    <3>1. image' = img /\ unacked' = Packets(img) /\ eeprom' = eeprom
      BY <2>1 DEF BeginImage
    <3>2. FirstByteTold'
      BY <3>1 DEF EepromInv, FirstByteTold, At
    <3> QED
      BY <3>1, <3>2 DEF EepromInv, AcknowledgedIsThere
  <2>2. ASSUME NEW p \in Packets(image), WriteCommand(p) PROVE EepromInv'
    BY <2>2, WriteKeeps DEF WriteCommand
  <2>3. ASSUME NEW p \in Packets(image), CutShort(p) PROVE EepromInv'
    <3>1. image' = image /\ unacked' = unacked
      BY <2>3 DEF CutShort
    <3>2. PICK as : as \subseteq Addresses(image, p) /\ eeprom' = Updated(as)
      <4>1. PICK place \in Addresses(image, p) :
              \/ eeprom' = Updated({a \in Addresses(image, p) : a < place})
              \/ eeprom' = Updated({a \in Addresses(image, p) : a > place})
        BY <2>3 DEF CutShort
      <4>2. /\ {a \in Addresses(image, p) : a < place} \subseteq Addresses(image, p)
            /\ {a \in Addresses(image, p) : a > place} \subseteq Addresses(image, p)
        OBVIOUS
      <4> QED
        BY <4>1, <4>2
    <3> QED
      BY <3>1, <3>2, WriteKeeps
  <2>4. CASE UNCHANGED eepromVars
    BY <2>4 DEF eepromVars, EepromInv, FirstByteTold, AcknowledgedIsThere, At
  <2> QED
    BY <2>1, <2>2, <2>3, <2>4 DEF EepromNext
<1> QED
  BY <1>1, <1>2, PTL DEF EepromSpec

\* The packets of an image carry all of it.
LEMMA PacketsCover ==
    ASSUME NEW img \in Images, NEW a \in 0 .. Size(img) - 1
    PROVE  \E p \in Packets(img) : a \in Addresses(img, p)
<1> DEFINE n == PacketBytes
           size == Size(img)
           e == size + n - 1
<1>1. n \in Nat \ {0} /\ size \in Nat /\ a \in Nat /\ a < size /\ e \in Nat
  BY Sizes, ImageBytesAre
<1> HIDE DEF n, size
<1>2. PICK q, r \in Nat : r < n /\ a = q * n + r
  BY <1>1, DivIs
<1>3. PICK d, m \in Nat : m < n /\ e = d * n + m /\ e \div n = d
  BY <1>1, DivIs
<1>4. q * n \in Nat /\ d * n \in Nat
  BY <1>1
<1>5. q < d
  <2> SUFFICES ASSUME d <= q PROVE FALSE
    OBVIOUS
  <2>1. d * n <= q * n
    <3>1. CASE d = q
      BY <1>4, <3>1
    <3>2. CASE d < q
      BY <1>1, <1>4, <3>2, TimesGrows
    <3> QED
      BY <3>1, <3>2
  <2>2. PICK x, y \in Nat : x = d * n /\ y = q * n
    BY <1>4
  <2> QED
    BY <1>1, <1>2, <1>3, <2>1, <2>2
<1>6. (q + 1) * n = q * n + n /\ (q + 1) - 1 = q
  BY <1>1
<1>7. q + 1 \in Packets(img)
  <2>1. Packets(img) = 1 .. d
    BY <1>3, ImageIs DEF Packets, e, n, size
  <2> QED
    BY <1>5, <2>1
<1>8. a \in ((q + 1) - 1) * n .. (q + 1) * n - 1
  <2>1. PICK y \in Nat : y = q * n
    BY <1>4
  <2>2. a \in y .. (y + n) - 1
    BY <1>1, <1>2, <2>1
  <2>3. ((q + 1) - 1) * n = y
    BY <1>6, <2>1, Zenon
  <2>4. (q + 1) * n = y + n
    BY <1>6, <2>1, Zenon
  <2> QED
    BY <2>2, <2>3, <2>4, Zenon
<1> QED
  BY <1>1, <1>7, <1>8 DEF Addresses, n, size

-----------------------------------------------------------------------------
(* What is accepted *)

\* Places of two characters each.
LEMMA Halves ==
    ASSUME NEW n \in Nat, NEW j \in 1 .. 2 * n
    PROVE  \E i \in 1 .. n : j = 2 * i - 1 \/ j = 2 * i
<1>1. PICK q, r \in Nat : r < 2 /\ j = q * 2 + r
  <2>1. j \in Nat /\ 2 \in Nat \ {0}
    OBVIOUS
  <2> QED
    BY <2>1, DivIs
<1>2. CASE r = 0
  <2>1. q \in 1 .. n /\ j = 2 * q
    BY <1>1, <1>2
  <2> QED
    BY <2>1
<1>3. CASE r = 1
  <2>1. q + 1 \in 1 .. n /\ j = 2 * (q + 1) - 1
    BY <1>1, <1>3
  <2> QED
    BY <2>1
<1> QED
  BY <1>1, <1>2, <1>3

\* Different PINs are stored differently.
LEMMA PinsDiffer ==
    ASSUME NEW p \in Seq(0 .. 9), NEW q \in Seq(0 .. 9), Len(p) = 2 * PIN_SIZE, Len(q) = 2 * PIN_SIZE,
           store_pin(p) = store_pin(q)
    PROVE  p = q
<1>1. PIN_SIZE \in Nat
  BY Sizes
<1>2. p \in [1 .. 2 * PIN_SIZE -> 0 .. 9] /\ q \in [1 .. 2 * PIN_SIZE -> 0 .. 9]
  BY LenProperties
<1>3. ASSUME NEW i \in 1 .. PIN_SIZE PROVE p[2 * i - 1] = q[2 * i - 1] /\ p[2 * i] = q[2 * i]
  <2>1. store_pin(p)[i] = PinByte(16 * p[2 * i - 1] + p[2 * i])
        /\ store_pin(q)[i] = PinByte(16 * q[2 * i - 1] + q[2 * i])
    BY DEF store_pin
  <2>2. 16 * p[2 * i - 1] + p[2 * i] = 16 * q[2 * i - 1] + q[2 * i]
    BY <2>1 DEF PinByte
  <2>3. 2 * i - 1 \in 1 .. 2 * PIN_SIZE /\ 2 * i \in 1 .. 2 * PIN_SIZE
    BY <1>1
  <2>4. PICK a, b, c, d \in 0 .. 9 :
           a = p[2 * i - 1] /\ b = p[2 * i] /\ c = q[2 * i - 1] /\ d = q[2 * i]
    BY <1>2, <2>3
  <2>5. 16 * a + b = 16 * c + d
    BY <2>2, <2>4
  <2>6. a = c /\ b = d
    BY <2>5
  <2> QED
    BY <2>4, <2>6
<1>4. \A j \in 1 .. 2 * PIN_SIZE : p[j] = q[j]
  BY <1>1, <1>3, Halves
<1> QED
  BY <1>2, <1>4

LEMMA SearchFinds ==
    ASSUME NEW img \in Images, Intact(img), NEW bytes
    PROVE  search_pin(bytes) <=> \E j \in DOMAIN img : store_pin(img[j]) = bytes
<1>1. num_pins = Len(img)
  BY IntactIsRead DEF IsRead
<1>2. Len(img) \in Nat /\ DOMAIN img = 1 .. Len(img)
  BY ImageIs
<1>3. ASSUME search_pin(bytes) PROVE \E j \in DOMAIN img : store_pin(img[j]) = bytes
  <2>1. PICK c \in 0 .. Len(img) - 1 : eeprom_read_block(PinOffset(c), PIN_SIZE) = bytes
    BY <1>1, <1>3 DEF search_pin
  <2>2. c + 1 \in DOMAIN img
    BY <1>2
  <2> QED
    BY <2>1, <2>2, PinsAreFound
<1>4. ASSUME NEW j \in DOMAIN img, store_pin(img[j]) = bytes PROVE search_pin(bytes)
  <2>1. j - 1 \in 0 .. Len(img) - 1 /\ (j - 1) + 1 = j
    BY <1>2
  <2>2. eeprom_read_block(PinOffset(j - 1), PIN_SIZE) = store_pin(img[(j - 1) + 1])
    BY <2>1, PinsAreFound
  <2> QED
    BY <1>1, <1>4, <2>1, <2>2 DEF search_pin
<1> QED
  BY <1>3, <1>4

\* The PINs of an image are found by their bytes, others are not.
LEMMA SearchTells ==
    ASSUME NEW img \in Images, Intact(img), NEW pin_ \in Seq(0 .. 9), Len(pin_) = 2 * PIN_SIZE
    PROVE  search_pin(store_pin(pin_)) <=> \E j \in DOMAIN img : img[j] = pin_
<1>1. \A j \in DOMAIN img : img[j] \in Seq(0 .. 9) /\ Len(img[j]) = 2 * PIN_SIZE
  BY ImageIs
<1>2. \A j \in DOMAIN img : store_pin(img[j]) = store_pin(pin_) <=> img[j] = pin_
  BY <1>1, PinsDiffer
<1> QED
  BY <1>2, SearchFinds

LEMMA StoreTells == ASSUME EepromInv PROVE AcceptedIfWhole
<1>1. AcceptedIsIntact
  <2> SUFFICES ASSUME verify_checksum
               PROVE  \E img \in Images :
                         /\ Intact(img)
                         /\ \A other \in Images : \A k \in DOMAIN other :
                               search_pin(store_pin(other[k])) <=> \E j \in DOMAIN img : img[j] = other[k]
    BY DEF AcceptedIsIntact
  <2>1. PICK img \in Images : Intact(img)
    BY AcceptedIsAnImage DEF EepromInv
  <2>2. ASSUME NEW other \in Images, NEW k \in DOMAIN other
        PROVE  search_pin(store_pin(other[k])) <=> \E j \in DOMAIN img : img[j] = other[k]
    <3>1. other[k] \in Seq(0 .. 9) /\ Len(other[k]) = 2 * PIN_SIZE
      BY ImageIs
    <3> QED
      BY <2>1, <3>1, SearchTells
  <2> QED
    BY <2>1, <2>2
<1>2. WrittenIsAccepted
  <2> SUFFICES ASSUME image # <<>>, unacked = {}, IsProtected(image) PROVE verify_checksum
    BY DEF WrittenIsAccepted
  <2>1. image \in Images
    BY DEF EepromInv
  <2>2. ASSUME NEW a \in 0 .. Size(image) - 1 PROVE At(a) = ImageBytes[image][a + 1]
    <3>1. PICK p \in Packets(image) : a \in Addresses(image, p)
      BY <2>1, PacketsCover
    <3> QED
      BY <3>1 DEF EepromInv, AcknowledgedIsThere
  <2>3. Intact(image)
    BY <2>2 DEF Intact
  <2> QED
    BY <2>1, <2>3, IntactIsAccepted
<1> QED
  BY <1>1, <1>2 DEF AcceptedIfWhole

\* Whatever packets come, are lost or repeated, and wherever the power fails: what the
\* pinpad accepts is one image as a whole, searched as such, and what was
\* acknowledged as a whole it accepts.
THEOREM StoreIsWhole == EepromSpec => []AcceptedIfWhole
BY EepromInvariant, StoreTells, PTL

\* The checksum that is broadcast, for any contents of the store.
LEMMA ChecksumTells == BroadcastTellsImage
<1> SUFFICES ASSUME NEW img \in Images
             PROVE  /\ calculate_eeprom_checksum = WholeCrc(ImageBody[img]) =>
                          eeprom_read_block(CRC32_SIZE, BodySize(Len(img))) = ImageBody[img]
                    /\ verify_checksum /\ Intact(img) /\ Len(img) <= MaxChecksummed =>
                          calculate_eeprom_checksum = WholeCrc(ImageBody[img])
  BY DEF BroadcastTellsImage
<1>1. ASSUME calculate_eeprom_checksum = WholeCrc(ImageBody[img])
      PROVE  eeprom_read_block(CRC32_SIZE, BodySize(Len(img))) = ImageBody[img]
  <2> DEFINE told == IF num_pins = 0 \/ num_pins > MaxChecksummed THEN <<NumByte(0)>>
                     ELSE eeprom_read_block(CRC32_SIZE, BodySize(num_pins))
  <2>1. calculate_eeprom_checksum = WholeCrc(told)
    BY DEF calculate_eeprom_checksum, whole_crc
  <2> HIDE DEF told
  <2>2. PICK x : Names(x, told)
    BY WholeCrcNames
  <2>3. PICK y : Names(y, ImageBody[img])
    BY WholeCrcNames
  <2>4. x = y
    BY <1>1, <2>1, <2>2, <2>3, CrcTells DEF Names
  <2>5. x \in Images /\ told = ImageBody[img]
    BY <2>2, <2>3, <2>4 DEF Names
  <2>6. told[1] # NumByte(0)
    <3>1. ImageBody[img][1] = NumByte(Len(img)) /\ Len(img) # 0
      BY BodyIs, ImageIs
    <3> QED
      BY <2>5, <3>1 DEF NumByte
  <2>7. told = eeprom_read_block(CRC32_SIZE, BodySize(num_pins))
    <3>1. told = <<NumByte(0)>> => told[1] = NumByte(0)
      OBVIOUS
    <3> QED
      BY <2>6, <3>1 DEF told
  <2>8. 1 .. BodySize(num_pins) = 1 .. BodySize(Len(img))
    <3>1. DOMAIN told = 1 .. BodySize(num_pins)
      BY <2>7 DEF eeprom_read_block
    <3>2. DOMAIN ImageBody[img] = 1 .. BodySize(Len(img))
      <4>1. IsList(ImageBody[img], BodySize(Len(img)))
        BY BodyIs
      <4> QED
        BY <4>1 DEF IsList
    <3> QED
      BY <2>5, <3>1, <3>2, Zenon
  <2>9. eeprom_read_block(CRC32_SIZE, BodySize(num_pins)) = eeprom_read_block(CRC32_SIZE, BodySize(Len(img)))
    BY <2>8, Zenon DEF eeprom_read_block
  <2> QED
    BY <2>5, <2>7, <2>9
<1>2. ASSUME Intact(img), Len(img) <= MaxChecksummed
      PROVE  calculate_eeprom_checksum = WholeCrc(ImageBody[img])
  <2>1. num_pins = Len(img) /\ whole_crc = WholeCrc(ImageBody[img])
    BY <1>2, IntactIsRead DEF IsRead, whole_crc
  <2>2. PICK n \in Nat \ {0} : n = Len(img)
    BY ImageIs
  <2>3. num_pins = n /\ n <= MaxChecksummed /\ MaxChecksummed \in Nat
    BY <1>2, <2>1, <2>2, EepromAssumption
  <2>4. ~(num_pins = 0 \/ num_pins > MaxChecksummed)
    BY <2>2, <2>3
  <2> QED
    BY <2>1, <2>4 DEF calculate_eeprom_checksum
<1> QED
  BY <1>1, <1>2

\* What the pinpad tells the world about its store is true, whatever was written
\* and wherever the power failed.
THEOREM BroadcastTells == EepromSpec => []BroadcastTellsImage
BY ChecksumTells, PTL

-----------------------------------------------------------------------------
(* The door *)

\* What can be in pin before a '#'.
Typed == Digits \cup {Star}

\* pin holds the keys, as many as it has room for.
EntryInv ==
    /\ keys \in Seq(Typed) /\ pin \in Seq(Typed)
    /\ Len(keys) <= PinChars + 1 /\ Len(pin) <= PinChars
    /\ IF Len(keys) <= PinChars THEN pin = keys ELSE Len(pin) = PinChars

LEMMA EntrySizes ==
    /\ PIN_SIZE \in Nat \ {0} /\ PinChars \in Nat /\ PinLength \in Nat /\ PinLength < PinChars
    /\ PinLength = 2 * PIN_SIZE
    /\ Typed \subseteq 0 .. 10 /\ Hash \notin Typed
BY EepromAssumption, EntryAssumption DEF Typed, Star, Hash, PinLength

\* Without a '#', what is in pin is no PIN and no code.
LEMMA NoHashNoPulse ==
    ASSUME NEW p \in Seq(Typed)
    PROVE  ~IsAttempt(p) /\ ~Found(p) /\ Pulse(p, Found(p)) = "none"
<1>1. PICK n \in Nat : n = Len(p)
  OBVIOUS
<1>2. p \in [1 .. n -> Typed]
  BY <1>1, LenProperties
<1>3. ~IsAttempt(p) /\ ~Found(p)
  <2> SUFFICES ASSUME IsAttempt(p) PROVE FALSE
    BY DEF Found
  <2>1. n = PinLength + 1 /\ p[PinLength + 1] = Hash
    BY <1>1 DEF IsAttempt
  <2>2. PinLength + 1 \in 1 .. n
    BY <2>1, EntrySizes
  <2> QED
    BY <1>2, <2>1, <2>2, EntrySizes
<1>4. ASSUME NEW code \in Seq(0 .. 9) PROVE p # Append(code, Hash)
  <2> SUFFICES ASSUME p = Append(code, Hash) PROVE FALSE
    OBVIOUS
  <2>1. PICK m \in Nat : m = Len(code)
    OBVIOUS
  <2>2. n = m + 1 /\ p[m + 1] = Hash
    BY <1>1, <2>1
  <2>3. m + 1 \in 1 .. n
    BY <2>2
  <2> QED
    BY <1>2, <2>2, <2>3, EntrySizes
<1>5. ~IsFallback(p) /\ ~IsLock(p) /\ ~IsReset(p)
  BY <1>4, EntryAssumption DEF IsFallback, IsLock, IsReset
<1> QED
  BY <1>3, <1>5 DEF Pulse

\* The codes are told apart with the '#' behind them.
LEMMA SameWithHash ==
    ASSUME NEW code \in Seq(0 .. 9), NEW k \in Seq(Typed)
    PROVE  Append(k, Hash) = Append(code, Hash) <=> k = code
<1> DEFINE T == Typed \cup (0 .. 9) \cup {Hash}
<1>1. k \in Seq(T) /\ code \in Seq(T) /\ Hash \in T
  OBVIOUS
<1> HIDE DEF T
<1> SUFFICES ASSUME Append(k, Hash) = Append(code, Hash) PROVE k = code
  OBVIOUS
<1>2. PICK m, n \in Nat : m = Len(k) /\ n = Len(code)
  OBVIOUS
<1>3. Len(Append(k, Hash)) = m + 1 /\ Len(Append(code, Hash)) = n + 1
  BY <1>1, <1>2
<1>4. m = n
  BY <1>3
<1>5. k \in [1 .. m -> T] /\ code \in [1 .. m -> T]
  BY <1>1, <1>2, <1>4, LenProperties
<1>6. \A i \in 1 .. m : k[i] = Append(k, Hash)[i] /\ code[i] = Append(code, Hash)[i]
  BY <1>1, <1>2, <1>4
<1>7. \A i \in 1 .. m : k[i] = code[i]
  BY <1>6
<1> QED
  BY <1>5, <1>7

\* Two characters in a byte: a '*' never looks like two digits.
SamePair(a, b, c, d) == Packed(a, b) = 16 * c + d <=> a = c /\ b = d

LEMMA PackedTells ==
    ASSUME NEW a \in Typed, NEW b \in Typed, NEW c \in 0 .. 9, NEW d \in 0 .. 9
    PROVE  SamePair(a, b, c, d)
<1>1. a \in 0 .. 10 /\ b \in 0 .. 10
  BY EntrySizes
<1>2. CASE b = Star
  BY <1>1, <1>2 DEF Packed, Star, SamePair
<1>3. CASE b # Star /\ a = Star
  BY <1>1, <1>3 DEF Packed, Star, SamePair
<1>4. CASE b # Star /\ a # Star
  <2>1. Packed(a, b) = 16 * a + b /\ a \in 0 .. 9 /\ b \in 0 .. 9
    BY <1>1, <1>4 DEF Packed, Star, SamePair
  <2> QED
    BY <2>1 DEF SamePair
<1> QED
  BY <1>2, <1>3, <1>4

\* Six keys are encoded to the bytes of a PIN only if they are its digits.
LEMMA EncodedTells ==
    ASSUME NEW k \in Seq(Typed), Len(k) = PinLength, NEW q \in Seq(0 .. 9), Len(q) = PinLength
    PROVE  Encoded(Append(k, Hash)) = store_pin(q) <=> k = q
<1>1. PIN_SIZE \in Nat /\ PinLength = 2 * PIN_SIZE
  BY EntrySizes
<1>2. k \in [1 .. 2 * PIN_SIZE -> Typed] /\ q \in [1 .. 2 * PIN_SIZE -> 0 .. 9]
  BY <1>1, LenProperties
<1>3. \A i \in 1 .. 2 * PIN_SIZE : Append(k, Hash)[i] = k[i]
  BY <1>1
<1>4. ASSUME NEW i \in 1 .. PIN_SIZE
      PROVE  /\ 2 * i - 1 \in 1 .. 2 * PIN_SIZE /\ 2 * i \in 1 .. 2 * PIN_SIZE
             /\ Encoded(Append(k, Hash))[i] = store_pin(q)[i]
                  <=> k[2 * i - 1] = q[2 * i - 1] /\ k[2 * i] = q[2 * i]
  <2>1. 2 * i - 1 \in 1 .. 2 * PIN_SIZE /\ 2 * i \in 1 .. 2 * PIN_SIZE
    BY <1>1
  <2>2. /\ Encoded(Append(k, Hash))[i] = PinByte(Packed(k[2 * i - 1], k[2 * i]))
        /\ store_pin(q)[i] = PinByte(16 * q[2 * i - 1] + q[2 * i])
    BY <1>3, <2>1 DEF Encoded, store_pin
  <2>3. /\ k[2 * i - 1] \in Typed /\ k[2 * i] \in Typed
        /\ q[2 * i - 1] \in 0 .. 9 /\ q[2 * i] \in 0 .. 9
    BY <1>2, <2>1
  <2>4. Packed(k[2 * i - 1], k[2 * i]) = 16 * q[2 * i - 1] + q[2 * i]
           <=> k[2 * i - 1] = q[2 * i - 1] /\ k[2 * i] = q[2 * i]
    <3>1. SamePair(k[2 * i - 1], k[2 * i], q[2 * i - 1], q[2 * i])
      BY <2>3, PackedTells, Zenon
    <3> QED
      BY <3>1 DEF SamePair
  <2> QED
    BY <2>1, <2>2, <2>4 DEF PinByte
<1>5. ASSUME Encoded(Append(k, Hash)) = store_pin(q) PROVE k = q
  <2>1. \A i \in 1 .. PIN_SIZE : k[2 * i - 1] = q[2 * i - 1] /\ k[2 * i] = q[2 * i]
    BY <1>4, <1>5
  <2>2. \A j \in 1 .. 2 * PIN_SIZE : k[j] = q[j]
    BY <1>1, <2>1, Halves
  <2>3. /\ k = [j \in 1 .. 2 * PIN_SIZE |-> k[j]]
        /\ q = [j \in 1 .. 2 * PIN_SIZE |-> q[j]]
    BY <1>2
  <2>4. [j \in 1 .. 2 * PIN_SIZE |-> k[j]] = [j \in 1 .. 2 * PIN_SIZE |-> q[j]]
    BY <2>2
  <2> QED
    BY <2>3, <2>4, Zenon
<1>6. ASSUME k = q PROVE Encoded(Append(k, Hash)) = store_pin(q)
  <2>1. \A i \in 1 .. PIN_SIZE : Encoded(Append(k, Hash))[i] = store_pin(q)[i]
    BY <1>4, <1>6
  <2> QED
    BY <2>1 DEF Encoded, store_pin
<1> QED
  BY <1>5, <1>6

\* The keys are a PIN of the image that is stored, and not only in part.
IsPin == \E img \in Images : Intact(img) /\ IsProtected(img) /\ \E k \in DOMAIN img : img[k] = keys

LEMMA FoundIsPin ==
    ASSUME EepromInv, EntryInv
    PROVE  Found(Append(keys, Hash)) <=> IsPin
<1> DEFINE p == Append(keys, Hash)
<1>1. keys \in Seq(Typed) /\ PinLength \in Nat /\ PinLength = 2 * PIN_SIZE
  BY EntrySizes DEF EntryInv
<1>2. PICK n \in Nat : n = Len(keys)
  BY <1>1
<1>3. IsAttempt(p) <=> Len(keys) = PinLength
  <2>1. p[n + 1] = Hash
    BY <1>1, <1>2
  <2>2. Len(p) = n + 1
    BY <1>1, <1>2
  <2> HIDE DEF p
  <2> QED
    BY <1>1, <1>2, <2>1, <2>2 DEF IsAttempt
<1> HIDE DEF p
<1>4. ASSUME NEW img \in Images, NEW j \in DOMAIN img, Len(keys) = PinLength
      PROVE  store_pin(img[j]) = Encoded(p) <=> img[j] = keys
  <2>1. img[j] \in Seq(0 .. 9) /\ Len(img[j]) = PinLength
    BY <1>1, ImageIs
  <2> QED
    BY <1>1, <1>4, <2>1, EncodedTells DEF p
<1>5. ASSUME Found(p) PROVE IsPin
  <2>1. IsAttempt(p) /\ verify_checksum /\ search_pin(Encoded(p))
    BY <1>5 DEF Found
  <2>2. PICK img \in Images : Intact(img) /\ IsProtected(img)
    BY <2>1, AcceptedIsAnImage DEF EepromInv
  <2>3. PICK j \in DOMAIN img : store_pin(img[j]) = Encoded(p)
    BY <2>1, <2>2, SearchFinds
  <2> QED
    BY <1>3, <1>4, <2>1, <2>2, <2>3 DEF IsPin
<1>6. ASSUME IsPin PROVE Found(p)
  <2>1. PICK img \in Images : Intact(img) /\ IsProtected(img) /\ \E k \in DOMAIN img : img[k] = keys
    BY <1>6 DEF IsPin
  <2>2. PICK j \in DOMAIN img : img[j] = keys
    BY <2>1
  <2>3. Len(keys) = PinLength
    BY <1>1, <2>2, ImageIs
  <2>4. verify_checksum
    BY <2>1, IntactIsAccepted
  <2>5. search_pin(Encoded(p))
    BY <1>4, <2>1, <2>2, <2>3, SearchFinds
  <2> QED
    BY <1>3, <2>3, <2>4, <2>5 DEF Found
<1> QED
  BY <1>5, <1>6 DEF p

\* With a '#', pin is taken for what was typed.
LEMMA HashIsMeaning ==
    ASSUME EepromInv, EntryInv
    PROVE  Pulse(Stored(Hash), Found(Stored(Hash))) = Meaning
<1> DEFINE p == Stored(Hash)
<1>1. /\ keys \in Seq(Typed) /\ pin \in Seq(Typed)
      /\ PinLength \in Nat /\ PinChars \in Nat /\ PinLength < PinChars /\ PinLength = 2 * PIN_SIZE
  BY EntrySizes DEF EntryInv
<1>2. PICK n \in Nat : n = Len(keys)
  BY <1>1
<1>3. Meaning = IF IsPin THEN "unlock"
                ELSE CASE keys = LockCode -> "lock" [] keys = ResetCode -> "reset" [] OTHER -> "none"
  BY DEF Meaning, IsPin
<1>4. CASE n < PinChars
  <2>1. p = Append(keys, Hash)
    BY <1>1, <1>2, <1>4 DEF EntryInv, Stored
  <2>2. Found(p) <=> IsPin
    BY <2>1, FoundIsPin
  <2>3. /\ IsLock(p) <=> keys = LockCode
        /\ IsReset(p) <=> keys = ResetCode
    BY <1>1, <2>1, SameWithHash, EntryAssumption DEF IsLock, IsReset
  <2>4. ~IsFallback(p)
    <3> SUFFICES ASSUME IsFallback(p) PROVE FALSE
      OBVIOUS
    <3>1. Len(p) = PinLength + 1 /\ keys = FallbackCode
      BY <1>1, <2>1, SameWithHash, EntryAssumption DEF IsFallback
    <3>2. Len(p) = n + 1
      BY <1>1, <1>2, <2>1
    <3>3. n = PinLength
      BY <1>1, <3>1, <3>2
    <3> QED
      BY <1>1, <1>2, <3>1, <3>3, EntryAssumption
  <2> HIDE DEF p
  <2>5. LockCode # ResetCode
    BY EntryAssumption
  <2> QED
    BY <1>3, <2>2, <2>3, <2>4, <2>5 DEF Pulse, p
<1>5. CASE n >= PinChars
  <2>1. Len(pin) = PinChars
    BY <1>1, <1>2, <1>5 DEF EntryInv
  <2>2. p = pin
    BY <1>1, <2>1 DEF Stored
  <2>3. Pulse(p, Found(p)) = "none"
    BY <1>1, <2>2, NoHashNoPulse
  <2>4. ~IsPin
    <3> SUFFICES ASSUME NEW img \in Images, NEW k \in DOMAIN img, img[k] = keys PROVE FALSE
      BY DEF IsPin
    <3>1. Len(keys) = PinLength
      BY <1>1, ImageIs
    <3> QED
      BY <1>1, <1>2, <1>5, <3>1
  <2>5. keys # LockCode /\ keys # ResetCode
    <3>1. PICK l, r \in Nat : l = Len(LockCode) /\ r = Len(ResetCode) /\ l < PinChars /\ r < PinChars
      BY EntryAssumption
    <3> QED
      BY <1>1, <1>2, <1>5, <3>1
  <2> QED
    BY <1>3, <2>3, <2>4, <2>5
<1> QED
  BY <1>1, <1>2, <1>4, <1>5

\* EntryInv with the invariant of the store.
LEMMA KeyKeeps ==
    ASSUME EntryInv, NEW c \in KeyPad, handle_command(c)
    PROVE  EntryInv' /\ (c # Hash => pulse' = "none")
<1> DEFINE p == Stored(c)
<1>1. /\ keys \in Seq(Typed) /\ pin \in Seq(Typed) /\ PinChars \in Nat /\ PinChars > 0
  BY EntrySizes DEF EntryInv
<1>2. PICK n, m \in Nat : n = Len(keys) /\ m = Len(pin)
  BY <1>1
<1>3. /\ n <= PinChars + 1 /\ m <= PinChars
      /\ IF n <= PinChars THEN pin = keys ELSE m = PinChars
  BY <1>2 DEF EntryInv
<1>4. /\ pulse' = Pulse(p, Found(p))
      /\ pin' = IF Cleared(c, Pulse(p, Found(p))) THEN <<>> ELSE p
      /\ keys' = IF c = Hash THEN <<>> ELSE IF n <= PinChars THEN Append(keys, c) ELSE keys
  BY <1>2 DEF handle_command
<1>5. CASE c = Hash
  <2>1. keys' = <<>> /\ pin' = <<>>
    BY <1>4, <1>5 DEF Cleared
  <2> QED
    BY <1>1, <1>5, <2>1 DEF EntryInv
<1>6. CASE c # Hash
  <2>1. c \in Typed
    BY <1>6 DEF KeyPad, Typed
  <2>2. p = IF m < PinChars THEN Append(pin, c) ELSE pin
    BY <1>2 DEF Stored
  <2>3. p \in Seq(Typed)
    BY <1>1, <2>1, <2>2
  <2>4. Pulse(p, Found(p)) = "none"
    BY <2>3, NoHashNoPulse
  <2> HIDE DEF p
  <2>5. pin' = p /\ pulse' = "none" /\ keys' = IF n <= PinChars THEN Append(keys, c) ELSE keys
    BY <1>4, <1>6, <2>4 DEF Cleared
  <2>6. CASE n < PinChars
    <3>1. pin' = Append(keys, c) /\ keys' = Append(keys, c)
      BY <1>2, <1>3, <2>2, <2>5, <2>6
    <3>2. Append(keys, c) \in Seq(Typed) /\ Len(Append(keys, c)) = n + 1
      BY <1>1, <1>2, <2>1
    <3>3. keys' \in Seq(Typed) /\ pin' = keys' /\ Len(keys') = n + 1
      BY <3>1, <3>2
    <3> QED
      BY <1>1, <2>5, <2>6, <3>3 DEF EntryInv
  <2>7. CASE n = PinChars
    <3>1. pin' = pin /\ m = PinChars /\ keys' = Append(keys, c)
      <4>1. n <= PinChars
        BY <1>1, <2>7
      <4>2. m = n
        BY <1>2, <1>3, <4>1, Zenon
      <4> QED
        BY <1>1, <2>2, <2>5, <2>7, <4>1, <4>2
    <3>2. Append(keys, c) \in Seq(Typed) /\ Len(Append(keys, c)) = n + 1
      BY <1>1, <1>2, <2>1
    <3>3. keys' \in Seq(Typed) /\ pin' \in Seq(Typed) /\ Len(keys') = PinChars + 1 /\ Len(pin') = PinChars
      BY <1>1, <1>2, <2>7, <3>1, <3>2
    <3> QED
      BY <1>1, <2>5, <3>3 DEF EntryInv
  <2>8. CASE n > PinChars
    <3>1. pin' = pin /\ keys' = keys
      BY <1>1, <1>2, <1>3, <2>2, <2>5, <2>8
    <3> QED
      BY <2>5, <3>1 DEF EntryInv
  <2> QED
    BY <1>1, <1>2, <2>6, <2>7, <2>8
<1> QED
  BY <1>5, <1>6

\* The store under the keypad is the one of EepromSpec.
THEOREM StoreUnderEntry == EntrySpec => EepromSpec
<1>1. [EntryNext]_entryVars => [EepromNext]_eepromVars
  BY DEF EntryNext, handle_command, StoreChanges, Restarted, entryVars
<1> QED
  BY <1>1, PTL DEF EntrySpec, EepromSpec, EntryInit

\* EntryInv holds in every state.
THEOREM EntryInvariant == EntrySpec => []EntryInv
<1>0. <<>> \in Seq(Typed) /\ PinChars \in Nat
  BY EntrySizes
<1>1. EntryInit => EntryInv
  BY <1>0 DEF EntryInit, EntryInv
<1>2. EntryInv /\ [EntryNext]_entryVars => EntryInv'
  <2> SUFFICES ASSUME EntryInv, [EntryNext]_entryVars PROVE EntryInv'
    OBVIOUS
  <2>1. CASE pin' = <<>> /\ keys' = <<>>
    BY <1>0, <2>1 DEF EntryInv
  <2>2. CASE UNCHANGED <<pin, keys>>
    BY <2>2 DEF EntryInv
  <2>3. ASSUME NEW c \in KeyPad, handle_command(c) PROVE EntryInv'
    BY <2>3, KeyKeeps
  <2> QED
    BY <2>1, <2>2, <2>3 DEF EntryNext, StoreChanges, Restarted, entryVars
<1> QED
  BY <1>1, <1>2, PTL DEF EntrySpec

\* The door obeys the keys since the last '#' and nothing else, for any PINs, codes
\* and block sizes, and whatever is written to the store between two keys.
THEOREM DoorIsObedient == EntrySpec => DoorObeysKeys
<1>1. EepromInv /\ EntryInv =>
         [\A c \in KeyPad : handle_command(c) => pulse' = IF c = Hash THEN Meaning ELSE "none"]_entryVars
  <2> SUFFICES ASSUME EepromInv, EntryInv, NEW c \in KeyPad, handle_command(c)
               PROVE  pulse' = IF c = Hash THEN Meaning ELSE "none"
    OBVIOUS
  <2>1. pulse' = Pulse(Stored(c), Found(Stored(c)))
    BY DEF handle_command
  <2>2. CASE c = Hash
    BY <2>1, <2>2, HashIsMeaning
  <2>3. CASE c # Hash
    BY <2>3, KeyKeeps
  <2> QED
    BY <2>2, <2>3
<1> QED
  BY <1>1, EntryInvariant, StoreUnderEntry, EepromInvariant, PTL DEF DoorObeysKeys

=============================================================================
