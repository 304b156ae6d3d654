------------------------------- MODULE Eeprom -------------------------------
(***************************************************************************)
(* The PIN store in the pinpad's EEPROM (firmware-pinpad/main.c; the       *)
(* layout is written down in poc-pinstore/verifypin.c): a checksum of the  *)
(* whole, the number of PINs, then blocks of PINs, each with a checksum of *)
(* its own.  It is written over the bus, a few bytes per packet.           *)
(*                                                                         *)
(* A byte is a tagged value.  The bytes of a CRC name the block or the     *)
(* image it was computed from: two contents never share a checksum.        *)
(***************************************************************************)
EXTENDS Integers, Sequences

CONSTANTS
    CRC32_SIZE, PIN_SIZE, PINS_PER_BLOCK,   \* 4, 3 and 6 in the code
    MaxChecksummed,  \* 170: more PINs are announced as an empty store
    Images,          \* the PIN lists somebody writes; a PIN is a sequence of digits
    PacketBytes,     \* bytes an 'E' packet carries
    TrivialBlocks,   \* the block contents whose CRC is 0 or 0xFFFFFFFF
    MaxImages,       \* bound on the images begun
    MaxLosses        \* bound on the power losses

NUM_SIZE == 1
BLOCK_SIZE == PINS_PER_BLOCK * PIN_SIZE + CRC32_SIZE

ASSUME EepromAssumption ==
    /\ {CRC32_SIZE, PIN_SIZE, PINS_PER_BLOCK, PacketBytes} \subseteq Nat \ {0}
    /\ {MaxChecksummed, MaxImages, MaxLosses} \subseteq Nat
    /\ \A img \in Images :
          /\ img \in Seq(Seq(0 .. 9)) /\ Len(img) \in 1 .. 180
          /\ \A k \in DOMAIN img : Len(img[k]) = 2 * PIN_SIZE

VARIABLES
    eeprom,    \* address -> byte
    image,     \* the image being written
    unacked,   \* the packets of it that were not acknowledged yet
    begun, losses

eepromVars == <<eeprom, image, unacked, begun, losses>>

Erased == <<"erased">>
PinByte(v) == <<"pin", v>>
NumByte(n) == <<"num", n>>
CrcBytes(of) == [i \in 1 .. CRC32_SIZE |-> <<"crc", i, of>>]

-----------------------------------------------------------------------------
(* The layout.  Bytes are in sequences; the first one is at address 0. *)

Blocks(n) == (n + PINS_PER_BLOCK - 1) \div PINS_PER_BLOCK

\* encode_pin, store_pin: two digits a byte.
store_pin(p) == [i \in 1 .. PIN_SIZE |-> PinByte(16 * p[2 * i - 1] + p[2 * i])]

\* PIN n of an image; the last block is filled up with zeroes.
PinOf(img, n) ==
    IF n <= Len(img) THEN store_pin(img[n]) ELSE [i \in 1 .. PIN_SIZE |-> PinByte(0)]

\* The PINs of block b, one behind the other.
PinsOfBlock(img, b) ==
    [i \in 1 .. PINS_PER_BLOCK * PIN_SIZE |->
        PinOf(img, b * PINS_PER_BLOCK + (i - 1) \div PIN_SIZE + 1)[((i - 1) % PIN_SIZE) + 1]]

BlockBytes(img, b) == PinsOfBlock(img, b) \o CrcBytes(PinsOfBlock(img, b))

ImageBody ==
    [img \in Images |-> <<NumByte(Len(img))>> \o
        [i \in 1 .. Blocks(Len(img)) * BLOCK_SIZE |->
            BlockBytes(img, (i - 1) \div BLOCK_SIZE)[((i - 1) % BLOCK_SIZE) + 1]]]

\* The checksum of everything behind it; <<>> stands for what is no image.
WholeCrc(body) ==
    CrcBytes(IF \E img \in Images : ImageBody[img] = body
             THEN CHOOSE img \in Images : ImageBody[img] = body ELSE <<>>)

ImageBytes == [img \in Images |-> WholeCrc(ImageBody[img]) \o ImageBody[img]]

BodySize(n) == NUM_SIZE + Blocks(n) * BLOCK_SIZE
Size(img) == CRC32_SIZE + BodySize(Len(img))

-----------------------------------------------------------------------------
(* Reading *)

At(a) == IF a \in DOMAIN eeprom THEN eeprom[a] ELSE Erased

eeprom_read_block(a, n) == [i \in 1 .. n |-> At(a + i - 1)]

num_pins == IF At(CRC32_SIZE)[1] = "num" THEN At(CRC32_SIZE)[2] ELSE 255

BlockOffset(count) == CRC32_SIZE + NUM_SIZE + count * BLOCK_SIZE

whole_crc == WholeCrc(eeprom_read_block(CRC32_SIZE, BodySize(num_pins)))

\* (mutant) the largest number of PINs is taken for too many.
calculate_eeprom_checksum_bound ==
    IF num_pins = 0 \/ num_pins >= MaxChecksummed THEN WholeCrc(<<NumByte(0)>>) ELSE whole_crc

\* calculate_eeprom_checksum: what the pinpad tells the world with its state.
calculate_eeprom_checksum ==
    IF num_pins = 0 \/ num_pins > MaxChecksummed THEN WholeCrc(<<NumByte(0)>>) ELSE whole_crc

BlockPins(count) == eeprom_read_block(BlockOffset(count), BLOCK_SIZE - CRC32_SIZE)

BlockCrcFits(count) ==
    eeprom_read_block(BlockOffset(count) + BLOCK_SIZE - CRC32_SIZE, CRC32_SIZE)
        = CrcBytes(BlockPins(count))

Trivial(count) == BlockPins(count) \in TrivialBlocks

\* (mutant) the blocks are checked one by one only.
verify_checksum_blocks ==
    /\ num_pins # 0
    /\ \A count \in 0 .. Blocks(num_pins) - 1 : BlockCrcFits(count)
    /\ \E count \in 0 .. Blocks(num_pins) - 1 : ~Trivial(count)

\* (mutant) every block needs a checksum that is not trivial.
verify_checksum_all ==
    /\ num_pins # 0
    /\ \A count \in 0 .. Blocks(num_pins) - 1 : BlockCrcFits(count) /\ ~Trivial(count)
    /\ eeprom_read_block(0, CRC32_SIZE) = whole_crc

verify_checksum ==
    /\ num_pins # 0
    /\ \A count \in 0 .. Blocks(num_pins) - 1 : BlockCrcFits(count)
    /\ eeprom_read_block(0, CRC32_SIZE) = whole_crc
    /\ \E count \in 0 .. Blocks(num_pins) - 1 : ~Trivial(count)

PinOffset(count) ==
    CRC32_SIZE + NUM_SIZE + count * PIN_SIZE + (count \div PINS_PER_BLOCK) * CRC32_SIZE

\* search_pin, for the bytes the typed PIN is encoded to.
search_pin(bytes) ==
    \E count \in 0 .. num_pins - 1 : eeprom_read_block(PinOffset(count), PIN_SIZE) = bytes

-----------------------------------------------------------------------------
(* Writing *)

EepromInit ==
    /\ eeprom = [a \in {} |-> Erased]
    /\ image = <<>> /\ unacked = {}
    /\ begun = 0 /\ losses = 0

Packets(img) ==
    IF img = <<>> THEN {} ELSE 1 .. (Size(img) + PacketBytes - 1) \div PacketBytes
Addresses(img, p) == {a \in (p - 1) * PacketBytes .. p * PacketBytes - 1 : a < Size(img)}

\* Somebody starts to write an image, whether the last one was complete or not.
BeginImage(img) ==
    /\ begun < MaxImages /\ begun' = begun + 1
    /\ image' = img
    /\ unacked' = Packets(img)
    /\ UNCHANGED <<eeprom, losses>>

\* The store behind eeprom_update_block for the addresses in `as'.
Updated(as) ==
    [a \in DOMAIN eeprom \cup as |-> IF a \in as THEN ImageBytes[image][a + 1] ELSE eeprom[a]]

\* The 'E' branch of main, for a packet whose own CRC fits (one whose CRC does
\* not fit changes nothing).  Packets come in any order, and again when their
\* "EEP ACK" is lost.
WriteCommand(p) ==
    /\ p \in Packets(image)
    /\ eeprom' = Updated(Addresses(image, p))
    /\ unacked' \in {unacked, unacked \ {p}}
    /\ UNCHANGED <<image, begun, losses>>

\* The pinpad loses power while it writes: the bytes in front of a place, or
\* those behind it, are written.
CutShort(p) ==
    /\ losses < MaxLosses /\ losses' = losses + 1
    /\ p \in Packets(image)
    /\ \E place \in Addresses(image, p) :
           \/ eeprom' = Updated({a \in Addresses(image, p) : a < place})
           \/ eeprom' = Updated({a \in Addresses(image, p) : a > place})
    /\ UNCHANGED <<image, unacked, begun>>

EepromNext ==
    \/ \E img \in Images : BeginImage(img)
    \/ \E p \in Packets(image) : WriteCommand(p) \/ CutShort(p)

EepromSpec == EepromInit /\ [][EepromNext]_eepromVars

-----------------------------------------------------------------------------
(* Properties *)

\* The store holds exactly this image.
Intact(img) == \A a \in 0 .. Size(img) - 1 : At(a) = ImageBytes[img][a + 1]

\* An accepted store is one of the images as a whole, and is searched as such: no
\* mixture of two images, no image that was cut off, no byte of a checksum or
\* of an unused place taken for a PIN.
AcceptedIsIntact ==
    verify_checksum =>
        \E img \in Images :
            /\ Intact(img)
            /\ \A other \in Images : \A k \in DOMAIN other :
                   search_pin(store_pin(other[k])) <=> \E j \in DOMAIN img : img[j] = other[k]

\* Not all of an image's blocks have a CRC of 0 or 0xFFFFFFFF.
IsProtected(img) == \E b \in 0 .. Blocks(Len(img)) - 1 : PinsOfBlock(img, b) \notin TrivialBlocks

\* An image whose packets were all acknowledged is accepted.
WrittenIsAccepted == image # <<>> /\ unacked = {} /\ IsProtected(image) => verify_checksum

\* Both: a store is accepted when, and only when, one image is there as a whole.
AcceptedIfWhole == AcceptedIsIntact /\ WrittenIsAccepted

\* The broadcast checksum tells which image is stored: it is an image's only if
\* number and blocks are that image's, and an accepted image of up to
\* MaxChecksummed PINs is always told.
BroadcastTellsImage ==
    \A img \in Images :
        /\ calculate_eeprom_checksum = WholeCrc(ImageBody[img]) =>
               eeprom_read_block(CRC32_SIZE, BodySize(Len(img))) = ImageBody[img]
        /\ verify_checksum /\ Intact(img) /\ Len(img) <= MaxChecksummed =>
               calculate_eeprom_checksum = WholeCrc(ImageBody[img])

=============================================================================
