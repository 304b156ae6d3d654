------------------------------ MODULE PinEntry ------------------------------
(***************************************************************************)
(* The PIN entry of the pinpad: handle_command of firmware-pinpad/main.c,  *)
(* on the PIN store of Eeprom, which is written while people type.         *)
(***************************************************************************)
EXTENDS Eeprom

CONSTANTS
    Digits,      \* the digits people type
    PinChars,    \* the room in pin (10)
    FallbackCode, LockCode, ResetCode   \* "777", "666" and "0000"

ASSUME EntryAssumption ==
    /\ Digits \subseteq 0 .. 9
    /\ PinChars \in Nat /\ PinChars > 2 * PIN_SIZE
    /\ {FallbackCode, LockCode, ResetCode} \subseteq Seq(0 .. 9) /\ LockCode # ResetCode
    /\ Len(FallbackCode) # 2 * PIN_SIZE /\ Len(LockCode) < PinChars /\ Len(ResetCode) < PinChars

VARIABLES
    pin,      \* pin[0 .. pincnt - 1]; everything behind is zero
    pulse,    \* the command the last step gave to the lock, or "none"
    said,     \* the messages the last step handed to senddata
    keys     \* history: the keys since the last '#' or restart; those that
              \* are too many for pin all look the same

entryVars == <<eepromVars, pin, pulse, said, keys>>

Star == 10    \* '*'
Hash == 11    \* '#'
KeyPad == Digits \cup {Star, Hash}

PinLength == 2 * PIN_SIZE

EntryInit ==
    /\ EepromInit
    /\ pin = <<>> /\ pulse = "none" /\ said = <<>> /\ keys = <<>>

\* search_pin packs two characters into a byte.  '*' is six below '0': its
\* sign fills the upper half of the byte.
Packed(a, b) == IF b = Star THEN 250 ELSE IF a = Star THEN 160 + b ELSE 16 * a + b
Encoded(p) == [i \in 1 .. PIN_SIZE |-> PinByte(Packed(p[2 * i - 1], p[2 * i]))]

\* (mutant) the keys behind a full pin are stored over its last place.
Stored_overwrites(c) ==
    IF Len(pin) < PinChars THEN Append(pin, c) ELSE [pin EXCEPT ![PinChars] = c]

Stored(c) == IF Len(pin) < PinChars THEN Append(pin, c) ELSE pin

\* A '#' behind six keys: is it a PIN?
IsAttempt(p) == Len(p) = PinLength + 1 /\ p[PinLength + 1] = Hash

Found(p) == IsAttempt(p) /\ verify_checksum /\ search_pin(Encoded(p))

\* strncmp goes on behind the code to the zero there.  The fallback code has
\* three digits, but is compared only when pin holds seven characters.
IsFallback(p) == Len(p) = PinLength + 1 /\ p = Append(FallbackCode, Hash)
IsLock(p) == p = Append(LockCode, Hash)
IsReset(p) == p = Append(ResetCode, Hash)

\* What handle_command does to the lock with these characters in pin; `found' is
\* Found(p).
Pulse(p, found) ==
    CASE found \/ IsFallback(p) -> "unlock"
      [] IsLock(p) /\ ~found -> "lock"
      [] IsReset(p) /\ ~found -> "reset"
      [] OTHER -> "none"

Verdict(p, found) ==
    IF ~IsAttempt(p) THEN <<>>
    ELSE IF found THEN <<"VF OK">>
    ELSE IF verify_checksum THEN <<"VF NO">> ELSE <<"VF CRCFAIL">>

Closing(c, p, found) ==
    IF found THEN <<>>
    ELSE CASE Pulse(p, found) = "unlock" -> <<"OPEN pin">>
           [] Pulse(p, found) = "lock" -> <<"LOCK pin">>
           [] Pulse(p, found) = "reset" -> <<"reset PIN">>
           [] OTHER -> IF c = Hash THEN <<"DISCARD">> ELSE <<>>

Cleared(c, action) == action # "none" \/ c = Hash

handle_command(c) ==
    LET p == Stored(c)
        found == Found(p)
        action == Pulse(p, found)
    IN
    /\ pulse' = action
    /\ said' = (IF Len(pin) < PinChars THEN <<"KEY">> ELSE <<>>)
               \o Verdict(p, found) \o Closing(c, p, found)
    /\ pin' = IF Cleared(c, action) THEN <<>> ELSE p
    /\ keys' = IF c = Hash THEN <<>>
                ELSE IF Len(keys) <= PinChars THEN Append(keys, c) ELSE keys
    /\ UNCHANGED eepromVars

\* The store is written between two keys; a power loss clears pin.
StoreChanges ==
    /\ EepromNext
    /\ pulse' = "none" /\ said' = <<>>
    /\ IF losses' = losses THEN UNCHANGED <<pin, keys>> ELSE pin' = <<>> /\ keys' = <<>>

\* A restart between two keys.
Restarted ==
    /\ pin' = <<>> /\ keys' = <<>> /\ pulse' = "none" /\ said' = <<>>
    /\ UNCHANGED eepromVars

EntryNext == (\E c \in KeyPad : handle_command(c)) \/ StoreChanges \/ Restarted

EntrySpec == EntryInit /\ [][EntryNext]_entryVars

-----------------------------------------------------------------------------
(* Properties *)

\* What the keys since the last '#' mean to the people in front of the door: a
\* PIN of the one image that is completely stored, or a code, and nothing else.
Meaning ==
    IF \E img \in Images : Intact(img) /\ IsProtected(img) /\ \E k \in DOMAIN img : img[k] = keys
    THEN "unlock"
    ELSE CASE keys = LockCode -> "lock" [] keys = ResetCode -> "reset" [] OTHER -> "none"

\* The door obeys what was typed since the last '#', whatever was typed before,
\* however long it is, whatever state the store is in, and only at a '#'.
DoorObeysKeys ==
    [][\A c \in KeyPad : handle_command(c) =>
            pulse' = IF c = Hash THEN Meaning ELSE "none"]_entryVars

=============================================================================
