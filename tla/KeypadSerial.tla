---------------------------- MODULE KeypadSerial ----------------------------
(***************************************************************************)
(* The serial line from the keypad to the pinpad's main loop               *)
(* (firmware-pinpad/main.c).  The receive interrupt fills the nine bytes   *)
(* of a command, "^PAD k  $", into serbuf; the ninth byte is also the flag *)
(* that hands the buffer to the main loop and back.                        *)
(*                                                                         *)
(* The keypad itself is not in the repository.  Its commands are what the  *)
(* code looks for: "^", the word PAD, the key at index 5, "$" at index 8.  *)
(***************************************************************************)
EXTENDS Integers, Sequences, FiniteSets

CONSTANTS
    MaxTyped,   \* bound on the keys typed
    MaxLost     \* bound on the bytes the line or the USART loses

ASSUME KeypadAssumption == {MaxTyped, MaxLost} \subseteq Nat

VARIABLES
    typed,      \* the keys typed so far; key n is the n-th one
    incoming,   \* bytes of the last command that are still on the line
    serbuf, sercnt,
    kpc,        \* main loop: "look", "copy", "release" or "handle"
    copied,     \* bytes copied so far
    bufcopy,
    handled,    \* history: the keys handle_command got; 0 is no key of the keypad
    overruns,   \* history: the keys hit by a byte that came while serbuf was full
    lost        \* history: bytes lost

keypadVars == <<typed, incoming, serbuf, sercnt, kpc, copied, bufcopy, handled, overruns, lost>>

Char(c) == <<c, 0>>
Key(n) == <<"key", n>>
Nul == Char("nul")
LastByte == 8
Positions == 0 .. LastByte

Command(n) == <<Char("^"), Char("P"), Char("A"), Char("D"), Char(" "), Key(n),
                Char(" "), Char(" "), Char("$")>>

KeypadInit ==
    /\ typed = 0 /\ incoming = 0
    /\ serbuf = [i \in Positions |-> Nul] /\ sercnt = 0
    /\ kpc = "look" /\ copied = 0
    /\ bufcopy = [i \in Positions |-> Nul]
    /\ handled = <<>> /\ overruns = {} /\ lost = 0

\* A key is typed when the keypad has sent the command of the one before.
Type ==
    /\ incoming = 0 /\ typed < MaxTyped
    /\ typed' = typed + 1
    /\ incoming' = 9
    /\ UNCHANGED <<serbuf, sercnt, kpc, copied, bufcopy, handled, overruns, lost>>

Full == serbuf[LastByte] = Char("$")

\* The next byte on the line.
Comes == Command(typed)[10 - incoming]

\* (mutant) a byte at the start is taken whatever it is.
Fits_anywhere(byte) == sercnt = LastByte => byte = Char("$")

\* The first byte of a command must be '^' and the last one '$'.
Fits(byte) ==
    /\ sercnt = 0 => byte = Char("^")
    /\ sercnt = LastByte => byte = Char("$")

\* ISR(USART1_RX_vect)
Receive ==
    /\ incoming > 0 /\ incoming' = incoming - 1
    /\ IF ~Full /\ Fits(Comes)
       THEN /\ serbuf' = [serbuf EXCEPT ![sercnt] = Comes]
            /\ sercnt' = (sercnt + 1) % 9
       ELSE UNCHANGED <<serbuf, sercnt>>
    /\ overruns' = IF Full THEN overruns \cup {typed} ELSE overruns
    /\ UNCHANGED <<typed, kpc, copied, bufcopy, handled, lost>>

\* A byte does not arrive.
LoseByte ==
    /\ incoming > 0 /\ incoming' = incoming - 1
    /\ lost < MaxLost
    /\ lost' = lost + 1
    /\ UNCHANGED <<typed, serbuf, sercnt, kpc, copied, bufcopy, handled, overruns>>

\* (mutant) the buffer is handed back before it is copied.
Look_releases ==
    /\ kpc = "look" /\ Full
    /\ kpc' = "copy" /\ copied' = 0
    /\ serbuf' = [serbuf EXCEPT ![LastByte] = Nul]
    /\ UNCHANGED <<typed, incoming, sercnt, bufcopy, handled, overruns, lost>>

\* The main loop sees the flag.
Look ==
    /\ kpc = "look" /\ Full
    /\ kpc' = "copy" /\ copied' = 0
    /\ UNCHANGED <<typed, incoming, serbuf, sercnt, bufcopy, handled, overruns, lost>>

\* strncpy, byte by byte.
CopyByte ==
    /\ kpc = "copy"
    /\ bufcopy' = [bufcopy EXCEPT ![copied] = serbuf[copied]]
    /\ copied' = copied + 1
    /\ kpc' = IF copied = LastByte THEN "release" ELSE "copy"
    /\ UNCHANGED <<typed, incoming, serbuf, sercnt, handled, overruns, lost>>

Release ==
    /\ kpc = "release"
    /\ serbuf' = [serbuf EXCEPT ![LastByte] = Nul]
    /\ kpc' = "handle"
    /\ UNCHANGED <<typed, incoming, sercnt, copied, bufcopy, handled, overruns, lost>>

\* handle_command ignores what does not start with "^PAD "; 0 is what it makes of
\* a byte that is no key.
StartsRight(buffer) == \A i \in 0 .. 4 : buffer[i] = Command(0)[i + 1]
KeyIn(buffer) == IF buffer[5][1] = "key" THEN buffer[5][2] ELSE 0

HandleCommand ==
    /\ kpc = "handle"
    /\ handled' = IF StartsRight(bufcopy) THEN Append(handled, KeyIn(bufcopy)) ELSE handled
    /\ kpc' = "look"
    /\ UNCHANGED <<typed, incoming, serbuf, sercnt, copied, bufcopy, overruns, lost>>

KeypadMain == Look \/ CopyByte \/ Release \/ HandleCommand

KeypadNext == Type \/ Receive \/ LoseByte \/ KeypadMain

KeypadSpec == KeypadInit /\ [][KeypadNext]_keypadVars

-----------------------------------------------------------------------------
(* Properties *)

\* The keys that reach handle_command are keys that were typed, in the order
\* they were typed, none twice; each lost byte makes up at most one that was not.
KeysInOrder ==
    /\ \A i, j \in DOMAIN handled :
          i < j /\ handled[i] # 0 /\ handled[j] # 0 => handled[i] < handled[j]
    /\ \A i \in DOMAIN handled : handled[i] <= typed
    /\ Cardinality({i \in DOMAIN handled : handled[i] = 0}) <= lost

\* When the line is silent and the main loop waits, every key was handled but
\* those that came while the last one was being handled, and two for every byte
\* lost: the interrupt is in step again with the second '^' at the latest.
KeyLossIsBounded ==
    incoming = 0 /\ kpc = "look" /\ ~Full =>
        typed - Cardinality({handled[k] : k \in DOMAIN handled} \ {0})
            <= Cardinality(overruns) + 2 * lost

\* Both: the keys arrive, in order and once, and a disturbed byte costs two of them.
KeysArrive == KeysInOrder /\ KeyLossIsBounded

=============================================================================
