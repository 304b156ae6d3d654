------------------------------ MODULE PinpadMC ------------------------------
(***************************************************************************)
(* The parts of the pinpad that share no state, for TLC: in each behaviour *)
(* one of them moves, so that the run explores them one beside the other   *)
(* and not their product.                                                  *)
(***************************************************************************)
EXTENDS KeypadSerial, PinEntry, BusCommands, Debounce, Capture, PinpadQueue

CONSTANTS key, stat   \* messages

VARIABLE part

ShortMessages == {key, stat}
NoMessages == {}

\* PINs of two digits.  The first two images are as large as each other and differ
\* in both blocks; the last one fills its block.
One == <<1, 1>>
Two == <<2, 2>>
Three == <<3, 3>>
SomeImages == {<<Two, One, Three>>, <<Two, Three, Two>>, <<One, Two>>}

\* The CRC of the block with the PINs 22 and 11 is taken to be 0.
ATrivialBlock == {<<PinByte(34), PinByte(17)>>}

Code1 == <<1>>
Code111 == <<1, 1, 1>>

\* Commands, their beginnings, and words that are none.
SomePayloads ==
    {Commands[c] : c \in DOMAIN Commands} \cup
    {<<>>, <<"o">>, <<"o", "p", "e">>, <<"s">>, <<"n", "o">>, <<"n", "o", "p", "e", "n", "d">>}

SomeJitter == {-243, 0, 243}

AllVars == <<keypadVars, entryVars, commandVars, debounceVars, captureVars, queueVars>>

MCInit ==
    /\ part \in {"keypad", "entry", "bus", "sensors", "lock", "buffer"}
    /\ KeypadInit /\ EntryInit /\ CommandsInit /\ CaptureInit /\ QueueInit
    /\ DebounceInit /\ (part # "sensors" => PINB = 0)

KeypadPart ==
    /\ part = "keypad" /\ KeypadNext
    /\ UNCHANGED <<part, entryVars, commandVars, debounceVars, captureVars, queueVars>>
EntryPart ==
    /\ part = "entry" /\ EntryNext
    /\ UNCHANGED <<part, keypadVars, commandVars, debounceVars, captureVars, queueVars>>
BusPart ==
    /\ part = "bus" /\ CommandsNext
    /\ UNCHANGED <<part, keypadVars, entryVars, debounceVars, captureVars, queueVars>>
SensorPart ==
    /\ part = "sensors" /\ DebounceNext
    /\ UNCHANGED <<part, keypadVars, entryVars, commandVars, captureVars, queueVars>>
LockPart ==
    /\ part = "lock" /\ CaptureNext
    /\ UNCHANGED <<part, keypadVars, entryVars, commandVars, debounceVars, queueVars>>
BufferPart ==
    /\ part = "buffer" /\ PoliteNext
    /\ UNCHANGED <<part, keypadVars, entryVars, commandVars, debounceVars, captureVars>>

MCNext == KeypadPart \/ EntryPart \/ BusPart \/ SensorPart \/ LockPart \/ BufferPart

MCSpec == MCInit /\ [][MCNext]_<<AllVars, part>>

=============================================================================
