------------------------------ MODULE Capture ------------------------------
(***************************************************************************)
(* How the pinpad learns the state of the lock (firmware-pinpad/main.c):   *)
(* the lock answers with pulses whose width is a multiple of 3855 ticks of *)
(* timer 1; the capture interrupt measures them, send_state takes a        *)
(* snapshot of the 16-bit result in two reads and names the multiple.      *)
(***************************************************************************)
EXTENDS Integers, Sequences

CONSTANTS
    Multiples,   \* the multiples the lock sends, of 1 .. 16
    Jitter,      \* by how many ticks a pulse is off
    Starts       \* counter values at which a pulse begins

\* The values of timer 1.
Counts == {n \in Nat : n < 65536}

ASSUME CaptureAssumption ==
    /\ Multiples \subseteq 1 .. 16 /\ Starts \subseteq Counts
    /\ Jitter \subseteq Int /\ \A j \in Jitter : -243 <= j /\ j <= 243

VARIABLES
    rising,      \* ICES1: the next edge captured is a rising one
    lowvalue, pwmvalue,
    pulses,      \* history: the multiple of the last pulse; 0 is none
    cappc,       \* main loop: "loop", "second" or "classify"
    firstByte,   \* which byte of pwmvalue was read first, and its value
    snap,        \* the snapshot; both are cleared when they are no longer used
    seen,        \* history: the last multiples while the snapshot was taken
    report       \* the messages of the last send_state

captureVars == <<rising, lowvalue, pwmvalue, pulses, cappc, firstByte, snap, seen, report>>

CaptureInit ==
    /\ rising = TRUE /\ lowvalue = 0 /\ pwmvalue = 0 /\ pulses = 0
    /\ cappc = "loop" /\ firstByte = <<"low", 0>> /\ snap = 0 /\ seen = {} /\ report = <<>>

\* TIMER1_CAPT_vect, rising edge.
RisingEdge(at) ==
    /\ rising
    /\ rising' = FALSE /\ lowvalue' = at
    /\ UNCHANGED <<pwmvalue, pulses, cappc, firstByte, snap, seen, report>>

\* What the interrupt computes; one tick is lost when the counter wrapped.
Width(highvalue) ==
    IF highvalue < lowvalue THEN 65535 - lowvalue + highvalue ELSE highvalue - lowvalue

\* TIMER1_CAPT_vect, falling edge.
FallingEdge(multiple, jitter) ==
    /\ ~rising
    /\ rising' = TRUE
    /\ pwmvalue' = Width((lowvalue + 3855 * multiple + jitter) % 65536)
    /\ pulses' = multiple
    /\ seen' = IF cappc = "second" THEN seen \cup {multiple} ELSE seen
    /\ UNCHANGED <<lowvalue, cappc, firstByte, snap, report>>

Low == pwmvalue % 256
High == pwmvalue \div 256

\* send_state begins: the compiler reads either byte first.
ReadFirst ==
    /\ cappc = "loop" /\ cappc' = "second"
    /\ firstByte' \in {<<"low", Low>>, <<"high", High>>}
    /\ seen' = {pulses}
    /\ UNCHANGED <<rising, lowvalue, pwmvalue, pulses, snap, report>>

ReadSecond ==
    /\ cappc = "second" /\ cappc' = "classify"
    /\ snap' = IF firstByte[1] = "low" THEN 256 * High + firstByte[2] ELSE 256 * firstByte[2] + Low
    /\ firstByte' = <<"low", 0>>
    /\ UNCHANGED <<rising, lowvalue, pwmvalue, pulses, seen, report>>

\* (mutant) a narrower window.
InWindow_narrow(width, c) == width > 3855 * c - 256 /\ width < 3855 * c + 256

\* The bounds overflow the int of 16 bits they are computed in from c = 9 on; the
\* wrapped value, compared as unsigned, is the right one again.
InWindow(width, c) == width > 3855 * c - 500 /\ width < 3855 * c + 500

\* Bit 1 is the first sensor, bit 0 the second.
Stat(c) ==
    CASE c % 4 = 2 -> "STAT lock" [] c % 4 = 1 -> "STAT open" [] OTHER -> "STAT broke"

\* send_pwm_state and the rest of send_state; "X" is the checksum of Eeprom.
Classify ==
    /\ cappc = "classify" /\ cappc' = "loop"
    /\ report' = IF \E c \in 1 .. 16 : InWindow(snap, c)
                 THEN LET c == CHOOSE c \in 1 .. 16 :
                              InWindow(snap, c) /\ \A d \in 1 .. c - 1 : ~InWindow(snap, d)
                      IN  <<"SRAW", c, Stat(c), "X">>
                 ELSE <<"SRAW bork">>
    /\ snap' = 0
    /\ UNCHANGED <<rising, lowvalue, pwmvalue, pulses, firstByte, seen>>

CaptureNext ==
    \/ \E at \in Starts : RisingEdge(at)
    \/ \E multiple \in Multiples, jitter \in Jitter : FallingEdge(multiple, jitter)
    \/ ReadFirst \/ ReadSecond \/ Classify

CaptureSpec == CaptureInit /\ [][CaptureNext]_captureVars

-----------------------------------------------------------------------------
(* Properties *)

\* What the multiples mean.
Locked == {2, 6, 10, 14}
Open == {1, 5, 9, 13}

\* A report names the state before or behind a pulse that ends while the snapshot
\* is taken, never a third one that is made of two halves; and what it says
\* is what the lock sent: "bork" is said only when there was no pulse yet.
ReportIsOldOrNew ==
    cappc = "loop" /\ report # <<>> =>
        IF Len(report) = 1 THEN 0 \in seen
        ELSE /\ report[2] \in seen
             /\ report[3] = "STAT lock" <=> report[2] \in Locked
             /\ report[3] = "STAT open" <=> report[2] \in Open

=============================================================================
