------------------------------ MODULE Debounce ------------------------------
(***************************************************************************)
(* The debouncing of the door sensors (firmware-pinpad/main.c, main): in   *)
(* every 256th pass of the loop the port is compared with its last samples *)
(* and stored over the oldest one.  A change is announced when all other   *)
(* samples agree with the port and the oldest does not.  PINB is volatile: *)
(* every comparison reads the port anew, and so does the announcement,     *)
(* which tells the door's pin, PB0.  (The answers to the bus command       *)
(* `status' tell it, too, at any time and undebounced; they are no         *)
(* announcements and left out.)                                            *)
(***************************************************************************)
EXTENDS Integers

CONSTANTS
    Samples,   \* the length of old_pinb, 10 in the code
    Levels     \* what the port can show; 0 is also what old_pinb starts with

ASSUME DebounceAssumption == Samples \in Nat /\ Samples > 1 /\ 0 \in Levels /\ Levels \subseteq 0 .. 255

VARIABLES
    PINB,
    old_pinb, op_current,
    dpc,            \* "idle", "compare", "own", "store" or "report"
    checked,        \* c of the loop
    pinb_changed,
    reads,          \* history: what this pass read from the port
    announced,      \* history: the pin as the last announcement told it
    torn,           \* history: the port changed within a pass since then, or within its own
    untold          \* history: a change since then was found and not told

debounceVars == <<PINB, old_pinb, op_current, dpc, checked, pinb_changed, reads, announced, torn, untold>>

Places == 0 .. Samples - 1

PB0(level) == level % 2

DebounceInit ==
    /\ PINB \in Levels
    /\ old_pinb = [i \in Places |-> 0] /\ op_current = 0
    /\ dpc = "idle" /\ checked = 0 /\ pinb_changed = FALSE
    /\ reads = {} /\ announced = 0 /\ torn = FALSE /\ untold = FALSE

PortChanges ==
    /\ \E level \in Levels : PINB' = level
    /\ UNCHANGED <<old_pinb, op_current, dpc, checked, pinb_changed, reads, announced, torn, untold>>

\* check_pinb came round to 0.
StartCheck ==
    /\ dpc = "idle"
    /\ dpc' = "compare" /\ checked' = 0 /\ pinb_changed' = TRUE /\ reads' = {}
    /\ UNCHANGED <<PINB, old_pinb, op_current, announced, torn, untold>>

\* (mutant) the oldest sample is compared like the others.
Compare_all ==
    /\ dpc = "compare"
    /\ reads' = reads \cup {PINB}
    /\ pinb_changed' = (old_pinb[checked] = PINB)
    /\ dpc' = IF old_pinb[checked] = PINB /\ checked < Samples - 1 THEN "compare" ELSE "own"
    /\ checked' = IF dpc' = "compare" THEN checked + 1 ELSE 0
    /\ UNCHANGED <<PINB, old_pinb, op_current, announced, torn, untold>>

\* (mutant) the loop goes on, and the last comparison decides.
Compare_goes_on ==
    /\ dpc = "compare"
    /\ IF checked = op_current THEN UNCHANGED <<pinb_changed, reads>>
       ELSE /\ reads' = reads \cup {PINB}
            /\ pinb_changed' = (old_pinb[checked] = PINB)
    /\ dpc' = IF checked < Samples - 1 THEN "compare" ELSE "own"
    /\ checked' = IF dpc' = "compare" THEN checked + 1 ELSE 0
    /\ UNCHANGED <<PINB, old_pinb, op_current, announced, torn, untold>>

\* One round of the loop; the first difference ends it.
Compare ==
    /\ dpc = "compare"
    /\ IF checked = op_current THEN UNCHANGED <<pinb_changed, reads>>
       ELSE /\ reads' = reads \cup {PINB}
            /\ pinb_changed' = (old_pinb[checked] = PINB)
    /\ dpc' = IF pinb_changed' /\ checked < Samples - 1 THEN "compare" ELSE "own"
    /\ checked' = IF dpc' = "compare" THEN checked + 1 ELSE 0
    /\ UNCHANGED <<PINB, old_pinb, op_current, announced, torn, untold>>

CompareOwn ==
    /\ dpc = "own"
    /\ reads' = reads \cup {PINB}
    /\ pinb_changed' = (pinb_changed /\ old_pinb[op_current] # PINB)
    /\ dpc' = "store"
    /\ UNCHANGED <<PINB, old_pinb, op_current, checked, announced, torn, untold>>

StoreSample ==
    /\ dpc = "store"
    /\ reads' = reads \cup {PINB}
    /\ old_pinb' = [old_pinb EXCEPT ![op_current] = PINB]
    /\ op_current' = (op_current + 1) % Samples
    /\ dpc' = "report"
    /\ torn' = (torn \/ \E a, b \in reads' : a # b)
    /\ UNCHANGED <<PINB, checked, pinb_changed, announced, untold>>

EndCheck ==
    /\ dpc = "report"
    /\ dpc' = "idle" /\ reads' = {} /\ pinb_changed' = FALSE
    /\ UNCHANGED <<PINB, old_pinb, op_current, checked>>

NoChange == EndCheck /\ ~pinb_changed /\ UNCHANGED <<announced, torn, untold>>

\* send_state and send_pwm_state, which reads the port once more for the message.
ReportChange ==
    /\ EndCheck /\ pinb_changed
    /\ announced' = PB0(PINB)
    /\ torn' = (\E level \in reads : level # PINB)
    /\ untold' = FALSE

\* The message is "SRAW bork", which tells no pin, or the buffer for packets is full
\* and senddata gives up, which nobody looks at.
ReportFails ==
    /\ EndCheck /\ pinb_changed
    /\ untold' = TRUE /\ UNCHANGED <<announced, torn>>

DebounceNext ==
    \/ PortChanges
    \/ StartCheck \/ Compare \/ CompareOwn \/ StoreSample
    \/ NoChange \/ ReportChange \/ ReportFails

DebounceSpec == DebounceInit /\ [][DebounceNext]_debounceVars

-----------------------------------------------------------------------------
(* Properties *)

\* When all samples agree, the pin they show is the one announced last, unless the
\* port changed between two reads of one pass, the announcement's own among them, or
\* the last change could not be told: nothing tries again.
NoChangeIsMissed ==
    \A level \in Levels :
        dpc = "idle" /\ (\A i \in Places : old_pinb[i] = level) =>
            announced = PB0(level) \/ torn \/ untold

\* When a change is announced all samples show it, unless the port changed within the
\* pass.
NoBounceIsAnnounced ==
    dpc = "report" /\ pinb_changed =>
        \/ \A i, j \in Places : old_pinb[i] = old_pinb[j]
        \/ \E a, b \in reads : a # b

\* Both: changes that last are announced unless the announcement failed, and nothing else is.
ChangesAreAnnounced == NoChangeIsMissed /\ NoBounceIsAnnounced

=============================================================================
