---------------------------- MODULE UartRxTrace ----------------------------
(***************************************************************************)
(* UartRx with the history of its ring: which bytes the receive interrupt  *)
(* stored, and which of them each packet that was handled consists of.     *)
(* The ring is to be a queue of bytes that is written by the interrupt     *)
(* and read by the main loop; here one can say so for any bytes, those of  *)
(* fragments and disturbed frames included.                                *)
(***************************************************************************)
EXTENDS UartRx

VARIABLES
    stored,   \* history: the bytes stored, those before a restart included
    places    \* history: how many bytes had been passed when a packet was handled

traceVars == <<vars, stored, places>>

\* The stored bytes that were passed, or lost in a restart.
Passed == Len(stored) - Waiting

TraceInit == Init /\ stored = <<>> /\ places = <<>>

\* Only the interrupt takes a frame from the line and moves uartwrite; a reset moves it
\* without a frame.
Record ==
    /\ stored' = IF line' # line /\ uartwrite' # uartwrite
                 THEN Append(stored, uartbuf'[uartwrite]) ELSE stored
    /\ places' = IF handled' # handled THEN Append(places, Passed) ELSE places

TraceSpec == TraceInit /\ [][Next /\ Record]_traceVars

-----------------------------------------------------------------------------
(* Properties *)

\* Where the i-th packet that was handled ends among the stored bytes.
EndOf(i) == places[i] + Len(handled[i].bytes)

\* Each packet that is handled consists of bytes stored one behind the other, none
\* of which belongs to an earlier packet: whatever is on the line and whenever the ring
\* overflows, no byte is handled twice, out of order, or from a slot that holds another.
HandledOnce ==
    \A i \in DOMAIN handled :
        /\ 0 <= places[i] /\ EndOf(i) <= Len(stored)
        /\ handled[i].bytes = SubSeq(stored, places[i] + 1, EndOf(i))
        /\ \A j \in 1 .. i - 1 : EndOf(j) <= places[i]

=============================================================================
