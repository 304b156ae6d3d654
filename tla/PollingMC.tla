----------------------------- MODULE PollingMC -----------------------------
(* The values TLC checks Polling with. *)
EXTENDS Polling

CONSTANTS key, stat, open

ThreeMessages == {key, stat, open}
OneMessage == {open}
NoMessages == {}

Steady == {2}        \* a pass takes 10 ms
Jitter == {2, 3}     \* a pass takes 10 or 15 ms
NoStall == {0}
LongStall == {0, 100}

=============================================================================
