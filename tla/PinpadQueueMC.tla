--------------------------- MODULE PinpadQueueMC ---------------------------
(* The values TLC checks PinpadQueue with. *)
EXTENDS PinpadQueue

CONSTANTS key, stat, vf   \* messages; vf is the one with 12 bytes

ShortMessages == {key, stat}
AllMessages == {key, vf}
NoMessages == {}
OnlyVf == {vf}

=============================================================================
