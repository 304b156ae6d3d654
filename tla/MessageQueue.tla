---------------------------- MODULE MessageQueue ----------------------------
(***************************************************************************)
(* What a bus node's outgoing packet buffer promises: a bounded first-in   *)
(* first-out queue.  A message that finds the queue full is refused; an    *)
(* accepted message is handed out once, in turn and unchanged, unless a    *)
(* restart of the node empties the queue before.                           *)
(***************************************************************************)
EXTENDS Naturals, Sequences

CONSTANTS
    Message,
    Capacity,
    NoMessage   \* nothing was handed out yet

VARIABLES
    queue,   \* the messages accepted and not handed out
    out      \* the message handed out last

Init == queue = <<>> /\ out = NoMessage

Put(m) ==
    /\ Len(queue) < Capacity
    /\ queue' = Append(queue, m)
    /\ UNCHANGED out

Get ==
    /\ queue # <<>>
    /\ out' = Head(queue)
    /\ queue' = Tail(queue)

Restart == queue' = <<>> /\ UNCHANGED out

Next == Get \/ Restart \/ \E m \in Message : Put(m)

Spec == Init /\ [][Next]_<<queue, out>>

=============================================================================
