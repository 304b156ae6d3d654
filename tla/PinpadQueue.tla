---------------------------- MODULE PinpadQueue ----------------------------
(***************************************************************************)
(* The outgoing packet buffer of the pinpad (firmware-pinpad/main.c):      *)
(* rbuffer, a ring of slots with room for a header and ten payload bytes   *)
(* each, the indices rb_current (next to write) and rb_next (next to       *)
(* send), and packetcnt, the number the node announces to the busmaster.   *)
(*                                                                         *)
(* Messages are model values.  A message of more than ten bytes            *)
(* (LongMessages, "VF 123456 OK" in the code) does not fit its slot:       *)
(* fmt_packet writes its last bytes over the destination and source fields *)
(* of the slot behind, and behind the last slot over whatever the linker   *)
(* put there (the cell Slots).                                             *)
(***************************************************************************)
EXTENDS Integers, Sequences

CONSTANTS
    Slots,         \* the size of rbuffer
    Messages,      \* what the firmware sends
    LongMessages   \* the messages that are longer than a slot

ASSUME QueueAssumption ==
    /\ Slots \in {2, 4, 8, 16, 32}    \* 32 in the code
    /\ LongMessages \subseteq Messages

VARIABLES
    rbuffer,     \* slot -> what its header and its payload hold
    rb_current, rb_next,
    packetcnt,   \* an uint8_t
    out          \* history: the packet the node transmitted last

queueVars == <<rbuffer, rb_current, rb_next, packetcnt, out>>

Slot == 0 .. Slots - 1

\* The first bytes of a slot: nothing yet, the header of m, or the end of a
\* long m in the slot before.
Nothing == [kind |-> "nothing"]
HeaderOf(m) == [kind |-> "header", msg |-> m]
EndOf(m) == [kind |-> "end", msg |-> m]
Bytes == {Nothing} \cup {HeaderOf(m) : m \in Messages} \cup {EndOf(m) : m \in Messages}

NextSlot(i) == (i + 1) % Slots

QueueInit ==
    /\ rbuffer = [i \in 0 .. Slots |-> [head |-> Nothing, body |-> Nothing]]
    /\ rb_current = 0 /\ rb_next = 0
    /\ packetcnt = 0
    /\ out = Nothing

\* fmt_packet into slot i.
Written(i, m) ==
    LET own == [rbuffer EXCEPT ![i] = [head |-> HeaderOf(m), body |-> HeaderOf(m)]]
    IN  IF m \in LongMessages THEN [own EXCEPT ![i + 1].head = EndOf(m)] ELSE own

\* (mutant) the oldest message is overwritten when the buffer is full.
senddata_overwrites(m) ==
    /\ rbuffer' = Written(rb_current, m)
    /\ rb_current' = NextSlot(rb_current)
    /\ packetcnt' = (packetcnt + 1) % 256
    /\ UNCHANGED <<rb_next, out>>

\* senddata, sendmsg: a full buffer refuses the message.
senddata(m) ==
    IF NextSlot(rb_current) = rb_next
    THEN UNCHANGED queueVars
    ELSE /\ rbuffer' = Written(rb_current, m)
         /\ rb_current' = NextSlot(rb_current)
         /\ packetcnt' = (packetcnt + 1) % 256
         /\ UNCHANGED <<rb_next, out>>

\* The packet transmitted from slot i: send_packet takes the length from the
\* slot's header and reads on behind the slot when it says so.
PacketAt(i) ==
    [head |-> rbuffer[i].head,
     body |-> rbuffer[i].body,
     rest |-> IF rbuffer[i].head.kind = "header" /\ rbuffer[i].head.msg \in LongMessages
              THEN rbuffer[i + 1].head ELSE Nothing]

\* The packet a message ought to be.
PacketOf(m) ==
    [head |-> HeaderOf(m), body |-> HeaderOf(m),
     rest |-> IF m \in LongMessages THEN EndOf(m) ELSE Nothing]

\* (mutant) the announced number is not taken down.
take_next_keeps_count ==
    /\ out' = PacketAt(rb_next)
    /\ rb_next' = NextSlot(rb_next)
    /\ UNCHANGED <<rbuffer, rb_current, packetcnt>>

\* (mutant) the index is not advanced.
take_next_keeps_index ==
    /\ out' = PacketAt(rb_next)
    /\ packetcnt' = (packetcnt - 1) % 256
    /\ UNCHANGED <<rbuffer, rb_current, rb_next>>

\* The "send" branch of main: the slot at rb_next is sent and passed, whether
\* anything is queued or not.
take_next ==
    /\ out' = PacketAt(rb_next)
    /\ rb_next' = NextSlot(rb_next)
    /\ packetcnt' = (packetcnt - 1) % 256
    /\ UNCHANGED <<rbuffer, rb_current>>

\* A restart clears the statics.
restart ==
    /\ rbuffer' = [i \in 0 .. Slots |-> [head |-> Nothing, body |-> Nothing]]
    /\ rb_current' = 0 /\ rb_next' = 0
    /\ packetcnt' = 0
    /\ UNCHANGED out

\* Requests come as they please.
QueueNext ==
    \/ \E m \in Messages : senddata(m)
    \/ take_next
    \/ restart

QueueSpec == QueueInit /\ [][QueueNext]_queueVars

\* Packets are requested only while the node has announced some.
PoliteNext ==
    \/ \E m \in Messages : senddata(m)
    \/ packetcnt > 0 /\ take_next
    \/ restart

PoliteSpec == QueueInit /\ [][PoliteNext]_queueVars

-----------------------------------------------------------------------------
(* Properties *)

QueueTypeOK ==
    /\ rbuffer \in [0 .. Slots -> [head : Bytes, body : Bytes]]
    /\ rb_current \in Slot /\ rb_next \in Slot
    /\ packetcnt \in 0 .. 255

\* The slots between the indices.
Pending == (rb_current - rb_next) % Slots

\* The uint8_t counter and the two indices, three variables that wrap at
\* different places, stay in step even when the busmaster requests packets
\* nobody announced: they agree modulo the size of the buffer, so a counter
\* that ran below zero is right again after 256 such requests.
CountMatchesIndices == packetcnt % Slots = Pending

\* When only announced packets are requested, the number announced is the
\* number of packets waiting.
CountIsPending == packetcnt = Pending

Queued == [k \in 1 .. Pending |-> PacketAt((rb_next + k - 1) % Slots)]

Abstract == INSTANCE MessageQueue
    WITH Message <- {PacketOf(m) : m \in Messages}, Capacity <- Slots - 1,
         NoMessage <- Nothing, queue <- Queued

\* The buffer is a first-in first-out queue of Slots - 1 packets: none is
\* overwritten by a later one, repeated, or sent changed.
IsMessageQueue == Abstract!Spec

\* Every packet waiting in the buffer is the packet of a message.  The code's
\* comment: "let's assume a typical message length of 12 bytes"
\* (firmware-pinpad/main.c:58-60).
QueuedIsIntact == \A k \in DOMAIN Queued : Queued[k] \in {PacketOf(m) : m \in Messages}

=============================================================================
