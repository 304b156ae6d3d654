------------------------------ MODULE Polling ------------------------------
(***************************************************************************)
(* The polling protocol: the busmaster (busmaster/main.c) pings the pinpad *)
(* (firmware-pinpad/main.c), learns from the pong how many packets wait,   *)
(* and requests them one by one; each request is answered with the packet  *)
(* at the front of the pinpad's buffer (PinpadQueue).                      *)
(*                                                                         *)
(* The protocol has no sequence numbers and no arbitration: what keeps it  *)
(* together are the delays in both programs.  So time is modelled, in      *)
(* ticks of a few milliseconds: a delay is a timer, and time passes when   *)
(* neither program has something to do.  Events that fall on one tick      *)
(* happen in any order.                                                    *)
(***************************************************************************)
EXTENDS PinpadQueue

CONSTANTS
    MasterPass,   \* ticks of a pass of the busmaster's loop: _delay_ms(10) and
                  \* the Ethernet work around it
    Pause,        \* ticks of a _delay_ms(25)
    PacketTime,   \* ticks a packet is on the line
    PingAt,       \* passes between two pings (50)
    AfterUdp,     \* what cnt is set to behind an Ethernet packet (35)
    Stalls,       \* ticks the pinpad can be busy with a key or a sensor
    DoorTime,     \* ticks of unlock_door's _delay_ms(500)
    BootTime,     \* ticks of main's start-up delays
    OpenMessage,  \* "OPEN bus"
    MaxMessages,  \* bound on the messages put into the buffer
    MaxUdp,       \* bound on the commands from the Ethernet
    MaxLosses,    \* bound on the packets the line loses
    MaxStalls,    \* bound on the stalls of the pinpad
    MaxRestarts   \* bound on the restarts of the pinpad

ASSUME PollingAssumption ==
    /\ MasterPass \subseteq Nat \ {0}
    /\ {Pause, PacketTime, PingAt, DoorTime, BootTime} \subseteq Nat \ {0}
    /\ AfterUdp \in 0 .. PingAt
    /\ Stalls \subseteq Nat
    /\ OpenMessage \in Messages
    /\ {MaxMessages, MaxUdp, MaxLosses, MaxStalls, MaxRestarts} \subseteq Nat

VARIABLES
    \* the busmaster
    mpc, mtimer,   \* where its loop is, and the ticks until it goes on
    cnt,           \* passes since the last ping or request
    burst_remain,  \* packets still to request
    burst_sender,  \* from whom: 1 the pinpad, 0 nobody
    inbox,         \* the packets in its receive ring
    copy,          \* the payload in the static copy current_packet makes
    \* the pinpad
    spc, stimer,   \* where its loop is, and the ticks until it goes on
    request,       \* the packet in its receive ring
    \* the line
    mtx, stx,      \* what the busmaster and the pinpad are transmitting
    \* history and bounds
    accepted,      \* the messages senddata accepted
    forwarded,     \* the packets the busmaster sent to the Ethernet
    udps, losses, stalls, restarts

master == <<mpc, mtimer, cnt, burst_remain, burst_sender, inbox, copy, forwarded>>
slave == <<spc, stimer, request, accepted>>
pollVars == <<queueVars, master, slave, mtx, stx, udps, losses, stalls, restarts>>

-----------------------------------------------------------------------------
(* The line *)

Quiet == [what |-> Nothing, left |-> 0, bad |-> FALSE, heard |-> FALSE]
Spoil(tx) == IF tx = Quiet THEN Quiet ELSE [tx EXCEPT !.bad = TRUE]

\* send_packet in the busmaster.  Two transmitters at once spoil both packets.
\* While the pinpad's status is MESSAGE, its receive interrupt goes back to
\* multi-processor mode after the address byte: it hears the packet only if
\* its ring is empty when the packet starts.  A packet started while the last
\* one is still being shifted out cuts that one off, and may itself be lost
\* with it.  A packet for another address is "foreign": the pinpad's interrupt
\* drops it but for the address byte, which the WRONG_CRC branch takes out of
\* the ring when the next packet comes (module UartRx).
MasterSends(w) ==
    \E bad \in IF mtx = Quiet THEN {stx # Quiet} ELSE BOOLEAN :
        /\ mtx' = [what |-> [kind |-> w], left |-> PacketTime, bad |-> bad,
                   heard |-> w # "foreign" /\ request = "nothing"]
        /\ stx' = Spoil(stx)

\* send_packet in the pinpad
PinpadSends(p) ==
    /\ stx' = [what |-> p, left |-> PacketTime, bad |-> mtx # Quiet, heard |-> TRUE]
    /\ mtx' = Spoil(mtx)

Pong(n) == [kind |-> "pong", count |-> n]
Reply(packet) == [kind |-> "message", packet |-> packet]

\* The busmaster's packet has been shifted out.
ArrivesAtPinpad ==
    /\ mtx # Quiet /\ mtx.left = 0
    /\ mtx' = Quiet
    /\ request' = IF mtx.heard /\ ~mtx.bad THEN mtx.what.kind ELSE request
    /\ UNCHANGED <<queueVars, master, spc, stimer, accepted, stx, udps, losses, stalls, restarts>>

\* The pinpad's packet has been shifted out.
ArrivesAtMaster ==
    /\ stx # Quiet /\ stx.left = 0
    /\ stx' = Quiet
    /\ inbox' = IF stx.bad THEN inbox ELSE Append(inbox, stx.what)
    /\ UNCHANGED <<queueVars, mpc, mtimer, cnt, burst_remain, burst_sender, copy, forwarded,
                   slave, mtx, udps, losses, stalls, restarts>>

\* The line disturbs a packet.
Lose ==
    /\ losses < MaxLosses /\ losses' = losses + 1
    /\ \/ mtx # Quiet /\ mtx' = Spoil(mtx) /\ UNCHANGED stx
       \/ stx # Quiet /\ stx' = Spoil(stx) /\ UNCHANGED mtx
    /\ UNCHANGED <<queueVars, master, slave, udps, stalls, restarts>>

-----------------------------------------------------------------------------
(* The busmaster *)

\* The top of the loop: a UDP packet from the Ethernet is sent over the bus.
Forward ==
    /\ mpc = "top" /\ udps < MaxUdp
    /\ udps' = udps + 1
    /\ MasterSends("command")
    /\ \E pass \in MasterPass : mtimer' = Pause + pass
    /\ cnt' = AfterUdp
    /\ mpc' = "pass"
    /\ UNCHANGED <<queueVars, burst_remain, burst_sender, inbox, copy, forwarded, slave,
                   losses, stalls, restarts>>

NoUdp ==
    /\ mpc = "top"
    /\ \E pass \in MasterPass : mtimer' = pass
    /\ mpc' = "pass"
    /\ UNCHANGED <<queueVars, cnt, burst_remain, burst_sender, inbox, copy, forwarded, slave,
                   mtx, stx, udps, losses, stalls, restarts>>

\* `if (cnt++ == 50)': a ping, built in the shared lbuffer.  The packets in
\* `forms' are what it can turn into before it is shifted out.
PingWhenDue(forms) ==
    IF cnt = PingAt
    THEN cnt' = 0 /\ \E w \in forms : MasterSends(w)
    ELSE cnt' = cnt + 1 /\ UNCHANGED <<mtx, stx>>

EndOfDelay == mpc = "pass" /\ mtimer = 0

\* bus_status says IDLE.
NothingReceived ==
    /\ EndOfDelay /\ inbox = <<>>
    /\ PingWhenDue({"ping"})
    /\ mpc' = "top"
    /\ UNCHANGED <<queueVars, mtimer, burst_remain, burst_sender, inbox, copy, forwarded, slave,
                   udps, losses, stalls, restarts>>

\* (mutant) packet_done is not called.
PassOn_not_done ==
    /\ forwarded' = IF Head(inbox).kind = "message"
                    THEN Append(forwarded, Head(inbox).packet) ELSE forwarded
    /\ UNCHANGED inbox

\* raw_send and packet_done
PassOn ==
    /\ forwarded' = IF Head(inbox).kind = "message"
                    THEN Append(forwarded, Head(inbox).packet) ELSE forwarded
    /\ inbox' = Tail(inbox)

\* A slot that was never written, or was cleared by a restart, holds zeros: sent,
\* it is a packet from 0 to 0 without payload, and its checksum fits.
Blank(p) == p.kind = "message" /\ p.packet.head = Nothing

Source(p) == IF Blank(p) THEN 0 ELSE 1

\* What the busmaster finds behind the header in its static copy of p: when p has
\* no payload, that of an earlier packet.
Payload(p) ==
    IF Blank(p) THEN copy
    ELSE IF p.kind = "pong" THEN p ELSE [kind |-> "message"]

IsPong(p) == Payload(p).kind = "pong"

\* (mutant) a single packet is not requested.
Announces_off_by_one(p) == IsPong(p) /\ Payload(p).count > 1

Announces(p) == IsPong(p) /\ Payload(p).count > 0

ContinuesBurst(p) == ~IsPong(p) /\ Source(p) = burst_sender /\ burst_remain > 0

\* What a ping can turn into when a request to the sender of p is built over it
\* while it is being shifted out.
Forms(p) == {"ping", "send", "other"} \cup (IF Source(p) = 0 THEN {"foreign"} ELSE {})

\* (mutant) the packet requested at once is not counted off the burst.
GetsPong_counts_all ==
    /\ EndOfDelay /\ inbox # <<>> /\ Announces(Head(inbox))
    /\ PingWhenDue(Forms(Head(inbox)))
    /\ burst_remain' = Payload(Head(inbox)).count
    /\ burst_sender' = Source(Head(inbox))
    /\ copy' = Payload(Head(inbox))
    /\ mpc' = "request" /\ mtimer' = Pause
    /\ UNCHANGED <<queueVars, inbox, forwarded, slave, udps, losses, stalls, restarts>>

\* A pong that announces packets.  The request is built in lbuffer at once:
\* a ping sent in the same pass is still being shifted out from there.
GetsPong ==
    /\ EndOfDelay /\ inbox # <<>> /\ Announces(Head(inbox))
    /\ PingWhenDue(Forms(Head(inbox)))
    /\ burst_remain' = Payload(Head(inbox)).count - 1
    /\ burst_sender' = Source(Head(inbox))
    /\ copy' = Payload(Head(inbox))
    /\ mpc' = "request" /\ mtimer' = Pause
    /\ UNCHANGED <<queueVars, inbox, forwarded, slave, udps, losses, stalls, restarts>>

\* A packet of a burst that goes on.
GetsPacket ==
    /\ EndOfDelay /\ inbox # <<>> /\ ContinuesBurst(Head(inbox))
    /\ PingWhenDue(Forms(Head(inbox)))
    /\ burst_remain' = burst_remain - 1
    /\ copy' = Payload(Head(inbox))
    /\ mpc' = "request" /\ mtimer' = Pause
    /\ UNCHANGED <<queueVars, burst_sender, inbox, forwarded, slave, udps, losses, stalls, restarts>>

\* Any other packet: a pong without packets, or a packet outside a burst.
GetsOther ==
    /\ EndOfDelay /\ inbox # <<>>
    /\ ~Announces(Head(inbox)) /\ ~ContinuesBurst(Head(inbox))
    /\ PingWhenDue({"ping"})
    /\ IF IsPong(Head(inbox))
       THEN UNCHANGED <<burst_remain, burst_sender>>
       ELSE burst_remain' = 0 /\ burst_sender' = 0
    /\ copy' = Payload(Head(inbox))
    /\ PassOn
    /\ mpc' = "top"
    /\ UNCHANGED <<queueVars, mtimer, slave, udps, losses, stalls, restarts>>

\* The request goes to the sender of the packet, which is now burst_sender.
SendRequest ==
    /\ mpc = "request" /\ mtimer = 0
    /\ MasterSends(IF burst_sender = 1 THEN "send" ELSE "foreign")
    /\ mpc' = "requested" /\ mtimer' = Pause
    /\ UNCHANGED <<queueVars, cnt, burst_remain, burst_sender, inbox, copy, forwarded, slave,
                   udps, losses, stalls, restarts>>

Requested ==
    /\ mpc = "requested" /\ mtimer = 0
    /\ cnt' = 0
    /\ PassOn
    /\ mpc' = "top"
    /\ UNCHANGED <<queueVars, mtimer, burst_remain, burst_sender, copy, slave, mtx, stx,
                   udps, losses, stalls, restarts>>

Master == \/ Forward \/ NoUdp \/ NothingReceived \/ GetsPong \/ GetsPacket \/ GetsOther
          \/ SendRequest \/ Requested

-----------------------------------------------------------------------------
(* The pinpad *)

\* senddata, with its history
Says(m) ==
    /\ senddata(m)
    /\ accepted' = IF packetcnt' = packetcnt THEN accepted ELSE Append(accepted, m)

\* The start of a pass: a key was pressed or a sensor changed.  handle_command
\* and send_state put a message into the buffer, and can keep the loop busy
\* (EEPROM search, unlock_door, lock_door).
Event(m, stall) ==
    /\ spc = "main"
    /\ Len(accepted) < MaxMessages
    /\ Says(m)
    /\ stimer' = stall
    /\ spc' = IF stall = 0 THEN "main" ELSE "busy"
    /\ stalls' = IF stall = 0 THEN stalls ELSE stalls + 1
    /\ stalls' <= MaxStalls
    /\ UNCHANGED <<master, request, mtx, stx, udps, losses, restarts>>

\* The delays at the end of a command, or the start-up delays, are over.
Continue ==
    /\ spc \in {"busy", "boot"} /\ stimer = 0
    /\ spc' = "main"
    /\ UNCHANGED <<queueVars, master, stimer, request, accepted, mtx, stx,
                   udps, losses, stalls, restarts>>

\* The main loop finds a packet and begins with its branch's delay.
Begin(w, place, delay) ==
    /\ spc = "main" /\ request = w
    /\ spc' = place /\ stimer' = delay
    /\ UNCHANGED <<queueVars, master, request, accepted, mtx, stx, udps, losses, stalls, restarts>>

\* packet_done
Done == request' = "nothing" /\ spc' = "main"

\* "ping" is answered with "pong" and the number of packets.
SendPong ==
    /\ spc = "pong" /\ stimer = 0
    /\ PinpadSends(Pong(packetcnt))
    /\ Done
    /\ UNCHANGED <<queueVars, master, stimer, accepted, udps, losses, stalls, restarts>>

\* "send" is answered with the packet in the next slot; then 25 ms more.
SendSlot ==
    /\ spc = "fetch" /\ stimer = 0
    /\ PinpadSends(Reply(PacketAt(rb_next)))
    /\ take_next
    /\ spc' = "fetched" /\ stimer' = Pause
    /\ UNCHANGED <<master, request, accepted, udps, losses, stalls, restarts>>

SlotSent ==
    /\ spc = "fetched" /\ stimer = 0
    /\ Done
    /\ UNCHANGED <<queueVars, master, stimer, accepted, mtx, stx, udps, losses, stalls, restarts>>

\* "open": the door first, then the message.
Opened ==
    /\ spc = "open" /\ stimer = 0
    /\ Says(OpenMessage)
    /\ Done
    /\ UNCHANGED <<master, stimer, mtx, stx, udps, losses, stalls, restarts>>

\* A payload no branch knows.
Ignore ==
    /\ spc = "main" /\ request = "other"
    /\ Done
    /\ UNCHANGED <<queueVars, master, stimer, accepted, mtx, stx, udps, losses, stalls, restarts>>

\* The pinpad loses power or its ring overflows: everything is cleared, its
\* transmission breaks off, and a packet on the line goes past it.
Restart ==
    /\ restarts < MaxRestarts /\ restarts' = restarts + 1
    /\ restart
    /\ request' = "nothing"
    /\ spc' = "boot" /\ stimer' = BootTime
    /\ stx' = Spoil(stx)
    /\ mtx' = IF mtx = Quiet THEN Quiet ELSE [mtx EXCEPT !.heard = FALSE]
    /\ UNCHANGED <<master, accepted, udps, losses, stalls>>

Pinpad == \/ \E m \in Messages, stall \in Stalls : Event(m, stall)
          \/ Continue
          \/ Begin("ping", "pong", Pause)
          \/ Begin("send", "fetch", Pause)
          \/ Begin("command", "open", DoorTime)
          \/ SendPong \/ SendSlot \/ SlotSent \/ Opened \/ Ignore

-----------------------------------------------------------------------------
(* Time *)

\* The busmaster starts when the pinpad has long been running; that both start
\* together is a Restart of the pinpad in this state.
PollInit ==
    /\ QueueInit
    /\ mpc = "top" /\ mtimer = 0 /\ cnt = 0
    /\ burst_remain = 0 /\ burst_sender = 0
    /\ inbox = <<>> /\ copy = Nothing /\ forwarded = <<>>
    /\ spc = "main" /\ stimer = 0
    /\ request = "nothing" /\ accepted = <<>>
    /\ mtx = Quiet /\ stx = Quiet
    /\ udps = 0 /\ losses = 0 /\ stalls = 0 /\ restarts = 0

Down(tx) == IF tx = Quiet THEN Quiet ELSE [tx EXCEPT !.left = @ - 1]

\* Time passes while both programs wait and no packet is due.
Tick ==
    /\ mpc # "top" /\ mtimer > 0
    /\ IF spc = "main" THEN request = "nothing" ELSE stimer > 0
    /\ mtx = Quiet \/ mtx.left > 0
    /\ stx = Quiet \/ stx.left > 0
    /\ mtimer' = mtimer - 1
    /\ stimer' = IF spc = "main" THEN stimer ELSE stimer - 1
    /\ mtx' = Down(mtx) /\ stx' = Down(stx)
    /\ UNCHANGED <<queueVars, mpc, cnt, burst_remain, burst_sender, inbox, copy, forwarded,
                   spc, request, accepted, udps, losses, stalls, restarts>>

Arrive == ArrivesAtPinpad \/ ArrivesAtMaster

PollNext == Tick \/ Arrive \/ Lose \/ Master \/ Pinpad \/ Restart

PollSpec == PollInit /\ [][PollNext]_pollVars

\* Time goes on, the processors run, a packet on the line arrives.
PollFairness == WF_pollVars(Tick \/ Arrive \/ Master \/ Pinpad)

FairPollSpec == PollSpec /\ PollFairness

-----------------------------------------------------------------------------
(* Properties *)

\* The protocol as a whole uses the pinpad's buffer politely: although a
\* request carries no number, can be lost, can be late by a whole stall of the
\* pinpad, and can even be what a ping turned into, every request that reaches
\* the pinpad finds a packet waiting.  With QueueRefinement, the buffer then is a
\* first-in first-out queue.
RequestsArePolite == PoliteSpec

\* s is obtained from t by leaving out elements.
IsSubsequence(s, t) ==
    \E f \in [DOMAIN s -> DOMAIN t] :
        /\ \A i, j \in DOMAIN s : i < j => f[i] < f[j]
        /\ \A i \in DOMAIN s : s[i] = t[f[i]]

\* What reaches the Ethernet are the pinpad's messages, in order, none twice,
\* none changed.
ForwardedInOrder ==
    IsSubsequence(forwarded, [k \in DOMAIN accepted |-> PacketOf(accepted[k])])

\* The busmaster's ring never holds more than the packet being handled and the
\* one behind it, which is all its receiver can tell apart.
MasterKeepsUp == Len(inbox) <= 2

\* Every message in the buffer is requested in the end.
Drained == <>[](packetcnt = 0)

\* On a line that loses nothing, with a pinpad that neither stalls nor restarts
\* and no command from the Ethernet, every message reaches the Ethernet.  (With
\* one of these, the pinpad's answer can collide with the next ping.)
EveryMessageForwarded ==
    \A n \in 1 .. MaxMessages :
        Len(accepted) >= n ~> Len(forwarded) >= n \/ restarts + losses + stalls + udps > 0

\* The pong contains the number of packets the pinpad has (README:57-58), so
\* never more than its buffer holds.
PongIsPossible == stx.what.kind = "pong" => stx.what.count < Slots

=============================================================================
