----------------------------- MODULE EthFrames -----------------------------
(***************************************************************************)
(* The Ethernet frames of the busmaster (busmaster/main.c, icmpv6.c).  All *)
(* of them are built in one buffer, uip_buf, which starts as a template    *)
(* for UDP: a handler sets the fields it knows about and relies on the     *)
(* others.  The pass counter cnt decides when the busmaster pings.         *)
(*                                                                         *)
(* The buffer is a record of its fields, named after their offsets where   *)
(* one is set on its own; a checksum is the length it was computed with.   *)
(***************************************************************************)
EXTENDS Integers, Sequences

CONSTANTS
    Nodes,        \* bus addresses; 0 is the busmaster
    Payload,      \* payload lengths of bus packets
    EchoLengths,  \* lengths of echo requests, of 8 and more
    SolicitationLengths,  \* of neighbour solicitations: 24, or 32 with an option
    UdpGap,       \* passes of the loop between two UDP packets
    MaxAnswers    \* bus packets in answer to a ping

ASSUME EthFramesAssumption ==
    /\ 0 \in Nodes /\ UdpGap \in Nat \ {0} /\ MaxAnswers \in Nat
    /\ \A n \in Payload : n \in 0 .. 120
    /\ \A n \in EchoLengths : n \in 8 .. 146
    /\ SolicitationLengths \subseteq 0 .. 255

VARIABLES
    uip_buf,
    cnt,
    transmitted,   \* what was transmitted in the last pass, with what it was to be
    sinceUdp,      \* passes since the last UDP packet
    answers        \* bus packets that may still come

ethVars == <<uip_buf, cnt, transmitted, sinceUdp, answers>>

Udp == 17
Icmp == 58
Client == "client"        \* the addresses of the host that sent a request
Group == "ff05::b5:"      \* the multicast group, but for its last byte
Own == "fd1a::b5:"        \* the busmaster, but for its last byte
Foreign == 256            \* a byte of the request
Text(t) == <<"text", t>>

Template ==
    [dmac |-> Group, b5 |-> 1, smac |-> Own, b11 |-> 0, b19 |-> 0, next |-> Udp, hop |-> 3,
     src |-> Own, b37 |-> 1, dst |-> Group, b53 |-> 1,
     b54 |-> "ports", b56 |-> <<"ports">>, b58 |-> 0, b59 |-> 0, b60 |-> <<"zero">>, data |-> Text("none"), len |-> 0]

EthInit ==
    /\ uip_buf = Template /\ cnt = 0 /\ transmitted = <<>>
    /\ sinceUdp = UdpGap /\ answers = 0

\* raw_send: the lengths, the checksum and the payload.
raw_send(b, data, n) ==
    [b EXCEPT !.b19 = 8 + n, !.b59 = 8 + n, !.b60 = <<"sum", 8 + n>>, !.data = data, !.len = 62 + n]

\* syslog_send speaks for the busmaster, to the group of node 1.
syslog_send(b, text, n) ==
    raw_send([b EXCEPT !.b5 = 1, !.b53 = 1, !.b11 = 0, !.b37 = 0], Text(text), n)

\* Packets of the bus are sent for their node.
ForNode(b, destination, source) ==
    [b EXCEPT !.b5 = destination, !.b53 = destination, !.b11 = source, !.b37 = source]

\* start_icmpv6_reply; the sender of the request becomes the destination.
start_icmpv6_reply(b) ==
    [b EXCEPT !.dmac = Client, !.b5 = Foreign, !.b11 = 0, !.next = Icmp, !.hop = 255,
              !.dst = Client, !.b53 = Foreign]

\* finish_icmpv6_reply: the length in the checksum is the request's.
finish_icmpv6_reply(b, requestLength) == [b EXCEPT !.b56 = <<"sum", requestLength>>]

\* (mutant) one byte less is saved: the one behind, 58, keeps the flags of an
\* advertisement.
restored_short(b, reply) ==
    [b EXCEPT !.b58 = reply.b58, !.b59 = reply.b59, !.b60 = reply.b60, !.data = reply.data]

\* The first 59 bytes come back.
restored(b, reply) == [b EXCEPT !.b59 = reply.b59, !.b60 = reply.b60, !.data = reply.data]

\* handle_neighbor_sol, for an address `target' of the whole range.  The length of
\* the request is not looked at; the answer always has an option, so 32 bytes.
neighbor_advertisement(b, target, requestLength) ==
    finish_icmpv6_reply(
        [start_icmpv6_reply(b) EXCEPT
            !.src = Own, !.b37 = target, !.b54 = "advertisement", !.b58 = 64, !.b59 = 0, !.b60 = <<"zero">>,
            !.data = <<"target", target>>, !.b19 = 32, !.len = 86],
        requestLength)

\* handle_echo_req; two bytes too many are sent.
echo_reply(b, n) ==
    finish_icmpv6_reply(
        [start_icmpv6_reply(b) EXCEPT
            !.b37 = 0, !.b54 = "echo reply", !.b58 = Foreign, !.b59 = Foreign, !.b60 = <<"sequence">>,
            !.data = <<"echo", n>>, !.b19 = n, !.len = 64 + (n - 8)],
        n)

\* A step of a pass: the buffer behind it and what it transmits.
Quiet(b) == [buf |-> b, out |-> <<>>]
Then(step, buf, what, frame) ==
    [buf |-> buf, out |-> Append(step.out, [what |-> what, frame |-> frame])]
Sends(step, what, frame) == Then(step, frame, what, frame)
Syslog(step, text, n) == Sends(step, <<"udp", 1, 0, Text(text), n>>, syslog_send(step.buf, text, n))

-----------------------------------------------------------------------------
(* A pass of the loop: a frame that came in, the ping, a packet from the bus. *)

Solicited(step, target, n) ==
    LET reply == neighbor_advertisement(step.buf, target, n)
    IN  Then(step, restored(step.buf, reply), <<"advertisement", target, n>>, reply)

EchoRequested(step, n) ==
    LET reply == echo_reply(step.buf, n)
    IN  Then(step, restored(step.buf, reply), <<"echo", n>>, reply)

UdpToBus(step) == Syslog(step, "ethernet to rs485 done", 22)

Ping(step) == Syslog(step, "ping sent", 9)

\* What is told about a packet of the bus before it is passed on.
Noted(step, packet) ==
    LET pong == Syslog(step, "pong received", 13)
    IN  CASE packet = "empty pong" -> pong
          [] packet = "pong" -> Syslog(pong, "sendreq sent", 12)
          [] packet = "of a burst" -> Syslog(step, "nother sendreq sent", 19)
          [] OTHER -> step

PacketFromBus(step, destination, source, n, packet) ==
    LET before == Noted(step, packet)
    IN  Sends(before, <<"udp", destination, source, Text("payload"), n>>,
              raw_send(ForNode(before.buf, destination, source), Text("payload"), n))

\* Bytes that are no packet.
WrongCrc(step) ==
    LET before == Syslog(step, "broken", 6)
    IN  Sends(before, <<"udp", 1, 0, Text("packet"), 16>>, raw_send(before.buf, Text("packet"), 16))

Finish(step) == uip_buf' = step.buf /\ transmitted' = step.out

\* A packet from the bus; the busmaster does not hear itself.
FromBus(step, packets) ==
    \E destination \in Nodes, source \in Nodes \ {0}, n \in Payload, packet \in packets :
        Finish(PacketFromBus(step, destination, source, n, packet))

Due(count) == count = 50

\* (mutant) a UDP packet sets the counter back to the start.
AfterUdp_zero == 0

AfterUdp == 35

\* What happens behind the delay of 10 ms, with this counter: nothing comes from
\* the bus, or bytes or a packet do, and a packet may have to be followed by a
\* request, behind which the counter starts anew.
RestOfPass(step, count) ==
    LET pinged == IF Due(count) THEN Ping(step) ELSE step
        next == IF Due(count) THEN 0 ELSE count + 1
    IN  \/ /\ cnt' = next
           /\ answers' = IF Due(count) THEN MaxAnswers ELSE answers
           /\ Finish(pinged)
        \/ /\ answers > 0 /\ answers' = IF Due(count) THEN MaxAnswers ELSE answers - 1
           /\ \/ /\ cnt' = next
                 /\ \/ Finish(WrongCrc(pinged))
                    \/ FromBus(pinged, {"empty pong", "other"})
              \/ cnt' = 0 /\ FromBus(pinged, {"pong", "of a burst"})

\* No UDP packet came in.
PassWithoutUdp ==
    /\ sinceUdp' = IF sinceUdp < UdpGap THEN sinceUdp + 1 ELSE sinceUdp
    /\ \/ RestOfPass(Quiet(uip_buf), cnt)
       \/ \E target \in Nodes, n \in SolicitationLengths :
              RestOfPass(Solicited(Quiet(uip_buf), target, n), cnt)
       \/ \E n \in EchoLengths : RestOfPass(EchoRequested(Quiet(uip_buf), n), cnt)

PassWithUdp ==
    /\ sinceUdp >= UdpGap /\ sinceUdp' = 1
    /\ RestOfPass(UdpToBus(Quiet(uip_buf)), AfterUdp)

EthNext == PassWithoutUdp \/ PassWithUdp

\* The main loop goes on for ever.
EthSpec == EthInit /\ [][EthNext]_ethVars /\ WF_ethVars(EthNext)

-----------------------------------------------------------------------------
(* Properties *)

UdpFrame(b, destination, source, data, n) ==
    /\ b.dmac = Group /\ b.b5 = destination /\ b.dst = Group /\ b.b53 = destination
    /\ b.smac = Own /\ b.b11 = source /\ b.src = Own /\ b.b37 = source
    /\ b.next = Udp /\ b.hop = 3 /\ b.b54 = "ports" /\ b.b56 = <<"ports">>
    /\ b.b19 = 8 + n /\ b.b58 = 0 /\ b.b59 = 8 + n /\ b.b60 = <<"sum", 8 + n>>
    /\ b.data = data /\ b.len = 62 + n

IcmpFrame(b, source, type, requestLength) ==
    /\ b.dmac = Client /\ b.b5 = Foreign /\ b.dst = Client /\ b.b53 = Foreign
    /\ b.smac = Own /\ b.b11 = 0 /\ b.src = Own /\ b.b37 = source
    /\ b.next = Icmp /\ b.hop = 255 /\ b.b54 = type
    /\ b.b56 = <<"sum", b.b19>> <=> requestLength = b.b19
    /\ b.len >= 54 + b.b19

\* Whatever was sent before from the same buffer, a frame is what it was to be in
\* all its fields: addresses, lengths, ports and checksum of a UDP frame, and
\* those of an answer to a neighbour solicitation or an echo request.  With one
\* exception, which is exactly this: the checksum of an advertisement is wrong when
\* the solicitation was not as long as the advertisement (it came without the
\* link-layer option), because it is started with the length of the request.
FramesAreWellFormed ==
    \A k \in DOMAIN transmitted :
        LET what == transmitted[k].what
            b == transmitted[k].frame
        IN  CASE what[1] = "udp" -> UdpFrame(b, what[2], what[3], what[4], what[5])
              [] what[1] = "advertisement" ->
                     /\ IcmpFrame(b, what[2], "advertisement", what[3])
                     /\ b.b19 = 32 /\ b.data = <<"target", what[2]>>
              [] what[1] = "echo" ->
                     /\ IcmpFrame(b, 0, "echo reply", what[2])
                     /\ b.b19 = what[2] /\ b.data = <<"echo", what[2]>>

\* UDP packets that leave the busmaster enough passes in between do not keep it
\* from pinging.
Pinged == \E k \in DOMAIN transmitted : transmitted[k].what[1] = "udp" /\ transmitted[k].what[4] = Text("ping sent")
PingsContinue == []<>Pinged

=============================================================================
