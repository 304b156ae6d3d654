----------------------------- MODULE ResetCard -----------------------------
(***************************************************************************)
(* The reset card busmaster's way from the gateway to the bus              *)
(* (busmaster-resetcard/main.c): commands "^ddllpayload$" with the         *)
(* destination and the length in two digits each.  The receive interrupt   *)
(* collects bytes in eth_to_rs; the main loop looks from time to time      *)
(* whether the last one is '$'.                                            *)
(*                                                                         *)
(* A byte is its character, the command it belongs to and its place there. *)
(***************************************************************************)
EXTENDS Integers, Sequences, FiniteSets

CONSTANTS
    BufferEnd,      \* 127 in the code
    Room,           \* 26 in the code: lbuffer without the header of a packet
    Payloads,       \* sequences of characters
    MaxCommands,    \* bound on the commands
    MaxDropped      \* bound on the commands that lose a byte

Nul == 0
Dollar == 36
Caret == 94
DigitChar(d) == 48 + d
IsDigit(char) == char \in 48 .. 57

\* Characters around the payload: "^", four digits and '$'.
Framing == 6

ASSUME ResetCardAssumption ==
    /\ {BufferEnd, Room} \subseteq Nat
    /\ \A payload \in Payloads :
          /\ payload \in Seq(0 .. 255 \ {Nul, Dollar, Caret})
          /\ Len(payload) < 100 /\ Len(payload) + Framing <= BufferEnd
    /\ {MaxCommands, MaxDropped} \subseteq Nat

VARIABLES
    given,      \* the payloads of the commands so far
    serial,     \* their bytes still on the way
    eth_to_rs, eth_to_rs_cnt,
    rpc, dest, pktlen,
    came,       \* a byte came since the main loop looked
    sent,       \* history: the packets sent over the bus
    crowded,    \* history: commands that came together with another or with its handling
    cut         \* history: commands that lost a byte

resetVars == <<given, serial, eth_to_rs, eth_to_rs_cnt, rpc, dest, pktlen, came, sent, crowded, cut>>

Byte(char, command, place) == <<char, command, place>>
Char(byte) == byte[1]
CommandOf(byte) == byte[2]
NulByte == Byte(Nul, 0, 0)

Participant == 1   \* the pinpad

\* "%02d"
TwoDigits(n) == <<DigitChar(n \div 10), DigitChar(n % 10)>>

CommandText(payload) ==
    <<Caret>> \o TwoDigits(Participant) \o TwoDigits(Len(payload)) \o payload \o <<Dollar>>

CommandBytes(n, payload) ==
    [place \in 1 .. Len(payload) + Framing |-> Byte(CommandText(payload)[place], n, place)]

\* The byte in front of the array, at -1, is whatever the build has there.
ResetInit ==
    /\ given = <<>> /\ serial = <<>>
    /\ \E front \in {Nul, Dollar} :
          eth_to_rs = [i \in -1 .. BufferEnd |-> IF i = -1 THEN Byte(front, 0, 0) ELSE NulByte]
    /\ eth_to_rs_cnt = 0
    /\ rpc = "loop" /\ dest = 0 /\ pktlen = 0
    /\ came = FALSE /\ sent = <<>> /\ crowded = {} /\ cut = {}

Give(payload) ==
    /\ Len(given) < MaxCommands
    /\ given' = Append(given, payload)
    /\ serial' = serial \o CommandBytes(Len(given'), payload)
    /\ UNCHANGED <<eth_to_rs, eth_to_rs_cnt, rpc, dest, pktlen, came, sent, crowded, cut>>

\* The commands in the buffer.
Collected == {CommandOf(eth_to_rs[i]) : i \in 0 .. eth_to_rs_cnt - 1} \ {0}

\* ISR(USART0_RX_vect); behind the end it starts again.  At 9600 baud a byte takes a
\* millisecond, longer than the main loop needs from its look to fmt_packet or to the
\* first DBG; writing the debug output and the delay take as long as many bytes.
ReceiveByte ==
    /\ serial # <<>>
    /\ rpc # "overrun"
    /\ rpc \in {"loop", "complain", "delay"} \/ ~came
    /\ came' = TRUE
    /\ serial' = Tail(serial)
    /\ LET data == Head(serial)
           at == IF eth_to_rs_cnt = BufferEnd THEN 0 ELSE eth_to_rs_cnt
           taken == at > 0 \/ Char(data) = Caret
           together == Collected \cup {CommandOf(data)}
       IN  /\ eth_to_rs' = IF taken THEN [eth_to_rs EXCEPT ![at] = data] ELSE eth_to_rs
           /\ eth_to_rs_cnt' = IF taken THEN at + 1 ELSE at
           /\ crowded' = IF together # {CommandOf(data)} \/ rpc \notin {"loop", "last"}
                         THEN crowded \cup together ELSE crowded
    /\ UNCHANGED <<given, rpc, dest, pktlen, sent, cut>>

\* The line loses a byte of a command, one at most.
DropByte ==
    /\ serial # <<>> /\ Cardinality(cut) < MaxDropped
    /\ CommandOf(Head(serial)) \notin cut
    /\ cut' = cut \cup {CommandOf(Head(serial))}
    /\ serial' = Tail(serial)
    /\ UNCHANGED <<given, eth_to_rs, eth_to_rs_cnt, rpc, dest, pktlen, came, sent, crowded>>

-----------------------------------------------------------------------------
(* The main loop reads the counter again and again; the interrupt can come in *)
(* between.                                                                   *)

Step(to) == rpc' = to /\ UNCHANGED <<given, serial, sent, crowded, cut>>
Goes(to) == Step(to) /\ UNCHANGED came

\* `eth_to_rs_cnt > 0 && ...'
SeeBytes ==
    /\ rpc = "loop" /\ eth_to_rs_cnt > 0
    /\ Step("last") /\ came' = FALSE /\ UNCHANGED <<eth_to_rs, eth_to_rs_cnt, dest, pktlen>>

\* `... eth_to_rs[eth_to_rs_cnt-1] == '$''
SeeEnd ==
    /\ rpc = "last"
    /\ Goes(IF Char(eth_to_rs[eth_to_rs_cnt - 1]) = Dollar THEN "terminate" ELSE "loop")
    /\ UNCHANGED <<eth_to_rs, eth_to_rs_cnt, dest, pktlen>>

Terminate ==
    /\ rpc = "terminate"
    /\ eth_to_rs' = [eth_to_rs EXCEPT ![eth_to_rs_cnt - 1] = NulByte]
    /\ Goes("dest") /\ UNCHANGED <<eth_to_rs_cnt, dest, pktlen>>

\* What sscanf makes of the two characters from this place on, in a string of
\* their own.  The first of the two is always a digit when a command loses one byte
\* at most, so the blanks and signs that sscanf takes, too, do not matter.
IsNumber(i) == IsDigit(Char(eth_to_rs[i]))
Number(i) ==
    LET first == Char(eth_to_rs[i]) - 48
        second == Char(eth_to_rs[i + 1])
    IN  IF IsDigit(second) THEN 10 * first + second - 48 ELSE first

ParseDest ==
    /\ rpc = "dest"
    /\ IF IsNumber(1)
       THEN dest' = Number(1) /\ Goes("len")
       ELSE Goes("complain") /\ UNCHANGED dest
    /\ UNCHANGED <<eth_to_rs, eth_to_rs_cnt, pktlen>>

ParseLen ==
    /\ rpc = "len"
    /\ IF IsNumber(3)
       THEN pktlen' = Number(3) /\ Goes("check")
       ELSE Goes("complain") /\ UNCHANGED pktlen
    /\ UNCHANGED <<eth_to_rs, eth_to_rs_cnt, dest>>

\* (mutant) the bytes around the payload are counted wrong.
LengthAgrees_off == pktlen = eth_to_rs_cnt - Framing + 1

\* (mutant) more characters than needed are fine.
LengthAgrees_at_least == pktlen <= eth_to_rs_cnt - Framing

LengthAgrees == pktlen = eth_to_rs_cnt - Framing

CheckLength ==
    /\ rpc = "check"
    /\ Goes(IF LengthAgrees THEN "send" ELSE "complain")
    /\ UNCHANGED <<eth_to_rs, eth_to_rs_cnt, dest, pktlen>>

\* fmt_packet, send_packet and the delay.  The packet belongs to the command that
\* its destination comes from.
SendCommand ==
    /\ rpc = "send" /\ pktlen <= Room
    /\ sent' = Append(sent, [command |-> CommandOf(eth_to_rs[1]), to |-> dest,
                              payload |-> [i \in 1 .. pktlen |-> eth_to_rs[4 + i]]])
    /\ rpc' = "delay"
    /\ UNCHANGED <<given, serial, eth_to_rs, eth_to_rs_cnt, dest, pktlen, came, crowded, cut>>

\* fmt_packet writes over what is behind lbuffer: what the program
\* does from here on depends on what the build puts there, and is not modelled.
Overrun ==
    /\ rpc = "send" /\ pktlen > Room
    /\ Goes("overrun") /\ UNCHANGED <<eth_to_rs, eth_to_rs_cnt, dest, pktlen>>

\* Behind the debug output about a bad command, and behind the delay.
SetBack ==
    /\ rpc \in {"complain", "delay"}
    /\ eth_to_rs_cnt' = 0
    /\ Goes("loop") /\ UNCHANGED <<eth_to_rs, dest, pktlen>>

ResetMain ==
    \/ SeeBytes \/ SeeEnd \/ Terminate \/ ParseDest \/ ParseLen \/ CheckLength
    \/ SendCommand \/ Overrun \/ SetBack

ResetNext ==
    \/ \E payload \in Payloads : Give(payload)
    \/ ReceiveByte \/ DropByte
    \/ ResetMain

ResetSpec == ResetInit /\ [][ResetNext]_resetVars

-----------------------------------------------------------------------------
(* Properties *)

\* The bytes of the payload of command n.
Payload(n) == [i \in 1 .. Len(given[n]) |-> Byte(given[n][i], n, 5 + i)]

\* With a character less in front, the length of these can still come out right.
Ambiguous(payload) == Len(payload) = 1 \/ (payload # <<>> /\ IsDigit(payload[1]))

\* Until a payload is too long for lbuffer:
\* a packet that goes over the bus is one of the commands, for its destination and
\* with all of its payload, in the order they were given and once, whatever
\* arrives while the main loop reads the buffer.  Only a command that lost a byte
\* can be wrong: when the next one was pressing, its '$' may stand in for the
\* byte, and a digit that begins the payload may do so for one in front of it.
SentWasGiven ==
    /\ \A k \in DOMAIN sent :
          LET n == sent[k].command
          IN  /\ n \in DOMAIN given
              /\ \/ sent[k].to = Participant /\ sent[k].payload = Payload(n)
                 \/ n \in cut /\ (n \in crowded \/ Ambiguous(given[n]))
    /\ \A j, k \in DOMAIN sent : j < k => sent[j].command < sent[k].command

\* When nothing is on the way and the main loop has looked, a command that was not
\* sent lost a byte, or came together with another one or while one was handled: no
\* other one is lost, and a bad command takes along only what comes while it is
\* handled or complained about.
LostForAReason ==
    (serial = <<>> /\ rpc = "loop"
       /\ (eth_to_rs_cnt = 0 \/ Char(eth_to_rs[eth_to_rs_cnt - 1]) # Dollar)) =>
        DOMAIN given \subseteq {sent[k].command : k \in DOMAIN sent} \cup crowded \cup cut

=============================================================================
