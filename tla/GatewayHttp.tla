---------------------------- MODULE GatewayHttp ----------------------------
(***************************************************************************)
(* The HTTP side of the gateway (eth-to-hausbus/nemogw.pl): a client sends *)
(* a packet to a participant with POST or PUT, or stays to read what comes *)
(* for a group with GET.  Requests are read line by line, and a callback   *)
(* asks for the next line itself: one that returns without asking reads    *)
(* nothing more on its connection.  Clients may come before the connection *)
(* to the busmaster stands, and after it has ended.                        *)
(***************************************************************************)
EXTENDS Integers, Sequences, FiniteSets

CONSTANTS
    Clients,
    MaxLines    \* bound on the lines of a client

ASSUME HttpAssumption == MaxLines \in Nat

VARIABLES
    reads,             \* what the handle of a client waits for
    destination,       \* participant of its request, 0 when undefined
    content_length,    \* whether one was given
    conns,             \* the clients that read a group
    tcp_conn,          \* to the busmaster: undef until the connect callback, and
                       \* still a handle when it has ended
    written,           \* packets written to it: client and destination
    lines,             \* lines a client has sent
    answers            \* history: what a client was told

clientVars == <<reads, destination, content_length, conns, answers>>
httpVars == <<clientVars, tcp_conn, written, lines>>

Pinpad == 1

HttpInit ==
    /\ reads = [c \in Clients |-> "lines"]
    /\ destination = [c \in Clients |-> 0] /\ content_length = [c \in Clients |-> FALSE]
    /\ conns = {} /\ tcp_conn = "undef" /\ written = <<>>
    /\ lines = [c \in Clients |-> 0]
    /\ answers = [c \in Clients |-> <<>>]

Line(c) ==
    /\ reads[c] = "lines" /\ lines[c] < MaxLines
    /\ lines' = [lines EXCEPT ![c] = @ + 1]
    /\ UNCHANGED <<tcp_conn, written>>

\* (mutant) the callback goes on behind the answer.
Refuse_reads_on(c) ==
    /\ answers' = [answers EXCEPT ![c] = Append(@, 404)]
    /\ UNCHANGED reads

\* The answer, and no further line.
Refuse(c) ==
    /\ answers' = [answers EXCEPT ![c] = Append(@, 404)]
    /\ reads' = [reads EXCEPT ![c] = "nothing"]

Post(c) ==
    /\ Line(c)
    /\ destination' = [destination EXCEPT ![c] = Pinpad]
    /\ UNCHANGED <<reads, content_length, conns, answers>>

\* Neither POST nor GET with an unknown name goes further.
Unknown(c) ==
    /\ Line(c) /\ Refuse(c)
    /\ UNCHANGED <<destination, content_length, conns>>

Get(c) ==
    /\ Line(c)
    /\ conns' = conns \cup {c}
    /\ UNCHANGED <<reads, destination, content_length, answers>>

ContentLength(c) ==
    /\ Line(c)
    /\ content_length' = [content_length EXCEPT ![c] = TRUE]
    /\ UNCHANGED <<reads, destination, conns, answers>>

EmptyLine(c) ==
    /\ Line(c)
    /\ reads' = [reads EXCEPT ![c] = IF content_length[c] THEN "body" ELSE "lines"]
    /\ UNCHANGED <<destination, content_length, conns, answers>>

\* $nopcb takes further lines and does nothing with them.
AfterBody == "ignored"

\* The body goes to the busmaster; to a connection that has ended nothing is
\* written, but the client is told the same.
Forward(c) ==
    /\ reads[c] = "body" /\ tcp_conn # "undef"
    /\ written' = IF tcp_conn = "up" THEN Append(written, <<c, destination[c]>>) ELSE written
    /\ answers' = [answers EXCEPT ![c] = Append(@, 200)]
    /\ reads' = [reads EXCEPT ![c] = AfterBody]
    /\ UNCHANGED <<destination, content_length, conns, tcp_conn, lines>>

\* push_write on undef dies: either the event loop goes on without the callback, or
\* the program ends, and with it every connection.
Die(c) ==
    /\ reads[c] = "body" /\ tcp_conn = "undef"
    /\ \/ /\ reads' = [reads EXCEPT ![c] = "nothing"]
          /\ UNCHANGED <<conns, tcp_conn>>
       \/ /\ reads' = [d \in Clients |-> "closed"]
          /\ conns' = {} /\ tcp_conn' = "closed"
    /\ UNCHANGED <<destination, content_length, written, lines, answers>>

\* on_eof and on_error; the port may be used again.
Leave(c) ==
    /\ reads[c] # "closed"
    /\ reads' = [reads EXCEPT ![c] = "closed"]
    /\ conns' = conns \ {c}
    /\ UNCHANGED <<destination, content_length, tcp_conn, written, lines, answers>>

TcpConnects ==
    /\ tcp_conn = "undef" /\ tcp_conn' = "up"
    /\ UNCHANGED <<clientVars, written, lines>>

TcpEnds ==
    /\ tcp_conn = "up" /\ tcp_conn' = "closed"
    /\ UNCHANGED <<clientVars, written, lines>>

HttpNext ==
    \/ \E c \in Clients :
          \/ Post(c) \/ Get(c) \/ Unknown(c)
          \/ ContentLength(c) \/ EmptyLine(c)
          \/ Forward(c) \/ Die(c) \/ Leave(c)
    \/ TcpConnects \/ TcpEnds

HttpSpec == HttpInit /\ [][HttpNext]_httpVars

-----------------------------------------------------------------------------
(* Properties *)

WrittenBy(c) == {k \in DOMAIN written : written[k][1] = c}
Granted(c) == {k \in DOMAIN answers[c] : answers[c][k] = 200}

\* However the lines of a connection follow each other and whenever the busmaster's
\* connection comes and goes: one answer at most, a packet only with the answer 200 and
\* to the participant the client named last; and until that connection has ended there
\* is a packet with every such answer.
AnswersAreTrue ==
    \A c \in Clients :
        /\ Len(answers[c]) <= 1
        /\ Cardinality(WrittenBy(c)) <= Cardinality(Granted(c))
        /\ \A k \in WrittenBy(c) : written[k][2] = destination[c]
        /\ tcp_conn # "closed" => Cardinality(WrittenBy(c)) = Cardinality(Granted(c))

=============================================================================
