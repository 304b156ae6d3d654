---------------------------- MODULE BusCommands ----------------------------
(***************************************************************************)
(* What the pinpad does with a packet for it: the message branch of main   *)
(* (firmware-pinpad/main.c) and the pulses it gives to the lock.  The      *)
(* branches look for their command in the static packet that               *)
(* current_packet fills, whatever the length of the packet: behind a short *)
(* payload there are the bytes of earlier ones.                            *)
(***************************************************************************)
EXTENDS Integers, Sequences

CONSTANTS
    Payloads,     \* what is sent to the pinpad, as sequences of characters
    Sources,      \* addresses of the senders; the busmaster is 0
    MemorySize,   \* characters of the static packet that are looked at
    MaxReceived   \* bound on the packets

ASSUME BusCommandsAssumption ==
    /\ \A p \in Payloads : p \in Seq(STRING) /\ Len(p) <= MemorySize
    /\ Sources \subseteq Nat /\ MemorySize \in Nat \ (0 .. 5) /\ MaxReceived \in Nat

VARIABLES
    memory,     \* the payload bytes of the static packet
    received,   \* history: the payloads since the restart, the last one being handled
    source,     \* packet->source
    cmdpc,      \* "bus_status", "branch" or "delay"
    doing,      \* the command that is or was carried out
    freq,       \* OCR1B in units of 3855: what the lock is told
    answers     \* the messages the packet being handled has caused

commandVars == <<memory, received, source, cmdpc, doing, freq, answers>>

Idle == 1

Commands == [ping   |-> <<"p", "i", "n", "g">>,
             send   |-> <<"s", "e", "n", "d">>,
             E      |-> <<"E">>,
             open   |-> <<"o", "p", "e", "n">>,
             close  |-> <<"c", "l", "o", "s", "e">>,
             nop    |-> <<"n", "o", "p">>,
             reset  |-> <<"r", "e", "s", "e", "t">>,
             status |-> <<"s", "t", "a", "t", "u", "s">>]

CommandsInit ==
    /\ memory = [i \in 1 .. MemorySize |-> "nul"]
    /\ received = <<>> /\ source = 0
    /\ cmdpc = "bus_status" /\ doing = "none" /\ freq = Idle /\ answers = <<>>

\* (mutant) the last byte of the payload is not copied.
Copied_short(p) == [i \in 1 .. MemorySize |-> IF i < Len(p) THEN p[i] ELSE memory[i]]

\* current_packet copies as many bytes as the packet has.
Copied(p) == [i \in 1 .. MemorySize |-> IF i <= Len(p) THEN p[i] ELSE memory[i]]

ReceivePacket(p, from) ==
    /\ cmdpc = "bus_status" /\ Len(received) < MaxReceived
    /\ memory' = Copied(p)
    /\ received' = Append(received, p)
    /\ source' = from
    /\ cmdpc' = "branch" /\ doing' = "none" /\ answers' = <<>>
    /\ UNCHANGED freq

\* memcmp(payload, command, strlen(command)) == 0
Matches(command) == \A i \in DOMAIN Commands[command] : memory[i] = Commands[command][i]

\* Only the busmaster may ping and fetch.  No command is the beginning of
\* another one, so the order of the branches does not matter.
Matched ==
    {command \in DOMAIN Commands :
        Matches(command) /\ (command \in {"ping", "send"} => source = 0)}

\* What OCR1B is set to before the delay.
Pulses == [open |-> 4, close |-> 8, reset |-> 16]

\* open, close and reset: the pulse begins.
BeginPulse ==
    /\ cmdpc = "branch"
    /\ \E command \in Matched \cap DOMAIN Pulses :
        /\ doing' = command
        /\ freq' = Pulses[command]
        /\ answers' = IF command = "reset" THEN <<"reset BUS">> ELSE <<>>
    /\ cmdpc' = "delay"
    /\ UNCHANGED <<memory, received, source>>

\* ... and ends, behind _delay_ms.
EndPulse ==
    /\ cmdpc = "delay"
    /\ freq' = Idle
    /\ answers' = CASE doing = "open" -> <<"OPEN bus">>
                    [] doing = "close" -> <<"LOCK bus">>
                    [] OTHER -> answers
    /\ cmdpc' = "bus_status"
    /\ UNCHANGED <<memory, received, source, doing>>

\* The other branches take no time here.  The answers to ping and send are in
\* Polling, the 'E' branch is in Eeprom and send_state in Capture.
AtOnce ==
    /\ cmdpc = "branch"
    /\ \/ \E command \in Matched \ DOMAIN Pulses :
           /\ doing' = command
           /\ freq' = IF command = "nop" THEN Idle ELSE freq
           /\ answers' = CASE command = "nop" -> <<"NOP bus">>
                           [] command = "E" -> <<"EEP">>
                           [] command = "status" -> <<"SRAW", "STAT", "X">>
                           [] OTHER -> <<>>
       \/ Matched = {} /\ UNCHANGED <<doing, freq, answers>>
    /\ cmdpc' = "bus_status"
    /\ UNCHANGED <<memory, received, source>>

\* The pinpad restarts at any time: its memory is cleared, the lock told nothing.
RestartCommands ==
    /\ memory' = [i \in 1 .. MemorySize |-> "nul"]
    /\ received' = <<>> /\ source' = 0
    /\ cmdpc' = "bus_status" /\ doing' = "none" /\ freq' = Idle /\ answers' = <<>>

CommandsNext ==
    \/ \E p \in Payloads, from \in Sources : ReceivePacket(p, from)
    \/ BeginPulse \/ EndPulse \/ AtOnce \/ RestartCommands

CommandsSpec == CommandsInit /\ [][CommandsNext]_commandVars

-----------------------------------------------------------------------------
(* Properties *)

StartsWith(p, command) ==
    Len(p) >= Len(Commands[command]) /\ SubSeq(p, 1, Len(Commands[command])) = Commands[command]

\* A packet whose payload starts with a command does that command, and a packet
\* that is long enough does nothing else.  A shorter one does at most a
\* command it is the beginning of, and only when every missing letter was sent
\* at its place since the restart.
DoesWhatItSays ==
    cmdpc # "branch" /\ received # <<>> =>
        LET p == received[Len(received)]
            allowed == {c \in DOMAIN Commands : c \in {"ping", "send"} => source = 0}
        IN  /\ \A c \in allowed : StartsWith(p, c) => doing = c
            /\ doing # "none" /\ ~StartsWith(p, doing) =>
                  /\ \A i \in DOMAIN p : i < Len(Commands[doing]) /\ p[i] = Commands[doing][i]
                  /\ \A i \in Len(p) + 1 .. Len(Commands[doing]) :
                        \E k \in DOMAIN received :
                            i \in DOMAIN received[k] /\ received[k][i] = Commands[doing][i]

=============================================================================
