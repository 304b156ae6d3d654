---------------------------- MODULE PinpadProofs ----------------------------
(***************************************************************************)
(* Proofs about four parts of the pinpad, each with an inductive           *)
(* invariant of its own: the commands of the bus for any payloads, senders *)
(* and number of packets; the sensors for any samples and levels; the      *)
(* lock's pulse for any multiples of 1 .. 16, any counter values and a     *)
(* jitter of up to 243 ticks; and the keypad's line for any number of keys *)
(* and of lost bytes.                                                      *)
(***************************************************************************)
EXTENDS BusCommands, Debounce, Capture, KeypadSerial, FiniteSetTheorems, TLAPS

-----------------------------------------------------------------------------
(* The commands of the bus *)

\* Every byte of the memory is cleared or was sent at its place since the restart.
MemoryWasSent ==
    \A i \in 1 .. MemorySize :
        \/ memory[i] = "nul"
        \/ \E k \in DOMAIN received : i \in DOMAIN received[k] /\ received[k][i] = memory[i]

\* The packet being handled stands at the beginning of the memory.
LastIsInFront ==
    received # <<>> =>
        \A i \in DOMAIN received[Len(received)] : received[Len(received)][i] = memory[i]

CommandsInv ==
    /\ received \in Seq(Payloads)
    /\ MemoryWasSent
    /\ LastIsInFront
    /\ cmdpc = "branch" => doing = "none"
    /\ (cmdpc # "branch" /\ received # <<>>) =>
          (doing \in Matched \/ (doing = "none" /\ Matched = {}))

-----------------------------------------------------------------------------
(* The commands *)

LEMMA CommandNames ==
    /\ DOMAIN Commands = {"ping", "send", "E", "open", "close", "nop", "reset", "status"}
    /\ Commands["ping"] = <<"p", "i", "n", "g">>
    /\ Commands["send"] = <<"s", "e", "n", "d">>
    /\ Commands["E"] = <<"E">>
    /\ Commands["open"] = <<"o", "p", "e", "n">>
    /\ Commands["close"] = <<"c", "l", "o", "s", "e">>
    /\ Commands["nop"] = <<"n", "o", "p">>
    /\ Commands["reset"] = <<"r", "e", "s", "e", "t">>
    /\ Commands["status"] = <<"s", "t", "a", "t", "u", "s">>
BY DEF Commands

Letters == {"p", "i", "n", "g", "s", "e", "d", "E", "o", "c", "l", "r", "t", "a", "u"}

\* A command has one to six letters, and none of them is the cleared byte.
LEMMA CommandLetters ==
    ASSUME NEW c \in DOMAIN Commands
    PROVE  /\ Commands[c] \in Seq(Letters)
           /\ Len(Commands[c]) \in 1 .. 6
           /\ \A i \in DOMAIN Commands[c] : Commands[c][i] # "nul"
           /\ c # "none"
<1>1. CASE c = "ping"
  <2>1. Commands[c] = <<"p", "i", "n", "g">>
    BY <1>1, CommandNames
  <2> QED
    BY <1>1, <2>1 DEF Letters
<1>2. CASE c = "send"
  <2>1. Commands[c] = <<"s", "e", "n", "d">>
    BY <1>2, CommandNames
  <2> QED
    BY <1>2, <2>1 DEF Letters
<1>3. CASE c = "E"
  <2>1. Commands[c] = <<"E">>
    BY <1>3, CommandNames
  <2> QED
    BY <1>3, <2>1 DEF Letters
<1>4. CASE c = "open"
  <2>1. Commands[c] = <<"o", "p", "e", "n">>
    BY <1>4, CommandNames
  <2> QED
    BY <1>4, <2>1 DEF Letters
<1>5. CASE c = "close"
  <2>1. Commands[c] = <<"c", "l", "o", "s", "e">>
    BY <1>5, CommandNames
  <2> QED
    BY <1>5, <2>1 DEF Letters
<1>6. CASE c = "nop"
  <2>1. Commands[c] = <<"n", "o", "p">>
    BY <1>6, CommandNames
  <2> QED
    BY <1>6, <2>1 DEF Letters
<1>7. CASE c = "reset"
  <2>1. Commands[c] = <<"r", "e", "s", "e", "t">>
    BY <1>7, CommandNames
  <2> QED
    BY <1>7, <2>1 DEF Letters
<1>8. CASE c = "status"
  <2>1. Commands[c] = <<"s", "t", "a", "t", "u", "s">>
    BY <1>8, CommandNames
  <2> QED
    BY <1>8, <2>1 DEF Letters
<1> QED
  BY <1>1, <1>2, <1>3, <1>4, <1>5, <1>6, <1>7, <1>8, CommandNames

\* No command is the beginning of another one: the memory matches one at most.
LEMMA OneCommandMatches ==
    ASSUME NEW c \in Matched, NEW d \in Matched PROVE c = d
<1> DEFINE First(x) == Commands[x][1]
<1>1. /\ First("ping") = "p" /\ First("send") = "s" /\ First("E") = "E" /\ First("open") = "o"
      /\ First("close") = "c" /\ First("nop") = "n" /\ First("reset") = "r"
      /\ First("status") = "s"
  BY CommandNames
<1>2. Commands["send"][2] = "e" /\ Commands["status"][2] = "t"
  BY CommandNames
<1>3. \A x \in Matched : x \in DOMAIN Commands /\ memory[1] = First(x)
  <2> SUFFICES ASSUME NEW x \in Matched PROVE x \in DOMAIN Commands /\ memory[1] = First(x)
    OBVIOUS
  <2>1. x \in DOMAIN Commands /\ Matches(x)
    BY DEF Matched
  <2>2. 1 \in DOMAIN Commands[x]
    BY <2>1, CommandLetters
  <2> QED
    BY <2>1, <2>2 DEF Matches
<1>4. ~("send" \in Matched /\ "status" \in Matched)
  <2>1. 2 \in DOMAIN Commands["send"] /\ 2 \in DOMAIN Commands["status"]
    BY CommandNames
  <2>2. "send" \in Matched => memory[2] = "e"
    BY <1>2, <2>1 DEF Matched, Matches
  <2>3. "status" \in Matched => memory[2] = "t"
    BY <1>2, <2>1 DEF Matched, Matches
  <2> QED
    BY <2>2, <2>3
<1> HIDE DEF First
<1> QED
  BY <1>1, <1>3, <1>4, CommandNames

\* What StartsWith compares, letter by letter.
LEMMA StartsLetterByLetter ==
    ASSUME NEW p \in Seq(STRING), NEW c \in DOMAIN Commands
    PROVE  StartsWith(p, c) <=>
              /\ Len(p) >= Len(Commands[c])
              /\ \A i \in DOMAIN Commands[c] : p[i] = Commands[c][i]
<1> DEFINE w == Commands[c]
           n == Len(w)
<1>1. w \in Seq(Letters) /\ n \in Nat /\ DOMAIN w = 1 .. n
  <2>1. w \in Seq(Letters)
    BY CommandLetters
  <2> QED
    BY <2>1
<1>2. w = [i \in 1 .. n |-> w[i]]
  BY <1>1
<1> HIDE DEF w, n
<1>3. Len(p) >= n => SubSeq(p, 1, n) = [i \in 1 .. n |-> p[i]]
  BY <1>1
<1>4. ASSUME Len(p) >= n
      PROVE  SubSeq(p, 1, n) = w <=> \A i \in 1 .. n : p[i] = w[i]
  <2>1. SubSeq(p, 1, n) = [i \in 1 .. n |-> p[i]]
    BY <1>3, <1>4
  <2> QED
    BY <1>2, <2>1, Zenon
<1> QED
  BY <1>1, <1>4 DEF StartsWith, w, n

-----------------------------------------------------------------------------
(* CommandsInv is inductive *)

LEMMA InitCommands == CommandsInit => CommandsInv
BY BusCommandsAssumption DEF CommandsInit, CommandsInv, MemoryWasSent, LastIsInFront

LEMMA ReceiveKeepsCommands ==
    ASSUME CommandsInv, NEW p \in Payloads, NEW from, ReceivePacket(p, from) PROVE CommandsInv'
<1> DEFINE n == Len(received)
<1>1. p \in Seq(STRING) /\ DOMAIN p = 1 .. Len(p) /\ Len(p) \in Nat /\ Len(p) <= MemorySize
  BY BusCommandsAssumption
<1>2. /\ received \in Seq(Payloads) /\ received' = Append(received, p)
      /\ memory' = [i \in 1 .. MemorySize |-> IF i <= Len(p) THEN p[i] ELSE memory[i]]
      /\ cmdpc' = "branch" /\ doing' = "none"
  BY DEF ReceivePacket, CommandsInv, Copied
<1>3. /\ received' \in Seq(Payloads) /\ Len(received') = n + 1 /\ n \in Nat
      /\ DOMAIN received = 1 .. n /\ DOMAIN received' = 1 .. n + 1
      /\ \A k \in 1 .. n : received'[k] = received[k]
      /\ received'[n + 1] = p
  BY <1>2
<1> HIDE DEF n
<1>4. LastIsInFront'
  <2> SUFFICES ASSUME NEW i \in DOMAIN p PROVE p[i] = memory'[i]
    BY <1>3 DEF LastIsInFront
  <2>1. i \in 1 .. MemorySize /\ i <= Len(p)
    <3>1. MemorySize \in Nat
      BY BusCommandsAssumption
    <3> QED
      BY <1>1, <3>1
  <2> QED
    BY <1>2, <2>1
<1>5. MemoryWasSent'
  <2> SUFFICES ASSUME NEW i \in 1 .. MemorySize
               PROVE  \/ memory'[i] = "nul"
                      \/ \E k \in DOMAIN received' :
                            i \in DOMAIN received'[k] /\ received'[k][i] = memory'[i]
    BY DEF MemoryWasSent
  <2>1. CASE i <= Len(p)
    <3>1. memory'[i] = p[i] /\ i \in DOMAIN p
      BY <1>1, <1>2, <2>1
    <3>2. n + 1 \in DOMAIN received'
      BY <1>3
    <3> QED
      BY <1>3, <3>1, <3>2
  <2>2. CASE ~(i <= Len(p))
    <3>1. memory'[i] = memory[i]
      BY <1>2, <2>2
    <3>2. memory[i] = "nul" \/ \E k \in DOMAIN received :
                                   i \in DOMAIN received[k] /\ received[k][i] = memory[i]
      BY DEF CommandsInv, MemoryWasSent
    <3>3. \A k \in DOMAIN received : k \in DOMAIN received' /\ received'[k] = received[k]
      BY <1>3
    <3> QED
      BY <3>1, <3>2, <3>3, Zenon
  <2> QED
    BY <2>1, <2>2
<1> QED
  BY <1>2, <1>3, <1>4, <1>5 DEF CommandsInv

\* The branch that is taken is that of a command that matches.
LEMMA BranchKeepsCommands ==
    ASSUME CommandsInv, BeginPulse \/ EndPulse \/ AtOnce PROVE CommandsInv'
<1>1. UNCHANGED <<memory, received, source>>
  BY DEF BeginPulse, EndPulse, AtOnce
<1>2. MemoryWasSent' /\ LastIsInFront' /\ received' \in Seq(Payloads)
  BY <1>1 DEF CommandsInv, MemoryWasSent, LastIsInFront
<1>3. Matched' = Matched
  BY <1>1 DEF Matched, Matches
<1>4. received # <<>> => (doing' \in Matched \/ (doing' = "none" /\ Matched = {}))
  <2>1. CASE BeginPulse
    BY <2>1 DEF BeginPulse
  <2>2. CASE EndPulse
    BY <2>2 DEF EndPulse, CommandsInv
  <2>3. CASE AtOnce
    BY <2>3 DEF AtOnce, CommandsInv
  <2> QED
    BY <2>1, <2>2, <2>3
<1>5. cmdpc' # "branch"
  BY DEF BeginPulse, EndPulse, AtOnce
<1> QED
  BY <1>1, <1>2, <1>3, <1>4, <1>5 DEF CommandsInv

LEMMA RestartKeepsCommands == ASSUME RestartCommands PROVE CommandsInv'
<1>1. /\ received' = <<>> /\ memory' = [i \in 1 .. MemorySize |-> "nul"]
      /\ cmdpc' = "bus_status"
  BY DEF RestartCommands
<1> QED
  BY <1>1 DEF CommandsInv, MemoryWasSent, LastIsInFront

\* Each byte of the packet in memory was sent at its place since the restart, the last
\* payload in front.
THEOREM CommandsInvariant == CommandsSpec => []CommandsInv
<1>1. CommandsInit => CommandsInv
  BY InitCommands
<1>2. CommandsInv /\ [CommandsNext]_commandVars => CommandsInv'
  <2> SUFFICES ASSUME CommandsInv, [CommandsNext]_commandVars PROVE CommandsInv'
    OBVIOUS
  <2>1. CASE \E p \in Payloads, from \in Sources : ReceivePacket(p, from)
    BY <2>1, ReceiveKeepsCommands
  <2>2. CASE BeginPulse \/ EndPulse \/ AtOnce
    BY <2>2, BranchKeepsCommands
  <2>3. CASE RestartCommands
    BY <2>3, RestartKeepsCommands
  <2>4. CASE UNCHANGED commandVars
    BY <2>4 DEF commandVars, CommandsInv, MemoryWasSent, LastIsInFront, Matched, Matches
  <2> QED
    BY <2>1, <2>2, <2>3, <2>4 DEF CommandsNext
<1> QED
  BY <1>1, <1>2, PTL DEF CommandsSpec

\* A packet that starts with a command does that command; one that does another thing
\* is a beginning of it, and the missing letters were sent at their places before.
THEOREM PacketsAreObeyed == CommandsSpec => []DoesWhatItSays
<1>1. ASSUME CommandsInv PROVE DoesWhatItSays
  <2> DEFINE p == received[Len(received)]
             allowed == {c \in DOMAIN Commands : c \in {"ping", "send"} => source = 0}
  <2> SUFFICES ASSUME cmdpc # "branch", received # <<>>
               PROVE  /\ \A c \in allowed : StartsWith(p, c) => doing = c
                      /\ (doing # "none" /\ ~StartsWith(p, doing)) =>
                            /\ \A i \in DOMAIN p :
                                  i < Len(Commands[doing]) /\ p[i] = Commands[doing][i]
                            /\ \A i \in Len(p) + 1 .. Len(Commands[doing]) :
                                  \E k \in DOMAIN received :
                                     i \in DOMAIN received[k] /\ received[k][i] = Commands[doing][i]
    BY Zenon DEF DoesWhatItSays
  <2>1. p \in Payloads
    <3>1. received \in Seq(Payloads)
      BY <1>1 DEF CommandsInv
    <3> QED
      BY <3>1
  <2>2. p \in Seq(STRING) /\ Len(p) \in Nat /\ DOMAIN p = 1 .. Len(p)
    BY <2>1, BusCommandsAssumption
  <2>3. \A i \in DOMAIN p : p[i] = memory[i]
    BY <1>1 DEF CommandsInv, LastIsInFront
  <2>4. doing \in Matched \/ (doing = "none" /\ Matched = {})
    BY <1>1 DEF CommandsInv
  <2> HIDE DEF p
  <2>5. ASSUME NEW c \in allowed, StartsWith(p, c) PROVE doing = c
    <3>1. c \in DOMAIN Commands /\ Commands[c] \in Seq(Letters)
      BY CommandLetters
    <3>2. Len(p) >= Len(Commands[c]) /\ \A i \in DOMAIN Commands[c] : p[i] = Commands[c][i]
      BY <2>2, <2>5, <3>1, StartsLetterByLetter
    <3>3. \A i \in DOMAIN Commands[c] : i \in DOMAIN p
      BY <2>2, <3>1, <3>2
    <3>4. Matches(c)
      BY <2>3, <3>2, <3>3 DEF Matches
    <3>5. c \in Matched
      BY <3>4 DEF Matched
    <3> QED
      BY <2>4, <3>5, OneCommandMatches
  <2>6. ASSUME doing # "none", ~StartsWith(p, doing)
        PROVE  /\ \A i \in DOMAIN p : i < Len(Commands[doing]) /\ p[i] = Commands[doing][i]
               /\ \A i \in Len(p) + 1 .. Len(Commands[doing]) :
                     \E k \in DOMAIN received :
                         i \in DOMAIN received[k] /\ received[k][i] = Commands[doing][i]
    <3> DEFINE w == Commands[doing]
    <3>1. doing \in DOMAIN Commands /\ Matches(doing)
      BY <2>4, <2>6 DEF Matched
    <3>2. w \in Seq(Letters) /\ Len(w) \in 1 .. 6 /\ \A i \in DOMAIN w : w[i] # "nul"
      BY <3>1, CommandLetters
    <3>3. DOMAIN w = 1 .. Len(w)
      BY <3>2
    <3>4. \A i \in DOMAIN w : memory[i] = w[i]
      BY <3>1 DEF Matches
    <3> HIDE DEF w
    <3>5. Len(p) < Len(w)
      <4> SUFFICES ASSUME Len(p) >= Len(w) PROVE FALSE
        BY <2>2, <3>2
      <4>1. \A i \in DOMAIN w : i \in DOMAIN p
        BY <2>2, <3>2, <3>3
      <4>2. \A i \in DOMAIN w : p[i] = w[i]
        BY <2>3, <3>4, <4>1
      <4> QED
        BY <2>2, <2>6, <3>1, <4>2, StartsLetterByLetter DEF w
    <3>6. ASSUME NEW i \in DOMAIN p PROVE i < Len(w) /\ p[i] = w[i]
      <4>1. i \in DOMAIN w /\ i < Len(w)
        BY <2>2, <3>2, <3>3, <3>5
      <4> QED
        BY <2>3, <3>4, <4>1
    <3>7. ASSUME NEW i \in Len(p) + 1 .. Len(w)
          PROVE  \E k \in DOMAIN received : i \in DOMAIN received[k] /\ received[k][i] = w[i]
      <4>1. i \in DOMAIN w /\ i \in 1 .. MemorySize
        <5>1. MemorySize \in Nat /\ MemorySize >= 6
          BY BusCommandsAssumption
        <5> QED
          BY <2>2, <3>2, <3>3, <5>1
      <4>2. memory[i] = w[i] /\ memory[i] # "nul"
        BY <3>2, <3>4, <4>1
      <4>3. \/ memory[i] = "nul"
            \/ \E k \in DOMAIN received : i \in DOMAIN received[k] /\ received[k][i] = memory[i]
        BY <1>1, <4>1 DEF CommandsInv, MemoryWasSent
      <4> QED
        BY <4>2, <4>3
    <3> QED
      BY <3>6, <3>7 DEF w
  <2> QED
    BY <2>5, <2>6
<1> QED
  BY <1>1, CommandsInvariant, PTL

-----------------------------------------------------------------------------
(* The sensors *)

Torn == \E a, b \in reads : a # b

\* All samples of one level: it was announced.
Announced == \A level \in Levels : (\A i \in Places : old_pinb[i] = level) => announced = PB0(level) \/ torn \/ untold

Others == Places \ {op_current}

DebounceTypeOK ==
    /\ PINB \in Levels /\ old_pinb \in [Places -> Levels] /\ op_current \in Places
    /\ dpc \in {"idle", "compare", "own", "store", "report"}
    /\ checked \in Places
    /\ pinb_changed \in BOOLEAN
    /\ reads \in SUBSET Levels

\* While the comparisons succeed, each sample compared is a level read in this
\* pass.  When they fail, some sample differs from a level read, or the
\* oldest one does not.
DebounceInv ==
    /\ DebounceTypeOK
    /\ dpc \in {"idle", "compare", "own", "store"} => Announced
    /\ dpc = "compare" =>
          pinb_changed /\ \A i \in Others : i < checked => old_pinb[i] \in reads
    /\ dpc \in {"own", "store"} /\ pinb_changed => \A i \in Others : old_pinb[i] \in reads
    /\ dpc = "own" /\ ~pinb_changed => \E i \in Others, r \in reads : old_pinb[i] # r
    /\ dpc = "store" /\ ~pinb_changed =>
          (\E i \in Others, r \in reads : old_pinb[i] # r) \/ old_pinb[op_current] \in reads
    /\ dpc = "report" /\ pinb_changed => \A i \in Places : old_pinb[i] \in reads
    /\ dpc = "report" /\ ~pinb_changed => Announced

LEMMA InitDebounce == DebounceInit => DebounceInv
<1> SUFFICES ASSUME DebounceInit PROVE DebounceInv
  OBVIOUS
<1>1. 0 \in Places /\ 0 \in Levels
  BY DebounceAssumption DEF Places
<1>2. DebounceTypeOK
  BY <1>1 DEF DebounceInit, DebounceTypeOK
<1>3. Announced
  <2>1. old_pinb[0] = 0 /\ announced = PB0(0)
    BY <1>1 DEF DebounceInit, PB0
  <2> QED
    BY <1>1, <2>1, Zenon DEF Announced
<1> QED
  BY <1>2, <1>3 DEF DebounceInit, DebounceInv

LEMMA PortKeeps == ASSUME DebounceInv, PortChanges PROVE DebounceInv'
<1>1. PINB' \in Levels
  BY DEF PortChanges
<1>2. UNCHANGED <<old_pinb, op_current, dpc, checked, pinb_changed, reads, announced, torn, untold>>
  BY DEF PortChanges
<1> QED
  BY <1>1, <1>2 DEF DebounceInv, DebounceTypeOK, Announced, Others, PB0

LEMMA StartKeeps == ASSUME DebounceInv, StartCheck PROVE DebounceInv'
<1>1. /\ dpc = "idle" /\ dpc' = "compare" /\ checked' = 0 /\ pinb_changed' = TRUE /\ reads' = {}
      /\ UNCHANGED <<PINB, old_pinb, op_current, announced, torn, untold>>
  BY DEF StartCheck
<1>2. 0 \in Places /\ \A i \in Places : ~(i < 0)
  BY DebounceAssumption DEF Places
<1> QED
  BY <1>1, <1>2 DEF DebounceInv, DebounceTypeOK, Announced, Others, PB0

LEMMA CompareKeeps == ASSUME DebounceInv, Compare PROVE DebounceInv'
<1>1. /\ dpc = "compare" /\ pinb_changed = TRUE /\ Announced /\ DebounceTypeOK
      /\ UNCHANGED <<PINB, old_pinb, op_current, announced, torn, untold>>
      /\ \A i \in Others : i < checked => old_pinb[i] \in reads
  BY DEF DebounceInv, DebounceTypeOK, Compare
<1>2. \/ checked = op_current /\ pinb_changed' = TRUE /\ reads' = reads
      \/ checked # op_current /\ reads' = reads \cup {PINB} /\ pinb_changed' = (old_pinb[checked] = PINB)
  BY <1>1 DEF Compare
<1>3. Announced' /\ pinb_changed' \in BOOLEAN /\ reads' \in SUBSET Levels
  BY <1>1, <1>2 DEF Announced, DebounceTypeOK, PB0
<1>4. pinb_changed' => \A i \in Others : i <= checked => old_pinb[i] \in reads'
  <2> SUFFICES ASSUME pinb_changed', NEW i \in Others, i <= checked PROVE old_pinb[i] \in reads'
    OBVIOUS
  <2>1. i \in Int /\ checked \in Int /\ i # op_current
    BY <1>1, DebounceAssumption DEF Others, Places, DebounceTypeOK
  <2>2. CASE i < checked
    BY <1>1, <1>2, <2>2
  <2>3. CASE i = checked
    BY <1>2, <2>1, <2>3
  <2> QED
    BY <2>1, <2>2, <2>3
<1>5. ~pinb_changed' => \E i \in Others, r \in reads' : old_pinb[i] # r
  <2> SUFFICES ASSUME ~pinb_changed' PROVE \E i \in Others, r \in reads' : old_pinb[i] # r
    OBVIOUS
  <2>1. checked \in Others /\ PINB \in reads' /\ old_pinb[checked] # PINB
    BY <1>1, <1>2 DEF Others, DebounceTypeOK
  <2> QED
    BY <2>1
<1>6. CASE pinb_changed' /\ checked < Samples - 1
  <2>1. dpc' = "compare" /\ checked' = checked + 1
    BY <1>6 DEF Compare
  <2>2. checked' \in Places /\ \A i \in Others : i < checked' => i <= checked
    BY <1>1, <1>6, <2>1, DebounceAssumption DEF Places, Others, DebounceTypeOK
  <2> QED
    BY <1>1, <1>3, <1>4, <1>6, <2>1, <2>2 DEF DebounceInv, DebounceTypeOK, Others
<1>7. CASE ~(pinb_changed' /\ checked < Samples - 1)
  <2>1. dpc' = "own" /\ checked' = 0
    BY <1>7 DEF Compare
  <2>2. checked' \in Places
    BY <2>1, DebounceAssumption DEF Places
  <2>3. pinb_changed' => \A i \in Others : i <= checked
    BY <1>1, <1>7, DebounceAssumption DEF Places, Others, DebounceTypeOK
  <2> QED
    BY <1>1, <1>3, <1>4, <1>5, <2>1, <2>2, <2>3 DEF DebounceInv, DebounceTypeOK, Others
<1> QED
  BY <1>6, <1>7

LEMMA OwnKeeps == ASSUME DebounceInv, CompareOwn PROVE DebounceInv'
<1>1. /\ dpc = "own" /\ dpc' = "store" /\ reads' = reads \cup {PINB} /\ Announced /\ DebounceTypeOK
      /\ UNCHANGED <<PINB, old_pinb, op_current, checked, announced, torn, untold>>
      /\ pinb_changed' = (pinb_changed /\ old_pinb[op_current] # PINB)
  BY DEF CompareOwn, DebounceInv
<1>2. Announced' /\ DebounceTypeOK'
  <2>1. reads' \in SUBSET Levels
    BY <1>1 DEF DebounceTypeOK
  <2>2. pinb_changed' \in BOOLEAN
    BY <1>1, Zenon
  <2> QED
    BY <1>1, <2>1, <2>2 DEF Announced, DebounceTypeOK, PB0
<1>3. pinb_changed' => \A i \in Others' : old_pinb'[i] \in reads'
  BY <1>1 DEF DebounceInv, Others
<1>4. ~pinb_changed' => \/ \E i \in Others', r \in reads' : old_pinb'[i] # r
                        \/ old_pinb'[op_current'] \in reads'
  <2>1. CASE ~pinb_changed
    <3>1. \E i \in Others, r \in reads : old_pinb[i] # r
      BY <1>1, <2>1 DEF DebounceInv
    <3> QED
      BY <1>1, <3>1 DEF Others
  <2>2. CASE old_pinb[op_current] = PINB
    BY <1>1, <2>2
  <2> QED
    BY <1>1, <2>1, <2>2
<1> QED
  BY <1>1, <1>2, <1>3, <1>4 DEF DebounceInv

LEMMA StoreKeeps == ASSUME DebounceInv, StoreSample PROVE DebounceInv'
<1>1. /\ dpc = "store" /\ dpc' = "report" /\ reads' = reads \cup {PINB} /\ Announced /\ DebounceTypeOK
      /\ op_current' = (op_current + 1) % Samples
      /\ old_pinb' = [old_pinb EXCEPT ![op_current] = PINB]
      /\ torn' = (torn \/ Torn')
      /\ UNCHANGED <<PINB, checked, pinb_changed, announced, untold>>
  BY DEF StoreSample, DebounceInv, Torn
<1>2. op_current' \in Places
  BY <1>1, DebounceAssumption DEF DebounceTypeOK, Places
<1>3. DebounceTypeOK'
  BY <1>1, <1>2 DEF DebounceTypeOK
<1>4. /\ old_pinb'[op_current] = PINB /\ op_current \in Places
      /\ \A i \in Others : i \in Places /\ old_pinb'[i] = old_pinb[i]
      /\ \A i \in Places : i = op_current \/ i \in Others
  BY <1>1 DEF DebounceTypeOK, Others
<1>5. pinb_changed' => \A i \in Places : old_pinb'[i] \in reads'
  <2> SUFFICES ASSUME pinb_changed', NEW i \in Places PROVE old_pinb'[i] \in reads'
    OBVIOUS
  <2>1. CASE i = op_current
    BY <1>1, <1>4, <2>1
  <2>2. CASE i \in Others
    <3>1. old_pinb[i] \in reads
      BY <1>1, <2>2 DEF DebounceInv
    <3> QED
      BY <1>1, <1>4, <2>2, <3>1
  <2> QED
    BY <1>4, <2>1, <2>2
<1>6. ~pinb_changed' => Announced'
  <2> SUFFICES ASSUME ~pinb_changed', NEW level \in Levels,
                      \A i \in Places : old_pinb'[i] = level, ~torn', ~untold'
               PROVE  announced = PB0(level)
    BY <1>1 DEF Announced
  <2>1. PINB = level /\ \A r \in reads' : r = level
    BY <1>1, <1>4 DEF Torn
  <2>2. \A i \in Others : old_pinb[i] = level
    BY <1>4
  <2>3. old_pinb[op_current] \in reads
    BY <1>1, <2>1, <2>2 DEF DebounceInv
  <2>4. \A i \in Places : old_pinb[i] = level
    BY <1>1, <1>4, <2>1, <2>2, <2>3
  <2> QED
    BY <1>1, <2>4 DEF Announced
<1> QED
  BY <1>1, <1>3, <1>5, <1>6 DEF DebounceInv

LEMMA ReportKeeps ==
    ASSUME DebounceInv, NoChange \/ ReportChange \/ ReportFails PROVE DebounceInv'
<1>1. /\ dpc = "report" /\ dpc' = "idle" /\ reads' = {} /\ pinb_changed' = FALSE /\ DebounceTypeOK
      /\ UNCHANGED <<PINB, old_pinb, op_current, checked>>
  BY DEF NoChange, ReportChange, ReportFails, EndCheck, DebounceInv
<1>2. DebounceTypeOK'
  BY <1>1 DEF DebounceTypeOK
<1>3. Announced'
  <2>1. CASE ReportChange
    <3>1. /\ announced' = PB0(PINB) /\ (torn' <=> \E level \in reads : level # PINB)
          /\ op_current \in Places /\ old_pinb[op_current] \in reads
      BY <1>1, <2>1 DEF ReportChange, DebounceInv, DebounceTypeOK
    <3>2. SUFFICES ASSUME NEW level \in Levels, \A i \in Places : old_pinb[i] = level, ~torn'
                   PROVE  announced' = PB0(level)
      BY <1>1 DEF Announced
    <3>3. PINB = level
      BY <3>1, <3>2
    <3> QED
      BY <3>1, <3>3
  <2>2. CASE NoChange
    BY <1>1, <2>2 DEF NoChange, DebounceInv, Announced
  <2>3. CASE ReportFails
    BY <2>3 DEF ReportFails, Announced
  <2> QED
    BY <2>1, <2>2, <2>3
<1> QED
  BY <1>1, <1>2, <1>3 DEF DebounceInv

\* What the pass has read so far agrees with what it compares and stores, at every read
\* of the volatile port.
THEOREM DebounceInvariant == DebounceSpec => []DebounceInv
<1>1. DebounceInit => DebounceInv
  BY InitDebounce
<1>2. DebounceInv /\ [DebounceNext]_debounceVars => DebounceInv'
  <2>1. UNCHANGED debounceVars /\ DebounceInv => DebounceInv'
    BY DEF debounceVars, DebounceInv, DebounceTypeOK, Announced, Others, PB0
  <2> QED
    BY <2>1, PortKeeps, StartKeeps, CompareKeeps, OwnKeeps, StoreKeeps, ReportKeeps DEF DebounceNext
<1> QED
  BY <1>1, <1>2, PTL DEF DebounceSpec

\* The pin as all samples show it is the one announced last, and only what all samples
\* show is announced, unless the port changed between two reads of one pass or the last
\* change could not be told.
THEOREM SensorsAreAnnounced == DebounceSpec => []ChangesAreAnnounced
<1>1. ASSUME DebounceInv PROVE ChangesAreAnnounced
  <2>1. NoChangeIsMissed
    BY <1>1 DEF DebounceInv, NoChangeIsMissed, Announced
  <2>2. NoBounceIsAnnounced
    BY <1>1 DEF DebounceInv, NoBounceIsAnnounced
  <2> QED
    BY <2>1, <2>2 DEF ChangesAreAnnounced
<1> QED
  BY <1>1, DebounceInvariant, PTL

-----------------------------------------------------------------------------
(* The pulse *)

Octet == 0 .. 255
Units == 0 .. 16

\* The result of a pulse of m units; 0 is the value before the first one.  A tick is
\* lost when the counter wraps.
Near(value, m) ==
    IF m = 0 THEN value = 0 ELSE 3855 * m - 244 <= value /\ value <= 3855 * m + 243

\* Its high byte: 3855 m is 256 * 15 m + 15 m, and 15 m is at most 240.
HighNear(byte, m) == IF m = 0 THEN byte = 0 ELSE 15 * m - 1 <= byte /\ byte <= 15 * m + 1

\* A value with such a high byte, and whatever low byte.
SnapNear(value, m) ==
    IF m = 0 THEN value <= 255
    ELSE 3855 * m - 500 < value /\ value < 3855 * m + 500

Told(m) ==
    IF Len(report) = 1 THEN m = 0
    ELSE /\ report[2] = m
         /\ report[3] = "STAT lock" <=> m \in Locked
         /\ report[3] = "STAT open" <=> m \in Open

CaptureTypeOK ==
    /\ pulses \in Units /\ seen \in SUBSET Units
    /\ lowvalue \in Counts
    /\ pwmvalue \in Nat /\ Near(pwmvalue, pulses)
    /\ cappc \in {"loop", "second", "classify"}

\* The byte read first is of a pulse seen.
FirstWasSeen ==
    /\ pulses \in seen
    /\ firstByte[1] \in {"low", "high"} /\ firstByte[2] \in Octet
    /\ firstByte[1] = "high" => \E m \in seen : HighNear(firstByte[2], m)

CaptureInv ==
    /\ CaptureTypeOK
    /\ cappc = "second" => FirstWasSeen
    /\ cappc = "classify" => snap \in Nat /\ \E m \in seen : SnapNear(snap, m)
    /\ cappc = "loop" /\ report # <<>> => \E m \in seen : Told(m)

-----------------------------------------------------------------------------
(* Arithmetic of the pulses *)

\* A value that wraps at most once.
LEMMA WrapOnce ==
    ASSUME NEW a \in Nat, a < 131072
    PROVE  a % 65536 = IF a < 65536 THEN a ELSE a - 65536
OBVIOUS

LEMMA WidthNear ==
    ASSUME lowvalue \in Counts, NEW m \in 1 .. 16, NEW j \in Int, -243 <= j, j <= 243
    PROVE  /\ Width((lowvalue + 3855 * m + j) % 65536) \in Nat
           /\ Near(Width((lowvalue + 3855 * m + j) % 65536), m)
<1> DEFINE x == 3855 * m + j
           a == lowvalue + 3855 * m + j
<1>0. lowvalue \in Nat /\ lowvalue <= 65535
  BY DEF Counts
<1>1. x \in Int /\ 3612 <= x /\ x <= 61923 /\ a = lowvalue + x /\ lowvalue \in Nat /\ lowvalue <= 65535
  BY <1>0
<1>2. 3855 * m - 243 <= x /\ x <= 3855 * m + 243 /\ m # 0 /\ 3855 * m \in Int
  OBVIOUS
<1> HIDE DEF x
<1>3. a \in Nat /\ a < 131072
  BY <1>1
<1> HIDE DEF a
<1>4. Width(a % 65536) \in {x, x - 1}
  <2>1. CASE a < 65536
    <3>1. a % 65536 = a
      BY <1>3, <2>1, WrapOnce
    <3> QED
      BY <1>1, <2>1, <3>1 DEF Width
  <2>2. CASE ~(a < 65536)
    <3>1. a % 65536 = a - 65536
      BY <1>3, <2>2, WrapOnce
    <3> QED
      BY <1>1, <2>2, <3>1 DEF Width
  <2> QED
    BY <2>1, <2>2
<1>5. Width(a % 65536) \in Nat /\ Near(Width(a % 65536), m)
  BY <1>1, <1>2, <1>4 DEF Near
<1> QED
  BY <1>5 DEF a

\* The bytes of a 16-bit value.
LEMMA Bytes ==
    ASSUME CaptureTypeOK
    PROVE  Low \in Octet /\ High \in Octet /\ HighNear(High, pulses)
<1> pwmvalue \in Nat /\ pulses \in 0 .. 16 /\ Near(pwmvalue, pulses)
  BY Zenon DEF CaptureTypeOK, Units
<1>1. Low \in 0 .. 255 /\ High \in Nat /\ pwmvalue = 256 * High + Low
  BY DEF Low, High
<1>2. HighNear(High, pulses)
  BY <1>1 DEF Near, HighNear
<1>3. High <= 255
  BY <1>1, <1>2 DEF HighNear
<1> QED
  BY <1>1, <1>2, <1>3 DEF Octet

\* Any low byte keeps the value within the window of the high byte's pulse.
LEMMA TornStaysNear ==
    ASSUME NEW h \in Octet, NEW l \in Octet, NEW m \in Units, HighNear(h, m)
    PROVE  256 * h + l \in Nat /\ SnapNear(256 * h + l, m)
BY DEF HighNear, SnapNear, Octet, Units

\* The windows do not overlap.
LEMMA WindowOfPulse ==
    ASSUME NEW v \in Nat, NEW m \in Units, SnapNear(v, m), NEW c \in 1 .. 16
    PROVE  InWindow(v, c) <=> c = m
BY DEF InWindow, SnapNear, Units

LEMMA StatOfPulse ==
    ASSUME NEW m \in 1 .. 16
    PROVE  /\ Stat(m) = "STAT lock" <=> m \in Locked
           /\ Stat(m) = "STAT open" <=> m \in Open
BY DEF Stat, Locked, Open

-----------------------------------------------------------------------------
(* CaptureInv is inductive *)

LEMMA InitCapture == CaptureInit => CaptureInv
<1> SUFFICES ASSUME CaptureInit PROVE CaptureInv
  OBVIOUS
<1>1. 0 \in Units /\ 0 \in Counts /\ Near(0, 0) /\ {} \in SUBSET Units
  BY DEF Units, Counts, Near
<1> QED
  BY <1>1 DEF CaptureInit, CaptureInv, CaptureTypeOK

LEMMA RisingKeeps == ASSUME CaptureInv, NEW at \in Starts, RisingEdge(at) PROVE CaptureInv'
<1>1. at \in Counts
  BY CaptureAssumption
<1>2. UNCHANGED <<pwmvalue, pulses, cappc, firstByte, snap, seen, report>> /\ lowvalue' = at
  BY DEF RisingEdge
<1>3. \A k : Told(k)' <=> Told(k)
  BY <1>2 DEF Told
<1>4. FirstWasSeen' <=> FirstWasSeen
  BY <1>2 DEF FirstWasSeen
<1> QED
  BY <1>1, <1>2, <1>3, <1>4 DEF CaptureInv, CaptureTypeOK

\* A pulse that ends while the snapshot is taken is one of those seen.
LEMMA FallingKeeps ==
    ASSUME CaptureInv, NEW m \in Multiples, NEW j \in Jitter, FallingEdge(m, j)
    PROVE  CaptureInv'
<1>1. m \in 1 .. 16 /\ j \in Int /\ -243 <= j /\ j <= 243
  BY CaptureAssumption
<1>2. m \in Units
  BY <1>1 DEF Units
<1>3. /\ pwmvalue' = Width((lowvalue + 3855 * m + j) % 65536)
      /\ pulses' = m
      /\ seen' = IF cappc = "second" THEN seen \cup {m} ELSE seen
      /\ UNCHANGED <<lowvalue, cappc, firstByte, snap, report>>
  BY DEF FallingEdge
<1>4. pwmvalue' \in Nat /\ Near(pwmvalue', pulses')
  <2>1. lowvalue \in Counts
    BY DEF CaptureInv, CaptureTypeOK
  <2> QED
    BY <1>1, <1>3, <2>1, WidthNear
<1>5. CaptureTypeOK'
  BY <1>2, <1>3, <1>4 DEF CaptureInv, CaptureTypeOK
<1>6. cappc = "second" => FirstWasSeen'
  BY <1>3 DEF CaptureInv, FirstWasSeen
<1>7. cappc # "second" => seen' = seen
  BY <1>3
<1>8. \A k : Told(k)' <=> Told(k)
  BY <1>3 DEF Told
<1> QED
  BY <1>3, <1>5, <1>6, <1>7, <1>8 DEF CaptureInv

LEMMA FirstKeeps == ASSUME CaptureInv, ReadFirst PROVE CaptureInv'
<1>1. /\ cappc' = "second" /\ seen' = {pulses}
      /\ firstByte' = <<"low", Low>> \/ firstByte' = <<"high", High>>
      /\ UNCHANGED <<rising, lowvalue, pwmvalue, pulses, snap, report>>
  BY DEF ReadFirst
<1>2. Low \in Octet /\ High \in Octet /\ HighNear(High, pulses) /\ pulses \in Units
  BY Bytes DEF CaptureInv, CaptureTypeOK
<1>3. firstByte'[1] \in {"low", "high"} /\ firstByte'[2] \in Octet
  BY <1>1, <1>2
<1>4. firstByte'[1] = "high" => HighNear(firstByte'[2], pulses)
  BY <1>1, <1>2
<1>5. FirstWasSeen'
  BY <1>1, <1>3, <1>4 DEF FirstWasSeen
<1>6. CaptureTypeOK'
  BY <1>1, <1>2 DEF CaptureInv, CaptureTypeOK
<1> QED
  BY <1>1, <1>5, <1>6 DEF CaptureInv

LEMMA SecondKeeps == ASSUME CaptureInv, ReadSecond PROVE CaptureInv'
<1>1. /\ cappc = "second" /\ cappc' = "classify"
      /\ snap' = IF firstByte[1] = "low" THEN 256 * High + firstByte[2] ELSE 256 * firstByte[2] + Low
      /\ UNCHANGED <<rising, lowvalue, pwmvalue, pulses, seen, report>>
  BY DEF ReadSecond
<1>2. Low \in Octet /\ High \in Octet /\ HighNear(High, pulses)
  BY Bytes DEF CaptureInv
<1>3. pulses \in Units /\ seen \in SUBSET Units /\ FirstWasSeen
  BY <1>1 DEF CaptureInv, CaptureTypeOK
<1>4. snap' \in Nat /\ \E m \in seen : SnapNear(snap', m)
  <2>1. CASE firstByte[1] = "low"
    <3>1. firstByte[2] \in Octet /\ pulses \in seen
      BY <1>3 DEF FirstWasSeen
    <3>2. 256 * High + firstByte[2] \in Nat /\ SnapNear(256 * High + firstByte[2], pulses)
      BY <1>2, <1>3, <3>1, TornStaysNear
    <3>3. snap' = 256 * High + firstByte[2]
      BY <1>1, <2>1
    <3> QED
      BY <3>1, <3>2, <3>3, Zenon
  <2>2. CASE firstByte[1] = "high"
    <3>1. PICK m \in seen : HighNear(firstByte[2], m)
      BY <1>3, <2>2 DEF FirstWasSeen
    <3>2. firstByte[2] \in Octet /\ m \in Units
      BY <1>3 DEF FirstWasSeen
    <3>3. 256 * firstByte[2] + Low \in Nat /\ SnapNear(256 * firstByte[2] + Low, m)
      BY <1>2, <3>1, <3>2, TornStaysNear
    <3>4. snap' = 256 * firstByte[2] + Low
      BY <1>1, <2>2
    <3> QED
      BY <3>3, <3>4, Zenon
  <2> QED
    BY <1>3, <2>1, <2>2 DEF FirstWasSeen
<1>5. CaptureTypeOK'
  BY <1>1 DEF CaptureInv, CaptureTypeOK
<1> QED
  BY <1>1, <1>4, <1>5 DEF CaptureInv

LEMMA ClassifyKeeps == ASSUME CaptureInv, Classify PROVE CaptureInv'
<1>1. /\ cappc = "classify" /\ cappc' = "loop"
      /\ UNCHANGED <<rising, lowvalue, pwmvalue, pulses, firstByte, seen>>
  BY DEF Classify
<1>2. snap \in Nat /\ seen \in SUBSET Units
  BY <1>1 DEF CaptureInv, CaptureTypeOK
<1>3. PICK m \in seen : SnapNear(snap, m)
  BY <1>1 DEF CaptureInv
<1>4. m \in Units /\ \A c \in 1 .. 16 : InWindow(snap, c) <=> c = m
  BY <1>2, <1>3, WindowOfPulse
<1>5. Told(m)'
  <2>1. CASE m = 0
    <3>1. ~\E c \in 1 .. 16 : InWindow(snap, c)
      <4>1. \A c \in 1 .. 16 : c # 0
        OBVIOUS
      <4> QED
        BY <1>4, <2>1, <4>1, Zenon
    <3>2. report' = <<"SRAW bork">>
      BY <3>1, Zenon DEF Classify
    <3>3. Len(report') = 1
      BY <3>2
    <3> QED
      BY <2>1, <3>3, Zenon DEF Told
  <2>2. CASE m # 0
    <3> DEFINE C == CHOOSE c \in 1 .. 16 :
                        InWindow(snap, c) /\ \A d \in 1 .. c - 1 : ~InWindow(snap, d)
    <3>1. m \in 1 .. 16
      BY <1>4, <2>2 DEF Units
    <3>2. InWindow(snap, m)
      BY <1>4, <3>1, Zenon
    <3>3. \A d \in 1 .. m - 1 : ~InWindow(snap, d)
      <4>1. \A d \in 1 .. m - 1 : d \in 1 .. 16 /\ d # m
        BY <3>1
      <4> QED
        BY <1>4, <4>1, Zenon
    <3>4. C \in 1 .. 16 /\ InWindow(snap, C)
      BY <3>1, <3>2, <3>3, Zenon
    <3>5. C = m
      BY <1>4, <3>4, Zenon
    <3>6. \E c \in 1 .. 16 : InWindow(snap, c)
      BY <3>1, <3>2, Zenon
    <3>7. report' = <<"SRAW", C, Stat(C), "X">>
      BY <3>6, Zenon DEF Classify
    <3>8. report' = <<"SRAW", m, Stat(m), "X">>
      BY <3>5, <3>7, Zenon
    <3> HIDE DEF C
    <3>9. Len(report') = 4 /\ report'[2] = m /\ report'[3] = Stat(m)
      BY <3>8
    <3>10. /\ Stat(m) = "STAT lock" <=> m \in Locked
           /\ Stat(m) = "STAT open" <=> m \in Open
      BY <3>1, StatOfPulse
    <3>11. Len(report') # 1
      BY <3>9
    <3> QED
      BY <3>9, <3>10, <3>11, Zenon DEF Told
  <2> QED
    BY <2>1, <2>2
<1>6. CaptureTypeOK'
  BY <1>1 DEF CaptureInv, CaptureTypeOK
<1> QED
  BY <1>1, <1>3, <1>5, <1>6 DEF CaptureInv

LEMMA StutterKeepsCapture == ASSUME CaptureInv, UNCHANGED captureVars PROVE CaptureInv'
<1>1. \A k : Told(k)' <=> Told(k)
  BY DEF captureVars, Told
<1>2. FirstWasSeen' <=> FirstWasSeen
  BY DEF captureVars, FirstWasSeen
<1> QED
  BY <1>1, <1>2 DEF captureVars, CaptureInv, CaptureTypeOK

\* The value captured is near the multiple of the last pulse, and what the main loop has
\* read of it is a byte of the last two values.
THEOREM CaptureInvariant == CaptureSpec => []CaptureInv
<1>1. CaptureInit => CaptureInv
  BY InitCapture
<1>2. CaptureInv /\ [CaptureNext]_captureVars => CaptureInv'
  BY StutterKeepsCapture, RisingKeeps, FallingKeeps, FirstKeeps, SecondKeeps, ClassifyKeeps
     DEF CaptureNext
<1> QED
  BY <1>1, <1>2, PTL DEF CaptureSpec

\* However the interrupt cuts the two reads of the snapshot, and whatever the jitter and
\* the wraps of the counter: the state that is reported is one the lock had told.
THEOREM ReportIsTold == CaptureSpec => []ReportIsOldOrNew
<1>1. ASSUME CaptureInv PROVE ReportIsOldOrNew
  <2> SUFFICES ASSUME cappc = "loop", report # <<>>
               PROVE  IF Len(report) = 1 THEN 0 \in seen
                      ELSE /\ report[2] \in seen
                           /\ report[3] = "STAT lock" <=> report[2] \in Locked
                           /\ report[3] = "STAT open" <=> report[2] \in Open
    BY Zenon DEF ReportIsOldOrNew
  <2>1. PICK m \in seen : Told(m)
    BY <1>1 DEF CaptureInv
  <2>2. CASE Len(report) = 1
    BY <2>1, <2>2, Zenon DEF Told
  <2>3. CASE Len(report) # 1
    BY <2>1, <2>3, Zenon DEF Told
  <2> QED
    BY <2>2, <2>3, Zenon
<1> QED
  BY <1>1, CaptureInvariant, PTL

-----------------------------------------------------------------------------
(* The keypad's line *)

\* KeypadInv is inductive.  A frame that the interrupt collects is either in step with
\* the command on the line, or it has strayed, and then a lost byte pays for it.
Clean(buffer, k) == \A i \in Positions : buffer[i] = Command(k)[i + 1]
IsClean(buffer) == \E k \in 1 .. typed : Clean(buffer, k)

\* The bytes collected are those of the command on the line, up to the next one.
InStep ==
    /\ sercnt > 0 /\ incoming = 9 - sercnt
    /\ \A i \in 0 .. sercnt - 1 : serbuf[i] = Command(typed)[i + 1]
Strayed == sercnt > 0 /\ ~InStep

KeypadTypeOK ==
    /\ typed \in Nat /\ lost \in Nat
    /\ incoming \in 0 .. 9 /\ (incoming > 0 => typed > 0)
    /\ DOMAIN serbuf = Positions /\ KeyIn(serbuf) \in Nat
    /\ DOMAIN bufcopy = Positions /\ KeyIn(bufcopy) \in Nat
    /\ sercnt \in Positions
    /\ kpc \in {"look", "copy", "release", "handle"}
    /\ handled \in Seq(Nat)
    /\ overruns \subseteq 1 .. typed

\* The buffer is the main loop's from the flag to its release.
Handover ==
    /\ Full => sercnt = 0
    /\ kpc \in {"copy", "release"} => Full
    /\ kpc = "copy" => copied \in Positions /\ \A i \in 0 .. copied - 1 : bufcopy[i] = serbuf[i]
    /\ kpc = "release" => \A i \in Positions : bufcopy[i] = serbuf[i]

\* The key that comes next.
NextKey == IF incoming >= 4 THEN typed ELSE typed + 1

\* A key is behind those handled.
IsNew(k) == k # 0 => \A i \in DOMAIN handled : handled[i] < k

HandledInOrder ==
    \A i, j \in DOMAIN handled :
        i < j /\ handled[i] # 0 /\ handled[j] # 0 => handled[i] < handled[j]
HandledBefore == \A i \in DOMAIN handled : handled[i] < NextKey
CopyInOrder == kpc = "handle" => KeyIn(bufcopy) < NextKey /\ IsNew(KeyIn(bufcopy))
BufferInOrder ==
    (Full \/ sercnt > 5) =>
        /\ KeyIn(serbuf) < NextKey /\ IsNew(KeyIn(serbuf))
        /\ kpc = "handle" /\ KeyIn(serbuf) # 0 => KeyIn(bufcopy) < KeyIn(serbuf)

\* The keys pass from the line through both buffers in their order.
Ordered == HandledInOrder /\ HandledBefore /\ CopyInOrder /\ BufferInOrder

One(b) == IF b THEN 1 ELSE 0

\* For each frame that is no command, a byte was lost.
Zeros == {i \in DOMAIN handled : handled[i] = 0}
CopyUnclean == kpc = "handle" /\ ~IsClean(bufcopy)
BufferUnclean == Full /\ ~IsClean(serbuf)
ZerosPaid ==
    Cardinality(Zeros) + One(CopyUnclean) + One(BufferUnclean) + One(Strayed) <= lost

\* The keys whose command is over and that are nowhere.
Gone(k) ==
    /\ k < typed \/ incoming = 0
    /\ \A i \in DOMAIN handled : handled[i] # k
    /\ k \notin overruns
    /\ ~(Full /\ Clean(serbuf, k))
    /\ ~(kpc = "handle" /\ Clean(bufcopy, k))
Missing == {k \in 1 .. typed : Gone(k)}

\* The keys that what was lost so far may still cost.
Due ==
    IF Strayed THEN IF incoming > 0 /\ sercnt + incoming < 9 THEN 2 ELSE 1
    ELSE IF sercnt = 0 /\ 0 < incoming /\ incoming < 9 /\ typed \notin overruns THEN 1 ELSE 0

MissingPaid == Cardinality(Missing) + Due <= 2 * lost

KeypadInv == KeypadTypeOK /\ Handover /\ Ordered /\ ZerosPaid /\ MissingPaid

-----------------------------------------------------------------------------
(* Commands *)

LEMMA CommandIs ==
    ASSUME NEW n
    PROVE  /\ Command(n)[1] = Char("^") /\ Command(n)[2] = Char("P") /\ Command(n)[3] = Char("A")
           /\ Command(n)[4] = Char("D") /\ Command(n)[5] = Char(" ") /\ Command(n)[6] = Key(n)
           /\ Command(n)[7] = Char(" ") /\ Command(n)[8] = Char(" ") /\ Command(n)[9] = Char("$")
<1> HIDE DEF Char, Key
<1> QED
  BY DEF Command

LEMMA BytesDiffer ==
    /\ Char("^") # Char("$") /\ Char("P") # Char("^") /\ Char("P") # Char("$")
    /\ Char("A") # Char("^") /\ Char("A") # Char("$") /\ Char("D") # Char("^")
    /\ Char("D") # Char("$") /\ Char(" ") # Char("^") /\ Char(" ") # Char("$")
    /\ Nul # Char("$")
    /\ Char("^")[1] # "key" /\ Char("P")[1] # "key" /\ Char("A")[1] # "key" /\ Char("D")[1] # "key"
    /\ Char(" ")[1] # "key" /\ Char("$")[1] # "key" /\ Nul[1] # "key"
    /\ \A n : Key(n) # Char("^") /\ Key(n) # Char("$") /\ Key(n)[1] = "key" /\ Key(n)[2] = n
BY DEF Char, Key, Nul

\* "^" is the first byte of a command and "$" the last one; the sixth is the key,
\* and the only one that says which command it is.
LEMMA CommandBytes ==
    ASSUME NEW n, NEW k \in 1 .. 9
    PROVE  /\ Command(n)[k] = Char("^") <=> k = 1
           /\ Command(n)[k] = Char("$") <=> k = 9
           /\ k = 6 => Command(n)[k][1] = "key" /\ Command(n)[k][2] = n
           /\ k # 6 => Command(n)[k][1] # "key" /\ Command(n)[k] = Command(0)[k]
<1> HIDE DEF Char, Key, Command
<1>1. CASE k = 1
  BY <1>1, CommandIs, BytesDiffer
<1>2. CASE k = 2
  BY <1>2, CommandIs, BytesDiffer
<1>3. CASE k = 3
  BY <1>3, CommandIs, BytesDiffer
<1>4. CASE k = 4
  BY <1>4, CommandIs, BytesDiffer
<1>5. CASE k = 5
  BY <1>5, CommandIs, BytesDiffer
<1>6. CASE k = 6
  <2>1. Command(n)[k] = Key(n)
    BY <1>6, CommandIs
  <2>2. Key(n) # Char("^") /\ Key(n) # Char("$") /\ Key(n)[1] = "key" /\ Key(n)[2] = n
    BY BytesDiffer
  <2>3. k # 1 /\ k # 9
    BY <1>6
  <2> QED
    BY <1>6, <2>1, <2>2, <2>3, Zenon
<1>7. CASE k = 7
  BY <1>7, CommandIs, BytesDiffer
<1>8. CASE k = 8
  BY <1>8, CommandIs, BytesDiffer
<1>9. CASE k = 9
  BY <1>9, CommandIs, BytesDiffer, ZenonT(60)
<1> QED
  BY <1>1, <1>2, <1>3, <1>4, <1>5, <1>6, <1>7, <1>8, <1>9

\* The key of a clean buffer, which handle_command takes.
LEMMA CleanHasKey ==
    ASSUME NEW buffer, NEW k, Clean(buffer, k)
    PROVE  KeyIn(buffer) = k /\ StartsRight(buffer)
<1>1. \A i \in Positions : i + 1 \in 1 .. 9 /\ buffer[i] = Command(k)[i + 1]
  BY DEF Clean, Positions, LastByte
<1>2. buffer[5] = Command(k)[6] /\ 5 \in Positions
  BY <1>1 DEF Positions, LastByte
<1>3. KeyIn(buffer) = k
  BY <1>2, CommandBytes DEF KeyIn
<1>4. ASSUME NEW i \in 0 .. 4 PROVE buffer[i] = Command(0)[i + 1]
  <2>1. i \in Positions /\ i + 1 \in 1 .. 9 /\ i + 1 # 6
    BY DEF Positions, LastByte
  <2> QED
    BY <1>1, <2>1, CommandBytes
<1> QED
  BY <1>3, <1>4 DEF StartsRight

\* The byte on the line, and where it stands in the command.
LEMMA ByteComes ==
    ASSUME KeypadTypeOK, incoming > 0
    PROVE  /\ 10 - incoming \in 1 .. 9 /\ incoming \in 1 .. 9 /\ typed \in Nat \ {0}
           /\ Comes = Char("^") <=> incoming = 9
           /\ Comes = Char("$") <=> incoming = 1
           /\ incoming = 4 => Comes[1] = "key" /\ Comes[2] = typed
           /\ incoming # 4 => Comes[1] # "key"
<1>1. 10 - incoming \in 1 .. 9 /\ incoming \in 1 .. 9 /\ typed \in Nat \ {0}
  BY DEF KeypadTypeOK
<1>2. /\ 10 - incoming = 1 <=> incoming = 9
      /\ 10 - incoming = 9 <=> incoming = 1
      /\ 10 - incoming = 6 <=> incoming = 4
  BY <1>1
<1> HIDE DEF Command, Char
<1> QED
  BY <1>1, <1>2, CommandBytes DEF Comes

-----------------------------------------------------------------------------
(* What the steps do to the bookkeeping *)

LEMMA MissingIsFinite ==
    ASSUME KeypadTypeOK PROVE IsFiniteSet(Missing) /\ Cardinality(Missing) \in Nat
<1>1. IsFiniteSet(1 .. typed)
  BY FS_Interval DEF KeypadTypeOK
<1>2. Missing \subseteq 1 .. typed
  BY DEF Missing
<1> QED
  BY <1>1, <1>2, FS_Subset, FS_CardinalityType

LEMMA ZerosAreFinite ==
    ASSUME KeypadTypeOK PROVE IsFiniteSet(Zeros) /\ Cardinality(Zeros) \in Nat
<1>1. DOMAIN handled = 1 .. Len(handled) /\ Len(handled) \in Nat
  BY DEF KeypadTypeOK
<1>2. IsFiniteSet(DOMAIN handled)
  BY <1>1, FS_Interval
<1>3. Zeros \subseteq DOMAIN handled
  BY DEF Zeros
<1> QED
  BY <1>2, <1>3, FS_Subset, FS_CardinalityType

LEMMA SubsetCardinality ==
    ASSUME NEW S, NEW T, IsFiniteSet(S), T \subseteq S
    PROVE  Cardinality(T) \in Nat /\ Cardinality(T) <= Cardinality(S)
BY FS_Subset, FS_CardinalityType

LEMMA OneMoreCardinality ==
    ASSUME NEW S, NEW T, NEW x, IsFiniteSet(S), T \subseteq S \cup {x}
    PROVE  Cardinality(T) \in Nat /\ Cardinality(T) <= Cardinality(S) + 1
<1>1. /\ IsFiniteSet(S \cup {x}) /\ Cardinality(S) \in Nat
      /\ Cardinality(S \cup {x}) = IF x \in S THEN Cardinality(S) ELSE Cardinality(S) + 1
  BY FS_AddElement, FS_CardinalityType
<1>2. Cardinality(T) \in Nat /\ Cardinality(T) <= Cardinality(S \cup {x})
  BY <1>1, SubsetCardinality
<1> HIDE DEF Missing
<1> QED
  BY <1>1, <1>2

LEMMA UnionCardinality ==
    ASSUME NEW S, NEW T, IsFiniteSet(S), IsFiniteSet(T)
    PROVE  /\ IsFiniteSet(S \cup T) /\ Cardinality(S \cup T) \in Nat
           /\ Cardinality(S \cup T) <= Cardinality(S) + Cardinality(T)
<1>1. /\ IsFiniteSet(S \cup T)
      /\ Cardinality(S \cup T) = Cardinality(S) + Cardinality(T) - Cardinality(S \cap T)
  BY FS_Union
<1>2. IsFiniteSet(S \cap T)
  BY FS_Subset
<1>3. Cardinality(S) \in Nat /\ Cardinality(T) \in Nat /\ Cardinality(S \cap T) \in Nat
      /\ Cardinality(S \cup T) \in Nat
  BY <1>1, <1>2, FS_CardinalityType
<1> QED
  BY <1>1, <1>3

LEMMA DueIs == Due \in {0, 1, 2} /\ Due' \in {0, 1, 2}
BY DEF Due

\* Nothing more is missing, and no more is due.
LEMMA PaidAsBefore ==
    ASSUME KeypadInv, lost' = lost, Missing' \subseteq Missing, Due' <= Due
    PROVE  MissingPaid'
<1>1. Cardinality(Missing) \in Nat /\ IsFiniteSet(Missing)
  BY MissingIsFinite DEF KeypadInv
<1>2. Cardinality(Missing') \in Nat /\ Cardinality(Missing') <= Cardinality(Missing)
  BY <1>1, SubsetCardinality
<1>3. Cardinality(Missing) + Due <= 2 * lost /\ lost \in Nat
  BY DEF KeypadInv, MissingPaid, KeypadTypeOK
<1>4. Due \in Int /\ Due' \in Int
  BY DueIs
<1>5. Cardinality(Missing') + Due' <= 2 * lost'
  BY <1>1, <1>2, <1>3, <1>4
<1> QED
  BY <1>5 DEF MissingPaid

\* A key is missing that was due.
LEMMA PaidForDue ==
    ASSUME KeypadInv, lost' = lost, NEW k, Missing' \subseteq Missing \cup {k}, Due' < Due
    PROVE  MissingPaid'
<1>1. Cardinality(Missing) \in Nat /\ IsFiniteSet(Missing)
  BY MissingIsFinite DEF KeypadInv
<1>2. Cardinality(Missing') \in Nat /\ Cardinality(Missing') <= Cardinality(Missing) + 1
  BY <1>1, OneMoreCardinality
<1>3. Cardinality(Missing) + Due <= 2 * lost /\ lost \in Nat
  BY DEF KeypadInv, MissingPaid, KeypadTypeOK
<1>4. Due \in Int /\ Due' \in Int
  BY DueIs
<1>5. Cardinality(Missing') + Due' <= 2 * lost'
  BY <1>1, <1>2, <1>3, <1>4
<1> QED
  BY <1>5 DEF MissingPaid

\* What a lost byte pays for.
LEMMA PaidByLoss ==
    ASSUME KeypadInv, lost' = lost + 1,
           \/ Missing' \subseteq Missing
           \/ (\E k : Missing' \subseteq Missing \cup {k}) /\ Due' <= 1
    PROVE  MissingPaid'
<1>1. Cardinality(Missing) \in Nat /\ IsFiniteSet(Missing)
  BY MissingIsFinite DEF KeypadInv
<1>2. \/ Cardinality(Missing') \in Nat /\ Cardinality(Missing') <= Cardinality(Missing)
      \/ Cardinality(Missing') \in Nat /\ Cardinality(Missing') <= Cardinality(Missing) + 1 /\ Due' <= 1
  BY <1>1, SubsetCardinality, OneMoreCardinality
<1>3. Cardinality(Missing) + Due <= 2 * lost /\ lost \in Nat
  BY DEF KeypadInv, MissingPaid, KeypadTypeOK
<1>4. Due \in {0, 1, 2} /\ Due' \in {0, 1, 2}
  BY DueIs
<1>5. Cardinality(Missing') + Due' <= 2 * lost'
  BY <1>1, <1>2, <1>3, <1>4
<1> QED
  BY <1>5 DEF MissingPaid

\* The same for frames that are no command.
LEMMA ZerosPaidAsBefore ==
    ASSUME KeypadInv, lost' >= lost, lost' \in Int, UNCHANGED handled,
           One(CopyUnclean)' + One(BufferUnclean)' + One(Strayed)'
               <= One(CopyUnclean) + One(BufferUnclean) + One(Strayed) + (lost' - lost)
    PROVE  ZerosPaid'
<1>1. Cardinality(Zeros) \in Nat
  BY ZerosAreFinite DEF KeypadInv
<1>2. Cardinality(Zeros)' = Cardinality(Zeros)
  BY DEF Zeros
<1>3. /\ Cardinality(Zeros) + One(CopyUnclean) + One(BufferUnclean) + One(Strayed) <= lost
      /\ lost \in Nat
  BY DEF KeypadInv, ZerosPaid, KeypadTypeOK
<1>4. /\ One(CopyUnclean) \in Int /\ One(BufferUnclean) \in Int /\ One(Strayed) \in Int
      /\ One(CopyUnclean)' \in Int /\ One(BufferUnclean)' \in Int /\ One(Strayed)' \in Int
  BY DEF One
<1>5. Cardinality(Zeros)' + One(CopyUnclean)' + One(BufferUnclean)' + One(Strayed)' <= lost'
  BY <1>1, <1>2, <1>3, <1>4
<1> QED
  BY <1>5 DEF ZerosPaid

LEMMA FewerToPay ==
    ASSUME KeypadInv, lost' = lost, UNCHANGED handled,
           CopyUnclean' => CopyUnclean, BufferUnclean' => BufferUnclean, Strayed' => Strayed
    PROVE  ZerosPaid'
<1>1. /\ One(CopyUnclean)' <= One(CopyUnclean) /\ One(BufferUnclean)' <= One(BufferUnclean)
      /\ One(Strayed)' <= One(Strayed)
  BY DEF One
<1>2. /\ One(CopyUnclean) \in Int /\ One(BufferUnclean) \in Int /\ One(Strayed) \in Int
      /\ One(CopyUnclean)' \in Int /\ One(BufferUnclean)' \in Int /\ One(Strayed)' \in Int
  BY DEF One
<1>3. lost \in Int /\ lost' >= lost /\ lost' \in Int /\ lost' - lost = 0
  BY DEF KeypadInv, KeypadTypeOK
<1>4. One(CopyUnclean)' + One(BufferUnclean)' + One(Strayed)'
          <= One(CopyUnclean) + One(BufferUnclean) + One(Strayed) + (lost' - lost)
  BY <1>1, <1>2, <1>3
<1> QED
  BY <1>3, <1>4, ZerosPaidAsBefore

-----------------------------------------------------------------------------
(* The line *)

\* Nothing is stored: the key that comes next is no smaller than before.
LEMMA OrderKept ==
    ASSUME KeypadInv, NextKey' >= NextKey, NextKey' \in Int,
           UNCHANGED <<handled, serbuf, bufcopy, kpc, sercnt>>
    PROVE  Ordered'
<1>1. NextKey \in Int /\ KeyIn(bufcopy) \in Nat /\ KeyIn(serbuf) \in Nat /\ handled \in Seq(Nat)
  BY DEF KeypadInv, KeypadTypeOK, NextKey
<1>2. KeyIn(bufcopy)' = KeyIn(bufcopy) /\ KeyIn(serbuf)' = KeyIn(serbuf) /\ Full' = Full
  BY DEF KeyIn, Full
<1>3. HandledInOrder'
  BY DEF KeypadInv, Ordered, HandledInOrder
<1>4. HandledBefore'
  <2>1. \A i \in DOMAIN handled : handled[i] \in Nat /\ handled[i] < NextKey
    BY <1>1 DEF KeypadInv, Ordered, HandledBefore
  <2> HIDE DEF NextKey
  <2>2. \A i \in DOMAIN handled : handled[i] < NextKey'
    BY <1>1, <2>1
  <2> QED
    BY <2>2 DEF HandledBefore
<1>5. CopyInOrder'
  <2>1. CopyInOrder
    BY DEF KeypadInv, Ordered
  <2>2. KeyIn(bufcopy) < NextKey => KeyIn(bufcopy) < NextKey'
    BY <1>1
  <2> QED
    BY <1>2, <2>1, <2>2 DEF CopyInOrder, IsNew
<1>6. BufferInOrder'
  <2>1. BufferInOrder
    BY DEF KeypadInv, Ordered
  <2>2. KeyIn(serbuf) < NextKey => KeyIn(serbuf) < NextKey'
    BY <1>1
  <2>3. IsNew(KeyIn(serbuf))' <=> IsNew(KeyIn(serbuf))
    BY <1>2 DEF IsNew
  <2> QED
    BY <1>2, <2>1, <2>2, <2>3 DEF BufferInOrder
<1> QED
  BY <1>3, <1>4, <1>5, <1>6 DEF Ordered

LEMMA TypeKeeps == ASSUME KeypadInv, Type PROVE KeypadInv'
<1>1. /\ incoming = 0 /\ typed' = typed + 1 /\ incoming' = 9 /\ typed \in Nat
      /\ UNCHANGED <<serbuf, sercnt, kpc, copied, bufcopy, handled, overruns, lost>>
  BY DEF Type, KeypadInv, KeypadTypeOK
<1>2. KeypadTypeOK'
  <2>1. KeyIn(serbuf)' = KeyIn(serbuf) /\ KeyIn(bufcopy)' = KeyIn(bufcopy)
    BY <1>1 DEF KeyIn
  <2>2. 1 .. typed \subseteq 1 .. typed'
    BY <1>1
  <2> QED
    BY <1>1, <2>1, <2>2 DEF KeypadInv, KeypadTypeOK
<1>3. Handover'
  BY <1>1 DEF KeypadInv, Handover, Full
<1>4. Ordered'
  <2>1. NextKey = typed + 1 /\ NextKey' = typed + 1
    BY <1>1 DEF NextKey
  <2> QED
    BY <1>1, <2>1, OrderKept
<1>5. sercnt \in 0 .. 8
  BY DEF KeypadInv, KeypadTypeOK, Positions, LastByte
<1>6. (Strayed <=> sercnt > 0) /\ (Strayed' <=> sercnt > 0)
  BY <1>1, <1>5 DEF Strayed, InStep
<1>7. ZerosPaid'
  <2>1. IsClean(bufcopy) => IsClean(bufcopy)'
    BY <1>1 DEF IsClean, Clean
  <2>2. IsClean(serbuf) => IsClean(serbuf)'
    BY <1>1 DEF IsClean, Clean
  <2>3. (CopyUnclean' => CopyUnclean) /\ (BufferUnclean' => BufferUnclean) /\ (Strayed' => Strayed)
    BY <1>1, <1>6, <2>1, <2>2 DEF CopyUnclean, BufferUnclean, Full
  <2> QED
    BY <1>1, <2>3, FewerToPay DEF KeypadInv, KeypadTypeOK
<1>8. MissingPaid'
  <2>1. Missing' \subseteq Missing
    <3> SUFFICES ASSUME NEW k \in 1 .. typed', Gone(k)' PROVE k \in 1 .. typed /\ Gone(k)
      BY DEF Missing
    <3>1. k \in 1 .. typed
      BY <1>1 DEF Gone
    <3>2. Gone(k)
      BY <1>1 DEF Gone, Full, Clean
    <3> QED
      BY <3>1, <3>2
  <2>2. Due' <= Due
    <3>1. CASE sercnt > 0
      <4>1. Due = 1
        BY <1>1, <1>6, <3>1 DEF Due
      <4>2. Due' = 1
        BY <1>1, <1>5, <1>6, <3>1 DEF Due
      <4> QED
        BY <4>1, <4>2
    <3>2. CASE ~(sercnt > 0)
      <4>1. Due' = 0 /\ Due \in {0, 1, 2}
        BY <1>1, <1>6, <3>2, DueIs DEF Due
      <4> QED
        BY <4>1
    <3> QED
      BY <3>1, <3>2
  <2> QED
    BY <1>1, <2>1, <2>2, PaidAsBefore
<1> QED
  BY <1>2, <1>3, <1>4, <1>7, <1>8 DEF KeypadInv

LEMMA LoseByteKeeps == ASSUME KeypadInv, LoseByte PROVE KeypadInv'
<1>1. /\ incoming > 0 /\ incoming' = incoming - 1 /\ lost' = lost + 1
      /\ incoming \in 1 .. 9 /\ typed \in Nat /\ lost \in Nat
      /\ UNCHANGED <<typed, serbuf, sercnt, kpc, copied, bufcopy, handled, overruns>>
  BY DEF LoseByte, KeypadInv, KeypadTypeOK
<1>2. KeypadTypeOK'
  <2>1. KeyIn(serbuf)' = KeyIn(serbuf) /\ KeyIn(bufcopy)' = KeyIn(bufcopy)
    BY <1>1 DEF KeyIn
  <2> QED
    BY <1>1, <2>1 DEF KeypadInv, KeypadTypeOK
<1>3. Handover'
  BY <1>1 DEF KeypadInv, Handover, Full
<1>4. Ordered'
  <2>1. NextKey' >= NextKey /\ NextKey' \in Int
    BY <1>1 DEF NextKey
  <2> QED
    BY <1>1, <2>1, OrderKept
<1>5. ZerosPaid'
  <2>1. (CopyUnclean' <=> CopyUnclean) /\ (BufferUnclean' <=> BufferUnclean)
    BY <1>1 DEF CopyUnclean, BufferUnclean, Full, IsClean, Clean
  <2>2. One(CopyUnclean)' = One(CopyUnclean) /\ One(BufferUnclean)' = One(BufferUnclean)
    BY <2>1 DEF One
  <2>3. One(Strayed) \in {0, 1} /\ One(Strayed)' \in {0, 1}
        /\ One(CopyUnclean) \in {0, 1} /\ One(BufferUnclean) \in {0, 1}
    BY DEF One
  <2>4. One(CopyUnclean)' + One(BufferUnclean)' + One(Strayed)'
            <= One(CopyUnclean) + One(BufferUnclean) + One(Strayed) + (lost' - lost)
    BY <1>1, <2>2, <2>3
  <2>5. lost' >= lost /\ lost' \in Int
    BY <1>1
  <2> QED
    BY <1>1, <2>4, <2>5, ZerosPaidAsBefore
<1>6. MissingPaid'
  <2>1. CASE incoming' > 0
    <3>1. Missing' \subseteq Missing
      BY <1>1, <2>1 DEF Missing, Gone, Full, Clean
    <3> QED
      BY <1>1, <3>1, PaidByLoss
  <2>2. CASE ~(incoming' > 0)
    <3>1. Missing' \subseteq Missing \cup {typed}
      BY <1>1 DEF Missing, Gone, Full, Clean
    <3>2. Due' <= 1
      BY <1>1, <2>2 DEF Due
    <3> QED
      BY <1>1, <3>1, <3>2, PaidByLoss
  <2> QED
    BY <2>1, <2>2
<1> QED
  BY <1>2, <1>3, <1>4, <1>5, <1>6 DEF KeypadInv

-----------------------------------------------------------------------------
(* The main loop *)

LEMMA LookKeeps == ASSUME KeypadInv, Look PROVE KeypadInv'
<1>1. /\ kpc = "look" /\ kpc' = "copy" /\ copied' = 0 /\ Full
      /\ UNCHANGED <<typed, incoming, serbuf, sercnt, bufcopy, handled, overruns, lost>>
  BY DEF Look
<1>2. KeypadTypeOK'
  <2>1. KeyIn(serbuf)' = KeyIn(serbuf) /\ KeyIn(bufcopy)' = KeyIn(bufcopy)
    BY <1>1 DEF KeyIn
  <2> QED
    BY <1>1, <2>1 DEF KeypadInv, KeypadTypeOK
<1>3. Handover'
  BY <1>1 DEF KeypadInv, Handover, Full, Positions, LastByte
<1>4. Ordered'
  <2>1. HandledInOrder' /\ HandledBefore' /\ CopyInOrder'
    BY <1>1 DEF KeypadInv, Ordered, HandledInOrder, HandledBefore, CopyInOrder, NextKey
  <2>2. BufferInOrder'
    BY <1>1 DEF KeypadInv, Ordered, BufferInOrder, NextKey, KeyIn, IsNew, Full
  <2> QED
    BY <2>1, <2>2 DEF Ordered
<1>5. ZerosPaid'
  <2>1. (CopyUnclean' => CopyUnclean) /\ (BufferUnclean' => BufferUnclean) /\ (Strayed' => Strayed)
    BY <1>1 DEF CopyUnclean, BufferUnclean, Full, IsClean, Clean, Strayed, InStep
  <2> QED
    BY <1>1, <2>1, FewerToPay
<1>6. MissingPaid'
  <2>1. Missing' \subseteq Missing
    BY <1>1 DEF Missing, Gone, Full, Clean
  <2>2. Due' = Due
    BY <1>1 DEF Due, Strayed, InStep
  <2>3. Due' <= Due
    BY <2>2, DueIs
  <2> QED
    BY <1>1, <2>1, <2>3, PaidAsBefore
<1> QED
  BY <1>2, <1>3, <1>4, <1>5, <1>6 DEF KeypadInv

LEMMA CopyByteKeeps == ASSUME KeypadInv, CopyByte PROVE KeypadInv'
<1>1. /\ kpc = "copy" /\ kpc' = IF copied = 8 THEN "release" ELSE "copy"
      /\ copied' = copied + 1 /\ bufcopy' = [bufcopy EXCEPT ![copied] = serbuf[copied]]
      /\ UNCHANGED <<typed, incoming, serbuf, sercnt, handled, overruns, lost>>
  BY DEF CopyByte, LastByte
<1>2. /\ copied \in 0 .. 8 /\ Positions = 0 .. 8 /\ Full
      /\ DOMAIN bufcopy = Positions /\ DOMAIN serbuf = Positions
      /\ \A i \in 0 .. copied - 1 : bufcopy[i] = serbuf[i]
  BY <1>1 DEF KeypadInv, KeypadTypeOK, Handover, Positions, LastByte
<1>3. KeypadTypeOK'
  <2>1. KeyIn(serbuf) \in Nat /\ KeyIn(bufcopy) \in Nat
    BY DEF KeypadInv, KeypadTypeOK
  <2>2. KeyIn(serbuf)' = KeyIn(serbuf)
    BY <1>1 DEF KeyIn
  <2>3. KeyIn(bufcopy)' = KeyIn(bufcopy) \/ KeyIn(bufcopy)' = KeyIn(serbuf)
    <3>1. bufcopy'[5] = bufcopy[5] \/ bufcopy'[5] = serbuf[5]
      BY <1>1, <1>2
    <3> QED
      BY <3>1 DEF KeyIn
  <2>4. DOMAIN bufcopy' = Positions
    BY <1>1, <1>2
  <2> QED
    BY <1>1, <2>1, <2>2, <2>3, <2>4 DEF KeypadInv, KeypadTypeOK
<1>4. Handover'
  <2>1. \A i \in 0 .. copied : bufcopy'[i] = serbuf'[i]
    <3> SUFFICES ASSUME NEW i \in 0 .. copied PROVE bufcopy'[i] = serbuf[i]
      BY <1>1
    <3>1. CASE i = copied
      BY <1>1, <1>2, <3>1
    <3>2. CASE i # copied
      <4>1. i \in 0 .. copied - 1 /\ i \in Positions
        BY <1>2, <3>2
      <4> QED
        BY <1>1, <1>2, <3>2, <4>1
    <3> QED
      BY <3>1, <3>2
  <2>2. kpc' = "copy" => copied' \in Positions /\ copied' - 1 = copied
    BY <1>1, <1>2
  <2>3. kpc' = "release" => copied = 8
    BY <1>1
  <2>4. Full' /\ (Full' => sercnt' = 0)
    BY <1>1, <1>2 DEF Full, KeypadInv, Handover
  <2> QED
    BY <1>2, <2>1, <2>2, <2>3, <2>4 DEF Handover
<1>5. Ordered'
  <2>1. kpc' # "handle"
    BY <1>1
  <2>2. HandledInOrder' /\ HandledBefore' /\ CopyInOrder'
    BY <1>1, <2>1 DEF KeypadInv, Ordered, HandledInOrder, HandledBefore, CopyInOrder, NextKey
  <2>3. BufferInOrder'
    BY <1>1, <2>1 DEF KeypadInv, Ordered, BufferInOrder, NextKey, KeyIn, IsNew, Full
  <2> QED
    BY <2>2, <2>3 DEF Ordered
<1>6. ZerosPaid'
  <2>1. (CopyUnclean' => CopyUnclean) /\ (BufferUnclean' => BufferUnclean) /\ (Strayed' => Strayed)
    BY <1>1 DEF CopyUnclean, BufferUnclean, Full, IsClean, Clean, Strayed, InStep
  <2> QED
    BY <1>1, <2>1, FewerToPay
<1>7. MissingPaid'
  <2>1. Missing' \subseteq Missing
    BY <1>1 DEF Missing, Gone, Full, Clean
  <2>2. Due' = Due
    BY <1>1 DEF Due, Strayed, InStep
  <2>3. Due' <= Due
    BY <2>2, DueIs
  <2> QED
    BY <1>1, <2>1, <2>3, PaidAsBefore
<1> QED
  BY <1>3, <1>4, <1>5, <1>6, <1>7 DEF KeypadInv

\* The flag's byte is not the key's.
LEMMA ReleaseKeeps == ASSUME KeypadInv, Release PROVE KeypadInv'
<1>1. /\ kpc = "release" /\ kpc' = "handle" /\ serbuf' = [serbuf EXCEPT ![8] = Nul]
      /\ UNCHANGED <<typed, incoming, sercnt, copied, bufcopy, handled, overruns, lost>>
  BY DEF Release, LastByte
<1>2. /\ Full /\ sercnt = 0 /\ Positions = 0 .. 8 /\ DOMAIN serbuf = Positions
      /\ \A i \in Positions : bufcopy[i] = serbuf[i]
  BY <1>1 DEF KeypadInv, KeypadTypeOK, Handover, Positions, LastByte
<1>3. ~Full'
  <2>1. serbuf'[8] = Nul
    BY <1>1, <1>2
  <2>2. Nul # Char("$")
    BY BytesDiffer
  <2> QED
    BY <2>1, <2>2 DEF Full, LastByte
<1>4. KeyIn(serbuf)' = KeyIn(serbuf) /\ KeyIn(bufcopy)' = KeyIn(bufcopy) /\ KeyIn(bufcopy) = KeyIn(serbuf)
  BY <1>1, <1>2 DEF KeyIn
<1>5. KeypadTypeOK'
  BY <1>1, <1>2, <1>4 DEF KeypadInv, KeypadTypeOK
<1>6. Handover'
  BY <1>1, <1>3 DEF Handover
<1>7. Ordered'
  <2>1. HandledInOrder' /\ HandledBefore'
    BY <1>1 DEF KeypadInv, Ordered, HandledInOrder, HandledBefore, NextKey
  <2>2. CopyInOrder'
    BY <1>1, <1>2, <1>4 DEF KeypadInv, Ordered, CopyInOrder, BufferInOrder, NextKey, IsNew
  <2>3. BufferInOrder'
    BY <1>1, <1>2, <1>3 DEF BufferInOrder
  <2> QED
    BY <2>1, <2>2, <2>3 DEF Ordered
<1>8. \A k : Clean(bufcopy, k) <=> Clean(serbuf, k)
  BY <1>2 DEF Clean
<1>9. ZerosPaid'
  <2>1. ~CopyUnclean /\ ~BufferUnclean' /\ ~Strayed /\ ~Strayed'
    BY <1>1, <1>2, <1>3 DEF CopyUnclean, BufferUnclean, Strayed
  <2>2. CopyUnclean' => BufferUnclean
    BY <1>1, <1>2, <1>8 DEF CopyUnclean, BufferUnclean, IsClean, Clean
  <2>3. One(CopyUnclean)' + One(BufferUnclean)' + One(Strayed)'
            <= One(CopyUnclean) + One(BufferUnclean) + One(Strayed) + 0
    BY <2>1, <2>2 DEF One
  <2>4. lost \in Int /\ lost' \in Int /\ lost' >= lost /\ lost' - lost = 0
    BY <1>1 DEF KeypadInv, KeypadTypeOK
  <2> QED
    BY <1>1, <2>3, <2>4, ZerosPaidAsBefore
<1>10. MissingPaid'
  <2>1. Missing' \subseteq Missing
    BY <1>1, <1>8 DEF Missing, Gone, Clean
  <2>2. Due' = Due
    BY <1>1, <1>2 DEF Due, Strayed
  <2>3. Due' <= Due
    BY <2>2, DueIs
  <2> QED
    BY <1>1, <2>1, <2>3, PaidAsBefore
<1> QED
  BY <1>5, <1>6, <1>7, <1>9, <1>10 DEF KeypadInv

LEMMA HandleCommandKeeps == ASSUME KeypadInv, HandleCommand PROVE KeypadInv'
<1> DEFINE key == KeyIn(bufcopy)
<1>1. /\ kpc = "handle" /\ kpc' = "look"
      /\ UNCHANGED <<typed, incoming, serbuf, sercnt, copied, bufcopy, overruns, lost>>
      /\ handled' = IF StartsRight(bufcopy) THEN Append(handled, key) ELSE handled
  BY DEF HandleCommand
<1>2. /\ handled \in Seq(Nat) /\ key \in Nat /\ Len(handled) \in Nat /\ typed \in Nat
      /\ \A i \in DOMAIN handled : handled[i] \in Nat
  BY DEF KeypadInv, KeypadTypeOK
<1>3. key' = key /\ KeyIn(serbuf)' = KeyIn(serbuf) /\ NextKey' = NextKey /\ (Full' <=> Full)
  BY <1>1 DEF KeyIn, NextKey, Full
<1> HIDE DEF key
<1>4. \/ handled' = handled
      \/ /\ handled' \in Seq(Nat) /\ Len(handled') = Len(handled) + 1
         /\ handled'[Len(handled) + 1] = key
         /\ \A i \in 1 .. Len(handled) : handled'[i] = handled[i]
  BY <1>1, <1>2
<1>5. /\ DOMAIN handled = 1 .. Len(handled)
      /\ \A i \in DOMAIN handled : i \in DOMAIN handled' /\ handled'[i] = handled[i]
      /\ \A i \in DOMAIN handled' :
            i \in DOMAIN handled \/ (i = Len(handled) + 1 /\ handled'[i] = key)
  BY <1>2, <1>4, SMTT(40)
<1>6. KeypadTypeOK'
  BY <1>1, <1>3, <1>4 DEF KeypadInv, KeypadTypeOK, key
<1>7. Handover'
  BY <1>1, <1>3 DEF KeypadInv, Handover
<1>8. Ordered'
  <2>1. HandledInOrder /\ HandledBefore /\ key < NextKey /\ (key # 0 => \A i \in DOMAIN handled : handled[i] < key)
    BY <1>1 DEF KeypadInv, Ordered, CopyInOrder, IsNew, key
  <2>2. HandledInOrder'
    <3> SUFFICES ASSUME NEW i \in DOMAIN handled', NEW j \in DOMAIN handled',
                        i < j, handled'[i] # 0, handled'[j] # 0
                 PROVE  handled'[i] < handled'[j]
      BY DEF HandledInOrder
    <3>1. i \in DOMAIN handled
      BY <1>2, <1>5
    <3>2. CASE j \in DOMAIN handled
      BY <1>5, <2>1, <3>1, <3>2 DEF HandledInOrder
    <3>3. CASE handled'[j] = key
      BY <1>5, <2>1, <3>1, <3>3
    <3> QED
      BY <1>5, <3>2, <3>3
  <2>3. HandledBefore'
    BY <1>3, <1>5, <2>1 DEF HandledBefore
  <2>4. CopyInOrder'
    BY <1>1 DEF CopyInOrder
  <2>5. BufferInOrder'
    <3> DEFINE next == KeyIn(serbuf)
    <3>1. (Full \/ sercnt > 5) =>
            next < NextKey /\ (next # 0 => key < next /\ \A i \in DOMAIN handled : handled[i] < next)
      BY <1>1 DEF KeypadInv, Ordered, BufferInOrder, IsNew, key
    <3> HIDE DEF next
    <3>2. (Full \/ sercnt > 5) =>
            next < NextKey /\ (next # 0 => \A i \in DOMAIN handled' : handled'[i] < next)
      BY <1>5, <3>1
    <3>3. next' = next
      BY <1>3 DEF next
    <3> QED
      BY <1>1, <1>3, <3>2, <3>3 DEF BufferInOrder, IsNew, next
  <2> QED
    BY <2>2, <2>3, <2>4, <2>5 DEF Ordered
<1>9. CopyUnclean \/ key # 0 \/ handled' = handled
  <2> SUFFICES ASSUME ~CopyUnclean PROVE key # 0
    OBVIOUS
  <2>1. PICK k \in 1 .. typed : Clean(bufcopy, k)
    BY <1>1 DEF CopyUnclean, IsClean
  <2>2. key = k
    BY <2>1, CleanHasKey DEF key
  <2> QED
    BY <2>2
<1>10. ZerosPaid'
  <2>1. (BufferUnclean' <=> BufferUnclean) /\ (Strayed' <=> Strayed) /\ ~CopyUnclean'
    BY <1>1, <1>3 DEF BufferUnclean, CopyUnclean, IsClean, Clean, Strayed, InStep
  <2>2. One(BufferUnclean)' = One(BufferUnclean) /\ One(Strayed)' = One(Strayed) /\ One(CopyUnclean)' = 0
        /\ One(BufferUnclean) \in Int /\ One(Strayed) \in Int
    BY <2>1 DEF One
  <2>3. Cardinality(Zeros) + One(CopyUnclean) + One(BufferUnclean) + One(Strayed) <= lost /\ lost \in Nat
    BY DEF KeypadInv, ZerosPaid, KeypadTypeOK
  <2>4. IsFiniteSet(Zeros) /\ Cardinality(Zeros) \in Nat
    BY ZerosAreFinite DEF KeypadInv
  <2>5. CASE CopyUnclean
    <3>1. Zeros' \subseteq Zeros \cup {Len(handled) + 1}
      BY <1>5 DEF Zeros
    <3>2. Cardinality(Zeros') \in Nat /\ Cardinality(Zeros') <= Cardinality(Zeros) + 1
      BY <2>4, <3>1, OneMoreCardinality
    <3>3. One(CopyUnclean) = 1
      BY <2>5 DEF One
    <3>4. Cardinality(Zeros)' + One(CopyUnclean)' + One(BufferUnclean)' + One(Strayed)' <= lost'
      BY <1>1, <2>2, <2>3, <2>4, <3>2, <3>3
    <3> QED
      BY <3>4 DEF ZerosPaid
  <2>6. CASE ~CopyUnclean
    <3>1. Zeros' \subseteq Zeros
      BY <1>5, <1>9, <2>6 DEF Zeros
    <3>2. Cardinality(Zeros') \in Nat /\ Cardinality(Zeros') <= Cardinality(Zeros)
      BY <2>4, <3>1, SubsetCardinality
    <3>3. One(CopyUnclean) = 0
      BY <2>6 DEF One
    <3>4. Cardinality(Zeros)' + One(CopyUnclean)' + One(BufferUnclean)' + One(Strayed)' <= lost'
      BY <1>1, <2>2, <2>3, <2>4, <3>2, <3>3
    <3> QED
      BY <3>4 DEF ZerosPaid
  <2> QED
    BY <2>5, <2>6
<1>11. MissingPaid'
  <2>1. Missing' \subseteq Missing
    <3> SUFFICES ASSUME NEW k \in 1 .. typed, Gone(k)' PROVE Gone(k)
      BY <1>1 DEF Missing
    <3>1. /\ k < typed \/ incoming = 0
          /\ k \notin overruns
          /\ ~(Full /\ Clean(serbuf, k))
      BY <1>1, <1>3 DEF Gone, Clean
    <3>2. \A i \in DOMAIN handled : handled[i] # k
      BY <1>5 DEF Gone
    <3>3. ~Clean(bufcopy, k)
      <4> SUFFICES ASSUME Clean(bufcopy, k) PROVE FALSE
        OBVIOUS
      <4>1. key = k /\ handled' = Append(handled, key)
        BY <1>1, CleanHasKey DEF key
      <4>2. Len(handled) + 1 \in DOMAIN handled' /\ handled'[Len(handled) + 1] = k
        BY <1>2, <4>1
      <4> QED
        BY <4>2 DEF Gone
    <3> QED
      BY <3>1, <3>2, <3>3 DEF Gone
  <2>2. Due' = Due
    BY <1>1 DEF Due, Strayed, InStep
  <2>3. Due' <= Due
    BY <2>2, DueIs
  <2> QED
    BY <1>1, <2>1, <2>3, PaidAsBefore
<1> QED
  BY <1>6, <1>7, <1>8, <1>10, <1>11 DEF KeypadInv

-----------------------------------------------------------------------------
(* The receive interrupt *)

\* The main loop has the buffer: the byte is dropped.
LEMMA ReceiveFull == ASSUME KeypadInv, Receive, Full PROVE KeypadInv'
<1>1. /\ incoming > 0 /\ incoming' = incoming - 1 /\ incoming \in 1 .. 9
      /\ typed \in Nat \ {0} /\ sercnt = 0
      /\ overruns' = overruns \cup {typed}
      /\ UNCHANGED <<typed, serbuf, sercnt, kpc, copied, bufcopy, handled, lost>>
  BY DEF Receive, KeypadInv, KeypadTypeOK, Handover
<1>2. KeypadTypeOK'
  <2>1. KeyIn(serbuf)' = KeyIn(serbuf) /\ KeyIn(bufcopy)' = KeyIn(bufcopy)
    BY <1>1 DEF KeyIn
  <2>2. overruns' \subseteq 1 .. typed
    BY <1>1 DEF KeypadInv, KeypadTypeOK
  <2> QED
    BY <1>1, <2>1, <2>2 DEF KeypadInv, KeypadTypeOK
<1>3. Handover'
  BY <1>1 DEF KeypadInv, Handover, Full
<1>4. Ordered'
  <2>1. NextKey' >= NextKey /\ NextKey' \in Int
    BY <1>1 DEF NextKey
  <2> QED
    BY <1>1, <2>1, OrderKept
<1>5. ZerosPaid'
  <2>1. (CopyUnclean' => CopyUnclean) /\ (BufferUnclean' => BufferUnclean) /\ (Strayed' => Strayed)
    BY <1>1 DEF CopyUnclean, BufferUnclean, Full, IsClean, Clean, Strayed
  <2> QED
    BY <1>1, <2>1, FewerToPay
<1>6. MissingPaid'
  <2>1. Missing' \subseteq Missing
    BY <1>1 DEF Missing, Gone, Full, Clean
  <2>2. Due' = 0
    BY <1>1 DEF Due, Strayed
  <2>3. Due' <= Due
    BY <2>2, DueIs
  <2> QED
    BY <1>1, <2>1, <2>3, PaidAsBefore
<1> QED
  BY <1>2, <1>3, <1>4, <1>5, <1>6 DEF KeypadInv

\* The byte does not fit: a frame does not begin, or does not end.
LEMMA ReceiveRefused == ASSUME KeypadInv, Receive, ~Full, ~Fits(Comes) PROVE KeypadInv'
<1>1. /\ incoming > 0 /\ incoming' = incoming - 1 /\ incoming \in 1 .. 9
      /\ typed \in Nat \ {0} /\ sercnt \in 0 .. 8
      /\ UNCHANGED <<typed, serbuf, sercnt, kpc, copied, bufcopy, handled, overruns, lost>>
  BY DEF Receive, KeypadInv, KeypadTypeOK, Positions, LastByte
<1>2. (sercnt = 0 /\ incoming # 9) \/ (sercnt = 8 /\ incoming # 1)
  BY <1>1, ByteComes DEF KeypadInv, Fits, LastByte
<1>3. KeypadTypeOK'
  <2>1. KeyIn(serbuf)' = KeyIn(serbuf) /\ KeyIn(bufcopy)' = KeyIn(bufcopy)
    BY <1>1 DEF KeyIn
  <2> QED
    BY <1>1, <2>1 DEF KeypadInv, KeypadTypeOK
<1>4. Handover'
  BY <1>1 DEF KeypadInv, Handover, Full
<1>5. Ordered'
  <2>1. NextKey' >= NextKey /\ NextKey' \in Int
    BY <1>1 DEF NextKey
  <2> QED
    BY <1>1, <2>1, OrderKept
<1>6. Strayed <=> sercnt = 8
  BY <1>1, <1>2 DEF Strayed, InStep
<1>7. Strayed' => sercnt = 8
  BY <1>1, <1>2 DEF Strayed
<1>8. ZerosPaid'
  <2>1. (CopyUnclean' => CopyUnclean) /\ (BufferUnclean' => BufferUnclean)
    BY <1>1 DEF CopyUnclean, BufferUnclean, Full, IsClean, Clean
  <2> QED
    BY <1>1, <1>6, <1>7, <2>1, FewerToPay
<1>9. MissingPaid'
  <2>1. CASE sercnt = 8
    <3>1. Missing' \subseteq Missing
      BY <1>1, <1>2, <2>1 DEF Missing, Gone, Full, Clean
    <3>2. Due = 1
      BY <1>1, <1>6, <2>1 DEF Due
    <3>3. Due' <= 1
      BY <1>1, <2>1 DEF Due
    <3> QED
      BY <1>1, <3>1, <3>2, <3>3, PaidAsBefore
  <2>2. CASE sercnt = 0 /\ incoming > 1
    <3>1. Missing' \subseteq Missing
      BY <1>1, <2>2 DEF Missing, Gone, Full, Clean
    <3>2. Due' = Due
      BY <1>1, <1>2, <2>2 DEF Due, Strayed
    <3>3. Due' <= Due
      BY <3>2, DueIs
    <3> QED
      BY <1>1, <3>1, <3>3, PaidAsBefore
  <2>3. CASE sercnt = 0 /\ incoming = 1 /\ typed \in overruns
    <3>1. Missing' \subseteq Missing
      BY <1>1, <2>3 DEF Missing, Gone, Full, Clean
    <3>2. Due' = 0
      BY <1>1, <2>3 DEF Due, Strayed
    <3>3. Due' <= Due
      BY <3>2, DueIs
    <3> QED
      BY <1>1, <3>1, <3>3, PaidAsBefore
  <2>4. CASE sercnt = 0 /\ incoming = 1 /\ typed \notin overruns
    <3>1. Missing' \subseteq Missing \cup {typed}
      BY <1>1 DEF Missing, Gone, Full, Clean
    <3>2. Due' = 0 /\ Due = 1
      BY <1>1, <2>4 DEF Due, Strayed
    <3>3. Due' < Due
      BY <3>2
    <3> QED
      BY <1>1, <3>1, <3>3, PaidForDue
  <2> QED
    BY <1>1, <1>2, <2>1, <2>2, <2>3, <2>4
<1> QED
  BY <1>3, <1>4, <1>5, <1>8, <1>9 DEF KeypadInv

\* The byte is stored and the frame goes on.
LEMMA ReceiveStored == ASSUME KeypadInv, Receive, ~Full, Fits(Comes), sercnt # 8 PROVE KeypadInv'
<1>1. /\ incoming > 0 /\ incoming' = incoming - 1 /\ incoming \in 1 .. 9
      /\ typed \in Nat \ {0} /\ sercnt \in 0 .. 7
      /\ serbuf' = [serbuf EXCEPT ![sercnt] = Comes] /\ sercnt' = (sercnt + 1) % 9
      /\ DOMAIN serbuf = 0 .. 8
      /\ UNCHANGED <<typed, kpc, copied, bufcopy, handled, overruns, lost>>
  BY DEF Receive, KeypadInv, KeypadTypeOK, Positions, LastByte
<1>2. sercnt' = sercnt + 1
  BY <1>1
<1>3. /\ serbuf'[sercnt] = Comes
      /\ \A i \in 0 .. 8 : i # sercnt => serbuf'[i] = serbuf[i]
      /\ DOMAIN serbuf' = 0 .. 8
  BY <1>1
<1>4. ~Full'
  BY <1>1, <1>3 DEF Full, LastByte
<1>5. sercnt = 0 => incoming = 9
  BY <1>1, ByteComes DEF KeypadInv, Fits
<1>6. KeyIn(serbuf) \in Nat /\ KeyIn(bufcopy) \in Nat /\ KeyIn(bufcopy)' = KeyIn(bufcopy)
  BY <1>1 DEF KeypadInv, KeypadTypeOK, KeyIn
<1>7. /\ sercnt # 5 => KeyIn(serbuf)' = KeyIn(serbuf)
      /\ sercnt = 5 => KeyIn(serbuf)' = IF incoming = 4 THEN typed ELSE 0
  <2>1. ASSUME sercnt # 5 PROVE KeyIn(serbuf)' = KeyIn(serbuf)
    BY <1>3, <2>1 DEF KeyIn
  <2>2. ASSUME sercnt = 5 PROVE KeyIn(serbuf)' = IF incoming = 4 THEN typed ELSE 0
    <3>1. serbuf'[5] = Comes
      BY <1>3, <2>2
    <3>2. /\ incoming = 4 => Comes[1] = "key" /\ Comes[2] = typed
          /\ incoming # 4 => Comes[1] # "key"
      BY <1>1, ByteComes DEF KeypadInv
    <3> QED
      BY <3>1, <3>2 DEF KeyIn
  <2> QED
    BY <2>1, <2>2
<1>8. KeypadTypeOK'
  <2>1. KeyIn(serbuf)' \in Nat
    BY <1>1, <1>6, <1>7
  <2> QED
    BY <1>1, <1>2, <1>3, <1>6, <2>1 DEF KeypadInv, KeypadTypeOK, Positions, LastByte
<1>9. Handover'
  BY <1>1, <1>4 DEF KeypadInv, Handover
<1>10. Ordered'
  <2>1. NextKey' >= NextKey /\ NextKey' \in Int /\ NextKey \in Int /\ NextKey' > 0
    BY <1>1 DEF NextKey
  <2>2. incoming = 4 => NextKey = typed /\ NextKey' = typed + 1
    BY <1>1 DEF NextKey
  <2>3. HandledInOrder' /\ (\A i \in DOMAIN handled : handled[i] \in Nat /\ handled[i] < NextKey)
    BY <1>1 DEF KeypadInv, Ordered, HandledInOrder, HandledBefore, KeypadTypeOK
  <2>4. HandledBefore'
    BY <1>1, <2>1, <2>3 DEF HandledBefore
  <2>5. kpc = "handle" => KeyIn(bufcopy) < NextKey /\ IsNew(KeyIn(bufcopy))
    BY DEF KeypadInv, Ordered, CopyInOrder
  <2>6. CopyInOrder'
    <3>1. KeyIn(bufcopy) < NextKey => KeyIn(bufcopy) < NextKey'
      BY <1>6, <2>1
    <3> QED
      BY <1>1, <1>6, <2>5, <3>1 DEF CopyInOrder, IsNew
  <2>7. BufferInOrder'
    <3>1. CASE sercnt < 5
      BY <1>1, <1>2, <1>4, <3>1 DEF BufferInOrder
    <3>2. CASE sercnt > 5
      <4>1. /\ KeyIn(serbuf) < NextKey /\ IsNew(KeyIn(serbuf))
            /\ kpc = "handle" /\ KeyIn(serbuf) # 0 => KeyIn(bufcopy) < KeyIn(serbuf)
        BY <3>2 DEF KeypadInv, Ordered, BufferInOrder
      <4>2. KeyIn(serbuf)' = KeyIn(serbuf) /\ KeyIn(serbuf) < NextKey'
        BY <1>1, <1>6, <1>7, <2>1, <3>2, <4>1
      <4> QED
        BY <1>1, <1>6, <4>1, <4>2 DEF BufferInOrder, IsNew
    <3>3. CASE sercnt = 5 /\ incoming = 4
      <4>1. KeyIn(serbuf)' = typed
        BY <1>7, <3>3
      <4>2. typed < NextKey'
        BY <1>1, <2>2, <3>3
      <4>3. \A i \in DOMAIN handled : handled[i] < typed
        BY <2>2, <2>3, <3>3
      <4>4. kpc = "handle" => KeyIn(bufcopy) < typed
        BY <2>2, <2>5, <3>3
      <4> QED
        BY <1>1, <1>6, <4>1, <4>2, <4>3, <4>4 DEF BufferInOrder, IsNew
    <3>4. CASE sercnt = 5 /\ incoming # 4
      <4>1. KeyIn(serbuf)' = 0
        BY <1>7, <3>4
      <4>2. 0 < NextKey'
        BY <2>1
      <4> QED
        BY <4>1, <4>2 DEF BufferInOrder, IsNew
    <3> QED
      BY <1>1, <3>1, <3>2, <3>3, <3>4
  <2> QED
    BY <2>3, <2>4, <2>6, <2>7 DEF Ordered
<1>11. sercnt = 0 \/ InStep => InStep'
  <2> SUFFICES ASSUME sercnt = 0 \/ InStep PROVE InStep'
    OBVIOUS
  <2>1. incoming = 9 - sercnt
    BY <1>5 DEF InStep
  <2>2. Comes = Command(typed)[sercnt + 1]
    <3>1. 10 - incoming = sercnt + 1
      BY <1>1, <2>1
    <3> QED
      BY <3>1 DEF Comes
  <2>3. \A i \in 0 .. sercnt - 1 : serbuf[i] = Command(typed)[i + 1]
    BY <1>1 DEF InStep
  <2>4. \A i \in 0 .. sercnt : serbuf'[i] = Command(typed)[i + 1]
    <3> SUFFICES ASSUME NEW i \in 0 .. sercnt PROVE serbuf'[i] = Command(typed)[i + 1]
      OBVIOUS
    <3>1. CASE i = sercnt
      BY <1>3, <2>2, <3>1
    <3>2. CASE i # sercnt
      <4>1. i \in 0 .. sercnt - 1 /\ i \in 0 .. 8
        BY <1>1, <3>2
      <4> QED
        BY <1>3, <2>3, <3>2, <4>1
    <3> QED
      BY <3>1, <3>2
  <2>5. sercnt' > 0 /\ incoming' = 9 - sercnt' /\ sercnt' - 1 = sercnt
    BY <1>1, <1>2, <2>1
  <2> HIDE DEF Command
  <2> QED
    BY <1>1, <2>4, <2>5 DEF InStep
<1>12. Strayed' => Strayed
  BY <1>1, <1>11 DEF Strayed
<1>13. ZerosPaid'
  <2>1. CopyUnclean' => CopyUnclean
    BY <1>1 DEF CopyUnclean, IsClean, Clean
  <2>2. BufferUnclean' => BufferUnclean
    BY <1>4 DEF BufferUnclean
  <2> QED
    BY <1>1, <1>12, <2>1, <2>2, FewerToPay
<1>14. MissingPaid'
  <2>1. CASE ~Strayed
    <3>1. incoming' > 0
      <4>1. sercnt = 0 \/ InStep
        BY <1>1, <2>1 DEF Strayed
      <4>2. incoming = 9 - sercnt
        BY <1>5, <4>1 DEF InStep
      <4> QED
        BY <1>1, <4>2
    <3>2. Missing' \subseteq Missing
      BY <1>1, <1>4, <3>1 DEF Missing, Gone, Full, Clean
    <3>3. ~Strayed' /\ sercnt' # 0
      BY <1>1, <1>2, <1>12, <2>1
    <3>4. Due' = 0
      BY <3>3 DEF Due
    <3>5. Due' <= Due
      BY <3>4, DueIs
    <3> QED
      BY <1>1, <3>2, <3>5, PaidAsBefore
  <2>2. CASE Strayed /\ incoming' > 0
    <3>1. Missing' \subseteq Missing
      BY <1>1, <1>4, <2>2 DEF Missing, Gone, Full, Clean
    <3>2. sercnt' + incoming' = sercnt + incoming
      BY <1>1, <1>2
    <3>3. Due = IF sercnt + incoming < 9 THEN 2 ELSE 1
      BY <1>1, <2>2 DEF Due
    <3>4. Due' = 0 \/ Due' = IF sercnt + incoming < 9 THEN 2 ELSE 1
      <4>1. sercnt' # 0
        BY <1>1, <1>2
      <4> QED
        BY <2>2, <3>2, <4>1 DEF Due
    <3>5. Due' <= Due
      BY <3>3, <3>4
    <3> QED
      BY <1>1, <3>1, <3>5, PaidAsBefore
  <2>3. CASE Strayed /\ ~(incoming' > 0)
    <3>1. Missing' \subseteq Missing \cup {typed}
      BY <1>1, <1>4 DEF Missing, Gone, Full, Clean
    <3>2. Due = 2
      BY <1>1, <2>3 DEF Due
    <3>3. Due' <= 1
      BY <2>3 DEF Due
    <3>4. Due' < Due
      BY <3>2, <3>3, DueIs
    <3> QED
      BY <1>1, <3>1, <3>4, PaidForDue
  <2> QED
    BY <2>1, <2>2, <2>3
<1> QED
  BY <1>8, <1>9, <1>10, <1>13, <1>14 DEF KeypadInv

\* The last byte: the buffer goes to the main loop.
LEMMA ReceiveLast == ASSUME KeypadInv, Receive, ~Full, Fits(Comes), sercnt = 8 PROVE KeypadInv'
<1>1. /\ incoming > 0 /\ incoming' = incoming - 1 /\ incoming \in 1 .. 9
      /\ typed \in Nat \ {0}
      /\ serbuf' = [serbuf EXCEPT ![8] = Comes] /\ sercnt' = 0
      /\ DOMAIN serbuf = 0 .. 8
      /\ UNCHANGED <<typed, kpc, copied, bufcopy, handled, overruns, lost>>
  BY DEF Receive, KeypadInv, KeypadTypeOK, Positions, LastByte
<1>2. incoming = 1 /\ incoming' = 0
  BY <1>1, ByteComes DEF KeypadInv, Fits, LastByte
<1>3. /\ serbuf'[8] = Comes
      /\ \A i \in 0 .. 8 : i # 8 => serbuf'[i] = serbuf[i]
      /\ DOMAIN serbuf' = 0 .. 8
  BY <1>1
<1>4. Full'
  BY <1>1, <1>2, <1>3, ByteComes DEF KeypadInv, Full, LastByte
<1>5. /\ KeyIn(serbuf) \in Nat /\ KeyIn(bufcopy) \in Nat
      /\ KeyIn(serbuf)' = KeyIn(serbuf) /\ KeyIn(bufcopy)' = KeyIn(bufcopy)
  BY <1>1, <1>3 DEF KeypadInv, KeypadTypeOK, KeyIn
<1>6. KeypadTypeOK'
  BY <1>1, <1>3, <1>5 DEF KeypadInv, KeypadTypeOK, Positions, LastByte
<1>7. Handover'
  BY <1>1, <1>4 DEF KeypadInv, Handover
<1>8. Ordered'
  <2>1. NextKey = typed + 1 /\ NextKey' = typed + 1
    BY <1>1, <1>2 DEF NextKey
  <2>2. HandledInOrder' /\ HandledBefore' /\ CopyInOrder'
    BY <1>1, <1>5, <2>1 DEF KeypadInv, Ordered, HandledInOrder, HandledBefore, CopyInOrder, IsNew
  <2>3. /\ KeyIn(serbuf) < NextKey /\ IsNew(KeyIn(serbuf))
        /\ kpc = "handle" /\ KeyIn(serbuf) # 0 => KeyIn(bufcopy) < KeyIn(serbuf)
    BY DEF KeypadInv, Ordered, BufferInOrder
  <2>4. BufferInOrder'
    BY <1>1, <1>5, <2>1, <2>3 DEF BufferInOrder, IsNew
  <2> QED
    BY <2>2, <2>4 DEF Ordered
<1>9. InStep => Clean(serbuf, typed)'
  <2> SUFFICES ASSUME InStep, NEW i \in 0 .. 8 PROVE serbuf'[i] = Command(typed)[i + 1]
    BY <1>1 DEF Clean, Positions, LastByte
  <2>1. CASE i = 8
    <3>1. 10 - incoming = i + 1
      BY <1>2, <2>1
    <3> QED
      BY <1>3, <2>1, <3>1 DEF Comes
  <2>2. CASE i # 8
    <3>1. i \in 0 .. sercnt - 1
      BY <2>2
    <3> QED
      BY <1>3, <2>2, <3>1 DEF InStep
  <2> QED
    BY <2>1, <2>2
<1>10. ZerosPaid'
  <2>1. CopyUnclean' => CopyUnclean
    BY <1>1 DEF CopyUnclean, IsClean, Clean
  <2>2. BufferUnclean' => Strayed
    <3>1. typed' = typed /\ typed \in 1 .. typed
      BY <1>1
    <3> QED
      BY <1>9, <3>1 DEF BufferUnclean, IsClean, Strayed
  <2>3. ~Strayed'
    BY <1>1 DEF Strayed
  <2>4. One(CopyUnclean)' <= One(CopyUnclean) /\ One(BufferUnclean)' <= One(Strayed) /\ One(Strayed)' = 0
    BY <2>1, <2>2, <2>3 DEF One
  <2>5. /\ One(CopyUnclean) \in {0, 1} /\ One(BufferUnclean) \in {0, 1} /\ One(Strayed) \in {0, 1}
        /\ One(CopyUnclean)' \in {0, 1} /\ One(BufferUnclean)' \in {0, 1}
        /\ lost \in Int /\ lost' \in Int /\ lost' >= lost /\ lost' - lost = 0
    BY <1>1 DEF One, KeypadInv, KeypadTypeOK
  <2>6. One(CopyUnclean)' + One(BufferUnclean)' + One(Strayed)'
            <= One(CopyUnclean) + One(BufferUnclean) + One(Strayed) + (lost' - lost)
    BY <2>4, <2>5
  <2> QED
    BY <1>1, <2>5, <2>6, ZerosPaidAsBefore
<1>11. MissingPaid'
  <2>1. Due' = 0
    BY <1>1, <1>2 DEF Due, Strayed
  <2>2. CASE InStep
    <3>1. Missing' \subseteq Missing
      <4> SUFFICES ASSUME NEW k \in 1 .. typed, Gone(k)' PROVE Gone(k)
        BY <1>1 DEF Missing
      <4>1. k # typed
        BY <1>1, <1>4, <1>9, <2>2 DEF Gone
      <4>2. k < typed
        BY <1>1, <4>1
      <4> QED
        BY <1>1, <4>2 DEF Gone, Clean
    <3>2. Due' <= Due
      BY <2>1, DueIs
    <3> QED
      BY <1>1, <3>1, <3>2, PaidAsBefore
  <2>3. CASE ~InStep
    <3>1. Missing' \subseteq Missing \cup {typed}
      <4> SUFFICES ASSUME NEW k \in 1 .. typed, Gone(k)', k # typed PROVE Gone(k)
        BY <1>1 DEF Missing
      <4>1. k < typed
        BY <1>1
      <4> QED
        BY <1>1, <4>1 DEF Gone, Clean
    <3>2. Due = 1
      BY <1>2, <2>3 DEF Due, Strayed
    <3>3. Due' < Due
      BY <2>1, <3>2
    <3> QED
      BY <1>1, <3>1, <3>3, PaidForDue
  <2> QED
    BY <2>2, <2>3
<1> QED
  BY <1>6, <1>7, <1>8, <1>10, <1>11 DEF KeypadInv

LEMMA ReceiveKeeps == ASSUME KeypadInv, Receive PROVE KeypadInv'
BY ReceiveFull, ReceiveRefused, ReceiveStored, ReceiveLast

-----------------------------------------------------------------------------
LEMMA InitKeypad == ASSUME KeypadInit PROVE KeypadInv
<1>1. /\ typed = 0 /\ incoming = 0 /\ sercnt = 0 /\ kpc = "look" /\ handled = <<>> /\ overruns = {}
      /\ lost = 0
      /\ serbuf = [i \in 0 .. 8 |-> Nul] /\ bufcopy = [i \in 0 .. 8 |-> Nul]
  BY DEF KeypadInit, Positions, LastByte
<1>2. ~Full
  <2>1. serbuf[8] = Nul
    BY <1>1
  <2> QED
    BY <2>1, BytesDiffer DEF Full, LastByte
<1>3. KeyIn(serbuf) = 0 /\ KeyIn(bufcopy) = 0
  <2>1. serbuf[5] = Nul /\ bufcopy[5] = Nul
    BY <1>1
  <2> QED
    BY <2>1, BytesDiffer DEF KeyIn
<1>4. KeypadTypeOK
  <2>1. DOMAIN serbuf = Positions /\ DOMAIN bufcopy = Positions /\ sercnt \in Positions
    BY <1>1 DEF Positions, LastByte
  <2> QED
    BY <1>1, <1>3, <2>1 DEF KeypadTypeOK
<1>5. Handover
  BY <1>1, <1>2 DEF Handover
<1>6. DOMAIN handled = {}
  BY <1>1
<1>7. Ordered
  BY <1>1, <1>2, <1>6 DEF Ordered, HandledInOrder, HandledBefore, CopyInOrder, BufferInOrder
<1>8. ~Strayed /\ ~CopyUnclean /\ ~BufferUnclean
  BY <1>1, <1>2 DEF Strayed, CopyUnclean, BufferUnclean
<1>9. ZerosPaid
  <2>1. Zeros = {}
    BY <1>6 DEF Zeros
  <2>2. Cardinality(Zeros) = 0
    BY <2>1, FS_EmptySet
  <2> QED
    BY <1>1, <1>8, <2>2 DEF ZerosPaid, One
<1>10. MissingPaid
  <2>1. Missing = {}
    BY <1>1 DEF Missing
  <2>2. Cardinality(Missing) = 0
    BY <2>1, FS_EmptySet
  <2>3. Due = 0
    BY <1>1, <1>8 DEF Due
  <2> QED
    BY <1>1, <2>2, <2>3 DEF MissingPaid
<1> QED
  BY <1>4, <1>5, <1>7, <1>9, <1>10 DEF KeypadInv

LEMMA StutterKeepsKeypad == ASSUME KeypadInv, UNCHANGED keypadVars PROVE KeypadInv'
<1>1. UNCHANGED <<typed, incoming, serbuf, sercnt, kpc, copied, bufcopy, handled, overruns, lost>>
  BY DEF keypadVars
<1>2. KeypadTypeOK' /\ Handover'
  BY <1>1 DEF KeypadInv, KeypadTypeOK, Handover, KeyIn, Full
<1>3. Ordered'
  BY <1>1 DEF KeypadInv, Ordered, HandledInOrder, HandledBefore, CopyInOrder, BufferInOrder, NextKey,
              KeyIn, IsNew, Full
<1>4. ZerosPaid'
  BY <1>1 DEF KeypadInv, ZerosPaid, Zeros, CopyUnclean, BufferUnclean, Strayed, InStep, IsClean, Clean,
              Full, One
<1>5. MissingPaid'
  <2>1. Missing' = Missing /\ Due' = Due
    BY <1>1 DEF Missing, Gone, Due, Strayed, InStep, Clean, Full
  <2> QED
    BY <1>1, <2>1 DEF KeypadInv, MissingPaid
<1> QED
  BY <1>2, <1>3, <1>4, <1>5 DEF KeypadInv

\* KeypadInv holds in every state.
THEOREM KeypadInvariant == KeypadSpec => []KeypadInv
<1>1. KeypadInit => KeypadInv
  BY InitKeypad
<1>2. KeypadInv /\ [KeypadNext]_keypadVars => KeypadInv'
  BY TypeKeeps, ReceiveKeeps, LoseByteKeeps, LookKeeps, CopyByteKeeps, ReleaseKeeps,
     HandleCommandKeeps, StutterKeepsKeypad DEF KeypadNext, KeypadMain
<1> QED
  BY <1>1, <1>2, PTL DEF KeypadSpec

LEMMA InOrder == KeypadInv => KeysInOrder
<1> SUFFICES ASSUME KeypadInv PROVE KeysInOrder
  OBVIOUS
<1>1. \A i, j \in DOMAIN handled :
          i < j /\ handled[i] # 0 /\ handled[j] # 0 => handled[i] < handled[j]
  BY DEF KeypadInv, Ordered, HandledInOrder
<1>2. \A i \in DOMAIN handled : handled[i] <= typed
  BY DEF KeypadInv, Ordered, HandledBefore, NextKey, KeypadTypeOK
<1>3. Cardinality(Zeros) <= lost
  <2>1. One(CopyUnclean) \in {0, 1} /\ One(BufferUnclean) \in {0, 1} /\ One(Strayed) \in {0, 1}
    BY DEF One
  <2>2. Cardinality(Zeros) \in Nat
    BY ZerosAreFinite DEF KeypadInv
  <2>3. /\ Cardinality(Zeros) + One(CopyUnclean) + One(BufferUnclean) + One(Strayed) <= lost
        /\ lost \in Nat
    BY DEF KeypadInv, ZerosPaid, KeypadTypeOK
  <2> QED
    BY <2>1, <2>2, <2>3
<1> QED
  BY <1>1, <1>2, <1>3 DEF KeysInOrder, Zeros

LEMMA LossIsBounded == KeypadInv => KeyLossIsBounded
<1> SUFFICES ASSUME KeypadInv, incoming = 0, kpc = "look", ~Full
             PROVE  typed - Cardinality({handled[k] : k \in DOMAIN handled} \ {0})
                        <= Cardinality(overruns) + 2 * lost
  BY DEF KeyLossIsBounded
<1> DEFINE H == {handled[k] : k \in DOMAIN handled} \ {0}
<1>1. typed \in Nat /\ lost \in Nat /\ overruns \subseteq 1 .. typed
  BY DEF KeypadInv, KeypadTypeOK
<1>2. H \subseteq 1 .. typed
  <2>1. \A i \in DOMAIN handled : handled[i] \in Nat /\ handled[i] <= typed
    BY InOrder DEF KeysInOrder, KeypadInv, KeypadTypeOK
  <2> QED
    BY <1>1, <2>1
<1>3. 1 .. typed \subseteq (Missing \cup overruns) \cup H
  <2> SUFFICES ASSUME NEW k \in 1 .. typed, k \notin overruns, k \notin H PROVE k \in Missing
    OBVIOUS
  <2>1. \A i \in DOMAIN handled : handled[i] # k
    BY <1>1
  <2> QED
    BY <2>1 DEF Missing, Gone
<1> HIDE DEF H
<1>4. IsFiniteSet(1 .. typed) /\ Cardinality(1 .. typed) = typed
  BY <1>1, FS_Interval
<1>5. IsFiniteSet(H) /\ IsFiniteSet(overruns) /\ IsFiniteSet(Missing)
  BY <1>1, <1>2, <1>4, FS_Subset, MissingIsFinite DEF KeypadInv
<1>6. Cardinality(H) \in Nat /\ Cardinality(overruns) \in Nat /\ Cardinality(Missing) \in Nat
  BY <1>5, FS_CardinalityType
<1>7. /\ IsFiniteSet(Missing \cup overruns)
      /\ Cardinality(Missing \cup overruns) \in Nat
      /\ Cardinality(Missing \cup overruns) <= Cardinality(Missing) + Cardinality(overruns)
  BY <1>5, <1>6, UnionCardinality
<1>8. /\ IsFiniteSet((Missing \cup overruns) \cup H)
      /\ Cardinality((Missing \cup overruns) \cup H) \in Nat
      /\ Cardinality((Missing \cup overruns) \cup H) <= Cardinality(Missing \cup overruns) + Cardinality(H)
  BY <1>5, <1>7, UnionCardinality
<1>9. typed <= Cardinality((Missing \cup overruns) \cup H)
  BY <1>3, <1>4, <1>8, SubsetCardinality
<1>10. Cardinality(Missing) + Due <= 2 * lost /\ Due \in {0, 1, 2}
  BY DueIs DEF KeypadInv, MissingPaid
<1>11. typed - Cardinality(H) <= Cardinality(overruns) + 2 * lost
  BY <1>1, <1>6, <1>7, <1>8, <1>9, <1>10
<1> QED
  BY <1>11 DEF H

\* KeysArrive, however many keys are typed and bytes lost: the keys come in order and
\* once, a lost byte makes up at most one, and two keys are missing for it at most.
THEOREM KeysPassTheLine == KeypadSpec => []KeysArrive
<1>1. KeypadInv => KeysArrive
  BY InOrder, LossIsBounded DEF KeysArrive
<1> QED
  BY <1>1, KeypadInvariant, PTL

=============================================================================
