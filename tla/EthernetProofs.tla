--------------------------- MODULE EthernetProofs ---------------------------
(***************************************************************************)
(* Proofs about the busmaster's Ethernet side, for any ring, any frames    *)
(* and any number of them: the driver's idea of the register bank, its     *)
(* wait for the transmitter, the frames in the receive ring, the one       *)
(* buffer all frames are built in, and their checksum.                     *)
(***************************************************************************)
EXTENDS Enc28j60, EthFrames, InetChecksum, TLAPS

\* Driver and controller agree on the bank between two steps of the driver.  The
\* bank of a step's last access does not matter.
BankInv == bank = enc28j60_current_bank /\ ~misdirected

\* Each round of the wait is paid with one of timeout, which does not wrap before
\* the wait is over.
WaitInv ==
    /\ busy \in Nat
    /\ encpc = "wait" => timeout \in Nat /\ timeout + busy = Timeout /\ ~spoilt
    /\ spoilt => busy >= Timeout

-----------------------------------------------------------------------------
(* The register banks *)

\* Two that agree do so behind an access to any bank, and it goes where it should.
Agree(state) == state.chip = state.driver /\ ~state.wrong
BankState(state) == DOMAIN state = {"chip", "driver", "wrong"}

LEMMA ReachAgrees ==
    ASSUME NEW state, NEW to, BankState(state), Agree(state)
    PROVE  BankState(Reach(state, to)) /\ Agree(Reach(state, to))
BY DEF Agree, BankState, Reach, switch_bank

\* A reset selects bank 0: the access to bank 0 behind it reaches it, whatever the
\* driver believes.
LEMMA ReachBankZero ==
    ASSUME NEW state, BankState(state), state.chip = 0, ~state.wrong
    PROVE  BankState(Reach(state, 0)) /\ Agree(Reach(state, 0))
BY DEF Agree, BankState, Reach, switch_bank

LEMMA BanksOfTheDriver ==
    BankInv => BankState(Banks(bank)) /\ Agree(Banks(bank))
BY DEF BankInv, BankState, Agree, Banks

LEMMA AgreeingBanksAreRight ==
    ASSUME NEW state, Agree(state), BanksAre(state) PROVE BankInv'
BY DEF Agree, BanksAre, BankInv

LEMMA InitLeavesBanksRight == ASSUME BankInv, init_enc28j60 PROVE BankInv'
<1> DEFINE s0 == Banks(0)
           s1 == Reach(s0, 0)
           s2 == Reach(s1, 2)
           s3 == Reach(s2, 3)
           s4 == Reach(s3, 1)
           s5 == Reach(s4, 2)
           s6 == Reach(s5, 3)
<1>0. BankState(s0) /\ s0.chip = 0 /\ ~s0.wrong
  BY DEF BankState, Banks, BankInv
<1>1. BankState(s1) /\ Agree(s1)
  BY <1>0, ReachBankZero
<1>2. BankState(s2) /\ Agree(s2)
  BY <1>1, ReachAgrees
<1>3. BankState(s3) /\ Agree(s3)
  BY <1>2, ReachAgrees
<1>4. BankState(s4) /\ Agree(s4)
  BY <1>3, ReachAgrees
<1>5. BankState(s5) /\ Agree(s5)
  BY <1>4, ReachAgrees
<1>6. BankState(s6) /\ Agree(s6)
  BY <1>5, ReachAgrees
<1>7. BanksAre(s6)
  BY DEF init_enc28j60, InitBanks, write_phy
<1> QED
  BY <1>6, <1>7, AgreeingBanksAreRight

LEMMA AccessLeavesBanksRight == ASSUME BankInv, NEW to, Access(to) PROVE BankInv'
BY ReachAgrees, BanksOfTheDriver, AgreeingBanksAreRight DEF Access

LEMMA AccessesLeaveBanksRight ==
    ASSUME BankInv, NEW a, NEW b, BanksAre(Reach(Reach(Banks(bank), a), b)) PROVE BankInv'
<1>1. BankState(Reach(Banks(bank), a)) /\ Agree(Reach(Banks(bank), a))
  BY ReachAgrees, BanksOfTheDriver
<1>2. Agree(Reach(Reach(Banks(bank), a), b))
  BY <1>1, ReachAgrees
<1> QED
  BY <1>2, AgreeingBanksAreRight

LEMMA PhyLeavesBanksRight == ASSUME BankInv, BanksAre(read_phy(Banks(bank))) PROVE BankInv'
<1> DEFINE s0 == Banks(bank)
           s1 == Reach(s0, 2)
           s2 == Reach(s1, 3)
           s3 == Reach(s2, 2)
<1>1. BankState(s1) /\ Agree(s1)
  BY ReachAgrees, BanksOfTheDriver
<1>2. BankState(s2) /\ Agree(s2)
  BY <1>1, ReachAgrees
<1>3. Agree(s3)
  BY <1>2, ReachAgrees
<1>4. BanksAre(s3)
  BY DEF read_phy, write_phy
<1> QED
  BY <1>3, <1>4, AgreeingBanksAreRight

\* BankInv holds in every state.
THEOREM BankInvariant == EncSpec => []BankInv
<1>1. EncInit => BankInv
  BY DEF EncInit, BankInv
<1>2. BankInv /\ [EncNext]_encVars => BankInv'
  <2> SUFFICES ASSUME BankInv, [EncNext]_encVars PROVE BankInv'
    OBVIOUS
  <2>0. ASSUME UNCHANGED bankVars PROVE BankInv'
    BY <2>0 DEF BankInv, bankVars
  <2>1. CASE Controller
    BY <2>0, <2>1 DEF Controller, Arrive, LinkChange, EndOfTransmission
  <2>2. CASE ReadPacketCounter
    BY <2>2, AccessLeavesBanksRight DEF ReadPacketCounter
  <2>3. CASE ReadFlags
    BY <2>0, <2>3, PhyLeavesBanksRight DEF ReadFlags
  <2>4. CASE ReadHeader
    BY <2>4, AccessesLeaveBanksRight DEF ReadHeader
  <2>5. CASE CheckSize
    BY <2>0, <2>5, InitLeavesBanksRight DEF CheckSize
  <2>6. CASE CopyFrame
    BY <2>0, <2>6 DEF CopyFrame
  <2>7. CASE Advance
    BY <2>7, AccessLeavesBanksRight DEF Advance
  <2>8. CASE HandleErrors
    BY <2>0, <2>8, InitLeavesBanksRight DEF HandleErrors
  <2>9. CASE FrameHandled
    BY <2>0, <2>9 DEF FrameHandled
  <2>10. CASE StartTransmit
    BY <2>0, <2>10 DEF StartTransmit
  <2>11. CASE WaitRound
    BY <2>0, <2>11 DEF WaitRound
  <2>12. CASE Fill
    BY <2>12, AccessesLeaveBanksRight DEF Fill
  <2>13. CASE Send
    BY <2>13, AccessLeavesBanksRight DEF Send
  <2>14. CASE UNCHANGED encVars
    BY <2>0, <2>14 DEF encVars
  <2> QED
    BY <2>1, <2>2, <2>3, <2>4, <2>5, <2>6, <2>7, <2>8, <2>9, <2>10, <2>11, <2>12, <2>13, <2>14
    DEF EncNext, Driver
<1> QED
  BY <1>1, <1>2, PTL DEF EncSpec

\* No access goes to a register of another bank, though the driver caches the bank
\* and a reset of the controller changes it behind the cache.
THEOREM AccessesAreDirected == EncSpec => []BankIsRight
<1>1. BankInv => BankIsRight
  BY DEF BankInv, BankIsRight
<1> QED
  BY <1>1, BankInvariant, PTL

-----------------------------------------------------------------------------
(* The wait for the transmitter *)

LEMMA WaitRoundKeeps == ASSUME WaitInv, WaitRound PROVE WaitInv'
<1>1. /\ busy \in Nat /\ timeout \in Nat /\ timeout + busy = Timeout /\ ~spoilt
      /\ Timeout \in Nat /\ Timeout <= 255
  BY EncAssumption DEF WaitInv, WaitRound
<1>2. CASE TXRTS /\ timeout > 0
  <2>1. timeout' = (timeout - 1) % 256 /\ busy' = busy + 1 /\ encpc' = "wait" /\ ~spoilt'
    BY <1>2 DEF WaitRound
  <2>2. timeout' = timeout - 1
    BY <1>1, <1>2, <2>1
  <2> QED
    BY <1>1, <1>2, <2>1, <2>2 DEF WaitInv
<1>3. CASE TXRTS /\ ~(timeout > 0)
  <2>1. busy' = busy + 1 /\ encpc' = "fill"
    BY <1>3 DEF WaitRound
  <2>2. busy' >= Timeout /\ busy' \in Nat
    BY <1>1, <1>3, <2>1
  <2> QED
    BY <2>1, <2>2 DEF WaitInv
<1>4. CASE ~TXRTS /\ timeout = 0
  <2>1. busy' = busy /\ encpc' = "main"
    BY <1>4 DEF WaitRound
  <2>2. busy' >= Timeout /\ busy' \in Nat
    BY <1>1, <1>4, <2>1
  <2> QED
    BY <2>1, <2>2 DEF WaitInv
<1>5. CASE ~TXRTS /\ timeout # 0
  <2>1. busy' = busy /\ encpc' = "fill" /\ ~spoilt'
    BY <1>5 DEF WaitRound
  <2> QED
    BY <1>1, <2>1 DEF WaitInv
<1> QED
  BY <1>2, <1>3, <1>4, <1>5

\* WaitInv holds in every state.
THEOREM WaitInvariant == EncSpec => []WaitInv
<1>1. EncInit => WaitInv
  BY EncAssumption DEF EncInit, WaitInv
<1>2. WaitInv /\ [EncNext]_encVars => WaitInv'
  <2> SUFFICES ASSUME WaitInv, [EncNext]_encVars PROVE WaitInv'
    OBVIOUS
  <2>0. ASSUME UNCHANGED <<busy, spoilt>>, UNCHANGED <<encpc, timeout>> \/ encpc' # "wait" PROVE WaitInv'
    BY <2>0 DEF WaitInv
  <2>1. CASE Controller
    BY <2>0, <2>1 DEF Controller, Arrive, LinkChange, EndOfTransmission, driverVars, sendVars
  <2>2. CASE ReadPacketCounter
    BY <2>0, <2>2 DEF ReadPacketCounter, sendVars
  <2>3. CASE ReadFlags
    BY <2>0, <2>3 DEF ReadFlags, sendVars
  <2>4. CASE ReadHeader
    BY <2>0, <2>4 DEF ReadHeader, sendVars
  <2>5. CASE CheckSize
    BY <2>0, <2>5 DEF CheckSize, sendVars
  <2>6. CASE CopyFrame
    BY <2>0, <2>6 DEF CopyFrame, sendVars
  <2>7. CASE Advance
    BY <2>0, <2>7 DEF Advance, sendVars
  <2>8. CASE HandleErrors
    BY <2>0, <2>8 DEF HandleErrors, sendVars
  <2>9. CASE FrameHandled
    BY <2>0, <2>9 DEF FrameHandled, sendVars
  <2>10. CASE StartTransmit
    BY <2>10, EncAssumption DEF StartTransmit, WaitInv
  <2>12. CASE Fill
    BY <2>0, <2>12 DEF Fill, sendVars
  <2>13. CASE Send
    BY <2>0, <2>13 DEF Send, sendVars
  <2>14. CASE UNCHANGED encVars
    BY <2>0, <2>14 DEF encVars, driverVars, sendVars
  <2> QED
    BY <2>1, <2>2, <2>3, <2>4, <2>5, <2>6, <2>7, <2>8, <2>9, <2>10, WaitRoundKeeps, <2>12, <2>13, <2>14
    DEF EncNext, Driver
<1> QED
  BY <1>1, <1>2, PTL DEF EncSpec

\* However the transmitter and the wait interleave, and though the counter of the
\* wait goes past zero, a frame is spoilt only after a wait of the full length.
THEOREM SpoiltAfterTheFullWait == EncSpec => []SpoiltOnlyIfBusy
<1>1. WaitInv => SpoiltOnlyIfBusy
  BY DEF WaitInv, SpoiltOnlyIfBusy
<1> QED
  BY <1>1, WaitInvariant, PTL

-----------------------------------------------------------------------------
(* The frames *)

Fields == {"dmac", "b5", "smac", "b11", "b19", "next", "hop", "src", "b37", "dst", "b53", "b54",
           "b56", "b58", "b59", "b60", "data", "len"}

\* The fields of the template that no handler sets for a UDP frame.
ForUdp(b) ==
    /\ DOMAIN b = Fields
    /\ b.dmac = Group /\ b.dst = Group /\ b.smac = Own /\ b.src = Own
    /\ b.next = Udp /\ b.hop = 3 /\ b.b54 = "ports" /\ b.b56 = <<"ports">> /\ b.b58 = 0

\* It is addressed like what the busmaster says itself.
FromBusmaster(b) == b.b5 = 1 /\ b.b53 = 1 /\ b.b11 = 0 /\ b.b37 = 0

\* The frame is what it was to be.
Kept(t) ==
    LET what == t.what
        b == t.frame
    IN  CASE what[1] = "udp" -> UdpFrame(b, what[2], what[3], what[4], what[5])
          [] what[1] = "advertisement" ->
                 /\ IcmpFrame(b, what[2], "advertisement", what[3])
                 /\ b.b19 = 32 /\ b.data = <<"target", what[2]>>
          [] what[1] = "echo" ->
                 /\ IcmpFrame(b, 0, "echo reply", what[2])
                 /\ b.b19 = what[2] /\ b.data = <<"echo", what[2]>>

AllKept(out) == (\E S : out \in Seq(S)) /\ \A k \in DOMAIN out : Kept(out[k])

StepInv(step) == ForUdp(step.buf) /\ AllKept(step.out)

FramesInv == ForUdp(uip_buf) /\ AllKept(transmitted)

LEMMA UdpIsKept ==
    ASSUME NEW b, NEW destination, NEW source, NEW data, NEW n, NEW frame,
           UdpFrame(frame, destination, source, data, n)
    PROVE  Kept([what |-> <<"udp", destination, source, data, n>>, frame |-> frame])
BY DEF Kept

LEMMA AdvertisementIsKept ==
    ASSUME NEW target, NEW n, NEW frame, IcmpFrame(frame, target, "advertisement", n),
           frame.b19 = 32, frame.data = <<"target", target>>
    PROVE  Kept([what |-> <<"advertisement", target, n>>, frame |-> frame])
BY DEF Kept

LEMMA EchoIsKept ==
    ASSUME NEW n, NEW frame, IcmpFrame(frame, 0, "echo reply", n), frame.b19 = n,
           frame.data = <<"echo", n>>
    PROVE  Kept([what |-> <<"echo", n>>, frame |-> frame])
BY DEF Kept

LEMMA ThenKeeps ==
    ASSUME NEW step, StepInv(step), NEW b, ForUdp(b), NEW what, NEW frame,
           Kept([what |-> what, frame |-> frame])
    PROVE  StepInv(Then(step, b, what, frame))
<1> DEFINE t == [what |-> what, frame |-> frame]
           out == step.out
<1>1. PICK S : out \in Seq(S)
  BY DEF StepInv, AllKept
<1>2. \A k \in DOMAIN out : Kept(out[k])
  BY DEF StepInv, AllKept
<1> HIDE DEF t, out
<1>3. out \in Seq(S \cup {t}) /\ Append(out, t) \in Seq(S \cup {t})
  BY <1>1
<1>4. \A k \in DOMAIN Append(out, t) : Append(out, t)[k] = t \/ (k \in DOMAIN out /\ Append(out, t)[k] = out[k])
  BY <1>3
<1>5. Kept(t)
  BY DEF t
<1>6. AllKept(Append(out, t))
  BY <1>2, <1>3, <1>4, <1>5 DEF AllKept
<1>7. Then(step, b, what, frame).buf = b /\ Then(step, b, what, frame).out = Append(out, t)
  BY DEF Then, t, out
<1> QED
  BY <1>6, <1>7 DEF StepInv

\* raw_send sets the rest of a UDP frame.
LEMMA RawSend ==
    ASSUME NEW b, ForUdp(b), NEW data, NEW n
    PROVE  /\ ForUdp(raw_send(b, data, n))
           /\ UdpFrame(raw_send(b, data, n), b.b5, b.b11, data, n) <=> b.b53 = b.b5 /\ b.b37 = b.b11
           /\ FromBusmaster(raw_send(b, data, n)) <=> FromBusmaster(b)
<1> DEFINE f == raw_send(b, data, n)
<1>1. DOMAIN f = Fields
  BY DEF ForUdp, raw_send
<1>2. f.dmac = b.dmac /\ f.dst = b.dst /\ f.smac = b.smac /\ f.src = b.src /\ f.next = b.next /\ f.hop = b.hop
  BY DEF ForUdp, raw_send, Fields
<1>3. f.b54 = b.b54 /\ f.b56 = b.b56 /\ f.b58 = b.b58
  BY DEF ForUdp, raw_send, Fields
<1>4. f.b5 = b.b5 /\ f.b53 = b.b53 /\ f.b11 = b.b11 /\ f.b37 = b.b37
  BY DEF ForUdp, raw_send, Fields
<1>5. f.b19 = 8 + n /\ f.b59 = 8 + n /\ f.b60 = <<"sum", 8 + n>> /\ f.data = data /\ f.len = 62 + n
  BY DEF ForUdp, raw_send, Fields
<1> HIDE DEF f
<1>6. ForUdp(f)
  BY <1>1, <1>2, <1>3 DEF ForUdp
<1>7. UdpFrame(f, b.b5, b.b11, data, n) <=> b.b53 = b.b5 /\ b.b37 = b.b11
  BY <1>2, <1>3, <1>4, <1>5 DEF ForUdp, UdpFrame
<1>8. FromBusmaster(f) <=> FromBusmaster(b)
  BY <1>4 DEF FromBusmaster
<1> QED
  BY <1>6, <1>7, <1>8 DEF f

LEMMA ForNodeKeeps ==
    ASSUME NEW b, ForUdp(b), NEW destination, NEW source
    PROVE  LET f == ForNode(b, destination, source)
           IN  /\ ForUdp(f)
               /\ f.b5 = destination /\ f.b53 = destination /\ f.b11 = source /\ f.b37 = source
BY DEF ForUdp, ForNode, Fields

LEMMA SyslogSend ==
    ASSUME NEW b, ForUdp(b), NEW text, NEW n
    PROVE  /\ ForUdp(syslog_send(b, text, n)) /\ FromBusmaster(syslog_send(b, text, n))
           /\ UdpFrame(syslog_send(b, text, n), 1, 0, Text(text), n)
<1> DEFINE f == [b EXCEPT !.b5 = 1, !.b53 = 1, !.b11 = 0, !.b37 = 0]
<1>1. ForUdp(f) /\ FromBusmaster(f)
  BY DEF ForUdp, FromBusmaster, Fields
<1>2. syslog_send(b, text, n) = raw_send(f, Text(text), n)
  BY DEF syslog_send
<1> HIDE DEF f
<1> QED
  BY <1>1, <1>2, RawSend DEF FromBusmaster

LEMMA SyslogKeeps ==
    ASSUME NEW step, StepInv(step), NEW text, NEW n
    PROVE  StepInv(Syslog(step, text, n)) /\ FromBusmaster(Syslog(step, text, n).buf)
<1> DEFINE f == syslog_send(step.buf, text, n)
<1>1. ForUdp(f) /\ FromBusmaster(f) /\ UdpFrame(f, 1, 0, Text(text), n)
  BY SyslogSend DEF StepInv
<1>2. Syslog(step, text, n) = Then(step, f, <<"udp", 1, 0, Text(text), n>>, f)
  BY DEF Syslog, Sends
<1> HIDE DEF f
<1>3. Kept([what |-> <<"udp", 1, 0, Text(text), n>>, frame |-> f])
  BY <1>1, UdpIsKept
<1>4. StepInv(Syslog(step, text, n))
  BY <1>1, <1>2, <1>3, ThenKeeps
<1>5. Syslog(step, text, n).buf = f
  BY <1>2 DEF Then
<1> QED
  BY <1>1, <1>4, <1>5

LEMMA Solicit ==
    ASSUME NEW step, StepInv(step), NEW target, NEW n
    PROVE  StepInv(Solicited(step, target, n))
<1> DEFINE b == step.buf
           f == neighbor_advertisement(b, target, n)
<1>0. ForUdp(b)
  BY DEF StepInv
<1> HIDE DEF b
<1>1. DOMAIN f = Fields
  BY <1>0, ZenonT(60) DEF ForUdp, neighbor_advertisement, start_icmpv6_reply, finish_icmpv6_reply
<1>2. f.dmac = Client /\ f.b5 = Foreign /\ f.dst = Client /\ f.b53 = Foreign /\ f.smac = Own /\ f.b11 = 0
  BY <1>0 DEF ForUdp, neighbor_advertisement, start_icmpv6_reply, finish_icmpv6_reply, Fields
<1>3. f.src = Own /\ f.b37 = target /\ f.next = Icmp /\ f.hop = 255 /\ f.b54 = "advertisement"
  BY <1>0 DEF ForUdp, neighbor_advertisement, start_icmpv6_reply, finish_icmpv6_reply, Fields
<1>4. f.b19 = 32 /\ f.b56 = <<"sum", n>> /\ f.len = 86 /\ f.data = <<"target", target>>
  BY <1>0 DEF ForUdp, neighbor_advertisement, start_icmpv6_reply, finish_icmpv6_reply, Fields
<1>5. ForUdp(restored(b, f))
  BY <1>0 DEF ForUdp, restored, Fields
<1>6. Solicited(step, target, n) = Then(step, restored(b, f), <<"advertisement", target, n>>, f)
  BY DEF Solicited, b
<1> HIDE DEF f
<1>9. f.b56 = <<"sum", f.b19>> <=> n = f.b19
  BY <1>4
<1>7. IcmpFrame(f, target, "advertisement", n)
  BY <1>9, <1>2, <1>3, <1>4 DEF IcmpFrame
<1>8. Kept([what |-> <<"advertisement", target, n>>, frame |-> f])
  BY <1>4, <1>7, AdvertisementIsKept
<1> QED
  BY <1>5, <1>6, <1>8, ThenKeeps

LEMMA EchoRequest ==
    ASSUME NEW step, StepInv(step), NEW n \in Int
    PROVE  StepInv(EchoRequested(step, n))
<1> DEFINE b == step.buf
           f == echo_reply(b, n)
<1>0. ForUdp(b)
  BY DEF StepInv
<1> HIDE DEF b
<1>1. DOMAIN f = Fields
  BY <1>0, ZenonT(60) DEF ForUdp, echo_reply, start_icmpv6_reply, finish_icmpv6_reply
<1>2. f.dmac = Client /\ f.b5 = Foreign /\ f.dst = Client /\ f.b53 = Foreign /\ f.smac = Own /\ f.b11 = 0
  BY <1>0 DEF ForUdp, echo_reply, start_icmpv6_reply, finish_icmpv6_reply, Fields
<1>3. f.src = Own /\ f.b37 = 0 /\ f.next = Icmp /\ f.hop = 255 /\ f.b54 = "echo reply"
  BY <1>0 DEF ForUdp, echo_reply, start_icmpv6_reply, finish_icmpv6_reply, Fields
<1>4. f.b19 = n /\ f.b56 = <<"sum", n>> /\ f.len = 64 + (n - 8) /\ f.data = <<"echo", n>>
  BY <1>0 DEF ForUdp, echo_reply, start_icmpv6_reply, finish_icmpv6_reply, Fields
<1>5. ForUdp(restored(b, f))
  BY <1>0 DEF ForUdp, restored, Fields
<1>6. EchoRequested(step, n) = Then(step, restored(b, f), <<"echo", n>>, f)
  BY DEF EchoRequested, b
<1> HIDE DEF f
<1>7. IcmpFrame(f, 0, "echo reply", n)
  <2>1. f.len >= 54 + f.b19 /\ f.b56 = <<"sum", f.b19>> /\ n = f.b19
    BY <1>4
  <2> QED
    BY <1>2, <1>3, <2>1, Zenon DEF IcmpFrame
<1>8. Kept([what |-> <<"echo", n>>, frame |-> f])
  BY <1>4, <1>7, EchoIsKept
<1> QED
  BY <1>5, <1>6, <1>8, ThenKeeps

\* A UDP frame that raw_send completes.
LEMMA SendsKeeps ==
    ASSUME NEW step, StepInv(step), NEW b, ForUdp(b), NEW data, NEW n,
           NEW destination, NEW source,
           b.b5 = destination, b.b53 = destination, b.b11 = source, b.b37 = source
    PROVE  StepInv(Sends(step, <<"udp", destination, source, data, n>>, raw_send(b, data, n)))
<1> DEFINE f == raw_send(b, data, n)
<1>1. ForUdp(f) /\ UdpFrame(f, destination, source, data, n)
  BY RawSend
<1> HIDE DEF f
<1>2. StepInv(Sends(step, <<"udp", destination, source, data, n>>, f))
  BY <1>1, UdpIsKept, ThenKeeps DEF Sends
<1> QED
  BY <1>2 DEF f

LEMMA WrongCrcKeeps == ASSUME NEW step, StepInv(step) PROVE StepInv(WrongCrc(step))
<1> DEFINE before == Syslog(step, "broken", 6)
<1>1. StepInv(before) /\ FromBusmaster(before.buf)
  BY SyslogKeeps
<1>2. WrongCrc(step) =
        Sends(before, <<"udp", 1, 0, Text("packet"), 16>>, raw_send(before.buf, Text("packet"), 16))
  BY DEF WrongCrc
<1> HIDE DEF before
<1> QED
  BY <1>1, <1>2, SendsKeeps DEF StepInv, FromBusmaster

LEMMA PacketKeeps ==
    ASSUME NEW step, StepInv(step), NEW destination, NEW source, NEW n, NEW packet
    PROVE  StepInv(PacketFromBus(step, destination, source, n, packet))
<1> DEFINE before == Noted(step, packet)
           b == ForNode(before.buf, destination, source)
<1>1. StepInv(before)
  <2>1. StepInv(Syslog(step, "pong received", 13))
    BY SyslogKeeps
  <2>2. StepInv(Syslog(Syslog(step, "pong received", 13), "sendreq sent", 12))
    BY <2>1, SyslogKeeps
  <2>3. StepInv(Syslog(step, "nother sendreq sent", 19))
    BY SyslogKeeps
  <2> QED
    BY <2>1, <2>2, <2>3 DEF Noted
<1>2. PacketFromBus(step, destination, source, n, packet) =
        Sends(before, <<"udp", destination, source, Text("payload"), n>>, raw_send(b, Text("payload"), n))
  BY DEF PacketFromBus
<1> HIDE DEF before
<1>3. ForUdp(b) /\ b.b5 = destination /\ b.b53 = destination /\ b.b11 = source /\ b.b37 = source
  BY <1>1, ForNodeKeeps DEF StepInv
<1> HIDE DEF b
<1> QED
  BY <1>1, <1>2, <1>3, SendsKeeps

LEMMA FinishKeeps == ASSUME NEW step, StepInv(step), Finish(step) PROVE FramesInv'
BY DEF StepInv, Finish, FramesInv

LEMMA RestKeeps ==
    ASSUME NEW step, StepInv(step), NEW count, RestOfPass(step, count)
    PROVE  FramesInv'
<1> DEFINE pinged == IF Due(count) THEN Ping(step) ELSE step
<1>1. StepInv(pinged)
  BY SyslogKeeps DEF Ping
<1>2. \/ Finish(pinged) \/ Finish(WrongCrc(pinged))
      \/ FromBus(pinged, {"empty pong", "other"}) \/ FromBus(pinged, {"pong", "of a burst"})
  BY DEF RestOfPass
<1> HIDE DEF pinged
<1>3. ASSUME NEW packets, FromBus(pinged, packets) PROVE FramesInv'
  <2>1. PICK destination \in Nodes, source \in Nodes \ {0}, n \in Payload, packet \in packets :
          Finish(PacketFromBus(pinged, destination, source, n, packet))
    BY <1>3 DEF FromBus
  <2> QED
    BY <1>1, <2>1, PacketKeeps, FinishKeeps
<1> QED
  BY <1>1, <1>2, <1>3, WrongCrcKeeps, FinishKeeps

\* FramesInv holds in every state.
THEOREM FramesInvariant == EthSpec => []FramesInv
<1>1. EthInit => FramesInv
  <2> SUFFICES ASSUME EthInit PROVE FramesInv
    OBVIOUS
  <2>1. ForUdp(uip_buf)
    BY DEF EthInit, Template, ForUdp, Fields
  <2>2. transmitted = <<>> /\ transmitted \in Seq({})
    BY DEF EthInit
  <2> QED
    BY <2>1, <2>2 DEF FramesInv, AllKept
<1>2. FramesInv /\ [EthNext]_ethVars => FramesInv'
  <2> SUFFICES ASSUME FramesInv, [EthNext]_ethVars PROVE FramesInv'
    OBVIOUS
  <2>1. StepInv(Quiet(uip_buf))
    <3>1. Quiet(uip_buf).buf = uip_buf /\ Quiet(uip_buf).out = <<>> /\ <<>> \in Seq({})
      BY DEF Quiet
    <3> QED
      BY <3>1 DEF StepInv, FramesInv, AllKept
  <2>2. CASE PassWithoutUdp
    <3>1. CASE RestOfPass(Quiet(uip_buf), cnt)
      BY <2>1, <3>1, RestKeeps
    <3>2. ASSUME NEW target \in Nodes, NEW n \in SolicitationLengths,
                 RestOfPass(Solicited(Quiet(uip_buf), target, n), cnt)
          PROVE  FramesInv'
      BY <2>1, <3>2, Solicit, RestKeeps
    <3>3. ASSUME NEW n \in EchoLengths, RestOfPass(EchoRequested(Quiet(uip_buf), n), cnt) PROVE FramesInv'
      <4>1. n \in Int
        BY EthFramesAssumption
      <4> QED
        BY <2>1, <3>3, <4>1, EchoRequest, RestKeeps
    <3> QED
      BY <2>2, <3>1, <3>2, <3>3 DEF PassWithoutUdp
  <2>3. CASE PassWithUdp
    <3>1. StepInv(UdpToBus(Quiet(uip_buf)))
      BY <2>1, SyslogKeeps DEF UdpToBus
    <3> QED
      BY <2>3, <3>1, RestKeeps DEF PassWithUdp
  <2>4. CASE UNCHANGED ethVars
    BY <2>4 DEF ethVars, FramesInv
  <2> QED
    BY <2>2, <2>3, <2>4 DEF EthNext
<1> QED
  BY <1>1, <1>2, PTL DEF EthSpec

\* Each frame is what it was to be in all its fields, in whatever order answers,
\* packets of the bus and the busmaster's own messages follow each other in the
\* buffer; but the checksum of an advertisement is right only, and always, when the
\* solicitation was 32 bytes long.
THEOREM FramesAreKept == EthSpec => []FramesAreWellFormed
<1>1. FramesInv => FramesAreWellFormed
  BY DEF FramesInv, AllKept, Kept, FramesAreWellFormed
<1> QED
  BY <1>1, FramesInvariant, PTL

-----------------------------------------------------------------------------
(* The receive ring *)

\* A place in the ring, for a place counted without wrapping.
Wrap(x) == IF x < Words THEN x ELSE x - Words

\* A frame <<number, size>> lies whole from one place up to another.
FrameAt(mem, from, to, frame) ==
    /\ mem[Wrap(from)] = Header(2 * Wrap(to), frame[2], frame[1])
    /\ \A i \in 1 .. frame[2] : mem[Wrap(from + i)] = Data(frame[1], i)

\* Where frames w begin, one behind the other, and where the next one will: they
\* leave a word of the ring free.
Places(w) == [1 .. Len(w) + 1 -> Nat]

InARow(b, w) ==
    /\ b[1] < Words /\ b[Len(w) + 1] <= b[1] + Words - 1
    /\ \A j, k \in 1 .. Len(w) + 1 : j <= k => b[j] <= b[k]
    /\ \A k \in 1 .. Len(w) : b[k + 1] = b[k] + w[k][2] + 1

Stored(b, w, mem) == \A k \in 1 .. Len(w) : FrameAt(mem, b[k], b[k + 1], w[k])

\* The controller's pointers are at the two ends.
ControllerAt(b) ==
    /\ ERXWRPT = 2 * Wrap(b[Len(waiting) + 1])
    /\ \/ b[1] > 0 /\ ERXRDPT = 2 * b[1] - 1
       \/ b[1] = 0 /\ ERXRDPT \in {0, RXBUFFER_END}

\* The driver's pointer is at the first frame, and from the copy to the release of
\* the room behind it.
DriverAt(b) ==
    /\ encpc # "advance" => enc28j60_next_packet_pointer = 2 * b[1]
    /\ encpc \in {"size", "copy", "advance"} =>
          header = Header(2 * Wrap(b[2]), waiting[1][2], waiting[1][1])
    /\ encpc = "advance" =>
          /\ enc28j60_next_packet_pointer = 2 * Wrap(b[2])
          /\ uip_recvbuf = [i \in 1 .. waiting[1][2] |-> Data(waiting[1][1], i)]

InProcess == {"flags", "header", "size", "copy", "advance"}

RingAt(b) ==
    /\ b \in Places(waiting) /\ InARow(b, waiting) /\ Stored(b, waiting, ring)
    /\ ControllerAt(b) /\ DriverAt(b)

RingInv ==
    /\ frames \in Nat /\ waiting \in Seq(Nat \X Nat)
    /\ EPKTCNT = Len(waiting)
    /\ encpc \in InProcess => waiting # <<>>
    /\ \E b : RingAt(b)


(* Places in the ring *)

\* The modulus in the turns before and behind.
LEMMA ModSmall == ASSUME NEW n \in Nat \ {0}, NEW a \in Int, 0 <= a, a < n PROVE a % n = a
OBVIOUS

LEMMA ModWrap == ASSUME NEW n \in Nat \ {0}, NEW a \in Int, n <= a, a < 2 * n PROVE a % n = a - n
OBVIOUS

LEMMA ModNeg == ASSUME NEW n \in Nat \ {0}, NEW a \in Int, -n <= a, a < 0 PROVE a % n = a + n
OBVIOUS

\* Wrap is what the modulus does in the range the places are in.
LEMMA WrapIsModulus ==
    ASSUME NEW x \in Nat, x < 2 * Words PROVE x % Words = Wrap(x) /\ Wrap(x) \in 0 .. Words - 1
<1>0. Words \in Nat \ {0}
  BY EncAssumption
<1>1. CASE x < Words
  BY <1>0, <1>1, ModSmall DEF Wrap
<1>2. CASE ~(x < Words)
  <2>0. Words <= x /\ x \in Int
    BY <1>0, <1>2
  <2>1. x % Words = x - Words
    BY <1>0, <2>0, ModWrap
  <2> QED
    BY <1>0, <1>2, <2>1 DEF Wrap
<1> QED
  BY <1>1, <1>2

\* Behind a place that has wrapped, one counts on.
LEMMA WrapOnward ==
    ASSUME NEW x \in Nat, x < 2 * Words, NEW i \in Nat, x + i < 2 * Words, i <= Words
    PROVE  (Wrap(x) + i) % Words = Wrap(x + i)
<1>0. Words \in Nat \ {0}
  BY EncAssumption
<1>1. CASE x < Words
  BY <1>0, <1>1, WrapIsModulus DEF Wrap
<1>2. CASE ~(x < Words)
  <2>1. Wrap(x) + i = x - Words + i /\ x - Words + i >= 0 /\ x - Words + i < Words
    BY <1>0, <1>2 DEF Wrap
  <2>2. (x - Words + i) % Words = x - Words + i
    BY <1>0, <2>1, ModSmall
  <2> QED
    BY <1>0, <1>2, <2>1, <2>2 DEF Wrap
<1> QED
  BY <1>1, <1>2

\* How far a place lies behind another, for places at most a ring apart.
LEMMA WrapDistance ==
    ASSUME NEW x \in Nat, NEW y \in Nat, x < 2 * Words, y < 2 * Words
    PROVE  /\ 0 <= x - y /\ x - y < Words => (Wrap(x) - Wrap(y)) % Words = x - y
           /\ -Words <= x - y /\ x - y < 0 => (Wrap(x) - Wrap(y)) % Words = x - y + Words
<1>0. Words \in Nat \ {0}
  BY EncAssumption
<1> DEFINE d == Wrap(x) - Wrap(y)
<1>1. d \in Int /\ d \in {x - y, x - y - Words, x - y + Words} /\ d < Words /\ d > -Words
  BY <1>0 DEF Wrap
<1> HIDE DEF d
<1>2. 0 <= d => d % Words = d
  BY <1>0, <1>1, ModSmall
<1>3. d < 0 => d % Words = d + Words
  BY <1>0, <1>1, ModNeg
<1>4. 0 <= x - y /\ x - y < Words => d % Words = x - y
  BY <1>0, <1>1, <1>2, <1>3
<1>5. -Words <= x - y /\ x - y < 0 => d % Words = x - y + Words
  BY <1>0, <1>1, <1>2, <1>3
<1> QED
  BY <1>4, <1>5 DEF d
-----------------------------------------------------------------------------
(* The frames in the ring *)

ringVars == <<ring, ERXWRPT, ERXRDPT, EPKTCNT, waiting>>

\* What the ring holds stays in order while only the driver's place changes.
LEMMA DriverMoves ==
    ASSUME RingInv, UNCHANGED ringVars, frames' \in Nat,
           encpc' \in InProcess => waiting # <<>>,
           \A b : RingAt(b) => DriverAt(b)'
    PROVE  RingInv'
<1>1. PICK b : RingAt(b)
  BY DEF RingInv
<1>2. waiting' = waiting /\ ring' = ring /\ ERXWRPT' = ERXWRPT /\ ERXRDPT' = ERXRDPT
      /\ EPKTCNT' = EPKTCNT
  BY DEF ringVars
<1>3. /\ b \in Places(waiting') /\ InARow(b, waiting') /\ Stored(b, waiting', ring')
      /\ ControllerAt(b)'
  BY <1>1, <1>2 DEF RingAt, ControllerAt
<1>4. DriverAt(b)'
  BY <1>1
<1>5. \E c : RingAt(c)'
  BY <1>3, <1>4 DEF RingAt
<1> QED
  BY <1>2, <1>5 DEF RingInv, InProcess

\* An init leaves an empty ring with both pointers at its beginning.
LEMMA InitEmptiesRing ==
    ASSUME init_enc28j60, frames' \in Nat, encpc' \notin InProcess
    PROVE  RingInv'
<1> DEFINE b == [k \in 1 .. 1 |-> 0]
<1>1. /\ waiting' = <<>> /\ ERXWRPT' = 0 /\ ERXRDPT' = 0 /\ EPKTCNT' = 0
      /\ enc28j60_next_packet_pointer' = 0
  BY DEF init_enc28j60
<1>2. Words \in Nat \ {0}
  BY EncAssumption
<1>3. b \in Places(waiting')
  BY <1>1 DEF Places
<1>4. InARow(b, waiting') /\ Stored(b, waiting', ring')
  BY <1>1, <1>2 DEF InARow, Stored
<1>5. ControllerAt(b)'
  BY <1>1, <1>2 DEF ControllerAt, Wrap
<1>6. DriverAt(b)'
  BY <1>1, <1>2 DEF DriverAt, InProcess
<1>7. waiting' \in Seq(Nat \X Nat) /\ EPKTCNT' = Len(waiting')
  BY <1>1
<1>8. \E c : RingAt(c)'
  BY <1>3, <1>4, <1>5, <1>6 DEF RingAt
<1> QED
  BY <1>1, <1>7, <1>8 DEF RingInv, InProcess

\* The controller stores a frame only where it leaves a word free.
LEMMA RoomIsLeft ==
    ASSUME waiting \in Seq(Nat \X Nat), NEW b \in Places(waiting), InARow(b, waiting), ControllerAt(b),
           NEW size \in Nat, 2 * (size + 1) <= Free
    PROVE  b[Len(waiting) + 1] + size + 1 <= b[1] + Words - 1
<1> DEFINE first == b[1]
           last == b[Len(waiting) + 1]
<1>0. Words \in Nat \ {0} /\ Len(waiting) \in Nat
  BY EncAssumption
<1>1. first \in Nat /\ last \in Nat
  BY <1>0, SMTT(40) DEF Places
<1>2. first <= last /\ last <= first + Words - 1 /\ first < Words
  BY <1>0 DEF InARow
<1>3. /\ ERXWRPT = 2 * (IF last < Words THEN last ELSE last - Words)
      /\ (first > 0 /\ ERXRDPT = 2 * first - 1) \/ (first = 0 /\ ERXRDPT \in {0, 2 * Words - 1})
  BY DEF ControllerAt, Wrap, RXBUFFER_END
<1>4. 2 * (size + 1) <= IF ERXWRPT > ERXRDPT THEN 2 * Words - 1 - (ERXWRPT - ERXRDPT)
                        ELSE IF ERXWRPT = ERXRDPT THEN 2 * Words - 1
                        ELSE ERXRDPT - ERXWRPT - 1
  BY DEF Free, RXBUFFER_END
<1> HIDE DEF first, last
<1>5. last + size + 1 <= first + Words - 1
  BY <1>0, <1>1, <1>2, <1>3, <1>4
<1> QED
  BY <1>5 DEF first, last

\* What the controller writes for a frame, as in Arrive.
Written(mem, at, next, number, size) ==
    [w \in 0 .. Words - 1 |->
        LET i == (w - at) % Words
        IN  IF i = 0 THEN Header(2 * next, size, number)
            ELSE IF i <= size THEN Data(number, i) ELSE mem[w]]

\* No word in front of the frame is touched, back to the place where the frame would
\* lie in the turn before.
Spared(new, mem, last, size) ==
    \A x \in Nat : x < last /\ last + size < x + Words => new[Wrap(x)] = mem[Wrap(x)]

\* The frame is where it was put.
LEMMA WrittenFrame ==
    ASSUME NEW mem, NEW last \in Nat, NEW number \in Nat, NEW size \in Nat,
           last + size + 1 < 2 * Words, size + 1 < Words,
           NEW new, new = Written(mem, Wrap(last), Wrap(last + size + 1), number, size)
    PROVE  /\ FrameAt(new, last, last + size + 1, <<number, size>>)
           /\ Spared(new, mem, last, size)
<1> DEFINE next == Wrap(last + size + 1)
<1>0. Words \in Nat \ {0}
  BY EncAssumption
<1>1. ASSUME NEW x \in Nat, x < 2 * Words
      PROVE  new[Wrap(x)] = LET i == (Wrap(x) - Wrap(last)) % Words
                            IN  IF i = 0 THEN Header(2 * next, size, number)
                                ELSE IF i <= size THEN Data(number, i) ELSE mem[Wrap(x)]
  <2>1. Wrap(x) \in 0 .. Words - 1
    BY <1>1, WrapIsModulus
  <2> QED
    BY <2>1 DEF Written
<1> HIDE DEF next
<1>2. new[Wrap(last)] = Header(2 * next, size, number)
  <2>1. last < 2 * Words /\ 0 <= last - last /\ last - last < Words /\ last - last = 0
    BY <1>0
  <2>2. (Wrap(last) - Wrap(last)) % Words = 0
    BY <1>0, <2>1, WrapDistance
  <2> QED
    BY <1>1, <2>1, <2>2
<1>3. ASSUME NEW i \in 1 .. size PROVE new[Wrap(last + i)] = Data(number, i)
  <2>1. /\ last + i \in Nat /\ last + i < 2 * Words /\ last < 2 * Words
        /\ 0 <= last + i - last /\ last + i - last < Words /\ last + i - last = i
    BY <1>0
  <2>2. (Wrap(last + i) - Wrap(last)) % Words = i
    BY <1>0, <2>1, WrapDistance
  <2>3. i # 0 /\ i <= size
    OBVIOUS
  <2> QED
    BY <1>1, <2>1, <2>2, <2>3
<1>4. ASSUME NEW x \in Nat, x < last, last + size < x + Words
      PROVE  new[Wrap(x)] = mem[Wrap(x)]
  <2>1. x < 2 * Words /\ last < 2 * Words /\ -Words <= x - last /\ x - last < 0
    BY <1>0, <1>4
  <2>2. (Wrap(x) - Wrap(last)) % Words = x - last + Words
    BY <1>0, <2>1, WrapDistance
  <2>3. x - last + Words # 0 /\ ~(x - last + Words <= size)
    BY <1>0, <1>4
  <2> QED
    BY <1>1, <2>1, <2>2, <2>3
<1>5. FrameAt(new, last, last + size + 1, <<number, size>>)
  BY <1>2, <1>3 DEF FrameAt, next
<1> QED
  BY <1>4, <1>5 DEF Spared

\* The places with one more frame behind them.
Extended(b, n, size) == [k \in 1 .. n + 2 |-> IF k = n + 2 THEN b[n + 1] + size + 1 ELSE b[k]]

LEMMA ExtendedInARow ==
    ASSUME NEW w \in Seq(Nat \X Nat), NEW b \in Places(w), InARow(b, w),
           NEW number \in Nat, NEW size \in Nat, NEW n \in Nat, n = Len(w),
           b[n + 1] + size + 1 <= b[1] + Words - 1
    PROVE  LET c == Extended(b, n, size)
               u == Append(w, <<number, size>>)
           IN  c \in Places(u) /\ InARow(c, u)
<1> DEFINE c == Extended(b, n, size)
           u == Append(w, <<number, size>>)
<1>1. /\ u \in Seq(Nat \X Nat) /\ Len(u) = n + 1 /\ u[n + 1] = <<number, size>>
      /\ \A k \in 1 .. n : u[k] = w[k]
  OBVIOUS
<1>2. b \in [1 .. n + 1 -> Nat]
  BY DEF Places
<1>3. /\ b[1] < Words
      /\ \A j, k \in 1 .. n + 1 : j <= k => b[j] <= b[k]
      /\ \A k \in 1 .. n : b[k + 1] = b[k] + w[k][2] + 1
  BY DEF InARow
<1>4. /\ \A k \in 1 .. n + 1 : c[k] = b[k]
      /\ c[n + 2] = b[n + 1] + size + 1
  BY DEF Extended
<1>5. c \in [1 .. n + 2 -> Nat]
  BY <1>2 DEF Extended
<1> HIDE DEF c, u
<1>6. c \in Places(u)
  BY <1>1, <1>5 DEF Places
<1>7. c[1] < Words /\ c[n + 2] <= c[1] + Words - 1
  BY <1>3, <1>4
<1>8. \A j, k \in 1 .. n + 2 : j <= k => c[j] <= c[k]
  <2> TAKE j, k \in 1 .. n + 2
  <2> HAVE j <= k
  <2>1. CASE k = n + 2 /\ j # n + 2
    <3>1. j \in 1 .. n + 1 /\ j <= n + 1 /\ n + 1 \in 1 .. n + 1
      BY <2>1
    <3>2. b[j] <= b[n + 1] /\ b[j] \in Nat /\ b[n + 1] \in Nat
      BY <1>2, <1>3, <3>1
    <3> QED
      BY <1>4, <2>1, <3>1, <3>2
  <2>2. CASE k = n + 2 /\ j = n + 2
    BY <1>5, <2>2
  <2>3. CASE k # n + 2
    <3>1. j \in 1 .. n + 1 /\ k \in 1 .. n + 1
      BY <2>3
    <3> QED
      BY <1>3, <1>4, <3>1
  <2> QED
    BY <2>1, <2>2, <2>3
<1>9. \A k \in 1 .. n + 1 : c[k + 1] = c[k] + u[k][2] + 1
  <2> TAKE k \in 1 .. n + 1
  <2>1. CASE k = n + 1
    <3>1. k + 1 = n + 2 /\ c[k] = b[n + 1] /\ u[k][2] = size
      BY <1>1, <1>4, <2>1
    <3> QED
      BY <1>4, <3>1
  <2>2. CASE k # n + 1
    <3>1. k \in 1 .. n /\ k + 1 \in 1 .. n + 1
      BY <2>2
    <3> QED
      BY <1>1, <1>3, <1>4, <3>1
  <2> QED
    BY <2>1, <2>2
<1>10. InARow(c, u)
  <2>1. Len(u) + 1 = n + 2
    BY <1>1
  <2> QED
    BY <1>1, <1>7, <1>8, <1>9, <2>1 DEF InARow
<1> QED
  BY <1>6, <1>10 DEF c, u

\* Frames that waited stay where they are when one is stored behind them.
LEMMA ExtendedStored ==
    ASSUME NEW w \in Seq(Nat \X Nat), NEW b \in Places(w), InARow(b, w), NEW mem,
           Stored(b, w, mem),
           NEW number \in Nat, NEW size \in Nat, NEW n \in Nat, n = Len(w),
           b[n + 1] + size + 1 <= b[1] + Words - 1,
           NEW new, FrameAt(new, b[n + 1], b[n + 1] + size + 1, <<number, size>>),
           Spared(new, mem, b[n + 1], size)
    PROVE  Stored(Extended(b, n, size), Append(w, <<number, size>>), new)
<1> DEFINE c == Extended(b, n, size)
           u == Append(w, <<number, size>>)
           last == b[n + 1]
<1>0. Words \in Nat \ {0}
  BY EncAssumption
<1>1. /\ Len(u) = n + 1 /\ u[n + 1] = <<number, size>>
      /\ \A k \in 1 .. n : u[k] = w[k] /\ w[k][2] \in Nat
  OBVIOUS
<1>2. b \in [1 .. n + 1 -> Nat]
  BY DEF Places
<1>3. /\ b[1] < Words /\ last <= b[1] + Words - 1
      /\ \A j, k \in 1 .. n + 1 : j <= k => b[j] <= b[k]
      /\ \A k \in 1 .. n : b[k + 1] = b[k] + w[k][2] + 1
  BY DEF InARow
<1>4. /\ \A k \in 1 .. n + 1 : c[k] = b[k]
      /\ c[n + 2] = last + size + 1
  BY DEF Extended
<1>5. last \in Nat /\ b[1] \in Nat
  BY <1>2
<1>6. last + size + 1 <= b[1] + Words - 1
  OBVIOUS
<1>7. /\ FrameAt(new, last, last + size + 1, <<number, size>>)
      /\ \A x \in Nat : x < last /\ last + size < x + Words => new[Wrap(x)] = mem[Wrap(x)]
  BY DEF Spared
<1> HIDE DEF c, u
<1>8. ASSUME NEW k \in 1 .. n + 1 PROVE FrameAt(new, c[k], c[k + 1], u[k])
  <2>1. CASE k = n + 1
    <3>1. k + 1 = n + 2 /\ c[k] = last /\ u[k] = <<number, size>>
      BY <1>1, <1>4, <2>1
    <3> QED
      BY <1>4, <1>7, <3>1
  <2>2. CASE k # n + 1
    <3>1. k \in 1 .. n /\ k + 1 \in 1 .. n + 1 /\ 1 \in 1 .. n + 1 /\ 1 <= k /\ k + 1 <= n + 1
          /\ n + 1 \in 1 .. n + 1
      BY <2>2
    <3> DEFINE from == b[k]
               to == b[k + 1]
               length == w[k][2]
    <3>2. FrameAt(mem, from, to, w[k])
      BY <3>1 DEF Stored
    <3>3. from \in Nat /\ to = from + length + 1 /\ length \in Nat /\ b[1] <= from /\ to <= last
      BY <1>1, <1>2, <1>3, <3>1
    <3> HIDE DEF from, to, length
    <3>4. \A i \in 0 .. length : new[Wrap(from + i)] = mem[Wrap(from + i)]
      <4> TAKE i \in 0 .. length
      <4>1. from + i \in Nat /\ from + i < last /\ last + size < from + i + Words
        BY <1>0, <1>3, <1>5, <1>6, <3>3, SMTT(40)
      <4> QED
        BY <1>7, <4>1
    <3>5. new[Wrap(from)] = mem[Wrap(from)]
      <4>1. 0 \in 0 .. length /\ from + 0 = from
        BY <3>3
      <4> QED
        BY <3>4, <4>1
    <3>6. \A i \in 1 .. length : new[Wrap(from + i)] = mem[Wrap(from + i)]
      <4>1. \A i \in 1 .. length : i \in 0 .. length
        BY <3>3
      <4> QED
        BY <3>4, <4>1
    <3>7. FrameAt(new, from, to, w[k])
      BY <3>2, <3>5, <3>6 DEF FrameAt, length
    <3> QED
      BY <1>1, <1>4, <3>1, <3>7 DEF from, to
  <2> QED
    BY <2>1, <2>2
<1>9. Stored(c, u, new)
  BY <1>1, <1>8 DEF Stored
<1> QED
  BY <1>9 DEF c, u

\* A frame that fits is stored behind those that wait.
LEMMA ArriveStores ==
    ASSUME RingInv, NEW size \in Sizes, NEW kind, Arrive(size, kind),
           kind \in filter, ~(2 * (size + 1) > Free)
    PROVE  RingInv'
<1>1. PICK b : RingAt(b)
  BY DEF RingInv
<1>2. PICK n : n = Len(waiting)
  OBVIOUS
<1>3. PICK number : number = frames'
  OBVIOUS
<1>4. PICK last : last = b[n + 1]
  OBVIOUS
<1>5. size \in Nat /\ Words \in Nat \ {0}
  BY EncAssumption
<1>6. waiting \in Seq(Nat \X Nat) /\ n \in Nat /\ number \in Nat
  <2>1. waiting \in Seq(Nat \X Nat) /\ frames \in Nat
    BY DEF RingInv
  <2>2. frames' = frames + 1
    BY DEF Arrive
  <2> QED
    BY <1>2, <1>3, <2>1, <2>2
<1>7. b \in [1 .. n + 1 -> Nat] /\ InARow(b, waiting) /\ Stored(b, waiting, ring)
      /\ ControllerAt(b) /\ DriverAt(b) /\ b \in Places(waiting)
  BY <1>1, <1>2 DEF RingAt, Places
<1>8. last \in Nat /\ b[1] \in Nat
  BY <1>4, <1>6, <1>7
<1>9. b[1] < Words /\ b[1] <= last /\ last <= b[1] + Words - 1
  <2>1. \A j, k \in 1 .. n + 1 : j <= k => b[j] <= b[k]
    BY <1>2, <1>7 DEF InARow
  <2>2. 1 \in 1 .. n + 1 /\ n + 1 \in 1 .. n + 1 /\ 1 <= n + 1
    BY <1>6
  <2>3. b[1] <= last
    BY <1>4, <2>1, <2>2
  <2>4. b[1] < Words /\ last <= b[1] + Words - 1
    BY <1>2, <1>4, <1>7 DEF InARow
  <2> QED
    BY <2>3, <2>4
<1>10. last + size + 1 <= b[1] + Words - 1
  <2>1. ERXWRPT = 2 * Wrap(last) /\ Wrap(last) \in Int /\ ERXRDPT \in Int
    BY <1>2, <1>4, <1>5, <1>7, <1>8 DEF ControllerAt, Wrap, RXBUFFER_END
  <2>2. Free \in Int
    BY <1>5, <2>1 DEF Free, RXBUFFER_END
  <2>3. 2 * (size + 1) <= Free
    BY <1>5, <2>2
  <2> QED
    BY <1>2, <1>4, <1>5, <1>6, <1>7, <2>3, RoomIsLeft
<1>11. last < 2 * Words /\ last + size + 1 < 2 * Words /\ size + 1 < Words
  BY <1>5, <1>8, <1>9, <1>10
<1>12. ERXWRPT \div 2 = Wrap(last)
  <2>1. ERXWRPT = 2 * Wrap(last)
    BY <1>2, <1>4, <1>7 DEF ControllerAt
  <2>2. Wrap(last) \in Nat
    BY <1>8, <1>11, WrapIsModulus
  <2> QED
    BY <2>1, <2>2
<1>13. (Wrap(last) + size + 1) % Words = Wrap(last + size + 1)
  <2>1. size + 1 \in Nat /\ last + (size + 1) < 2 * Words /\ size + 1 <= Words
    BY <1>5, <1>8, <1>11
  <2>2. (Wrap(last) + (size + 1)) % Words = Wrap(last + (size + 1))
    BY <1>8, <1>11, <2>1, WrapOnward
  <2>3. Wrap(last) \in Int
    BY <1>8, <1>11, WrapIsModulus
  <2>4. Wrap(last) + (size + 1) = Wrap(last) + size + 1 /\ last + (size + 1) = last + size + 1
    BY <1>5, <1>8, <2>3
  <2> QED
    BY <2>2, <2>4
<1>14. PICK new : new = Written(ring, Wrap(last), Wrap(last + size + 1), number, size)
  OBVIOUS
<1>15. /\ ring' = new /\ ERXWRPT' = 2 * Wrap(last + size + 1) /\ EPKTCNT' = EPKTCNT + 1
       /\ waiting' = Append(waiting, <<number, size>>) /\ ERXRDPT' = ERXRDPT
  BY <1>3, <1>12, <1>13, <1>14 DEF Arrive, Written
<1>16. /\ enc28j60_next_packet_pointer' = enc28j60_next_packet_pointer
       /\ encpc' = encpc /\ header' = header /\ uip_recvbuf' = uip_recvbuf
  BY DEF Arrive, driverVars
<1>17. FrameAt(new, last, last + size + 1, <<number, size>>) /\ Spared(new, ring, last, size)
  <2>1. PICK mem : mem = ring
    OBVIOUS
  <2>2. ASSUME NEW e \in Nat, NEW m \in Nat, NEW length \in Nat,
               e + length + 1 < 2 * Words, length + 1 < Words,
               new = Written(mem, Wrap(e), Wrap(e + length + 1), m, length)
        PROVE  FrameAt(new, e, e + length + 1, <<m, length>>) /\ Spared(new, mem, e, length)
    BY ONLY <2>2, WrittenFrame
  <2>3. FrameAt(new, last, last + size + 1, <<number, size>>) /\ Spared(new, mem, last, size)
    BY <1>5, <1>6, <1>8, <1>11, <1>14, <2>1, <2>2
  <2> QED
    BY <2>1, <2>3
<1>18. PICK c : c = Extended(b, n, size)
  OBVIOUS
<1>19. c \in Places(waiting') /\ InARow(c, waiting')
  BY <1>2, <1>4, <1>5, <1>6, <1>7, <1>10, <1>15, <1>18, ExtendedInARow
<1>20. Stored(c, waiting', ring')
  BY <1>2, <1>4, <1>5, <1>6, <1>7, <1>10, <1>15, <1>17, <1>18, ExtendedStored
<1>21. /\ waiting' \in Seq(Nat \X Nat) /\ Len(waiting') = n + 1
       /\ \A k \in 1 .. n : waiting'[k] = waiting[k]
  BY <1>2, <1>5, <1>6, <1>15
<1>22. c[1] = b[1] /\ c[n + 2] = last + size + 1 /\ \A k \in 1 .. n + 1 : c[k] = b[k]
  BY <1>4, <1>5, <1>6, <1>18 DEF Extended
<1>23. ControllerAt(c)'
  <2>1. Len(waiting') + 1 = n + 2
    BY <1>6, <1>21
  <2>2. \/ c[1] > 0 /\ ERXRDPT' = 2 * c[1] - 1
        \/ c[1] = 0 /\ ERXRDPT' \in {0, RXBUFFER_END}
    BY <1>7, <1>15, <1>22 DEF ControllerAt
  <2>3. ERXWRPT' = 2 * Wrap(c[Len(waiting') + 1])
    BY <1>15, <1>22, <2>1
  <2> QED
    BY <2>2, <2>3 DEF ControllerAt
<1>24. DriverAt(c)'
  <2>1. CASE waiting = <<>>
    <3>1. encpc # "advance" /\ encpc \notin {"size", "copy", "advance"}
      BY <2>1 DEF RingInv, InProcess
    <3> QED
      BY <1>7, <1>16, <1>22, <3>1 DEF DriverAt
  <2>2. CASE waiting # <<>>
    <3>1. 1 \in 1 .. n /\ 2 \in 1 .. n + 1
      <4>1. n # 0
        BY <1>2, <1>6, <2>2
      <4> QED
        BY <1>6, <4>1
    <3>2. c[2] = b[2] /\ waiting'[1] = waiting[1]
      BY <1>21, <1>22, <3>1
    <3> QED
      BY <1>7, <1>16, <1>22, <3>2 DEF DriverAt
  <2> QED
    BY <2>1, <2>2
<1>25. EPKTCNT' = Len(waiting') /\ waiting' # <<>>
  <2>1. EPKTCNT = n
    BY <1>2 DEF RingInv
  <2>2. EPKTCNT' = n + 1
    BY <1>15, <2>1
  <2>3. n + 1 # 0
    BY <1>6
  <2> QED
    BY <1>21, <2>2, <2>3
<1>26. \E d : RingAt(d)'
  BY <1>19, <1>20, <1>23, <1>24 DEF RingAt
<1>27. frames' \in Nat
  BY <1>3, <1>6
<1> QED
  BY <1>21, <1>25, <1>26, <1>27 DEF RingInv

\* The places without the first frame, counted again from the turn the second is in.
Released(b, n) ==
    [k \in 1 .. n |-> IF b[2] < Words THEN b[k + 1] ELSE b[k + 1] - Words]

\* What remains is in a row, and at the same places of the ring.
LEMMA ReleasedRow ==
    ASSUME NEW w \in Seq(Nat \X Nat), w # <<>>, NEW b \in Places(w), InARow(b, w),
           NEW mem, Stored(b, w, mem), NEW n \in Nat, n = Len(w)
    PROVE  LET c == Released(b, n)
           IN  /\ c \in Places(Tail(w)) /\ InARow(c, Tail(w)) /\ Stored(c, Tail(w), mem)
               /\ c[1] = Wrap(b[2]) /\ Wrap(c[n]) = Wrap(b[n + 1]) /\ n > 0
<1> DEFINE c == Released(b, n)
           u == Tail(w)
<1>0. Words \in Nat \ {0}
  BY EncAssumption
<1>1. /\ n > 0 /\ u \in Seq(Nat \X Nat) /\ Len(u) = n - 1
      /\ \A k \in 1 .. n - 1 : u[k] = w[k + 1] /\ w[k + 1][2] \in Nat
  OBVIOUS
<1>2. b \in [1 .. n + 1 -> Nat]
  BY DEF Places
<1>3. /\ b[1] < Words /\ b[n + 1] <= b[1] + Words - 1
      /\ \A j, k \in 1 .. n + 1 : j <= k => b[j] <= b[k]
      /\ \A k \in 1 .. n : b[k + 1] = b[k] + w[k][2] + 1
  BY DEF InARow
<1>4. b[1] \in Nat /\ b[2] \in Nat /\ b[n + 1] \in Nat /\ b[1] <= b[2] /\ b[2] <= b[n + 1]
  <2>1. 1 \in 1 .. n + 1 /\ 2 \in 1 .. n + 1 /\ n + 1 \in 1 .. n + 1 /\ 2 <= n + 1 /\ 1 <= 2
    BY <1>1
  <2> QED
    BY <1>2, <1>3, <2>1
<1>5. \A k \in 1 .. n + 1 : b[k] \in Nat /\ b[k] <= b[n + 1] /\ b[k] < 2 * Words
  <2> TAKE k \in 1 .. n + 1
  <2>1. n + 1 \in 1 .. n + 1 /\ k <= n + 1
    OBVIOUS
  <2>2. b[k] \in Nat /\ b[k] <= b[n + 1]
    BY <1>2, <1>3, <2>1
  <2> QED
    BY <1>0, <1>3, <1>4, <2>2, SMTT(40)
<1>6. PICK turn \in Nat : turn = IF b[2] < Words THEN 0 ELSE Words
  BY <1>0
<1>6a. n >= 1
  BY <1>1
<1>7. \A k \in 1 .. n : c[k] = b[k + 1] - turn /\ c[k] \in Nat
  <2> TAKE k \in 1 .. n
  <2>1. k + 1 \in 1 .. n + 1 /\ 2 \in 1 .. n + 1 /\ 2 <= k + 1
    BY <1>1
  <2>2. b[k + 1] \in Nat /\ b[2] <= b[k + 1]
    BY <1>2, <1>3, <2>1
  <2>3. c[k] = IF b[2] < Words THEN b[k + 1] ELSE b[k + 1] - Words
    BY DEF Released
  <2> HIDE DEF c
  <2> QED
    BY <1>0, <1>4, <1>6, <2>2, <2>3, SMTT(40)
\* What lies at or behind the second place wraps as before.
<1>8. \A x \in Nat : b[2] <= x /\ x < 2 * Words => x - turn \in Nat /\ Wrap(x - turn) = Wrap(x)
  BY <1>0, <1>4, <1>6 DEF Wrap
<1>9. c \in Places(u)
  <2>1. c = [k \in 1 .. n |-> c[k]]
    BY DEF Released
  <2>2. Len(u) + 1 = n
    BY <1>1
  <2> HIDE DEF c
  <2>3. c \in [1 .. n -> Nat]
    BY <1>7, <2>1
  <2> QED
    BY <2>2, <2>3 DEF Places
<1> HIDE DEF c, u
<1>10. InARow(c, u)
  <2>1. c[1] = b[2] - turn /\ c[n] = b[n + 1] - turn
    <3>1. 1 \in 1 .. n /\ n \in 1 .. n
      BY <1>1
    <3> QED
      BY <1>7, <3>1
  <2>2. c[1] < Words /\ c[n] <= c[1] + Words - 1
    <3>1. b[1] < Words /\ b[n + 1] <= b[1] + Words - 1
      BY <1>3
    <3> DEFINE p == b[1]
               q == b[2]
               l == b[n + 1]
    <3>2. /\ p \in Nat /\ q \in Nat /\ l \in Nat /\ p <= q /\ q <= l
          /\ p < Words /\ l <= p + Words - 1
          /\ turn = IF q < Words THEN 0 ELSE Words
      BY <1>4, <1>6, <3>1
    <3>3. c[1] = q - turn /\ c[n] = l - turn
      BY <2>1
    <3> HIDE DEF p, q, l
    <3> QED
      BY <1>0, <3>2, <3>3
  <2>3. ASSUME NEW j \in 1 .. n, NEW k \in 1 .. n, j <= k PROVE c[j] <= c[k]
    <3>1. j + 1 \in 1 .. n + 1 /\ k + 1 \in 1 .. n + 1 /\ j + 1 <= k + 1
      BY <2>3
    <3>2. b[j + 1] <= b[k + 1] /\ b[j + 1] \in Nat /\ b[k + 1] \in Nat
      BY <1>2, <1>3, <3>1
    <3>3. c[j] = b[j + 1] - turn /\ c[k] = b[k + 1] - turn
      BY <1>7
    <3> QED
      BY <3>2, <3>3, SMTT(40)
  <2>4. ASSUME NEW k \in 1 .. n - 1 PROVE c[k + 1] = c[k] + u[k][2] + 1
    <3>1. k + 1 \in 1 .. n /\ k \in 1 .. n /\ k + 1 \in 1 .. n + 1 /\ k + 1 + 1 \in 1 .. n + 1
      BY <1>6a
    <3>2. b[k + 1 + 1] = b[k + 1] + w[k + 1][2] + 1 /\ b[k + 1] \in Nat /\ w[k + 1][2] \in Nat
      BY <1>1, <1>2, <1>3, <3>1
    <3>3. c[k + 1] = b[k + 1 + 1] - turn /\ c[k] = b[k + 1] - turn /\ u[k] = w[k + 1]
      BY <1>1, <1>7, <3>1
    <3> DEFINE p == b[k + 1]
               length == w[k + 1][2]
    <3>4. p \in Nat /\ length \in Nat
      BY <3>2
    <3>5. u[k][2] = length /\ c[k] = p - turn
      BY <3>3
    <3>6. c[k + 1] = (p + length + 1) - turn
      BY ONLY <3>2, <3>3
    <3> HIDE DEF p, length
    <3> QED
      BY <3>4, <3>5, <3>6
  <2>5. Len(u) + 1 = n
    BY <1>1
  <2> QED
    BY <1>1, <2>2, <2>3, <2>4, <2>5 DEF InARow
<1>11. Stored(c, u, mem)
  <2> SUFFICES ASSUME NEW k \in 1 .. n - 1 PROVE FrameAt(mem, c[k], c[k + 1], u[k])
    BY <1>1 DEF Stored
  <2> DEFINE from == b[k + 1]
             to == b[k + 1 + 1]
             length == w[k + 1][2]
  <2>1. k + 1 \in 1 .. n /\ k \in 1 .. n /\ k + 1 + 1 \in 1 .. n + 1 /\ k + 1 \in 1 .. n + 1
        /\ 2 \in 1 .. n + 1 /\ 2 <= k + 1
    BY <1>6a
  <2>2. FrameAt(mem, from, to, w[k + 1])
    BY <2>1 DEF Stored
  <2>3. from \in Nat /\ to = from + length + 1 /\ length \in Nat /\ b[2] <= from
        /\ to < 2 * Words
    BY <1>1, <1>2, <1>3, <1>5, <2>1
  <2>4. c[k] = from - turn /\ c[k + 1] = to - turn /\ u[k] = w[k + 1]
    BY <1>1, <1>7, <2>1
  <2> HIDE DEF from, to, length
  <2>5. Wrap(c[k]) = Wrap(from) /\ Wrap(c[k + 1]) = Wrap(to)
    <3>1. from < 2 * Words /\ to \in Nat /\ b[2] <= to
      BY <1>0, <1>4, <2>3
    <3> QED
      BY <1>8, <2>3, <2>4, <3>1
  <2>6. ASSUME NEW i \in 1 .. length PROVE mem[Wrap(c[k] + i)] = Data(w[k + 1][1], i)
    <3>1. from + i \in Nat /\ b[2] <= from + i /\ from + i < 2 * Words
      BY <1>0, <1>4, <2>3
    <3>2. c[k] + i = (from + i) - turn
      BY <2>3, <2>4
    <3>5. Wrap((from + i) - turn) = Wrap(from + i)
      BY <1>8, <3>1
    <3>4. Wrap(c[k] + i) = Wrap(from + i)
      BY <3>2, <3>5
    <3>3. mem[Wrap(from + i)] = Data(w[k + 1][1], i)
      BY <2>2 DEF FrameAt, length
    <3> QED
      BY <3>3, <3>4
  <2>7. mem[Wrap(c[k])] = Header(2 * Wrap(c[k + 1]), w[k + 1][2], w[k + 1][1])
    BY <2>2, <2>5 DEF FrameAt
  <2> QED
    BY <2>4, <2>6, <2>7 DEF FrameAt, length
<1>12. c[1] = Wrap(b[2]) /\ Wrap(c[n]) = Wrap(b[n + 1])
  <2>1. 1 \in 1 .. n /\ n \in 1 .. n /\ 1 + 1 = 2
    BY <1>1
  <2>2. c[1] = b[2] - turn /\ c[n] = b[n + 1] - turn
    BY <1>7, <2>1
  <2>3. c[1] = Wrap(b[2])
    BY <1>0, <1>4, <1>6, <2>2 DEF Wrap
  <2>4. b[n + 1] < 2 * Words
    BY <1>0, <1>3, <1>4, SMTT(40)
  <2>5. Wrap(c[n]) = Wrap(b[n + 1])
    BY <1>4, <1>8, <2>2, <2>4
  <2> QED
    BY <2>3, <2>5
<1> QED
  BY <1>1, <1>9, <1>10, <1>11, <1>12 DEF c, u

\* The room of the frame that was copied is given back, and no other.
LEMMA AdvanceReleases == ASSUME RingInv, Advance PROVE RingInv'
<1>1. PICK b : RingAt(b)
  BY DEF RingInv
<1>2. PICK n : n = Len(waiting)
  OBVIOUS
<1>3. /\ encpc = "advance" /\ encpc' = "errors" /\ waiting' = Tail(waiting)
      /\ ring' = ring /\ ERXWRPT' = ERXWRPT /\ EPKTCNT' = EPKTCNT - 1 /\ frames' = frames
      /\ enc28j60_next_packet_pointer' = enc28j60_next_packet_pointer
      /\ ERXRDPT' = IF header[2] = 0 THEN RXBUFFER_END ELSE header[2] - 1
  BY DEF Advance
<1>4. /\ waiting \in Seq(Nat \X Nat) /\ n \in Nat /\ waiting # <<>> /\ EPKTCNT = n
      /\ frames \in Nat
  BY <1>2, <1>3 DEF RingInv, InProcess
<1>5. /\ b \in Places(waiting) /\ InARow(b, waiting) /\ Stored(b, waiting, ring)
      /\ ControllerAt(b) /\ DriverAt(b)
  BY <1>1 DEF RingAt
<1>6. PICK c : c = Released(b, n)
  OBVIOUS
<1>7. /\ c \in Places(waiting') /\ InARow(c, waiting') /\ Stored(c, waiting', ring')
      /\ c[1] = Wrap(b[2]) /\ Wrap(c[n]) = Wrap(b[n + 1]) /\ n > 0
  <2>1. PICK mem : mem = ring
    OBVIOUS
  <2>2. PICK w : w = waiting
    OBVIOUS
  <2>3. /\ c \in Places(Tail(w)) /\ InARow(c, Tail(w)) /\ Stored(c, Tail(w), mem)
        /\ c[1] = Wrap(b[2]) /\ Wrap(c[n]) = Wrap(b[n + 1]) /\ n > 0
    BY <1>2, <1>4, <1>5, <1>6, <2>1, <2>2, ReleasedRow
  <2> QED
    BY <1>3, <2>1, <2>2, <2>3
<1>8. /\ header[2] = 2 * Wrap(b[2]) /\ enc28j60_next_packet_pointer = 2 * Wrap(b[2])
  BY <1>3, <1>5 DEF DriverAt, Header
<1>9. waiting' \in Seq(Nat \X Nat) /\ Len(waiting') = n - 1
  BY <1>2, <1>3, <1>4
<1>10. c[1] \in Nat
  <2>1. 1 \in 1 .. Len(waiting') + 1
    BY <1>7, <1>9
  <2> QED
    BY <1>7, <2>1 DEF Places
<1>11. ControllerAt(c)'
  <2>1. Len(waiting') + 1 = n
    BY <1>4, <1>9
  <2>2. ERXWRPT' = 2 * Wrap(c[n])
    BY <1>2, <1>3, <1>5, <1>7 DEF ControllerAt
  <2>3. \/ c[1] > 0 /\ ERXRDPT' = 2 * c[1] - 1
        \/ c[1] = 0 /\ ERXRDPT' \in {0, RXBUFFER_END}
    BY <1>3, <1>7, <1>8, <1>10
  <2> QED
    BY <2>1, <2>2, <2>3 DEF ControllerAt
<1>12. DriverAt(c)'
  BY <1>3, <1>7, <1>8 DEF DriverAt
<1>13. \E d : RingAt(d)'
  BY <1>7, <1>11, <1>12 DEF RingAt
<1>14. EPKTCNT' = Len(waiting')
  BY <1>3, <1>4, <1>9
<1> QED
  BY <1>3, <1>4, <1>9, <1>13, <1>14 DEF RingInv, InProcess

\* A frame that comes in is stored behind the others, or not at all.
LEMMA ArriveKeepsOrder ==
    ASSUME RingInv, NEW size \in Sizes, NEW kind, Arrive(size, kind) PROVE RingInv'
<1>1. CASE kind \in filter /\ ~(2 * (size + 1) > Free)
  BY <1>1, ArriveStores
<1>2. CASE ~(kind \in filter /\ ~(2 * (size + 1) > Free))
  <2>1. frames' \in Nat
    BY DEF RingInv, Arrive
  <2>2. UNCHANGED ringVars
    BY <1>2 DEF Arrive, ringVars
  <2>3. /\ enc28j60_next_packet_pointer' = enc28j60_next_packet_pointer
        /\ encpc' = encpc /\ header' = header /\ uip_recvbuf' = uip_recvbuf
    BY DEF Arrive, driverVars
  <2>4. waiting' = waiting
    BY <2>2 DEF ringVars
  <2>5. \A b : RingAt(b) => DriverAt(b)'
    BY <2>3, <2>4 DEF RingAt, DriverAt
  <2>6. encpc' \in InProcess => waiting # <<>>
    BY <2>3 DEF RingInv
  <2> QED
    BY <2>1, <2>2, <2>5, <2>6, DriverMoves
<1> QED
  BY <1>1, <1>2

\* Steps of others, and of the driver outside of process_packet, leave its place
\* where it is.
Elsewhere == {"main", "flags", "header", "wait", "fill", "send"}

LEMMA DriverRests ==
    ASSUME RingInv, UNCHANGED <<ringVars, enc28j60_next_packet_pointer, header, frames, encpc,
                                uip_recvbuf>>
    PROVE  RingInv'
<1>1. /\ enc28j60_next_packet_pointer' = enc28j60_next_packet_pointer /\ encpc' = encpc
      /\ header' = header /\ waiting' = waiting /\ uip_recvbuf' = uip_recvbuf /\ frames' \in Nat
  BY DEF ringVars, RingInv
<1>2. \A b : RingAt(b) => DriverAt(b)'
  BY <1>1 DEF RingAt, DriverAt
<1>3. encpc' \in InProcess => waiting # <<>>
  BY <1>1 DEF RingInv
<1> QED
  BY <1>1, <1>2, <1>3, DriverMoves

LEMMA DriverElsewhere ==
    ASSUME RingInv, UNCHANGED <<ringVars, enc28j60_next_packet_pointer, header, frames>>,
           encpc # "advance", encpc' \in Elsewhere, encpc' \in InProcess => waiting # <<>>
    PROVE  RingInv'
<1>1. /\ enc28j60_next_packet_pointer' = enc28j60_next_packet_pointer
      /\ header' = header /\ waiting' = waiting /\ frames' \in Nat
  BY DEF ringVars, RingInv
<1>2. \A b : RingAt(b) => DriverAt(b)'
  BY <1>1 DEF RingAt, DriverAt, Elsewhere
<1> QED
  BY <1>1, <1>2, DriverMoves

\* The header the driver reads is that of the first frame that waits.
LEMMA HeaderOfTheFirst == ASSUME RingInv, ReadHeader PROVE RingInv'
<1>1. /\ encpc = "header" /\ encpc' = "size" /\ waiting' = waiting /\ frames' = frames
      /\ enc28j60_next_packet_pointer' = enc28j60_next_packet_pointer
      /\ header' = AsHeader(ring[enc28j60_next_packet_pointer \div 2])
  BY DEF ReadHeader
<1>2. UNCHANGED ringVars
  BY DEF ReadHeader, chipVars, ringVars
<1>3. waiting \in Seq(Nat \X Nat) /\ waiting # <<>> /\ frames' \in Nat
  BY <1>1 DEF RingInv, InProcess
<1>4. ASSUME NEW b, RingAt(b) PROVE DriverAt(b)'
  <2>1. /\ enc28j60_next_packet_pointer = 2 * b[1]
        /\ InARow(b, waiting) /\ Stored(b, waiting, ring) /\ b \in Places(waiting)
    BY <1>1, <1>4 DEF RingAt, DriverAt
  <2>2. PICK n \in Nat : n = Len(waiting) /\ n # 0
    BY <1>3
  <2>3. 1 \in 1 .. n /\ 1 \in 1 .. n + 1 /\ 1 + 1 = 2
    BY <2>2
  <2>4. b[1] \in Nat /\ b[1] < Words
    BY <2>1, <2>2, <2>3 DEF Places, InARow
  <2>5. enc28j60_next_packet_pointer \div 2 = b[1] /\ Wrap(b[1]) = b[1]
    BY <2>1, <2>4 DEF Wrap
  <2>6. ring[b[1]] = Header(2 * Wrap(b[2]), waiting[1][2], waiting[1][1])
    BY <2>1, <2>2, <2>3, <2>5 DEF Stored, FrameAt
  <2>7. header' = Header(2 * Wrap(b[2]), waiting[1][2], waiting[1][1])
    BY <1>1, <2>5, <2>6 DEF AsHeader, Header
  <2> QED
    BY <1>1, <2>1, <2>7 DEF DriverAt
<1> QED
  BY <1>1, <1>2, <1>3, <1>4, DriverMoves

\* The copy is the frame, and the pointer is then behind it.
LEMMA CopyOfTheFirst == ASSUME RingInv, CopyFrame PROVE RingInv'
<1>1. /\ encpc = "copy" /\ encpc' = "advance" /\ waiting' = waiting /\ frames' = frames
      /\ header' = header /\ enc28j60_next_packet_pointer' = header[2]
      /\ uip_recvbuf' = [i \in 1 .. header[3] |->
                             ring[((enc28j60_next_packet_pointer \div 2) + i) % Words]]
  BY DEF CopyFrame
<1>2. UNCHANGED ringVars
  BY DEF CopyFrame, chipVars, ringVars
<1>3. waiting \in Seq(Nat \X Nat) /\ waiting # <<>> /\ frames' \in Nat
  BY <1>1 DEF RingInv, InProcess
<1>4. ASSUME NEW b, RingAt(b) PROVE DriverAt(b)'
  <2>1. /\ enc28j60_next_packet_pointer = 2 * b[1]
        /\ header = Header(2 * Wrap(b[2]), waiting[1][2], waiting[1][1])
        /\ InARow(b, waiting) /\ Stored(b, waiting, ring) /\ b \in Places(waiting)
    BY <1>1, <1>4 DEF RingAt, DriverAt
  <2>2. PICK n \in Nat : n = Len(waiting) /\ n # 0
    BY <1>3
  <2>3. PICK length \in Nat : length = waiting[1][2]
    BY <1>3
  <2>4. 1 \in 1 .. n /\ 1 \in 1 .. n + 1 /\ 2 \in 1 .. n + 1 /\ 1 + 1 = 2 /\ n + 1 \in 1 .. n + 1
        /\ 2 <= n + 1
    BY <2>2
  <2>5. b[1] \in Nat /\ b[2] \in Nat /\ b[n + 1] \in Nat
    BY <2>1, <2>2, <2>4 DEF Places
  <2>6. /\ b[1] < Words /\ b[2] = b[1] + length + 1 /\ b[2] <= b[n + 1]
        /\ b[n + 1] <= b[1] + Words - 1
    BY <2>1, <2>2, <2>3, <2>4 DEF InARow
  <2>7. Words \in Nat \ {0}
    BY EncAssumption
  <2>8. enc28j60_next_packet_pointer \div 2 = b[1] /\ Wrap(b[1]) = b[1]
    BY <2>1, <2>5, <2>6 DEF Wrap
  <2>9. ASSUME NEW i \in 1 .. length
        PROVE  ring[(b[1] + i) % Words] = Data(waiting[1][1], i)
    <3>1. b[1] + i \in Nat /\ b[1] + i < 2 * Words
      BY <2>5, <2>6, <2>7
    <3>2. (b[1] + i) % Words = Wrap(b[1] + i)
      BY <3>1, WrapIsModulus
    <3>3. FrameAt(ring, b[1], b[2], waiting[1])
      BY <2>1, <2>2, <2>4 DEF Stored
    <3> QED
      BY <2>3, <3>2, <3>3 DEF FrameAt
  <2>10. header[2] = 2 * Wrap(b[2]) /\ header[3] = length
    BY <2>1, <2>3 DEF Header
  <2>11. uip_recvbuf' = [i \in 1 .. length |-> Data(waiting[1][1], i)]
    BY <1>1, <2>8, <2>9, <2>10
  <2> QED
    BY <1>1, <2>1, <2>3, <2>10, <2>11 DEF DriverAt
<1> QED
  BY <1>1, <1>2, <1>3, <1>4, DriverMoves

\* RingInv holds in every state.
THEOREM RingInvariant == EncSpec => []RingInv
<1>1. EncInit => RingInv
  <2> SUFFICES ASSUME EncInit PROVE RingInv
    OBVIOUS
  <2> DEFINE b == [k \in 1 .. 1 |-> 0]
  <2>1. Words \in Nat \ {0}
    BY EncAssumption
  <2>2. /\ frames = 0 /\ waiting = <<>> /\ EPKTCNT = 0 /\ encpc = "main"
        /\ ERXWRPT = 0 /\ ERXRDPT = 0 /\ enc28j60_next_packet_pointer = 0
    BY DEF EncInit
  <2>3. b \in Places(waiting) /\ InARow(b, waiting) /\ Stored(b, waiting, ring)
    BY <2>1, <2>2 DEF Places, InARow, Stored
  <2>4. ControllerAt(b) /\ DriverAt(b)
    BY <2>1, <2>2 DEF ControllerAt, DriverAt, Wrap
  <2>5. RingAt(b)
    BY <2>3, <2>4 DEF RingAt
  <2> QED
    BY <2>2, <2>5 DEF RingInv, InProcess
<1>2. RingInv /\ [EncNext]_encVars => RingInv'
  <2> SUFFICES ASSUME RingInv, [EncNext]_encVars PROVE RingInv'
    OBVIOUS
  <2>0. frames \in Nat
    BY DEF RingInv
  <2>1. ASSUME NEW size \in Sizes, NEW kind, Arrive(size, kind) PROVE RingInv'
    BY <2>1, ArriveKeepsOrder
  <2>2. CASE LinkChange \/ EndOfTransmission
    <3>1. UNCHANGED <<ringVars, enc28j60_next_packet_pointer, header, frames, encpc, uip_recvbuf>>
      BY <2>2 DEF LinkChange, EndOfTransmission, ringVars, driverVars
    <3> QED
      BY <3>1, DriverRests
  <2>3. CASE ReadPacketCounter
    <3>1. UNCHANGED <<ringVars, enc28j60_next_packet_pointer, header, frames>>
      BY <2>3 DEF ReadPacketCounter, chipVars, ringVars
    <3>2. encpc = "main" /\ encpc' \in {"main", "flags"} /\ (encpc' = "flags" => EPKTCNT # 0)
      BY <2>3 DEF ReadPacketCounter
    <3>3. EPKTCNT # 0 => waiting # <<>>
      BY DEF RingInv
    <3>4. encpc # "advance" /\ encpc' \in Elsewhere
      BY <3>2 DEF Elsewhere
    <3>5. encpc' \in InProcess => waiting # <<>>
      BY <3>2, <3>3 DEF InProcess
    <3> QED
      BY <3>1, <3>4, <3>5, DriverElsewhere
  <2>4. CASE ReadFlags
    <3>1. UNCHANGED <<ringVars, enc28j60_next_packet_pointer, header, frames>>
      BY <2>4 DEF ReadFlags, ringVars
    <3>2. encpc = "flags" /\ encpc' = "header"
      BY <2>4 DEF ReadFlags
    <3>3. waiting # <<>>
      BY <3>2 DEF RingInv, InProcess
    <3>4. encpc # "advance" /\ encpc' \in Elsewhere
      BY <3>2 DEF Elsewhere
    <3> QED
      BY <3>1, <3>3, <3>4, DriverElsewhere
  <2>5. CASE ReadHeader
    BY <2>5, HeaderOfTheFirst
  <2>6. CASE CheckSize
    <3>1. CASE header[3] \notin 1 .. MaxSize
      <4>1. init_enc28j60 /\ frames' = frames /\ encpc' = "errors"
        BY <2>6, <3>1 DEF CheckSize
      <4> QED
        BY <2>0, <4>1, InitEmptiesRing DEF InProcess
    <3>2. CASE ~(header[3] \notin 1 .. MaxSize)
      <4>1. /\ encpc = "size" /\ encpc' = "copy" /\ frames' = frames /\ waiting' = waiting
            /\ enc28j60_next_packet_pointer' = enc28j60_next_packet_pointer /\ header' = header
        BY <2>6, <3>2 DEF CheckSize
      <4>2. UNCHANGED ringVars
        BY <2>6, <3>2 DEF CheckSize, chipVars, ringVars
      <4>3. waiting # <<>>
        BY <4>1 DEF RingInv, InProcess
      <4>4. \A b : RingAt(b) => DriverAt(b)'
        BY <4>1 DEF RingAt, DriverAt
      <4> QED
        BY <2>0, <4>1, <4>2, <4>3, <4>4, DriverMoves
    <3> QED
      BY <3>1, <3>2
  <2>7. CASE CopyFrame
    BY <2>7, CopyOfTheFirst
  <2>8. CASE Advance
    BY <2>8, AdvanceReleases
  <2>9. CASE HandleErrors
    <3>1. frames' = frames /\ encpc = "errors" /\ encpc' = "main"
      BY <2>9 DEF HandleErrors
    <3>2. CASE "RXERIF" \in flags
      <4>1. init_enc28j60
        BY <2>9, <3>2 DEF HandleErrors
      <4> QED
        BY <2>0, <3>1, <4>1, InitEmptiesRing DEF InProcess
    <3>3. CASE ~("RXERIF" \in flags)
      <4>1. /\ UNCHANGED ringVars /\ waiting' = waiting
            /\ enc28j60_next_packet_pointer' = enc28j60_next_packet_pointer
        BY <2>9, <3>3 DEF HandleErrors, chipVars, ringVars
      <4>2. \A b : RingAt(b) => DriverAt(b)'
        BY <3>1, <4>1 DEF RingAt, DriverAt
      <4> QED
        BY <2>0, <3>1, <4>1, <4>2, DriverMoves DEF InProcess
    <3> QED
      BY <3>2, <3>3
  <2>10. CASE FrameHandled \/ StartTransmit \/ WaitRound \/ Fill \/ Send
    <3>1. UNCHANGED <<ringVars, enc28j60_next_packet_pointer, header, frames>>
      BY <2>10 DEF FrameHandled, StartTransmit, WaitRound, Fill, Send, chipVars, ringVars
    <3>2. encpc # "advance" /\ encpc' \in {"main", "wait", "fill", "send"}
      BY <2>10 DEF FrameHandled, StartTransmit, WaitRound, Fill, Send
    <3>3. encpc' \in Elsewhere /\ encpc' \notin InProcess
      BY <3>2 DEF InProcess, Elsewhere
    <3> QED
      BY <3>1, <3>2, <3>3, DriverElsewhere
  <2>11. CASE UNCHANGED encVars
    <3>1. UNCHANGED <<ringVars, enc28j60_next_packet_pointer, header, frames, encpc, uip_recvbuf>>
      BY <2>11 DEF encVars, chipVars, driverVars, ringVars
    <3> QED
      BY <3>1, DriverRests
  <2> QED
    BY <2>1, <2>2, <2>3, <2>4, <2>5, <2>6, <2>7, <2>8, <2>9, <2>10, <2>11
    DEF EncNext, Controller, Driver
<1> QED
  BY <1>1, <1>2, PTL DEF EncSpec

\* Whatever the controller stores between two steps of the driver, the frame handed to
\* main is the first of those that wait, all of it; and between two calls the
\* controller's counter and the driver's pointer speak of the frames that wait.
THEOREM FramesComeInStep == EncSpec => []FramesInStep
<1>1. RingInv => FramesInStep
  <2> SUFFICES ASSUME RingInv PROVE FramesInStep
    OBVIOUS
  <2>1. PICK b : RingAt(b)
    BY DEF RingInv
  <2>2. /\ b \in Places(waiting) /\ InARow(b, waiting) /\ Stored(b, waiting, ring)
        /\ ControllerAt(b) /\ DriverAt(b)
    BY <2>1 DEF RingAt
  <2>3. waiting \in Seq(Nat \X Nat) /\ EPKTCNT = Len(waiting) /\ Len(waiting) \in Nat
    BY DEF RingInv
  <2>4. HandsUpInOrder
    <3> SUFFICES ASSUME encpc = "advance"
                 PROVE  /\ waiting # <<>>
                        /\ uip_recvbuf = [i \in 1 .. Head(waiting)[2] |-> Data(Head(waiting)[1], i)]
      BY DEF HandsUpInOrder
    <3>1. waiting # <<>>
      BY DEF RingInv, InProcess
    <3>2. Head(waiting) = waiting[1]
      BY <2>3, <3>1
    <3> QED
      BY <2>2, <3>1, <3>2 DEF DriverAt
  <2>5. b[1] \in Nat /\ b[1] < Words
    <3>1. 1 \in 1 .. Len(waiting) + 1
      BY <2>3
    <3> QED
      BY <2>2, <3>1 DEF Places, InARow
  <2>6. Wrap(b[1]) = b[1] /\ Words \in Nat \ {0}
    BY <2>5, EncAssumption DEF Wrap
  <2>7. ASSUME encpc # "advance", waiting # <<>>
        PROVE  LET h == ring[enc28j60_next_packet_pointer \div 2]
               IN  h[1] = "header" /\ h[4] = Head(waiting)[1] /\ h[3] = Head(waiting)[2]
    <3>1. enc28j60_next_packet_pointer \div 2 = b[1]
      BY <2>2, <2>5, <2>7 DEF DriverAt
    <3>2. Head(waiting) = waiting[1] /\ 1 \in 1 .. Len(waiting)
      BY <2>3, <2>7
    <3>3. ring[b[1]] = Header(2 * Wrap(b[1 + 1]), waiting[1][2], waiting[1][1])
      BY <2>2, <2>6, <3>2 DEF Stored, FrameAt
    <3> QED
      BY <3>1, <3>2, <3>3 DEF Header
  <2>8. ASSUME encpc # "advance", waiting = <<>>
        PROVE  ERXWRPT = enc28j60_next_packet_pointer /\ Free >= RXBUFFER_END - 1
    <3>1. Len(waiting) + 1 = 1
      BY <2>8
    <3>2. ERXWRPT = 2 * b[1] /\ enc28j60_next_packet_pointer = 2 * b[1]
      BY <2>2, <2>6, <2>8, <3>1 DEF ControllerAt, DriverAt
    <3>3. \/ b[1] > 0 /\ ERXRDPT = 2 * b[1] - 1
          \/ b[1] = 0 /\ ERXRDPT \in {0, RXBUFFER_END}
      BY <2>2 DEF ControllerAt
    <3>4. Free >= RXBUFFER_END - 1
      BY <2>5, <2>6, <3>2, <3>3 DEF Free, RXBUFFER_END
    <3> QED
      BY <3>2, <3>4
  <2>9. RingInStep
    BY <2>3, <2>7, <2>8 DEF RingInStep
  <2> QED
    BY <2>4, <2>9 DEF FramesInStep
<1> QED
  BY <1>1, RingInvariant, PTL

-----------------------------------------------------------------------------
(* The checksum *)

\* The sum is what has been added, but for wraps that each took all ones away.
Wrapped(s, a, k) == s \in 0 .. Ones /\ a = s + k * Ones

ChecksumInv == left \in Nat /\ \E k \in Nat : Wrapped(sum, added, k)

LEMMA OnesIsPositive == Ones \in Nat /\ Ones >= 3 /\ WORD = Ones + 1
<1>1. BYTE \in Nat /\ BYTE >= 2
  BY ChecksumAssumption
<1>2. BYTE * BYTE \in Nat /\ BYTE * BYTE >= 4
  BY <1>1
<1> QED
  BY <1>2 DEF Ones, WORD

\* Two bytes are a word.
LEMMA TwoBytesFit ==
    ASSUME NEW high \in 0 .. BYTE - 1, NEW low \in 0 .. BYTE - 1
    PROVE  high * BYTE \in 0 .. Ones /\ high * BYTE + low \in 0 .. Ones
<1>1. BYTE \in Nat /\ BYTE >= 2 /\ high \in Nat /\ low \in Nat
  BY ChecksumAssumption
<1>2. high * BYTE \in Nat /\ high * BYTE <= (BYTE - 1) * BYTE
  BY <1>1
<1>3. (BYTE - 1) * BYTE = WORD - BYTE /\ WORD \in Nat
  BY <1>1 DEF WORD
<1> QED
  BY <1>1, <1>2, <1>3 DEF Ones

\* A word that wraps the sum takes WORD away, and the carry gives one back.
LEMMA AddingWraps ==
    ASSUME NEW s, NEW a, NEW k \in Nat, NEW t \in 0 .. Ones, Wrapped(s, a, k)
    PROVE  Wrapped(AddWord(s, t), a + t, k) \/ Wrapped(AddWord(s, t), a + t, k + 1)
<1> DEFINE n == Ones
<1>0. n \in Nat /\ n >= 3 /\ WORD = n + 1 /\ s \in 0 .. n /\ t \in 0 .. n
  BY OnesIsPositive DEF Wrapped
<1>1. k * n \in Nat /\ (k + 1) * n = k * n + n /\ a = s + k * n
  BY <1>0 DEF Wrapped
<1> HIDE DEF n
<1>2. CASE s + t <= n
  <2>1. (s + t) % WORD = s + t
    BY <1>0, <1>2
  <2>2. AddWord(s, t) = s + t
    BY <1>0, <2>1 DEF AddWord
  <2> QED
    BY <1>0, <1>1, <1>2, <2>2 DEF Wrapped, n
<1>3. CASE s + t > n
  <2>1. (s + t) % WORD = s + t - (n + 1)
    BY <1>0, <1>3
  <2>2. (s + t - n) % WORD = s + t - n
    BY <1>0, <1>3
  <2>3. AddWord(s, t) = s + t - n
    BY <1>0, <2>1, <2>2 DEF AddWord
  <2> QED
    BY <1>0, <1>1, <1>3, <2>3 DEF Wrapped, n
<1> QED
  BY <1>0, <1>2, <1>3

LEMMA AddKeepsChecksum ==
    ASSUME ChecksumInv, NEW t \in 0 .. Ones, Add(t) PROVE \E k \in Nat : Wrapped(sum', added', k)
<1>1. PICK k \in Nat : Wrapped(sum, added, k)
  BY DEF ChecksumInv
<1>2. Wrapped(AddWord(sum, t), added + t, k) \/ Wrapped(AddWord(sum, t), added + t, k + 1)
  BY <1>1, AddingWraps
<1>3. k + 1 \in Nat /\ sum' = AddWord(sum, t) /\ added' = added + t
  BY DEF Add
<1> QED
  BY <1>2, <1>3

LEMMA InitChecksum == ChecksumInit => ChecksumInv
<1> SUFFICES ASSUME ChecksumInit PROVE ChecksumInv
  OBVIOUS
<1>1. Wrapped(sum, added, 0)
  BY OnesIsPositive DEF ChecksumInit, Wrapped
<1> QED
  BY <1>1, ChecksumAssumption DEF ChecksumInit, ChecksumInv

LEMMA NextChecksum == ChecksumInv /\ [ChecksumNext]_checksumVars => ChecksumInv'
<1> SUFFICES ASSUME ChecksumInv, [ChecksumNext]_checksumVars PROVE ChecksumInv'
  OBVIOUS
<1>1. CASE AddTwoBytes
  <2>1. PICK high \in 0 .. BYTE - 1, low \in 0 .. BYTE - 1 : Add(high * BYTE + low)
    BY <1>1 DEF AddTwoBytes
  <2>2. \E k \in Nat : Wrapped(sum', added', k)
    BY <2>1, TwoBytesFit, AddKeepsChecksum
  <2>3. left' \in Nat
    BY <1>1 DEF AddTwoBytes, ChecksumInv
  <2> QED
    BY <2>2, <2>3 DEF ChecksumInv
<1>2. CASE AddLastByte
  <2>1. PICK high \in 0 .. BYTE - 1 : Add(high * BYTE)
    BY <1>2 DEF AddLastByte
  <2>2. 0 \in 0 .. BYTE - 1
    BY ChecksumAssumption
  <2>3. \E k \in Nat : Wrapped(sum', added', k)
    BY <2>1, <2>2, TwoBytesFit, AddKeepsChecksum
  <2> QED
    BY <1>2, <2>3 DEF ChecksumInv, AddLastByte
<1>3. CASE StartDatagram
  BY <1>3 DEF ChecksumInv, StartDatagram
<1>4. CASE UNCHANGED checksumVars
  BY <1>4 DEF ChecksumInv, checksumVars
<1> QED
  BY <1>1, <1>2, <1>3, <1>4 DEF ChecksumNext

\* The complement fills the sum up to all ones once or, of none or all, again.
LEMMA SumIsFilledUp ==
    ASSUME NEW s, NEW a, NEW k \in Nat, Wrapped(s, a, k)
    PROVE  /\ Complement(s) \in 1 .. Ones
           /\ \E m \in Nat : a + Complement(s) = m * Ones
<1> DEFINE n == Ones
<1>0. n \in Nat /\ n >= 3 /\ s \in 0 .. n
  BY OnesIsPositive DEF Wrapped
<1>1. k * n \in Nat /\ (k + 1) * n = k * n + n /\ (k + 2) * n = k * n + n + n /\ a = s + k * n
  BY <1>0 DEF Wrapped
<1> HIDE DEF n
<1>2. CASE s = n
  <2>1. Complement(s) = n
    BY <1>0, <1>2 DEF Complement, n
  <2>2. a + n = (k + 2) * n /\ k + 2 \in Nat
    BY <1>0, <1>1, <1>2
  <2>3. Complement(s) \in 1 .. n
    BY <1>0, <2>1
  <2> QED
    BY <2>1, <2>2, <2>3, Zenon DEF n
<1>3. CASE s = 0
  <2>1. Complement(s) = n
    BY <1>0, <1>3 DEF Complement, n
  <2>2. a + n = (k + 1) * n /\ k + 1 \in Nat
    BY <1>0, <1>1, <1>3
  <2>3. Complement(s) \in 1 .. n
    BY <1>0, <2>1
  <2> QED
    BY <2>1, <2>2, <2>3, Zenon DEF n
<1>4. CASE s # 0 /\ s # n
  <2>1. Complement(s) = n - s /\ n - s \in 1 .. n
    BY <1>0, <1>4 DEF Complement, n
  <2>2. a + (n - s) = (k + 1) * n /\ k + 1 \in Nat
    BY <1>0, <1>1, <1>4
  <2>3. Complement(s) \in 1 .. n
    BY <1>0, <2>1
  <2> QED
    BY <2>1, <2>2, <2>3, Zenon DEF n
<1> QED
  BY <1>2, <1>3, <1>4

LEMMA MultiplesHaveNoRemainder ==
    ASSUME NEW m \in Nat, NEW n \in Nat, n >= 1 PROVE (m * n) % n = 0
OBVIOUS

LEMMA ChecksumIsAccepted == ChecksumInv => ReceiverAccepts
<1> SUFFICES ASSUME ChecksumInv PROVE ReceiverAccepts
  OBVIOUS
<1>1. PICK k \in Nat : Wrapped(sum, added, k)
  BY DEF ChecksumInv
<1>2. Complement(sum) \in 1 .. Ones
  BY <1>1, SumIsFilledUp
<1>3. PICK m \in Nat : added + Complement(sum) = m * Ones
  BY <1>1, SumIsFilledUp
<1>4. (m * Ones) % Ones = 0
  BY OnesIsPositive, MultiplesHaveNoRemainder
<1> QED
  BY <1>2, <1>3, <1>4 DEF ReceiverAccepts

\* The invariant of the checksum: the 16-bit sum and what was really added differ by
\* multiples of all ones, since every carry that chksum loses it adds again.
THEOREM ChecksumInvariant == ChecksumSpec => []ChecksumInv
<1> QED
  BY InitChecksum, NextChecksum, PTL DEF ChecksumSpec

\* A frame of any length and content, of even or odd length, gets a checksum its
\* receiver accepts, and never the zero that means none.
THEOREM ChecksumsAreAccepted == ChecksumSpec => []ReceiverAccepts
<1> QED
  BY ChecksumInvariant, ChecksumIsAccepted, PTL

=============================================================================
