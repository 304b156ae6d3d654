----------------------------- MODULE EthernetMC -----------------------------
(***************************************************************************)
(* The busmaster's driver of the Ethernet controller, the frames it sends, *)
(* their checksum and the transmitter of the bus, for TLC: they share no   *)
(* state, and in each behaviour one of them moves.                         *)
(***************************************************************************)
EXTENDS Enc28j60, EthFrames, InetChecksum, UartTx

VARIABLE part

AllVars == <<encVars, ethVars, checksumVars, txVars>>

MCInit ==
    /\ part \in {"controller", "frames", "checksum", "transmitter"}
    /\ EncInit /\ EthInit /\ TxInit
    /\ ChecksumInit /\ (part # "checksum" => sum = 1)

ControllerPart ==
    /\ part = "controller" /\ EncNext
    /\ UNCHANGED <<part, ethVars, checksumVars, txVars>>
FramesPart ==
    /\ part = "frames" /\ EthNext
    /\ UNCHANGED <<part, encVars, checksumVars, txVars>>
ChecksumPart ==
    /\ part = "checksum" /\ ChecksumNext
    /\ UNCHANGED <<part, encVars, ethVars, txVars>>
TransmitterPart ==
    /\ part = "transmitter" /\ TxNext
    /\ UNCHANGED <<part, encVars, ethVars, checksumVars>>

MCNext == ControllerPart \/ FramesPart \/ ChecksumPart \/ TransmitterPart

\* Fairness is that of the parts.
MCSpec ==
    /\ MCInit /\ [][MCNext]_<<AllVars, part>>
    /\ WF_<<AllVars, part>>(FramesPart)
    /\ WF_<<AllVars, part>>(TransmitterPart /\ FrameEnds)
    /\ WF_<<AllVars, part>>(TransmitterPart /\ TxInterrupt)
    /\ WF_<<AllVars, part>>(TransmitterPart /\ tpc # "idle" /\ send_packet)

-----------------------------------------------------------------------------
(* Properties *)

\* PingsContinue, in the behaviours in which the main loop moves.
PingsContinueWhenFrames == (part = "frames") => PingsContinue

=============================================================================
