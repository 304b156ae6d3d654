---------------------------- MODULE UartRxTraceMC ----------------------------
(* A small instance of UartRxTrace, with the packets of UartRxMC. *)
EXTENDS UartRxTrace, UartRxMC
=============================================================================
