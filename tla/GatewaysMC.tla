----------------------------- MODULE GatewaysMC -----------------------------
(***************************************************************************)
(* The reset card busmaster's serial input, both sides of the gateway and  *)
(* the two algorithms of the library, for TLC: they share no state, and in *)
(* each behaviour one of them moves.                                       *)
(***************************************************************************)
EXTENDS ResetCard, Gateway, GatewayHttp, Crc32, Xtea

VARIABLE part

\* The image of poc-pinstore/verifypin.c: twelve PINs in two blocks.
NumPins == <<12>>
Block0 == <<50, 1, 146, 128, 66, 51, 0, 0, 0, 0, 0, 0, 0, 0, 0, 0, 0, 0>>
Block1 == <<0, 0, 0, 0, 0, 0, 0, 0, 0, 0, 0, 0, 0, 0, 0, 0, 0, 0>>
Crc0 == <<255, 21, 63, 170>>
Crc1 == <<103, 27, 207, 77>>
SampleImage ==
    <<[bytes |-> Block0, crc |-> Crc0, maxFlips |-> 2],
      [bytes |-> Block1, crc |-> Crc1, maxFlips |-> 1],
      [bytes |-> NumPins \o Block0 \o Crc0 \o Block1 \o Crc1, crc |-> <<34, 221, 237, 141>>,
       maxFlips |-> 1]>>

\* "x", "1y" and "xyz", which is too long
SomePayloads == {<<120>>, <<49, 121>>, <<120, 121, 122>>}

SomeFillings ==
    {[k \in 1 .. 16 |-> 0], [k \in 1 .. 16 |-> 15], [k \in 1 .. 16 |-> k - 1],
     [k \in 1 .. 16 |-> (k * k) % 16]}

\* The low halves of the key's words.
LowKey == [k \in 0 .. 3 |-> <<43520, 52445, 43775, 39406>>[k + 1]]

AllVars == <<resetVars, gatewayVars, httpVars, crcVars, xteaVars>>

MCInit ==
    /\ part \in {"card", "stream", "http", "crc", "xtea"}
    /\ ResetInit /\ GatewayInit /\ HttpInit /\ CrcInit /\ XteaInit
    /\ part # "card" => Char(eth_to_rs[-1]) = Nul
    /\ part # "crc" => block = 1
    /\ part # "xtea" => plain = [k \in 1 .. 16 |-> 0]

CardPart ==
    /\ part = "card" /\ ResetNext
    /\ UNCHANGED <<part, gatewayVars, httpVars, crcVars, xteaVars>>
StreamPart ==
    /\ part = "stream" /\ GatewayNext
    /\ UNCHANGED <<part, resetVars, httpVars, crcVars, xteaVars>>
HttpPart ==
    /\ part = "http" /\ HttpNext
    /\ UNCHANGED <<part, resetVars, gatewayVars, crcVars, xteaVars>>
CrcPart ==
    /\ part = "crc" /\ NextBit
    /\ UNCHANGED <<part, resetVars, gatewayVars, httpVars, xteaVars>>
XteaPart ==
    /\ part = "xtea" /\ XteaNext
    /\ UNCHANGED <<part, resetVars, gatewayVars, httpVars, crcVars>>

MCNext == CardPart \/ StreamPart \/ HttpPart \/ CrcPart \/ XteaPart

MCSpec == MCInit /\ [][MCNext]_<<AllVars, part>>

=============================================================================
