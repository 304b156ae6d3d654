# Hausbus in TLA+

The Hausbus is the RS-485 bus of a hackerspace: a busmaster with an Ethernet
chip polls AVR nodes (the pinpad with its door lock, a demo node, a temperature
node), forwards what they say to the Ethernet and sends what the Ethernet says
to them.  This directory holds TLA+ models of the program, the instances TLC
checks, and proofs checked by TLAPS.

All line numbers below refer to the repository's own files (`lib/uart.c:120` is
`src/lib/uart.c`, line 120).

## 1. The system

### Components

| component | code | state | operations |
|---|---|---|---|
| packet format | `lib/bus.h`, `lib/bus.c` | none | `fmt_packet` |
| bus UART, receiver | `lib/uart.c` | `uartbuf`, `uartread`, `uartwrite`, `status`, the linear copy `packet`, MPCM0, the watchdog | receive interrupt, `bus_status`, `current_packet`, `packet_done`, `skip_byte`, `check_complete`, `net_init` |
| bus UART, transmitter | `lib/uart.c` | `txwalk`, `txcnt`, driver enable pin, TXB8 and TXCIE of `UCSR0B` | `send_packet`, transmit complete interrupt |
| pinpad packet buffer | `firmware-pinpad/main.c` | `rbuffer`, `rb_current`, `rb_next`, `packetcnt` | `senddata`, `sendmsg`, the `send` branch |
| polling protocol | `busmaster/main.c`, `firmware-pinpad/main.c` | `cnt`, `burst_remain`, `burst_sender`; the pinpad's packet branches | ping, burst, forwarding, pong, send, open |
| pinpad keypad and PIN entry | `firmware-pinpad/main.c` | `serbuf`, `sercnt`, `pin`, `pincnt` | keypad interrupt, `handle_command` |
| pinpad EEPROM | `firmware-pinpad/main.c`, `lib/crc32.c`, `poc-pinstore/` | the EEPROM: checksum, number of PINs, blocks with their checksums | `verify_checksum`, `search_pin`, `calculate_eeprom_checksum`, the `E` command |
| pinpad sensors and lock | `firmware-pinpad/main.c` | `old_pinb`, `op_current`; `lowvalue`, `pwmvalue`; `OCR1B` | debouncing in the main loop, capture interrupt, `send_state`, `lock_door`, `unlock_door`, the other bus commands |
| hello world, temperature firmware | `firmware-helloworld/`, `firmware-temperatur/` | `packetcnt` (never written) | main loop |
| busmaster, Ethernet side | `busmaster/main.c`, `busmaster/icmpv6.c` | `uip_buf`, which is template, frame and scratch memory in one | `raw_send`, `syslog_send`, `chksum`, answers to neighbour solicitations and echo requests |
| ENC28J60 driver | `busmaster/enc28j60*.c`, `spi.c` | `enc28j60_next_packet_pointer`, `enc28j60_current_bank`, `uip_recvbuf` | `network_process`, `process_packet`, `transmit_packet`, `init_enc28j60` |
| reset card busmaster | `busmaster-resetcard/` | as the busmaster, and `eth_to_rs`, `eth_to_rs_cnt` for a serial line instead of Ethernet | its interrupt, the parser in the main loop |
| gateways | `eth-to-hausbus/`, `nemo-to-hausbus/` | Perl: `$readbuffer`, `%conns`, the callbacks of each HTTP client | reassembly, `distribute_packet`, POST, PUT, GET |
| XTEA | `lib/crypto.c` | none | `encipher`, `decipher` (not linked anywhere) |
| applications, second UART, boards | `application/`, `lib/uart2.c`, `layouts/` | none | |

### Interactions

* **Interrupt and main loop** share the receive ring and `status` without
  locks.  The interrupt runs to completion, the main loop is interrupted at
  any instruction.
* **Bus.**  One transmitter at a time by convention.  Every node hears the
  address byte of every packet; data bytes only while its multi-processor
  mode bit is clear.  A node does not hear itself (the receiver of the RS-485
  driver is off while it drives the line).
* **Polling.**  The busmaster pings; the pong says how many packets wait; each
  `send` is answered by the packet at the front of the pinpad's buffer.
  Neither requests nor answers are numbered, and nobody acknowledges anything.
* **Ethernet and serial.**  The busmaster turns a UDP packet into a bus packet
  and a bus packet into a UDP packet; the reset card does so on a serial line
  read by `nemogw.pl`.

### What is hard

* The interrupt between any two steps of the functions that read the ring, send
  a packet, copy a command of the keypad or read a captured value.
* Fragments other packets leave in the ring; its overflow and the restart.
* Counters that wrap at different places: 256, the ring's size, the passes.
* A protocol that only the delays of two programs keep in step, under late
  answers, lost packets, restarts, and a buffer overwritten while it is sent.
* A second chip, the Ethernet controller, that goes on between two accesses, with
  a pointer and a counter kept on different sides.
* One buffer in which all Ethernet frames are built, each relying on what the one
  before has left.
* A PIN store that is replaced packet by packet while people type and the power
  may fail.
* Serial lines without checksum or escape, and callbacks that register
  themselves again.

`PROJECT.json` lists these at their lines under `hazards`, with the properties
that are about them.

### What makes each part correct

* receiver: what is handled has arrived completely, was sent to this node, is
  handled once and in order; the read index never passes the write index; the
  loss caused by an error is bounded; an overflow ends in a running node.
* transmitter: a packet leaves whole; no frame is shifted out to a line that is
  released, and the line is released in the end, whatever calls overlap.
* packet buffer: a FIFO queue whose announced length is exact.
* polling: requests never outrun the buffer; what reaches the Ethernet is what
  the pinpad said, in order, once; the buffer is drained.
* PIN entry: the door does what the keys since the last `#` say: it opens for a
  PIN of a store that is there as a whole, and for nothing else.
* EEPROM: what is accepted is one of the images and not a mixture; what was
  written completely is accepted.
* sensors and lock: a change that lasts is announced, a bounce is not; a report
  names a state the lock was in; a packet does what it says.
* driver: frames are handed up whole and in order; pointer and counter stay in
  step; accesses reach the right bank; the filter is open between two calls.
* Ethernet frames: every field is what it was to be, whatever was sent before; a
  receiver accepts the checksum; pings go on.
* reset card and gateways: what is sent was given; a fault costs a bounded number
  of packets; an HTTP answer is true.

## 2. The modules

```
BusPacket            the packet as a sequence of bytes
  +- UartRx          receiver: interrupt, main loop, line, watchdog
       +- UartRxMC       packets for TLC
       +- UartRxTrace    the receiver with the history of its ring
            +- UartRxTraceMC
            +- UartRxProofs
UartTx               transmitter: send_packet, interrupt, USART
  +- UartTxProofs
MessageQueue         abstract FIFO of bounded size
PinpadQueue          rbuffer and its counters; refines MessageQueue
  +- PinpadQueueMC
  +- Polling         busmaster, line and pinpad in discrete time
       +- PollingMC
       +- PollingProofs  the buffer, alone and under the protocol
Eeprom               the PIN store and how it is written
  +- PinEntry        handle_command, on that store
       +- PinEntryProofs the store, alone and under the keypad; the door
KeypadSerial         the keypad's line and serbuf
BusCommands          what a packet makes the pinpad do
Debounce, Capture    door sensors, state of the lock
  +- PinpadProofs    these four
  +- PinpadMC        these six and PinpadQueue, one beside the other
Enc28j60             Ethernet controller and driver
EthFrames            the frames built in uip_buf, the pass counter
InetChecksum         chksum and its complement
  +- EthernetProofs  these three
  +- EthernetMC      these three and UartTx
ResetCard            gateway to bus: the parser of the reset card
Gateway              bus to gateway: packets out of a stream of bytes
GatewayHttp          the HTTP clients of the gateway
  +- GatewayProofs   these three
Crc32, Xtea          algorithms of lib/
  +- AlgorithmProofs these two
  +- GatewaysMC      these five
```

`PinpadMC`, `EthernetMC` and `GatewaysMC` put parts that share no state beside
each other: a variable `part` says which one moves in a behaviour, so that TLC
explores their sum and not their product.  They are a convenience for running
TLC, and say nothing about interaction.  Where parts do interact they are one
module: interrupt and main loop, controller and driver, PIN entry and store,
busmaster, line and pinpad.

### UartRx

One node.  `line` holds the frames (address bit and byte) of the packet being
transmitted by others; `Transmit` puts one there, `RxFrame` is the receive
interrupt for its first frame.  `Store` is the body of the interrupt: full test,
watchdog and endless loop (`pc = "hung"`), the byte, `check_complete`, MPCM.
The main loop is the program counter `pc`:

| `pc` | code |
|---|---|
| `boot` | start-up delays, interrupts already on |
| `poll`, `judge`, `decide` | `bus_status`: the count taken at the start of `check_complete`, the rest of it, the branch of main |
| `handle`, `done` | `current_packet`, the handler |
| `clear`, `advance`, `recheck` | the loop of `packet_done`, and `check_complete` at its end |
| `skip`, `skipped` | `skip_byte` |

The cuts are placed where an interrupt in between changes the outcome: after
`waiting` is counted, before the status is branched on, between clearing and
passing a byte, between resetting and recomputing the status.  The interrupt can
change neither index nor bytes in front, so finer cuts add no behaviour.

`BadHeader` chooses what the three main loops do on WRONG_CRC: skip a byte (pinpad), report
and skip (busmaster), nothing (hello world). `DisablesWatchdog` is FALSE for the busmaster,
which never clears WDRF and so starts with the watchdog still armed; `OverflowRecovers` is
about nodes that switch it off when they boot, as the pinpad does.  No run has `"ignore"`: a
stray byte in front stops that loop for good, which the mutant of `LossIsBounded` shows.
`current_packet` cuts its copy to the ring's size and keeps old bytes behind it; `handled`
records the byte the handlers look at first (`command`), which can be one of those.

`UartRxTrace` adds two histories, which no step looks at: `stored`, all bytes the
interrupt has put into the ring, and `places`, how many of them had been passed when
each packet was handled.  What is in the ring at a reset counts as passed.

### MessageQueue and PinpadQueue

`PinpadQueue` has the slots, two indices and the `uint8_t` counter.  A slot is
two cells, its header and its body, enough to say what a message that is too
long does: its end lands in the next header.  `take_next` is the `send` branch:
it sends and counts down without looking.  `QueueSpec` lets requests come at any
time, `PoliteSpec` only while `packetcnt > 0`.  `MessageQueue` is the abstract
promise; the refinement maps `queue` to the packets in the slots from `rb_next`
up to `rb_current`.

### Polling

The busmaster's loop, the line, and the bus branches of the pinpad, on top of
`PinpadQueue`.  Time is discrete, one tick is 5 ms; a `_delay_ms` is a timer,
and `Tick` is possible only when both programs wait and no packet is due, so
programs do not fall behind by the scheduler's whim.  Events on the same tick
happen in every order.

| model | code | ticks |
|---|---|---|
| `Pause` | `_delay_ms(25)` in both programs | 5 |
| `MasterPass` | `_delay_ms(10)` and the work around it, `busmaster/main.c:241` | 2 or 3 |
| `PingAt`, `AfterUdp` | `cnt++ == 50`, `cnt = 35` | passes |
| `PacketTime` | 10 to 18 frames of 286 us (38400 baud, 11 bit): up to 5.2 ms | 1 |
| `DoorTime` | `unlock_door` | 100 |
| `BootTime` | the start-up delays of the pinpad | 200 |
| `Stalls` | the time `handle_command` can take | 0 or 100 |

What the composition takes from `UartRx` is deliberately coarse: the pinpad
holds at most one packet, because its interrupt goes back to multi-processor
mode while the status is MESSAGE (`heard`); the busmaster's ring is a sequence,
`inbox`, and `MasterKeepsUp` shows that it never holds more than a packet and the
one behind it.  `PingWhenDue` has the reuse of `lbuffer`: a request formatted
in the same pass as a ping turns that ping into a `send` or into a mixture no
branch knows; `UartTx` shows this at the level of frames.  A packet sent while the
last one is being shifted out restarts `txwalk`.  Two transmitters at once spoil both packets.

A slot that a restart has cleared holds zeros, and zeros are a packet from 0 to 0 without
payload whose header sum fits (`Blank`).  It does not continue the burst of node 1, and
`current_packet` copies six bytes of it: what the busmaster reads behind them is what an
earlier packet left there.  `copy` is that payload.  If it is a pong, the busmaster takes
the packet for a pong of node 0, makes 0 the sender of the burst and sends `send` to
address 0, which nobody hears.  `Source`, `Payload` and `IsPong` are what the branches of
the busmaster see.

### UartTx

`send_packet` statement by statement, the transmit complete interrupt, and the
USART's buffer and shift register.  `UCSR0B |= ...` and `*txwalk++` are loads and
stores with the interrupt possible in between.  The packet is read from the
caller's buffer while it is sent: a byte is the *version* of the buffer and its
index, and `FillBuffer`, the next `fmt_packet`, may come at any time.  `overlap`
says that the last call came before the line was released.

### KeypadSerial, PinEntry, Eeprom

`KeypadSerial` is the interrupt that fills `serbuf` and the main loop that copies
it byte by byte (`Look`, `CopyByte`, `Release`, `HandleCommand`); the ninth byte is
data and flag at once.  `incoming` is how many bytes of the command of key `typed`
are still on the line; any of them may get lost.

`Eeprom` has the store as a function from addresses to bytes, the layout as
`ImageBytes`, given by what stands at each index, and the functions that read it with
their offsets as in the code.
An image is written in packets of any order and with repetitions; `CutShort`
is a power loss in the middle of a packet.  The bytes of a checksum name what it
was computed from, so different contents never share one; `TrivialBlocks` are
those whose CRC is 0 or 0xFFFFFFFF, which `verify_checksum` treats apart.

`PinEntry` extends `Eeprom` with `handle_command`: the digits, the six overlapping
comparisons in their order, the messages, and the signed packing of `*`.

### BusCommands, Debounce, Capture

`BusCommands` has the static packet as a memory of characters that a short payload leaves
partly old.  `Debounce` has a step for every read of the volatile `PINB`, the one for the
announcement among them, which tells PB0; an announcement fails when the buffer for packets
is full or the captured value is in no window ("SRAW bork").  The answers to the bus command
`status`, which tell PB0 undebounced, are left out.  `Capture` computes with the real 16-bit
widths; the main loop's two reads of `pwmvalue` may be in either order, as the compiler
likes.

### Enc28j60

Controller and driver.  The controller stores frames, raises flags and ends
transmissions between any two steps of the driver; its ring, write pointer,
packet counter and filter are what the driver's comments and register accesses
take them to be.  `encpc` is the place in `network_process`, `process_packet` or
`transmit_packet`.  `Reach` is what one access to a bank makes of the controller's bank
and of the driver's cache `enc28j60_current_bank`; a step that accesses several banks
applies it several times, and `Access` is a step with one.  `waiting` is the history of the
frames that are stored and not yet handed up.

### EthFrames, InetChecksum

`EthFrames` keeps `uip_buf` as a record of its fields, named after their offsets.
Each sender is a function from buffer to buffer, as in the code: `raw_send`,
`syslog_send`, `start_icmpv6_reply`, `finish_icmpv6_reply`, `restored`.  One action
is one pass of the main loop, with every combination of what can come in.  The length of a
neighbour solicitation is an input (`SolicitationLengths`): the code never checks it.
`InetChecksum` has an action for a round of the loop in `chksum`, in the two calls that
are made of it; `added` is the history of the sum as it would be without wrapping.

### ResetCard, Gateway, GatewayHttp

`ResetCard` is the interrupt that fills `eth_to_rs` and the steps of the parser; `rpc` is
where it is.  A byte is its character, the number of its command and its place there, so
that a packet composed of two commands is visible; the parser sees the character alone.
`cut` and `crowded` are the commands that lost a byte and those that came together with
another or while one was handled or complained about: the debug output about a bad command
goes out byte by byte on the same line before the index is set back (`rpc = "complain"`), so
bytes may come freely meanwhile.  A payload of more than `Room` characters is copied over
what follows `lbuffer` (`Overrun`); the model ends there.  The byte in front of the array is
read when the index is 0 and is taken to be anything.  `Gateway` is the other direction:
`readbuffer` and the bytes of packets, each byte of whose content (checksums and payload)
may be `$` or `^`; which clients read a group (`%groups`) and the file `/tmp/laststat`
(`nemogw.pl:199-214`) are left out.  `GatewayHttp` has, for every client, what its handle
waits for; a callback that does not register itself again ends the reading.  `$tcp_conn` is
undefined until the connection to the busmaster is there; a body that comes before dies in
its callback, and either the event loop goes on or the program ends.

### Crc32, Xtea

`Crc32` has an action for a round of the loop, on sets of bits, in the real width, on
the real image that `poc-pinstore/verifypin.c` writes, and compares with the checksums
in it.  Noise flips bits before they are read; `flipped` and `clean` are the history:
which bits, and what the register would be without.
`Xtea` takes an action for every round, and a step each for taking a chunk out of the
buffer and putting it back.  The key, `delta` and the number of values of a byte are
constants; a word has four bytes.  Exclusive or is written with quotients and remainders.

## 3. The runs

| run | states | asks |
|---|---|---|
| UartRxBusy | 129 667 | packets while earlier ones are handled: whole, handled once and in order, overflow recovers |
| UartRxErrors | 298 760 | senders that wait, with other nodes' packets in between, and at most one framing error in the real ring of 32: everything is handled, an error costs at most two packets, no overflow, a whole packet is always reported |
| UartRxMaster | 5 774 607 | the inductive invariant and the ring as a queue, in the busmaster's configuration, with no timing assumption and a wrong byte |
| PollingHeal | 551 638 | jitter and a restart at any time: counter and indices stay in step, and the buffer is empty in the end |
| PollingStall | 466 862 | three messages, jitter, and one stall of half a second at any time: requests are polite, and without the stall every message reaches the Ethernet |
| PollingUdp | 1 878 157 | door commands, and one lost packet anywhere: polite, in order, the busmaster keeps up |
| Pinpad | 225 022 | the parts of the pinpad, see below |
| Ethernet | 326 740 | controller and driver, frames, checksum, transmitter, see below |
| Gateways | 2 378 027 | reset card, gateway, HTTP clients, CRC, XTEA, see below |

`QueueSpec`, with requests at any time, has no run of its own: PollingHeal is
where such requests occur, and `CountersAgree` proves its property.

| property | run | says |
|---|---|---|
| `HandledOnce` | UartRxMaster | what is handled are bytes the interrupt stored, one behind the other; no byte is handled twice, out of order or from a slot that holds another, with fragments, a wrong byte and overflows |
| `KeysArrive` | Pinpad | keys are handled in order and once; a lost byte costs two keys at most and makes up one at most |
| `AcceptedIfWhole` | Pinpad | `verify_checksum` accepts a store exactly when one image is there as a whole, through lost packets, repetitions and power losses, and the search finds its PINs and no others |
| `BroadcastTellsImage` | Pinpad | the checksum that is broadcast tells which image is stored, up to 170 PINs |
| `DoorObeysKeys` | Pinpad | the lock does what the keys since the last `#` mean, whatever was typed before and whatever state the store is in |
| `DoesWhatItSays` | Pinpad | a packet does the command it starts with; a shorter one only what it and earlier packets say together |
| `ChangesAreAnnounced` | Pinpad | the pin as all samples show it was announced, a bounce was not, unless the port changed within a pass or the announcement failed |
| `ReportIsOldOrNew` | Pinpad | the torn read of `pwmvalue` never names a third state |
| `CountIsPending`, `IsMessageQueue` | Pinpad | with polite requests the ring of slots is a FIFO queue and its announced length exact |
| `FramesInStep` | Ethernet | frames come up whole, in order, once; pointer and counter agree; no room is lost |
| `BankIsRight` | Ethernet | no access reaches a register of another bank |
| `SpoiltOnlyIfBusy` | Ethernet | a frame is dropped or cuts off another only after as many busy reads as are allowed |
| `FramesAreWellFormed` | Ethernet | every field of every frame, whatever was sent before from the same buffer; the checksum of an advertisement exactly when the solicitation had 32 bytes |
| `ReceiverAccepts` | Ethernet | the receiver's sum over the frame comes out right, with and without odd bytes |
| `PingsContinueWhenFrames` | Ethernet | UDP packets that leave 16 passes in between do not keep the busmaster from pinging (liveness) |
| `PacketIsWhole` | Ethernet | a packet leaves from its first byte to its last, the address bit on the first alone |
| `DriverCoversFrames`, `LineIsReleased` | Ethernet | the line is driven while frames leave and released in the end, whatever calls overlap (the latter liveness) |
| `SentWasGiven`, `LostForAReason` | Gateways | what the reset card sends was given to it whole, in order and once, but for what lost a byte and can be misread; what it does not send lost a byte or was crowded; both until a payload overruns `lbuffer` |
| `FaultsAreBounded` | Gateways | a `$` within a packet or a byte lost on the line costs two packets and makes up two at most |
| `AnswersAreTrue` | Gateways | one HTTP answer at most, and 200 exactly when the packet was written to the participant named last, while the connection stands |
| `CrcTellsFlips` | Gateways | the CRC of the sample image is the one in it, and detects every flip of up to two bits in its first block and of one bit anywhere |
| `DecipherUndoesEncipher` | Gateways | for the sampled fillings |

Runs that show a disagreement between code and documents:

| run | what TLC finds |
|---|---|
| UartRxForeign | a packet for another node is handled when it starts while the node still listens (`README:70-71`) |
| PinpadQueueLong | `VF 123456 OK` is longer than its slot (`firmware-pinpad/main.c:58-60`) |
| PollingRestart | after a restart the pong announces 255 packets (`README:57-58`) |

Seen on the way, without a run of its own:

* `busmaster/main.c:246` pings whether the bus is free or not.  An answer that
  the pinpad sends late, after a stall, collides with the next ping, and the message
  is gone: the pinpad has already taken it out of its buffer.  `README:61`
  says that it is fetched and sent on.  `EveryMessageForwarded` is therefore
  about a pinpad that neither stalls nor restarts, and a line that loses nothing.
* `lib/uart.c:95` promises that a complete packet in the ring is reported.
  `CompleteIsReported` holds for senders that wait (UartRxErrors); with
  `Paced = FALSE` TLC finds a complete packet that is not reported because a
  byte of the next one is behind it.
* `README:10-12` says that bytes for others raise no interrupt.  Address bytes
  do, and are stored; six of them can form a header whose checksum fits.
* `README:35` allows packets of 32 bytes; the ring of 32 slots holds 31.
* The ping interval of one second in the README is 51 passes of 10 ms or more;
  its 15 ms for the answer is a fixed 25 ms delay.
* The fallback code `777#` never opens: it is compared only when seven characters
  were typed (`firmware-pinpad/main.c:426`), and it has four.
* `calculate_eeprom_checksum` announces more than 170 PINs as an empty store,
  and `verify_checksum` has no such limit.
* A level of the door sensors that changes between two reads of one pass can go
  without an announcement until it changes again; `torn` marks these passes.  So can one
  whose announcement failed, because nobody looks at what `senddata` returns and nothing
  tries again; `untold` marks these.
* A `send` that reaches the pinpad after a restart is answered with a packet of zeros.
  With an old pong in its static copy the busmaster takes that for a pong of node 0
  (`busmaster/main.c:264-286`, `lib/uart.c:198-209`).  `Drained` shows that the buffer is
  emptied all the same.
* A neighbour solicitation without the link-layer option has 24 bytes; the checksum of its
  answer is started with that length, although the answer has 32 (`icmpv6.c:64`), and the
  host will drop it.
* The answer to an echo request is two bytes longer than the request.
* `enc28j60_process.c:76`: flags of the controller are looked at only while a
  frame waits, so a link change or a receive error waits for the next frame.
* `enc28j60_transmit.c:32-41`: the counter passes zero, so a transmitter that
  stays busy is taken for free, and one that gets free in the last round for
  busy.  `SpoiltOnlyIfBusy` says that neither happens sooner.
* `enc28j60.c:288-289` speaks of half duplex and sets FULDPX.
* The reset card sends a command that lost a byte when the next one follows so
  closely that its length fits: its `$` then stands for the lost byte.  It also does
  when a digit of the destination or of the length is lost and the payload begins with a
  digit, or is one character long: the length read from the wrong place can come out
  right.  These are the two exceptions in `SentWasGiven`.
* A command that announces more than 26 characters overruns the reset card's `lbuffer`
  (`busmaster-resetcard/main.c:28,334`).
* A next command that comes while the reset card writes debug output about a bad one is
  lost with it: the index is set back behind the output.
* A packet with a `$` among its bytes and a `^` behind it reaches the gateway's readers as
  two packets that nobody sent.
* A stream of UDP packets denser than `UdpGap` keeps setting `cnt` back to 35 and
  the busmaster never pings.
* The gateway answers `200 Packet sent` after its connection to the busmaster broke, dies of
  a body that comes before the connection is there, and sends a request with a
  Content-Length but without a participant to `00`.
* `lib/crypto.c` shifts a byte by 24 bits, which is undefined where `int` has 16
  bits; no firmware links it.

### Bounds

* `UARTBUF`: 16 where packets are counted in halves of the ring (two packets of
  seven bytes fill it, so overflow happens within three), 32 where the size is
  the question.  `MaxSent` of 3 to 5 is enough for a packet in each phase of
  handling another, and for an overflow and a packet after the restart.
* Packets: two for the node, with different lengths, and one for or of another.
* `Slots = 4` instead of 32: the counter's 256 is a multiple of both, three
  messages fill it.  The proofs cover 2 to 32.
* `MaxMessages`, `MaxUdp`, `MaxLosses`, `MaxStalls`, `MaxRestarts` of `Polling`: two
  messages make a burst and a third one arrives during it in PollingStall, with a stall
  at every moment of it; two messages, two door commands and a loss at every moment in
  PollingUdp; one message and a restart at every moment in PollingHeal, which is enough
  for a request that outlives the restart, a count of 255, and as many blank slots as
  it takes to bring the count back to 0.  Delays are the real ones.
* Pinpad: five keys with one lost byte, so that the interrupt falls out of step
  and back in; PINs of two digits in blocks of two, images of two and three
  PINs, so that one block is full and one is filled up, two images one after the
  other and a power loss; a limit of 2 instead of 170, with an image beyond it; three
  samples instead of ten, two pins; packets that are commands, their beginnings, or longer.
* Ethernet: a ring of six words that three frames overflow and wrap; frames of
  one to three words, one of which is too large; two polls for the transmitter
  instead of 100; two bus nodes, two bus packets per ping, one echo length; the pass
  counter with its real 50 and 35; a byte of 4 values, addresses of 4 bytes and
  datagrams of up to 5 in the checksum, so that words carry in every way and a byte is
  left over; packets of three and five bytes, three calls.
* Gateways: three commands with three payloads (one character, a digit in front, one too
  long for the `Room` of 2 instead of 26), one of which loses a byte, and a buffer of 13 bytes
  instead of 127, which two commands wrap; four packets of six bytes with any two bytes of
  content, up to three bytes lost, and a length limit of 11 instead of 125, which three
  packets run together exceed; two clients with four lines each; CRC flips of up to two
  bits; bytes of 16 values, so words of 16 bits, with the low halves of `delta` and of the
  key, and four fillings of two chunks for XTEA.

### Assumptions

* `Prompt`: from one slow place (delays, handlers, the work between polls) to
  the next the main loop needs much less than the 286 us of a frame, so at most
  one frame arrives on the way.  UartRxMaster and the proofs do without it.
* `Paced`: senders wait until the node has handled the last packet.  It is used
  only where a property is about such senders; UartRxBusy does without it.
* UartRxErrors is about detected framing errors.  A byte that changes unseen can
  leave the node out of step until its ring overflows and the watchdog restarts
  it; only the invariant is claimed for it.
* One node on the bus of `Polling`.  It starts with the pinpad running; starting
  together is a `Restart` in that state.
* `UartTx`: the compiler keeps the order of the assignments to `txwalk` and
  `txcnt`, which are not volatile; a frame takes longer than `send_packet`, and two
  calls are more than a frame apart, because the callers delay.
* `Enc28j60`: the controller is not in the repository.  It is modelled as the driver
  takes it to be, external in the map.  The same holds for the keypad, the lock,
  the line between reset card and gateway, and the EEPROM cell.
* `EthFrames`: neighbour solicitations have 24 bytes or 32, with the link-layer option (the
  proof is for any lengths), echo requests at least 8.
* `Capture`: a pulse is off by at most 243 ticks of a multiple of 3855; the two
  bytes of a torn read can then not make up a third multiple (`Jitter`).
* `ResetCard`: at 9600 baud at most one byte arrives between a look at the buffer and the
  packet or the first debug output made of it.  Payloads hold neither `^` nor `$` nor NUL,
  have fewer than 100 characters and fit the buffer with what is around them.  A command
  loses one byte at most; then the first of two characters that are read as a number is
  always a digit, and what else `sscanf` takes does not matter.
* `Eeprom`: two contents in use never have the same CRC.  `CrcTellsFlips` is the
  part of that that can be checked: contents that differ within 32 bits never have.

### Fairness

* `UartRx`: main runs while the interrupt does not hang, a frame that was begun
  arrives, an armed watchdog fires.  Nothing forces anyone to transmit.
* `Polling`: time passes and programs run; one condition on the disjunction
  suffices because `Tick` is off while anything is due.  Nothing forces keys,
  UDP packets, losses or restarts.
* `UartTx`: the USART finishes a frame, a pending and enabled interrupt is
  taken, a call that has begun goes on.  Nothing forces a call.
* `EthFrames`: the main loop goes on; nothing forces a request or a packet.

## 4. The proofs

TLAPS checks every theorem below for all values of the constants that the named ASSUMEs of
the modules allow; TLC evaluates these in the runs.  They say what the code gives (sizes,
codes, layouts) or repeat an assumption of section 3, and only some theorems need more,
where it is said: some about the packet buffer (polite requests, short messages, no
restart), some about the receiver (senders that wait, no disturbed frame) and the one about
the CRC (flips within 32 bits).  Bounds on what happens (`Max...`) are arbitrary numbers in
all of them.  None of the properties is inductive as it stands; each section names the
invariant that is, and why it is needed.

| property | theorem | module |
|---|---|---|
| `UartInv` | `UartInvariant` | UartRxProofs |
| `MessageIsWhole` | `HandledPacketIsWhole` | UartRxProofs |
| `ReadStaysBehindWrite` | `ReadNeverPassesWrite` | UartRxProofs |
| `HandledOnce` | `PacketsAreHandledOnce` | UartRxProofs |
| `NeverHung` | `RingSuffices` | UartRxProofs |
| `CompleteIsReported` | `PacketsAreReported` | UartRxProofs |
| `HandledWasSent` | `HandledPacketsWereSent` | UartRxProofs |
| `DriverCoversFrames` | `LineIsDriven` | UartTxProofs |
| `PacketIsWhole` | `PacketIsSentWhole` | UartTxProofs |
| `CountMatchesIndices` | `CountersAgree`, `CountersAgreeUnderProtocol` | PollingProofs |
| `CountIsPending` | `AnnouncedIsWaiting` | PollingProofs |
| `IsMessageQueue` | `QueueRefinement`, `BufferIsQueueUnderProtocol` | PollingProofs |
| `MasterKeepsUp` | `BusmasterKeepsUp` | PollingProofs |
| `RequestsArePolite` | `RequestsFindAPacket` | PollingProofs |
| `ForwardedInOrder` | `MessagesComeInOrder`, `MessagesStayInOrder` | PollingProofs |
| `KeysArrive` | `KeysPassTheLine` | PinpadProofs |
| `AcceptedIfWhole` | `StoreIsWhole` | PinEntryProofs |
| `BroadcastTellsImage` | `BroadcastTells` | PinEntryProofs |
| `DoorObeysKeys` | `DoorIsObedient` | PinEntryProofs |
| `DoesWhatItSays` | `PacketsAreObeyed` | PinpadProofs |
| `ChangesAreAnnounced` | `SensorsAreAnnounced` | PinpadProofs |
| `ReportIsOldOrNew` | `ReportIsTold` | PinpadProofs |
| `BankIsRight` | `AccessesAreDirected` | EthernetProofs |
| `SpoiltOnlyIfBusy` | `SpoiltAfterTheFullWait` | EthernetProofs |
| `FramesInStep` | `FramesComeInStep` | EthernetProofs |
| `FramesAreWellFormed` | `FramesAreKept` | EthernetProofs |
| `ReceiverAccepts` | `ChecksumsAreAccepted` | EthernetProofs |
| `SentWasGiven` | `ResetSendsWhatWasGiven` | GatewayProofs |
| `LostForAReason` | `ResetLosesForAReason` | GatewayProofs |
| `FaultsAreBounded` | `FaultsCostTwo` | GatewayProofs |
| `AnswersAreTrue` | `ClientsAreToldTheTruth` | GatewayProofs |
| `CrcTellsFlips` | `CrcTellsBursts` | AlgorithmProofs |
| `DecipherUndoesEncipher` | `DecipheredIsPlain` | AlgorithmProofs |

### Receiver: UartRxProofs

For every ring size above a header, every set of packets, any wrong byte, and no
timing assumption.  That `handle` sees a whole packet depends on `status`, which the
interrupt and the main loop both write, the latter from a count that is old.  So
`UartInv` says in addition what each status means between two polls (`message`: a whole
packet in front; `wrong_crc`: at least a header) and that the count being judged never
exceeds the real one.  The interrupt preserves it because it writes only behind the
bytes waiting (`HeaderIsStable`, `FrontSurvivesStore`); `check_complete` because an old
count that equals the length is at most the bytes there are (`CheckComplete`).

`TraceInv` makes a queue of the ring, as generally, whatever is on the line: the bytes
that wait are the last ones stored, in their order, but for the one that `packet_done` has
just cleared (`RingHasTrace`).  The packets handled so far end at `Spent`, which runs ahead
of `uartread` while a packet is discarded; so the next one begins behind it
(`PacketsAreHandledOnce`).  `UartInv` is needed for it: were a length longer than what waits,
`uartread` would pass `uartwrite`, and the old bytes of the ring would wait once more.

The other theorems about the receiver are for `CourteousSenders` and until the first
disturbed frame.  The senders wait until the node rests (as in UartRxErrors, and as the
protocol makes them do when nobody is late), their packets are well formed and fit in
the ring behind five more bytes, and `NoFalseHeader`: address bytes of other nodes, alone
or with the beginning of a packet behind them, have no valid header checksum.  The packets
of UartRxErrors satisfy all of it.  A node in multi-processor mode stores the address byte of
every packet on the line, up to six of them before the status becomes `wrong_crc` and
`skip_byte` passes them one by one, while the next packet may already arrive behind them.
So `CleanInv` says what is in the ring: such bytes, then the part of the current packet that
has arrived, or nothing of it when the node filters it or has handled it; and `Noticed`
says that the status is true of the ring except where main has changed the one and
not yet the other (after `skip_byte` moved the index, and before the check behind it).  One
detail decides whether a packet is lost there: a byte that arrives after `check_complete`
has counted is judged by the interrupt, which runs the same check on the new count, and
the older count cannot take back what it found.  No assumption on the speed of main is
needed.  `HandledPacketsWereSent` also needs that all packets are for this node: after
a packet behind other nodes' bytes, main and not the interrupt finds it complete, the
filter stays off, and the next packet is handled whomever it is for (UartRxForeign).

### Transmitter: UartTxProofs

For any lengths of packets and any number of calls, however they overlap.  The
interrupt that finds `txcnt = 0` releases the line.  `DriverInv` says when it cannot
come: one that is due while a frame is shifted out finds a byte to send, and one that
could come between turning on the driver and writing the first byte does, too.
`WholeInv` is about a call that found the line released: what has left is a beginning of
its packet, `txwalk` points behind it, and `txwalk + txcnt` is the packet's end at
every instruction where the two can be seen together.

### Packet buffer and protocol: PollingProofs

The buffer alone, for 2 to 32 slots: counter and indices agree modulo the size whatever
is requested; while nobody requests from an empty buffer (`PoliteSpec`) the announced
number is exact, because below 256 the congruence is an equality; and when no message
is longer than its slot (`LongMessages = {}`), `PoliteSpec` implements `MessageQueue`.

The protocol, for any delays, losses and restarts: `PollSpec => QueueSpec`
(`BufferUnderProtocol`), so what holds of the buffer holds under the protocol.

`TalkInv` says what keeps a protocol without numbers and without arbitration together:
there is one conversation at a time (`OneConversation`).  A ping or request on the line,
one that the pinpad has not answered, an answer on the line, and a packet behind the one
the busmaster handles exclude one another, because a packet that is sent spoils the one on
the line and the pinpad is deaf while it has something to answer.  That alone is not
inductive: a ping sent in the pass that finds a packet could be answered while the
busmaster waits with its request, and the request would open a second conversation.
`NoAnswerYet` rules it out: the pinpad waits as long before an answer as the busmaster
before a request (`Pause`), and the ping is on the line for a while (`PacketTime > 0`), so
the request comes first and is not heard.  No other delay matters, neither the stalls of
the pinpad nor the time between pings.  `MasterKeepsUp` follows.

`CountsInv`, until the pinpad restarts: what an unhandled pong announces, and what the
busmaster counts on (the rest of the burst and the request under way, `Due`), does not
exceed the packets that wait.  So each request the pinpad answers finds one
(`RequestsFindAPacket`), the buffer under the protocol is the abstract queue
(`BufferIsQueueUnderProtocol`); a restart, as in PollingRestart, is the only thing that
breaks this.

`TrailInv` follows a message through the pinpad's buffer, the line, the busmaster's
ring and `forwarded`: read in this order they hold messages in the order they were
accepted, none twice.  `MessagesComeInOrder` has it while requests are polite,
`MessagesStayInOrder` until the pinpad restarts, both for messages that fit
(`LongMessages = {}`; PinpadQueueLong shows what the code does otherwise).

### Keypad line: PinpadProofs

For any number of keys and of lost bytes.  `KeypadInv` has five parts: types; `Handover`,
what the ninth byte as a flag says about the two copies of a command; `Ordered`, the
keys in `serbuf`, `bufcopy` and `handled` are in order; `ZerosPaid`, each frame that is no
command costs a lost byte of its own; `MissingPaid`, two keys may be missing for a lost
byte.  The last one is what is hard: a lost byte may strike a second key long after it
was lost, so the invariant counts what is still due: a frame that the interrupt
collects is either in step with the command on the line (`InStep`), or it has strayed,
and then a byte that has not been paid out yet is to blame.

### PIN store and PIN entry: PinEntryProofs

For every size of PINs, blocks, checksums and packets, images of 1 to 180 PINs, any codes
of digits that the ASSUMEs describe.  `EepromInv` says that the first byte of the
store is erased or belongs to the checksum of an image, and that each acknowledged packet
of the current image is in its place.  The rest is layout: where block `b` and PIN `n`
of an image are, by division and remainder, and that `verify_checksum`, `search_pin` and the
broadcast, with their own offsets, read just there.  A store whose first checksum fits
is then one image as a whole (`StoreIsWhole`), whatever was written or cut off before.
`StoreUnderEntry` shows that the PIN entry implements the store's specification, so this
holds while people type.  `EntryInv` relates `pin` to `keys`: they are equal as long as
they fit, and `pin` is full otherwise; then no comparison of `handle_command` can succeed.
Together they give `DoorIsObedient`, an action property.

### Bus commands, sensors, lock: PinpadProofs

`CommandsInv`: every byte of the packet's memory was sent at its place since the restart,
and the last payload stands in front; so a command that matches was sent, or its beginning
was and earlier packets left the rest.  `DebounceInv`: what a pass has compared are levels
it has read; so a comparison that succeeds everywhere is about one level unless the port
changed within the pass, and the announcement, if it is made, tells it.  `CaptureInv`: the
value captured is near the multiple of the last pulse, and the byte read first is near that
of a pulse seen during the read.  With multiples up to 16 of 3855 ticks, a jitter of up to
243 and any counter values, a mixture of two bytes is off by less than 500 and cannot be
taken for a third state.  The widths and wraps are the real ones.

### Ethernet: EthernetProofs

`BankInv`: cache and chip agree between two steps of the driver, whatever banks the
step goes through and although a reset changes the chip's alone.  `WaitInv`: rounds of
the wait and `timeout` add up to `Timeout`, up to 255; it is what makes the passage
through zero harmless.  `RingInv`: there are places `b`, counted in words and without
wrapping, at which the frames that wait are stored one behind the other; controller and
driver have the first and the last of them, and the counter is their number.
Without the places that do not wrap, a full ring and an empty one look the same.
`FramesInv`: whatever the last frame was, the fields that the next one does not write
are as it needs them, for any order of answers, packets of the bus and own messages.
`ChecksumInv`, for datagrams of any length and bytes of any size: `added` is `sum` and some
number of times all ones, because a carry that is brought round is a wrap that took all
ones and one away, and one is put back.  The complement is what is missing to the next
multiple of all ones; zero and all ones are the same to the receiver, so the
complement that may not be zero is as good.

### Reset card and gateway: GatewayProofs

`ResetInv`, for any payloads, any number of commands, any commands that lose a byte and any
length of the buffer, until a payload is too long for `lbuffer`: what is still on the way is
the end of all the bytes of all the commands, so it is known of each command how many of its
bytes have passed; the buffer begins with those of one command that is not sent yet, without
the lost one; only a command that others pressed has more behind it; what the parser has
read so far agrees with it; and a command that lost nothing and that nobody pressed is in
the buffer or sent.  The interrupt may come between any two reads of `eth_to_rs_cnt`, and
behind the end of a full buffer it starts again, so the invariant has a case of its own for
a buffer that wrapped while it was parsed: its length then fails the test. `LengthMisread`
is where the two exceptions of `SentWasGiven` come from.

`GatewayInv` says what buffer and stream make of each other: either they are one packet
(`Undisturbed`), or the packet on the way is lost and what its end makes of the buffer
is paid for (`Disturbed`), or no packet is on the way (`Between`); and it counts what the
faults so far may still cost and make up (`MayLose`, `MayInvent`); once a packet is lost,
each `$` still to come of it may make up another one (`Dollars`).  `HttpInv` says of
each client that one whose handle still waits has no answer, that none but the answer
200 goes with a packet, and that 200 does while the connection stands.

### CRC and XTEA: AlgorithmProofs

`CrcInv`, for data of any length: as long as all flips are within 32 bits, the register and
the clean one are different from the first flip on.  That alone is not inductive, because a
flip could make them equal again.  `HighBitIsWrong` rules it out: a wrong bit comes down
one place in a round, or it is shifted out and makes bit 31 wrong anew (bit 31 is in the
polynom); a flip works on bit 0, where the first one has not come down to before 32
rounds.  Later, data without flips keep different registers different (`DifferentStays`).
So noise that flips any number of bits within 32 is noticed (`CrcTellsBursts`).
`ImageFits`, the condition of the theorem, says that the CRC stored with the data is theirs,
which TLC checks for the image in the repository.

`XteaInv`, for any key, any `delta`, any number of chunks and any contents: the words after
so many rounds of enciphering are a sequence that each chunk has from its contents
(`TraceOf`), and deciphering walks it backwards, from the same sum and through the same
values of it.  That exclusive or gives words is the only fact about it that is needed.  That
such a sequence exists for 32 rounds is shown with `SetInduction`, induction over a set
of numbers from the library's theorem about well-founded relations.

### Only model-checked

* `HandledWasSent` for senders that do not wait (UartRxBusy): that fragments of packets
  never look like one is true of the packets of the run and not of all; `NeverHung` and
  `CompleteIsReported` after a framing error (UartRxErrors), for the same reason.
* `CrcTellsFlips` for two flips that are farther apart than 32 bits: how far depends on
  the order of the polynom, which only computing shows.
* All liveness: `OverflowRecovers`, `LossIsBounded`, `Drained`, `EveryMessageForwarded`,
  `PingsContinueWhenFrames`, `LineIsReleased`.

## 5. Not modelled, and what is left

Not modelled:

* `lib/uart2.c`, debug and status output: busy waiting output, no state.
* The bytes on the SPI lines, MAC and PHY configuration, `enc28j60_periodic` and
  the dump functions, which nobody calls.
* Beeps and lights of the pinpad; `get_state`, which nobody calls.
* The reset card's own copies of the Ethernet code, disabled by `#if 0`, and its
  polling loop and bus UART, which are copies of the busmaster's.
* `Busmaster.pm` and its handlers (a web server that publishes each UDP packet and
  keeps nothing), `application/` (a client library and a script that prints).
* Boards, scripts, Makefiles.

Left for later: errors of the CRC beyond 32 bits, which need the algebra of polynomials, and
`HandledWasSent` for senders that do not wait, for a set of packets whose fragments are
shown not to look like one (`HandledOnce` says what holds without that).
