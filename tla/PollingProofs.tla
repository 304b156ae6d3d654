--------------------------- MODULE PollingProofs ---------------------------
(***************************************************************************)
(* The polling protocol, and the pinpad's packet buffer under it.          *)
(*                                                                         *)
(* The buffer: what it guarantees for every size it may have and every set *)
(* of messages, whoever calls it.  The arithmetic of its three counters,   *)
(* each with its own modulus, is in the lemmas at the start.               *)
(*                                                                         *)
(* The protocol, for any delays, losses and restarts: its buffer is that   *)
(* one, at most one conversation is going on, and while requests find a    *)
(* packet waiting, the messages stay in order from the buffer to the       *)
(* Ethernet.  Until the pinpad restarts, requests do find one.             *)
(***************************************************************************)
EXTENDS Polling, SequenceTheorems, TLAPS

-----------------------------------------------------------------------------
(* The packet buffer *)

\* The sizes a buffer can have: powers of two, so that 256 is a multiple.
Sizes == {2, 4, 8, 16, 32}

LEMMA SlotsIsSize == Slots \in Sizes /\ Slots \in Nat /\ Slots > 1
  BY QueueAssumption DEF QueueAssumption, Sizes

\* Stepping an index keeps it inside the buffer.
LEMMA NextSlotInRange == ASSUME NEW i \in Slot PROVE NextSlot(i) \in Slot
<1>1. Slots \in Sizes
  BY SlotsIsSize
<1> QED
  BY <1>1, SMT DEF Sizes, Slot, NextSlot

\* The distance between the indices grows by one, modulo the size, when the
\* writer steps, and shrinks by one when the reader does.
LEMMA WriterStep ==
  ASSUME NEW c \in Slot, NEW n \in Slot
  PROVE  (NextSlot(c) - n) % Slots = (((c - n) % Slots) + 1) % Slots
<1>1. Slots \in Sizes
  BY SlotsIsSize
<1> QED
  BY <1>1, SMT DEF Sizes, Slot, NextSlot

LEMMA ReaderStep ==
  ASSUME NEW c \in Slot, NEW n \in Slot
  PROVE  (c - NextSlot(n)) % Slots = (((c - n) % Slots) - 1) % Slots
<1>1. Slots \in Sizes
  BY SlotsIsSize
<1> QED
  BY <1>1, SMT DEF Sizes, Slot, NextSlot

\* Counting modulo 256 and then modulo the size is counting modulo the size.
LEMMA CountUp ==
  ASSUME NEW p \in 0 .. 255
  PROVE  ((p + 1) % 256) % Slots = ((p % Slots) + 1) % Slots
<1>1. Slots \in Sizes
  BY SlotsIsSize
<1> QED
  BY <1>1, SMT DEF Sizes

LEMMA CountDown ==
  ASSUME NEW p \in 0 .. 255
  PROVE  ((p - 1) % 256) % Slots = ((p % Slots) - 1) % Slots
<1>1. Slots \in Sizes
  BY SlotsIsSize
<1> QED
  BY <1>1, SMT DEF Sizes

-----------------------------------------------------------------------------
(* The invariants *)

\* fmt_packet writes into slots of the buffer, or into the cell behind it.
LEMMA WrittenType ==
  ASSUME QueueTypeOK, NEW i \in Slot, NEW m \in Messages
  PROVE  Written(i, m) \in [0 .. Slots -> [head : Bytes, body : Bytes]]
<1> DEFINE Cell == [head : Bytes, body : Bytes]
           both == [head |-> HeaderOf(m), body |-> HeaderOf(m)]
           own == [rbuffer EXCEPT ![i] = both]
<1>1. HeaderOf(m) \in Bytes /\ EndOf(m) \in Bytes
  BY DEF Bytes
<1>2. both \in Cell
  BY <1>1
<1>3. i \in 0 .. Slots /\ i + 1 \in 0 .. Slots
  BY SlotsIsSize DEF Slot
<1>4. own \in [0 .. Slots -> Cell]
  BY <1>2, <1>3 DEF QueueTypeOK
<1>5. CASE m \in LongMessages
  <2>1. own[i + 1] \in Cell
    BY <1>3, <1>4
  <2>2. [own[i + 1] EXCEPT !.head = EndOf(m)] \in Cell
    BY <2>1, <1>1
  <2>3. [own EXCEPT ![i + 1].head = EndOf(m)] \in [0 .. Slots -> Cell]
    BY <2>2, <1>3, <1>4
  <2> QED
    BY <2>3, <1>5 DEF Written
<1>6. CASE m \notin LongMessages
  BY <1>4, <1>6 DEF Written
<1> QED
  BY <1>5, <1>6

LEMMA EmptyType ==
  [i \in 0 .. Slots |-> [head |-> Nothing, body |-> Nothing]]
    \in [0 .. Slots -> [head : Bytes, body : Bytes]]
  BY DEF Bytes

\* What every reachable state satisfies, and what it satisfies when requests
\* are polite.
QueueInv == QueueTypeOK /\ CountMatchesIndices
PoliteInv == QueueInv /\ CountIsPending

\* The buffer has room for one packet less than it has slots: when it is not
\* full, the number of waiting packets can grow without wrapping.
LEMMA RoomForOne ==
  ASSUME NEW c \in Slot, NEW n \in Slot, NextSlot(c) # n
  PROVE  ((c - n) % Slots) + 1 < Slots /\ (c - n) % Slots \in Nat
<1>1. Slots \in Sizes
  BY SlotsIsSize
<1> QED
  BY <1>1, SMT DEF Sizes, Slot, NextSlot

LEMMA InitHolds == QueueInit => PoliteInv
<1> SUFFICES ASSUME QueueInit PROVE PoliteInv
  OBVIOUS
<1>1. QueueTypeOK
  BY EmptyType, SlotsIsSize DEF QueueInit, QueueTypeOK, Slot
<1>2. (0 - 0) % Slots = 0 /\ 0 % Slots = 0
  BY SlotsIsSize
<1> QED
  BY <1>1, <1>2 DEF QueueInit, PoliteInv, QueueInv, CountMatchesIndices, CountIsPending, Pending

LEMMA SendDataKeeps ==
  ASSUME QueueInv, NEW m \in Messages, senddata(m)
  PROVE  QueueInv' /\ (CountIsPending => CountIsPending')
<1> USE DEF QueueInv
<1>1. CASE NextSlot(rb_current) = rb_next
  BY <1>1 DEF senddata, queueVars, QueueTypeOK, CountMatchesIndices, CountIsPending, Pending
<1>2. CASE NextSlot(rb_current) # rb_next
  <2>0. rb_current \in Slot /\ rb_next \in Slot /\ packetcnt \in 0 .. 255
    BY DEF QueueTypeOK
  <2>1. /\ rbuffer' = Written(rb_current, m)
        /\ rb_current' = NextSlot(rb_current)
        /\ packetcnt' = (packetcnt + 1) % 256
        /\ rb_next' = rb_next
    BY <1>2 DEF senddata
  <2>2. QueueTypeOK'
    <3>1. packetcnt' \in 0 .. 255
      BY <2>0, <2>1
    <3>2. rb_current' \in Slot
      BY <2>0, <2>1, NextSlotInRange
    <3>3. rbuffer' \in [0 .. Slots -> [head : Bytes, body : Bytes]]
      BY <2>0, <2>1, WrittenType
    <3> QED
      BY <3>1, <3>2, <3>3, <2>0, <2>1 DEF QueueTypeOK
  <2>3. Pending' = (Pending + 1) % Slots
    BY <2>0, <2>1, WriterStep DEF Pending
  <2>4. CountMatchesIndices'
    BY <2>0, <2>1, <2>3, CountUp DEF CountMatchesIndices
  <2>5. CountIsPending => CountIsPending'
    <3>1. Pending \in Nat /\ Pending + 1 < Slots /\ Slots <= 32
      BY <1>2, <2>0, RoomForOne, QueueAssumption DEF Pending, QueueAssumption
    <3>2. (Pending + 1) % Slots = Pending + 1 /\ (Pending + 1) % 256 = Pending + 1
      BY <3>1, SlotsIsSize, SMT
    <3> QED
      BY <2>1, <2>3, <3>2 DEF CountIsPending
  <2> QED
    BY <2>2, <2>4, <2>5
<1> QED
  BY <1>1, <1>2

LEMMA TakeNextKeeps ==
  ASSUME QueueInv, take_next
  PROVE  QueueInv' /\ (CountIsPending /\ packetcnt > 0 => CountIsPending')
<1> USE DEF QueueInv
<1>0. rb_current \in Slot /\ rb_next \in Slot /\ packetcnt \in 0 .. 255
  BY DEF QueueTypeOK
<1>1. /\ rb_next' = NextSlot(rb_next)
      /\ packetcnt' = (packetcnt - 1) % 256
      /\ rbuffer' = rbuffer /\ rb_current' = rb_current
  BY DEF take_next
<1>2. QueueTypeOK'
  <2>1. packetcnt' \in 0 .. 255
    BY <1>0, <1>1
  <2> QED
    BY <2>1, <1>0, <1>1, NextSlotInRange DEF QueueTypeOK
<1>3. Pending' = (Pending - 1) % Slots
  BY <1>0, <1>1, ReaderStep DEF Pending
<1>4. CountMatchesIndices'
  BY <1>0, <1>1, <1>3, CountDown DEF CountMatchesIndices
<1>5. ASSUME CountIsPending, packetcnt > 0 PROVE CountIsPending'
  <2>1. packetcnt = Pending /\ packetcnt > 0
    BY <1>5 DEF CountIsPending
  <2>2. Pending < Slots
    BY <1>0, SlotsIsSize DEF Pending, Slot
  <2>3. (packetcnt - 1) % 256 = packetcnt - 1 /\ (packetcnt - 1) % Slots = packetcnt - 1
    BY <2>1, <2>2, <1>0, SlotsIsSize, SMT
  <2> QED
    BY <1>1, <1>3, <2>1, <2>3 DEF CountIsPending
<1> QED
  BY <1>2, <1>4, <1>5

LEMMA RestartKeeps == ASSUME restart PROVE PoliteInv'
<1>1. QueueTypeOK'
  BY EmptyType, SlotsIsSize DEF restart, QueueTypeOK, Slot
<1>2. (0 - 0) % Slots = 0 /\ 0 % Slots = 0
  BY SlotsIsSize
<1> QED
  BY <1>1, <1>2 DEF restart, PoliteInv, QueueInv, CountMatchesIndices, CountIsPending, Pending

LEMMA StutterKeeps ==
  ASSUME QueueInv, UNCHANGED queueVars
  PROVE  QueueInv' /\ (CountIsPending => CountIsPending')
BY DEF queueVars, QueueInv, QueueTypeOK, CountMatchesIndices, CountIsPending, Pending

\* The counters have their types and agree with one another, after any sequence
\* of accepted messages, requests and restarts.
THEOREM QueueInvariant == QueueSpec => []QueueInv
<1>1. QueueInv /\ [QueueNext]_queueVars => QueueInv'
  <2> SUFFICES ASSUME QueueInv, [QueueNext]_queueVars PROVE QueueInv'
    OBVIOUS
  <2>1. ASSUME NEW m \in Messages, senddata(m) PROVE QueueInv'
    BY <2>1, SendDataKeeps
  <2>2. CASE take_next
    BY <2>2, TakeNextKeeps
  <2>3. CASE restart
    BY <2>3, RestartKeeps DEF PoliteInv
  <2>4. CASE UNCHANGED queueVars
    BY <2>4, StutterKeeps
  <2> QED
    BY <2>1, <2>2, <2>3, <2>4 DEF QueueNext
<1>2. QueueInit => QueueInv
  BY InitHolds DEF PoliteInv
<1> QED
  BY <1>1, <1>2, PTL DEF QueueSpec

\* The counter and the indices agree modulo the size of the buffer, whatever is
\* requested.
THEOREM CountersAgree == QueueSpec => []CountMatchesIndices
  BY QueueInvariant, PTL DEF QueueInv

\* With polite requests the counter never falls behind the packets that wait.
THEOREM PoliteInvariant == PoliteSpec => []PoliteInv
<1>1. PoliteInv /\ [PoliteNext]_queueVars => PoliteInv'
  <2> SUFFICES ASSUME PoliteInv, [PoliteNext]_queueVars PROVE PoliteInv'
    OBVIOUS
  <2> USE DEF PoliteInv
  <2>1. ASSUME NEW m \in Messages, senddata(m) PROVE PoliteInv'
    BY <2>1, SendDataKeeps
  <2>2. CASE packetcnt > 0 /\ take_next
    BY <2>2, TakeNextKeeps
  <2>3. CASE restart
    BY <2>3, RestartKeeps
  <2>4. CASE UNCHANGED queueVars
    BY <2>4, StutterKeeps
  <2> QED
    BY <2>1, <2>2, <2>3, <2>4 DEF PoliteNext
<1> QED
  BY <1>1, InitHolds, PTL DEF PoliteSpec

\* With polite requests the number announced is the number waiting.
THEOREM AnnouncedIsWaiting == PoliteSpec => []CountIsPending
  BY PoliteInvariant, PTL DEF PoliteInv

-----------------------------------------------------------------------------
(* The refinement: with messages that fit their slots and polite requests, *)
(* the ring is a first-in first-out queue.                                 *)

\* The waiting slots lie between the indices, and the writer's slot is the
\* one behind the last of them.
LEMMA WaitingSlots ==
  ASSUME NEW c \in Slot, NEW n \in Slot
  PROVE  /\ (c - n) % Slots \in 0 .. Slots - 1
         /\ (n + ((c - n) % Slots)) % Slots = c
         /\ \A k \in 1 .. (c - n) % Slots : (n + k - 1) % Slots \in Slot \ {c}
         /\ \A k \in Nat : (NextSlot(n) + k - 1) % Slots = (n + (k + 1) - 1) % Slots
<1>1. Slots \in Sizes
  BY SlotsIsSize
<1>2. (c - n) % Slots \in 0 .. Slots - 1
  BY <1>1, SMT DEF Sizes, Slot
<1>3. (n + ((c - n) % Slots)) % Slots = c
  BY <1>1, SMT DEF Sizes, Slot
<1>4. ASSUME NEW k \in 1 .. (c - n) % Slots
      PROVE  (n + k - 1) % Slots \in Slot /\ (n + k - 1) % Slots # c
  BY <1>1, <1>4, SMT DEF Sizes, Slot
<1>5. ASSUME NEW k \in Nat
      PROVE  (NextSlot(n) + k - 1) % Slots = (n + (k + 1) - 1) % Slots
  BY <1>1, <1>5, SMT DEF Sizes, Slot, NextSlot
<1> QED
  BY <1>2, <1>3, <1>4, <1>5

\* A message that fits changes only its own slot, and is there as it was sent.
LEMMA ShortWrite ==
  ASSUME LongMessages = {}, QueueTypeOK, NEW m \in Messages,
         rbuffer' = Written(rb_current, m)
  PROVE  \A i \in Slot : PacketAt(i)' = IF i = rb_current THEN PacketOf(m) ELSE PacketAt(i)
<1>1. rbuffer' = [rbuffer EXCEPT ![rb_current] = [head |-> HeaderOf(m), body |-> HeaderOf(m)]]
  BY DEF Written
<1>2. Slot \subseteq DOMAIN rbuffer
  BY SlotsIsSize DEF QueueTypeOK, Slot
<1>3. \A i : PacketAt(i) = [head |-> rbuffer[i].head, body |-> rbuffer[i].body, rest |-> Nothing]
  BY DEF PacketAt
<1>4. \A i : PacketAt(i)' = [head |-> rbuffer'[i].head, body |-> rbuffer'[i].body,
                             rest |-> Nothing]
  BY DEF PacketAt
<1>5. ASSUME NEW i \in Slot, i = rb_current PROVE PacketAt(i)' = PacketOf(m)
  <2>1. rbuffer'[i] = [head |-> HeaderOf(m), body |-> HeaderOf(m)]
    BY <1>1, <1>2, <1>5
  <2> QED
    BY <2>1, <1>4 DEF PacketOf
<1>6. ASSUME NEW i \in Slot, i # rb_current PROVE PacketAt(i)' = PacketAt(i)
  <2>1. rbuffer'[i] = rbuffer[i]
    BY <1>1, <1>2, <1>6
  <2> QED
    BY <2>1, <1>3, <1>4
<1> QED
  BY <1>5, <1>6

LEMMA QueuedIsSeq ==
  ASSUME QueueInv
  PROVE  /\ Queued \in Seq({PacketAt(i) : i \in Slot})
         /\ Len(Queued) = Pending /\ Pending \in 0 .. Slots - 1
         /\ \A k \in 1 .. Pending : Queued[k] = PacketAt((rb_next + k - 1) % Slots)
<1>1. rb_current \in Slot /\ rb_next \in Slot
  BY DEF QueueInv, QueueTypeOK
<1>2. Pending \in 0 .. Slots - 1
  BY <1>1, WaitingSlots DEF Pending
<1>3. \A k \in 1 .. Pending : (rb_next + k - 1) % Slots \in Slot
  BY <1>1, WaitingSlots DEF Pending
<1> QED
  BY <1>2, <1>3, SlotsIsSize DEF Queued

\* The two operations of the abstract queue, as functions on the positions.
LEMMA AppendIs ==
  ASSUME NEW S, NEW s \in Seq(S), NEW e, NEW n \in Nat, Len(s) = n
  PROVE  Append(s, e) = [k \in 1 .. n + 1 |-> IF k = n + 1 THEN e ELSE s[k]]
<1> DEFINE T == S \cup {e}
<1>1. s \in Seq(T) /\ e \in T
  BY SeqMonotonic
<1> HIDE DEF T
<1>2. /\ Append(s, e) \in Seq(T) /\ Len(Append(s, e)) = n + 1
      /\ \A k \in 1 .. n : Append(s, e)[k] = s[k]
      /\ Append(s, e)[n + 1] = e
  BY <1>1, AppendProperties
<1>3. Append(s, e) = [k \in 1 .. n + 1 |-> Append(s, e)[k]]
  BY <1>2, LenProperties
<1> QED
  BY <1>2, <1>3

LEMMA TailIs ==
  ASSUME NEW S, NEW s \in Seq(S), NEW n \in Nat, Len(s) = n, n > 0
  PROVE  Tail(s) = [k \in 1 .. n - 1 |-> s[k + 1]]
<1>1. s # <<>>
  OBVIOUS
<1>2. /\ Tail(s) \in Seq(S) /\ Len(Tail(s)) = n - 1
      /\ \A k \in 1 .. n - 1 : Tail(s)[k] = s[k + 1]
  BY <1>1, HeadTailProperties
<1>3. Tail(s) = [k \in 1 .. n - 1 |-> Tail(s)[k]]
  BY <1>2, LenProperties
<1> QED
  BY <1>2, <1>3

\* A message that is accepted is the last one of the packets waiting.
LEMMA SendDataAppends ==
  ASSUME LongMessages = {}, QueueInv, NEW m \in Messages, senddata(m),
         NextSlot(rb_current) # rb_next
  PROVE  /\ Queued' = Append(Queued, PacketOf(m)) /\ out' = out
         /\ Pending' = Pending + 1 /\ Pending + 1 < Slots
<1>0. rb_current \in Slot /\ rb_next \in Slot /\ QueueTypeOK
  BY DEF QueueInv, QueueTypeOK
<1>q. /\ Queued \in Seq({PacketAt(i) : i \in Slot})
      /\ Len(Queued) = Pending /\ Pending \in 0 .. Slots - 1
      /\ \A k \in 1 .. Pending : Queued[k] = PacketAt((rb_next + k - 1) % Slots)
  BY QueuedIsSeq
<1>1. /\ rbuffer' = Written(rb_current, m)
      /\ rb_current' = NextSlot(rb_current)
      /\ rb_next' = rb_next /\ out' = out
  BY DEF senddata
<1>2. Pending + 1 < Slots
  BY <1>0, RoomForOne DEF Pending
<1>3. Pending' = Pending + 1
  <2>1. Pending' = (Pending + 1) % Slots
    BY <1>0, <1>1, WriterStep DEF Pending
  <2> QED
    BY <2>1, <1>2, <1>q, SlotsIsSize, SMT
<1>4. ASSUME NEW k \in 1 .. Pending
      PROVE  PacketAt((rb_next + k - 1) % Slots)' = Queued[k]
  <2>1. (rb_next + k - 1) % Slots \in Slot \ {rb_current}
    BY <1>0, WaitingSlots DEF Pending
  <2>2. PICK i \in Slot : i = (rb_next + k - 1) % Slots /\ i # rb_current
    BY <2>1
  <2>3. PacketAt(i)' = PacketAt(i)
    BY <2>2, <1>1, <1>0, ShortWrite
  <2>4. PacketAt((rb_next + k - 1) % Slots)' = PacketAt(i)'
    BY <2>2, <1>1 DEF PacketAt
  <2> QED
    BY <2>2, <2>3, <2>4, <1>q
<1>5. Queued'[Pending + 1] = PacketOf(m)
  <2>1. (rb_next + Pending) % Slots = rb_current
    <3>1. \A c, n \in Slot : (n + ((c - n) % Slots)) % Slots = c
      BY WaitingSlots
    <3>2. (rb_next + ((rb_current - rb_next) % Slots)) % Slots = rb_current
      BY <3>1, <1>0
    <3> QED
      BY <3>2, <1>0, SlotsIsSize DEF Pending, Slot
  <2>2. PICK i \in Slot : i = rb_current
    BY <1>0
  <2>3. (rb_next' + (Pending + 1) - 1) % Slots = i
    BY <2>1, <2>2, <1>1, <1>0, <1>q DEF Slot
  <2>4. Queued'[Pending + 1] = PacketAt(i)'
    BY <2>3, <1>3, <1>q DEF Queued, PacketAt
  <2> QED
    BY <2>2, <2>4, <1>1, <1>0, ShortWrite
<1>6. Queued' = Append(Queued, PacketOf(m))
  <2>1. Queued' = [k \in 1 .. Pending + 1 |-> Queued'[k]]
    BY <1>3 DEF Queued
  <2>2. ASSUME NEW k \in 1 .. Pending PROVE Queued'[k] = Queued[k]
    BY <1>3, <1>4, <1>q DEF Queued
  <2>3. Append(Queued, PacketOf(m))
          = [k \in 1 .. Pending + 1 |-> IF k = Pending + 1 THEN PacketOf(m) ELSE Queued[k]]
    BY <1>q, SlotsIsSize, AppendIs
  <2> HIDE DEF Queued
  <2> QED
    BY <2>1, <2>2, <2>3, <1>5, <1>q
<1> QED
  BY <1>1, <1>2, <1>3, <1>6

\* The packet sent on a request is the first one waiting.
LEMMA TakeNextTakes ==
  ASSUME QueueInv, Pending > 0, take_next
  PROVE  Queued' = Tail(Queued) /\ out' = Queued[1] /\ Pending' = Pending - 1
<1>0. rb_current \in Slot /\ rb_next \in Slot
  BY DEF QueueInv, QueueTypeOK
<1>q. /\ Queued \in Seq({PacketAt(i) : i \in Slot})
      /\ Len(Queued) = Pending /\ Pending \in 0 .. Slots - 1
      /\ \A k \in 1 .. Pending : Queued[k] = PacketAt((rb_next + k - 1) % Slots)
  BY QueuedIsSeq
<1>1. /\ out' = PacketAt(rb_next) /\ rb_next' = NextSlot(rb_next)
      /\ rbuffer' = rbuffer /\ rb_current' = rb_current
  BY DEF take_next
<1>2. Pending' = Pending - 1
  <2>1. Pending' = (Pending - 1) % Slots
    BY <1>0, <1>1, ReaderStep DEF Pending
  <2>2. Slots \in Nat /\ Pending \in 0 .. Slots - 1 /\ Pending > 0
    BY <1>q, SlotsIsSize
  <2>3. (Pending - 1) % Slots = Pending - 1
    BY ONLY <2>2
  <2> QED
    BY <2>1, <2>3
<1>3. Queued[1] = PacketAt(rb_next)
  <2>1. (rb_next + 1 - 1) % Slots = rb_next
    BY <1>0, SlotsIsSize DEF Slot
  <2> QED
    BY <2>1, <1>q
<1>4. ASSUME NEW k \in 1 .. Pending - 1
      PROVE  PacketAt((rb_next + k - 1) % Slots)' = Queued[k + 1]
  <2>1. k \in Nat /\ k + 1 \in 1 .. Pending
    BY <1>q
  <2>2. (NextSlot(rb_next) + k - 1) % Slots = (rb_next + (k + 1) - 1) % Slots
    BY <2>1, <1>0, WaitingSlots
  <2>3. PacketAt((rb_next + k - 1) % Slots)' = PacketAt((NextSlot(rb_next) + k - 1) % Slots)
    BY <1>1 DEF PacketAt
  <2> QED
    BY <2>1, <2>2, <2>3, <1>q
<1>5. Queued' = Tail(Queued)
  <2>1. Queued' = [k \in 1 .. Pending - 1 |-> Queued'[k]]
    BY <1>2 DEF Queued
  <2>2. ASSUME NEW k \in 1 .. Pending - 1 PROVE Queued'[k] = Queued[k + 1]
    BY <1>2, <1>4, <1>q DEF Queued
  <2>3. Tail(Queued) = [k \in 1 .. Pending - 1 |-> Queued[k + 1]]
    BY <1>q, SlotsIsSize, TailIs
  <2> HIDE DEF Queued
  <2> QED
    BY <2>1, <2>2, <2>3
<1> QED
  BY <1>1, <1>2, <1>3, <1>5

\* A restart leaves nothing waiting.
LEMMA RestartEmpties ==
  ASSUME restart PROVE Pending' = 0 /\ Queued' = <<>> /\ out' = out
<1>1. Pending' = 0 /\ out' = out
  BY SlotsIsSize DEF restart, Pending
<1> QED
  BY <1>1 DEF Queued

\* With polite requests and messages that fit their slots, the ring of slots
\* with its indices and its counter implements the abstract queue: the sequence
\* of packets between the indices only ever grows by the new message at its end
\* and loses the packet being sent at its front.
THEOREM QueueRefinement ==
  ASSUME LongMessages = {}
  PROVE  PoliteSpec => IsMessageQueue
<1>1. QueueInit => Abstract!Init
  <2> SUFFICES ASSUME QueueInit PROVE Queued = <<>> /\ out = Nothing
    BY DEF Abstract!Init
  <2>1. Pending = 0
    BY SlotsIsSize DEF QueueInit, Pending
  <2> QED
    BY <2>1 DEF QueueInit, Queued
<1>2. PoliteInv /\ PoliteInv' /\ [PoliteNext]_queueVars
        => [Abstract!Next]_<<Queued, out>>
  <2> SUFFICES ASSUME PoliteInv, PoliteInv', [PoliteNext]_queueVars
               PROVE  Abstract!Next \/ UNCHANGED <<Queued, out>>
    OBVIOUS
  <2> DEFINE Packet == {PacketAt(i) : i \in Slot}
  <2>0. rb_current \in Slot /\ rb_next \in Slot /\ QueueTypeOK
    BY DEF PoliteInv, QueueInv, QueueTypeOK
  <2>q. /\ Queued \in Seq(Packet) /\ Len(Queued) = Pending /\ Pending \in 0 .. Slots - 1
        /\ \A k \in 1 .. Pending : Queued[k] = PacketAt((rb_next + k - 1) % Slots)
    BY QueuedIsSeq DEF PoliteInv
  <2>u. ASSUME UNCHANGED queueVars PROVE UNCHANGED <<Queued, out>>
    BY <2>u DEF queueVars, Queued, Pending, PacketAt
  <2>1. ASSUME NEW m \in Messages, senddata(m)
        PROVE  Abstract!Next \/ UNCHANGED <<Queued, out>>
    <3>1. CASE NextSlot(rb_current) = rb_next
      BY <2>1, <2>u, <3>1 DEF senddata
    <3>2. CASE NextSlot(rb_current) # rb_next
      <4>1. Abstract!Put(PacketOf(m))
        BY <2>1, <2>q, <3>2, SendDataAppends, SlotsIsSize DEF PoliteInv, Abstract!Put
      <4> QED
        BY <4>1 DEF Abstract!Next
    <3> QED
      BY <3>1, <3>2
  <2>2. CASE packetcnt > 0 /\ take_next
    <3>1. Pending > 0
      BY <2>2 DEF PoliteInv, CountIsPending
    <3>2. Abstract!Get
      BY <2>2, <2>q, <3>1, TakeNextTakes DEF PoliteInv, Abstract!Get
    <3> QED
      BY <3>2 DEF Abstract!Next
  <2>3. CASE restart
    BY <2>3, RestartEmpties DEF Abstract!Next, Abstract!Restart
  <2>4. CASE UNCHANGED queueVars
    BY <2>4, <2>u
  <2> QED
    BY <2>1, <2>2, <2>3, <2>4 DEF PoliteNext
<1> QED
  BY <1>1, <1>2, PoliteInvariant, PTL DEF PoliteSpec, IsMessageQueue, Abstract!Spec

-----------------------------------------------------------------------------
(* The trail of the messages *)

\* What the pinpad transmits.
Packets == {PacketOf(m) : m \in Messages}
Transmitted == {Nothing} \cup {Pong(n) : n \in 0 .. 255} \cup {Reply(p) : p \in Packets}

Transmissions == [what : Transmitted, left : Int, bad : BOOLEAN, heard : BOOLEAN]

PollTypeOK ==
    /\ accepted \in Seq(Messages)
    /\ forwarded \in Seq(Packets)
    /\ inbox \in Seq(Transmitted)
    /\ stx \in Transmissions
    /\ mpc \in {"request", "requested"} => inbox # <<>>

\* The messages that have left the buffer.
Taken == Len(accepted) - Pending

\* The messages behind these are in the buffer.
Waiting ==
    /\ Taken \in Nat
    /\ \A k \in 1 .. Pending : Queued[k] = PacketOf(accepted[Taken + k])

\* Everything that came from the pinpad: forwarded, in the busmaster's ring, on the line.
TrailEnd == Len(forwarded) + Len(inbox) + 1

Trail ==
    [i \in 1 .. TrailEnd |->
        IF i <= Len(forwarded) THEN Reply(forwarded[i])
        ELSE IF i < TrailEnd THEN inbox[i - Len(forwarded)]
        ELSE stx.what]

IsMessage(x) == x.kind = "message"

\* The first n members of s that are messages are among the first k members of t,
\* in order and none twice.
Places(s, n, t, k) ==
    \E f \in [1 .. n -> 0 .. k] :
        /\ \A i, j \in 1 .. n : i < j /\ IsMessage(s[i]) /\ IsMessage(s[j]) => f[i] < f[j]
        /\ \A i \in 1 .. n : IsMessage(s[i]) => f[i] > 0 /\ s[i].packet = PacketOf(t[f[i]])

InOrder == Places(Trail, TrailEnd, accepted, Taken)

TrailInv == PollTypeOK /\ Waiting /\ InOrder

-----------------------------------------------------------------------------
(* The buffer under the protocol *)

\* No step of the protocol touches the buffer but through its three operations.
LEMMA StepOfBuffer ==
    ASSUME PollNext PROVE QueueNext \/ UNCHANGED queueVars
<1>1. CASE Tick
  BY <1>1 DEF Tick
<1>2. CASE Arrive
  BY <1>2 DEF Arrive, ArrivesAtPinpad, ArrivesAtMaster
<1>3. CASE Lose
  BY <1>3 DEF Lose
<1>4. CASE Master
  BY <1>4 DEF Master, Forward, NoUdp, NothingReceived, GetsPong, GetsPacket, GetsOther,
              SendRequest, Requested
<1>5. CASE Pinpad
  <2>1. ASSUME NEW m \in Messages, Says(m) PROVE QueueNext
    BY <2>1 DEF Says, QueueNext
  <2>2. ASSUME NEW m \in Messages, NEW stall \in Stalls, Event(m, stall) PROVE QueueNext
    BY <2>1, <2>2 DEF Event
  <2>3. CASE Opened
    BY <2>1, <2>3, PollingAssumption DEF Opened
  <2>4. CASE SendSlot
    BY <2>4 DEF SendSlot, QueueNext
  <2>5. CASE \/ Continue \/ SendPong \/ SlotSent \/ Ignore
             \/ Begin("ping", "pong", Pause)
             \/ Begin("send", "fetch", Pause)
             \/ Begin("command", "open", DoorTime)
    BY <2>5 DEF Continue, SendPong, SlotSent, Ignore, Begin
  <2> QED
    BY <1>5, <2>2, <2>3, <2>4, <2>5 DEF Pinpad
<1>6. CASE Restart
  BY <1>6 DEF Restart, QueueNext
<1> QED
  BY <1>1, <1>2, <1>3, <1>4, <1>5, <1>6 DEF PollNext

\* Under the protocol the buffer behaves as it does alone, whatever the delays are,
\* the line loses and restarts clear.
THEOREM BufferUnderProtocol == PollSpec => QueueSpec
<1>1. PollInit => QueueInit
  BY DEF PollInit
<1>2. [PollNext]_pollVars => [QueueNext]_queueVars
  <2>1. UNCHANGED pollVars => UNCHANGED queueVars
    BY DEF pollVars
  <2> QED
    BY <2>1, StepOfBuffer
<1> QED
  BY <1>1, <1>2, PTL DEF PollSpec, QueueSpec

\* So its counter and its indices agree, modulo the size of the buffer, when the
\* busmaster asks for packets nobody announced, as it does after a restart.
THEOREM CountersAgreeUnderProtocol == PollSpec => []CountMatchesIndices
BY BufferUnderProtocol, CountersAgree, PTL

-----------------------------------------------------------------------------
(* One conversation at a time.                                             *)
(*                                                                         *)
(* The protocol does not number its packets, and the busmaster pings       *)
(* without looking whether the bus is free.  What keeps it together: a     *)
(* packet that is sent spoils the one on the line, the pinpad hears        *)
(* nothing while it has something to answer, and both programs wait        *)
(* equally long, the busmaster before a request and the pinpad before an   *)
(* answer.                                                                 *)

\* What the two programs transmit, and the packets in between.
Sent == {Nothing} \cup {Pong(n) : n \in 0 .. 255}
        \cup {Reply(p) : p \in [head : Bytes, body : Bytes, rest : Bytes]}
Words == {"nothing", "ping", "send", "command", "other", "foreign"}
FromMaster == [what : [kind : Words], left : Int, bad : BOOLEAN, heard : BOOLEAN]
FromPinpad == [what : Sent, left : Int, bad : BOOLEAN, heard : BOOLEAN]

TalkTypeOK ==
    /\ mtx \in FromMaster /\ stx \in FromPinpad
    /\ inbox \in Seq(Sent)
    /\ mtimer \in Nat /\ stimer \in Int
    /\ request \in Words

\* A ping or a request is on the line, waits at the pinpad or is being
\* answered; an answer is on the line, or waits behind the packet that the
\* busmaster handles.
Asks == {"ping", "send"}
Heard == mtx # Quiet /\ mtx.heard
InFlight == Heard /\ ~mtx.bad /\ mtx.what.kind \in Asks
Asked == request \in Asks /\ spc # "fetched"
Answering == stx # Quiet /\ ~stx.bad
Handling == mpc \in {"request", "requested"}
Behind == IF Handling THEN Tail(inbox) ELSE inbox

InStep ==
    /\ Heard => request = "nothing"
    /\ spc = "pong" => request = "ping"
    /\ spc \in {"fetch", "fetched"} => request = "send"
    /\ spc = "open" => request = "command"
    /\ Handling => inbox # <<>>

\* There is one conversation at a time.
OneConversation ==
    /\ Len(Behind) <= 1
    /\ Behind # <<>> => ~InFlight /\ ~Asked /\ ~Answering
    /\ ~(InFlight /\ Asked) /\ ~(InFlight /\ Answering) /\ ~(Asked /\ Answering)

\* What was asked since the busmaster began to wait with its request is not
\* answered before it sends it: the pinpad waits as long before it answers.
NoAnswerYet ==
    mpc = "request" =>
        /\ ~Answering /\ Behind = <<>>
        /\ InFlight => mtimer + PacketTime <= Pause + mtx.left
        /\ Asked => mtimer + PacketTime <= IF spc \in {"pong", "fetch"} THEN stimer ELSE Pause

\* All of it; it holds with the buffer's invariant.
TalkInv == TalkTypeOK /\ InStep /\ OneConversation /\ NoAnswerYet

-----------------------------------------------------------------------------
(* One conversation: the steps *)

LEMMA TimesAreTimes ==
    /\ Pause \in Nat /\ PacketTime \in Nat /\ PacketTime > 0
    /\ DoorTime \in Nat /\ BootTime \in Nat /\ Stalls \subseteq Nat /\ MasterPass \subseteq Nat
BY PollingAssumption DEF PollingAssumption

LEMMA QuietFits == Quiet \in FromMaster /\ Quiet \in FromPinpad
<1>1. Nothing \in [kind : Words]
  BY DEF Nothing, Words
<1>2. Nothing \in Sent
  BY DEF Sent
<1> QED
  BY <1>1, <1>2 DEF Quiet, FromMaster, FromPinpad

\* A packet that is spoilt stays so.
LEMMA SpoilMaster ==
    ASSUME mtx \in FromMaster
    PROVE  /\ Spoil(mtx) \in FromMaster
           /\ Spoil(mtx) # Quiet => mtx # Quiet /\ Spoil(mtx).bad
           /\ Spoil(mtx).heard = mtx.heard
BY QuietFits DEF Spoil, FromMaster

LEMMA SpoilPinpad ==
    ASSUME stx \in FromPinpad
    PROVE  /\ Spoil(stx) \in FromPinpad
           /\ Spoil(stx) # Quiet => stx # Quiet /\ Spoil(stx).bad
           /\ Spoil(stx).what = stx.what
BY QuietFits DEF Spoil, FromPinpad

\* The busmaster sends: what the pinpad was sending is spoilt, and the pinpad
\* hears it only if it has nothing to answer.
LEMMA MasterSendsEffect ==
    ASSUME TalkTypeOK, NEW w \in Words, MasterSends(w)
    PROVE  /\ mtx' \in FromMaster /\ stx' \in FromPinpad
           /\ ~Answering'
           /\ mtx'.what.kind = w /\ mtx'.left = PacketTime
           /\ Heard' => request = "nothing"
<1>1. mtx \in FromMaster /\ stx \in FromPinpad /\ stx' = Spoil(stx)
  BY DEF TalkTypeOK, MasterSends
<1>2. PICK bad \in BOOLEAN :
         mtx' = [what |-> [kind |-> w], left |-> PacketTime, bad |-> bad,
                 heard |-> w # "foreign" /\ request = "nothing"]
  BY DEF MasterSends
<1>3. mtx' \in FromMaster
  BY <1>2, TimesAreTimes DEF FromMaster
<1>4. stx' \in FromPinpad /\ ~Answering'
  BY <1>1, SpoilPinpad DEF Answering
<1>5. mtx'.what.kind = w /\ mtx'.left = PacketTime /\ (mtx'.heard => request = "nothing")
  BY <1>2
<1> QED
  BY <1>3, <1>4, <1>5 DEF Heard

\* A pass without a ping leaves the line alone.
LEMMA PingEffect ==
    ASSUME TalkTypeOK, NEW forms \in SUBSET Words, PingWhenDue(forms)
    PROVE  /\ mtx' \in FromMaster /\ stx' \in FromPinpad
           /\ \/ UNCHANGED <<mtx, stx>>
              \/ /\ ~Answering'
                 /\ mtx'.left = PacketTime /\ mtx'.what.kind \in forms
                 /\ Heard' => request = "nothing"
<1>1. CASE cnt = PingAt
  BY <1>1, MasterSendsEffect DEF PingWhenDue
<1>2. CASE cnt # PingAt
  BY <1>2 DEF PingWhenDue, TalkTypeOK
<1> QED
  BY <1>1, <1>2

\* The pinpad sends: what the busmaster was sending is spoilt.
LEMMA PinpadSendsEffect ==
    ASSUME TalkTypeOK, NEW p \in Sent, PinpadSends(p)
    PROVE  /\ mtx' \in FromMaster /\ stx' \in FromPinpad
           /\ ~InFlight' /\ (Heard' => Heard)
           /\ stx'.what = p /\ (Answering' => mtx = Quiet)
<1>1. /\ mtx \in FromMaster /\ mtx' = Spoil(mtx)
      /\ stx' = [what |-> p, left |-> PacketTime, bad |-> mtx # Quiet, heard |-> TRUE]
  BY DEF TalkTypeOK, PinpadSends
<1>2. mtx' \in FromMaster /\ ~InFlight' /\ (Heard' => Heard)
  BY <1>1, SpoilMaster DEF Heard, InFlight
<1>3. stx' \in FromPinpad
  BY <1>1, TimesAreTimes DEF FromPinpad
<1> QED
  BY <1>1, <1>2, <1>3 DEF Answering

\* Sequences of at most one.
LEMMA ShortSequences ==
    ASSUME NEW S, NEW s \in Seq(S), NEW e \in S
    PROVE  /\ Len(s) <= 1 => Tail(s) = <<>> \/ s = <<>>
           /\ s # <<>> => Tail(Append(s, e)) = Append(Tail(s), e)
           /\ s = <<>> => Append(s, e) # <<>> /\ Len(Append(s, e)) = 1 /\ Append(s, e)[1] = e
           /\ s # <<>> => Tail(s) \in Seq(S) /\ Len(s) = Len(Tail(s)) + 1
           /\ Append(s, e) \in Seq(S) /\ Append(s, e) # <<>>
           /\ Len(<<>>) = 0
OBVIOUS

\* In the beginning nobody says anything.
LEMMA TalkInit == PollInit => TalkInv
<1> SUFFICES ASSUME PollInit PROVE TalkInv
  OBVIOUS
<1>1. /\ mtx = Quiet /\ stx = Quiet /\ inbox = <<>> /\ mpc = "top" /\ mtimer = 0
      /\ spc = "main" /\ stimer = 0 /\ request = "nothing"
  BY DEF PollInit
<1>2. TalkTypeOK
  <2>1. "nothing" \in Words
    BY DEF Words
  <2> QED
    BY <1>1, <2>1, QuietFits DEF TalkTypeOK
<1>3. ~Heard /\ ~InFlight /\ ~Asked /\ ~Answering /\ ~Handling /\ Behind = <<>> /\ Len(<<>>) = 0
  BY <1>1 DEF Heard, InFlight, Asked, Answering, Handling, Behind, Asks
<1> QED
  BY <1>1, <1>2, <1>3 DEF TalkInv, InStep, OneConversation, NoAnswerYet

\* The busmaster's steps: a ping or a request takes the place of the one before,
\* spoils the answer to it, or is not heard.
LEMMA TalkMaster == ASSUME TalkInv, Master PROVE TalkInv'
<1> USE DEF TalkInv
<1>0. /\ TalkTypeOK /\ UNCHANGED <<spc, stimer, request>> /\ (Asked' <=> Asked)
      /\ inbox \in Seq(Sent) /\ mtimer \in Nat
  BY DEF Master, Forward, NoUdp, NothingReceived, GetsPong, GetsPacket, GetsOther,
         SendRequest, Requested, slave, TalkTypeOK, Asked
<1>1. CASE Forward \/ NoUdp
  <2>1. /\ mpc = "top" /\ mpc' = "pass" /\ inbox' = inbox /\ mtimer' \in Nat
        /\ MasterSends("command") \/ UNCHANGED <<mtx, stx>>
    BY <1>1, TimesAreTimes DEF Forward, NoUdp
  <2>2. /\ mtx' \in FromMaster /\ stx' \in FromPinpad
        /\ UNCHANGED <<mtx, stx>> \/ (~Answering' /\ ~InFlight' /\ (Heard' => request = "nothing"))
    <3>1. "command" \in Words
      BY DEF Words
    <3>2. "command" \notin Asks
      BY DEF Asks
    <3>3. CASE MasterSends("command")
      BY <1>0, <3>1, <3>2, <3>3, MasterSendsEffect DEF InFlight
    <3> QED
      BY <1>0, <2>1, <3>3 DEF TalkTypeOK
  <2>3. Behind' = Behind /\ ~Handling /\ ~Handling'
    BY <2>1 DEF Behind, Handling
  <2>4. TalkTypeOK'
    BY <1>0, <2>1, <2>2 DEF TalkTypeOK
  <2>5. (InFlight' => InFlight) /\ (Answering' => Answering) /\ (Heard' => request = "nothing")
    BY <2>2 DEF InFlight, Answering, Heard, InStep
  <2>6. InStep'
    BY <1>0, <2>1, <2>3, <2>5 DEF InStep
  <2>7. OneConversation'
    BY <1>0, <2>3, <2>5 DEF OneConversation
  <2> QED
    BY <2>1, <2>4, <2>6, <2>7 DEF NoAnswerYet
<1>2. CASE NothingReceived \/ GetsOther
  <2>1. /\ mpc = "pass" /\ mpc' = "top" /\ mtimer' = mtimer /\ PingWhenDue({"ping"})
        /\ inbox' = <<>>
    <3>1. Behind = inbox
      BY <1>2 DEF NothingReceived, GetsOther, EndOfDelay, Behind, Handling
    <3> QED
      BY <1>0, <1>2, <3>1, ShortSequences DEF NothingReceived, GetsOther, EndOfDelay, PassOn,
         OneConversation
  <2>2. /\ mtx' \in FromMaster /\ stx' \in FromPinpad
        /\ UNCHANGED <<mtx, stx>> \/ (~Answering' /\ (Heard' => request = "nothing"))
    <3>1. {"ping"} \in SUBSET Words
      BY DEF Words
    <3> QED
      BY <1>0, <2>1, <3>1, PingEffect
  <2>3. Behind' = <<>> /\ ~Handling'
    BY <2>1 DEF Behind, Handling
  <2>4. TalkTypeOK'
    BY <1>0, <2>1, <2>2 DEF TalkTypeOK
  <2>5. Heard' => request = "nothing"
    BY <2>2 DEF Heard, InStep
  <2>6. InStep'
    BY <1>0, <2>3, <2>5 DEF InStep
  <2>7. OneConversation'
    <3>1. InFlight' => ~Asked
      BY <2>5 DEF InFlight, Asked, Asks
    <3>2. ~Answering' \/ (UNCHANGED <<mtx, stx>> /\ (InFlight' <=> InFlight) /\ (Answering' <=> Answering))
      BY <2>2 DEF InFlight, Answering, Heard
    <3>3. Len(<<>>) <= 1
      OBVIOUS
    <3> QED
      BY <1>0, <2>3, <3>1, <3>2, <3>3 DEF OneConversation
  <2> QED
    BY <2>1, <2>4, <2>6, <2>7 DEF NoAnswerYet
<1>3. CASE GetsPong \/ GetsPacket
  <2>1. /\ mpc = "pass" /\ mpc' = "request" /\ mtimer' = Pause /\ inbox' = inbox /\ inbox # <<>>
        /\ PingWhenDue(Forms(Head(inbox)))
    BY <1>3 DEF GetsPong, GetsPacket, EndOfDelay
  <2>2. /\ mtx' \in FromMaster /\ stx' \in FromPinpad
        /\ UNCHANGED <<mtx, stx>> \/ (~Answering' /\ mtx'.left = PacketTime
                                       /\ (Heard' => request = "nothing"))
    <3>1. Forms(Head(inbox)) \in SUBSET Words
      BY DEF Words, Forms
    <3> QED
      BY <1>0, <2>1, <3>1, PingEffect
  <2>3. Behind = inbox /\ Behind' = <<>> /\ Handling'
    BY <1>0, <2>1, ShortSequences DEF Behind, Handling, OneConversation
  <2>4. TalkTypeOK'
    BY <1>0, <2>1, <2>2, TimesAreTimes DEF TalkTypeOK
  <2>5. Heard' => request = "nothing"
    BY <2>2 DEF Heard, InStep
  <2>6. InStep'
    BY <1>0, <2>1, <2>3, <2>5 DEF InStep
  <2>7. ~InFlight /\ ~Asked /\ ~Answering
    BY <2>1, <2>3 DEF OneConversation
  <2>8. ~Asked' /\ ~Answering' /\ (InFlight' => mtx'.left = PacketTime)
    BY <1>0, <2>2, <2>7 DEF InFlight, Answering, Heard
  <2>9. OneConversation'
    <3>1. Len(<<>>) <= 1
      OBVIOUS
    <3> QED
      BY <2>3, <2>8, <3>1 DEF OneConversation
  <2>10. NoAnswerYet'
    BY <2>1, <2>3, <2>8, TimesAreTimes DEF NoAnswerYet
  <2> QED
    BY <2>4, <2>6, <2>9, <2>10
<1>4. CASE SendRequest
  <2>1. /\ mpc = "request" /\ mpc' = "requested" /\ mtimer' = Pause /\ inbox' = inbox
        /\ MasterSends("send") \/ MasterSends("foreign")
    BY <1>4 DEF SendRequest
  <2>2. /\ mtx' \in FromMaster /\ stx' \in FromPinpad /\ ~Answering' /\ (Heard' => request = "nothing")
    <3>1. "send" \in Words /\ "foreign" \in Words
      BY DEF Words
    <3> QED
      BY <1>0, <2>1, <3>1, MasterSendsEffect
  <2>3. Behind' = <<>> /\ Handling /\ Handling'
    BY <2>1 DEF Behind, Handling, NoAnswerYet
  <2>4. TalkTypeOK'
    BY <1>0, <2>1, <2>2, TimesAreTimes DEF TalkTypeOK
  <2>6. InStep'
    BY <1>0, <2>1, <2>2, <2>3 DEF InStep
  <2>7. OneConversation'
    <3>1. InFlight' => ~Asked
      BY <2>2 DEF InFlight, Asked, Asks
    <3>2. Len(<<>>) <= 1
      OBVIOUS
    <3> QED
      BY <1>0, <2>2, <2>3, <3>1, <3>2 DEF OneConversation
  <2> QED
    BY <2>1, <2>4, <2>6, <2>7 DEF NoAnswerYet
<1>5. CASE Requested
  <2>1. /\ mpc = "requested" /\ mpc' = "top" /\ mtimer' = mtimer /\ inbox' = Tail(inbox)
        /\ UNCHANGED <<mtx, stx>>
    BY <1>5 DEF Requested, PassOn
  <2>2. Behind' = Behind /\ Handling /\ ~Handling' /\ inbox # <<>>
    BY <2>1 DEF Behind, Handling, InStep
  <2>3. TalkTypeOK'
    BY <1>0, <2>1, <2>2, ShortSequences DEF TalkTypeOK
  <2>4. (InFlight' <=> InFlight) /\ (Answering' <=> Answering) /\ (Heard' <=> Heard)
    BY <2>1 DEF InFlight, Answering, Heard
  <2>5. InStep' /\ OneConversation'
    BY <1>0, <2>2, <2>4 DEF InStep, OneConversation
  <2> QED
    BY <2>1, <2>3, <2>5 DEF NoAnswerYet
<1> QED
  BY <1>1, <1>2, <1>3, <1>4, <1>5 DEF Master

\* The packets the pinpad sends.
LEMMA SentFits ==
    ASSUME QueueTypeOK PROVE Pong(packetcnt) \in Sent /\ Reply(PacketAt(rb_next)) \in Sent
<1>1. Pong(packetcnt) \in Sent
  BY DEF QueueTypeOK, Sent
<1>2. PacketAt(rb_next) \in [head : Bytes, body : Bytes, rest : Bytes]
  <2>1. rb_next \in 0 .. Slots /\ rb_next + 1 \in 0 .. Slots
    BY SlotsIsSize DEF QueueTypeOK, Slot
  <2>2. /\ rbuffer[rb_next].head \in Bytes /\ rbuffer[rb_next].body \in Bytes
        /\ rbuffer[rb_next + 1].head \in Bytes /\ Nothing \in Bytes
    BY <2>1 DEF QueueTypeOK, Bytes
  <2> QED
    BY <2>2 DEF PacketAt
<1> QED
  BY <1>1, <1>2 DEF Sent

\* The steps of the pinpad that do not transmit.
LEMMA TalkQuietly ==
    ASSUME TalkInv, UNCHANGED <<mpc, mtimer, inbox, mtx, stx>>, TalkTypeOK', InStep',
           Asked' => Asked,
           Asked /\ spc \in {"pong", "fetch"} => UNCHANGED <<spc, stimer>>,
           Asked' /\ spc' \in {"pong", "fetch"} => UNCHANGED <<spc, stimer>> \/ stimer' = Pause
    PROVE  TalkInv'
<1>1. /\ (InFlight' <=> InFlight) /\ (Answering' <=> Answering) /\ Behind' = Behind
  BY DEF InFlight, Answering, Heard, Behind, Handling
<1>2. OneConversation'
  BY <1>1 DEF TalkInv, OneConversation
<1>3. NoAnswerYet'
  BY <1>1 DEF TalkInv, NoAnswerYet
<1> QED
  BY <1>2, <1>3 DEF TalkInv

\* The pinpad's steps: an answer takes the place of what was asked.
LEMMA TalkPinpad == ASSUME TalkInv, QueueTypeOK, Pinpad PROVE TalkInv'
<1>0. /\ TalkTypeOK /\ InStep /\ OneConversation /\ NoAnswerYet
      /\ UNCHANGED <<mpc, mtimer, inbox>> /\ (Handling' <=> Handling) /\ Behind' = Behind
  <2>1. UNCHANGED <<mpc, mtimer, inbox>>
    BY DEF Pinpad, Event, Continue, Begin, SendPong, SendSlot, SlotSent, Opened, Ignore, master
  <2> QED
    BY <2>1 DEF TalkInv, Handling, Behind
<1>n. "nothing" \in Words /\ "nothing" \notin Asks /\ "command" \notin Asks
  BY DEF Words, Asks
<1>1. ASSUME NEW m \in Messages, NEW stall \in Stalls, Event(m, stall) PROVE TalkInv'
  <2>1. /\ UNCHANGED <<request, mtx, stx>> /\ spc = "main" /\ spc' \in {"main", "busy"}
        /\ stimer' \in Int
    BY <1>1, TimesAreTimes DEF Event
  <2>2. TalkTypeOK' /\ InStep'
    BY <1>0, <2>1 DEF TalkTypeOK, InStep, Heard
  <2>3. Asked' => Asked
    BY <2>1 DEF Asked
  <2> QED
    BY <1>0, <2>1, <2>2, <2>3, TalkQuietly
<1>2. CASE Continue
  <2>1. UNCHANGED <<request, mtx, stx, stimer>> /\ spc \in {"busy", "boot"} /\ spc' = "main"
    BY <1>2 DEF Continue
  <2>2. TalkTypeOK' /\ InStep'
    BY <1>0, <2>1 DEF TalkTypeOK, InStep, Heard
  <2>3. Asked' => Asked
    BY <2>1 DEF Asked
  <2> QED
    BY <1>0, <2>1, <2>2, <2>3, TalkQuietly
<1>3. CASE \/ Begin("ping", "pong", Pause) \/ Begin("send", "fetch", Pause)
           \/ Begin("command", "open", DoorTime)
  <2>1. /\ UNCHANGED <<request, mtx, stx>> /\ spc = "main"
        /\ \/ request = "ping" /\ spc' = "pong" /\ stimer' = Pause
           \/ request = "send" /\ spc' = "fetch" /\ stimer' = Pause
           \/ request = "command" /\ spc' = "open" /\ stimer' = DoorTime
    BY <1>3 DEF Begin
  <2>2. TalkTypeOK' /\ InStep'
    BY <1>0, <2>1, TimesAreTimes DEF TalkTypeOK, InStep, Heard
  <2>3. Asked' => Asked
    BY <2>1 DEF Asked
  <2>4. spc' \in {"pong", "fetch"} => stimer' = Pause
    BY <2>1
  <2> QED
    BY <1>0, <2>1, <2>2, <2>3, <2>4, TalkQuietly
<1>4. CASE SlotSent \/ Opened \/ Ignore
  <2>1. /\ UNCHANGED <<mtx, stx, stimer>> /\ request' = "nothing" /\ spc' = "main"
        /\ ~Asked
    BY <1>0, <1>4, <1>n DEF SlotSent, Opened, Ignore, Done, Asked, InStep, Asks
  <2>2. TalkTypeOK' /\ InStep'
    BY <1>0, <1>n, <2>1 DEF TalkTypeOK, InStep, Heard
  <2>3. ~Asked'
    BY <1>n, <2>1 DEF Asked
  <2> QED
    BY <1>0, <2>1, <2>2, <2>3, TalkQuietly
<1>5. CASE SendPong \/ SendSlot
  <2>1. /\ spc \in {"pong", "fetch"} /\ stimer = 0 /\ Asked /\ ~Asked'
        /\ PinpadSends(Pong(packetcnt)) \/ PinpadSends(Reply(PacketAt(rb_next)))
        /\ \/ request' = "nothing" /\ spc' = "main" /\ stimer' = stimer
           \/ request' = request /\ spc = "fetch" /\ spc' = "fetched" /\ stimer' = Pause
    BY <1>0, <1>5, <1>n DEF SendPong, SendSlot, Done, Asked, InStep, Asks
  <2>2. /\ mtx' \in FromMaster /\ stx' \in FromPinpad
        /\ ~InFlight' /\ (Heard' => Heard)
    BY <1>0, <2>1, SentFits, PinpadSendsEffect
  <2>3. TalkTypeOK' /\ InStep'
    BY <1>0, <1>n, <2>1, <2>2, TimesAreTimes DEF TalkTypeOK, InStep
  <2>4. Behind = <<>>
    BY <1>0, <2>1 DEF OneConversation
  <2>5. OneConversation'
    <3>1. Len(<<>>) <= 1
      OBVIOUS
    <3> QED
      BY <1>0, <2>1, <2>2, <2>4, <3>1 DEF OneConversation
  <2>6. mpc' # "request"
    BY <1>0, <2>1, TimesAreTimes DEF NoAnswerYet, TalkTypeOK
  <2> QED
    BY <2>3, <2>5, <2>6 DEF TalkInv, NoAnswerYet
<1> QED
  BY <1>1, <1>2, <1>3, <1>4, <1>5 DEF Pinpad

\* The line, time, and a restart of the pinpad.
LEMMA TalkLine ==
    ASSUME TalkInv, QueueTypeOK, Arrive \/ Lose \/ Restart \/ Tick \/ UNCHANGED pollVars
    PROVE  TalkInv'
<1>0. TalkTypeOK /\ InStep /\ OneConversation /\ NoAnswerYet
  BY DEF TalkInv
<1>n. "nothing" \in Words /\ "nothing" \notin Asks /\ "command" \notin Asks
  BY DEF Words, Asks
<1>e. Len(<<>>) <= 1
  OBVIOUS
<1>1. CASE ArrivesAtPinpad
  <2>1. /\ mtx # Quiet /\ mtx.left = 0 /\ mtx' = Quiet
        /\ request' = IF mtx.heard /\ ~mtx.bad THEN mtx.what.kind ELSE request
        /\ UNCHANGED <<mpc, mtimer, inbox, spc, stimer, stx>>
    BY <1>1 DEF ArrivesAtPinpad, master
  <2>2. TalkTypeOK'
    <3>1. mtx.what.kind \in Words
      BY <1>0 DEF TalkTypeOK, FromMaster
    <3> QED
      BY <1>0, <2>1, <3>1, QuietFits DEF TalkTypeOK
  <2>3. ~Heard' /\ ~InFlight' /\ (Answering' <=> Answering) /\ Behind' = Behind /\ (Handling' <=> Handling)
    BY <2>1 DEF Heard, InFlight, Answering, Behind, Handling
  <2>4. InStep'
    <3>1. CASE mtx.heard /\ ~mtx.bad
      <4>1. request = "nothing"
        BY <1>0, <2>1, <3>1 DEF InStep, Heard
      <4>2. spc \notin {"pong", "fetch", "fetched", "open"}
        BY <1>0, <4>1 DEF InStep
      <4> QED
        BY <1>0, <2>1, <2>3, <4>2 DEF InStep
    <3>2. CASE ~(mtx.heard /\ ~mtx.bad)
      BY <1>0, <2>1, <2>3, <3>2 DEF InStep
    <3> QED
      BY <3>1, <3>2
  <2>5. Asked' => Asked \/ (InFlight /\ spc \notin {"pong", "fetch", "fetched"})
    <3>1. CASE mtx.heard /\ ~mtx.bad
      <4>1. request = "nothing"
        BY <1>0, <2>1, <3>1 DEF InStep, Heard
      <4>2. spc \notin {"pong", "fetch", "fetched"}
        BY <1>0, <4>1 DEF InStep
      <4> QED
        BY <2>1, <3>1, <4>2 DEF Asked, InFlight, Heard
    <3>2. CASE ~(mtx.heard /\ ~mtx.bad)
      BY <2>1, <3>2 DEF Asked
    <3> QED
      BY <3>1, <3>2
  <2>6. OneConversation'
    BY <1>0, <2>3, <2>5 DEF OneConversation
  <2>7. NoAnswerYet'
    <3>1. CASE Asked
      BY <1>0, <2>1, <2>3, <3>1 DEF NoAnswerYet
    <3>2. CASE ~Asked
      <4>1. mpc = "request" /\ Asked' =>
               mtimer + PacketTime <= Pause /\ spc \notin {"pong", "fetch"}
        BY <1>0, <2>1, <2>5, <3>2, TimesAreTimes DEF NoAnswerYet
      <4> QED
        BY <1>0, <2>1, <2>3, <4>1 DEF NoAnswerYet
    <3> QED
      BY <3>1, <3>2
  <2> QED
    BY <2>2, <2>4, <2>6, <2>7 DEF TalkInv
<1>2. CASE ArrivesAtMaster
  <2>1. /\ stx # Quiet /\ stx' = Quiet
        /\ inbox' = IF stx.bad THEN inbox ELSE Append(inbox, stx.what)
        /\ UNCHANGED <<mpc, mtimer, spc, stimer, request, mtx>>
    BY <1>2 DEF ArrivesAtMaster, slave
  <2>2. /\ ~Answering' /\ (InFlight' <=> InFlight) /\ (Asked' <=> Asked) /\ (Heard' <=> Heard)
        /\ (Handling' <=> Handling) /\ stx.what \in Sent /\ inbox \in Seq(Sent)
    BY <1>0, <2>1 DEF Answering, InFlight, Asked, Heard, Handling, TalkTypeOK, FromPinpad
  <2>3. TalkTypeOK' /\ InStep'
    BY <1>0, <2>1, <2>2, QuietFits, ShortSequences DEF TalkTypeOK, InStep
  <2>4. CASE Answering
    <3>1. Behind = <<>> /\ ~InFlight /\ ~Asked /\ mpc # "request"
      BY <1>0, <2>4 DEF OneConversation, NoAnswerYet
    <3>2. Behind' = Append(Behind, stx.what)
      BY <1>0, <2>1, <2>2, <2>4, ShortSequences DEF Behind, Answering, InStep
    <3>3. Len(Behind') = 1
      BY <2>2, <3>1, <3>2
    <3> QED
      BY <2>1, <2>2, <2>3, <3>1, <3>3 DEF TalkInv, OneConversation, NoAnswerYet
  <2>5. CASE ~Answering
    <3>1. Behind' = Behind
      BY <2>1, <2>5 DEF Behind, Answering, Handling
    <3>2. OneConversation' /\ NoAnswerYet'
      BY <1>0, <2>1, <2>2, <2>5, <3>1 DEF OneConversation, NoAnswerYet
    <3> QED
      BY <2>3, <3>2 DEF TalkInv
  <2> QED
    BY <2>4, <2>5
<1>3. CASE Lose
  <2>1. /\ mtx' = mtx \/ mtx' = Spoil(mtx)
        /\ stx' = stx \/ stx' = Spoil(stx)
        /\ UNCHANGED <<mpc, mtimer, inbox, spc, stimer, request>>
    BY <1>3 DEF Lose, master, slave
  <2>2. TalkTypeOK' /\ (Heard' => Heard)
    BY <1>0, <2>1, SpoilMaster, SpoilPinpad DEF TalkTypeOK, Heard
  <2>3. /\ (InFlight' => InFlight /\ mtx' = mtx) /\ (Answering' => Answering)
        /\ (Asked' <=> Asked) /\ (Handling' <=> Handling) /\ Behind' = Behind
    BY <1>0, <2>1, SpoilMaster, SpoilPinpad
    DEF TalkTypeOK, InFlight, Heard, Answering, Asked, Handling, Behind
  <2>4. InStep' /\ OneConversation' /\ NoAnswerYet'
    BY <1>0, <2>1, <2>2, <2>3 DEF InStep, OneConversation, NoAnswerYet
  <2> QED
    BY <2>2, <2>4 DEF TalkInv
<1>4. CASE Restart
  <2>1. /\ request' = "nothing" /\ spc' = "boot" /\ stimer' = BootTime /\ stx' = Spoil(stx)
        /\ mtx' = IF mtx = Quiet THEN Quiet ELSE [mtx EXCEPT !.heard = FALSE]
        /\ UNCHANGED <<mpc, mtimer, inbox>>
    BY <1>4 DEF Restart, master
  <2>2. /\ mtx' \in FromMaster /\ stx' \in FromPinpad /\ ~Heard' /\ ~InFlight' /\ ~Answering'
    BY <1>0, <2>1, SpoilPinpad, QuietFits DEF TalkTypeOK, FromMaster, Heard, InFlight, Answering
  <2>3. ~Asked' /\ (Handling' <=> Handling) /\ Behind' = Behind
    BY <1>n, <2>1 DEF Asked, Handling, Behind
  <2>4. TalkTypeOK' /\ InStep'
    BY <1>0, <1>n, <2>1, <2>2, <2>3, TimesAreTimes DEF TalkTypeOK, InStep
  <2>5. OneConversation' /\ NoAnswerYet'
    BY <1>0, <2>1, <2>2, <2>3 DEF OneConversation, NoAnswerYet
  <2> QED
    BY <2>4, <2>5 DEF TalkInv
<1>5. CASE Tick
  <2>1. /\ mtimer > 0 /\ mtimer' = mtimer - 1 /\ mtx' = Down(mtx) /\ stx' = Down(stx)
        /\ spc = "main" => request = "nothing"
        /\ stimer' = IF spc = "main" THEN stimer ELSE stimer - 1
        /\ UNCHANGED <<mpc, inbox, spc, request>>
    BY <1>5 DEF Tick
  <2>2. /\ mtx' \in FromMaster /\ (Heard' => Heard)
        /\ InFlight' => InFlight /\ mtx'.left = mtx.left - 1
    BY <1>0, <2>1, QuietFits DEF TalkTypeOK, FromMaster, Down, Heard, InFlight
  <2>3. stx' \in FromPinpad /\ (Answering' => Answering)
    BY <1>0, <2>1, QuietFits DEF TalkTypeOK, FromPinpad, Down, Answering
  <2>4. (Asked' <=> Asked) /\ (Handling' <=> Handling) /\ Behind' = Behind
    BY <2>1 DEF Asked, Handling, Behind
  <2>5. TalkTypeOK' /\ InStep'
    BY <1>0, <2>1, <2>2, <2>3, <2>4 DEF TalkTypeOK, InStep
  <2>6. OneConversation'
    BY <1>0, <2>2, <2>3, <2>4 DEF OneConversation
  <2>7. NoAnswerYet'
    <3>1. mtx.left \in Int /\ mtimer \in Nat /\ stimer \in Int
      BY <1>0 DEF TalkTypeOK, FromMaster
    <3> QED
      BY <1>0, <2>1, <2>2, <2>3, <2>4, <3>1, TimesAreTimes DEF NoAnswerYet
  <2> QED
    BY <2>5, <2>6, <2>7 DEF TalkInv
<1>6. CASE UNCHANGED pollVars
  BY <1>6 DEF pollVars, master, slave, TalkInv, TalkTypeOK, InStep, OneConversation, NoAnswerYet,
     InFlight, Heard, Asked, Answering, Behind, Handling
<1> QED
  BY <1>1, <1>2, <1>3, <1>4, <1>5, <1>6 DEF Arrive

\* Every step.
LEMMA TalkNext ==
    ASSUME QueueInv, TalkInv, [PollNext]_pollVars PROVE TalkInv'
BY TalkMaster, TalkPinpad, TalkLine DEF PollNext, QueueInv

\* Whatever the delays are, as long as a packet takes time and both programs wait
\* equally long, whatever is lost, comes from the Ethernet or restarts: at most one
\* conversation is going on.
THEOREM TalkInvariant == PollSpec => [](QueueInv /\ TalkInv)
<1>1. PollInit => TalkInv
  BY TalkInit
<1>2. QueueInv /\ TalkInv /\ [PollNext]_pollVars => TalkInv'
  BY TalkNext
<1> QED
  BY <1>1, <1>2, BufferUnderProtocol, QueueInvariant, PTL DEF PollSpec

\* So the busmaster's ring never holds more than the packet it handles and the one
\* behind it.
THEOREM BusmasterKeepsUp == PollSpec => []MasterKeepsUp
<1>1. TalkInv => MasterKeepsUp
  <2> SUFFICES ASSUME TalkInv PROVE MasterKeepsUp
    OBVIOUS
  <2>1. inbox \in Seq(Sent) /\ Len(Behind) <= 1
    BY DEF TalkInv, TalkTypeOK, OneConversation
  <2>2. CASE Handling
    <3>1. inbox # <<>> /\ Len(Tail(inbox)) <= 1
      BY <2>1, <2>2 DEF TalkInv, InStep, Behind
    <3> QED
      BY <2>1, <3>1 DEF MasterKeepsUp
  <2>3. CASE ~Handling
    BY <2>1, <2>3 DEF Behind, MasterKeepsUp
  <2> QED
    BY <2>2, <2>3
<1> QED
  BY <1>1, TalkInvariant, PTL

-----------------------------------------------------------------------------
(* Requests find a packet waiting.                                         *)

\* A request is on its way or waits at the pinpad.
Requesting ==
    \/ InFlight /\ mtx.what.kind = "send"
    \/ Asked /\ request = "send"

\* The packets the busmaster counts on.
Due == burst_remain + (IF Requesting \/ mpc = "request" THEN 1 ELSE 0)

\* A pong that is not yet handled announces no more than waits, and the busmaster
\* counts on no more: the packets of the burst, and the one it has requested or is
\* about to.  A ping that turned into a request goes out while the busmaster still
\* waits with its own, which is then not heard: the two count as one.  No packet
\* comes from an empty slot: the busmaster would take a payload of before for its.
CountsRight ==
    /\ burst_remain \in Nat /\ Due <= packetcnt
    /\ Answering /\ stx.what.kind = "pong" => stx.what.count <= packetcnt
    /\ Behind # <<>> /\ Behind[1].kind = "pong" => Behind[1].count <= packetcnt
    /\ Answering => ~Blank(stx.what)
    /\ Behind # <<>> => ~Blank(Behind[1])

\* The slots between the indices have been written.
Filled == \A k \in 1 .. Pending : rbuffer[(rb_next + k - 1) % Slots].head # Nothing

\* After a restart the busmaster counts on packets that are gone.
CountsInv ==
    /\ restarts \in Nat
    /\ restarts = 0 => CountIsPending /\ Filled /\ CountsRight

\* The counter of waiting packets does not wrap: a full buffer refuses a message,
\* and a packet is taken only while one waits.
LEMMA CountGrows ==
    ASSUME QueueInv, CountIsPending, NEW m \in Messages, senddata(m)
    PROVE  packetcnt' \in Nat /\ packetcnt <= packetcnt' /\ CountIsPending'
<1>0. rb_current \in Slot /\ rb_next \in Slot /\ packetcnt \in 0 .. 255
  BY DEF QueueInv, QueueTypeOK
<1>1. CASE NextSlot(rb_current) = rb_next
  BY <1>0, <1>1, SendDataKeeps DEF senddata, queueVars
<1>2. CASE NextSlot(rb_current) # rb_next
  <2>1. packetcnt \in Nat /\ packetcnt + 1 < Slots /\ Slots <= 32
    BY <1>0, <1>2, RoomForOne, QueueAssumption DEF CountIsPending, Pending, QueueAssumption
  <2>2. (packetcnt + 1) % 256 = packetcnt + 1
    BY <2>1, SlotsIsSize, SMT
  <2> QED
    BY <1>0, <1>2, <2>2, SendDataKeeps DEF senddata
<1> QED
  BY <1>1, <1>2

LEMMA CountFalls ==
    ASSUME QueueInv, CountIsPending, packetcnt > 0, take_next
    PROVE  packetcnt' = packetcnt - 1 /\ CountIsPending'
<1>1. packetcnt \in 0 .. 255 /\ packetcnt' = (packetcnt - 1) % 256
  BY DEF QueueInv, QueueTypeOK, take_next
<1>2. (packetcnt - 1) % 256 = packetcnt - 1
  BY <1>1
<1> QED
  BY <1>1, <1>2, TakeNextKeeps

\* fmt_packet empties no slot.
LEMMA WrittenFills ==
    ASSUME QueueTypeOK, NEW m \in Messages, rbuffer' = Written(rb_current, m)
    PROVE  \A i \in Slot : i = rb_current \/ rbuffer[i].head # Nothing => rbuffer'[i].head # Nothing
<1> DEFINE own == [rbuffer EXCEPT ![rb_current] = [head |-> HeaderOf(m), body |-> HeaderOf(m)]]
<1>1. HeaderOf(m) # Nothing /\ EndOf(m) # Nothing
  <2>1. HeaderOf(m).kind = "header" /\ EndOf(m).kind = "end" /\ Nothing.kind = "nothing"
    BY DEF HeaderOf, EndOf, Nothing
  <2> QED
    BY <2>1
<1>2. rb_current \in 0 .. Slots /\ Slot \subseteq 0 .. Slots /\ DOMAIN rbuffer = 0 .. Slots
  BY SlotsIsSize DEF QueueTypeOK, Slot
<1>3. \A i \in Slot : i = rb_current \/ rbuffer[i].head # Nothing => own[i].head # Nothing
  BY <1>1, <1>2
<1>4. CASE m \in LongMessages
  <2>1. rbuffer' = [own EXCEPT ![rb_current + 1].head = EndOf(m)] /\ DOMAIN own = 0 .. Slots
    BY <1>2, <1>4 DEF Written
  <2>2. \A i \in Slot : rbuffer'[i] = IF i = rb_current + 1 THEN [own[i] EXCEPT !.head = EndOf(m)]
                                      ELSE own[i]
    BY <1>2, <2>1
  <2>3. rb_current + 1 \in Slot => own[rb_current + 1] = rbuffer[rb_current + 1]
    BY <1>2, SlotsIsSize DEF Slot
  <2>4. ASSUME NEW i \in Slot, i = rb_current + 1 PROVE rbuffer'[i].head = EndOf(m)
    <3>1. own[i] \in [head : Bytes, body : Bytes]
      BY <1>2, <2>3, <2>4 DEF QueueTypeOK
    <3> QED
      BY <2>2, <2>4, <3>1
  <2> QED
    BY <1>1, <1>3, <2>2, <2>4
<1>5. CASE m \notin LongMessages
  BY <1>3, <1>5 DEF Written
<1> QED
  BY <1>4, <1>5

\* So polite requests leave the waiting slots written.
LEMMA FilledKept ==
    ASSUME QueueInv, CountIsPending, Filled, [PoliteNext]_queueVars PROVE Filled'
<1>0. /\ rb_current \in Slot /\ rb_next \in Slot /\ QueueTypeOK
      /\ Pending \in 0 .. Slots - 1 /\ Slots \in Nat
  BY QueuedIsSeq, SlotsIsSize DEF QueueInv, QueueTypeOK
<1>1. ASSUME NEW m \in Messages, senddata(m) PROVE Filled'
  <2>1. CASE NextSlot(rb_current) = rb_next
    BY <1>1, <2>1 DEF senddata, queueVars, Filled, Pending
  <2>2. CASE NextSlot(rb_current) # rb_next
    <3>1. /\ rbuffer' = Written(rb_current, m) /\ rb_current' = NextSlot(rb_current)
          /\ rb_next' = rb_next
      BY <1>1, <2>2 DEF senddata
    <3>2. Pending' = (Pending + 1) % Slots /\ Pending + 1 < Slots
      BY <1>0, <2>2, <3>1, WriterStep, RoomForOne DEF Pending
    <3>3. Pending' = Pending + 1
      BY <1>0, <3>2
    <3>4. ASSUME NEW k \in 1 .. Pending + 1
          PROVE  rbuffer'[(rb_next + k - 1) % Slots].head # Nothing
      <4>1. CASE k = Pending + 1
        <5>1. (rb_next + ((rb_current - rb_next) % Slots)) % Slots = rb_current
          BY <1>0, WaitingSlots
        <5>2. rb_next + k - 1 = rb_next + ((rb_current - rb_next) % Slots)
          BY <1>0, <4>1 DEF Pending, Slot
        <5> QED
          BY <1>0, <3>1, <5>1, <5>2, WrittenFills
      <4>2. CASE k # Pending + 1
        <5>1. k \in 1 .. Pending
          BY <1>0, <4>2
        <5>2. (rb_next + k - 1) % Slots \in Slot
          BY <1>0, <5>1, WaitingSlots DEF Pending
        <5> QED
          BY <1>0, <3>1, <5>1, <5>2, WrittenFills DEF Filled
      <4> QED
        BY <4>1, <4>2
    <3> QED
      BY <3>1, <3>3, <3>4 DEF Filled
  <2> QED
    BY <2>1, <2>2
<1>2. CASE packetcnt > 0 /\ take_next
  <2>1. Pending > 0 /\ rbuffer' = rbuffer /\ rb_next' = NextSlot(rb_next)
    BY <1>2 DEF CountIsPending, take_next
  <2>2. Pending' = Pending - 1
    BY <1>2, <2>1, TakeNextTakes
  <2>3. ASSUME NEW k \in 1 .. Pending - 1
        PROVE  (NextSlot(rb_next) + k - 1) % Slots = (rb_next + (k + 1) - 1) % Slots
    BY <1>0, WaitingSlots
  <2>4. ASSUME NEW k \in 1 .. Pending - 1
        PROVE  rbuffer'[(rb_next' + k - 1) % Slots].head # Nothing
    <3>1. k + 1 \in 1 .. Pending
      BY <1>0
    <3> QED
      BY <2>1, <2>3, <3>1 DEF Filled
  <2> QED
    BY <2>2, <2>4 DEF Filled
<1>3. CASE restart
  BY <1>3, RestartEmpties DEF Filled
<1>4. CASE UNCHANGED queueVars
  BY <1>4 DEF queueVars, Filled, Pending
<1> QED
  BY <1>1, <1>2, <1>3, <1>4 DEF PoliteNext

\* What a pong announces is a number.
LEMMA SentCounts == \A x \in Sent : x.kind = "pong" => x.count \in Nat
BY DEF Sent, Pong, Reply, Nothing

\* The packet behind is one the pinpad sent.
LEMMA BehindFits ==
    ASSUME TalkInv PROVE Behind \in Seq(Sent) /\ (Behind # <<>> => Behind[1] \in Sent)
<1>1. inbox \in Seq(Sent) /\ (Handling => inbox # <<>>)
  BY DEF TalkInv, TalkTypeOK, InStep
<1>2. Behind \in Seq(Sent)
  BY <1>1 DEF Behind
<1> QED
  BY <1>2

\* The busmaster counts on no more than before.
LEMMA DueFalls ==
    ASSUME CountsRight, packetcnt \in Nat, burst_remain' = burst_remain,
           Requesting' => Requesting, mpc' = "request" => mpc = "request"
    PROVE  burst_remain' \in Nat /\ Due' \in Nat /\ Due' <= packetcnt
BY DEF Due, CountsRight

\* Steps that announce nothing, request nothing and take nothing.
LEMMA CountsKept ==
    ASSUME TalkInv, CountsRight,
           packetcnt \in Nat, packetcnt' \in Nat, packetcnt <= packetcnt',
           burst_remain' = burst_remain,
           Requesting' => Requesting,
           mpc' = "request" => mpc = "request",
           Answering' => Answering /\ stx'.what = stx.what,
           Behind' # <<>> => Behind' = Behind
    PROVE  CountsRight'
<1>1. burst_remain' \in Nat /\ Due' <= packetcnt'
  BY DueFalls
<1>2. Answering' /\ stx'.what.kind = "pong" => stx'.what.count <= packetcnt'
  <2>1. stx.what.kind = "pong" => stx.what.count \in Nat
    BY SentCounts DEF TalkInv, TalkTypeOK, FromPinpad
  <2> QED
    BY <2>1 DEF CountsRight
<1>3. Behind' # <<>> /\ Behind[1]'.kind = "pong" => Behind[1]'.count <= packetcnt'
  <2>1. Behind # <<>> /\ Behind[1].kind = "pong" => Behind[1].count \in Nat
    BY BehindFits, SentCounts
  <2> QED
    BY <2>1 DEF CountsRight
<1> QED
  BY <1>1, <1>2, <1>3 DEF CountsRight

\* The busmaster's steps: it takes the number from a pong that is still true, and
\* counts the burst down with every request.
LEMMA MasterCounts ==
    ASSUME QueueInv, TalkInv, TalkInv', CountsRight, Master PROVE CountsRight'
<1>0. /\ TalkTypeOK /\ UNCHANGED <<packetcnt, spc, request>> /\ packetcnt \in 0 .. 255
      /\ (Asked' <=> Asked)
  BY DEF Master, Forward, NoUdp, NothingReceived, GetsPong, GetsPacket, GetsOther,
         SendRequest, Requested, slave, TalkInv, queueVars, QueueInv, QueueTypeOK, Asked
<1>w. /\ "command" \in Words /\ "send" \in Words /\ "foreign" \in Words
      /\ {"ping"} \in SUBSET Words
  BY DEF Words
<1>1. CASE Forward \/ NoUdp
  <2>1. /\ mpc = "top" /\ mpc' = "pass" /\ UNCHANGED <<inbox, burst_remain>>
        /\ MasterSends("command") \/ UNCHANGED <<mtx, stx>>
    BY <1>1 DEF Forward, NoUdp
  <2>2. UNCHANGED <<mtx, stx>> \/ (~Answering' /\ mtx'.what.kind = "command")
    BY <1>0, <1>w, <2>1, MasterSendsEffect
  <2>3. (Requesting' => Requesting) /\ (Answering' => Answering /\ stx'.what = stx.what)
    BY <1>0, <2>2 DEF Requesting, InFlight, Heard, Answering
  <2>4. Behind' = Behind
    BY <2>1 DEF Behind, Handling
  <2> QED
    BY <1>0, <2>1, <2>3, <2>4, CountsKept
<1>2. CASE NothingReceived \/ GetsOther
  <2>1. /\ mpc = "pass" /\ mpc' = "top" /\ PingWhenDue({"ping"})
        /\ burst_remain' \in {0, burst_remain}
    BY <1>2 DEF NothingReceived, GetsOther, EndOfDelay
  <2>2. UNCHANGED <<mtx, stx>> \/ (~Answering' /\ mtx'.what.kind = "ping")
    BY <1>0, <1>w, <2>1, PingEffect
  <2>3. (Requesting' => Requesting) /\ (Answering' => Answering /\ stx'.what = stx.what)
    BY <1>0, <2>2 DEF Requesting, InFlight, Heard, Answering
  <2>4. Behind' = <<>>
    <3>1. Behind = inbox /\ Behind' = inbox' /\ inbox \in Seq(Sent)
      BY <1>0, <2>1 DEF Behind, Handling, TalkTypeOK
    <3> QED
      BY <1>2, <3>1, ShortSequences DEF NothingReceived, GetsOther, EndOfDelay, PassOn, TalkInv,
         OneConversation
  <2>5. burst_remain' \in Nat /\ Due' <= packetcnt
    <3>1. CASE burst_remain' = burst_remain
      BY <1>0, <2>1, <2>3, <3>1, DueFalls
    <3>2. CASE burst_remain' = 0
      <4>1. Due' = IF Requesting' THEN 1 ELSE 0
        BY <2>1, <3>2 DEF Due
      <4>2. Requesting => packetcnt >= 1
        BY <1>0 DEF CountsRight, Due
      <4> QED
        BY <1>0, <2>3, <3>2, <4>1, <4>2
    <3> QED
      BY <2>1, <3>1, <3>2
  <2> QED
    BY <1>0, <2>3, <2>4, <2>5 DEF CountsRight
<1>3. CASE GetsPong \/ GetsPacket
  <2>1. /\ mpc = "pass" /\ mpc' = "request" /\ inbox # <<>> /\ inbox \in Seq(Sent)
    BY <1>0, <1>3 DEF GetsPong, GetsPacket, EndOfDelay, TalkTypeOK
  <2>2. Behind = inbox /\ Head(inbox) = inbox[1] /\ inbox[1] \in Sent
    BY <2>1 DEF Behind, Handling
  <2>6. \/ /\ inbox[1].kind = "pong" /\ inbox[1].count > 0
           /\ burst_remain' = inbox[1].count - 1
        \/ burst_remain > 0 /\ burst_remain' = burst_remain - 1
    <3>1. CASE GetsPong
      <4>1. /\ Payload(inbox[1]).kind = "pong" /\ Payload(inbox[1]).count > 0
            /\ burst_remain' = Payload(inbox[1]).count - 1
        BY <2>2, <3>1 DEF GetsPong, Announces, IsPong
      <4>2. ~Blank(inbox[1])
        BY <2>1, <2>2 DEF CountsRight
      <4>3. CASE inbox[1].kind = "pong"
        BY <4>1, <4>2, <4>3 DEF Payload
      <4>4. CASE inbox[1].kind # "pong"
        BY <4>1, <4>2, <4>4 DEF Payload
      <4> QED
        BY <4>3, <4>4
    <3>2. CASE GetsPacket
      BY <3>2 DEF GetsPacket, ContinuesBurst
    <3> QED
      BY <1>3, <3>1, <3>2
  <2>3. inbox[1].kind = "pong" => inbox[1].count \in Nat
    BY <2>2, SentCounts
  <2>4. burst_remain' \in Nat /\ burst_remain' + 1 <= packetcnt
    BY <1>0, <2>1, <2>2, <2>3, <2>6 DEF CountsRight, Due
  <2>5. ~Answering' /\ Behind' = <<>>
    BY <2>1 DEF TalkInv, NoAnswerYet
  <2> QED
    BY <1>0, <2>1, <2>4, <2>5 DEF CountsRight, Due
<1>4. CASE SendRequest
  <2>1. /\ mpc = "request" /\ mpc' = "requested" /\ UNCHANGED <<inbox, burst_remain>>
        /\ MasterSends("send") \/ MasterSends("foreign")
    BY <1>4 DEF SendRequest
  <2>2. ~Answering' /\ Behind' = <<>>
    BY <1>0, <1>w, <2>1, MasterSendsEffect DEF TalkInv, NoAnswerYet, Behind, Handling
  <2> QED
    BY <1>0, <2>1, <2>2 DEF CountsRight, Due
<1>5. CASE Requested
  <2>1. /\ mpc = "requested" /\ mpc' = "top" /\ UNCHANGED <<mtx, stx, burst_remain>>
        /\ Behind' = Behind
    BY <1>5 DEF Requested, PassOn, Behind, Handling
  <2>2. (Requesting' => Requesting) /\ (Answering' => Answering /\ stx'.what = stx.what)
    BY <1>0, <2>1 DEF Requesting, InFlight, Heard, Answering
  <2> QED
    BY <1>0, <2>1, <2>2, CountsKept
<1> QED
  BY <1>1, <1>2, <1>3, <1>4, <1>5 DEF Master

\* A request that the pinpad answers finds a packet.
LEMMA PacketWaits ==
    ASSUME TalkInv, CountsRight, packetcnt \in Nat, SendSlot PROVE packetcnt > 0
<1>1. Asked /\ request = "send"
  BY DEF SendSlot, TalkInv, InStep, Asked, Asks
<1> QED
  BY <1>1 DEF CountsRight, Requesting, Due

\* The pinpad's steps: a pong tells the number, an answer takes one packet and ends
\* the request.
LEMMA PinpadCounts ==
    ASSUME QueueInv, CountIsPending, Filled, TalkInv, TalkInv', CountsRight, Pinpad
    PROVE  CountIsPending' /\ CountsRight'
<1>0. /\ TalkTypeOK /\ InStep /\ OneConversation /\ packetcnt \in 0 .. 255
      /\ UNCHANGED <<mpc, inbox, burst_remain>> /\ Behind' = Behind
  <2>1. UNCHANGED <<mpc, inbox, burst_remain>>
    BY DEF Pinpad, Event, Continue, Begin, SendPong, SendSlot, SlotSent, Opened, Ignore, master
  <2> QED
    BY <2>1 DEF TalkInv, Behind, Handling, QueueInv, QueueTypeOK
<1>n. "nothing" \notin Asks
  BY DEF Asks
<1>1. CASE (\E m \in Messages, stall \in Stalls : Event(m, stall)) \/ Opened
  <2>1. PICK m \in Messages : senddata(m)
    BY <1>1, PollingAssumption DEF Event, Opened, Says, PollingAssumption
  <2>2. packetcnt' \in Nat /\ packetcnt <= packetcnt' /\ CountIsPending'
    BY <2>1, CountGrows
  <2>3. UNCHANGED <<mtx, stx>> /\ (Asked' => Asked /\ request' = request)
    BY <1>1, <1>n DEF Event, Opened, Done, Asked
  <2>4. (Requesting' => Requesting) /\ (Answering' => Answering /\ stx'.what = stx.what)
    BY <2>3 DEF Requesting, InFlight, Heard, Answering
  <2> QED
    BY <1>0, <2>2, <2>4, CountsKept
<1>2. CASE \/ Continue \/ SlotSent \/ Ignore
           \/ Begin("ping", "pong", Pause)
           \/ Begin("send", "fetch", Pause)
           \/ Begin("command", "open", DoorTime)
  <2>1. UNCHANGED <<queueVars, mtx, stx>> /\ (Asked' => Asked /\ request' = request)
    BY <1>2, <1>n DEF Continue, SlotSent, Ignore, Begin, Done, Asked
  <2>2. (Requesting' => Requesting) /\ (Answering' => Answering /\ stx'.what = stx.what)
    BY <2>1 DEF Requesting, InFlight, Heard, Answering
  <2>3. packetcnt' = packetcnt /\ CountIsPending'
    BY <2>1, StutterKeeps DEF queueVars
  <2> QED
    BY <1>0, <2>2, <2>3, CountsKept
<1>3. CASE SendPong
  <2>1. /\ PinpadSends(Pong(packetcnt)) /\ Asked /\ ~Asked' /\ UNCHANGED queueVars
    BY <1>0, <1>3, <1>n DEF SendPong, Done, Asked, InStep, Asks
  <2>2. ~InFlight' /\ stx'.what = Pong(packetcnt)
    BY <1>0, <2>1, SentFits, PinpadSendsEffect DEF QueueInv
  <2>3. ~Requesting' /\ Behind' = <<>> /\ stx'.what.count = packetcnt /\ ~Blank(stx'.what)
    BY <1>0, <2>1, <2>2 DEF Requesting, OneConversation, Pong, Blank
  <2>4. packetcnt' = packetcnt /\ CountIsPending'
    BY <2>1, StutterKeeps DEF queueVars
  <2>5. burst_remain' \in Nat /\ Due' <= packetcnt
    BY <1>0, <2>3, DueFalls
  <2> QED
    BY <1>0, <2>3, <2>4, <2>5 DEF CountsRight
<1>4. CASE SendSlot
  <2>1. /\ PinpadSends(Reply(PacketAt(rb_next))) /\ Asked /\ ~Asked' /\ take_next
        /\ request = "send" /\ stimer = 0 /\ spc = "fetch"
    BY <1>0, <1>4 DEF SendSlot, Asked, InStep, Asks
  <2>2. ~InFlight' /\ stx'.what = Reply(PacketAt(rb_next))
    BY <1>0, <2>1, SentFits, PinpadSendsEffect DEF QueueInv
  <2>3. ~Requesting' /\ Behind' = <<>> /\ stx'.what.kind # "pong"
    BY <1>0, <2>1, <2>2 DEF Requesting, OneConversation, Reply
  <2>4. packetcnt' = packetcnt - 1 /\ CountIsPending'
    BY <1>0, <1>4, <2>1, PacketWaits, CountFalls
  <2>5. mpc # "request"
    BY <1>0, <2>1, TimesAreTimes DEF TalkInv, NoAnswerYet, TalkTypeOK
  <2>8. ~Blank(stx'.what)
    <3>1. Pending >= 1 /\ (rb_next + 1 - 1) % Slots = rb_next /\ Pending \in Nat
      <4>1. packetcnt > 0
        BY <1>0, <1>4, PacketWaits
      <4>2. rb_next \in Slot
        BY DEF QueueInv, QueueTypeOK
      <4> QED
        BY <1>0, <4>1, <4>2, SlotsIsSize DEF CountIsPending, Slot
    <3>2. rbuffer[rb_next].head # Nothing
      BY <3>1 DEF Filled
    <3>3. stx'.what.packet.head = rbuffer[rb_next].head
      BY <2>2 DEF Reply, PacketAt
    <3> QED
      BY <3>2, <3>3 DEF Blank
  <2>6. burst_remain \in Nat /\ burst_remain + 1 <= packetcnt
    BY <2>1 DEF CountsRight, Requesting, Due
  <2>7. burst_remain' \in Nat /\ Due' <= packetcnt - 1
    BY <1>0, <2>3, <2>5, <2>6 DEF Due
  <2> QED
    BY <1>0, <2>3, <2>4, <2>7, <2>8 DEF CountsRight
<1> QED
  BY <1>1, <1>2, <1>3, <1>4 DEF Pinpad

\* The line and time change nothing about what is counted on.
LEMMA LineCounts ==
    ASSUME QueueInv, CountIsPending, TalkInv, TalkInv', CountsRight,
           Arrive \/ Lose \/ Tick \/ UNCHANGED pollVars
    PROVE  CountIsPending' /\ CountsRight'
<1>0. /\ TalkTypeOK /\ InStep /\ OneConversation /\ packetcnt \in 0 .. 255
      /\ UNCHANGED <<queueVars, packetcnt, mpc, burst_remain>> /\ CountIsPending'
  <2>1. UNCHANGED <<queueVars, mpc, burst_remain>>
    BY DEF Arrive, ArrivesAtPinpad, ArrivesAtMaster, Lose, Tick, pollVars, master
  <2> QED
    BY <2>1, StutterKeeps DEF queueVars, TalkInv, QueueInv, QueueTypeOK
<1>1. CASE ArrivesAtPinpad
  <2>1. /\ mtx # Quiet /\ mtx' = Quiet
        /\ request' = IF mtx.heard /\ ~mtx.bad THEN mtx.what.kind ELSE request
        /\ UNCHANGED <<inbox, spc, stx>>
    BY <1>1 DEF ArrivesAtPinpad, master
  <2>2. Behind' = Behind /\ (Answering' => Answering /\ stx'.what = stx.what)
    BY <1>0, <2>1 DEF Behind, Handling, Answering
  <2>3. Requesting' => Requesting
    <3>1. ~InFlight'
      BY <2>1 DEF InFlight, Heard
    <3>2. Asked' /\ request' = "send" => Requesting
      BY <2>1 DEF Requesting, InFlight, Heard, Asked
    <3> QED
      BY <3>1, <3>2 DEF Requesting
  <2> QED
    BY <1>0, <2>2, <2>3, CountsKept
<1>2. CASE ArrivesAtMaster
  <2>1. /\ stx # Quiet /\ stx' = Quiet
        /\ inbox' = IF stx.bad THEN inbox ELSE Append(inbox, stx.what)
        /\ UNCHANGED <<spc, request, mtx>>
    BY <1>2 DEF ArrivesAtMaster, slave
  <2>2. ~Answering' /\ (Requesting' => Requesting)
    BY <2>1 DEF Answering, Requesting, InFlight, Heard, Asked
  <2>3. CASE Answering
    <3>1. Behind = <<>> /\ stx.what \in Sent /\ inbox \in Seq(Sent)
      BY <1>0, <2>3 DEF OneConversation, TalkTypeOK, FromPinpad
    <3>2. Behind' = Append(Behind, stx.what)
      BY <1>0, <2>1, <2>3, <3>1, ShortSequences DEF Behind, Handling, Answering, InStep
    <3>3. Behind'[1] = stx.what
      BY <3>1, <3>2
    <3>4. burst_remain' \in Nat /\ Due' <= packetcnt
      BY <1>0, <2>2, DueFalls
    <3> QED
      BY <1>0, <2>2, <2>3, <3>3, <3>4 DEF CountsRight
  <2>4. CASE ~Answering
    <3>1. Behind' = Behind
      BY <1>0, <2>1, <2>4 DEF Behind, Answering, Handling
    <3> QED
      BY <1>0, <2>2, <3>1, CountsKept
  <2> QED
    BY <2>3, <2>4
<1>3. CASE Lose
  <2>1. /\ mtx' = mtx \/ mtx' = Spoil(mtx)
        /\ stx' = stx \/ stx' = Spoil(stx)
        /\ UNCHANGED <<inbox, spc, request>>
    BY <1>3 DEF Lose, master, slave
  <2>2. (InFlight' => InFlight /\ mtx' = mtx) /\ (Asked' <=> Asked) /\ Behind' = Behind
    BY <1>0, <2>1, SpoilMaster DEF TalkTypeOK, InFlight, Heard, Asked, Behind, Handling
  <2>3. Answering' => Answering /\ stx'.what = stx.what
    BY <1>0, <2>1, SpoilPinpad DEF TalkTypeOK, Answering
  <2>4. Requesting' => Requesting
    BY <2>1, <2>2 DEF Requesting
  <2> QED
    BY <1>0, <2>2, <2>3, <2>4, CountsKept
<1>4. CASE Tick
  <2>1. /\ mtx' = Down(mtx) /\ stx' = Down(stx) /\ UNCHANGED <<inbox, spc, request>>
    BY <1>4 DEF Tick
  <2>2. InFlight' => InFlight /\ mtx'.what = mtx.what
    BY <1>0, <2>1 DEF TalkTypeOK, FromMaster, Down, Heard, InFlight
  <2>3. Answering' => Answering /\ stx'.what = stx.what
    BY <1>0, <2>1 DEF TalkTypeOK, FromPinpad, Down, Answering
  <2>4. (Requesting' => Requesting) /\ Behind' = Behind
    BY <1>0, <2>1, <2>2 DEF Requesting, Asked, Behind, Handling
  <2> QED
    BY <1>0, <2>3, <2>4, CountsKept
<1>5. CASE UNCHANGED pollVars
  <2>1. UNCHANGED <<mtx, stx, inbox, spc, request>>
    BY <1>5 DEF pollVars, master, slave
  <2>2. /\ Requesting' => Requesting
        /\ Answering' => Answering /\ stx'.what = stx.what
        /\ Behind' = Behind
    BY <1>0, <2>1 DEF Requesting, InFlight, Heard, Asked, Answering, Behind, Handling
  <2> QED
    BY <1>0, <2>2, CountsKept
<1> QED
  BY <1>1, <1>2, <1>3, <1>4, <1>5 DEF Arrive

LEMMA CountsInit == PollInit => CountsInv
<1> SUFFICES ASSUME PollInit PROVE CountsInv
  OBVIOUS
<1>1. /\ restarts = 0 /\ burst_remain = 0 /\ inbox = <<>> /\ stx = Quiet /\ mtx = Quiet
      /\ request = "nothing" /\ mpc = "top" /\ packetcnt = 0 /\ CountIsPending
  BY InitHolds DEF PollInit, QueueInit, PoliteInv
<1>2. ~Requesting /\ ~Answering /\ Behind = <<>>
  BY <1>1 DEF Requesting, InFlight, Heard, Asked, Answering, Behind, Handling
<1> QED
  <2>1. Pending = 0
    BY <1>1 DEF CountIsPending
  <2> QED
    BY <1>1, <1>2, <2>1 DEF CountsInv, CountsRight, Due, Filled

\* Then every step of the protocol uses the buffer politely.
LEMMA StepIsPolite ==
    ASSUME QueueInv, TalkInv, CountsInv, restarts = 0, [PollNext]_pollVars
    PROVE  [PoliteNext]_queueVars
<1>1. CASE SendSlot
  <2>1. packetcnt \in Nat
    BY DEF QueueInv, QueueTypeOK
  <2> QED
    BY <1>1, <2>1, PacketWaits DEF CountsInv, SendSlot, PoliteNext
<1>2. CASE ~SendSlot
  <2>1. ASSUME NEW m \in Messages, Says(m) PROVE PoliteNext
    BY <2>1 DEF Says, PoliteNext
  <2>2. CASE (\E m \in Messages, stall \in Stalls : Event(m, stall)) \/ Opened
    BY <2>1, <2>2, PollingAssumption DEF Event, Opened, PollingAssumption
  <2>3. CASE Restart
    BY <2>3 DEF Restart, PoliteNext
  <2> QED
    BY <1>2, <2>2, <2>3 DEF PollNext, Tick, Arrive, ArrivesAtPinpad, ArrivesAtMaster, Lose,
       Master, Forward, NoUdp, NothingReceived, GetsPong, GetsPacket, GetsOther, SendRequest,
       Requested, Pinpad, Continue, Begin, SendPong, SlotSent, Ignore, pollVars
<1> QED
  BY <1>1, <1>2

LEMMA CountsNext ==
    ASSUME QueueInv, TalkInv, TalkInv', CountsInv, [PollNext]_pollVars PROVE CountsInv'
<1>1. CASE Restart
  BY <1>1 DEF Restart, CountsInv
<1>2. CASE ~Restart
  <2>1. restarts' = restarts
    BY <1>2 DEF PollNext, Tick, Arrive, ArrivesAtPinpad, ArrivesAtMaster, Lose, Master, Forward,
       NoUdp, NothingReceived, GetsPong, GetsPacket, GetsOther, SendRequest, Requested, Pinpad,
       Event, Continue, Begin, SendPong, SendSlot, SlotSent, Opened, Ignore, pollVars
  <2>3. ASSUME restarts = 0, CountIsPending, Filled PROVE Filled'
    BY <2>3, StepIsPolite, FilledKept
  <2>2. ASSUME CountIsPending, Filled, CountsRight PROVE CountIsPending' /\ CountsRight'
    <3>1. CASE Master
      <4>1. UNCHANGED queueVars
        BY <3>1 DEF Master, Forward, NoUdp, NothingReceived, GetsPong, GetsPacket, GetsOther,
           SendRequest, Requested
      <4> QED
        BY <2>2, <3>1, <4>1, MasterCounts, StutterKeeps
    <3>2. CASE Pinpad
      BY <2>2, <3>2, PinpadCounts
    <3>3. CASE Arrive \/ Lose \/ Tick \/ UNCHANGED pollVars
      BY <2>2, <3>3, LineCounts
    <3> QED
      BY <1>2, <3>1, <3>2, <3>3 DEF PollNext
  <2> QED
    BY <2>1, <2>2, <2>3 DEF CountsInv
<1> QED
  BY <1>1, <1>2

\* Until the pinpad restarts, the busmaster counts on no packet that does not wait,
\* whatever the delays are, is lost or comes from the Ethernet.
THEOREM CountsInvariant == PollSpec => []CountsInv
<1>1. QueueInv /\ TalkInv /\ TalkInv' /\ CountsInv /\ [PollNext]_pollVars => CountsInv'
  BY CountsNext
<1> QED
  BY <1>1, CountsInit, TalkInvariant, PTL DEF PollSpec

\* Unless the pinpad restarts, every request that reaches it finds a packet waiting:
\* for any stalls of the pinpad, any commands from the Ethernet, any losses, and any
\* lengths of the delays, if the busmaster waits as long before a request as the
\* pinpad before an answer.
THEOREM RequestsFindAPacket == PollSpec /\ [](restarts = 0) => RequestsArePolite
<1>1. QueueInv /\ TalkInv /\ CountsInv /\ restarts = 0 /\ [PollNext]_pollVars
         => [PoliteNext]_queueVars
  BY StepIsPolite
<1>2. PollInit => QueueInit
  BY DEF PollInit
<1> QED
  BY <1>1, <1>2, TalkInvariant, CountsInvariant, PTL DEF PollSpec, RequestsArePolite, PoliteSpec

\* Then the buffer under the protocol is the abstract queue.
THEOREM BufferIsQueueUnderProtocol ==
  ASSUME LongMessages = {}
  PROVE  PollSpec /\ [](restarts = 0) => IsMessageQueue
BY RequestsFindAPacket, QueueRefinement, PTL DEF RequestsArePolite

-----------------------------------------------------------------------------
(* Places *)

\* The messages of s2 are messages of s, in the same order.
LEMMA PlacesSelect ==
    ASSUME NEW n \in Nat, NEW n2 \in Nat, NEW s, NEW s2, NEW t, NEW k \in Nat,
           NEW h \in [1 .. n2 -> Int],
           \A i \in 1 .. n2 : IsMessage(s2[i]) => h[i] \in 1 .. n /\ s2[i] = s[h[i]],
           \A i, j \in 1 .. n2 : i < j => h[i] < h[j],
           Places(s, n, t, k)
    PROVE  Places(s2, n2, t, k)
<1>1. PICK f \in [1 .. n -> 0 .. k] :
         /\ \A i, j \in 1 .. n : i < j /\ IsMessage(s[i]) /\ IsMessage(s[j]) => f[i] < f[j]
         /\ \A i \in 1 .. n : IsMessage(s[i]) => f[i] > 0 /\ s[i].packet = PacketOf(t[f[i]])
  BY DEF Places
<1> DEFINE g == [i \in 1 .. n2 |-> IF IsMessage(s2[i]) THEN f[h[i]] ELSE 0]
<1>2. g \in [1 .. n2 -> 0 .. k]
  OBVIOUS
<1>3. ASSUME NEW i \in 1 .. n2, NEW j \in 1 .. n2,
             i < j, IsMessage(s2[i]), IsMessage(s2[j])
      PROVE  g[i] < g[j]
  <2>1. h[i] \in 1 .. n /\ h[j] \in 1 .. n /\ h[i] < h[j]
        /\ IsMessage(s[h[i]]) /\ IsMessage(s[h[j]])
    BY <1>3
  <2> QED
    BY <1>1, <1>3, <2>1
<1>4. ASSUME NEW i \in 1 .. n2, IsMessage(s2[i])
      PROVE  g[i] > 0 /\ s2[i].packet = PacketOf(t[g[i]])
  <2>1. h[i] \in 1 .. n /\ s2[i] = s[h[i]] /\ g[i] = f[h[i]]
    BY <1>4
  <2> QED
    BY <1>1, <1>4, <2>1
<1> HIDE DEF g
<1> QED
  BY <1>2, <1>3, <1>4 DEF Places

LEMMA PlacesGrow ==
    ASSUME NEW n \in Nat, NEW s, NEW t, NEW t2, NEW k \in Nat, NEW k2 \in Nat, k <= k2,
           \A i \in 1 .. k : t2[i] = t[i],
           Places(s, n, t, k)
    PROVE  Places(s, n, t2, k2)
<1>1. PICK f \in [1 .. n -> 0 .. k] :
         /\ \A i, j \in 1 .. n : i < j /\ IsMessage(s[i]) /\ IsMessage(s[j]) => f[i] < f[j]
         /\ \A i \in 1 .. n : IsMessage(s[i]) => f[i] > 0 /\ s[i].packet = PacketOf(t[f[i]])
  BY DEF Places
<1>2. f \in [1 .. n -> 0 .. k2]
  OBVIOUS
<1>3. ASSUME NEW i \in 1 .. n, IsMessage(s[i])
      PROVE  f[i] > 0 /\ s[i].packet = PacketOf(t2[f[i]])
  <2>1. f[i] \in 1 .. k
    BY <1>1, <1>3
  <2> QED
    BY <1>1, <1>3, <2>1
<1> QED
  BY <1>1, <1>2, <1>3 DEF Places

\* The last of s is replaced by the next message.
LEMMA PlacesNext ==
    ASSUME NEW n \in Nat, n > 0, NEW s, NEW s2, NEW t, NEW k \in Nat,
           \A i \in 1 .. n - 1 : s2[i] = s[i],
           s2[n].packet = PacketOf(t[k + 1]),
           Places(s, n, t, k)
    PROVE  Places(s2, n, t, k + 1)
<1>1. PICK f \in [1 .. n -> 0 .. k] :
         /\ \A i, j \in 1 .. n : i < j /\ IsMessage(s[i]) /\ IsMessage(s[j]) => f[i] < f[j]
         /\ \A i \in 1 .. n : IsMessage(s[i]) => f[i] > 0 /\ s[i].packet = PacketOf(t[f[i]])
  BY DEF Places
<1> DEFINE g == [i \in 1 .. n |-> IF i = n THEN k + 1 ELSE f[i]]
<1>2. g \in [1 .. n -> 0 .. k + 1]
  OBVIOUS
<1>3. ASSUME NEW i \in 1 .. n, NEW j \in 1 .. n,
             i < j, IsMessage(s2[i]), IsMessage(s2[j])
      PROVE  g[i] < g[j]
  <2>1. i \in 1 .. n - 1 /\ g[i] = f[i] /\ f[i] \in 0 .. k
    BY <1>3
  <2>2. CASE j = n
    BY <2>1, <2>2
  <2>3. CASE j # n
    BY <1>1, <1>3, <2>1, <2>3
  <2> QED
    BY <2>2, <2>3
<1>4. ASSUME NEW i \in 1 .. n, IsMessage(s2[i])
      PROVE  g[i] > 0 /\ s2[i].packet = PacketOf(t[g[i]])
  <2>1. CASE i = n
    BY <2>1
  <2>2. CASE i # n
    BY <1>1, <1>4, <2>2
  <2> QED
    BY <2>1, <2>2
<1> HIDE DEF g
<1> QED
  BY <1>2, <1>3, <1>4 DEF Places

-----------------------------------------------------------------------------
(* Steps on the trail *)

LEMMA TrailAt ==
    ASSUME PollTypeOK
    PROVE  /\ Len(forwarded) \in Nat /\ Len(inbox) \in Nat /\ TrailEnd \in Nat /\ TrailEnd > 0
           /\ \A i \in 1 .. Len(forwarded) : Trail[i] = Reply(forwarded[i])
           /\ \A i \in 1 .. Len(inbox) : Trail[Len(forwarded) + i] = inbox[i]
           /\ Trail[TrailEnd] = stx.what
<1>1. Len(forwarded) \in Nat /\ Len(inbox) \in Nat
  BY DEF PollTypeOK
<1> DEFINE f == Len(forwarded)  b == Len(inbox)
<1>2. TrailEnd = f + b + 1 /\ f \in Nat /\ b \in Nat
  BY <1>1 DEF TrailEnd
<1>3. \A i \in 1 .. TrailEnd :
         Trail[i] = IF i <= f THEN Reply(forwarded[i])
                    ELSE IF i < TrailEnd THEN inbox[i - f] ELSE stx.what
  BY DEF Trail
<1> HIDE DEF f, b
<1>4. TrailEnd \in Nat /\ TrailEnd > 0 /\ TrailEnd \in 1 .. TrailEnd /\ ~(TrailEnd <= f)
  BY <1>2
<1>5. ASSUME NEW i \in 1 .. f PROVE Trail[i] = Reply(forwarded[i])
  <2>1. i \in 1 .. TrailEnd /\ i <= f
    BY <1>2
  <2> QED
    BY <1>3, <2>1
<1>6. ASSUME NEW i \in 1 .. b PROVE Trail[f + i] = inbox[i]
  <2>1. f + i \in 1 .. TrailEnd /\ ~(f + i <= f) /\ f + i < TrailEnd /\ (f + i) - f = i
    BY <1>2
  <2> QED
    BY <1>3, <2>1
<1>7. Trail[TrailEnd] = stx.what
  BY <1>3, <1>4
<1> QED
  BY <1>1, <1>4, <1>5, <1>6, <1>7 DEF f, b

LEMMA SpoilKeeps ==
    ASSUME NEW tx \in Transmissions PROVE Spoil(tx) \in Transmissions /\ Spoil(tx).what = tx.what
<1>1. CASE tx = Quiet
  BY <1>1 DEF Spoil
<1>2. CASE tx # Quiet
  BY <1>2 DEF Spoil, Transmissions
<1> QED
  BY <1>1, <1>2

LEMMA QuietIsNoMessage == Quiet \in Transmissions /\ Quiet.what = Nothing /\ ~IsMessage(Nothing)
<1>1. Nothing \in Transmitted /\ ~IsMessage(Nothing)
  BY DEF Transmitted, Nothing, IsMessage
<1> QED
  BY <1>1 DEF Quiet, Transmissions

LEMMA PongIsNoMessage == \A n : ~IsMessage(Pong(n))
BY DEF IsMessage, Pong

\* Steps that leave the buffer alone.
LEMMA BufferAlone ==
    ASSUME Waiting, UNCHANGED <<queueVars, accepted>>
    PROVE  Waiting' /\ Taken' = Taken /\ Taken \in Nat
<1>1. Pending' = Pending /\ Queued' = Queued
  BY DEF queueVars, Pending, Queued, PacketAt
<1> QED
  BY <1>1 DEF Waiting, Taken

LEMMA SameTrailKeeps ==
    ASSUME TrailInv, UNCHANGED <<queueVars, accepted, forwarded, inbox>>,
           stx' \in Transmissions, stx'.what = stx.what,
           mpc' \in {"request", "requested"} => inbox # <<>>
    PROVE  TrailInv'
<1>1. PollTypeOK'
  BY DEF TrailInv, PollTypeOK
<1>2. Waiting' /\ Taken' = Taken
  BY BufferAlone DEF TrailInv
<1>3. TrailEnd' = TrailEnd
  BY DEF TrailEnd
<1>4. Trail' = Trail
  BY <1>3 DEF Trail
<1>5. InOrder'
  BY <1>2, <1>3, <1>4 DEF TrailInv, InOrder, Places
<1> QED
  BY <1>1, <1>2, <1>5 DEF TrailInv

\* The pinpad transmits something else, and its packet may have arrived.
LEMMA NoMessageKeeps ==
    ASSUME TrailInv, UNCHANGED <<queueVars, accepted, forwarded, mpc>>,
           stx' \in Transmissions, ~IsMessage(stx'.what),
           inbox' = inbox \/ inbox' = Append(inbox, stx.what)
    PROVE  TrailInv'
<1>0. PollTypeOK
  BY DEF TrailInv
<1>1. PollTypeOK'
  <2>1. stx.what \in Transmitted
    BY <1>0 DEF PollTypeOK, Transmissions
  <2>2. inbox' \in Seq(Transmitted) /\ (inbox # <<>> => inbox' # <<>>)
    BY <1>0, <2>1, SMTT(40) DEF PollTypeOK
  <2> QED
    BY <1>0, <2>2 DEF PollTypeOK
<1>2. Waiting' /\ Taken' = Taken /\ Taken \in Nat
  BY BufferAlone DEF TrailInv
<1> DEFINE n == TrailEnd  n2 == TrailEnd'
<1>3. /\ n \in Nat /\ n > 0 /\ n2 \in Nat
      /\ n2 = n \/ (n2 = n + 1 /\ inbox' = Append(inbox, stx.what))
      /\ n2 = Len(forwarded) + Len(inbox') + 1 /\ Len(inbox') \in Nat
  <2>1. Len(inbox) \in Nat /\ Len(forwarded) \in Nat
    BY <1>0, TrailAt
  <2>2. \/ Len(inbox') = Len(inbox)
        \/ Len(inbox') = Len(inbox) + 1 /\ inbox' = Append(inbox, stx.what)
    BY <1>0 DEF PollTypeOK
  <2>3. TrailEnd = Len(forwarded) + Len(inbox) + 1 /\ TrailEnd' = Len(forwarded) + Len(inbox') + 1
    BY DEF TrailEnd
  <2> HIDE DEF n, n2
  <2>4. n \in Nat /\ n > 0
    BY <1>0, TrailAt DEF n
  <2>5. n2 = n \/ (n2 = n + 1 /\ inbox' = Append(inbox, stx.what))
    BY <2>1, <2>2, <2>3 DEF n, n2
  <2>6. n2 = Len(forwarded) + Len(inbox') + 1 /\ Len(inbox') \in Nat
    BY <2>1, <2>2, <2>3 DEF n2
  <2> QED
    BY <2>4, <2>5, <2>6
<1>4. ASSUME NEW i \in 1 .. n2, IsMessage(Trail'[i])
      PROVE  i \in 1 .. n /\ Trail'[i] = Trail[i]
  <2> DEFINE l == Len(forwarded)
  <2>0. Trail'[i] = IF i <= l THEN Reply(forwarded[i])
                    ELSE IF i < n2 THEN inbox'[i - l] ELSE stx'.what
    BY DEF Trail
  <2> HIDE DEF n, n2
  <2>2. i # n2
    <3>1. l \in Nat
      BY <1>0, TrailAt
    <3>2. i = n2 => ~(i <= l) /\ ~(i < n2)
      BY <1>3, <3>1
    <3> QED
      BY <1>4, <2>0, <3>2
  <2>3. Trail'[i] = IF i <= Len(forwarded) THEN Reply(forwarded[i]) ELSE inbox'[i - Len(forwarded)]
    <3>1. i < n2
      BY <1>3, <2>2
    <3> QED
      BY <2>0, <3>1
  <2>4. Len(forwarded) \in Nat /\ Len(inbox) \in Nat /\ n = Len(forwarded) + Len(inbox) + 1
    BY <1>0, TrailAt DEF TrailEnd, n
  <2>5. i \in 1 .. n
    BY <1>3, <1>4, <2>2
  <2>6. CASE i <= Len(forwarded)
    BY <1>0, <1>4, <2>3, <2>4, <2>6, TrailAt
  <2>7. CASE ~(i <= Len(forwarded)) /\ i # n
    <3>1. PICK j \in 1 .. Len(inbox) : j = i - Len(forwarded) /\ i = Len(forwarded) + j
      BY <2>4, <2>5, <2>7
    <3>2. Trail[i] = inbox[j] /\ Trail'[i] = inbox'[j]
      BY <1>0, <2>3, <2>7, <3>1, TrailAt
    <3>3. inbox'[j] = inbox[j]
      BY <1>0, <3>1 DEF PollTypeOK
    <3> QED
      BY <2>5, <3>2, <3>3
  <2>8. CASE i = n
    <3>1. n2 = n + 1 /\ inbox' = Append(inbox, stx.what)
      BY <1>3, <2>2, <2>8
    <3>2. i - Len(forwarded) = Len(inbox) + 1 /\ ~(i <= Len(forwarded))
      BY <2>4, <2>8
    <3>3. Trail'[i] = stx.what
      BY <1>0, <2>3, <3>1, <3>2 DEF PollTypeOK
    <3> QED
      BY <1>0, <2>5, <2>8, <3>3, TrailAt DEF n
  <2> QED
    BY <2>6, <2>7, <2>8
<1>5. InOrder'
  <2> DEFINE h == [i \in 1 .. n2 |-> i]
  <2>1. h \in [1 .. n2 -> Int] /\ \A i, j \in 1 .. n2 : i < j => h[i] < h[j]
    OBVIOUS
  <2>2. \A i \in 1 .. n2 : IsMessage(Trail'[i]) => h[i] \in 1 .. n /\ Trail'[i] = Trail[h[i]]
    BY <1>4
  <2> HIDE DEF h, n, n2
  <2>3. Places(Trail, n, accepted, Taken)
    BY DEF TrailInv, InOrder, n
  <2>4. n \in Nat /\ n2 \in Nat /\ Taken \in Nat
    BY <1>2, <1>3
  <2>5. Places(Trail', n2, accepted, Taken)
    BY ONLY <2>1, <2>2, <2>3, <2>4, PlacesSelect
  <2>6. accepted' = accepted
    OBVIOUS
  <2> QED
    BY <1>2, <2>5, <2>6 DEF InOrder, Places, n2
<1> QED
  BY <1>1, <1>2, <1>5 DEF TrailInv

\* What a message of the pinpad is.
LEMMA MessageIsReply ==
    ASSUME NEW x \in Transmitted, IsMessage(x)
    PROVE  x.packet \in Packets /\ Reply(x.packet) = x
<1>1. x # Nothing /\ \A n : x # Pong(n)
  BY QuietIsNoMessage, PongIsNoMessage
<1>2. PICK p \in Packets : x = Reply(p)
  BY <1>1 DEF Transmitted
<1>3. x.packet = p
  BY <1>2 DEF Reply
<1> QED
  BY <1>2, <1>3

\* The packet at the front of the ring has been handled.
LEMMA PassOnKeeps ==
    ASSUME TrailInv, PassOn, inbox # <<>>, UNCHANGED <<queueVars, accepted>>,
           stx' \in Transmissions, stx'.what = stx.what, mpc' = "top"
    PROVE  TrailInv'
<1>0. PollTypeOK
  BY DEF TrailInv
<1>1. /\ Head(inbox) \in Transmitted /\ Head(inbox) = inbox[1] /\ Len(inbox) \in Nat \ {0}
      /\ Tail(inbox) \in Seq(Transmitted) /\ Len(Tail(inbox)) = Len(inbox) - 1
      /\ \A i \in 1 .. Len(inbox) - 1 : Tail(inbox)[i] = inbox[i + 1]
  BY <1>0 DEF PollTypeOK
<1>2. /\ inbox' = Tail(inbox)
      /\ forwarded' = IF IsMessage(Head(inbox)) THEN Append(forwarded, Head(inbox).packet)
                       ELSE forwarded
  BY DEF PassOn, IsMessage
<1>3. IsMessage(Head(inbox)) =>
         Head(inbox).packet \in Packets /\ Reply(Head(inbox).packet) = Head(inbox)
  BY <1>1, MessageIsReply
<1>4. PollTypeOK'
  <2>1. forwarded \in Seq(Packets) /\ accepted \in Seq(Messages)
    BY <1>0 DEF PollTypeOK
  <2>2. forwarded' \in Seq(Packets)
    BY <1>2, <1>3, <2>1
  <2>3. mpc' \notin {"request", "requested"}
    OBVIOUS
  <2> QED
    BY <1>1, <1>2, <2>1, <2>2, <2>3 DEF PollTypeOK
<1>5. Waiting' /\ Taken' = Taken /\ Taken \in Nat
  BY BufferAlone DEF TrailInv
<1> DEFINE l == Len(forwarded)  b == Len(inbox)  n == TrailEnd  n2 == TrailEnd'
           l2 == Len(forwarded')  b2 == Len(inbox')
<1>6. /\ l \in Nat /\ b \in Nat /\ b > 0 /\ n = l + b + 1 /\ b2 = b - 1
      /\ l2 = IF IsMessage(Head(inbox)) THEN l + 1 ELSE l
      /\ n2 = l2 + b2 + 1
  BY <1>0, <1>1, <1>2 DEF PollTypeOK, TrailEnd
<1>7. /\ \A i \in 1 .. l : Trail[i] = Reply(forwarded[i])
      /\ \A i \in 1 .. b : Trail[l + i] = inbox[i]
      /\ Trail[n] = stx.what
  BY <1>0, TrailAt
<1>8. \A i \in 1 .. n2 :
         Trail'[i] = IF i <= l2 THEN Reply(forwarded'[i])
                     ELSE IF i < n2 THEN inbox'[i - l2] ELSE stx'.what
  BY DEF Trail
<1>9. \A i \in 1 .. l : forwarded'[i] = forwarded[i]
  BY <1>0, <1>2 DEF PollTypeOK
<1>10. IsMessage(Head(inbox)) => forwarded'[l + 1] = Head(inbox).packet
  BY <1>0, <1>2 DEF PollTypeOK
<1> DEFINE skipped == IF IsMessage(Head(inbox)) THEN 0 ELSE 1
           h == [i \in 1 .. n2 |-> IF i <= l THEN i ELSE i + skipped]
<1>11. \A i \in 1 .. b - 1 : inbox'[i] = inbox[i + 1]
  BY <1>1, <1>2
<1>12. Trail[l + 1] = Head(inbox)
  BY <1>1, <1>6, <1>7
<1>s. n2 = n - skipped /\ skipped \in {0, 1} /\ l2 = l + 1 - skipped
  BY <1>6
<1> HIDE DEF n, n2, l, l2, b, b2
<1>13. ASSUME NEW i \in 1 .. n2 PROVE h[i] \in 1 .. n /\ Trail'[i] = Trail[h[i]]
  <2>1. CASE i <= l
    <3>1. h[i] = i /\ i <= l2 /\ i \in 1 .. l /\ i \in 1 .. n
      BY <1>6, <2>1
    <3> QED
      BY <1>7, <1>8, <1>9, <3>1
  <2>2. CASE ~(i <= l) /\ i <= l2
    <3>1. IsMessage(Head(inbox)) /\ i = l + 1 /\ h[i] = i /\ i \in 1 .. n
      BY <1>6, <2>2
    <3>2. Trail'[i] = Reply(Head(inbox).packet)
      BY <1>8, <1>10, <2>2, <3>1
    <3> QED
      BY <1>3, <1>12, <3>1, <3>2
  <2>3. CASE ~(i <= l) /\ ~(i <= l2) /\ i < n2
    <3>0. l2 \in Nat /\ n2 = l2 + b
      BY <1>6
    <3>1. PICK j \in 1 .. b - 1 : j = i - l2
      <4>1. i - l2 \in 1 .. b - 1
        BY <1>6, <2>3, <3>0
      <4> QED
        BY <4>1
    <3>2. i + skipped = l + (j + 1) /\ j + 1 \in 1 .. b /\ i + skipped \in 1 .. n
      BY <1>s, <1>6, <3>1
    <3>3. Trail'[i] = inbox[j + 1]
      BY <1>8, <1>11, <2>3, <3>1
    <3>4. Trail[l + (j + 1)] = inbox[j + 1]
      BY <1>7, <3>2
    <3>5. h[i] = i + skipped
      BY <2>3
    <3> QED
      BY <3>2, <3>3, <3>4, <3>5
  <2>4. CASE ~(i <= l) /\ ~(i <= l2) /\ ~(i < n2)
    <3>1. i + skipped = n /\ n \in 1 .. n
      BY <1>s, <1>6, <2>4, SMTT(40)
    <3>2. Trail'[i] = stx.what
      BY <1>8, <2>4
    <3> QED
      BY <1>7, <2>4, <3>1, <3>2
  <2> QED
    BY <2>1, <2>2, <2>3, <2>4
<1>14. InOrder'
  <2>1. h \in [1 .. n2 -> Int]
    BY <1>s, <1>6
  <2>2. ASSUME NEW i \in 1 .. n2, NEW j \in 1 .. n2, i < j PROVE h[i] < h[j]
    BY <1>s, <1>6, <2>2
  <2> HIDE DEF h, skipped
  <2>3. Places(Trail, n, accepted, Taken)
    BY DEF TrailInv, InOrder, n
  <2>4. n \in Nat /\ n2 \in Nat
    BY <1>s, <1>6 DEF skipped
  <2>5. /\ \A i \in 1 .. n2 : IsMessage(Trail'[i]) => h[i] \in 1 .. n /\ Trail'[i] = Trail[h[i]]
        /\ \A i, j \in 1 .. n2 : i < j => h[i] < h[j]
    BY <1>13, <2>2
  <2>6. Taken \in Nat
    BY <1>5
  <2>7. Places(Trail', n2, accepted, Taken)
    BY ONLY <2>1, <2>3, <2>4, <2>5, <2>6, PlacesSelect
  <2> QED
    BY <1>5, <2>7 DEF InOrder, Places, n2
<1> QED
  BY <1>4, <1>5, <1>14 DEF TrailInv

\* A message comes into the buffer, or is refused.
LEMMA SaysKeeps ==
    ASSUME LongMessages = {}, QueueInv, TrailInv, NEW m \in Messages, Says(m),
           UNCHANGED <<forwarded, inbox, mpc, stx>>
    PROVE  TrailInv'
<1>0. PollTypeOK /\ Waiting /\ packetcnt \in 0 .. 255
  BY DEF TrailInv, QueueInv, QueueTypeOK
<1>1. CASE NextSlot(rb_current) = rb_next
  <2>1. UNCHANGED queueVars /\ accepted' = accepted
    BY <1>1 DEF Says, senddata, queueVars
  <2> QED
    BY <1>0, <2>1, SameTrailKeeps DEF PollTypeOK
<1>2. CASE NextSlot(rb_current) # rb_next
  <2>1. accepted' = Append(accepted, m)
    <3>1. packetcnt' = (packetcnt + 1) % 256
      BY <1>2 DEF Says, senddata
    <3>2. packetcnt' # packetcnt
      BY <1>0, <3>1
    <3> QED
      BY <3>2 DEF Says
  <2>2. Queued' = Append(Queued, PacketOf(m)) /\ Pending' = Pending + 1
    BY <1>2, SendDataAppends DEF Says
  <2>3. /\ Queued \in Seq({PacketAt(i) : i \in Slot}) /\ Len(Queued) = Pending
        /\ Pending \in 0 .. Slots - 1
    BY QueuedIsSeq
  <2>4. accepted \in Seq(Messages)
    BY <1>0 DEF PollTypeOK
  <2> DEFINE a == Len(accepted)
  <2>5. /\ a \in Nat /\ Len(accepted') = a + 1 /\ accepted' \in Seq(Messages)
        /\ accepted'[a + 1] = m /\ \A i \in 1 .. a : accepted'[i] = accepted[i]
    BY <2>1, <2>4
  <2>6. PollTypeOK'
    BY <1>0, <2>5 DEF PollTypeOK
  <2>7. Pending \in Nat /\ Taken \in Nat /\ Taken = a - Pending /\ a \in Nat
    BY <1>0, <2>3, <2>5, SlotsIsSize DEF Waiting, Taken
  <2>8. Taken' = Len(accepted') - Pending'
    BY DEF Taken
  <2> HIDE DEF a
  <2>9. Taken' = Taken
    BY <2>2, <2>5, <2>7, <2>8
  <2>10. Waiting'
    <3> SUFFICES ASSUME NEW k \in 1 .. Pending + 1
                 PROVE  Queued'[k] = PacketOf(accepted'[Taken + k])
      BY <2>2, <2>7, <2>9 DEF Waiting
    <3>1. CASE k = Pending + 1
      <4>1. Queued'[k] = PacketOf(m)
        BY <2>2, <2>3, <3>1
      <4>2. Taken + k = a + 1
        BY <2>7, <3>1
      <4> QED
        BY <2>5, <4>1, <4>2
    <3>2. CASE k # Pending + 1
      <4>1. k \in 1 .. Pending /\ Taken + k \in 1 .. a
        BY <2>7, <3>2
      <4>2. Queued'[k] = Queued[k]
        BY <2>2, <2>3, <4>1
      <4>3. accepted'[Taken + k] = accepted[Taken + k]
        BY <2>5, <4>1
      <4> QED
        BY <1>0, <4>1, <4>2, <4>3 DEF Waiting
    <3> QED
      BY <3>1, <3>2
  <2>11. TrailEnd' = TrailEnd
    BY DEF TrailEnd
  <2>12. Trail' = Trail
    BY <2>11 DEF Trail
  <2>13. Places(Trail, TrailEnd, accepted', Taken)
    <3>1. \A i \in 1 .. Taken : accepted'[i] = accepted[i]
      <4>1. \A i \in 1 .. Taken : i \in 1 .. a
        BY <2>5, <2>7
      <4> QED
        BY <2>5, <4>1
    <3>2. TrailEnd \in Nat
      BY <1>0, TrailAt
    <3>3. Places(Trail, TrailEnd, accepted, Taken) /\ Taken <= Taken
      BY <2>7 DEF TrailInv, InOrder
    <3> QED
      BY <2>7, <3>1, <3>2, <3>3, PlacesGrow
  <2>14. InOrder'
    BY <2>9, <2>11, <2>12, <2>13 DEF InOrder, Places
  <2> QED
    BY <2>6, <2>10, <2>14 DEF TrailInv
<1> QED
  BY <1>1, <1>2

\* A request finds a packet waiting.
LEMMA PoliteTake ==
    ASSUME QueueTypeOK, take_next, [PoliteNext]_queueVars PROVE packetcnt > 0
<1>1. /\ rb_next \in Slot /\ rb_current \in Slot /\ packetcnt \in 0 .. 255
      /\ rb_next' = NextSlot(rb_next) /\ packetcnt' = (packetcnt - 1) % 256
      /\ rb_current' = rb_current
  BY DEF QueueTypeOK, take_next
<1>2. NextSlot(rb_next) # rb_next
  <2>1. Slots \in Sizes
    BY SlotsIsSize
  <2> QED
    BY <1>1, <2>1 DEF Sizes, Slot, NextSlot
<1>3. ASSUME NEW m \in Messages, senddata(m) PROVE FALSE
  BY <1>1, <1>2, <1>3 DEF senddata, queueVars
<1>4. ASSUME UNCHANGED queueVars PROVE FALSE
  BY <1>1, <1>2, <1>4 DEF queueVars
<1>5. CASE restart
  <2>1. packetcnt' = 0
    BY <1>5 DEF restart
  <2> QED
    BY <1>1, <2>1
<1>6. CASE packetcnt > 0 /\ take_next
  BY <1>6
<1> QED
  BY <1>3, <1>4, <1>5, <1>6 DEF PoliteNext

\* The packet at the front of the buffer goes on the line.
LEMMA SendSlotKeeps ==
    ASSUME PoliteInv, TrailInv, SendSlot, packetcnt > 0 PROVE TrailInv'
<1>0. PollTypeOK /\ Waiting /\ QueueInv /\ Pending > 0
  BY DEF TrailInv, PoliteInv, CountIsPending
<1>1. /\ UNCHANGED <<accepted, forwarded, inbox, mpc>> /\ take_next
      /\ stx'.what = Reply(PacketAt(rb_next))
      /\ \E bad \in BOOLEAN :
            stx' = [what |-> Reply(PacketAt(rb_next)), left |-> PacketTime, bad |-> bad,
                    heard |-> TRUE]
  BY DEF SendSlot, PinpadSends, master
<1>2. /\ Queued' = Tail(Queued) /\ out' = Queued[1] /\ Pending' = Pending - 1
  BY <1>0, <1>1, TakeNextTakes
<1>3. /\ Queued \in Seq({PacketAt(i) : i \in Slot}) /\ Len(Queued) = Pending
      /\ Pending \in 0 .. Slots - 1
  BY <1>0, QueuedIsSeq
<1>4. PacketAt(rb_next) = Queued[1]
  BY <1>1, <1>2 DEF take_next
<1> DEFINE a == Len(accepted)
<1>5. /\ a \in Nat /\ Pending \in Nat \ {0} /\ Taken \in Nat /\ Taken = a - Pending
      /\ Taken' = Len(accepted') - Pending' /\ Len(accepted') = a
  <2>1. accepted \in Seq(Messages) /\ Slots \in Nat
    BY <1>0, SlotsIsSize DEF PollTypeOK
  <2> QED
    BY <1>0, <1>1, <1>3, <2>1 DEF Waiting, Taken
<1> HIDE DEF a
<1>6. Taken' = Taken + 1 /\ Taken + 1 \in 1 .. a
  BY <1>2, <1>5
<1>7. Queued[1] = PacketOf(accepted[Taken + 1]) /\ accepted[Taken + 1] \in Messages
  <2>1. 1 \in 1 .. Pending
    BY <1>5
  <2>2. accepted \in Seq(Messages)
    BY <1>0 DEF PollTypeOK
  <2>3. accepted[Taken + 1] \in Messages
    BY <1>6, <2>2 DEF a
  <2> QED
    BY <1>0, <2>1, <2>3 DEF Waiting
<1>8. Reply(PacketAt(rb_next)) \in Transmitted
  BY <1>4, <1>7 DEF Transmitted, Packets
<1>9. PollTypeOK'
  <2>1. PacketTime \in Int
    BY PollingAssumption
  <2>2. stx' \in Transmissions
    BY <1>1, <1>8, <2>1 DEF Transmissions
  <2> QED
    BY <1>0, <1>1, <2>2 DEF PollTypeOK
<1>10. Waiting'
  <2>a. Taken' \in Nat /\ Taken' = Taken + 1 /\ Pending' = Pending - 1 /\ accepted' = accepted
    BY <1>1, <1>2, <1>5, <1>6
  <2> SUFFICES ASSUME NEW k \in 1 .. Pending - 1
               PROVE  Queued'[k] = PacketOf(accepted[Taken + 1 + k])
    BY <2>a DEF Waiting
  <2>1. k + 1 \in 1 .. Pending /\ Taken + (k + 1) = Taken + 1 + k
    BY <1>5
  <2>2. Queued'[k] = Queued[k + 1]
    <3>1. k \in 1 .. Len(Queued) - 1
      BY <1>3
    <3> QED
      BY <1>2, <1>3, <3>1
  <2>3. Queued[k + 1] = PacketOf(accepted[Taken + (k + 1)])
    BY <1>0, <2>1 DEF Waiting
  <2> QED
    BY <2>1, <2>2, <2>3
<1>11. InOrder'
  <2> DEFINE n == TrailEnd
  <2>1. n \in Nat /\ n > 0
    BY <1>0, TrailAt
  <2>2. TrailEnd' = n
    BY <1>1 DEF TrailEnd
  <2>3. Len(forwarded) \in Nat /\ n = Len(forwarded) + Len(inbox) + 1 /\ Len(inbox) \in Nat
    BY <1>0, TrailAt DEF TrailEnd
  <2> HIDE DEF n
  <2>4. \A i \in 1 .. n :
           Trail'[i] = IF i <= Len(forwarded) THEN Reply(forwarded[i])
                       ELSE IF i < n THEN inbox[i - Len(forwarded)] ELSE stx'.what
    BY <1>1, <2>2 DEF Trail
  <2>5. \A i \in 1 .. n :
           Trail[i] = IF i <= Len(forwarded) THEN Reply(forwarded[i])
                      ELSE IF i < n THEN inbox[i - Len(forwarded)] ELSE stx.what
    BY DEF Trail, n
  <2>6. \A i \in 1 .. n - 1 : Trail'[i] = Trail[i]
    <3> SUFFICES ASSUME NEW i \in 1 .. n - 1 PROVE Trail'[i] = Trail[i]
      OBVIOUS
    <3>1. i \in 1 .. n /\ i < n
      BY <2>1
    <3> QED
      BY <2>4, <2>5, <3>1
  <2>7. Trail'[n].packet = PacketOf(accepted[Taken + 1])
    <3>1. n \in 1 .. n /\ ~(n <= Len(forwarded)) /\ ~(n < n)
      BY <2>1, <2>3
    <3>2. Trail'[n] = Reply(PacketAt(rb_next))
      BY <1>1, <2>4, <3>1
    <3> QED
      BY <1>4, <1>7, <3>2 DEF Reply
  <2>8. Places(Trail, n, accepted, Taken)
    BY DEF TrailInv, InOrder, n
  <2>9. Places(Trail', n, accepted, Taken + 1)
    BY <1>5, <2>1, <2>6, <2>7, <2>8, PlacesNext
  <2> QED
    BY <1>1, <1>6, <2>2, <2>9 DEF InOrder, Places
<1> QED
  BY <1>9, <1>10, <1>11 DEF TrailInv

LEMMA PinpadRestartKeeps ==
    ASSUME PoliteInv, TrailInv, Restart PROVE TrailInv'
<1>0. PollTypeOK /\ Waiting /\ QueueInv
  BY DEF TrailInv, PoliteInv
<1>1. restart /\ stx' = Spoil(stx) /\ UNCHANGED <<accepted, forwarded, inbox, mpc>>
  BY DEF Restart, master
<1>2. Pending' = 0 /\ Queued' = <<>>
  BY <1>1, RestartEmpties
<1>3. stx' \in Transmissions /\ stx'.what = stx.what
  BY <1>0, <1>1, SpoilKeeps DEF PollTypeOK
<1>4. PollTypeOK'
  BY <1>0, <1>1, <1>3 DEF PollTypeOK
<1> DEFINE a == Len(accepted)
<1>5. a \in Nat /\ Taken \in Nat /\ Taken <= a /\ Taken' = a
  <2>1. a \in Nat
    BY <1>0 DEF PollTypeOK
  <2>2. Pending \in Nat
    BY <1>0, QueuedIsSeq, SlotsIsSize
  <2>3. Taken = a - Pending /\ Taken \in Nat /\ Taken' = a - 0
    BY <1>0, <1>1, <1>2 DEF Taken, Waiting
  <2> HIDE DEF a
  <2> QED
    BY <2>1, <2>2, <2>3
<1>6. Waiting'
  BY <1>2, <1>5 DEF Waiting
<1>7. TrailEnd' = TrailEnd
  BY <1>1 DEF TrailEnd
<1>8. Trail' = Trail
  BY <1>1, <1>3, <1>7 DEF Trail
<1>9. Places(Trail, TrailEnd, accepted, a)
  <2>1. TrailEnd \in Nat
    BY <1>0, TrailAt
  <2>2. Places(Trail, TrailEnd, accepted, Taken)
    BY DEF TrailInv, InOrder
  <2> HIDE DEF a
  <2> QED
    BY <1>5, <2>1, <2>2, PlacesGrow
<1>10. InOrder'
  BY <1>1, <1>5, <1>7, <1>8, <1>9 DEF InOrder, Places
<1> QED
  BY <1>4, <1>6, <1>10 DEF TrailInv

-----------------------------------------------------------------------------
(* The theorems *)

LEMMA InitTrail == PollInit => TrailInv
<1> SUFFICES ASSUME PollInit PROVE TrailInv
  OBVIOUS
<1>1. /\ accepted = <<>> /\ forwarded = <<>> /\ inbox = <<>> /\ stx = Quiet /\ mpc = "top"
      /\ QueueInit
  BY DEF PollInit
<1>2. PollTypeOK
  BY <1>1, QuietIsNoMessage DEF PollTypeOK
<1>3. Pending = 0
  BY <1>1, SlotsIsSize DEF QueueInit, Pending
<1>4. Taken = 0 /\ TrailEnd = 1
  BY <1>1, <1>3 DEF Taken, TrailEnd
<1>5. Waiting
  BY <1>3, <1>4 DEF Waiting
<1>6. Trail = [i \in 1 .. 1 |-> stx.what]
  BY <1>1, <1>4 DEF Trail
<1>7. \A i \in 1 .. 1 : ~IsMessage(Trail[i])
  BY <1>1, <1>6, QuietIsNoMessage
<1>8. [i \in 1 .. 1 |-> 0] \in [1 .. 1 -> 0 .. 0]
  OBVIOUS
<1>9. InOrder
  BY <1>4, <1>7, <1>8 DEF InOrder, Places
<1> QED
  BY <1>2, <1>5, <1>9 DEF TrailInv

LEMMA MasterKeeps == ASSUME TrailInv, Master PROVE TrailInv'
<1>0. PollTypeOK /\ stx \in Transmissions
  BY DEF TrailInv, PollTypeOK
<1> DEFINE Same == stx' \in Transmissions /\ stx'.what = stx.what
<1>1. ASSUME NEW w, MasterSends(w) PROVE Same
  BY <1>0, <1>1, SpoilKeeps DEF MasterSends
<1>2. ASSUME NEW forms, PingWhenDue(forms) PROVE Same
  BY <1>0, <1>1, <1>2 DEF PingWhenDue
<1>3. CASE Forward \/ NoUdp \/ NothingReceived
  BY <1>0, <1>1, <1>2, <1>3, SameTrailKeeps DEF Forward, NoUdp, NothingReceived, slave
<1>4. CASE GetsPong \/ GetsPacket
  BY <1>0, <1>1, <1>2, <1>4, SameTrailKeeps DEF GetsPong, GetsPacket, slave
<1>5. CASE GetsOther
  BY <1>0, <1>2, <1>5, PassOnKeeps DEF GetsOther, slave
<1>6. CASE SendRequest
  BY <1>0, <1>1, <1>6, SameTrailKeeps DEF SendRequest, slave, PollTypeOK
<1>7. CASE Requested
  BY <1>0, <1>7, PassOnKeeps DEF Requested, slave, PollTypeOK
<1> QED
  BY <1>3, <1>4, <1>5, <1>6, <1>7 DEF Master

LEMMA PinpadKeeps ==
    ASSUME LongMessages = {}, PoliteInv, TrailInv, Pinpad, [PoliteNext]_queueVars PROVE TrailInv'
<1>0. PollTypeOK /\ stx \in Transmissions /\ QueueInv /\ QueueTypeOK /\ packetcnt \in 0 .. 255
  BY DEF TrailInv, PollTypeOK, PoliteInv, QueueInv, QueueTypeOK
<1>1. ASSUME NEW m \in Messages, NEW stall \in Stalls, Event(m, stall) PROVE TrailInv'
  BY <1>0, <1>1, SaysKeeps DEF Event, master
<1>2. CASE Opened
  BY <1>0, <1>2, SaysKeeps, PollingAssumption DEF Opened, master
<1>3. CASE \/ Continue \/ SlotSent \/ Ignore
           \/ Begin("ping", "pong", Pause)
           \/ Begin("send", "fetch", Pause)
           \/ Begin("command", "open", DoorTime)
  <2>1. UNCHANGED <<queueVars, accepted, forwarded, inbox, mpc, stx>>
    BY <1>3 DEF Continue, SlotSent, Ignore, Begin, master
  <2> QED
    BY <1>0, <2>1, SameTrailKeeps DEF PollTypeOK
<1>4. CASE SendPong
  <2>1. \E bad \in BOOLEAN :
           stx' = [what |-> Pong(packetcnt), left |-> PacketTime, bad |-> bad, heard |-> TRUE]
    BY <1>4 DEF SendPong, PinpadSends
  <2>2. Pong(packetcnt) \in Transmitted /\ PacketTime \in Int
    BY <1>0, PollingAssumption DEF Transmitted
  <2>3. stx' \in Transmissions /\ ~IsMessage(stx'.what)
    BY <2>1, <2>2, PongIsNoMessage DEF Transmissions
  <2>4. UNCHANGED <<queueVars, accepted, forwarded, mpc, inbox>>
    BY <1>4 DEF SendPong, master
  <2> QED
    BY <2>3, <2>4, NoMessageKeeps
<1>5. CASE SendSlot
  <2>1. packetcnt > 0
    BY <1>0, <1>5, PoliteTake DEF SendSlot
  <2> QED
    BY <1>5, <2>1, SendSlotKeeps
<1> QED
  BY <1>1, <1>2, <1>3, <1>4, <1>5 DEF Pinpad

LEMMA NextTrail ==
    ASSUME LongMessages = {}, PoliteInv, TrailInv,
           [PollNext]_pollVars, [PoliteNext]_queueVars
    PROVE  TrailInv'
<1>0. PollTypeOK /\ stx \in Transmissions
  BY DEF TrailInv, PollTypeOK
<1>1. CASE Tick
  <2>1. Down(stx) \in Transmissions /\ Down(stx).what = stx.what
    BY <1>0 DEF Down, Transmissions
  <2> QED
    BY <1>0, <1>1, <2>1, SameTrailKeeps DEF Tick, PollTypeOK
<1>2. CASE ArrivesAtPinpad
  BY <1>0, <1>2, SameTrailKeeps DEF ArrivesAtPinpad, master, PollTypeOK
<1>3. CASE ArrivesAtMaster
  BY <1>3, QuietIsNoMessage, NoMessageKeeps DEF ArrivesAtMaster, slave
<1>4. CASE Lose
  BY <1>0, <1>4, SpoilKeeps, SameTrailKeeps DEF Lose, master, slave, PollTypeOK
<1>5. CASE Master
  BY <1>5, MasterKeeps
<1>6. CASE Pinpad
  BY <1>6, PinpadKeeps
<1>7. CASE Restart
  BY <1>7, PinpadRestartKeeps
<1>8. CASE UNCHANGED pollVars
  BY <1>0, <1>8, SameTrailKeeps DEF pollVars, master, slave, PollTypeOK
<1> QED
  BY <1>1, <1>2, <1>3, <1>4, <1>5, <1>6, <1>7, <1>8 DEF PollNext, Arrive

\* While requests find a packet waiting, what is in the pinpad's buffer, on the line, in
\* the busmaster's ring and forwarded are the accepted messages in their order.
THEOREM TrailInvariant ==
  ASSUME LongMessages = {}
  PROVE  PollSpec /\ RequestsArePolite => [](PoliteInv /\ TrailInv)
<1>1. PoliteInv /\ TrailInv /\ [PollNext]_pollVars /\ [PoliteNext]_queueVars => TrailInv'
  BY NextTrail
<1> QED
  BY <1>1, InitTrail, PoliteInvariant, PTL DEF PollSpec, RequestsArePolite, PoliteSpec

LEMMA TrailIsOrder == PoliteInv /\ TrailInv => ForwardedInOrder
<1> SUFFICES ASSUME PoliteInv, TrailInv PROVE ForwardedInOrder
  OBVIOUS
<1> DEFINE n == TrailEnd  k == Taken  l == Len(forwarded)  a == Len(accepted)
           t == [i \in DOMAIN accepted |-> PacketOf(accepted[i])]
<1>1. PollTypeOK /\ Waiting /\ InOrder
  BY DEF TrailInv
<1>2. PICK f \in [1 .. n -> 0 .. k] :
         /\ \A i, j \in 1 .. n : i < j /\ IsMessage(Trail[i]) /\ IsMessage(Trail[j]) => f[i] < f[j]
         /\ \A i \in 1 .. n : IsMessage(Trail[i]) =>
               f[i] > 0 /\ Trail[i].packet = PacketOf(accepted[f[i]])
  BY <1>1 DEF InOrder, Places
<1>3. \A i \in 1 .. l : IsMessage(Trail[i]) /\ Trail[i].packet = forwarded[i]
  <2>1. \A i \in 1 .. l : Trail[i] = Reply(forwarded[i])
    BY <1>1, TrailAt
  <2>2. \A p : IsMessage(Reply(p)) /\ Reply(p).packet = p
    BY DEF Reply, IsMessage
  <2> QED
    BY <2>1, <2>2
<1>4. /\ l \in Nat /\ a \in Nat /\ DOMAIN forwarded = 1 .. l /\ DOMAIN accepted = 1 .. a
  BY <1>1 DEF PollTypeOK
<1>5. k \in Nat /\ k <= a /\ n \in Nat /\ l < n
  <2>1. n \in Nat /\ l < n
    <3>1. Len(inbox) \in Nat /\ n = l + Len(inbox) + 1
      BY <1>1, TrailAt DEF TrailEnd
    <3> HIDE DEF n, l
    <3> QED
      BY <1>4, <3>1
  <2>2. Pending \in Nat /\ k \in Nat /\ k = a - Pending
    <3>1. Pending \in Nat
      BY QueuedIsSeq, SlotsIsSize DEF PoliteInv
    <3> QED
      BY <1>1, <3>1 DEF Waiting, Taken
  <2> HIDE DEF k, a
  <2>3. k <= a
    BY <1>4, <2>2
  <2> QED
    BY <2>1, <2>2, <2>3
<1> HIDE DEF n, k, l, a
<1>6. \A i \in 1 .. l : i \in 1 .. n
  BY <1>4, <1>5
<1> DEFINE g == [i \in 1 .. l |-> f[i]]
<1>7. ASSUME NEW i \in 1 .. l
      PROVE  g[i] \in 1 .. a /\ g[i] = f[i] /\ forwarded[i] = PacketOf(accepted[g[i]])
  <2>1. i \in 1 .. n /\ f[i] \in 0 .. k /\ f[i] > 0
    BY <1>2, <1>3, <1>6
  <2>2. f[i] \in 1 .. a
    BY <1>4, <1>5, <2>1
  <2> QED
    BY <1>2, <1>3, <2>1, <2>2
<1>8. g \in [DOMAIN forwarded -> DOMAIN t]
  BY <1>4, <1>7
<1>9. \A i, j \in DOMAIN forwarded : i < j => g[i] < g[j]
  BY <1>2, <1>3, <1>4, <1>6, <1>7
<1>10. \A i \in DOMAIN forwarded : forwarded[i] = t[g[i]]
  BY <1>4, <1>7
<1>11. IsSubsequence(forwarded, t)
  <2> HIDE DEF g, t
  <2> QED
    BY <1>8, <1>9, <1>10 DEF IsSubsequence
<1> QED
  BY <1>11 DEF ForwardedInOrder

\* With requests that find a packet waiting, what reaches the Ethernet are the
\* pinpad's messages in order, none twice and none changed: whatever the delays are,
\* the line loses or restarts clear.
THEOREM MessagesComeInOrder ==
  ASSUME LongMessages = {}
  PROVE  PollSpec /\ RequestsArePolite => []ForwardedInOrder
BY TrailInvariant, TrailIsOrder, PTL

\* Unless the pinpad restarts, what reaches the Ethernet are its messages in order,
\* none twice and none changed.
THEOREM MessagesStayInOrder ==
  ASSUME LongMessages = {}
  PROVE  PollSpec /\ [](restarts = 0) => []ForwardedInOrder
BY RequestsFindAPacket, MessagesComeInOrder, PTL

=============================================================================
