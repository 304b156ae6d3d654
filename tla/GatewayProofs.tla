--------------------------- MODULE GatewayProofs ---------------------------
(***************************************************************************)
(* Proofs about the gateway and the reset card busmaster that it talks to: *)
(* HttpInv is inductive on the gateway's HTTP side, for any clients and    *)
(* any number of lines, GatewayInv on its serial side, for any packets and *)
(* any number of faults, and ResetInv on the way of a command through the  *)
(* reset card busmaster, for any payloads and any number of commands,      *)
(* until a payload overruns the buffer it is put together in.              *)
(***************************************************************************)
EXTENDS Gateway, GatewayHttp, ResetCard, FiniteSetTheorems, SequenceTheorems, TLAPS

\* A client that may still be answered has no answer, and its packet, if there is
\* one, goes with the answer 200.
AnswerOf(c) ==
    /\ answers[c] \in {<<>>, <<404>>, <<200>>}
    /\ reads[c] \in {"lines", "body"} => answers[c] = <<>>
    /\ answers[c] # <<200>> => WrittenBy(c) = {}
    /\ answers[c] = <<200>> =>
          \E k : WrittenBy(c) \subseteq {k} /\ (tcp_conn # "closed" => k \in WrittenBy(c))
    /\ \A k \in WrittenBy(c) : written[k][2] = destination[c]

HttpTypeOK ==
    /\ reads \in [Clients -> {"lines", "body", "nothing", "ignored", "closed"}]
    /\ destination \in [Clients -> {0, Pinpad}]
    /\ content_length \in [Clients -> BOOLEAN]
    /\ tcp_conn \in {"undef", "up", "closed"}
    /\ written \in Seq(Clients \X {0, Pinpad})
    /\ DOMAIN answers = Clients

HttpInv == HttpTypeOK /\ \A c \in Clients : AnswerOf(c)

-----------------------------------------------------------------------------
LEMMA InitHttp == HttpInit => HttpInv
<1> SUFFICES ASSUME HttpInit PROVE HttpInv
  OBVIOUS
<1>1. HttpTypeOK
  BY DEF HttpInit, HttpTypeOK, Pinpad
<1>2. ASSUME NEW c \in Clients PROVE AnswerOf(c)
  <2>1. answers[c] = <<>> /\ written = <<>>
    BY DEF HttpInit
  <2>2. WrittenBy(c) = {}
    BY <2>1 DEF WrittenBy
  <2> QED
    BY <2>1, <2>2 DEF AnswerOf
<1> QED
  BY <1>1, <1>2 DEF HttpInv

\* A step that writes nothing and answers nobody, reads on only where it read, and
\* takes a destination only from a client that has no answer.
LEMMA SilentKeeps ==
    ASSUME HttpInv, HttpTypeOK',
           UNCHANGED <<answers, written>>, tcp_conn' # "closed" => tcp_conn # "closed",
           \A c \in Clients : reads'[c] \in {"lines", "body"} => reads[c] \in {"lines", "body"},
           \A c \in Clients : destination'[c] = destination[c] \/ reads[c] = "lines"
    PROVE  HttpInv'
<1> SUFFICES ASSUME NEW c \in Clients PROVE AnswerOf(c)'
  BY DEF HttpInv
<1>1. AnswerOf(c)
  BY DEF HttpInv
<1>2. WrittenBy(c)' = WrittenBy(c)
  BY DEF WrittenBy
<1>3. ASSUME NEW k \in WrittenBy(c) PROVE written[k][2] = destination'[c]
  <2>1. answers[c] = <<200>> /\ <<200>> # <<>>
    BY <1>1, <1>3 DEF AnswerOf
  <2>2. reads[c] # "lines"
    BY <1>1, <2>1 DEF AnswerOf
  <2> QED
    BY <1>1, <1>3, <2>2 DEF AnswerOf
<1> QED
  BY <1>1, <1>2, <1>3 DEF AnswerOf

LEMMA UnknownKeeps == ASSUME HttpInv, NEW d \in Clients, Unknown(d) PROVE HttpInv'
<1>1. HttpTypeOK'
  BY DEF HttpInv, HttpTypeOK, Unknown, Line, Refuse
<1>2. ASSUME NEW c \in Clients PROVE AnswerOf(c)'
  <2>1. AnswerOf(c)
    BY DEF HttpInv
  <2>2. WrittenBy(c)' = WrittenBy(c)
    BY DEF WrittenBy, Unknown, Line
  <2>3. CASE c # d
    <3>1. /\ answers'[c] = answers[c] /\ reads'[c] = reads[c] /\ tcp_conn' = tcp_conn
          /\ destination' = destination /\ written' = written
      BY <2>3 DEF Unknown, Line, Refuse, HttpInv, HttpTypeOK
    <3> QED
      BY <2>1, <2>2, <3>1 DEF AnswerOf
  <2>4. CASE c = d
    <3>1. reads[c] = "lines" /\ reads'[c] = "nothing" /\ answers'[c] = Append(answers[c], 404)
      BY <2>4 DEF Unknown, Line, Refuse, HttpInv, HttpTypeOK
    <3>2. answers[c] = <<>> /\ WrittenBy(c) = {}
      BY <2>1, <3>1 DEF AnswerOf
    <3>3. answers'[c] = <<404>>
      BY <3>1, <3>2
    <3>4. <<404>> # <<200>>
      OBVIOUS
    <3> QED
      BY <2>2, <3>1, <3>2, <3>3, <3>4 DEF AnswerOf
  <2> QED
    BY <2>3, <2>4
<1> QED
  BY <1>1, <1>2 DEF HttpInv

LEMMA ForwardKeeps == ASSUME HttpInv, NEW d \in Clients, Forward(d) PROVE HttpInv'
<1> USE DEF AfterBody
<1>1. HttpTypeOK'
  <2>1. <<d, destination[d]>> \in Clients \X {0, Pinpad}
    BY DEF HttpInv, HttpTypeOK
  <2>2. written' \in Seq(Clients \X {0, Pinpad})
    BY <2>1 DEF HttpInv, HttpTypeOK, Forward
  <2> QED
    BY <2>2 DEF HttpInv, HttpTypeOK, Forward
<1>2. /\ written \in Seq(Clients \X {0, Pinpad})
      /\ written' = IF tcp_conn = "up" THEN Append(written, <<d, destination[d]>>) ELSE written
      /\ tcp_conn' = tcp_conn /\ tcp_conn \in {"up", "closed"} /\ destination' = destination
  BY DEF HttpInv, HttpTypeOK, Forward
<1>3. ASSUME NEW c \in Clients PROVE AnswerOf(c)'
  <2>1. AnswerOf(c)
    BY DEF HttpInv
  <2>2. CASE c # d
    <3>1. answers'[c] = answers[c] /\ reads'[c] = reads[c]
      BY <2>2 DEF Forward, HttpInv, HttpTypeOK
    <3>2. WrittenBy(c)' = WrittenBy(c)
      <4>1. CASE tcp_conn = "up"
        BY <1>2, <2>2, <4>1 DEF WrittenBy
      <4>2. CASE tcp_conn # "up"
        BY <1>2, <4>2 DEF WrittenBy
      <4> QED
        BY <4>1, <4>2
    <3>3. tcp_conn' = tcp_conn /\ destination' = destination
      BY <1>2
    <3>4. ASSUME NEW k \in WrittenBy(c) PROVE written'[k] = written[k]
      BY <1>2, <3>4 DEF WrittenBy
    <3> QED
      BY ONLY <2>1, <3>1, <3>2, <3>3, <3>4 DEF AnswerOf
  <2>3. CASE c = d
    <3>1. reads[c] = "body" /\ reads'[c] = "ignored" /\ answers'[c] = Append(answers[c], 200)
      BY <2>3 DEF Forward, HttpInv, HttpTypeOK
    <3>2. answers[c] = <<>> /\ <<>> # <<200>>
      BY <2>1, <3>1 DEF AnswerOf
    <3>3. answers'[c] = <<200>> /\ WrittenBy(c) = {}
      BY <2>1, <3>1, <3>2 DEF AnswerOf
    <3>4. CASE tcp_conn = "up"
      <4>1. /\ WrittenBy(c)' = {Len(written) + 1}
            /\ written'[Len(written) + 1] = <<c, destination'[c]>>
        BY <1>2, <2>3, <3>3, <3>4 DEF WrittenBy
      <4>2. \A k \in WrittenBy(c)' : written'[k][2] = destination'[c]
        BY <4>1
      <4>3. answers'[c] \in {<<>>, <<404>>, <<200>>} /\ reads'[c] \notin {"lines", "body"}
        BY <3>1, <3>3
      <4> QED
        BY <3>3, <4>1, <4>2, <4>3 DEF AnswerOf
    <3>5. CASE tcp_conn # "up"
      <4>1. WrittenBy(c)' = {}
        BY <1>2, <3>3, <3>5 DEF WrittenBy
      <4> QED
        BY <1>2, <3>1, <3>3, <3>5, <4>1 DEF AnswerOf
    <3> QED
      BY <3>4, <3>5
  <2> QED
    BY <2>2, <2>3
<1> QED
  BY <1>1, <1>3 DEF HttpInv

\* HttpInv holds in every state.
THEOREM HttpInvariant == HttpSpec => []HttpInv
<1>1. HttpInit => HttpInv
  BY InitHttp
<1>2. HttpInv /\ [HttpNext]_httpVars => HttpInv'
  <2> SUFFICES ASSUME HttpInv, [HttpNext]_httpVars PROVE HttpInv'
    OBVIOUS
  <2> USE DEF HttpInv, HttpTypeOK, Line
  <2>1. ASSUME NEW c \in Clients, Post(c) PROVE HttpInv'
    BY <2>1, SilentKeeps DEF Post
  <2>2. ASSUME NEW c \in Clients, Get(c) PROVE HttpInv'
    BY <2>2, SilentKeeps DEF Get
  <2>3. ASSUME NEW c \in Clients, ContentLength(c) PROVE HttpInv'
    BY <2>3, SilentKeeps DEF ContentLength
  <2>4. ASSUME NEW c \in Clients, EmptyLine(c) PROVE HttpInv'
    BY <2>4, SilentKeeps DEF EmptyLine
  <2>5. ASSUME NEW c \in Clients, Leave(c) PROVE HttpInv'
    BY <2>5, SilentKeeps DEF Leave
  <2>6. CASE TcpConnects \/ TcpEnds
    BY <2>6, SilentKeeps DEF TcpConnects, TcpEnds, clientVars
  <2>7. CASE UNCHANGED httpVars
    BY <2>7, SilentKeeps DEF httpVars, clientVars
  <2>8. ASSUME NEW c \in Clients, Die(c) PROVE HttpInv'
    BY <2>8, SilentKeeps DEF Die
  <2> HIDE DEF HttpInv
  <2> QED
    BY <2>1, <2>2, <2>3, <2>4, <2>5, <2>6, <2>7, <2>8, UnknownKeeps, ForwardKeeps DEF HttpNext
<1> QED
  BY <1>1, <1>2, PTL DEF HttpSpec

\* AnswersAreTrue for any clients and whatever they send: one answer, and until the
\* connection to the busmaster has ended it is 200 exactly when the packet went there.
THEOREM ClientsAreToldTheTruth == HttpSpec => []AnswersAreTrue
<1>1. HttpInv => AnswersAreTrue
  <2> SUFFICES ASSUME HttpInv, NEW c \in Clients
               PROVE  /\ Len(answers[c]) <= 1
                      /\ Cardinality(WrittenBy(c)) <= Cardinality(Granted(c))
                      /\ \A k \in WrittenBy(c) : written[k][2] = destination[c]
                      /\ tcp_conn # "closed" => Cardinality(WrittenBy(c)) = Cardinality(Granted(c))
    BY DEF AnswersAreTrue
  <2>1. AnswerOf(c)
    BY DEF HttpInv
  <2>2. Len(answers[c]) <= 1
    <3>1. answers[c] = <<>> \/ answers[c] = <<404>> \/ answers[c] = <<200>>
      BY <2>1 DEF AnswerOf
    <3>2. Len(<<>>) = 0 /\ Len(<<404>>) = 1 /\ Len(<<200>>) = 1
      OBVIOUS
    <3> DEFINE n == Len(answers[c])
    <3>3. n = 0 \/ n = 1
      BY <3>1, <3>2
    <3> HIDE DEF n
    <3>4. n <= 1
      BY <3>3
    <3> QED
      BY <3>4 DEF n
  <2>3. \A k \in WrittenBy(c) : written[k][2] = destination[c]
    BY <2>1 DEF AnswerOf
  <2>4. CASE answers[c] # <<200>>
    <3>1. WrittenBy(c) = {}
      BY <2>1, <2>4 DEF AnswerOf
    <3>2. Granted(c) = {}
      <4>1. answers[c] = <<>> \/ answers[c] = <<404>>
        BY <2>1, <2>4 DEF AnswerOf
      <4> QED
        BY <4>1 DEF Granted
    <3> QED
      BY <2>2, <2>3, <3>1, <3>2, FS_EmptySet
  <2>5. CASE answers[c] = <<200>>
    <3>1. Granted(c) = {1}
      BY <2>5 DEF Granted
    <3>2. PICK k : WrittenBy(c) \subseteq {k} /\ (tcp_conn # "closed" => k \in WrittenBy(c))
      BY <2>1, <2>5 DEF AnswerOf
    <3>3. WrittenBy(c) = {} \/ WrittenBy(c) = {k}
      BY <3>2
    <3>4. Cardinality({}) = 0 /\ Cardinality({k}) = 1 /\ Cardinality({1}) = 1
      BY FS_EmptySet, FS_Singleton
    <3>5. /\ Cardinality(WrittenBy(c)) \in {0, 1} /\ Cardinality(Granted(c)) = 1
          /\ tcp_conn # "closed" => Cardinality(WrittenBy(c)) = 1
      BY <3>1, <3>2, <3>3, <3>4, Zenon
    <3> QED
      BY <2>2, <2>3, <3>5
  <2> QED
    BY <2>4, <2>5
<1> QED
  BY <1>1, HttpInvariant, PTL

-----------------------------------------------------------------------------
(* The stream of bytes *)

CardByte ==
    ({"^", "digits", "other", "$", "text"} \X Nat) \cup ({"destination"} \X Nat \X Destinations)

GatewayTypeOK ==
    /\ stream \in Seq(CardByte) /\ readbuffer \in Seq(CardByte)
    /\ passed \in Nat /\ invented \in Nat /\ faults \in Nat
    /\ distributed \in Seq(Nat)

Dollars(bytes) == Cardinality(DollarsIn(bytes))

\* What the faults so far may still cost and make up.
MayLose == 2 * faults + Len(distributed) - passed
MayInvent == 2 * faults - invented

\* The packet on the way is whole so far, and will be distributed if nothing happens.
Undisturbed ==
    /\ stream # <<>> /\ passed > 0
    /\ \E to \in Destinations, content \in Contents :
          readbuffer \o stream = CardBytes(passed, to, content)
    /\ \A i \in 1 .. Len(stream) - 1 : KindOf(stream[i]) # "$"
    /\ MayLose >= -1 /\ MayInvent >= 0

\* It is lost; with every '$' to come the buffer may be distributed once more.
Disturbed ==
    /\ stream # <<>> /\ KindOf(stream[Len(stream)]) = "$"
    /\ MayLose >= 0 /\ MayInvent >= Dollars(stream)

\* No packet is on the way; what is in the buffer spoils the next one.
Between ==
    /\ stream = <<>> \/ stream = << <<"text", 0>> >>
    /\ MayLose >= 0 /\ MayInvent >= 0
    /\ readbuffer # <<>> => MayLose >= 1 /\ MayInvent >= 1

GatewayInv == GatewayTypeOK /\ (Undisturbed \/ Disturbed \/ Between)

-----------------------------------------------------------------------------
LEMMA SetToSeqLength ==
    ASSUME NEW S, IsFiniteSet(S)
    PROVE  SetToSeq(S) \in Seq(S) /\ Len(SetToSeq(S)) = Cardinality(S)
<1> DEFINE n == Cardinality(S)
<1>1. n \in Nat /\ ExistsBijection(1 .. n, S)
  BY FS_CardinalityType
<1>2. \E f \in [1 .. n -> S] : IsInjective(f)
  BY <1>1 DEF ExistsBijection, Bijection, Injection, IsInjective
<1>3. SetToSeq(S) \in [1 .. n -> S]
  BY <1>2 DEF SetToSeq
<1> HIDE DEF n
<1>4. SetToSeq(S) \in Seq(S) /\ Len(SetToSeq(S)) = n
  BY <1>1, <1>3
<1> QED
  BY <1>4 DEF n

LEMMA FewPackets ==
    ASSUME NEW buffer, passed \in Nat
    PROVE  IsFiniteSet(PacketsIn(buffer)) /\ PacketsIn(buffer) \subseteq Nat
<1>1. IsFiniteSet(1 .. passed)
  BY FS_Interval
<1>2. PacketsIn(buffer) \subseteq 1 .. passed
  BY DEF PacketsIn
<1> QED
  BY <1>1, <1>2, FS_Subset

\* What is distributed is a packet, or something made up.
LEMMA DistributesOne ==
    ASSUME GatewayTypeOK, NEW buffer, Distributes(buffer)
    PROVE  /\ distributed' \in Seq(Nat) /\ invented' \in Nat
           /\ Len(distributed') >= Len(distributed)
           /\ invented' <= invented + 1
           /\ PacketsIn(buffer) # {} =>
                 Len(distributed') >= Len(distributed) + 1 /\ invented' = invented
<1> DEFINE s == SetToSeq(PacketsIn(buffer))
<1>1. passed \in Nat /\ distributed \in Seq(Nat) /\ invented \in Nat
  BY DEF GatewayTypeOK
<1>2. IsFiniteSet(PacketsIn(buffer)) /\ PacketsIn(buffer) \subseteq Nat
  BY <1>1, FewPackets
<1>3. s \in Seq(PacketsIn(buffer)) /\ Len(s) = Cardinality(PacketsIn(buffer))
  BY <1>2, SetToSeqLength
<1>4. Cardinality(PacketsIn(buffer)) \in Nat
  BY <1>2, FS_CardinalityType
<1>5. PacketsIn(buffer) # {} => Cardinality(PacketsIn(buffer)) # 0
  BY <1>2, FS_EmptySet
<1>6. distributed' = distributed \o s
      /\ invented' = IF PacketsIn(buffer) = {} THEN invented + 1 ELSE invented
  BY DEF Distributes
<1> HIDE DEF s
<1>7. s \in Seq(Nat)
  BY <1>2, <1>3
<1>8. distributed' \in Seq(Nat) /\ Len(distributed') = Len(distributed) + Len(s)
  BY <1>1, <1>6, <1>7
<1>9. Len(distributed) \in Nat
  BY <1>1
<1>10. /\ Len(distributed') >= Len(distributed)
       /\ PacketsIn(buffer) # {} => Len(distributed') >= Len(distributed) + 1
  BY <1>3, <1>4, <1>5, <1>8, <1>9
<1> QED
  BY <1>1, <1>6, <1>8, <1>10

\* The place where a sequence goes on into another one.
LEMMA Joined ==
    ASSUME NEW s \in Seq(CardByte), NEW t \in Seq(CardByte)
    PROVE  /\ s \o t \in Seq(CardByte) /\ Len(s \o t) = Len(s) + Len(t)
           /\ \A i \in 1 .. Len(t) : t[i] = (s \o t)[Len(s) + i]
           /\ \A i \in 1 .. Len(s) : s[i] = (s \o t)[i]
OBVIOUS

\* The bytes of a packet: '^' first, the destination third, and '$' last.
LEMMA BytesOfPacket ==
    ASSUME NEW p \in Nat, NEW to \in Destinations, NEW content \in Contents
    PROVE  /\ CardBytes(p, to, content) \in Seq(CardByte)
           /\ Len(CardBytes(p, to, content)) = Length + 4
           /\ CardBytes(p, to, content)[Length + 4] = <<"$", p>>
           /\ CardBytes(p, to, content)[1] = <<"^", p>>
           /\ CardBytes(p, to, content)[3] = <<"destination", p, to>>
<1> DEFINE front == << <<"^", p>>, <<"digits", p>>, <<"destination", p, to>> >>
           middle == [k \in 1 .. Length |-> <<content[k], p>>]
           back == << <<"$", p>> >>
<1>1. Length \in Nat
  BY GatewayAssumption
<1>2. /\ <<"^", p>> \in CardByte /\ <<"digits", p>> \in CardByte
      /\ <<"$", p>> \in CardByte /\ <<"destination", p, to>> \in CardByte
  BY DEF CardByte
<1>3. front \in Seq(CardByte) /\ Len(front) = 3 /\ front[1] = <<"^", p>>
      /\ front[3] = <<"destination", p, to>>
  BY <1>2
<1>4. back \in Seq(CardByte) /\ Len(back) = 1 /\ back[1] = <<"$", p>>
  BY <1>2
<1>5. middle \in Seq(CardByte) /\ Len(middle) = Length
  <2>1. \A k \in 1 .. Length : <<content[k], p>> \in CardByte
    BY DEF Contents, CardByte
  <2>2. middle \in [1 .. Length -> CardByte]
    BY <2>1
  <2> QED
    BY <1>1, <2>2
<1>6. CardBytes(p, to, content) = (front \o middle) \o back
  BY DEF CardBytes
<1> HIDE DEF front, middle, back
<1> DEFINE both == front \o middle
<1>7. /\ both \in Seq(CardByte) /\ Len(both) = Length + 3
      /\ both[1] = <<"^", p>> /\ both[3] = <<"destination", p, to>>
  <2>1. /\ both \in Seq(CardByte) /\ Len(both) = Len(front) + Len(middle)
        /\ \A i \in 1 .. Len(front) : front[i] = both[i]
    BY <1>3, <1>5, Joined
  <2>2. 1 \in 1 .. Len(front) /\ 3 \in 1 .. Len(front) /\ 3 + Length = Length + 3
    BY <1>1, <1>3
  <2> QED
    BY <1>3, <1>5, <2>1, <2>2
<1>8. CardBytes(p, to, content) = both \o back
  BY <1>6
<1> HIDE DEF both
<1>9. /\ both \o back \in Seq(CardByte) /\ Len(both \o back) = Len(both) + Len(back)
      /\ \A i \in 1 .. Len(back) : back[i] = (both \o back)[Len(both) + i]
      /\ \A i \in 1 .. Len(both) : both[i] = (both \o back)[i]
  BY <1>4, <1>7, Joined
<1>10. /\ 1 \in 1 .. Len(back) /\ Len(both) + 1 = Length + 4 /\ Len(both) + Len(back) = Length + 4
       /\ 1 \in 1 .. Len(both) /\ 3 \in 1 .. Len(both)
  BY <1>1, <1>4, <1>7
<1> QED
  BY <1>4, <1>7, <1>8, <1>9, <1>10

\* The bytes of stream, and of what is left of it.
LEMMA TailOf ==
    ASSUME NEW s \in Seq(CardByte), s # <<>>
    PROVE  /\ Head(s) \in CardByte /\ Head(s) = s[1]
           /\ Len(s) \in Nat /\ Len(s) > 0
           /\ Tail(s) \in Seq(CardByte) /\ Len(Tail(s)) = Len(s) - 1
           /\ \A i \in 1 .. Len(s) - 1 : Tail(s)[i] = s[i + 1]
OBVIOUS

LEMMA DollarsCounted ==
    ASSUME NEW s \in Seq(CardByte)
    PROVE  /\ IsFiniteSet(DollarsIn(s)) /\ DollarsIn(s) \subseteq Nat /\ Dollars(s) \in Nat
           /\ DollarsIn(s) # {} => Dollars(s) >= 1
<1>1. DollarsIn(s) \subseteq 1 .. Len(s) /\ IsFiniteSet(1 .. Len(s))
  BY FS_Interval DEF DollarsIn
<1>2. IsFiniteSet(DollarsIn(s))
  BY <1>1, FS_Subset
<1>3. Dollars(s) \in Nat
  BY <1>2, FS_CardinalityType DEF Dollars
<1>4. DollarsIn(s) # {} => Dollars(s) # 0
  BY <1>2, FS_EmptySet DEF Dollars
<1>5. 1 .. Len(s) \subseteq Nat
  OBVIOUS
<1> QED
  BY <1>1, <1>2, <1>3, <1>4, <1>5

\* With the first byte at most one '$' goes, and exactly one if it is one.
LEMMA DollarsOfTail ==
    ASSUME NEW s \in Seq(CardByte), s # <<>>
    PROVE  /\ Dollars(Tail(s)) <= Dollars(s)
           /\ KindOf(Head(s)) = "$" => Dollars(Tail(s)) <= Dollars(s) - 1
<1> DEFINE T == DollarsIn(Tail(s))
           S == DollarsIn(s) \ {1}
           f == [i \in T |-> i + 1]
<1>1. /\ Head(s) = s[1] /\ Len(s) \in Nat /\ Len(s) > 0
      /\ Tail(s) \in Seq(CardByte) /\ Len(Tail(s)) = Len(s) - 1
      /\ \A i \in 1 .. Len(s) - 1 : Tail(s)[i] = s[i + 1]
  BY TailOf
<1>2. ASSUME NEW i \in T PROVE i + 1 \in S /\ i \in Nat
  <2>1. i \in 1 .. Len(s) - 1 /\ KindOf(Tail(s)[i]) = "$"
    BY <1>1 DEF DollarsIn
  <2>2. i + 1 \in 1 .. Len(s) /\ i + 1 # 1 /\ i \in Nat
    BY <1>1, <2>1
  <2>3. KindOf(s[i + 1]) = "$"
    BY <1>1, <2>1
  <2> QED
    BY <2>2, <2>3 DEF DollarsIn
<1>3. IsFiniteSet(DollarsIn(s)) /\ Dollars(s) \in Nat /\ IsFiniteSet(T) /\ Dollars(Tail(s)) \in Nat
  BY <1>1, DollarsCounted
<1>4. IsFiniteSet(S) /\ Cardinality(S) = IF 1 \in DollarsIn(s) THEN Dollars(s) - 1 ELSE Dollars(s)
  BY <1>3, FS_RemoveElement DEF Dollars
<1>5. f \in Injection(T, S)
  <2>1. f \in [T -> S]
    BY <1>2
  <2>2. ASSUME NEW i \in T, NEW j \in T, f[i] = f[j] PROVE i = j
    <3>1. i \in Nat /\ j \in Nat /\ i + 1 = j + 1
      BY <1>2, <2>2
    <3> QED
      BY <3>1
  <2> QED
    BY <2>1, <2>2 DEF Injection, IsInjective
<1>6. Cardinality(T) <= Cardinality(S)
  BY <1>4, <1>5, FS_Injection DEF ExistsInjection
<1>7. KindOf(Head(s)) = "$" => 1 \in DollarsIn(s)
  BY <1>1 DEF DollarsIn
<1>8. Dollars(Tail(s)) = Cardinality(T)
  BY DEF Dollars
<1> HIDE DEF T, S
<1> QED
  BY <1>3, <1>4, <1>6, <1>7, <1>8

LEMMA Amounts ==
    GatewayTypeOK => MayLose \in Int /\ MayInvent \in Int /\ Len(distributed) \in Nat
BY DEF GatewayTypeOK, MayLose, MayInvent

\* What is distributed may have been made up.
LEMMA SpendOne ==
    ASSUME GatewayTypeOK, passed' = passed, faults' = faults,
           Len(distributed') \in Nat, Len(distributed') >= Len(distributed),
           invented' \in Nat, invented' <= invented + 1
    PROVE  MayLose' >= MayLose /\ MayInvent' >= MayInvent - 1
<1> DEFINE d == Len(distributed)  e == Len(distributed')
<1>1. /\ passed \in Nat /\ faults \in Nat /\ invented \in Nat /\ d \in Nat
      /\ e \in Nat /\ e >= d
  BY Amounts DEF GatewayTypeOK
<1>2. MayLose = 2 * faults + d - passed /\ MayInvent = 2 * faults - invented
      /\ MayLose' = 2 * faults + e - passed /\ MayInvent' = 2 * faults - invented'
  BY DEF MayLose, MayInvent
<1> HIDE DEF d, e
<1>3. invented' \in Nat /\ invented' <= invented + 1
  OBVIOUS
<1>4. 2 * faults + e - passed >= 2 * faults + d - passed
  BY ONLY <1>1
<1>5. 2 * faults - invented' >= 2 * faults - invented - 1
  <2>1. \A f, i, j \in Nat : j <= i + 1 => 2 * f - j >= 2 * f - i - 1
    OBVIOUS
  <2> QED
    BY ONLY <1>1, <1>3, <2>1
<1> QED
  BY ONLY <1>2, <1>4, <1>5

-----------------------------------------------------------------------------
(* The steps *)

LEMMA FromCardKeeps == ASSUME GatewayInv, FromCard PROVE GatewayInv'
<1>1. PICK to \in Destinations, content \in Contents :
         stream' = CardBytes(passed', to, content)
  BY DEF FromCard
<1>2. /\ stream = <<>> /\ passed' = passed + 1
      /\ faults' = faults + Cardinality(DollarsIn(stream')) - 1
      /\ readbuffer' = readbuffer /\ distributed' = distributed /\ invented' = invented
  BY DEF FromCard
<1>3. GatewayTypeOK /\ Between
  BY <1>2 DEF GatewayInv, Undisturbed, Disturbed
<1>4. passed \in Nat /\ passed' \in Nat /\ faults \in Nat /\ invented \in Nat
      /\ Len(distributed) \in Nat
  BY <1>2, <1>3, Amounts DEF GatewayTypeOK
<1>5. PICK c \in Seq(CardByte) : c = CardBytes(passed', to, content)
  BY <1>4, BytesOfPacket
<1>6. /\ Len(c) = Length + 4 /\ KindOf(c[Length + 4]) = "$" /\ Length \in Nat
      /\ stream' = c
  BY <1>1, <1>4, <1>5, BytesOfPacket, GatewayAssumption DEF KindOf
<1>7. Length + 4 \in DollarsIn(c) /\ c # <<>>
  BY <1>6 DEF DollarsIn
<1>8. PICK n \in Nat : n = Dollars(c) /\ n >= 1
  BY <1>7, DollarsCounted
<1>9. faults' = faults + n - 1 /\ faults' \in Nat
  <2>1. faults' = faults + Dollars(c) - 1
    BY <1>2, <1>6 DEF Dollars
  <2> QED
    BY <1>4, <1>8, <2>1
<1>10. GatewayTypeOK'
  BY <1>2, <1>3, <1>4, <1>6, <1>9 DEF GatewayTypeOK
<1>11. MayLose >= 0 /\ MayInvent >= 0 /\ (readbuffer # <<>> => MayLose >= 1 /\ MayInvent >= 1)
  BY <1>3 DEF Between
<1>12. /\ MayLose \in Int /\ MayInvent \in Int
       /\ MayLose' = MayLose + 2 * n - 3 /\ MayInvent' = MayInvent + 2 * n - 2
  BY <1>2, <1>3, <1>4, <1>8, <1>9, Amounts DEF MayLose, MayInvent
<1>13. CASE n = 1 /\ readbuffer = <<>>
  <2>1. readbuffer' \o stream' = CardBytes(passed', to, content)
    BY <1>2, <1>5, <1>6, <1>13
  <2>2. MayLose' >= -1 /\ MayInvent' >= 0
    BY <1>11, <1>12, <1>13
  <2>3. ASSUME NEW i \in 1 .. Len(c) - 1, KindOf(c[i]) = "$" PROVE FALSE
    <3>1. i \in DollarsIn(c) /\ i # Length + 4
      BY <1>6, <2>3 DEF DollarsIn
    <3>2. IsFiniteSet(DollarsIn(c)) /\ Cardinality(DollarsIn(c)) = 1
      BY <1>8, <1>13, DollarsCounted DEF Dollars
    <3>3. PICK x : DollarsIn(c) = {x}
      BY <3>2, FS_Singleton
    <3> QED
      BY <1>7, <3>1, <3>3
  <2>4. \E t \in Destinations, k \in Contents : readbuffer' \o stream' = CardBytes(passed', t, k)
    BY <2>1
  <2>5. passed' > 0 /\ stream' # <<>>
    BY <1>2, <1>4, <1>6, <1>7
  <2>6. \A i \in 1 .. Len(stream') - 1 : KindOf(stream'[i]) # "$"
    BY <1>6, <2>3
  <2>7. Undisturbed'
    BY <2>2, <2>4, <2>5, <2>6 DEF Undisturbed, CardBytes, Contents, KindOf
  <2> QED
    BY <1>10, <2>7 DEF GatewayInv
<1>14. CASE ~(n = 1 /\ readbuffer = <<>>)
  <2>1. MayLose' >= 0 /\ MayInvent' >= n
    <3>1. CASE n = 1
      <4>1. MayLose >= 1 /\ MayInvent >= 1
        BY <1>11, <1>14, <3>1
      <4> QED
        BY <1>12, <3>1, <4>1
    <3>2. CASE n # 1
      <4>1. n >= 2
        BY <1>8, <3>2
      <4> QED
        BY <1>11, <1>12, <4>1
    <3> QED
      BY <3>1, <3>2
  <2>2. stream' # <<>> /\ KindOf(stream'[Len(stream')]) = "$" /\ Dollars(stream') = n
    BY <1>6, <1>7, <1>8
  <2>3. Disturbed'
    BY <2>1, <2>2 DEF Disturbed, KindOf, Dollars, DollarsIn
  <2> QED
    BY <1>10, <2>3 DEF GatewayInv
<1> QED
  BY <1>13, <1>14

\* What is left of the packet on the way ends with its '$'.
LEMMA UndisturbedEnds ==
    ASSUME GatewayTypeOK, Undisturbed
    PROVE  KindOf(stream[Len(stream)]) = "$" /\ Dollars(stream) = 1
<1>1. PICK to \in Destinations, content \in Contents :
         readbuffer \o stream = CardBytes(passed, to, content)
  BY DEF Undisturbed
<1>2. stream \in Seq(CardByte) /\ readbuffer \in Seq(CardByte) /\ passed \in Nat /\ stream # <<>>
  BY DEF GatewayTypeOK, Undisturbed
<1>3. PICK c \in Seq(CardByte) : c = CardBytes(passed, to, content)
  BY <1>2, BytesOfPacket
<1>4. Len(c) = Length + 4 /\ c[Length + 4] = <<"$", passed>> /\ Length \in Nat
  BY <1>2, <1>3, BytesOfPacket, GatewayAssumption
<1>5. PICK r \in Nat, l \in Nat : r = Len(readbuffer) /\ l = Len(stream) /\ l > 0
  BY <1>2
<1>6. r + l = Length + 4 /\ \A i \in 1 .. l : stream[i] = c[r + i]
  BY <1>1, <1>2, <1>3, <1>4, <1>5, Joined
<1>7. KindOf(stream[l]) = "$"
  BY <1>4, <1>5, <1>6 DEF KindOf
<1>8. DollarsIn(stream) = {l}
  <2>1. l \in DollarsIn(stream)
    BY <1>5, <1>7 DEF DollarsIn
  <2>2. ASSUME NEW i \in DollarsIn(stream) PROVE i = l
    <3>1. i \in 1 .. l /\ i \notin 1 .. l - 1
      BY <1>5, <2>2 DEF DollarsIn, Undisturbed
    <3> QED
      BY <1>5, <3>1
  <2> QED
    BY <2>1, <2>2
<1> QED
  BY <1>5, <1>7, <1>8, FS_Singleton DEF Dollars

LEMMA LoseByteKeeps == ASSUME GatewayInv, LoseByteOnLine PROVE GatewayInv'
<1>1. /\ stream # <<>> /\ stream' = Tail(stream) /\ faults' = faults + 1
      /\ passed' = passed /\ readbuffer' = readbuffer
      /\ distributed' = distributed /\ invented' = invented
  BY DEF LoseByteOnLine
<1>2. GatewayTypeOK
  BY DEF GatewayInv
<1>3. /\ faults \in Nat /\ invented \in Nat /\ passed \in Nat /\ Len(distributed) \in Nat
      /\ stream \in Seq(CardByte)
  BY <1>2, Amounts DEF GatewayTypeOK
<1>4. GatewayTypeOK'
  BY <1>1, <1>2, <1>3 DEF GatewayTypeOK
<1>5. MayLose' = MayLose + 2 /\ MayInvent' = MayInvent + 2
      /\ MayLose \in Int /\ MayInvent \in Int
  BY <1>1, <1>3 DEF MayLose, MayInvent
<1>6. CASE stream' = <<>>
  <2>1. MayLose >= -1 /\ MayInvent >= 0
    <3>1. Disturbed => MayInvent >= 0
      <4>1. Dollars(stream) \in Nat
        BY <1>3, DollarsCounted
      <4> QED
        BY <1>5, <4>1 DEF Disturbed
    <3> QED
      BY <1>5, <3>1 DEF GatewayInv, Undisturbed, Disturbed, Between
  <2>2. MayLose' >= 1 /\ MayInvent' >= 1 /\ MayLose' >= 0 /\ MayInvent' >= 0
    BY <1>5, <2>1
  <2>3. Between'
    BY <1>6, <2>2 DEF Between
  <2> QED
    BY <1>4, <2>3 DEF GatewayInv
<1>7. CASE stream' # <<>>
  <2>1. KindOf(stream[Len(stream)]) = "$" /\ MayLose >= -1 /\ MayInvent + 1 >= Dollars(stream)
    <3>1. CASE Undisturbed
      BY <1>2, <1>5, <3>1, UndisturbedEnds DEF Undisturbed
    <3>2. CASE Disturbed
      BY <1>3, <1>5, <3>2, DollarsCounted DEF Disturbed
    <3>3. CASE Between
      <4>1. stream = << <<"text", 0>> >>
        BY <1>1, <3>3 DEF Between
      <4> QED
        BY <1>1, <1>7, <4>1
    <3> QED
      BY <3>1, <3>2, <3>3 DEF GatewayInv
  <2>2. PICK l \in Nat : l = Len(stream) /\ l > 0 /\ Len(stream') = l - 1
        /\ \A i \in 1 .. l - 1 : stream'[i] = stream[i + 1]
    BY <1>1, <1>3, TailOf
  <2>3. l - 1 \in 1 .. l - 1
    BY <1>4, <1>7, <2>2 DEF GatewayTypeOK
  <2>4. KindOf(stream'[Len(stream')]) = "$"
    <3>1. stream'[l - 1] = stream[l]
      BY <2>2, <2>3
    <3> QED
      BY <2>1, <2>2, <3>1
  <2>5. PICK n \in Nat, m \in Nat : n = Dollars(stream) /\ m = Dollars(stream') /\ m <= n
    <3>1. stream' \in Seq(CardByte) /\ stream \in Seq(CardByte)
      BY <1>3, <1>4 DEF GatewayTypeOK
    <3>2. Dollars(Tail(stream)) \in Nat /\ Dollars(stream) \in Nat
      BY <1>1, <3>1, DollarsCounted
    <3> QED
      BY <1>1, <3>1, <3>2, DollarsOfTail
  <2>6. MayLose' >= 0 /\ MayInvent' >= Dollars(stream')
    BY <1>5, <2>1, <2>5
  <2>7. Disturbed'
    BY <1>7, <2>4, <2>6 DEF Disturbed, KindOf, Dollars, DollarsIn
  <2> QED
    BY <1>4, <2>7 DEF GatewayInv
<1> QED
  BY <1>6, <1>7

LEMMA DebugTextKeeps == ASSUME GatewayInv, DebugText PROVE GatewayInv'
<1>1. /\ stream = <<>> /\ stream' = << <<"text", 0>> >>
      /\ UNCHANGED <<passed, readbuffer, distributed, invented, faults>>
  BY DEF DebugText
<1>2. GatewayTypeOK /\ Between
  BY <1>1 DEF GatewayInv, Undisturbed, Disturbed
<1>3. <<"text", 0>> \in CardByte
  BY DEF CardByte
<1>4. GatewayTypeOK'
  BY <1>1, <1>2, <1>3 DEF GatewayTypeOK
<1>5. Between'
  BY <1>1, <1>2 DEF Between, MayLose, MayInvent
<1> QED
  BY <1>4, <1>5 DEF GatewayInv

LEMMA TakeByteTypes == ASSUME GatewayTypeOK, TakeByte PROVE GatewayTypeOK'
<1>1. stream # <<>> /\ stream' = Tail(stream) /\ passed' = passed /\ faults' = faults
  BY DEF TakeByte
<1>2. stream' \in Seq(CardByte) /\ Head(stream) \in CardByte
  BY <1>1, TailOf DEF GatewayTypeOK
<1> DEFINE buffer == IF Len(readbuffer) > TooLong THEN <<>> ELSE readbuffer
<1>3. buffer \in Seq(CardByte)
  BY DEF GatewayTypeOK
<1>4. \/ UNCHANGED <<readbuffer, distributed, invented>>
      \/ distribute_packet(buffer)
      \/ readbuffer' = Append(buffer, Head(stream)) /\ UNCHANGED <<distributed, invented>>
  BY DEF TakeByte
<1> HIDE DEF buffer
<1>5. CASE distribute_packet(buffer)
  <2>1. distributed' \in Seq(Nat) /\ invented' \in Nat
    BY <1>5, DistributesOne DEF distribute_packet
  <2> QED
    BY <1>1, <1>2, <1>5, <2>1 DEF GatewayTypeOK, distribute_packet
<1>6. CASE readbuffer' = Append(buffer, Head(stream)) /\ UNCHANGED <<distributed, invented>>
  <2>1. readbuffer' \in Seq(CardByte)
    BY <1>2, <1>3, <1>6
  <2> QED
    BY <1>1, <1>2, <1>6, <2>1 DEF GatewayTypeOK
<1>7. CASE UNCHANGED <<readbuffer, distributed, invented>>
  BY <1>1, <1>2, <1>7 DEF GatewayTypeOK
<1> QED
  BY <1>4, <1>5, <1>6, <1>7

\* A byte of a whole packet: it is collected, and with the last one the packet is
\* distributed.
LEMMA TakeUndisturbed == ASSUME GatewayTypeOK, Undisturbed, TakeByte PROVE GatewayInv'
<1>1. stream # <<>> /\ stream' = Tail(stream) /\ passed' = passed /\ faults' = faults
  BY DEF TakeByte
<1>2. GatewayTypeOK'
  BY TakeByteTypes
<1>3. /\ faults \in Nat /\ invented \in Nat /\ passed \in Nat /\ Len(distributed) \in Nat
      /\ stream \in Seq(CardByte) /\ readbuffer \in Seq(CardByte)
      /\ MayLose \in Int /\ MayInvent \in Int
  BY Amounts DEF GatewayTypeOK
<1>4. PICK to \in Destinations, content \in Contents :
         readbuffer \o stream = CardBytes(passed, to, content)
  BY DEF Undisturbed
<1>5. MayLose >= -1 /\ MayInvent >= 0 /\ passed > 0
  BY DEF Undisturbed
<1>6. PICK c \in Seq(CardByte) : c = CardBytes(passed, to, content)
  BY <1>3, BytesOfPacket
<1>7. /\ Len(c) = Length + 4 /\ c[Length + 4] = <<"$", passed>> /\ KindOf(c[1]) = "^"
      /\ c[3] = <<"destination", passed, to>> /\ Length \in Nat
  BY <1>3, <1>6, BytesOfPacket, GatewayAssumption DEF KindOf
<1>8. PICK r \in Nat, l \in Nat :
         r = Len(readbuffer) /\ l = Len(stream) /\ r + l = Length + 4 /\ l > 0
  <2>1. Len(readbuffer) + Len(stream) = Length + 4
    BY <1>3, <1>4, <1>6, <1>7, Joined
  <2>2. Len(readbuffer) \in Nat /\ Len(stream) \in Nat /\ Len(stream) > 0
    BY <1>1, <1>3
  <2> QED
    BY <2>1, <2>2
<1>9. /\ \A i \in 1 .. l : stream[i] = c[r + i]
      /\ \A i \in 1 .. r : readbuffer[i] = c[i]
  BY <1>3, <1>4, <1>6, <1>8, Joined
<1>10. r <= Length + 3 /\ ~(r > TooLong)
  BY <1>7, <1>8, GatewayAssumption
<1>11. Head(stream) = c[r + 1] /\ Head(stream) = stream[1]
  BY <1>3, <1>8, <1>9
<1>12. ~Discarded(Head(stream))
  <2>1. readbuffer = <<>> => r = 0
    BY <1>8
  <2>2. readbuffer = <<>> => KindOf(Head(stream)) = "^"
    BY <1>7, <1>11, <2>1
  <2> QED
    BY <2>2 DEF Discarded
<1>13. IF KindOf(Head(stream)) = "$" THEN distribute_packet(readbuffer)
       ELSE readbuffer' = Append(readbuffer, Head(stream)) /\ UNCHANGED <<distributed, invented>>
  BY <1>8, <1>10, <1>12 DEF TakeByte
<1>14. CASE KindOf(Head(stream)) = "$"
  <2>1. r = Length + 3 /\ l = 1
    <3>1. 1 \notin 1 .. l - 1
      BY <1>8, <1>11, <1>14 DEF Undisturbed
    <3> QED
      BY <1>7, <1>8, <3>1
  <2>2. stream' = <<>>
    <3>1. Len(Tail(stream)) = Len(stream) - 1 /\ Tail(stream) \in Seq(CardByte)
      BY <1>1, <1>3, TailOf
    <3>2. Len(Tail(stream)) = 0
      BY <1>8, <2>1, <3>1
    <3> QED
      BY <1>1, <3>1, <3>2
  <2>3. stream = << <<"$", passed>> >>
    <3>1. stream[1] = <<"$", passed>>
      <4>1. r + 1 = Length + 4
        BY <1>7, <2>1
      <4> QED
        BY <1>7, <1>11, <4>1
    <3>2. Len(stream) = 1
      BY <1>8, <2>1
    <3>3. stream \in Seq(CardByte)
      BY <1>3
    <3>4. stream = <<stream[1]>>
      BY ONLY <3>2, <3>3
    <3> QED
      BY <3>1, <3>4
  <2>4. readbuffer \o << <<"$", passed>> >> = CardBytes(passed, to, content)
    BY <1>4, <2>3
  <2>5. DestinationIn(readbuffer) = to
    <3>1. Len(readbuffer) >= 3 /\ 3 \in 1 .. r
      BY <1>7, <1>8, <2>1
    <3>2. readbuffer[3] = <<"destination", passed, to>>
      BY <1>7, <1>9, <3>1
    <3> QED
      BY <3>1, <3>2 DEF DestinationIn, KindOf
  <2>6. passed \in PacketsIn(readbuffer)
    <3>1. passed \in 1 .. passed
      BY <1>3, <1>5
    <3> QED
      BY <2>4, <2>5, <3>1 DEF PacketsIn
  <2>7. distribute_packet(readbuffer)
    BY <1>13, <1>14
  <2>8. PacketsIn(readbuffer) # {}
    BY <2>6
  <2>9. Len(distributed') >= Len(distributed) + 1 /\ invented' = invented
    BY <2>7, <2>8, DistributesOne DEF distribute_packet
  <2>10. Len(distributed') \in Nat
    BY <1>2 DEF GatewayTypeOK
  <2>11. MayLose' >= 0 /\ MayInvent' >= 0
    BY <1>1, <1>3, <1>5, <2>9, <2>10 DEF MayLose, MayInvent
  <2>12. readbuffer' = <<>>
    BY <2>7 DEF distribute_packet
  <2>13. Between'
    BY <2>2, <2>11, <2>12 DEF Between
  <2> QED
    BY <1>2, <2>13 DEF GatewayInv
<1>15. CASE KindOf(Head(stream)) # "$"
  <2>1. readbuffer' = Append(readbuffer, Head(stream)) /\ UNCHANGED <<distributed, invented>>
    BY <1>13, <1>15
  <2>2. l # 1
    BY <1>8, <1>11, <1>15, UndisturbedEnds
  <2>3. /\ Len(stream') = l - 1 /\ l - 1 > 0 /\ stream' \in Seq(CardByte)
        /\ \A i \in 1 .. l - 1 : stream'[i] = stream[i + 1]
    BY <1>1, <1>3, <1>8, <2>2, TailOf
  <2>4. stream' # <<>>
    BY <2>3
  <2>5. readbuffer' \o stream' = readbuffer \o stream
    BY <1>1, <1>3, <2>1, SMTT(30)
  <2>6. MayLose' = MayLose /\ MayInvent' = MayInvent
    BY <1>1, <2>1 DEF MayLose, MayInvent
  <2>7. CardBytes(passed', to, content) = CardBytes(passed, to, content)
    BY <1>1
  <2>8. \E t \in Destinations, k \in Contents : readbuffer' \o stream' = CardBytes(passed', t, k)
    BY <1>4, <2>5, <2>7
  <2>9. \A i \in 1 .. Len(stream') - 1 : KindOf(stream'[i]) # "$"
    <3> SUFFICES ASSUME NEW i \in 1 .. Len(stream') - 1 PROVE KindOf(stream'[i]) # "$"
      OBVIOUS
    <3>1. i \in 1 .. l - 1 /\ i + 1 \in 1 .. Len(stream) - 1
      BY <1>8, <2>3
    <3>2. stream'[i] = stream[i + 1]
      BY <2>3, <3>1
    <3> QED
      BY <3>1, <3>2 DEF Undisturbed
  <2>10. Undisturbed'
    BY <1>1, <1>5, <2>4, <2>6, <2>8, <2>9 DEF Undisturbed, CardBytes, Contents, KindOf
  <2> QED
    BY <1>2, <2>10 DEF GatewayInv
<1> QED
  BY <1>14, <1>15

\* A byte of a packet that is lost.
LEMMA TakeDisturbed == ASSUME GatewayTypeOK, Disturbed, TakeByte PROVE GatewayInv'
<1>1. stream # <<>> /\ stream' = Tail(stream) /\ passed' = passed /\ faults' = faults
  BY DEF TakeByte
<1>2. GatewayTypeOK'
  BY TakeByteTypes
<1>3. /\ stream \in Seq(CardByte) /\ stream' \in Seq(CardByte)
      /\ MayLose \in Int /\ MayInvent \in Int /\ MayLose' \in Int /\ MayInvent' \in Int
  <2>1. GatewayTypeOK => stream \in Seq(CardByte) /\ MayLose \in Int /\ MayInvent \in Int
    BY Amounts DEF GatewayTypeOK
  <2>2. GatewayTypeOK' => stream' \in Seq(CardByte) /\ MayLose' \in Int /\ MayInvent' \in Int
    BY DEF GatewayTypeOK, MayLose, MayInvent
  <2> QED
    BY <1>2, <2>1, <2>2
<1>4. PICK n \in Nat, m \in Nat :
         /\ n = Dollars(stream) /\ m = Dollars(stream') /\ m <= n
         /\ KindOf(Head(stream)) = "$" => m <= n - 1
  <2>1. Dollars(Tail(stream)) \in Nat /\ Dollars(stream) \in Nat
    BY <1>1, <1>3, DollarsCounted
  <2>2. Dollars(stream') = Dollars(Tail(stream))
    BY <1>1
  <2> QED
    BY <1>1, <1>3, <2>1, <2>2, DollarsOfTail
<1>5. /\ MayLose >= 0 /\ MayInvent >= n /\ KindOf(stream[Len(stream)]) = "$"
  BY <1>4 DEF Disturbed
<1>6. MayLose' >= 0 /\ MayInvent' >= m
  <2>1. CASE UNCHANGED <<distributed, invented>>
    BY <1>1, <1>3, <1>4, <1>5, <2>1 DEF MayLose, MayInvent
  <2>2. CASE ~UNCHANGED <<distributed, invented>>
    <3>1. KindOf(Head(stream)) = "$" /\ \E b : distribute_packet(b)
      BY <2>2 DEF TakeByte
    <3>2. PICK b : distribute_packet(b)
      BY <3>1
    <3>3. /\ Len(distributed') >= Len(distributed) /\ invented' <= invented + 1
          /\ invented' \in Nat /\ Len(distributed') \in Nat
      BY <1>2, <3>2, DistributesOne DEF distribute_packet, GatewayTypeOK
    <3>4. MayLose' >= MayLose /\ MayInvent' >= MayInvent - 1
      BY <1>1, <3>3, SpendOne
    <3> QED
      BY <1>3, <1>4, <1>5, <3>1, <3>4
  <2> QED
    BY <2>1, <2>2
<1>7. CASE stream' = <<>>
  <2>1. PICK l \in Nat : l = Len(stream) /\ l - 1 = Len(stream') /\ Head(stream) = stream[1]
    BY <1>1, <1>3, TailOf
  <2>2. l = 1
    <3>1. Len(stream') = 0
      BY <1>7
    <3>2. l - 1 = 0
      BY <2>1, <3>1, Zenon
    <3> QED
      BY <3>2
  <2>3. KindOf(Head(stream)) = "$"
    BY <1>5, <2>1, <2>2
  <2>4. readbuffer' = <<>>
    BY <2>3 DEF TakeByte, Discarded, distribute_packet
  <2>5. MayInvent' >= 0
    BY <1>3, <1>4, <1>6
  <2>6. Between'
    BY <1>6, <1>7, <2>4, <2>5 DEF Between
  <2> QED
    BY <1>2, <2>6 DEF GatewayInv
<1>8. CASE stream' # <<>>
  <2>1. PICK l \in Nat : l = Len(stream) /\ l > 0 /\ Len(stream') = l - 1
        /\ \A i \in 1 .. l - 1 : stream'[i] = stream[i + 1]
    BY <1>1, <1>3, TailOf
  <2>2. l - 1 \in 1 .. l - 1
    BY <1>3, <1>8, <2>1
  <2>3. KindOf(stream'[Len(stream')]) = "$"
    <3>1. stream'[l - 1] = stream[l]
      BY <2>1, <2>2
    <3> QED
      BY <1>5, <2>1, <3>1
  <2>4. Disturbed'
    BY <1>4, <1>6, <1>8, <2>3 DEF Disturbed, KindOf, Dollars, DollarsIn
  <2> QED
    BY <1>2, <2>4 DEF GatewayInv
<1> QED
  BY <1>7, <1>8

\* The text between two packets.
LEMMA TakeBetween == ASSUME GatewayTypeOK, Between, TakeByte PROVE GatewayInv'
<1>1. stream # <<>> /\ stream' = Tail(stream) /\ passed' = passed /\ faults' = faults
  BY DEF TakeByte
<1>2. GatewayTypeOK'
  BY TakeByteTypes
<1>3. stream = << <<"text", 0>> >>
  BY <1>1 DEF Between
<1>4. stream' = <<>> /\ KindOf(Head(stream)) = "text"
  BY <1>1, <1>3 DEF KindOf
<1>5. UNCHANGED <<distributed, invented>>
  BY <1>4 DEF TakeByte
<1>6. MayLose' = MayLose /\ MayInvent' = MayInvent
  BY <1>1, <1>5 DEF MayLose, MayInvent
<1>7. readbuffer' # <<>> => readbuffer # <<>>
  BY <1>4 DEF TakeByte, Discarded
<1>8. Between'
  BY <1>4, <1>6, <1>7 DEF Between
<1> QED
  BY <1>2, <1>8 DEF GatewayInv

-----------------------------------------------------------------------------
(* The theorems about the gateway *)

LEMMA InitGateway == GatewayInit => GatewayInv
BY DEF GatewayInit, GatewayInv, GatewayTypeOK, Between, MayLose, MayInvent

LEMMA NextGateway == GatewayInv /\ [GatewayNext]_gatewayVars => GatewayInv'
<1> SUFFICES ASSUME GatewayInv, [GatewayNext]_gatewayVars PROVE GatewayInv'
  OBVIOUS
<1>1. CASE FromCard
  BY <1>1, FromCardKeeps
<1>2. CASE LoseByteOnLine
  BY <1>2, LoseByteKeeps
<1>3. CASE DebugText
  BY <1>3, DebugTextKeeps
<1>4. CASE TakeByte
  BY <1>4, TakeUndisturbed, TakeDisturbed, TakeBetween DEF GatewayInv
<1>5. CASE UNCHANGED gatewayVars
  BY <1>5 DEF gatewayVars, GatewayInv, GatewayTypeOK, Undisturbed, Disturbed, Between,
              MayLose, MayInvent, CardBytes, Contents, KindOf, Dollars, DollarsIn
<1> QED
  BY <1>1, <1>2, <1>3, <1>4, <1>5 DEF GatewayNext

\* What the buffer and the rest of the packet on the way make of each other, and what
\* the faults may still cost.
THEOREM GatewayInvariant == GatewaySpec => []GatewayInv
<1> QED
  BY InitGateway, NextGateway, PTL DEF GatewaySpec

LEMMA InvariantBounds == GatewayInv => FaultsAreBounded
<1> SUFFICES ASSUME GatewayInv, stream = <<>>
             PROVE  passed - Len(distributed) <= 2 * faults /\ invented <= 2 * faults
  BY DEF FaultsAreBounded
<1>1. GatewayTypeOK /\ Between
  BY DEF GatewayInv, Undisturbed, Disturbed
<1>2. passed \in Nat /\ faults \in Nat /\ invented \in Nat /\ Len(distributed) \in Nat
  BY <1>1, Amounts DEF GatewayTypeOK
<1> QED
  BY <1>1, <1>2 DEF Between, MayLose, MayInvent

\* A fault (a byte lost on the serial line, a '$' within a packet) costs two packets at
\* most and makes up two at most, whatever the other bytes of a packet are and however
\* many: the gateway finds its way back into the stream.
THEOREM FaultsCostTwo == GatewaySpec => []FaultsAreBounded
<1> QED
  BY GatewayInvariant, InvariantBounds, PTL

-----------------------------------------------------------------------------
(* The reset card busmaster: commands and their bytes *)

\* A sequence of n elements.
IsList(f, n) == f = [i \in 1 .. n |-> f[i]]

\* h is the m elements of f and the n of g behind them.
IsConcat(h, f, m, g, n) ==
    /\ IsList(h, m + n)
    /\ \A i \in 1 .. m : h[i] = f[i]
    /\ \A i \in 1 .. n : h[m + i] = g[i]

\* Lists put one behind the other.
LEMMA ConcatLists ==
    ASSUME NEW m \in Nat, NEW n \in Nat, NEW f, NEW g, IsList(f, m), IsList(g, n)
    PROVE  IsConcat(f \o g, f, m, g, n)
<1> DEFINE S == {f[i] : i \in 1 .. m} \cup {g[i] : i \in 1 .. n}
<1>1. f \in [1 .. m -> S] /\ g \in [1 .. n -> S]
  BY DEF IsList
<1> HIDE DEF S
<1>2. f \in Seq(S) /\ g \in Seq(S) /\ Len(f) = m /\ Len(g) = n
  BY <1>1
<1>3. f \o g \in Seq(S) /\ Len(f \o g) = m + n
  BY <1>2
<1>4. IsList(f \o g, m + n)
  <2>1. PICK h \in Seq(S) : h = f \o g
    BY <1>3
  <2>2. h \in [1 .. Len(h) -> S]
    BY <2>1, LenProperties
  <2> QED
    BY <1>3, <2>1, <2>2 DEF IsList
<1>5. \A i \in 1 .. m : (f \o g)[i] = f[i]
  BY <1>2
<1>6. \A i \in 1 .. n : (f \o g)[m + i] = g[i]
  BY <1>2
<1> QED
  BY <1>4, <1>5, <1>6 DEF IsConcat

\* A payload is a list of characters other than the three that frame it, and
\* its command fits the buffer.
LEMMA PayloadIs ==
    ASSUME NEW payload \in Payloads
    PROVE  \E l \in 0 .. 99 : /\ l = Len(payload) /\ l + 6 <= BufferEnd /\ BufferEnd \in Nat
                              /\ IsList(payload, l)
                              /\ \A i \in 1 .. l : payload[i] \in 0 .. 255 \ {Nul, Dollar, Caret}
<1> DEFINE Chars == 0 .. 255 \ {Nul, Dollar, Caret}
<1>1. /\ payload \in Seq(Chars) /\ BufferEnd \in Nat
      /\ Len(payload) < 100 /\ Len(payload) + Framing <= BufferEnd
  BY ResetCardAssumption
<1> HIDE DEF Chars
<1>2. PICK l \in Nat : l = Len(payload)
  BY <1>1
<1>3. payload \in [1 .. l -> Chars]
  BY <1>1, <1>2, LenProperties
<1>4. l < 100 /\ l + Framing <= BufferEnd
  BY <1>1, <1>2
<1>5. l \in 0 .. 99 /\ l + 6 <= BufferEnd
  BY <1>1, <1>4 DEF Framing
<1>6. IsList(payload, l)
  BY <1>3 DEF IsList
<1>7. \A i \in 1 .. l : payload[i] \in Chars
  BY <1>3
<1> QED
  BY <1>1, <1>2, <1>5, <1>6, <1>7 DEF Chars

\* The characters of a command, each at its place.
LEMMA TextIs ==
    ASSUME NEW payload \in Payloads, NEW l \in 0 .. 99, l = Len(payload)
    PROVE  /\ CommandText(payload)[1] = Caret
           /\ CommandText(payload)[2] = DigitChar(0) /\ CommandText(payload)[3] = DigitChar(1)
           /\ CommandText(payload)[4] = DigitChar(l \div 10) /\ CommandText(payload)[5] = DigitChar(l % 10)
           /\ \A i \in 1 .. l : CommandText(payload)[5 + i] = payload[i]
           /\ CommandText(payload)[5 + l + 1] = Dollar
<1> DEFINE p == TwoDigits(Participant)
           n == TwoDigits(l)
           first == <<Caret>>
           last == <<Dollar>>
           d == first \o p
           front == d \o n
           head == front \o payload
<1>1. CommandText(payload) = head \o last
  BY DEF CommandText
<1>2. IsList(first, 1) /\ first[1] = Caret /\ IsList(last, 1) /\ last[1] = Dollar
  BY DEF IsList
<1>3. IsList(p, 2) /\ p[1] = DigitChar(0) /\ p[2] = DigitChar(1)
  BY DEF IsList, TwoDigits, Participant
<1>4. IsList(n, 2) /\ n[1] = DigitChar(l \div 10) /\ n[2] = DigitChar(l % 10)
  BY DEF IsList, TwoDigits
<1>5. IsList(payload, l)
  BY PayloadIs
<1> HIDE DEF p, n, first, last
<1>6. 1 \in Nat /\ 2 \in Nat /\ 3 \in Nat /\ 5 \in Nat /\ l \in Nat /\ 5 + l \in Nat
  OBVIOUS
<1>7. IsConcat(d, first, 1, p, 2)
  BY <1>2, <1>3, <1>6, ConcatLists
<1> HIDE DEF d
<1>8. IsList(d, 3) /\ d[1] = Caret /\ d[2] = DigitChar(0) /\ d[3] = DigitChar(1)
  BY <1>2, <1>3, <1>7 DEF IsConcat
<1>9. IsConcat(front, d, 3, n, 2)
  BY <1>4, <1>6, <1>8, ConcatLists
<1> HIDE DEF front
<1>10. /\ IsList(front, 5) /\ front[1] = Caret /\ front[2] = DigitChar(0) /\ front[3] = DigitChar(1)
       /\ front[4] = DigitChar(l \div 10) /\ front[5] = DigitChar(l % 10)
  BY <1>4, <1>8, <1>9 DEF IsConcat
<1>11. IsConcat(head, front, 5, payload, l)
  BY <1>5, <1>6, <1>10, ConcatLists
<1> HIDE DEF head
<1>12. IsList(head, 5 + l)
  BY <1>11 DEF IsConcat
<1>13. IsConcat(head \o last, head, 5 + l, last, 1)
  BY <1>2, <1>6, <1>12, ConcatLists
<1>14. \A i \in 1 .. 5 + l : CommandText(payload)[i] = head[i]
  BY <1>1, <1>13 DEF IsConcat
<1>15. \A i \in 1 .. 5 : head[i] = front[i]
  BY <1>11 DEF IsConcat
<1>16. \A i \in 1 .. l : head[5 + i] = payload[i]
  BY <1>11 DEF IsConcat
<1>17. CommandText(payload)[5 + l + 1] = Dollar
  <2>1. 1 \in 1 .. 1
    OBVIOUS
  <2> QED
    BY <1>1, <1>2, <1>13, <2>1 DEF IsConcat
<1>18. \A i \in 1 .. 5 : i \in 1 .. 5 + l
  OBVIOUS
<1>19. \A i \in 1 .. l : 5 + i \in 1 .. 5 + l
  OBVIOUS
<1>20. \A i \in 1 .. l : CommandText(payload)[5 + i] = payload[i]
  BY <1>14, <1>16, <1>19
<1>21. \A i \in 1 .. 5 : CommandText(payload)[i] = front[i]
  BY <1>14, <1>15, <1>18
<1>22. {1, 2, 3, 4, 5} \subseteq 1 .. 5
  OBVIOUS
<1> QED
  BY <1>10, <1>17, <1>20, <1>21, <1>22

\* The bytes of the commands.
PlaceOf(byte) == byte[3]
Size(n) == Len(given[n]) + Framing
ByteOf(n, place) == CommandBytes(n, given[n])[place]

\* How many bytes of a command have left the line.
NextCommand == IF serial = <<>> THEN Len(given) + 1 ELSE CommandOf(Head(serial))
NextPlace == IF serial = <<>> THEN 1 ELSE PlaceOf(Head(serial))
Passed(n) == IF n < NextCommand THEN Size(n) ELSE IF n = NextCommand THEN NextPlace - 1 ELSE 0

CharCodes == 0 .. 255
ResetByte == CharCodes \X Nat \X Nat
Waiting == {"loop", "last"}
Parsing == {"terminate", "dest", "len", "check"}

ResetTypeOK ==
    /\ given \in Seq(Payloads)
    /\ serial \in Seq(ResetByte)
    /\ eth_to_rs \in [-1 .. BufferEnd -> ResetByte]
    /\ eth_to_rs_cnt \in 0 .. BufferEnd
    /\ rpc \in Waiting \cup Parsing \cup {"send", "complain", "delay", "overrun"}
    /\ dest \in Nat /\ pktlen \in Nat
    /\ came \in BOOLEAN
    /\ sent \in Seq([command : Nat, to : Nat, payload : Seq(ResetByte)])

\* The commands given so far.
Commands == 1 .. Len(given)

\* The byte behind another one: of the same command, or the first of the next.
Follows(byte, next) ==
    LET n == CommandOf(byte)
        p == PlaceOf(byte)
    IN IF p < Size(n) THEN next = ByteOf(n, p + 1) ELSE n < Len(given) /\ next = ByteOf(n + 1, 1)

\* What is on the way is the end of all the bytes of all the commands.
SerialInOrder ==
    /\ \A j \in 1 .. Len(serial) : \E n \in Commands : \E p \in 1 .. Size(n) : serial[j] = ByteOf(n, p)
    /\ \A j \in 1 .. Len(serial) - 1 : Follows(serial[j], serial[j + 1])
    /\ serial # <<>> => serial[Len(serial)] = ByteOf(Len(given), Size(Len(given)))

\* A command loses a byte when it leaves the line.
CutHasPassed == \A n \in cut : n \in Commands /\ Passed(n) > 0

\* Every packet is a command that began to leave the line: SentWasGiven, and the
\* one thing more that keeps it true.
SentRight ==
    \A k \in DOMAIN sent : \E n \in Commands :
       /\ n = sent[k].command /\ Passed(n) > 0
       /\ \/ sent[k].to = Participant /\ sent[k].payload = Payload(n)
          \/ n \in cut /\ (n \in crowded \/ Ambiguous(given[n]))

SentInOrder == \A j, k \in DOMAIN sent : j < k => sent[j].command < sent[k].command

\* A command that began to leave the line after all the commands that were sent.
IsFresh(n) == n \in Commands /\ Passed(n) > 0 /\ \A k \in DOMAIN sent : sent[k].command < n

\* How many bytes of a command have arrived.
Got(n) == IF n \in cut THEN Passed(n) - 1 ELSE Passed(n)

\* The buffer begins with k bytes of a command, without the one at place x.
HoldsBut(n, x, k) ==
    \A i \in 0 .. k - 1 : eth_to_rs[i] = ByteOf(n, IF i + 1 < x THEN i + 1 ELSE i + 2)

\* ... without the one that was lost, if one was.
Holds(n, k) ==
    \E x \in 2 .. Size(n) + 1 :
        /\ IF n \in cut THEN x <= Passed(n) ELSE x > Size(n)
        /\ HoldsBut(n, x, k)

\* The buffer begins with the bytes of command n that have arrived.  There is more
\* behind them only when all of n is there and n was pressed by others.
Collecting(n) ==
    /\ IsFresh(n)
    /\ eth_to_rs_cnt >= Got(n)
    /\ Passed(n) < Size(n) \/ n \notin crowded => eth_to_rs_cnt = Got(n)
    /\ Holds(n, Got(n))

\* The buffer begins with all the bytes of command n, up to its '$'.
Whole(n) ==
    /\ IsFresh(n) /\ Passed(n) = Size(n)
    /\ eth_to_rs_cnt >= Got(n)
    /\ n \notin crowded => eth_to_rs_cnt = Got(n)
    /\ Holds(n, Got(n) - 1)

\* What the parser has read of command n so far.
Parsed(n) ==
    /\ n \notin cut => /\ rpc \in {"len", "check"} => dest = Participant
                       /\ rpc = "check" => pktlen = Len(given[n])
    /\ n \in cut \ crowded /\ rpc = "check" /\ pktlen = eth_to_rs_cnt - Framing => Ambiguous(given[n])

\* The buffer was full, and a byte came while the main loop was reading it.
Wrapped == eth_to_rs_cnt <= 1 /\ came

\* Command n has passed the length test.
Sending(n) ==
    /\ IsFresh(n) /\ Passed(n) = Size(n)
    /\ ~came => eth_to_rs_cnt = pktlen + Framing
    /\ pktlen + Framing <= BufferEnd
    /\ n \notin cut => /\ dest = Participant /\ pktlen = Len(given[n])
                       /\ \A i \in 1 .. pktlen : eth_to_rs[4 + i] = ByteOf(n, 5 + i)
    /\ n \in cut => n \in crowded \/ Ambiguous(given[n])

\* What the main loop may rely on at each of its steps.
LoopInv ==
    /\ rpc \in Waiting /\ eth_to_rs_cnt > 0 =>
          \E n \in Commands : n = CommandOf(eth_to_rs[0]) /\ Collecting(n)
    /\ rpc = "last" /\ eth_to_rs_cnt = 0 => came
    /\ rpc \in Parsing => Wrapped \/ \E n \in Commands : n = CommandOf(eth_to_rs[1]) /\ Whole(n) /\ Parsed(n)
    /\ rpc = "send" => \E n \in Commands : n = CommandOf(eth_to_rs[1]) /\ Sending(n)

\* Command n is the one the buffer begins with.
InBuffer(n) ==
    \/ rpc \in Waiting /\ eth_to_rs_cnt > 0 /\ n = CommandOf(eth_to_rs[0])
    \/ rpc \in Parsing /\ eth_to_rs_cnt > 1 /\ n = CommandOf(eth_to_rs[1])
    \/ rpc = "send" /\ n = CommandOf(eth_to_rs[1])

\* A command that nothing pressed and that lost nothing is in the buffer or sent, as
\* long as nothing overran lbuffer.
NoneIsLost ==
    rpc # "overrun" =>
       \A n \in Commands \ (cut \cup crowded) :
          Passed(n) > 0 => InBuffer(n) \/ \E k \in DOMAIN sent : sent[k].command = n

\* The invariant.
ResetInv ==
    /\ ResetTypeOK /\ SerialInOrder /\ CutHasPassed /\ SentRight /\ SentInOrder
    /\ LoopInv /\ NoneIsLost

-----------------------------------------------------------------------------
\* The size of a command.
LEMMA SizeIs ==
    ASSUME given \in Seq(Payloads), NEW n \in Commands
    PROVE  /\ given[n] \in Payloads
           /\ \E l \in 0 .. 99 : l = Len(given[n]) /\ Size(n) = l + 6
           /\ Size(n) <= BufferEnd /\ BufferEnd \in Nat
<1>1. given[n] \in Payloads
  BY DEF Commands
<1>2. PICK l \in 0 .. 99 : l = Len(given[n]) /\ l + 6 <= BufferEnd /\ BufferEnd \in Nat
  BY <1>1, PayloadIs
<1>3. Size(n) = l + 6
  BY <1>2 DEF Size, Framing
<1> QED
  BY <1>1, <1>2, <1>3

LEMMA DigitsOf ==
    ASSUME NEW l \in 0 .. 99
    PROVE  /\ (l \div 10) \in 0 .. 9 /\ (l % 10) \in 0 .. 9
           /\ 10 * (l \div 10) + (l % 10) = l
OBVIOUS

\* Only the first character of a command is '^', and only the last one '$'.
LEMMA LetterIs ==
    ASSUME NEW payload \in Payloads, NEW l \in 0 .. 99, l = Len(payload), NEW p \in 1 .. l + 6
    PROVE  /\ CommandText(payload)[p] \in CharCodes
           /\ CommandText(payload)[p] = Caret <=> p = 1
           /\ CommandText(payload)[p] = Dollar <=> p = l + 6
<1> DEFINE t == CommandText(payload)
<1>1. /\ t[1] = Caret /\ t[2] = DigitChar(0) /\ t[3] = DigitChar(1)
      /\ t[4] = DigitChar(l \div 10) /\ t[5] = DigitChar(l % 10)
      /\ \A i \in 1 .. l : t[5 + i] = payload[i]
      /\ t[5 + l + 1] = Dollar
  BY TextIs
<1>2. \A i \in 1 .. l : payload[i] \in 0 .. 255 \ {Nul, Dollar, Caret}
  BY PayloadIs
<1> HIDE DEF t
<1>3. CASE p = 1
  <2>1. t[p] = 94
    BY <1>1, <1>3 DEF Caret
  <2>2. p # l + 6
    BY <1>3
  <2> QED
    BY <1>3, <2>1, <2>2 DEF Caret, Dollar, CharCodes, t
<1>4. CASE p \in 2 .. 5
  <2>1. PICK d \in 0 .. 9 : t[p] = DigitChar(d)
    <3>1. p = 2 \/ p = 3 \/ p = 4 \/ p = 5
      BY <1>4
    <3>2. 0 \in 0 .. 9 /\ 1 \in 0 .. 9
      OBVIOUS
    <3> QED
      BY <1>1, <3>1, <3>2, DigitsOf
  <2>2. p # l + 6 /\ p # 1
    BY <1>4
  <2>3. t[p] \in 0 .. 255 /\ t[p] # 36 /\ t[p] # 94
    BY <2>1 DEF DigitChar
  <2> QED
    BY <2>2, <2>3 DEF Caret, Dollar, CharCodes, t
<1>5. CASE p \in 6 .. l + 5
  <2>1. p - 5 \in 1 .. l /\ p = 5 + (p - 5)
    BY <1>5
  <2>2. t[p] = payload[p - 5]
    BY <1>1, <2>1
  <2>3. t[p] \in 0 .. 255 /\ t[p] # Dollar /\ t[p] # Caret
    BY <1>2, <2>1, <2>2
  <2> QED
    BY <1>5, <2>3 DEF t, CharCodes
<1>6. CASE p = l + 6
  <2>1. t[p] = Dollar
    BY <1>1, <1>6
  <2> QED
    BY <1>6, <2>1 DEF Caret, Dollar, CharCodes, t
<1> QED
  BY <1>3, <1>4, <1>5, <1>6

\* The byte at place p of a command of this size.
IsByteOf(byte, n, size, p) ==
    /\ byte \in ResetByte /\ CommandOf(byte) = n /\ PlaceOf(byte) = p
    /\ Char(byte) = Caret <=> p = 1
    /\ Char(byte) = Dollar <=> p = size

\* The bytes of a command carry its number, their place and its characters.
LEMMA CommandBytesAre ==
    ASSUME NEW payload \in Payloads, NEW l \in 0 .. 99, l = Len(payload), NEW n \in Nat, NEW p \in 1 .. l + 6
    PROVE  /\ IsByteOf(CommandBytes(n, payload)[p], n, l + 6, p)
           /\ Char(CommandBytes(n, payload)[p]) = CommandText(payload)[p]
<1> DEFINE char == CommandText(payload)[p]
<1>1. CommandBytes(n, payload)[p] = Byte(char, n, p)
  BY DEF CommandBytes, Framing
<1>2. char \in CharCodes /\ (char = Caret <=> p = 1) /\ (char = Dollar <=> p = l + 6)
  BY LetterIs
<1>3. p \in Nat
  OBVIOUS
<1>4. char = CommandText(payload)[p]
  OBVIOUS
<1> HIDE DEF char
<1> QED
  BY <1>1, <1>2, <1>3, <1>4 DEF IsByteOf, Byte, Char, CommandOf, PlaceOf, ResetByte

\* The byte at a place of a command.
IsByte(byte, n, p) == IsByteOf(byte, n, Size(n), p)

\* The same of a command that was given.
LEMMA ByteIs ==
    ASSUME given \in Seq(Payloads), NEW n \in Commands, NEW p \in 1 .. Size(n)
    PROVE  IsByte(ByteOf(n, p), n, p)
<1>1. given[n] \in Payloads
  BY SizeIs
<1>2. PICK l \in 0 .. 99 : l = Len(given[n]) /\ Size(n) = l + 6
  BY SizeIs
<1>3. n \in Nat /\ p \in 1 .. l + 6
  BY <1>2 DEF Commands
<1> QED
  <2>1. IsByteOf(CommandBytes(n, given[n])[p], n, l + 6, p)
    BY <1>1, <1>2, <1>3, CommandBytesAre
  <2> QED
    BY <1>2, <2>1 DEF ByteOf, IsByte, IsByteOf

-----------------------------------------------------------------------------
(* The bytes on the way *)

\* The byte at the front of the line.
LEMMA FrontIs ==
    ASSUME given \in Seq(Payloads), serial \in Seq(ResetByte), SerialInOrder, serial # <<>>
    PROVE  \E c \in Commands : \E p \in 1 .. Size(c) :
              Head(serial) = ByteOf(c, p) /\ serial[1] = ByteOf(c, p) /\ NextCommand = c /\ NextPlace = p
<1>1. PICK m \in Nat : m = Len(serial)
  OBVIOUS
<1>2. 1 \in 1 .. m
  BY <1>1, EmptySeq
<1>3. PICK c \in Commands : \E p \in 1 .. Size(c) : serial[1] = ByteOf(c, p)
  BY <1>1, <1>2 DEF SerialInOrder
<1>4. PICK p \in 1 .. Size(c) : serial[1] = ByteOf(c, p)
  BY <1>3
<1>5. Head(serial) = serial[1]
  OBVIOUS
<1>6. IsByte(ByteOf(c, p), c, p)
  BY ByteIs
<1> QED
  BY <1>4, <1>5, <1>6 DEF NextCommand, NextPlace, IsByte, IsByteOf

\* Of all commands before one that has begun to leave the line, everything has left it.
LEMMA PassedIs ==
    ASSUME given \in Seq(Payloads), serial \in Seq(ResetByte), SerialInOrder, NEW n \in Commands
    PROVE  /\ Passed(n) \in 0 .. Size(n)
           /\ Passed(n) > 0 => \A m \in Commands : m < n => Passed(m) = Size(m)
           /\ serial = <<>> => Passed(n) = Size(n)
<1>1. PICK k \in Nat : k = Len(given) /\ Commands = 1 .. k
  BY DEF Commands
<1>2. \A m \in Commands : Size(m) \in Nat
  <2> TAKE m \in Commands
  <2>1. PICK l \in 0 .. 99 : Size(m) = l + 6
    BY SizeIs
  <2> QED
    BY <2>1
<1>3. CASE serial = <<>>
  <2>1. NextCommand = k + 1 /\ \A m \in Commands : m < k + 1
    BY <1>1, <1>3 DEF NextCommand
  <2>2. \A m \in Commands : Passed(m) = Size(m)
    BY <2>1 DEF Passed
  <2> QED
    BY <1>2, <2>2
<1>4. CASE serial # <<>>
  <2>1. PICK c \in Commands : \E p \in 1 .. Size(c) : NextCommand = c /\ NextPlace = p
    BY <1>4, FrontIs
  <2>2. PICK p \in 1 .. Size(c) : NextCommand = c /\ NextPlace = p
    BY <2>1
  <2>3. \A m \in Commands : Passed(m) = IF m < c THEN Size(m) ELSE IF m = c THEN p - 1 ELSE 0
    BY <2>2 DEF Passed
  <2> QED
    BY <1>1, <1>2, <1>4, <2>2, <2>3
<1> QED
  BY <1>3, <1>4

\* The numbers that the arithmetic below is about.
LEMMA Counts ==
    ASSUME given \in Seq(Payloads), serial \in Seq(ResetByte), SerialInOrder, NEW n \in Commands
    PROVE  /\ n \in Nat /\ Passed(n) \in Nat /\ Size(n) \in Nat /\ BufferEnd \in Nat
           /\ Passed(n) <= Size(n) /\ 6 <= Size(n) /\ Size(n) <= BufferEnd
<1>1. PICK l \in 0 .. 99 : Size(n) = l + 6 /\ Size(n) <= BufferEnd /\ BufferEnd \in Nat
  BY SizeIs
<1>2. n \in Nat
  BY DEF Commands
<1>3. Passed(n) \in 0 .. Size(n)
  BY PassedIs
<1> QED
  BY <1>1, <1>2, <1>3

\* The byte at place p of command c leaves the line.
Passes(c, p) ==
    /\ Head(serial) = ByteOf(c, p) /\ Passed(c) = p - 1
    /\ \A n \in Commands : /\ n < c => Passed(n) = Size(n)
                           /\ n > c => Passed(n) = 0
                           /\ Passed(n)' = IF n = c THEN p ELSE Passed(n)

\* The commands and their bytes stay the same.
SameBytes ==
    /\ Commands' = Commands
    /\ \A n : Size(n)' = Size(n)
    /\ \A n, p : ByteOf(n, p)' = ByteOf(n, p)

LEMMA GivenStays == ASSUME given' = given PROVE SameBytes
BY DEF SameBytes, Commands, Size, ByteOf

\* When the line gives up its first byte, the rest is still in order, and one byte more
\* of the command at its front has passed.
LEMMA TailStays ==
    ASSUME given \in Seq(Payloads), serial \in Seq(ResetByte), SerialInOrder, serial # <<>>,
           serial' = Tail(serial), given' = given
    PROVE  SerialInOrder' /\ \E c \in Commands : \E p \in 1 .. Size(c) : Passes(c, p)
<1>0. SameBytes /\ Len(given)' = Len(given)
  BY GivenStays
<1>1. PICK m \in Nat : m + 1 = Len(serial)
  <2>1. PICK l \in Nat : l = Len(serial)
    OBVIOUS
  <2>2. l # 0
    BY <2>1, EmptySeq
  <2>3. l - 1 \in Nat /\ (l - 1) + 1 = l
    BY <2>2
  <2> QED
    BY <2>1, <2>3
<1>2. m = Len(serial') /\ \A j \in 1 .. m : serial'[j] = serial[j + 1]
  BY <1>1, HeadTailProperties
<1>3. \A j \in 1 .. m : j + 1 \in 1 .. m + 1
  OBVIOUS
<1>4. \A j \in 1 .. m - 1 : j \in 1 .. m /\ j + 1 \in 1 .. m /\ j + 1 \in 1 .. (m + 1) - 1
  OBVIOUS
<1>5. PICK k \in Nat : k = Len(given) /\ Commands = 1 .. k
  BY DEF Commands
<1>6. SerialInOrder'
  <2>1. \A j \in 1 .. m : \E n \in Commands : \E p \in 1 .. Size(n) : serial'[j] = ByteOf(n, p)
    BY <1>1, <1>2, <1>3 DEF SerialInOrder
  <2>2. \A j \in 1 .. m - 1 : Follows(serial'[j], serial'[j + 1])
    BY <1>1, <1>2, <1>4 DEF SerialInOrder
  <2>3. m # 0 => serial'[m] = ByteOf(k, Size(k))
    <3>1. SUFFICES ASSUME m # 0 PROVE serial'[m] = ByteOf(k, Size(k))
      OBVIOUS
    <3>2. m \in 1 .. m
      BY <3>1
    <3> QED
      BY <1>1, <1>2, <1>5, <3>2 DEF SerialInOrder
  <2>4. serial' # <<>> => m # 0
    BY <1>2, EmptySeq
  <2>5. \A b, d : Follows(b, d)' <=> Follows(b, d)
    BY <1>0 DEF Follows, SameBytes
  <2> QED
    BY <1>0, <1>2, <1>5, <2>1, <2>2, <2>3, <2>4, <2>5 DEF SerialInOrder, SameBytes
<1>7. PICK c \in Commands : \E p \in 1 .. Size(c) :
         Head(serial) = ByteOf(c, p) /\ serial[1] = ByteOf(c, p) /\ NextCommand = c /\ NextPlace = p
  BY FrontIs
<1>8. PICK p \in 1 .. Size(c) :
         Head(serial) = ByteOf(c, p) /\ serial[1] = ByteOf(c, p) /\ NextCommand = c /\ NextPlace = p
  BY <1>7
<1>9. IsByte(ByteOf(c, p), c, p)
  BY ByteIs
<1>10. \A n \in Commands : Size(n) \in Nat /\ 1 \in 1 .. Size(n)
  <2> TAKE n \in Commands
  <2>1. PICK l \in 0 .. 99 : Size(n) = l + 6
    BY SizeIs
  <2> QED
    BY <2>1
<1>11. \A n \in Commands : Passed(n) = IF n < c THEN Size(n) ELSE IF n = c THEN p - 1 ELSE 0
  BY <1>8 DEF Passed
<1>12. \A n \in Commands : Passed(n)' = IF n < NextCommand' THEN Size(n) ELSE IF n = NextCommand' THEN NextPlace' - 1 ELSE 0
  BY <1>0 DEF Passed, SameBytes
<1>13. CASE m = 0
  <2>1. serial' = <<>>
    BY <1>2, <1>13, EmptySeq
  <2>2. NextCommand' = k + 1
    BY <1>5, <2>1 DEF NextCommand
  <2>3. serial[1] = ByteOf(k, Size(k))
    BY <1>1, <1>5, <1>13 DEF SerialInOrder
  <2>4. k \in Commands /\ Size(k) \in 1 .. Size(k)
    BY <1>5, <1>10
  <2>5. IsByte(ByteOf(k, Size(k)), k, Size(k))
    BY <2>4, ByteIs
  <2>6. c = k /\ p = Size(c)
    BY <1>8, <1>9, <2>3, <2>5 DEF IsByte, IsByteOf
  <2>7. \A n \in Commands : Passed(n)' = Size(n)
    BY <1>5, <1>12, <2>2
  <2>8. \A n \in Commands : n # c => n < c
    BY <1>5, <2>6
  <2> QED
    BY <1>5, <1>6, <1>8, <1>11, <2>6, <2>7, <2>8 DEF Passes
<1>14. CASE m # 0
  <2>1. 1 \in 1 .. m /\ 1 \in 1 .. (m + 1) - 1
    BY <1>14
  <2>2. Head(serial') = serial[2] /\ serial' # <<>>
    <3>1. serial' # <<>> /\ serial'[1] = serial[2]
      BY <1>2, <1>14, <2>1
    <3> QED
      BY <1>2, <3>1
  <2>3. Follows(ByteOf(c, p), serial[2])
    BY <1>1, <1>8, <2>1 DEF SerialInOrder
  <2>4. CASE p < Size(c)
    <3>1. serial[2] = ByteOf(c, p + 1)
      BY <1>9, <2>3, <2>4 DEF Follows, IsByte, IsByteOf
    <3>2. p + 1 \in 1 .. Size(c)
      BY <1>10, <2>4
    <3>3. IsByte(ByteOf(c, p + 1), c, p + 1)
      BY <3>2, ByteIs
    <3>4. NextCommand' = c /\ NextPlace' = p + 1
      BY <2>2, <3>1, <3>3 DEF NextCommand, NextPlace, IsByte, IsByteOf
    <3> QED
      BY <1>5, <1>6, <1>8, <1>10, <1>11, <1>12, <3>4 DEF Passes
  <2>5. CASE ~ p < Size(c)
    <3>1. c < k /\ serial[2] = ByteOf(c + 1, 1)
      BY <1>5, <1>9, <2>3, <2>5 DEF Follows, IsByte, IsByteOf
    <3>2. c + 1 \in Commands /\ 1 \in 1 .. Size(c + 1)
      BY <1>5, <1>10, <3>1
    <3>3. IsByte(ByteOf(c + 1, 1), c + 1, 1)
      BY <3>2, ByteIs
    <3>4. NextCommand' = c + 1 /\ NextPlace' = 1
      BY <2>2, <3>1, <3>3 DEF NextCommand, NextPlace, IsByte, IsByteOf
    <3>5. p = Size(c)
      BY <1>10, <2>5
    <3> QED
      BY <1>5, <1>6, <1>8, <1>10, <1>11, <1>12, <3>4, <3>5 DEF Passes
  <2> QED
    BY <2>4, <2>5
<1> QED
  BY <1>13, <1>14

\* A command that was there before is still there, and so is what has left the line.
Kept(n) ==
    /\ n \in Commands' /\ given'[n] = given[n] /\ Size(n)' = Size(n)
    /\ \A p : ByteOf(n, p)' = ByteOf(n, p)
    /\ Passed(n)' \in Nat /\ Passed(n)' >= Passed(n)

StillThere(n) == Kept(n) /\ Passed(n)' = Passed(n)

\* A command that is given goes behind all that is on the way.
LEMMA NewCommand ==
    ASSUME given \in Seq(Payloads), serial \in Seq(ResetByte), SerialInOrder,
           NEW payload \in Payloads, Give(payload)
    PROVE  /\ given' \in Seq(Payloads) /\ serial' \in Seq(ResetByte) /\ SerialInOrder'
           /\ \A n \in Commands : StillThere(n)
           /\ \A n \in Commands' : n \notin Commands => Passed(n)' = 0
<1>1. PICK k \in Nat : k = Len(given) /\ Commands = 1 .. k
  BY DEF Commands
<1>2. /\ given' \in Seq(Payloads) /\ Len(given') = k + 1 /\ given'[k + 1] = payload
      /\ \A n \in 1 .. k : given'[n] = given[n]
  BY <1>1, AppendProperties DEF Give
<1>3. Commands' = 1 .. k + 1 /\ Len(given)' = k + 1
  BY <1>2 DEF Commands
<1>4. \A n \in Commands : n \in Commands' /\ given'[n] = given[n] /\ Size(n)' = Size(n) /\ \A p : ByteOf(n, p)' = ByteOf(n, p)
  <2> TAKE n \in Commands
  <2>1. n \in 1 .. k + 1
    BY <1>1
  <2> QED
    BY <1>1, <1>2, <1>3, <2>1 DEF Size, ByteOf
<1> DEFINE new == CommandBytes(k + 1, payload)
<1>5. PICK l \in 0 .. 99 : l = Len(payload)
  BY PayloadIs
<1>6. serial' = serial \o new
  BY <1>2 DEF Give
<1>7. Size(k + 1)' = l + 6 /\ \A p : ByteOf(k + 1, p)' = new[p]
  BY <1>2, <1>5 DEF Size, ByteOf, Framing
<1>8. \A p \in 1 .. l + 6 : new[p] \in ResetByte /\ CommandOf(new[p]) = k + 1 /\ PlaceOf(new[p]) = p
  <2>1. k + 1 \in Nat
    OBVIOUS
  <2>2. \A p \in 1 .. l + 6 : IsByteOf(CommandBytes(k + 1, payload)[p], k + 1, l + 6, p)
    BY <1>5, <2>1, CommandBytesAre
  <2> QED
    BY <2>2 DEF IsByteOf
<1>9. new = [p \in 1 .. l + 6 |-> new[p]]
  BY <1>5 DEF CommandBytes, Framing
<1> HIDE DEF new
<1>10. l + 6 \in Nat /\ 1 \in 1 .. l + 6 /\ l + 6 \in 1 .. l + 6
  OBVIOUS
<1>11. new \in Seq(ResetByte) /\ Len(new) = l + 6
  BY <1>8, <1>9, <1>10
<1>12. PICK m \in Nat : m = Len(serial)
  OBVIOUS
<1>13. /\ serial' \in Seq(ResetByte) /\ m + (l + 6) = Len(serial')
       /\ \A j \in 1 .. m : serial'[j] = serial[j]
       /\ \A i \in 1 .. l + 6 : serial'[m + i] = new[i]
  <2>1. IsList(serial, m)
    BY <1>12, LenProperties DEF IsList
  <2>2. IsList(new, l + 6)
    BY <1>9 DEF IsList
  <2>3. IsConcat(serial', serial, m, new, l + 6)
    BY <1>6, <1>10, <2>1, <2>2, ConcatLists
  <2>4. serial' \in Seq(ResetByte) /\ Len(serial') = Len(serial) + Len(new)
    BY <1>6, <1>11, ConcatProperties
  <2> QED
    BY <1>11, <1>12, <2>3, <2>4 DEF IsConcat
<1>14. \A j \in 1 .. m + (l + 6) : j \in 1 .. m \/ \E i \in 1 .. l + 6 : j = m + i
  <2> TAKE j \in 1 .. m + (l + 6)
  <2>1. j \in 1 .. m \/ (j - m \in 1 .. l + 6 /\ j = m + (j - m))
    OBVIOUS
  <2> QED
    BY <2>1
<1>15. SerialInOrder'
  <2>1. \A j \in 1 .. m + (l + 6) : \E n \in Commands' : \E p \in 1 .. Size(n)' : serial'[j] = ByteOf(n, p)'
    <3> TAKE j \in 1 .. m + (l + 6)
    <3>1. CASE j \in 1 .. m
      BY <1>4, <1>12, <1>13, <3>1 DEF SerialInOrder
    <3>2. CASE \E i \in 1 .. l + 6 : j = m + i
      <4>1. k + 1 \in Commands'
        BY <1>3
      <4>2. PICK i \in 1 .. l + 6 : j = m + i
        BY <3>2
      <4>3. i \in 1 .. Size(k + 1)' /\ ByteOf(k + 1, i)' = new[i]
        BY <1>7, <4>2
      <4>4. serial'[j] = new[i]
        BY <1>13, <4>2
      <4> QED
        BY <4>1, <4>3, <4>4
    <3> QED
      BY <1>14, <3>1, <3>2
  <2>2. \A j \in 1 .. (m + (l + 6)) - 1 : Follows(serial[j], serial[j + 1])'
    <3> TAKE j \in 1 .. (m + (l + 6)) - 1
    <3>1. CASE j \in 1 .. m - 1
      <4>1. j \in 1 .. m /\ j + 1 \in 1 .. m
        BY <3>1
      <4>2. Follows(serial[j], serial[j + 1])
        BY <1>12, <3>1 DEF SerialInOrder
      <4>3. PICK n \in Commands : \E p \in 1 .. Size(n) : serial[j] = ByteOf(n, p)
        BY <1>12, <4>1 DEF SerialInOrder
      <4>4. PICK p \in 1 .. Size(n) : serial[j] = ByteOf(n, p)
        BY <4>3
      <4>5. CommandOf(serial[j]) = n /\ PlaceOf(serial[j]) = p
        BY <4>4, ByteIs DEF IsByte, IsByteOf
      <4>6. CASE p < Size(n)
        <5>1. serial'[j + 1] = ByteOf(n, p + 1)'
          BY <1>4, <1>13, <4>1, <4>2, <4>5, <4>6 DEF Follows
        <5> QED
          BY <1>4, <1>13, <4>1, <4>5, <4>6, <5>1 DEF Follows, CommandOf, PlaceOf
      <4>7. CASE ~ p < Size(n)
        <5>1. n < k /\ serial[j + 1] = ByteOf(n + 1, 1)
          BY <1>1, <4>2, <4>5, <4>7 DEF Follows
        <5>2. n + 1 \in Commands /\ n < k + 1
          BY <1>1, <5>1
        <5>3. serial'[j + 1] = ByteOf(n + 1, 1)' /\ ~ p < Size(n)'
          BY <1>4, <1>13, <4>1, <4>7, <5>1, <5>2
        <5> QED
          BY <1>3, <1>13, <4>1, <4>5, <5>2, <5>3 DEF Follows, CommandOf, PlaceOf
      <4> QED
        BY <4>6, <4>7
    <3>2. CASE j = m /\ m # 0
      <4>1. m \in 1 .. m /\ serial # <<>> /\ m + 1 = j + 1
        BY <1>12, <3>2
      <4>2. serial'[j] = ByteOf(k, Size(k))
        BY <1>1, <1>12, <1>13, <3>2, <4>1 DEF SerialInOrder
      <4>3. k \in Commands
        <5>1. PICK n \in Commands : TRUE
          BY <1>12, <4>1 DEF SerialInOrder
        <5> QED
          BY <1>1, <5>1
      <4>4. Size(k) \in 1 .. Size(k)
        <5>1. PICK q \in 0 .. 99 : Size(k) = q + 6
          BY <4>3, SizeIs
        <5> QED
          BY <5>1
      <4>5. CommandOf(serial'[j]) = k /\ PlaceOf(serial'[j]) = Size(k)
        BY <4>2, <4>3, <4>4, ByteIs DEF IsByte, IsByteOf
      <4>6. serial'[j + 1] = ByteOf(k + 1, 1)' /\ Size(k)' = Size(k)
        BY <1>4, <1>7, <1>10, <1>13, <3>2, <4>1, <4>3
      <4>7. k < k + 1 /\ ~ Size(k) < Size(k)
        BY <4>4
      <4> QED
        BY <1>3, <4>5, <4>6, <4>7 DEF Follows, CommandOf, PlaceOf
    <3>3. CASE \E i \in 1 .. l + 5 : j = m + i
      <4>1. PICK i \in 1 .. l + 5 : j = m + i
        BY <3>3
      <4>2. i \in 1 .. l + 6 /\ i + 1 \in 1 .. l + 6 /\ j + 1 = m + (i + 1) /\ i < l + 6
        BY <4>1
      <4>3. serial'[j] = new[i] /\ serial'[j + 1] = new[i + 1]
        BY <1>13, <4>1, <4>2
      <4>4. CommandOf(serial'[j]) = k + 1 /\ PlaceOf(serial'[j]) = i
        BY <1>8, <4>2, <4>3
      <4>5. i < Size(k + 1)' /\ serial'[j + 1] = ByteOf(k + 1, i + 1)'
        BY <1>7, <4>2, <4>3
      <4> QED
        BY <4>4, <4>5 DEF Follows, CommandOf, PlaceOf
    <3>4. j \in 1 .. m - 1 \/ (j = m /\ m # 0) \/ \E i \in 1 .. l + 5 : j = m + i
      <4>1. CASE j <= m
        BY <4>1
      <4>2. CASE m < j
        <5>1. j - m \in 1 .. l + 5 /\ j = m + (j - m)
          BY <4>2
        <5> QED
          BY <5>1
      <4> QED
        BY <4>1, <4>2
    <3> QED
      BY <3>1, <3>2, <3>3, <3>4
  <2>3. serial'[m + (l + 6)] = ByteOf(k + 1, l + 6)'
    BY <1>7, <1>10, <1>13
  <2> QED
    <3>1. PICK q \in Nat : q = Len(serial') /\ q = m + (l + 6)
      BY <1>10, <1>13
    <3>2. \A j \in 1 .. q : \E n \in Commands' : \E p \in 1 .. Size(n)' : serial'[j] = ByteOf(n, p)'
      BY <2>1, <3>1
    <3>3. \A j \in 1 .. q - 1 : Follows(serial[j], serial[j + 1])'
      BY <2>2, <3>1
    <3>4. serial'[q] = ByteOf(k + 1, l + 6)'
      BY <2>3, <3>1
    <3> HIDE <1>13, <2>1, <2>2, <2>3
    <3> QED
      BY <1>3, <1>7, <3>1, <3>2, <3>3, <3>4 DEF SerialInOrder
<1>16. (\A n \in Commands : Passed(n)' = Passed(n)) /\ Passed(k + 1)' = 0
  <2>0. \A n \in Commands : n < k + 1
    BY <1>1
  <2>1. CASE serial = <<>>
    <3>1. m = 0 /\ NextCommand = k + 1
      BY <1>1, <1>12, <2>1 DEF NextCommand
    <3>2. serial' # <<>> /\ Head(serial') = serial'[1]
      BY <1>10, <1>13
    <3>3. serial'[1] = new[1]
      BY <1>10, <1>13, <3>1
    <3>4. NextCommand' = k + 1 /\ NextPlace' = 1
      BY <1>8, <1>10, <3>2, <3>3 DEF NextCommand, NextPlace, CommandOf, PlaceOf
    <3> QED
      BY <1>4, <2>0, <3>1, <3>4 DEF Passed
  <2>2. CASE serial # <<>>
    <3>1. m # 0
      BY <1>12, <2>2, EmptySeq
    <3>2. 1 \in 1 .. m
      BY <3>1
    <3>3. serial' # <<>> /\ Head(serial') = serial[1] /\ Head(serial) = serial[1]
      BY <1>10, <1>13, <3>2
    <3>4. NextCommand' = NextCommand /\ NextPlace' = NextPlace
      BY <2>2, <3>3 DEF NextCommand, NextPlace, CommandOf, PlaceOf
    <3>5. NextCommand \in Commands
      BY <2>2, FrontIs
    <3>6. NextCommand < k + 1 /\ NextCommand \in Int
      BY <1>1, <3>5
    <3>7. ~ k + 1 < NextCommand /\ k + 1 # NextCommand
      BY <3>6
    <3> QED
      BY <1>4, <3>4, <3>7 DEF Passed
  <2> QED
    BY <2>1, <2>2
<1>17. \A n \in Commands' : n \notin Commands => n = k + 1
  BY <1>1, <1>3
<1>18. \A n \in Commands : Passed(n)' \in Nat /\ Passed(n)' >= Passed(n)
  BY <1>16, Counts
<1>19. \A n \in Commands : StillThere(n)
  BY <1>4, <1>16, <1>18 DEF StillThere, Kept
<1> QED
  BY <1>2, <1>13, <1>15, <1>16, <1>17, <1>19

-----------------------------------------------------------------------------
(* What a step leaves as it is *)

\* What was sent stays right.
LEMMA SentStays ==
    ASSUME ResetInv, \A n \in Commands : Kept(n), sent' = sent,
           cut \subseteq cut', crowded \subseteq crowded'
    PROVE  /\ SentRight' /\ SentInOrder'
           /\ \A n \in Commands : Passed(n)' > 0 => (IsFresh(n) => IsFresh(n)')
<1>1. \A n \in Commands : Passed(n) > 0 => Passed(n)' > 0
  <2> TAKE n \in Commands
  <2>1. Passed(n) \in Nat /\ Passed(n)' \in Nat /\ Passed(n)' >= Passed(n)
    BY Counts DEF ResetInv, ResetTypeOK, Kept
  <2> QED
    BY <2>1
<1>2. \A n \in Commands : Payload(n)' = Payload(n) /\ (Ambiguous(given[n]) => Ambiguous(given'[n]))
  BY DEF Payload, Kept
<1>3. SentRight'
  BY <1>1, <1>2 DEF ResetInv, SentRight, Kept
<1>4. SentInOrder'
  BY DEF ResetInv, SentInOrder
<1>5. \A n \in Commands : Passed(n)' > 0 => (IsFresh(n) => IsFresh(n)')
  BY DEF IsFresh, Kept
<1> QED
  BY <1>3, <1>4, <1>5

\* A buffer that keeps its first k bytes still holds them.
LEMMA HoldsStays ==
    ASSUME NEW n \in Commands, Kept(n), Passed(n) \in Nat, n \in cut' <=> n \in cut,
           NEW k \in Int, \A i \in 0 .. k - 1 : eth_to_rs'[i] = eth_to_rs[i],
           Holds(n, k)
    PROVE  Holds(n, k)'
<1>1. PICK x \in 2 .. Size(n) + 1 :
         (IF n \in cut THEN x <= Passed(n) ELSE x > Size(n)) /\ HoldsBut(n, x, k)
  BY DEF Holds
<1>2. x \in 2 .. Size(n)' + 1
  BY DEF Kept
<1>3. IF n \in cut' THEN x <= Passed(n)' ELSE x > Size(n)'
  <2>1. x \in Int
    OBVIOUS
  <2> QED
    BY <1>1, <2>1 DEF Kept
<1>4. HoldsBut(n, x, k)'
  BY <1>1 DEF HoldsBut, Kept
<1> QED
  BY <1>2, <1>3, <1>4 DEF Holds

\* The main loop touches neither the line nor the commands.
LEMMA RestStays ==
    ASSUME ResetInv, UNCHANGED <<given, serial, crowded, cut>>
    PROVE  /\ SerialInOrder' /\ CutHasPassed' /\ Commands' = Commands
           /\ \A n \in Commands : Kept(n) /\ Passed(n)' = Passed(n) /\ Got(n)' = Got(n)
<1>1. SameBytes
  BY GivenStays
<1>2. \A n : Passed(n)' = Passed(n)
  BY <1>1 DEF SameBytes, Passed, NextCommand, NextPlace, CommandOf, PlaceOf
<1>3. SerialInOrder'
  <2>1. \A b, d : Follows(b, d)' <=> Follows(b, d)
    BY <1>1 DEF Follows, SameBytes
  <2> QED
    BY <1>1, <2>1 DEF ResetInv, SerialInOrder, SameBytes
<1>4. CutHasPassed'
  BY <1>1, <1>2 DEF ResetInv, CutHasPassed, SameBytes
<1>5. \A n \in Commands : Kept(n)
  BY <1>1, <1>2, Counts DEF ResetInv, ResetTypeOK, Kept, SameBytes
<1>6. \A n \in Commands : Got(n)' = Got(n)
  BY <1>2 DEF Got
<1> QED
  BY <1>1, <1>2, <1>3, <1>4, <1>5, <1>6 DEF SameBytes

\* How much of a command has arrived.
LEMMA GotIs ==
    ASSUME ResetInv, NEW n \in Commands, Passed(n) > 0
    PROVE  /\ Got(n) \in Nat /\ Got(n) <= Passed(n) /\ Passed(n) <= Got(n) + 1
           /\ n \notin cut => Got(n) = Passed(n)
           /\ n \in cut => Got(n) = Passed(n) - 1
<1>1. Passed(n) \in Nat
  BY Counts DEF ResetInv, ResetTypeOK
<1> QED
  BY <1>1 DEF Got

\* What is in the buffer stays right when neither it nor its command changes.
LEMMA SameInBuffer ==
    ASSUME ResetInv, UNCHANGED <<sent, eth_to_rs, eth_to_rs_cnt>>,
           NEW n \in Commands, Kept(n), Passed(n)' = Passed(n),
           n \in cut' <=> n \in cut, n \in crowded' <=> n \in crowded
    PROVE  /\ Got(n)' = Got(n) /\ (IsFresh(n) => IsFresh(n)')
           /\ (Collecting(n) => Collecting(n)') /\ (Whole(n) => Whole(n)')
<1>1. Got(n)' = Got(n)
  BY DEF Got
<1>2. IsFresh(n) => IsFresh(n)'
  BY DEF IsFresh, Kept
<1>3. Passed(n) \in Nat
  BY Counts DEF ResetInv, ResetTypeOK
<1>4. \A k \in Int : Holds(n, k) => Holds(n, k)'
  <2> TAKE k \in Int
  <2>1. \A i \in 0 .. k - 1 : eth_to_rs'[i] = eth_to_rs[i]
    OBVIOUS
  <2> QED
    BY <1>1, <1>3, <2>1, HoldsStays
<1>5. PICK g \in Int : g = Got(n)
  BY <1>3 DEF Got
<1>6. Holds(n, g) => Holds(n, g)'
  BY <1>4
<1>7. Holds(n, g - 1) => Holds(n, g - 1)'
  <2>1. g - 1 \in Int
    OBVIOUS
  <2> QED
    BY <1>4, <2>1
<1>8. g = Got(n)'
  BY <1>1, <1>5
<1>9. Collecting(n) => Collecting(n)'
  BY <1>1, <1>2, <1>5, <1>6, <1>8 DEF Collecting, IsFresh, Kept
<1>10. Whole(n) => Whole(n)'
  BY <1>1, <1>2, <1>5, <1>7, <1>8 DEF Whole, IsFresh, Kept
<1> QED
  BY <1>1, <1>2, <1>9, <1>10

\* ... as it does while the main loop only looks.
LEMMA BufferStays ==
    ASSUME ResetInv, UNCHANGED <<given, serial, crowded, cut, sent, eth_to_rs, eth_to_rs_cnt>>,
           NEW n \in Commands
    PROVE  (Collecting(n) => Collecting(n)') /\ (Whole(n) => Whole(n)')
<1>1. Kept(n) /\ Passed(n)' = Passed(n)
  BY RestStays
<1> QED
  BY <1>1, SameInBuffer

\* Nothing is lost while the main loop only looks.
LEMMA LostStays ==
    ASSUME ResetInv, rpc # "overrun", UNCHANGED <<given, serial, crowded, cut, sent>>,
           \A n \in Commands \ (cut \cup crowded) : Passed(n) > 0 /\ InBuffer(n) => InBuffer(n)'
    PROVE  NoneIsLost'
<1>1. Commands' = Commands /\ \A n \in Commands : Passed(n)' = Passed(n)
  BY RestStays
<1> QED
  BY <1>1 DEF ResetInv, NoneIsLost

-----------------------------------------------------------------------------
(* The steps of the main loop *)

LEMMA SeeBytesKeeps == ASSUME ResetInv, SeeBytes PROVE ResetInv'
<1>0. UNCHANGED <<given, serial, crowded, cut, sent, eth_to_rs, eth_to_rs_cnt>> /\ rpc = "loop" /\ rpc' = "last"
  BY DEF SeeBytes, Step
<1>1. /\ SerialInOrder' /\ CutHasPassed' /\ Commands' = Commands
      /\ \A n \in Commands : Kept(n)
  BY <1>0, RestStays
<1>2. SentRight' /\ SentInOrder'
  BY <1>0, <1>1, SentStays
<1>3. ResetTypeOK'
  BY DEF ResetInv, ResetTypeOK, SeeBytes, Step, Waiting
<1>4. LoopInv'
  <2>1. PICK n \in Commands : n = CommandOf(eth_to_rs[0]) /\ Collecting(n)
    BY DEF ResetInv, LoopInv, SeeBytes, Waiting
  <2>2. Collecting(n)' /\ n = CommandOf(eth_to_rs[0])'
    BY <1>0, <2>1, BufferStays DEF CommandOf
  <2>3. eth_to_rs_cnt' # 0
    BY DEF ResetInv, ResetTypeOK, SeeBytes
  <2> QED
    BY <1>0, <1>1, <2>2, <2>3 DEF LoopInv, Parsing
<1>5. NoneIsLost'
  BY <1>0, LostStays DEF InBuffer, Waiting, Parsing, CommandOf
<1> QED
  BY <1>1, <1>2, <1>3, <1>4, <1>5 DEF ResetInv

\* The character that ends the command, at the end of the buffer.
LEMMA EndIsSeen ==
    ASSUME ResetInv, NEW n \in Commands, Collecting(n), n = CommandOf(eth_to_rs[0]),
           rpc \in Waiting, eth_to_rs_cnt > 0, Char(eth_to_rs[eth_to_rs_cnt - 1]) = Dollar
    PROVE  Whole(n) /\ n = CommandOf(eth_to_rs[1]) /\ eth_to_rs_cnt > 1
<1> DEFINE g == Got(n)
           p == Passed(n)
           s == Size(n)
           cnt == eth_to_rs_cnt
<1>1. /\ p \in Nat /\ s \in Nat /\ p <= s /\ 6 <= s /\ cnt \in Nat /\ n \in Nat
  BY Counts DEF ResetInv, ResetTypeOK
<1>2. p > 0 /\ cnt >= g /\ (p < s \/ n \notin crowded => cnt = g) /\ IsFresh(n)
  BY DEF Collecting, IsFresh
<1>3. g \in Nat /\ (n \notin cut => g = p) /\ (n \in cut => g = p - 1)
  BY <1>2, GotIs
<1>4. PICK x \in 2 .. s + 1 : (IF n \in cut THEN x <= p ELSE x > s) /\ HoldsBut(n, x, g)
  BY DEF Collecting, Holds
<1>5. \A i \in 0 .. g - 1 : eth_to_rs[i] = ByteOf(n, IF i + 1 < x THEN i + 1 ELSE i + 2)
  BY <1>4 DEF HoldsBut
<1>6. \A q \in 1 .. s : IsByte(ByteOf(n, q), n, q)
  BY ByteIs DEF ResetInv, ResetTypeOK
<1> HIDE DEF g, p, s, cnt
<1>7. p = s
  <2>1. SUFFICES ASSUME p < s PROVE FALSE
    BY <1>1
  <2>2. cnt = g /\ cnt - 1 \in 0 .. g - 1
    BY <1>1, <1>2, <1>3, <2>1 DEF cnt
  <2>3. PICK q \in 1 .. s : q < s /\ eth_to_rs[cnt - 1] = ByteOf(n, q)
    <3>1. eth_to_rs[cnt - 1] = ByteOf(n, IF (cnt - 1) + 1 < x THEN (cnt - 1) + 1 ELSE (cnt - 1) + 2)
      BY <1>5, <2>2
    <3>2. CASE cnt < x
      <4>1. cnt \in 1 .. s /\ cnt < s /\ (cnt - 1) + 1 = cnt
        BY <1>1, <1>3, <2>1, <2>2, <3>2
      <4> QED
        BY <3>1, <3>2, <4>1
    <3>3. CASE ~ cnt < x
      <4>1. n \in cut
        BY <1>1, <1>3, <1>4, <2>1, <2>2, <3>3
      <4>2. cnt + 1 \in 1 .. s /\ cnt + 1 < s /\ (cnt - 1) + 1 = cnt /\ (cnt - 1) + 2 = cnt + 1
        BY <1>1, <1>3, <2>1, <2>2, <4>1
      <4> QED
        BY <3>1, <3>3, <4>2
    <3> QED
      BY <3>2, <3>3
  <2>4. Char(ByteOf(n, q)) # Dollar
    BY <1>1, <1>6, <2>3 DEF IsByte, IsByteOf, s
  <2> QED
    BY <2>3, <2>4 DEF cnt
<1>8. 1 \in 0 .. g - 1 /\ g > 1
  BY <1>1, <1>3, <1>7
<1>9. n = CommandOf(eth_to_rs[1])
  <2>1. eth_to_rs[1] = ByteOf(n, IF 1 + 1 < x THEN 1 + 1 ELSE 1 + 2)
    BY <1>5, <1>8
  <2>2. 2 \in 1 .. s /\ 3 \in 1 .. s
    BY <1>1
  <2>3. eth_to_rs[1] = ByteOf(n, 2) \/ eth_to_rs[1] = ByteOf(n, 3)
    BY <2>1
  <2> QED
    BY <1>6, <2>2, <2>3 DEF IsByte, IsByteOf
<1>10. Holds(n, g - 1)
  <2>1. \A i \in 0 .. (g - 1) - 1 : i \in 0 .. g - 1
    BY <1>3
  <2>2. HoldsBut(n, x, g - 1)
    BY <1>5, <2>1 DEF HoldsBut
  <2> QED
    BY <1>4, <2>2 DEF Holds, p, s
<1> QED
  BY <1>1, <1>2, <1>3, <1>7, <1>8, <1>9, <1>10 DEF Whole, g, p, s, cnt

LEMMA SeeEndKeeps == ASSUME ResetInv, SeeEnd PROVE ResetInv'
<1>0. /\ UNCHANGED <<given, serial, crowded, cut, sent, eth_to_rs, eth_to_rs_cnt, came>>
      /\ rpc = "last" /\ rpc' = IF Char(eth_to_rs[eth_to_rs_cnt - 1]) = Dollar THEN "terminate" ELSE "loop"
  BY DEF SeeEnd, Goes, Step
<1>1. /\ SerialInOrder' /\ CutHasPassed' /\ Commands' = Commands
      /\ \A n \in Commands : Kept(n)
  BY <1>0, RestStays
<1>2. SentRight' /\ SentInOrder'
  BY <1>0, <1>1, SentStays
<1>3. ResetTypeOK'
  BY DEF ResetInv, ResetTypeOK, SeeEnd, Goes, Step, Waiting, Parsing
<1>4. eth_to_rs_cnt > 0 => \E n \in Commands : n = CommandOf(eth_to_rs[0]) /\ Collecting(n)
  BY <1>0 DEF ResetInv, LoopInv, Waiting
<1>5. eth_to_rs_cnt \in Nat
  BY DEF ResetInv, ResetTypeOK
<1>6. CASE Char(eth_to_rs[eth_to_rs_cnt - 1]) # Dollar
  <2>1. rpc' = "loop"
    BY <1>0, <1>6
  <2>2. LoopInv'
    BY <1>0, <1>1, <1>4, <2>1, BufferStays DEF LoopInv, Parsing, CommandOf
  <2>3. NoneIsLost'
    BY <1>0, <2>1, LostStays DEF InBuffer, Waiting, Parsing, CommandOf
  <2> QED
    BY <1>1, <1>2, <1>3, <2>2, <2>3 DEF ResetInv
<1>7. CASE Char(eth_to_rs[eth_to_rs_cnt - 1]) = Dollar
  <2>1. rpc' = "terminate"
    BY <1>0, <1>7
  <2>2. CASE eth_to_rs_cnt = 0
    <3>1. Wrapped'
      BY <1>0, <2>2 DEF ResetInv, LoopInv, Wrapped
    <3>2. LoopInv'
      BY <2>1, <3>1 DEF LoopInv, Waiting
    <3>3. NoneIsLost'
      BY <1>0, <2>2, LostStays DEF InBuffer, Waiting, Parsing
    <3> QED
      BY <1>1, <1>2, <1>3, <3>2, <3>3 DEF ResetInv
  <2>3. CASE eth_to_rs_cnt > 0
    <3>1. PICK n \in Commands : n = CommandOf(eth_to_rs[0]) /\ Collecting(n)
      BY <1>4, <2>3
    <3>2. Whole(n) /\ n = CommandOf(eth_to_rs[1]) /\ eth_to_rs_cnt > 1
      BY <1>0, <1>7, <2>3, <3>1, EndIsSeen DEF Waiting
    <3>3. Whole(n)' /\ n = CommandOf(eth_to_rs[1])' /\ n \in Commands'
      BY <1>0, <1>1, <3>2, BufferStays DEF CommandOf
    <3>4. Parsed(n)'
      BY <2>1 DEF Parsed
    <3>5. LoopInv'
      BY <2>1, <3>3, <3>4 DEF LoopInv, Waiting
    <3>6. NoneIsLost'
      <4>1. \A m : InBuffer(m) => m = n
        BY <1>0, <3>1 DEF InBuffer, Parsing
      <4>2. InBuffer(n)'
        BY <1>0, <2>1, <3>2, <3>3 DEF InBuffer, Parsing
      <4> QED
        BY <1>0, <4>1, <4>2, LostStays
    <3> QED
      BY <1>1, <1>2, <1>3, <3>5, <3>6 DEF ResetInv
  <2> QED
    BY <1>5, <2>2, <2>3
<1> QED
  BY <1>6, <1>7

\* Where the bytes of a whole command are in the buffer.
LEMMA WholeIs ==
    ASSUME ResetInv, NEW n \in Commands, Whole(n)
    PROVE  \E l \in 0 .. 99 : \E x \in 2 .. l + 7 :
              /\ l = Len(given[n]) /\ Size(n) = l + 6 /\ given[n] \in Payloads
              /\ Got(n) = IF n \in cut THEN l + 5 ELSE l + 6
              /\ IF n \in cut THEN x <= l + 6 ELSE x = l + 7
              /\ \A i \in 0 .. Got(n) - 2 : eth_to_rs[i] = ByteOf(n, IF i + 1 < x THEN i + 1 ELSE i + 2)
<1>1. PICK l \in 0 .. 99 : l = Len(given[n]) /\ Size(n) = l + 6
  BY SizeIs DEF ResetInv, ResetTypeOK
<1>2. given[n] \in Payloads
  BY SizeIs DEF ResetInv, ResetTypeOK
<1>3. Passed(n) = l + 6 /\ Passed(n) > 0
  BY <1>1 DEF Whole
<1>4. Got(n) = IF n \in cut THEN l + 5 ELSE l + 6
  BY <1>3, GotIs
<1>5. PICK x \in 2 .. Size(n) + 1 :
         (IF n \in cut THEN x <= Passed(n) ELSE x > Size(n)) /\ HoldsBut(n, x, Got(n) - 1)
  BY DEF Whole, Holds
<1>6. x \in 2 .. l + 7 /\ (IF n \in cut THEN x <= l + 6 ELSE x = l + 7)
  BY <1>1, <1>3, <1>5
<1>7. PICK g \in Nat : g = Got(n)
  BY <1>4
<1>8. (g - 1) - 1 = g - 2
  OBVIOUS
<1>9. \A i \in 0 .. g - 2 : eth_to_rs[i] = ByteOf(n, IF i + 1 < x THEN i + 1 ELSE i + 2)
  BY <1>5, <1>7, <1>8 DEF HoldsBut
<1> QED
  BY <1>1, <1>2, <1>4, <1>6, <1>7, <1>9

\* The '$' that Terminate overwrites is the last byte of its command, or one behind it.
LEMMA TerminateKeeps == ASSUME ResetInv, Terminate PROVE ResetInv'
<1>0. /\ UNCHANGED <<given, serial, crowded, cut, sent, eth_to_rs_cnt, came>>
      /\ rpc = "terminate" /\ rpc' = "dest"
      /\ eth_to_rs' = [eth_to_rs EXCEPT ![eth_to_rs_cnt - 1] = NulByte]
  BY DEF Terminate, Goes, Step
<1>1. /\ SerialInOrder' /\ CutHasPassed' /\ Commands' = Commands
      /\ \A n \in Commands : Kept(n) /\ Passed(n)' = Passed(n) /\ Got(n)' = Got(n)
  BY <1>0, RestStays
<1>2. SentRight' /\ SentInOrder' /\ \A n \in Commands : Passed(n)' > 0 => (IsFresh(n) => IsFresh(n)')
  BY <1>0, <1>1, SentStays
<1>3. ResetTypeOK'
  <2>1. NulByte \in ResetByte
    BY DEF NulByte, Byte, Nul, ResetByte, CharCodes
  <2>2. eth_to_rs' \in [-1 .. BufferEnd -> ResetByte]
    BY <1>0, <2>1 DEF ResetInv, ResetTypeOK
  <2> QED
    BY <1>0, <2>2 DEF ResetInv, ResetTypeOK, Terminate, Waiting, Parsing
<1>4. Wrapped \/ \E n \in Commands : n = CommandOf(eth_to_rs[1]) /\ Whole(n) /\ Parsed(n)
  BY <1>0 DEF ResetInv, LoopInv, Parsing
<1>5. CASE Wrapped
  <2>1. LoopInv'
    BY <1>0, <1>5 DEF LoopInv, Wrapped, Waiting
  <2>2. eth_to_rs_cnt \in Nat
    BY DEF ResetInv, ResetTypeOK
  <2>3. ~ eth_to_rs_cnt > 1
    BY <1>5, <2>2 DEF Wrapped
  <2>4. NoneIsLost'
    BY <1>0, <2>3, LostStays DEF InBuffer, Waiting, Parsing
  <2> QED
    BY <1>1, <1>2, <1>3, <2>1, <2>4 DEF ResetInv
<1>6. ASSUME NEW n \in Commands, n = CommandOf(eth_to_rs[1]), Whole(n) PROVE LoopInv' /\ NoneIsLost'
  <2>1. PICK l \in 0 .. 99 : Got(n) = l + 5 \/ Got(n) = l + 6
    BY <1>6, WholeIs
  <2>2. PICK g \in Nat : g = Got(n) /\ g >= 5
    BY <2>1
  <2>3. /\ eth_to_rs_cnt \in Nat /\ eth_to_rs_cnt >= g
        /\ eth_to_rs_cnt <= BufferEnd /\ BufferEnd \in Nat
    BY <1>6, <2>2, Counts DEF Whole, ResetInv, ResetTypeOK
  <2>4. \A i \in 0 .. (g - 1) - 1 : eth_to_rs'[i] = eth_to_rs[i]
    <3> TAKE i \in 0 .. (g - 1) - 1
    <3>1. i # eth_to_rs_cnt - 1 /\ i \in -1 .. BufferEnd
      BY <2>2, <2>3
    <3> QED
      BY <1>0, <3>1 DEF ResetInv, ResetTypeOK
  <2>5. Holds(n, g - 1)'
    <3>1. g - 1 \in Int
      OBVIOUS
    <3>2. Holds(n, g - 1) /\ Passed(n) \in Nat
      BY <1>6, <2>2, Counts DEF Whole, ResetInv, ResetTypeOK
    <3> QED
      BY <1>0, <1>1, <2>4, <3>1, <3>2, HoldsStays
  <2>6. g = Got(n)'
    BY <1>1, <2>2
  <2>7. Whole(n)'
    BY <1>0, <1>1, <1>2, <1>6, <2>2, <2>3, <2>5, <2>6 DEF Whole, IsFresh, Kept
  <2>8. eth_to_rs'[1] = eth_to_rs[1] /\ eth_to_rs_cnt' > 1
    <3>1. 1 \in 0 .. (g - 1) - 1
      BY <2>2
    <3> QED
      BY <1>0, <2>2, <2>3, <2>4, <3>1
  <2>9. n = CommandOf(eth_to_rs[1])' /\ n \in Commands'
    BY <1>1, <1>6, <2>8 DEF CommandOf
  <2>10. Parsed(n)'
    BY <1>0 DEF Parsed
  <2>11. LoopInv'
    BY <1>0, <2>7, <2>9, <2>10 DEF LoopInv, Waiting
  <2>12. NoneIsLost'
    <3>1. \A m : InBuffer(m) => m = n
      BY <1>0, <1>6 DEF InBuffer, Waiting
    <3>2. InBuffer(n)'
      BY <1>0, <2>8, <2>9 DEF InBuffer, Parsing
    <3> QED
      BY <1>0, <3>1, <3>2, LostStays
  <2> QED
    BY <2>11, <2>12
<1>7. CASE \E n \in Commands : n = CommandOf(eth_to_rs[1]) /\ Whole(n)
  BY <1>1, <1>2, <1>3, <1>6, <1>7 DEF ResetInv
<1> QED
  BY <1>4, <1>5, <1>7

-----------------------------------------------------------------------------
(* Parsing *)

LEMMA BufferIsNat == 0 \in 0 .. BufferEnd
BY ResetCardAssumption

\* What sscanf reads is a natural number.
LEMMA NumberIsNat == ASSUME NEW i, IsNumber(i) PROVE Number(i) \in Nat
<1>1. Char(eth_to_rs[i]) \in 48 .. 57
  BY DEF IsNumber, IsDigit
<1>2. CASE IsDigit(Char(eth_to_rs[i + 1]))
  <2>1. Char(eth_to_rs[i + 1]) \in 48 .. 57
    BY <1>2 DEF IsDigit
  <2> QED
    BY <1>1, <1>2, <2>1 DEF Number
<1>3. CASE ~ IsDigit(Char(eth_to_rs[i + 1]))
  BY <1>1, <1>3 DEF Number
<1> QED
  BY <1>2, <1>3

\* What the two characters mean, given as codes.
NumberOf(first, second) ==
    IF IsDigit(second) THEN 10 * (first - 48) + second - 48 ELSE first - 48

LEMMA NumberIs ==
    ASSUME NEW i, NEW j, j = i + 1, NEW first, NEW second,
           first = Char(eth_to_rs[i]), second = Char(eth_to_rs[j])
    PROVE  Number(i) = NumberOf(first, second) /\ (IsNumber(i) <=> IsDigit(first))
BY DEF Number, NumberOf, IsNumber

\* Two digits are read as the number that they were printed for.
LEMMA TwoDigitsMean ==
    ASSUME NEW n \in 0 .. 99
    PROVE  /\ IsDigit(DigitChar(n \div 10)) /\ NumberOf(DigitChar(n \div 10), DigitChar(n % 10)) = n
<1>1. PICK a, b \in 0 .. 9 : a = (n \div 10) /\ b = (n % 10) /\ 10 * a + b = n
  BY DigitsOf
<1>2. IsDigit(48 + a) /\ IsDigit(48 + b)
  BY DEF IsDigit
<1> QED
  BY <1>1, <1>2 DEF NumberOf, DigitChar

\* Destination and length of a command that is all there are read right.
LEMMA WholeIsRead ==
    ASSUME ResetInv, NEW n \in Commands, n \notin cut, Whole(n)
    PROVE  /\ IsNumber(1) /\ Number(1) = Participant
           /\ IsNumber(3) /\ Number(3) = Len(given[n])
<1>1. PICK l \in 0 .. 99 : \E x \in 2 .. l + 7 :
              /\ l = Len(given[n]) /\ Size(n) = l + 6 /\ given[n] \in Payloads
              /\ Got(n) = l + 6 /\ x = l + 7
              /\ \A i \in 0 .. Got(n) - 2 : eth_to_rs[i] = ByteOf(n, IF i + 1 < x THEN i + 1 ELSE i + 2)
  BY WholeIs
<1> DEFINE t == CommandText(given[n])
<1>2. \A p \in 1 .. l + 6 : Char(ByteOf(n, p)) = t[p]
  <2>1. n \in Nat
    BY DEF Commands
  <2> QED
    BY <1>1, <2>1, CommandBytesAre DEF ByteOf
<1>3. /\ t[2] = DigitChar(0) /\ t[3] = DigitChar(1)
      /\ t[4] = DigitChar(l \div 10) /\ t[5] = DigitChar(l % 10)
  BY <1>1, TextIs
<1> HIDE DEF t
<1>4. \A i \in 1 .. 4 : Char(eth_to_rs[i]) = t[i + 1]
  <2> TAKE i \in 1 .. 4
  <2>1. i \in 0 .. l + 6 - 2 /\ i + 1 < l + 7 /\ i + 1 \in 1 .. l + 6
    OBVIOUS
  <2>2. eth_to_rs[i] = ByteOf(n, i + 1)
    BY <1>1, <2>1
  <2> QED
    BY <1>2, <2>1, <2>2
<1>5. /\ Char(eth_to_rs[1]) = DigitChar(0) /\ Char(eth_to_rs[2]) = DigitChar(1)
      /\ Char(eth_to_rs[3]) = DigitChar(l \div 10) /\ Char(eth_to_rs[4]) = DigitChar(l % 10)
  <2>1. 1 \in 1 .. 4 /\ 2 \in 1 .. 4 /\ 3 \in 1 .. 4 /\ 4 \in 1 .. 4
    OBVIOUS
  <2>2. 1 + 1 = 2 /\ 2 + 1 = 3 /\ 3 + 1 = 4 /\ 4 + 1 = 5
    OBVIOUS
  <2> QED
    BY <1>3, <1>4, <2>1, <2>2
<1>6. IsNumber(1) /\ Number(1) = 1
  <2>1. Number(1) = NumberOf(DigitChar(0), DigitChar(1)) /\ (IsNumber(1) <=> IsDigit(DigitChar(0)))
    BY <1>5, NumberIs
  <2> QED
    BY <2>1 DEF NumberOf, DigitChar, IsDigit
<1>7. IsNumber(3) /\ Number(3) = l
  <2>1. /\ Number(3) = NumberOf(DigitChar(l \div 10), DigitChar(l % 10))
        /\ IsNumber(3) <=> IsDigit(DigitChar(l \div 10))
    BY <1>5, NumberIs
  <2> QED
    BY <2>1, TwoDigitsMean
<1> QED
  BY <1>1, <1>6, <1>7 DEF Participant

\* A parser step that changes nothing but what it reads, and complains about nothing
\* that is all there.
LEMMA ParserKeeps ==
    ASSUME ResetInv, UNCHANGED <<given, serial, crowded, cut, sent, eth_to_rs, came>>, ResetTypeOK',
           rpc \in Parsing,
           eth_to_rs_cnt' = eth_to_rs_cnt, rpc' \in Parsing \cup {"complain"},
           \A n \in Commands :
              n = CommandOf(eth_to_rs[1]) /\ Whole(n) /\ Parsed(n) =>
                 IF rpc' = "complain" THEN n \in cut \cup crowded ELSE Parsed(n)'
    PROVE  ResetInv'
<1>1. /\ SerialInOrder' /\ CutHasPassed' /\ Commands' = Commands
      /\ \A n \in Commands : Kept(n)
  BY RestStays
<1>2. SentRight' /\ SentInOrder'
  BY <1>1, SentStays
<1>3. Wrapped \/ \E n \in Commands : n = CommandOf(eth_to_rs[1]) /\ Whole(n) /\ Parsed(n)
  BY DEF ResetInv, LoopInv
<1>4. CASE rpc' = "complain"
  <2>1. LoopInv'
    BY <1>4 DEF LoopInv, Parsing, Waiting
  <2>2. \A n \in Commands \ (cut \cup crowded) : ~ InBuffer(n)
    <3>1. SUFFICES ASSUME NEW n \in Commands \ (cut \cup crowded), InBuffer(n) PROVE FALSE
      OBVIOUS
    <3>2. eth_to_rs_cnt > 1 /\ n = CommandOf(eth_to_rs[1])
      BY <3>1 DEF InBuffer, Parsing, Waiting
    <3>3. ~ Wrapped
      BY <3>2 DEF Wrapped, ResetInv, ResetTypeOK
    <3> QED
      BY <1>3, <1>4, <3>2, <3>3
  <2>3. NoneIsLost'
    BY <2>2, LostStays DEF Parsing
  <2> QED
    BY <1>1, <1>2, <2>1, <2>3 DEF ResetInv
<1>5. CASE rpc' \in Parsing
  <2>1. rpc' # "loop" /\ rpc' # "last" /\ rpc' # "send" /\ rpc' # "complain"
    BY <1>5 DEF Parsing
  <2>2. LoopInv'
    <3>1. Wrapped => Wrapped'
      BY <1>5 DEF Wrapped
    <3>2. \A n \in Commands : Whole(n) => Whole(n)'
      BY <1>5, BufferStays
    <3>3. \A n \in Commands : n = CommandOf(eth_to_rs[1]) => n = CommandOf(eth_to_rs[1])'
      BY DEF CommandOf
    <3> QED
      BY <1>1, <1>3, <2>1, <3>1, <3>2, <3>3 DEF LoopInv, Waiting
  <2>3. NoneIsLost'
    BY <1>5, <2>1, LostStays DEF InBuffer, Waiting, Parsing, CommandOf
  <2> QED
    BY <1>1, <1>2, <2>2, <2>3 DEF ResetInv
<1> QED
  BY <1>4, <1>5

LEMMA ParseDestKeeps == ASSUME ResetInv, ParseDest PROVE ResetInv'
<1>1. /\ UNCHANGED <<given, serial, crowded, cut, sent, eth_to_rs, eth_to_rs_cnt, came, pktlen>>
      /\ rpc = "dest"
      /\ IF IsNumber(1) THEN dest' = Number(1) /\ rpc' = "len"
                       ELSE rpc' = "complain" /\ dest' = dest
  BY DEF ParseDest, Goes, Step
<1>2. ResetTypeOK'
  <2>1. dest' \in Nat
    BY <1>1, NumberIsNat DEF ResetInv, ResetTypeOK
  <2> QED
    BY <1>1, <2>1 DEF ResetInv, ResetTypeOK, Waiting, Parsing
<1>3. ASSUME NEW n \in Commands, Whole(n)
      PROVE  IF rpc' = "complain" THEN n \in cut \cup crowded ELSE Parsed(n)'
  <2>1. CASE n \in cut
    BY <1>1, <2>1 DEF Parsed
  <2>2. CASE n \notin cut
    <3>1. IsNumber(1) /\ Number(1) = Participant
      BY <1>3, <2>2, WholeIsRead
    <3> QED
      BY <1>1, <2>2, <3>1 DEF Parsed
  <2> QED
    BY <2>1, <2>2
<1>4. rpc' \in Parsing \cup {"complain"}
  BY <1>1 DEF Parsing
<1> QED
  BY <1>1, <1>2, <1>3, <1>4, ParserKeeps DEF Parsing

\* A character less in front of it, and the length comes out right all the same.
LEMMA LengthMisread ==
    ASSUME ResetInv, NEW n \in Commands, n \in cut, Whole(n), IsNumber(3),
           Number(3) + Framing = Got(n)
    PROVE  Ambiguous(given[n])
<1>1. PICK l \in 0 .. 99 : \E x \in 2 .. l + 7 :
              /\ l = Len(given[n]) /\ Size(n) = l + 6 /\ given[n] \in Payloads
              /\ Got(n) = l + 5 /\ x <= l + 6
              /\ \A i \in 0 .. Got(n) - 2 : eth_to_rs[i] = ByteOf(n, IF i + 1 < x THEN i + 1 ELSE i + 2)
  BY WholeIs
<1>2. PICK x \in 2 .. l + 7 :
              /\ Got(n) = l + 5
              /\ \A i \in 0 .. Got(n) - 2 : eth_to_rs[i] = ByteOf(n, IF i + 1 < x THEN i + 1 ELSE i + 2)
  BY <1>1
<1> DEFINE t == CommandText(given[n])
<1>3. \A p \in 1 .. l + 6 : Char(ByteOf(n, p)) = t[p]
  <2>1. n \in Nat
    BY DEF Commands
  <2> QED
    BY <1>1, <2>1, CommandBytesAre DEF ByteOf
<1>4. /\ t[4] = DigitChar(l \div 10) /\ t[5] = DigitChar(l % 10)
      /\ \A i \in 1 .. l : t[5 + i] = given[n][i]
  BY <1>1, TextIs
<1> HIDE DEF t
<1>5. Number(3) = l - 1 /\ l \in 1 .. 99
  <2>1. Number(3) \in Nat
    BY NumberIsNat
  <2> QED
    BY <1>1, <1>2, <2>1 DEF Framing
<1>6. SUFFICES ASSUME l # 1, ~ IsDigit(given[n][1]) PROVE FALSE
  <2>1. given[n] # <<>>
    <3>1. SUFFICES ASSUME given[n] = <<>> PROVE FALSE
      OBVIOUS
    <3>2. l = Len(<<>>)
      BY <1>1, <3>1
    <3> HIDE <1>1
    <3> QED
      BY <1>5, <3>2, EmptySeq
  <2> QED
    BY <1>1, <2>1 DEF Ambiguous
<1>7. 3 \in 0 .. (l + 5) - 2 /\ 4 \in 0 .. (l + 5) - 2
  BY <1>5
<1>8. /\ eth_to_rs[3] = ByteOf(n, IF 4 < x THEN 4 ELSE 5)
      /\ eth_to_rs[4] = ByteOf(n, IF 5 < x THEN 5 ELSE 6)
  <2>1. eth_to_rs[3] = ByteOf(n, IF 3 + 1 < x THEN 3 + 1 ELSE 3 + 2)
    BY <1>2, <1>7
  <2>2. eth_to_rs[4] = ByteOf(n, IF 4 + 1 < x THEN 4 + 1 ELSE 4 + 2)
    BY <1>2, <1>7
  <2> QED
    BY <2>1, <2>2
<1>9. /\ Char(eth_to_rs[3]) = IF 4 < x THEN t[4] ELSE t[5]
      /\ Char(eth_to_rs[4]) = IF 5 < x THEN t[5] ELSE t[6]
  <2>1. 4 \in 1 .. l + 6 /\ 5 \in 1 .. l + 6 /\ 6 \in 1 .. l + 6
    BY <1>5
  <2> QED
    BY <1>3, <1>8, <2>1
<1>10. t[6] = given[n][1]
  <2>1. 1 \in 1 .. l /\ 5 + 1 = 6
    BY <1>5
  <2> QED
    BY <1>4, <2>1
<1>11. Number(3) = NumberOf(Char(eth_to_rs[3]), Char(eth_to_rs[4]))
  <2>1. 4 = 3 + 1
    OBVIOUS
  <2> QED
    BY <2>1, NumberIs
<1>12. PICK a, b \in 0 .. 9 : a = (l \div 10) /\ b = (l % 10) /\ 10 * a + b = l
  BY DigitsOf
<1>13. CASE 5 < x
  <2>1. Number(3) = NumberOf(DigitChar(l \div 10), DigitChar(l % 10))
    BY <1>4, <1>9, <1>11, <1>13
  <2>2. Number(3) = l
    BY <2>1, TwoDigitsMean
  <2> QED
    BY <1>5, <2>2
<1>14. CASE ~ 5 < x
  <2>1. Number(3) = Char(eth_to_rs[3]) - 48
    BY <1>6, <1>9, <1>10, <1>11, <1>14 DEF NumberOf
  <2>2. Number(3) = a \/ Number(3) = b
    BY <1>4, <1>9, <1>12, <2>1 DEF DigitChar
  <2> QED
    BY <1>5, <1>6, <1>12, <2>2
<1> QED
  BY <1>13, <1>14

LEMMA ParseLenKeeps == ASSUME ResetInv, ParseLen PROVE ResetInv'
<1>1. /\ UNCHANGED <<given, serial, crowded, cut, sent, eth_to_rs, eth_to_rs_cnt, came, dest>>
      /\ rpc = "len"
      /\ IF IsNumber(3) THEN pktlen' = Number(3) /\ rpc' = "check"
                       ELSE rpc' = "complain" /\ pktlen' = pktlen
  BY DEF ParseLen, Goes, Step
<1>2. ResetTypeOK'
  <2>1. pktlen' \in Nat
    BY <1>1, NumberIsNat DEF ResetInv, ResetTypeOK
  <2> QED
    BY <1>1, <2>1 DEF ResetInv, ResetTypeOK, Waiting, Parsing
<1>3. ASSUME NEW n \in Commands, Whole(n), Parsed(n)
      PROVE  IF rpc' = "complain" THEN n \in cut \cup crowded ELSE Parsed(n)'
  <2>1. CASE n \notin cut
    <3>1. IsNumber(3) /\ Number(3) = Len(given[n])
      BY <1>3, <2>1, WholeIsRead
    <3> QED
      BY <1>1, <1>3, <2>1, <3>1 DEF Parsed
  <2>2. CASE n \in cut
    <3>1. CASE rpc' = "complain" \/ n \in crowded
      BY <1>1, <2>2, <3>1 DEF Parsed
    <3>2. CASE rpc' # "complain" /\ n \notin crowded
      <4>1. IsNumber(3) /\ pktlen' = Number(3)
        BY <1>1, <3>2
      <4>2. eth_to_rs_cnt = Got(n)
        BY <1>3, <3>2 DEF Whole
      <4>3. Number(3) \in Nat /\ eth_to_rs_cnt \in Nat
        BY <4>1, NumberIsNat DEF ResetInv, ResetTypeOK
      <4>4. pktlen' = eth_to_rs_cnt - Framing => Number(3) + Framing = Got(n)
        BY <4>1, <4>2, <4>3 DEF Framing
      <4>5. pktlen' = eth_to_rs_cnt - Framing => Ambiguous(given[n])
        BY <1>3, <2>2, <4>1, <4>4, LengthMisread
      <4> QED
        BY <1>1, <2>2, <3>2, <4>5 DEF Parsed, Framing, Ambiguous
    <3> QED
      BY <3>1, <3>2
  <2> QED
    BY <2>1, <2>2
<1>4. rpc' \in Parsing \cup {"complain"}
  BY <1>1 DEF Parsing
<1> QED
  BY <1>1, <1>2, <1>3, <1>4, ParserKeeps DEF Parsing

\* The length test lets through what is whole, and of what lost a byte only what
\* others pressed or what can be misread.
LEMMA CheckLengthKeeps == ASSUME ResetInv, CheckLength PROVE ResetInv'
<1>1. /\ UNCHANGED <<given, serial, crowded, cut, sent, eth_to_rs, eth_to_rs_cnt, came, dest, pktlen>>
      /\ rpc = "check"
      /\ rpc' = IF pktlen = eth_to_rs_cnt - Framing THEN "send" ELSE "complain"
  BY DEF CheckLength, LengthAgrees, Goes, Step
<1>2. ResetTypeOK'
  BY <1>1 DEF ResetInv, ResetTypeOK, Waiting, Parsing
<1>3. eth_to_rs_cnt \in Nat /\ pktlen \in Nat /\ eth_to_rs_cnt <= BufferEnd
  BY BufferIsNat DEF ResetInv, ResetTypeOK
<1>4. CASE pktlen # eth_to_rs_cnt - Framing
  <2>1. ASSUME NEW n \in Commands, Whole(n), Parsed(n) PROVE n \in cut \cup crowded
    <3>1. SUFFICES ASSUME n \notin cut, n \notin crowded PROVE FALSE
      OBVIOUS
    <3>2. PICK l \in 0 .. 99 : l = Len(given[n]) /\ Got(n) = l + 6
      BY <2>1, <3>1, WholeIs
    <3>3. eth_to_rs_cnt = l + 6 /\ pktlen = l
      BY <1>1, <2>1, <3>1, <3>2 DEF Whole, Parsed
    <3> QED
      BY <1>4, <3>3 DEF Framing
  <2> QED
    BY <1>1, <1>2, <1>4, <2>1, ParserKeeps DEF Parsing
<1>5. CASE pktlen = eth_to_rs_cnt - Framing
  <2>0. /\ rpc' = "send" /\ eth_to_rs_cnt' = eth_to_rs_cnt
        /\ eth_to_rs_cnt = pktlen + Framing /\ eth_to_rs_cnt > 1
    BY <1>1, <1>3, <1>5 DEF Framing
  <2>1. /\ SerialInOrder' /\ CutHasPassed' /\ Commands' = Commands
        /\ \A n \in Commands : Kept(n) /\ Passed(n)' = Passed(n)
    BY <1>1, RestStays
  <2>2. SentRight' /\ SentInOrder' /\ \A n \in Commands : Passed(n)' > 0 => (IsFresh(n) => IsFresh(n)')
    BY <1>1, <2>1, SentStays
  <2>3. PICK n \in Commands : n = CommandOf(eth_to_rs[1]) /\ Whole(n) /\ Parsed(n)
    <3>1. ~ Wrapped
      BY <1>3, <2>0 DEF Wrapped
    <3> QED
      BY <1>1, <3>1 DEF ResetInv, LoopInv, Parsing
  <2>4. n = CommandOf(eth_to_rs[1])' /\ n \in Commands'
    BY <1>1, <2>1, <2>3 DEF CommandOf
  <2>5. Sending(n)'
    <3>1. IsFresh(n)' /\ Passed(n)' = Size(n)'
      BY <2>1, <2>2, <2>3 DEF Whole, IsFresh, Kept
    <3>2. pktlen + Framing <= BufferEnd
      BY <1>3, <2>0
    <3>3. n \notin cut => dest = Participant /\ pktlen = Len(given[n])
      BY <1>1, <2>3 DEF Parsed
    <3>4. n \notin cut => \A i \in 1 .. pktlen : eth_to_rs[4 + i] = ByteOf(n, 5 + i)
      <4>1. SUFFICES ASSUME n \notin cut PROVE \A i \in 1 .. pktlen : eth_to_rs[4 + i] = ByteOf(n, 5 + i)
        OBVIOUS
      <4>2. PICK l \in 0 .. 99 : \E x \in 2 .. l + 7 :
               /\ l = Len(given[n]) /\ Got(n) = l + 6 /\ x = l + 7
               /\ \A i \in 0 .. Got(n) - 2 : eth_to_rs[i] = ByteOf(n, IF i + 1 < x THEN i + 1 ELSE i + 2)
        BY <2>3, <4>1, WholeIs
      <4>3. pktlen = l
        BY <3>3, <4>1, <4>2
      <4>4. \A j \in 0 .. l + 6 - 2 : eth_to_rs[j] = ByteOf(n, IF j + 1 < l + 7 THEN j + 1 ELSE j + 2)
        BY <4>2
      <4>5. ASSUME NEW i \in 1 .. l PROVE eth_to_rs[4 + i] = ByteOf(n, 5 + i)
        <5>1. 4 + i \in 0 .. l + 6 - 2 /\ (4 + i) + 1 < l + 7 /\ (4 + i) + 1 = 5 + i
          OBVIOUS
        <5> QED
          BY <4>4, <5>1
      <4> QED
        BY <4>3, <4>5
    <3>5. n \in cut => n \in crowded \/ Ambiguous(given[n])
      BY <1>1, <1>5, <2>3 DEF Parsed
    <3>6. \A i : eth_to_rs'[i] = eth_to_rs[i]
      BY <1>1
    <3>7. given'[n] = given[n] /\ \A p : ByteOf(n, p)' = ByteOf(n, p)
      BY <2>1 DEF Kept
    <3> QED
      BY <1>1, <2>0, <3>1, <3>2, <3>3, <3>4, <3>5, <3>6, <3>7 DEF Sending, Ambiguous
  <2>6. LoopInv'
    BY <2>0, <2>4, <2>5 DEF LoopInv, Waiting, Parsing
  <2>7. NoneIsLost'
    BY <1>1, <2>0, LostStays DEF InBuffer, Waiting, Parsing, CommandOf
  <2> QED
    BY <1>2, <2>1, <2>2, <2>6, <2>7 DEF ResetInv
<1> QED
  BY <1>4, <1>5

\* A packet that the main loop sends is the payload of its command.
LEMMA PayloadIsSent ==
    ASSUME ResetInv, NEW n \in Commands, n \notin cut, Sending(n)
    PROVE  [i \in 1 .. pktlen |-> eth_to_rs[4 + i]] = Payload(n)
<1>1. pktlen = Len(given[n]) /\ \A i \in 1 .. pktlen : eth_to_rs[4 + i] = ByteOf(n, 5 + i)
  BY DEF Sending
<1>2. PICK l \in 0 .. 99 : l = Len(given[n]) /\ Size(n) = l + 6
  BY SizeIs DEF ResetInv, ResetTypeOK
<1>3. given[n] \in Payloads
  BY SizeIs DEF ResetInv, ResetTypeOK
<1>4. \A i \in 1 .. l : ByteOf(n, 5 + i) = Byte(given[n][i], n, 5 + i)
  <2> TAKE i \in 1 .. l
  <2>1. 5 + i \in 1 .. l + 6
    OBVIOUS
  <2>2. CommandText(given[n])[5 + i] = given[n][i]
    BY <1>2, <1>3, TextIs
  <2> QED
    BY <1>2, <2>1, <2>2 DEF ByteOf, CommandBytes, Framing
<1>5. \A i \in 1 .. l : eth_to_rs[4 + i] = Byte(given[n][i], n, 5 + i)
  BY <1>1, <1>2, <1>4
<1>6. pktlen = l
  BY <1>1, <1>2
<1> QED
  BY <1>2, <1>5, <1>6 DEF Payload

LEMMA SendCommandKeeps == ASSUME ResetInv, SendCommand PROVE ResetInv'
<1> DEFINE packet == [command |-> CommandOf(eth_to_rs[1]), to |-> dest,
                      payload |-> [i \in 1 .. pktlen |-> eth_to_rs[4 + i]]]
<1>1. /\ UNCHANGED <<given, serial, eth_to_rs, eth_to_rs_cnt, dest, pktlen, came, crowded, cut>>
      /\ rpc = "send" /\ rpc' = "delay" /\ sent' = Append(sent, packet)
  BY DEF SendCommand
<1>2. /\ SerialInOrder' /\ CutHasPassed' /\ Commands' = Commands
      /\ \A n \in Commands : Kept(n) /\ Passed(n)' = Passed(n)
  BY <1>1, RestStays
<1>3. PICK n \in Commands : n = CommandOf(eth_to_rs[1]) /\ Sending(n)
  BY <1>1 DEF ResetInv, LoopInv
<1>4. packet \in [command : Nat, to : Nat, payload : Seq(ResetByte)]
  <2>1. pktlen \in Nat /\ pktlen + 6 <= BufferEnd /\ dest \in Nat /\ n \in Nat /\ BufferEnd \in Nat
    BY <1>3, Counts DEF ResetInv, ResetTypeOK, Sending, Framing
  <2>2. \A i \in 1 .. pktlen : eth_to_rs[4 + i] \in ResetByte
    <3> TAKE i \in 1 .. pktlen
    <3>1. 4 + i \in -1 .. BufferEnd
      BY <2>1
    <3> QED
      BY <3>1 DEF ResetInv, ResetTypeOK
  <2>3. [i \in 1 .. pktlen |-> eth_to_rs[4 + i]] \in Seq(ResetByte)
    BY <2>1, <2>2
  <2> QED
    BY <1>3, <2>1, <2>3
<1>5. PICK s \in Nat : s = Len(sent) /\ DOMAIN sent = 1 .. s
  BY DEF ResetInv, ResetTypeOK
<1>6. /\ sent' \in Seq([command : Nat, to : Nat, payload : Seq(ResetByte)])
      /\ DOMAIN sent' = 1 .. s + 1 /\ sent'[s + 1] = packet
      /\ \A k \in 1 .. s : sent'[k] = sent[k]
  <2> HIDE DEF packet
  <2> QED
    BY <1>1, <1>4, <1>5 DEF ResetInv, ResetTypeOK
<1>7. packet.command = n /\ packet.to = dest /\ packet.payload = [i \in 1 .. pktlen |-> eth_to_rs[4 + i]]
  BY <1>3
<1> HIDE DEF packet
<1>8. ResetTypeOK'
  BY <1>1, <1>6 DEF ResetInv, ResetTypeOK, Waiting, Parsing
<1>9. SentRight'
  <2>1. \A m \in Commands : Payload(m)' = Payload(m) /\ given'[m] = given[m] /\ m \in Commands'
    BY <1>1, <1>2 DEF Payload
  <2>2. ASSUME NEW k \in 1 .. s
        PROVE  \E m \in Commands' :
                  /\ m = sent'[k].command /\ Passed(m)' > 0
                  /\ \/ sent'[k].to = Participant /\ sent'[k].payload = Payload(m)'
                     \/ m \in cut' /\ (m \in crowded' \/ Ambiguous(given'[m]))
    <3>1. PICK m \in Commands :
             /\ m = sent[k].command /\ Passed(m) > 0
             /\ \/ sent[k].to = Participant /\ sent[k].payload = Payload(m)
                \/ m \in cut /\ (m \in crowded \/ Ambiguous(given[m]))
      BY <1>5 DEF ResetInv, SentRight
    <3>2. sent'[k] = sent[k] /\ cut' = cut /\ crowded' = crowded
      BY <1>1, <1>6
    <3>3. m \in Commands' /\ Passed(m)' = Passed(m) /\ Payload(m)' = Payload(m) /\ given'[m] = given[m]
      BY <1>2, <2>1
    <3> QED
      BY <3>1, <3>2, <3>3
  <2>3. /\ n = sent'[s + 1].command /\ Passed(n)' > 0
        /\ \/ sent'[s + 1].to = Participant /\ sent'[s + 1].payload = Payload(n)'
           \/ n \in cut' /\ (n \in crowded' \/ Ambiguous(given'[n]))
    <3>1. Passed(n)' > 0
      BY <1>2, <1>3 DEF Sending, IsFresh
    <3>2. CASE n \in cut
      BY <1>1, <1>3, <1>6, <1>7, <2>1, <3>1, <3>2 DEF Sending, Ambiguous
    <3>3. CASE n \notin cut
      <4>1. packet.payload = Payload(n) /\ dest = Participant
        BY <1>3, <1>7, <3>3, PayloadIsSent DEF Sending
      <4> QED
        BY <1>6, <1>7, <2>1, <3>1, <4>1
    <3> QED
      BY <3>2, <3>3
  <2>4. \A k \in 1 .. s + 1 : k \in 1 .. s \/ k = s + 1
    OBVIOUS
  <2>5. ASSUME NEW k \in 1 .. s + 1
        PROVE  \E m \in Commands' :
                  /\ m = sent'[k].command /\ Passed(m)' > 0
                  /\ \/ sent'[k].to = Participant /\ sent'[k].payload = Payload(m)'
                     \/ m \in cut' /\ (m \in crowded' \/ Ambiguous(given'[m]))
    <3>1. CASE k \in 1 .. s
      BY <2>2, <3>1
    <3>2. CASE k = s + 1
      <4>1. n \in Commands'
        BY <1>2, <1>3
      <4> QED
        BY <2>3, <3>2, <4>1
    <3> QED
      BY <2>4, <3>1, <3>2
  <2> QED
    BY <1>6, <2>5 DEF SentRight, Ambiguous
<1>10. SentInOrder'
  <2>1. \A j, k \in 1 .. s + 1 : j < k => j \in 1 .. s /\ (k \in 1 .. s \/ k = s + 1)
    OBVIOUS
  <2>2. \A k \in 1 .. s : sent[k].command < n
    BY <1>3, <1>5 DEF Sending, IsFresh
  <2> QED
    BY <1>5, <1>6, <1>7, <2>1, <2>2 DEF ResetInv, SentInOrder
<1>11. LoopInv'
  BY <1>1 DEF LoopInv, Waiting, Parsing
<1>12. NoneIsLost'
  <2>1. \A m : InBuffer(m) => m = n
    BY <1>1, <1>3 DEF InBuffer, Waiting, Parsing
  <2>2. s + 1 \in 1 .. s + 1 /\ \A k \in 1 .. s : k \in 1 .. s + 1
    OBVIOUS
  <2>3. ASSUME NEW m \in Commands \ (cut \cup crowded), Passed(m) > 0
        PROVE  \E k \in 1 .. s + 1 : sent'[k].command = m
    <3>1. CASE InBuffer(m)
      BY <1>6, <1>7, <2>1, <2>2, <3>1
    <3>2. CASE \E k \in 1 .. s : sent[k].command = m
      BY <1>6, <2>2, <3>2
    <3> QED
      BY <1>1, <1>5, <2>3, <3>1, <3>2 DEF ResetInv, NoneIsLost
  <2>4. cut' = cut /\ crowded' = crowded /\ Commands' = Commands /\ \A m \in Commands : Passed(m)' = Passed(m)
    BY <1>1, <1>2
  <2> QED
    BY <1>6, <2>3, <2>4 DEF NoneIsLost
<1> QED
  BY <1>2, <1>8, <1>9, <1>10, <1>11, <1>12 DEF ResetInv

LEMMA OverrunKeeps == ASSUME ResetInv, Overrun PROVE ResetInv'
<1>1. /\ UNCHANGED <<given, serial, crowded, cut, sent, eth_to_rs, eth_to_rs_cnt, came, dest, pktlen>>
      /\ rpc = "send" /\ rpc' = "overrun"
  BY DEF Overrun, Goes, Step
<1>2. /\ SerialInOrder' /\ CutHasPassed' /\ Commands' = Commands
      /\ \A n \in Commands : Kept(n)
  BY <1>1, RestStays
<1>3. SentRight' /\ SentInOrder'
  BY <1>1, <1>2, SentStays
<1>4. ResetTypeOK'
  BY <1>1 DEF ResetInv, ResetTypeOK
<1>5. LoopInv'
  BY <1>1 DEF LoopInv, Waiting, Parsing
<1>6. NoneIsLost'
  BY <1>1 DEF NoneIsLost
<1> QED
  BY <1>2, <1>3, <1>4, <1>5, <1>6 DEF ResetInv

LEMMA SetBackKeeps == ASSUME ResetInv, SetBack PROVE ResetInv'
<1>1. /\ UNCHANGED <<given, serial, crowded, cut, sent, eth_to_rs, came, dest, pktlen>>
      /\ rpc \in {"complain", "delay"} /\ rpc' = "loop" /\ eth_to_rs_cnt' = 0
  BY DEF SetBack, Goes, Step
<1>2. /\ SerialInOrder' /\ CutHasPassed' /\ Commands' = Commands
      /\ \A n \in Commands : Kept(n)
  BY <1>1, RestStays
<1>3. SentRight' /\ SentInOrder'
  BY <1>1, <1>2, SentStays
<1>4. ResetTypeOK'
  BY <1>1, BufferIsNat DEF ResetInv, ResetTypeOK, Waiting, Parsing
<1>5. LoopInv'
  BY <1>1 DEF LoopInv, Waiting, Parsing
<1>6. NoneIsLost'
  BY <1>1, LostStays DEF InBuffer, Waiting, Parsing
<1> QED
  BY <1>2, <1>3, <1>4, <1>5, <1>6 DEF ResetInv

-----------------------------------------------------------------------------
(* The steps of the line *)

LEMMA GiveKeeps == ASSUME ResetInv, NEW payload \in Payloads, Give(payload) PROVE ResetInv'
<1>0. UNCHANGED <<eth_to_rs, eth_to_rs_cnt, rpc, dest, pktlen, came, sent, crowded, cut>>
  BY DEF Give
<1>1. /\ given' \in Seq(Payloads) /\ serial' \in Seq(ResetByte) /\ SerialInOrder'
      /\ \A n \in Commands : Kept(n) /\ Passed(n)' = Passed(n)
      /\ \A n \in Commands' : n \notin Commands => Passed(n)' = 0
  BY NewCommand DEF StillThere, ResetInv, ResetTypeOK
<1>2. SentRight' /\ SentInOrder'
  BY <1>0, <1>1, SentStays
<1>3. ResetTypeOK'
  BY <1>0, <1>1 DEF ResetInv, ResetTypeOK
<1>4. CutHasPassed'
  BY <1>0, <1>1 DEF ResetInv, CutHasPassed, Kept
<1>5. \A n \in Commands : /\ n \in Commands' /\ given'[n] = given[n] /\ (IsFresh(n) => IsFresh(n)')
                          /\ (Collecting(n) => Collecting(n)') /\ (Whole(n) => Whole(n)')
  BY <1>0, <1>1, SameInBuffer DEF Kept
<1>6. \A n \in Commands : Parsed(n) => Parsed(n)'
  BY <1>0, <1>5 DEF Parsed, Ambiguous
<1>7. \A n \in Commands : Sending(n) => Sending(n)'
  BY <1>0, <1>1, <1>5 DEF Sending, Ambiguous, Kept
<1>8. \A i : CommandOf(eth_to_rs[i])' = CommandOf(eth_to_rs[i])
  BY <1>0 DEF CommandOf
<1>9. LoopInv'
  BY <1>0, <1>5, <1>6, <1>7, <1>8 DEF ResetInv, LoopInv, Wrapped
<1>10. NoneIsLost'
  <2>1. \A n : InBuffer(n) => InBuffer(n)'
    BY <1>0, <1>8 DEF InBuffer
  <2>2. \A n \in Commands' : Passed(n)' > 0 => n \in Commands /\ Passed(n) > 0
    BY <1>1
  <2> QED
    BY <1>0, <2>1, <2>2 DEF ResetInv, NoneIsLost
<1> QED
  BY <1>1, <1>2, <1>3, <1>4, <1>9, <1>10 DEF ResetInv

\* A byte that leaves the line.
LEMMA ByteLeaves ==
    ASSUME ResetInv, serial # <<>>, serial' = Tail(serial), given' = given
    PROVE  /\ serial' \in Seq(ResetByte) /\ SerialInOrder' /\ Commands' = Commands
           /\ \E c \in Commands : \E p \in 1 .. Size(c) :
                 /\ Head(serial) = ByteOf(c, p) /\ IsByte(ByteOf(c, p), c, p)
                 /\ Passed(c) = p - 1 /\ Passed(c)' = p
                 /\ \A n \in Commands : /\ Kept(n)
                                        /\ n # c => Passed(n)' = Passed(n)
                                        /\ n > c => Passed(n) = 0
                                        /\ n < c => Passed(n) = Size(n)
<1>1. SerialInOrder' /\ \E c \in Commands : \E p \in 1 .. Size(c) : Passes(c, p)
  BY TailStays DEF ResetInv, ResetTypeOK
<1>2. serial' \in Seq(ResetByte)
  BY DEF ResetInv, ResetTypeOK
<1>3. PICK c \in Commands : \E p \in 1 .. Size(c) : Passes(c, p)
  BY <1>1
<1>4. PICK p \in 1 .. Size(c) : Passes(c, p)
  BY <1>3
<1>5. IsByte(ByteOf(c, p), c, p)
  BY ByteIs DEF ResetInv, ResetTypeOK
<1>6. SameBytes
  BY GivenStays
<1>7. ASSUME NEW n \in Commands PROVE Kept(n)
  <2>1. Passed(n)' = IF n = c THEN p ELSE Passed(n)
    BY <1>4 DEF Passes
  <2>2. Passed(n) \in Nat /\ Passed(c) = p - 1 /\ p \in Nat
    BY <1>4, Counts DEF Passes, ResetInv, ResetTypeOK
  <2>3. Passed(n)' \in Nat /\ Passed(n)' >= Passed(n)
    BY <2>1, <2>2
  <2> QED
    BY <1>6, <2>3 DEF Kept, SameBytes
<1> QED
  BY <1>1, <1>2, <1>4, <1>5, <1>6, <1>7 DEF Passes, SameBytes

\* The command whose byte is lost has one byte less to arrive.
LEMMA DropByteKeeps == ASSUME ResetInv, DropByte PROVE ResetInv'
<1>0. /\ serial # <<>> /\ serial' = Tail(serial) /\ CommandOf(Head(serial)) \notin cut
      /\ cut' = cut \cup {CommandOf(Head(serial))}
      /\ UNCHANGED <<given, eth_to_rs, eth_to_rs_cnt, rpc, dest, pktlen, came, sent, crowded>>
  BY DEF DropByte
<1>1. serial' \in Seq(ResetByte) /\ SerialInOrder' /\ Commands' = Commands
  BY <1>0, ByteLeaves
<1>2. PICK c \in Commands : \E p \in 1 .. Size(c) :
         /\ Head(serial) = ByteOf(c, p) /\ IsByte(ByteOf(c, p), c, p)
         /\ Passed(c) = p - 1 /\ Passed(c)' = p
         /\ \A n \in Commands : Kept(n) /\ (n # c => Passed(n)' = Passed(n))
  BY <1>0, ByteLeaves
<1>3. PICK p \in 1 .. Size(c) :
         /\ Head(serial) = ByteOf(c, p) /\ IsByte(ByteOf(c, p), c, p)
         /\ Passed(c) = p - 1 /\ Passed(c)' = p
  BY <1>2
<1>4. c \notin cut /\ cut' = cut \cup {c}
  BY <1>0, <1>3 DEF IsByte, IsByteOf
<1>5. SentRight' /\ SentInOrder' /\ \A n \in Commands : Passed(n)' > 0 => (IsFresh(n) => IsFresh(n)')
  BY <1>0, <1>2, <1>4, SentStays
<1>6. ResetTypeOK'
  BY <1>0, <1>1 DEF ResetInv, ResetTypeOK
<1>7. p \in Nat /\ p > 0 /\ Size(c) \in Nat /\ p - 1 < Size(c)
  BY Counts DEF ResetInv, ResetTypeOK
<1>8. CutHasPassed'
  BY <1>1, <1>2, <1>3, <1>4, <1>7 DEF ResetInv, CutHasPassed
<1>9. \A n \in Commands : n # c =>
         /\ IsFresh(n) => IsFresh(n)'
         /\ (Collecting(n) => Collecting(n)') /\ (Whole(n) => Whole(n)')
         /\ n \in cut' <=> n \in cut
  BY <1>0, <1>2, <1>4, SameInBuffer
<1>10. \A n \in Commands : Passed(n) = Size(n) => n # c
  BY <1>3, <1>7
<1>11. \A i : CommandOf(eth_to_rs[i])' = CommandOf(eth_to_rs[i])
  BY <1>0 DEF CommandOf
<1>12. Collecting(c) => Collecting(c)'
  <2>1. SUFFICES ASSUME Collecting(c) PROVE Collecting(c)'
    OBVIOUS
  <2>2. Got(c) = p - 1 /\ Got(c)' = p - 1 /\ Passed(c) > 0
    BY <1>3, <1>4, <2>1 DEF Got, Collecting, IsFresh
  <2>3. IsFresh(c)' /\ eth_to_rs_cnt' >= Got(c)' /\ eth_to_rs_cnt' = Got(c)'
    <3>1. IsFresh(c)'
      BY <1>3, <1>5, <1>7, <2>1 DEF Collecting
    <3>2. eth_to_rs_cnt = p - 1
      BY <1>3, <1>7, <2>1, <2>2 DEF Collecting
    <3> QED
      BY <1>0, <1>7, <2>2, <3>1, <3>2
  <2>4. PICK x \in 2 .. Size(c) + 1 : x > Size(c) /\ HoldsBut(c, x, p - 1)
    BY <1>4, <2>1, <2>2 DEF Collecting, Holds
  <2>5. \A i \in 0 .. (p - 1) - 1 : eth_to_rs[i] = ByteOf(c, i + 1)
    <3> TAKE i \in 0 .. (p - 1) - 1
    <3>1. i + 1 < x
      BY <1>7, <2>4
    <3> QED
      BY <2>4, <3>1 DEF HoldsBut
  <2>6. p \in 2 .. Size(c) + 1 /\ p <= Passed(c)'
    BY <1>3, <1>7, <2>2
  <2>7. HoldsBut(c, p, p - 1)'
    <3>1. \A i \in 0 .. (p - 1) - 1 : i + 1 < p
      BY <1>7
    <3>2. \A q : ByteOf(c, q)' = ByteOf(c, q)
      BY <1>2 DEF Kept
    <3> QED
      BY <1>0, <2>5, <3>1, <3>2 DEF HoldsBut
  <2>8. Size(c)' = Size(c) /\ c \in cut'
    BY <1>2, <1>4 DEF Kept
  <2>9. Holds(c, p - 1)'
    BY <2>6, <2>7, <2>8 DEF Holds
  <2> QED
    BY <2>2, <2>3, <2>9 DEF Collecting
<1>13. \A n \in Commands : n # c /\ Parsed(n) => Parsed(n)'
  BY <1>0, <1>9 DEF Parsed, Ambiguous
<1>14. \A n \in Commands : Sending(n) => Sending(n)'
  <2> TAKE n \in Commands
  <2>1. SUFFICES ASSUME Sending(n) PROVE Sending(n)'
    OBVIOUS
  <2>2. n # c
    BY <1>10, <2>1 DEF Sending
  <2>3. IsFresh(n)' /\ (n \in cut' <=> n \in cut) /\ Kept(n) /\ Passed(n)' = Passed(n)
    BY <1>2, <1>9, <2>1, <2>2 DEF Sending
  <2> QED
    BY <1>0, <2>1, <2>3 DEF Sending, Ambiguous, Kept
<1>15. LoopInv'
  <2>1. \A n \in Commands : Collecting(n) => Collecting(n)'
    BY <1>9, <1>12
  <2>2. \A n \in Commands : Whole(n) /\ Parsed(n) => Whole(n)' /\ Parsed(n)'
    BY <1>9, <1>10, <1>13 DEF Whole
  <2> QED
    BY <1>0, <1>1, <1>11, <1>14, <2>1, <2>2 DEF ResetInv, LoopInv, Wrapped
<1>16. NoneIsLost'
  <2>1. \A n : InBuffer(n) => InBuffer(n)'
    BY <1>0, <1>11 DEF InBuffer
  <2> QED
    BY <1>0, <1>1, <1>2, <1>4, <2>1 DEF ResetInv, NoneIsLost
<1> QED
  BY <1>1, <1>5, <1>6, <1>8, <1>15, <1>16 DEF ResetInv

\* The byte that the interrupt takes: what is common to its cases.
Arrives(c, p, at, taken) ==
    /\ c \in Commands /\ p \in 1 .. Size(c)
    /\ IsByte(ByteOf(c, p), c, p)
    /\ Passed(c) = p - 1 /\ Passed(c)' = p
    /\ \A n \in Commands : /\ Kept(n)
                           /\ n # c => Passed(n)' = Passed(n)
                           /\ n > c => Passed(n) = 0
                           /\ n < c => Passed(n) = Size(n)
    /\ at = IF eth_to_rs_cnt = BufferEnd THEN 0 ELSE eth_to_rs_cnt
    /\ taken <=> at > 0 \/ p = 1
    /\ eth_to_rs' = IF taken THEN [eth_to_rs EXCEPT ![at] = ByteOf(c, p)] ELSE eth_to_rs
    /\ eth_to_rs_cnt' = IF taken THEN at + 1 ELSE at

\* Who is crowded by it.
Crowds(c) ==
    /\ crowded \subseteq crowded' /\ crowded' \subseteq crowded \cup Collected \cup {c}
    /\ \A n \in Collected : n # c => n \in crowded' /\ c \in crowded'
    /\ rpc \notin Waiting => Collected \subseteq crowded' /\ c \in crowded'

\* The interrupt takes a byte.
LEMMA ByteArrives ==
    ASSUME ResetInv, ReceiveByte
    PROVE  /\ UNCHANGED <<given, rpc, dest, pktlen, sent, cut>> /\ came' = TRUE
           /\ serial' \in Seq(ResetByte) /\ SerialInOrder' /\ Commands' = Commands
           /\ \E c, p, at : \E taken \in BOOLEAN : Arrives(c, p, at, taken) /\ Crowds(c)
<1>0. /\ serial # <<>> /\ serial' = Tail(serial)
      /\ UNCHANGED <<given, rpc, dest, pktlen, sent, cut>> /\ came' = TRUE
  BY DEF ReceiveByte
<1>1. serial' \in Seq(ResetByte) /\ SerialInOrder' /\ Commands' = Commands
  BY <1>0, ByteLeaves
<1>2. PICK c \in Commands : \E p \in 1 .. Size(c) :
         /\ Head(serial) = ByteOf(c, p) /\ IsByte(ByteOf(c, p), c, p)
         /\ Passed(c) = p - 1 /\ Passed(c)' = p
         /\ \A n \in Commands : /\ Kept(n) /\ (n # c => Passed(n)' = Passed(n))
                                /\ (n > c => Passed(n) = 0) /\ (n < c => Passed(n) = Size(n))
  BY <1>0, ByteLeaves
<1>3. PICK p \in 1 .. Size(c) :
         /\ Head(serial) = ByteOf(c, p) /\ IsByte(ByteOf(c, p), c, p)
         /\ Passed(c) = p - 1 /\ Passed(c)' = p
  BY <1>2
<1>4. CommandOf(Head(serial)) = c /\ (Char(Head(serial)) = Caret <=> p = 1)
  BY <1>3 DEF IsByte, IsByteOf
<1> DEFINE at == IF eth_to_rs_cnt = BufferEnd THEN 0 ELSE eth_to_rs_cnt
           taken == at > 0 \/ Char(Head(serial)) = Caret
           together == Collected \cup {c}
<1>5. /\ eth_to_rs' = IF taken THEN [eth_to_rs EXCEPT ![at] = ByteOf(c, p)] ELSE eth_to_rs
      /\ eth_to_rs_cnt' = IF taken THEN at + 1 ELSE at
      /\ crowded' = IF together # {c} \/ rpc \notin Waiting THEN crowded \cup together ELSE crowded
  BY <1>3, <1>4 DEF ReceiveByte, Waiting
<1>6. Crowds(c)
  BY <1>5 DEF Crowds
<1>7. Arrives(c, p, at, taken)
  <2> HIDE DEF at
  <2>1. at = IF eth_to_rs_cnt = BufferEnd THEN 0 ELSE eth_to_rs_cnt
    BY DEF at
  <2> QED
    BY <1>2, <1>3, <1>4, <1>5, <2>1 DEF Arrives
<1>8. taken \in BOOLEAN
  OBVIOUS
<1> HIDE DEF at, taken
<1> QED
  BY <1>0, <1>1, <1>6, <1>7, <1>8

\* The place it is stored at is inside the buffer.
LEMMA PlacesAre ==
    ASSUME ResetInv, NEW c, NEW p, NEW at, NEW taken \in BOOLEAN, Arrives(c, p, at, taken)
    PROVE  /\ eth_to_rs_cnt \in Nat /\ eth_to_rs_cnt <= BufferEnd /\ BufferEnd \in Nat /\ 6 <= BufferEnd
           /\ at \in Nat /\ at < BufferEnd /\ at \in -1 .. BufferEnd
           /\ p \in Nat /\ p > 0 /\ Size(c) \in Nat /\ 6 <= Size(c) /\ Size(c) <= BufferEnd /\ p - 1 < Size(c)
           /\ taken => eth_to_rs'[at] = ByteOf(c, p)
           /\ \A i \in -1 .. BufferEnd : i # at => eth_to_rs'[i] = eth_to_rs[i]
<1>1. Size(c) \in Nat /\ 6 <= Size(c) /\ Size(c) <= BufferEnd /\ BufferEnd \in Nat
  BY Counts DEF Arrives, ResetInv, ResetTypeOK
<1>2. eth_to_rs_cnt \in Nat /\ eth_to_rs_cnt <= BufferEnd
  BY DEF ResetInv, ResetTypeOK
<1>3. at \in Nat /\ at < BufferEnd
  BY <1>1, <1>2 DEF Arrives
<1>4. p \in Nat /\ p > 0 /\ p - 1 < Size(c)
  BY <1>1 DEF Arrives
<1>5. at \in -1 .. BufferEnd
  BY <1>1, <1>3
<1>6. taken => eth_to_rs'[at] = ByteOf(c, p)
  BY <1>5 DEF Arrives, ResetInv, ResetTypeOK
<1>7. \A i \in -1 .. BufferEnd : i # at => eth_to_rs'[i] = eth_to_rs[i]
  BY <1>5 DEF Arrives, ResetInv, ResetTypeOK
<1> QED
  BY <1>1, <1>2, <1>3, <1>4, <1>5, <1>6, <1>7

\* The commands of the first two bytes are among those in the buffer.
LEMMA FirstIsCollected ==
    ASSUME ResetInv, NEW n \in Commands, NEW i \in {0, 1}, i < eth_to_rs_cnt, n = CommandOf(eth_to_rs[i])
    PROVE  n \in Collected
<1>1. i \in 0 .. eth_to_rs_cnt - 1
  BY DEF ResetInv, ResetTypeOK
<1>2. n # 0
  BY Counts DEF Commands
<1> QED
  BY <1>1, <1>2 DEF Collected

\* The next byte of the command that the buffer collects.
LEMMA CollectsMore ==
    ASSUME ResetInv, NEW c, NEW p, NEW at, Arrives(c, p, at, TRUE), UNCHANGED <<given, sent, cut>>,
           crowded \subseteq crowded', IsFresh(c)',
           Collecting(c), at = eth_to_rs_cnt
    PROVE  Collecting(c)'
<1>1. /\ eth_to_rs_cnt \in Nat /\ p \in Nat /\ p > 0 /\ Size(c) \in Nat /\ p - 1 < Size(c) /\ c \in Commands
      /\ Passed(c) = p - 1 /\ Passed(c)' = p /\ Kept(c)
      /\ eth_to_rs_cnt' = at + 1 /\ BufferEnd \in Nat /\ at < BufferEnd
  BY PlacesAre DEF Arrives
<1>2. PICK g \in Nat : g = Got(c) /\ eth_to_rs_cnt = g /\ g = IF c \in cut THEN p - 2 ELSE p - 1
  <2>1. Passed(c) > 0
    BY DEF Collecting, IsFresh
  <2>2. Got(c) \in Nat /\ (c \notin cut => Got(c) = p - 1) /\ (c \in cut => Got(c) = (p - 1) - 1)
    BY <1>1, <2>1, GotIs
  <2>3. eth_to_rs_cnt = Got(c)
    BY <1>1 DEF Collecting
  <2>4. (p - 1) - 1 = p - 2
    BY <1>1
  <2> QED
    BY <2>2, <2>3, <2>4
<1>3. Got(c)' = g + 1
  BY <1>1, <1>2 DEF Got
<1>4. PICK x \in 2 .. Size(c) + 1 :
         (IF c \in cut THEN x <= p - 1 ELSE x > Size(c)) /\ HoldsBut(c, x, g)
  BY <1>1, <1>2 DEF Collecting, Holds
<1>5. \A i \in 0 .. g : eth_to_rs'[i] = ByteOf(c, IF i + 1 < x THEN i + 1 ELSE i + 2)
  <2> TAKE i \in 0 .. g
  <2>1. CASE i = g
    <3>1. eth_to_rs'[i] = ByteOf(c, p)
      BY <1>2, <2>1, PlacesAre
    <3>2. CASE c \in cut
      <4>1. ~ i + 1 < x /\ i + 2 = p
        BY <1>1, <1>2, <1>4, <2>1, <3>2
      <4> QED
        BY <3>1, <4>1
    <3>3. CASE c \notin cut
      <4>1. i + 1 < x /\ i + 1 = p
        BY <1>1, <1>2, <1>4, <2>1, <3>3
      <4> QED
        BY <3>1, <4>1
    <3> QED
      BY <3>2, <3>3
  <2>2. CASE i # g
    <3>1. i \in 0 .. g - 1 /\ i \in -1 .. BufferEnd /\ i # at
      BY <1>1, <1>2, <2>2
    <3>2. eth_to_rs'[i] = eth_to_rs[i]
      BY <3>1, PlacesAre
    <3> QED
      BY <1>4, <3>1, <3>2 DEF HoldsBut
  <2> QED
    BY <2>1, <2>2
<1>6. Holds(c, g + 1)'
  <2>1. HoldsBut(c, x, g + 1)'
    <3>1. (g + 1) - 1 = g
      OBVIOUS
    <3>2. \A q : ByteOf(c, q)' = ByteOf(c, q)
      BY <1>1 DEF Kept
    <3> QED
      BY <1>5, <3>1, <3>2 DEF HoldsBut
  <2>2. Size(c)' = Size(c) /\ (IF c \in cut' THEN x <= Passed(c)' ELSE x > Size(c))
    BY <1>1, <1>4 DEF Kept
  <2> QED
    BY <1>4, <2>1, <2>2 DEF Holds
<1>7. eth_to_rs_cnt' = Got(c)' /\ eth_to_rs_cnt' >= Got(c)'
  BY <1>1, <1>2, <1>3
<1> QED
  BY <1>3, <1>6, <1>7 DEF Collecting

\* A byte of the next command, behind the one that the buffer holds.
LEMMA CollectsOther ==
    ASSUME ResetInv, NEW c, NEW p, NEW at, Arrives(c, p, at, TRUE), UNCHANGED <<given, sent, cut>>,
           NEW n \in Commands, n # c, n \in crowded',
           Collecting(n), at = eth_to_rs_cnt
    PROVE  Collecting(n)'
<1>1. /\ eth_to_rs_cnt \in Nat /\ eth_to_rs_cnt' = at + 1 /\ BufferEnd \in Nat /\ at < BufferEnd
      /\ c \in Commands /\ p \in 1 .. Size(c) /\ Passed(c)' = p
      /\ Kept(n) /\ Passed(n)' = Passed(n) /\ (n > c => Passed(n) = 0) /\ (n < c => Passed(n) = Size(n))
  BY PlacesAre DEF Arrives
<1>2. Passed(n) > 0 /\ Passed(n) \in Nat /\ n \in Nat /\ c \in Nat
  <2>1. Passed(n) > 0
    BY DEF Collecting, IsFresh
  <2> QED
    BY <1>1, <2>1, Counts DEF ResetInv, ResetTypeOK
<1>3. Passed(n) = Size(n)
  BY <1>1, <1>2
<1>4. PICK g \in Nat : g = Got(n) /\ g <= eth_to_rs_cnt /\ Holds(n, g)
  BY <1>2, GotIs DEF Collecting
<1>5. Got(n)' = g
  BY <1>1, <1>4 DEF Got
<1>6. \A i \in 0 .. g - 1 : eth_to_rs'[i] = eth_to_rs[i]
  <2> TAKE i \in 0 .. g - 1
  <2>1. i \in -1 .. BufferEnd /\ i # at
    BY <1>1, <1>4
  <2> QED
    BY <2>1, PlacesAre
<1>7. Holds(n, g)'
  BY <1>1, <1>2, <1>4, <1>6, HoldsStays
<1>8. IsFresh(n)'
  BY <1>1, <1>2 DEF Collecting, IsFresh, Kept
<1>9. eth_to_rs_cnt' >= g
  BY <1>1, <1>4
<1>10. ~ Passed(n)' < Size(n)'
  BY <1>1, <1>2, <1>3 DEF Kept
<1> QED
  BY <1>5, <1>7, <1>8, <1>9, <1>10 DEF Collecting

\* A byte comes while the main loop waits for the end of a command.
LEMMA ReceiveWaiting ==
    ASSUME ResetInv, ReceiveByte, rpc \in Waiting PROVE LoopInv' /\ NoneIsLost'
<1>0. /\ UNCHANGED <<given, rpc, dest, pktlen, sent, cut>> /\ came' = TRUE
      /\ serial' \in Seq(ResetByte) /\ SerialInOrder' /\ Commands' = Commands
  BY ByteArrives
<1>1. PICK c, p, at : \E taken \in BOOLEAN : Arrives(c, p, at, taken) /\ Crowds(c)
  BY ByteArrives
<1>2. PICK taken \in BOOLEAN : Arrives(c, p, at, taken) /\ Crowds(c)
  BY <1>1
<1>3. /\ c \in Commands /\ Kept(c) /\ Passed(c) = p - 1 /\ Passed(c)' = p
      /\ \A n \in Commands : Kept(n) /\ (n # c => Passed(n)' = Passed(n))
      /\ at = IF eth_to_rs_cnt = BufferEnd THEN 0 ELSE eth_to_rs_cnt
      /\ (taken <=> at > 0 \/ p = 1)
      /\ eth_to_rs_cnt' = IF taken THEN at + 1 ELSE at
      /\ CommandOf(ByteOf(c, p)) = c
  BY <1>2 DEF Arrives, IsByte, IsByteOf
<1>4. /\ eth_to_rs_cnt \in Nat /\ eth_to_rs_cnt <= BufferEnd /\ BufferEnd \in Nat /\ 6 <= BufferEnd
      /\ at \in Nat /\ at < BufferEnd
      /\ p \in Nat /\ p > 0 /\ Size(c) \in Nat /\ 6 <= Size(c) /\ Size(c) <= BufferEnd /\ p - 1 < Size(c)
      /\ (taken => eth_to_rs'[at] = ByteOf(c, p))
      /\ \A i \in -1 .. BufferEnd : i # at => eth_to_rs'[i] = eth_to_rs[i]
  BY <1>2, PlacesAre
<1>5. crowded \subseteq crowded' /\ \A n \in Collected : n # c => n \in crowded' /\ c \in crowded'
  BY <1>2 DEF Crowds
<1>6. \A n \in Commands : IsFresh(n) => IsFresh(n)'
  <2>1. \A n \in Commands : Passed(n) > 0 => Passed(n)' > 0
    BY <1>3, <1>4
  <2> QED
    BY <1>0, <1>3, <1>5, <2>1, SentStays DEF IsFresh
<1>7. eth_to_rs_cnt > 0 => \E n \in Commands : n = CommandOf(eth_to_rs[0]) /\ Collecting(n)
  BY DEF ResetInv, LoopInv
<1>8. \A n \in Commands \ (cut \cup crowded) :
         Passed(n) > 0 => (eth_to_rs_cnt > 0 /\ n = CommandOf(eth_to_rs[0])) \/ \E k \in DOMAIN sent : sent[k].command = n
  BY DEF ResetInv, NoneIsLost, InBuffer, Waiting, Parsing
<1>9. rpc' \in Waiting /\ rpc' \notin Parsing /\ rpc' # "send"
  BY <1>0 DEF Waiting, Parsing
<1>10. ASSUME at = 0 PROVE LoopInv' /\ NoneIsLost'
  <2>1. CASE p = 1
    <3>1. taken /\ eth_to_rs_cnt' = 1 /\ eth_to_rs'[0] = ByteOf(c, 1)
      BY <1>3, <1>4, <1>10, <2>1
    <3>2. c \notin cut /\ Passed(c)' = 1 /\ Got(c)' = 1
      <4>1. Passed(c) = 0
        BY <1>3, <2>1
      <4>2. c \notin cut
        BY <4>1 DEF ResetInv, CutHasPassed
      <4> QED
        BY <1>0, <1>3, <2>1, <4>2 DEF Got
    <3>3. IsFresh(c)'
      <4>1. \A k \in DOMAIN sent : sent[k].command < c
        <5> TAKE k \in DOMAIN sent
        <5>1. PICK m \in Commands : m = sent[k].command /\ Passed(m) > 0
          BY DEF ResetInv, SentRight
        <5>2. m # c /\ ~ m > c
          <6>1. Passed(c) = 0
            BY <1>3, <2>1
          <6>2. m > c => Passed(m) = 0
            BY <1>2 DEF Arrives
          <6> QED
            BY <5>1, <6>1, <6>2
        <5>3. m \in Nat /\ c \in Nat
          BY <1>3, Counts DEF Commands
        <5> QED
          BY <5>1, <5>2, <5>3
      <4> QED
        BY <1>0, <1>3, <3>2, <4>1 DEF IsFresh, Kept
    <3>4. Holds(c, 1)'
      <4>1. PICK x \in 2 .. Size(c) + 1 : x > Size(c) /\ 1 < x
        <5>1. Size(c) + 1 \in 2 .. Size(c) + 1 /\ Size(c) + 1 > Size(c) /\ 1 < Size(c) + 1
          BY <1>4
        <5> QED
          BY <5>1
      <4>2. HoldsBut(c, x, 1)'
        <5>1. \A i \in 0 .. 1 - 1 : i = 0 /\ i + 1 < x
          BY <4>1
        <5>2. \A q : ByteOf(c, q)' = ByteOf(c, q)
          BY <1>3 DEF Kept
        <5> QED
          BY <3>1, <5>1, <5>2 DEF HoldsBut
      <4>3. Size(c)' = Size(c) /\ c \notin cut'
        BY <1>0, <1>3, <3>2 DEF Kept
      <4> QED
        BY <4>1, <4>2, <4>3 DEF Holds
    <3>5. Collecting(c)'
      <4>1. eth_to_rs_cnt' = Got(c)' /\ eth_to_rs_cnt' >= Got(c)'
        BY <3>1, <3>2
      <4> QED
        BY <3>2, <3>3, <3>4, <4>1 DEF Collecting
    <3>6. c = CommandOf(eth_to_rs[0])'
      BY <1>3, <2>1, <3>1 DEF CommandOf
    <3>7. LoopInv'
      BY <1>0, <1>3, <1>9, <3>1, <3>5, <3>6 DEF LoopInv
    <3>8. NoneIsLost'
      <4>1. InBuffer(c)'
        BY <1>9, <3>1, <3>6 DEF InBuffer
      <4>2. ASSUME NEW n \in Commands \ (cut \cup crowded'), n # c, Passed(n)' > 0
            PROVE  \E k \in DOMAIN sent : sent[k].command = n
        <5>1. n \in Commands \ (cut \cup crowded) /\ Passed(n) > 0
          BY <1>3, <1>5, <4>2
        <5>2. CASE eth_to_rs_cnt > 0 /\ n = CommandOf(eth_to_rs[0])
          <6>1. n \in Collected
            BY <5>2, FirstIsCollected
          <6> QED
            BY <1>5, <4>2, <6>1
        <5> QED
          BY <1>8, <5>1, <5>2
      <4> QED
        BY <1>0, <4>1, <4>2 DEF NoneIsLost
    <3> QED
      BY <3>7, <3>8
  <2>2. CASE p # 1
    <3>1. ~ taken /\ eth_to_rs_cnt' = 0
      BY <1>3, <1>4, <1>10, <2>2
    <3>2. LoopInv'
      BY <1>0, <1>9, <3>1 DEF LoopInv
    <3>3. NoneIsLost'
      <4>1. ASSUME NEW n \in Commands \ (cut \cup crowded'), Passed(n)' > 0
            PROVE  \E k \in DOMAIN sent : sent[k].command = n
        <5>1. n \in Commands \ (cut \cup crowded) /\ Passed(n) > 0
          BY <1>3, <1>4, <1>5, <2>2, <4>1
        <5>2. CASE eth_to_rs_cnt > 0 /\ n = CommandOf(eth_to_rs[0])
          <6>1. n \in Collected
            BY <5>2, FirstIsCollected
          <6>2. n = c
            BY <1>5, <4>1, <6>1
          <6>3. Collecting(c) /\ c \notin cut /\ Passed(c) > 0
            BY <1>7, <5>1, <5>2, <6>2
          <6>4. eth_to_rs_cnt = BufferEnd
            BY <1>3, <1>10, <5>2
          <6>5. eth_to_rs_cnt = Got(c)
            BY <1>3, <1>4, <6>3 DEF Collecting
          <6>6. Got(c) = p - 1
            BY <1>3, <6>3, GotIs
          <6> QED
            BY <1>4, <6>4, <6>5, <6>6
        <5> QED
          BY <1>8, <5>1, <5>2
      <4> QED
        BY <1>0, <4>1 DEF NoneIsLost
    <3> QED
      BY <3>2, <3>3
  <2> QED
    BY <2>1, <2>2
<1>11. ASSUME at # 0 PROVE LoopInv' /\ NoneIsLost'
  <2>1. at = eth_to_rs_cnt /\ at > 0 /\ taken /\ eth_to_rs_cnt' = at + 1 /\ eth_to_rs_cnt' > 0
    BY <1>3, <1>4, <1>11
  <2>2. PICK n \in Commands : n = CommandOf(eth_to_rs[0]) /\ Collecting(n)
    BY <1>7, <2>1
  <2>3. n \in Collected
    BY <2>1, <2>2, FirstIsCollected
  <2>4. n = CommandOf(eth_to_rs[0])'
    <3>1. 0 \in -1 .. BufferEnd /\ 0 # at
      BY <1>4, <1>11
    <3>2. eth_to_rs'[0] = eth_to_rs[0]
      BY <1>4, <3>1
    <3> QED
      BY <2>2, <3>2 DEF CommandOf
  <2>5. Arrives(c, p, at, TRUE)
    BY <1>2, <2>1
  <2>6. Collecting(n)'
    <3>1. CASE n = c
      BY <1>0, <1>5, <1>6, <2>1, <2>2, <2>5, <3>1, CollectsMore DEF Collecting
    <3>2. CASE n # c
      BY <1>0, <1>5, <2>1, <2>2, <2>3, <2>5, <3>2, CollectsOther
    <3> QED
      BY <3>1, <3>2
  <2>7. LoopInv'
    <3>1. eth_to_rs_cnt' # 0
      BY <1>4, <2>1
    <3> QED
      BY <1>0, <1>9, <2>4, <2>6, <3>1 DEF LoopInv
  <2>8. NoneIsLost'
    <3>1. InBuffer(n)'
      BY <1>9, <2>1, <2>4 DEF InBuffer
    <3>2. ASSUME NEW m \in Commands \ (cut \cup crowded'), m # n, Passed(m)' > 0
          PROVE  \E k \in DOMAIN sent : sent[k].command = m
      <4>1. m # c
        BY <1>5, <2>3, <3>2
      <4>2. m \in Commands \ (cut \cup crowded) /\ Passed(m) > 0
        BY <1>3, <1>5, <3>2, <4>1
      <4> QED
        BY <1>8, <2>2, <3>2, <4>2
    <3> QED
      BY <1>0, <3>1, <3>2 DEF NoneIsLost
  <2> QED
    BY <2>7, <2>8
<1> QED
  BY <1>10, <1>11

\* A byte comes while it reads the buffer, or sends.
LEMMA ReceiveParsing ==
    ASSUME ResetInv, ReceiveByte, rpc \notin Waiting PROVE LoopInv' /\ NoneIsLost'
<1>0. /\ UNCHANGED <<given, rpc, dest, pktlen, sent, cut>> /\ came' = TRUE
      /\ serial' \in Seq(ResetByte) /\ SerialInOrder' /\ Commands' = Commands
  BY ByteArrives
<1>1. PICK c, p, at : \E taken \in BOOLEAN : Arrives(c, p, at, taken) /\ Crowds(c)
  BY ByteArrives
<1>2. PICK taken \in BOOLEAN : Arrives(c, p, at, taken) /\ Crowds(c)
  BY <1>1
<1>3. /\ c \in Commands /\ Passed(c) = p - 1
      /\ \A n \in Commands : Kept(n) /\ (n # c => Passed(n)' = Passed(n))
      /\ at = IF eth_to_rs_cnt = BufferEnd THEN 0 ELSE eth_to_rs_cnt
      /\ (taken <=> at > 0 \/ p = 1)
      /\ eth_to_rs_cnt' = IF taken THEN at + 1 ELSE at
  BY <1>2 DEF Arrives
<1>4. /\ eth_to_rs_cnt \in Nat /\ eth_to_rs_cnt <= BufferEnd /\ BufferEnd \in Nat /\ 6 <= BufferEnd
      /\ at \in Nat /\ at < BufferEnd
      /\ p \in Nat /\ p > 0 /\ Size(c) \in Nat /\ p - 1 < Size(c)
      /\ \A i \in -1 .. BufferEnd : i # at => eth_to_rs'[i] = eth_to_rs[i]
  BY <1>2, PlacesAre
<1>5. crowded \subseteq crowded' /\ Collected \subseteq crowded' /\ c \in crowded'
  BY <1>2 DEF Crowds
<1>6. \A n \in Commands : IsFresh(n) => IsFresh(n)'
  <2>1. \A n \in Commands : Passed(n) > 0 => Passed(n)' > 0
    BY <1>2, <1>3, <1>4 DEF Arrives
  <2> QED
    BY <1>0, <1>3, <1>5, <2>1, SentStays DEF IsFresh
<1>7. rpc \in Parsing \cup {"send", "complain", "delay"}
  BY DEF ResetInv, ResetTypeOK, ReceiveByte
<1>8. \A n \in Commands : Passed(n) = Size(n) => n # c
  BY <1>3, <1>4
<1>9. rpc \notin {"complain", "delay"} => ~ came
  BY <1>7 DEF ReceiveByte, Parsing, Waiting
<1>10. \A i \in -1 .. BufferEnd : i # at => CommandOf(eth_to_rs[i])' = CommandOf(eth_to_rs[i])
  BY <1>4 DEF CommandOf
\* Who has passed and is not crowded by it is in the buffer as before, if at all.
<1>11. \A n \in Commands \ (cut' \cup crowded') : Passed(n)' > 0 =>
          InBuffer(n) \/ \E k \in DOMAIN sent : sent[k].command = n
  BY <1>0, <1>3, <1>5, <1>7 DEF ResetInv, NoneIsLost, Parsing
<1>12. CASE rpc \in {"complain", "delay"}
  <2>1. LoopInv'
    BY <1>0, <1>12 DEF LoopInv, Waiting, Parsing
  <2>2. \A n : ~ InBuffer(n)
    BY <1>12 DEF InBuffer, Waiting, Parsing
  <2> QED
    BY <1>0, <1>11, <2>1, <2>2 DEF NoneIsLost
<1>13. CASE rpc = "send"
  <2>1. PICK n \in Commands : n = CommandOf(eth_to_rs[1]) /\ Sending(n)
    BY <1>13 DEF ResetInv, LoopInv
  <2>2. eth_to_rs_cnt = pktlen + 6 /\ pktlen \in Nat /\ pktlen + 6 <= BufferEnd
    BY <1>9, <1>13, <2>1 DEF Sending, Framing, ResetInv, ResetTypeOK
  <2>3. at # 1 /\ \A i \in 1 .. pktlen : 4 + i \in -1 .. BufferEnd /\ 4 + i # at
    BY <1>3, <1>4, <2>2
  <2>4. n # c
    BY <1>8, <2>1 DEF Sending
  <2>5. n = CommandOf(eth_to_rs[1])'
    <3>1. 1 \in -1 .. BufferEnd
      BY <1>4
    <3> QED
      BY <1>10, <2>1, <2>3, <3>1
  <2>6. Sending(n)'
    <3>1. IsFresh(n)' /\ Passed(n)' = Size(n)'
      BY <1>3, <1>6, <2>1, <2>4 DEF Sending, Kept
    <3>2. \A i \in 1 .. pktlen : eth_to_rs'[4 + i] = eth_to_rs[4 + i]
      BY <1>4, <2>3
    <3>3. given'[n] = given[n] /\ \A q : ByteOf(n, q)' = ByteOf(n, q)
      BY <1>3 DEF Kept
    <3> QED
      BY <1>0, <1>5, <2>1, <3>1, <3>2, <3>3 DEF Sending, Ambiguous
  <2>7. LoopInv'
    BY <1>0, <1>13, <2>5, <2>6 DEF LoopInv, Waiting, Parsing
  <2>8. \A m : InBuffer(m) => InBuffer(m)'
    BY <1>0, <1>13, <2>1, <2>5 DEF InBuffer, Waiting, Parsing
  <2> QED
    BY <1>0, <1>11, <2>7, <2>8 DEF NoneIsLost
<1>14. CASE rpc \in Parsing
  <2>1. ~ Wrapped /\ rpc' \notin Waiting /\ rpc' # "send"
    BY <1>0, <1>9, <1>14 DEF Parsing, Wrapped, Waiting
  <2>2. PICK n \in Commands : n = CommandOf(eth_to_rs[1]) /\ Whole(n) /\ Parsed(n)
    BY <1>14, <2>1 DEF ResetInv, LoopInv
  <2>3. PICK l \in 0 .. 99 : Got(n) = IF n \in cut THEN l + 5 ELSE l + 6
    BY <2>2, WholeIs
  <2>4. PICK g \in Nat : g = Got(n) /\ g >= 5 /\ g <= eth_to_rs_cnt
    BY <2>2, <2>3 DEF Whole
  <2>5. eth_to_rs_cnt > 1
    BY <1>4, <2>4
  <2>6. n \in crowded'
    BY <1>5, <2>2, <2>5, FirstIsCollected
  <2>7. \A m : InBuffer(m) => m = n
    BY <1>14, <2>2 DEF InBuffer, Parsing, Waiting
  <2>8. NoneIsLost'
    BY <1>0, <1>11, <2>6, <2>7 DEF NoneIsLost
  <2>9. CASE at = 0
    <3>1. Wrapped'
      BY <1>0, <1>3, <2>9 DEF Wrapped
    <3>2. rpc' # "last"
      BY <2>1 DEF Waiting
    <3> QED
      BY <2>1, <2>8, <3>1, <3>2 DEF LoopInv
  <2>10. CASE at # 0
    <3>1. at = eth_to_rs_cnt /\ eth_to_rs_cnt' = eth_to_rs_cnt + 1
      BY <1>3, <1>4, <2>10
    <3>2. n # c /\ Passed(n)' = Passed(n) /\ Kept(n) /\ Passed(n) \in Nat
      BY <1>3, <1>8, <2>2, Counts DEF Whole, ResetInv, ResetTypeOK
    <3>3. n = CommandOf(eth_to_rs[1])'
      <4>1. 1 \in -1 .. BufferEnd /\ 1 # at
        BY <1>4, <2>5, <3>1
      <4> QED
        BY <1>10, <2>2, <4>1
    <3>4. \A i \in 0 .. (g - 1) - 1 : eth_to_rs'[i] = eth_to_rs[i]
      <4> TAKE i \in 0 .. (g - 1) - 1
      <4>1. i \in -1 .. BufferEnd /\ i # at
        BY <1>4, <2>4, <3>1
      <4> QED
        BY <1>4, <4>1
    <3>5. Holds(n, g - 1)'
      <4>1. g - 1 \in Int /\ Holds(n, g - 1)
        BY <2>2, <2>4 DEF Whole
      <4> QED
        BY <1>0, <3>2, <3>4, <4>1, HoldsStays
    <3>6. Got(n)' = g
      BY <1>0, <2>4, <3>2 DEF Got
    <3>7. eth_to_rs_cnt' >= g
      BY <1>4, <2>4, <3>1
    <3>8. Whole(n)'
      BY <1>6, <2>2, <2>6, <3>2, <3>5, <3>6, <3>7 DEF Whole, Kept
    <3>9. Parsed(n)'
      BY <1>0, <2>2, <2>6 DEF Parsed
    <3>10. LoopInv'
      BY <1>0, <2>1, <2>2, <3>3, <3>8, <3>9 DEF LoopInv
    <3> QED
      BY <2>8, <3>10
  <2> QED
    BY <2>9, <2>10
<1> QED
  BY <1>7, <1>12, <1>13, <1>14

LEMMA ReceiveByteKeeps == ASSUME ResetInv, ReceiveByte PROVE ResetInv'
<1>0. /\ UNCHANGED <<given, rpc, dest, pktlen, sent, cut>> /\ came' = TRUE
      /\ serial' \in Seq(ResetByte) /\ SerialInOrder' /\ Commands' = Commands
  BY ByteArrives
<1>1. PICK c, p, at : \E taken \in BOOLEAN : Arrives(c, p, at, taken) /\ Crowds(c)
  BY ByteArrives
<1>2. PICK taken \in BOOLEAN : Arrives(c, p, at, taken) /\ Crowds(c)
  BY <1>1
<1>3. /\ \A n \in Commands : Kept(n) /\ (n # c => Passed(n)' = Passed(n))
      /\ Passed(c)' = p /\ crowded \subseteq crowded'
  BY <1>2 DEF Arrives, Crowds
<1>4. SentRight' /\ SentInOrder'
  BY <1>0, <1>3, SentStays
<1>5. /\ eth_to_rs_cnt' \in 0 .. BufferEnd /\ eth_to_rs' \in [-1 .. BufferEnd -> ResetByte] /\ p > 0
  <2>1. /\ BufferEnd \in Nat /\ at \in Nat /\ at < BufferEnd /\ at \in -1 .. BufferEnd /\ p > 0
    BY <1>2, PlacesAre
  <2>2. eth_to_rs_cnt' \in 0 .. BufferEnd
    BY <1>2, <2>1 DEF Arrives
  <2>3. ByteOf(c, p) \in ResetByte
    BY <1>2 DEF Arrives, IsByte, IsByteOf
  <2>4. eth_to_rs' \in [-1 .. BufferEnd -> ResetByte]
    BY <1>2, <2>1, <2>3 DEF Arrives, ResetInv, ResetTypeOK
  <2> QED
    BY <2>1, <2>2, <2>4
<1>6. ResetTypeOK'
  BY <1>0, <1>5 DEF ResetInv, ResetTypeOK
<1>7. CutHasPassed'
  BY <1>0, <1>3, <1>5 DEF ResetInv, CutHasPassed
<1>8. LoopInv' /\ NoneIsLost'
  BY ReceiveWaiting, ReceiveParsing
<1> QED
  BY <1>0, <1>4, <1>6, <1>7, <1>8 DEF ResetInv

-----------------------------------------------------------------------------
(* The theorems about the reset card busmaster *)

LEMMA ResetStarts == ResetInit => ResetInv
<1>1. SUFFICES ASSUME ResetInit PROVE ResetInv
  OBVIOUS
<1>2. /\ given = <<>> /\ serial = <<>> /\ sent = <<>> /\ cut = {} /\ crowded = {} /\ eth_to_rs_cnt = 0
      /\ rpc = "loop" /\ dest = 0 /\ pktlen = 0 /\ came = FALSE
  BY <1>1 DEF ResetInit
<1>3. Len(given) = 0 /\ Commands = {} /\ DOMAIN sent = {} /\ Len(serial) = 0
  BY <1>2 DEF Commands
<1>4. eth_to_rs \in [-1 .. BufferEnd -> ResetByte]
  <2>1. PICK front \in {Nul, Dollar} :
           eth_to_rs = [i \in -1 .. BufferEnd |-> IF i = -1 THEN Byte(front, 0, 0) ELSE NulByte]
    BY <1>1 DEF ResetInit
  <2>2. Byte(front, 0, 0) \in ResetByte /\ NulByte \in ResetByte
    BY DEF NulByte, Byte, Nul, Dollar, ResetByte, CharCodes
  <2> QED
    BY <2>1, <2>2
<1>5. ResetTypeOK
  <2>1. given \in Seq(Payloads) /\ serial \in Seq(ResetByte) /\ rpc \in Waiting
    BY <1>2 DEF Waiting
  <2>2. sent \in Seq([command : Nat, to : Nat, payload : Seq(ResetByte)])
    BY <1>2
  <2>3. eth_to_rs_cnt \in 0 .. BufferEnd /\ dest \in Nat /\ pktlen \in Nat /\ came \in BOOLEAN
    BY <1>2, BufferIsNat
  <2> QED
    BY <1>4, <2>1, <2>2, <2>3 DEF ResetTypeOK
<1>6. SerialInOrder
  BY <1>2, <1>3 DEF SerialInOrder
<1>7. SentRight /\ SentInOrder /\ CutHasPassed /\ NoneIsLost
  BY <1>2, <1>3 DEF SentRight, SentInOrder, CutHasPassed, NoneIsLost
<1>8. LoopInv
  BY <1>2 DEF LoopInv, Waiting, Parsing
<1> QED
  BY <1>5, <1>6, <1>7, <1>8 DEF ResetInv

LEMMA ResetStepKeeps == ResetInv /\ [ResetNext]_resetVars => ResetInv'
<1>1. SUFFICES ASSUME ResetInv, [ResetNext]_resetVars PROVE ResetInv'
  OBVIOUS
<1>2. CASE \E payload \in Payloads : Give(payload)
  BY <1>1, <1>2, GiveKeeps
<1>3. CASE ReceiveByte
  BY <1>1, <1>3, ReceiveByteKeeps
<1>4. CASE DropByte
  BY <1>1, <1>4, DropByteKeeps
<1>5. CASE SeeBytes
  BY <1>1, <1>5, SeeBytesKeeps
<1>6. CASE SeeEnd
  BY <1>1, <1>6, SeeEndKeeps
<1>7. CASE Terminate
  BY <1>1, <1>7, TerminateKeeps
<1>8. CASE ParseDest
  BY <1>1, <1>8, ParseDestKeeps
<1>9. CASE ParseLen
  BY <1>1, <1>9, ParseLenKeeps
<1>10. CASE CheckLength
  BY <1>1, <1>10, CheckLengthKeeps
<1>11. CASE SendCommand
  BY <1>1, <1>11, SendCommandKeeps
<1>12. CASE SetBack
  BY <1>1, <1>12, SetBackKeeps
<1>13. CASE Overrun
  BY <1>1, <1>13, OverrunKeeps
<1>14. CASE UNCHANGED resetVars
  <2>0. /\ UNCHANGED <<given, serial, crowded, cut, sent, eth_to_rs, eth_to_rs_cnt>>
        /\ UNCHANGED <<rpc, dest, pktlen, came>>
    BY <1>14 DEF resetVars
  <2>1. /\ SerialInOrder' /\ CutHasPassed' /\ Commands' = Commands
        /\ \A n \in Commands : Kept(n) /\ Passed(n)' = Passed(n)
    BY <1>1, <2>0, RestStays
  <2>2. SentRight' /\ SentInOrder' /\ \A n \in Commands : Passed(n)' > 0 => (IsFresh(n) => IsFresh(n)')
    BY <1>1, <2>0, <2>1, SentStays
  <2>3. ResetTypeOK'
    BY <1>1, <2>0 DEF ResetInv, ResetTypeOK
  <2>4. \A n \in Commands : (Collecting(n) => Collecting(n)') /\ (Whole(n) => Whole(n)')
    BY <1>1, <2>0, BufferStays
  <2>5. \A n \in Commands : (Parsed(n) => Parsed(n)') /\ (Sending(n) => Sending(n)')
    BY <2>0, <2>1, <2>2 DEF Parsed, Sending, Ambiguous, Kept, IsFresh
  <2>6. \A i : CommandOf(eth_to_rs[i])' = CommandOf(eth_to_rs[i])
    BY <2>0 DEF CommandOf
  <2>7. LoopInv'
    BY <1>1, <2>0, <2>1, <2>4, <2>5, <2>6 DEF ResetInv, LoopInv, Wrapped
  <2>8. NoneIsLost'
    <3>1. \A n \in Commands : Passed(n)' = Passed(n) /\ (InBuffer(n) => InBuffer(n)')
      BY <2>0, <2>1, <2>6 DEF InBuffer
    <3> QED
      BY <1>1, <2>0, <2>1, <3>1 DEF ResetInv, NoneIsLost
  <2> QED
    BY <2>1, <2>2, <2>3, <2>7, <2>8 DEF ResetInv
<1> QED
  BY <1>1, <1>2, <1>3, <1>4, <1>5, <1>6, <1>7, <1>8, <1>9, <1>10, <1>11, <1>12, <1>13, <1>14
     DEF ResetNext, ResetMain

\* What is still on the way is the end of all the bytes of all the commands, the buffer
\* begins with the arrived bytes of one command that is not sent yet, and what the main
\* loop has read of it so far is right: at every step, whatever the interrupt does in
\* between, for any payloads, any number of commands and any commands that lose a byte, until a payload
\* of more than Room characters overruns lbuffer.
THEOREM ResetInvariant == ResetSpec => []ResetInv
<1>1. ResetInit => ResetInv
  BY ResetStarts
<1>2. ResetInv /\ [ResetNext]_resetVars => ResetInv'
  BY ResetStepKeeps
<1> QED
  BY <1>1, <1>2, PTL DEF ResetSpec

\* Until a payload overruns lbuffer,
\* every packet that goes over the bus is a command as it was given, in order and once,
\* unless the command lost a byte and either others pressed it or it can be misread.
THEOREM ResetSendsWhatWasGiven == ResetSpec => []SentWasGiven
<1>1. ResetInv => SentWasGiven
  <2>1. SUFFICES ASSUME ResetInv PROVE SentWasGiven
    OBVIOUS
  <2>2. DOMAIN given = Commands
    BY <2>1 DEF ResetInv, ResetTypeOK, Commands
  <2> QED
    BY <2>1, <2>2 DEF ResetInv, SentRight, SentInOrder, SentWasGiven
<1> QED
  BY <1>1, ResetInvariant, PTL

\* When all is quiet, a command that was not sent lost a byte, came together with
\* another, or came while one was handled.
THEOREM ResetLosesForAReason == ResetSpec => []LostForAReason
<1>1. ResetInv => LostForAReason
  <2>1. SUFFICES ASSUME ResetInv, serial = <<>>, rpc = "loop",
                        eth_to_rs_cnt = 0 \/ Char(eth_to_rs[eth_to_rs_cnt - 1]) # Dollar,
                        NEW n \in Commands, n \notin crowded, n \notin cut
                 PROVE  \E k \in DOMAIN sent : sent[k].command = n
    <3>1. DOMAIN given = Commands
      BY DEF ResetInv, ResetTypeOK, Commands
    <3> QED
      BY <3>1 DEF LostForAReason
  <2>2. Passed(n) = Size(n) /\ Passed(n) > 0 /\ Passed(n) \in Nat
    BY <2>1, PassedIs, Counts DEF ResetInv, ResetTypeOK
  <2>3. SUFFICES ASSUME InBuffer(n) PROVE FALSE
    BY <2>1, <2>2 DEF ResetInv, NoneIsLost
  <2>4. eth_to_rs_cnt > 0 /\ n = CommandOf(eth_to_rs[0])
    BY <2>1, <2>3 DEF InBuffer, Waiting, Parsing
  <2>5. Collecting(n)
    BY <2>1, <2>4 DEF ResetInv, LoopInv, Waiting
  <2>6. PICK s \in Nat : s = Size(n) /\ Got(n) = s /\ eth_to_rs_cnt = s /\ s > 0
    BY <2>1, <2>2, <2>5, GotIs DEF Collecting
  <2>7. PICK x \in 2 .. s + 1 : x > s /\ HoldsBut(n, x, s)
    BY <2>1, <2>5, <2>6 DEF Collecting, Holds
  <2>8. eth_to_rs[s - 1] = ByteOf(n, s)
    <3>1. s - 1 \in 0 .. s - 1 /\ (s - 1) + 1 = s /\ s < x
      BY <2>6, <2>7
    <3> QED
      BY <2>7, <3>1 DEF HoldsBut
  <2>9. Char(ByteOf(n, s)) = Dollar
    <3>1. s \in 1 .. Size(n)
      BY <2>6
    <3> QED
      BY <2>1, <2>6, <3>1, ByteIs DEF IsByte, IsByteOf, ResetInv, ResetTypeOK
  <2> QED
    BY <2>1, <2>4, <2>6, <2>8, <2>9
<1> QED
  BY <1>1, ResetInvariant, PTL

=============================================================================
