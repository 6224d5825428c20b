-------------------------------- MODULE MqttWire --------------------------------
(***************************************************************************)
(* PacketDecoder and the encoders of chumicro_mqtt/_wire.py: packets in a    *)
(* byte stream, read by recv_into() into one buffer of fixed size that is    *)
(* compacted now and then, and a PUBLISH too large for it drained away.      *)
(*                                                                          *)
(* A byte is a number.  Lengths keep their encoding with smaller digits:     *)
(* VarBase in a remaining length, 2 * VarBase in a field of two bytes.       *)
(***************************************************************************)
EXTENDS Integers, Sequences, FiniteSets, SequencesExt

CONSTANTS Feeds,       \* streams a broker may send, see below
          Filters,     \* topic filters the application listens on, each as its levels
          BufferSize,  \* rx_buffer_size
          TickBudget,  \* recv_budget_per_tick
          VarBase      \* 128

ASSUME DecoderAssumption ==
    /\ BufferSize \in Nat \ {0} /\ TickBudget \in Nat \ {0} /\ VarBase \in Nat \ {0, 1}
    /\ \A filter \in Filters : filter \in Seq(Seq(Int))

VARIABLES feed,     \* what the broker sends
          unread,   \* bytes of it not yet received
          decoder,
          reading,  \* between recv_into() and the read_next() that returns None
          dispatched
streamvars == <<feed, unread, decoder, reading, dispatched>>

--------------------------------------------------------------------------------
(* Encoders                                                                    *)

ConnackType == 2
PublishType == 3
PubackType == 4
SubackType == 9
UnsubackType == 11
PingrespType == 13
TypeByte(type, qos) == 16 * type + 2 * qos
TypeOf(byte) == byte \div 16
QosOf(byte) == (byte \div 2) % 4

\* encode_varlen: digits from the least significant, all but the last marked.
Varlen(n) ==
    LET n1 == n \div VarBase
        n2 == n1 \div VarBase
        n3 == n2 \div VarBase
        marked(m) == VarBase + (m % VarBase)
    IN  IF n1 = 0 THEN <<n>>
        ELSE IF n2 = 0 THEN <<marked(n), n1>>
        ELSE IF n3 = 0 THEN <<marked(n), marked(n1), n2>>
        ELSE <<marked(n), marked(n1), marked(n2), n3>>
\* It raises ValueError for more than four digits.
FitsVarlen(n) == ((n \div VarBase) \div VarBase) \div VarBase < VarBase

Short(n) == <<n \div (2 * VarBase), n % (2 * VarBase)>>
ShortAt(bytes, k) == bytes[k] * 2 * VarBase + bytes[k + 1]

\* _finalize_packet
Packet(byte, body) == <<byte>> \o Varlen(Len(body)) \o body
EncodePublish(topic, payload, qos, id) ==
    Packet(TypeByte(PublishType, qos),
           Short(Len(topic)) \o topic \o (IF qos > 0 THEN Short(id) ELSE <<>>) \o payload)
EncodePuback(id) == Packet(TypeByte(PubackType, 0), Short(id))

--------------------------------------------------------------------------------
(* topic_matches: 0 parts the levels of a topic, + and # are not bytes of one  *)

Slash == 0
Plus == <<-1>>
Hash == <<-2>>

\* topic.split("/"): level k lies between the k-1st slash and the next.
Levels(topic) ==
    LET slashes == {k \in DOMAIN topic : topic[k] = Slash}
        starts == {0} \cup slashes
        start(k) == CHOOSE i \in starts : Cardinality({j \in starts : j < i}) = k - 1
        end(i) == CHOOSE j \in slashes \cup {Len(topic) + 1} :
                      j > i /\ \A s \in slashes : s > i => j <= s
    IN  [k \in 1..Cardinality(starts) |-> SubSeq(topic, start(k) + 1, end(start(k)) - 1)]

\* The loop of topic_matches: whether it returns True from index k on.
MatchFrom(levels, pattern) ==
    LET from[k \in 1..(Len(pattern) + 1)] ==
          IF k > Len(pattern) THEN Len(pattern) = Len(levels)
          ELSE IF pattern[k] = Hash THEN k = Len(pattern)
          ELSE /\ k <= Len(levels)
               /\ pattern[k] = Plus \/ pattern[k] = levels[k]
               /\ from[k + 1]
    IN  from
TopicMatches(topic, pattern) == MatchFrom(Levels(topic), pattern)[1]

--------------------------------------------------------------------------------
(* The decoder: data is the buffer up to _buffer_length, offset the bytes of    *)
(* it that were consumed, drain what is left to throw away of a PUBLISH.       *)

NoDrain == [on |-> FALSE, left |-> 0, topic |-> <<>>, qos |-> 0, id |-> 0, length |-> 0]
NewDecoder == [data |-> <<>>, offset |-> 0, drain |-> NoDrain]

Available(d) == BufferSize - Len(d.data)
FillCapacity(d) ==
    IF d.drain.on /\ d.drain.left < Available(d) THEN d.drain.left ELSE Available(d)

\* Mutant: what is drained counts as received.
AdvanceStores(d, bytes) ==
    IF bytes = <<>> THEN d
    ELSE IF d.drain.on THEN [d EXCEPT !.drain.left = @ - Len(bytes), !.data = bytes]
    ELSE [d EXCEPT !.data = @ \o bytes]

Advance(d, bytes) ==
    IF bytes = <<>> THEN d
    ELSE IF d.drain.on THEN [d EXCEPT !.drain.left = @ - Len(bytes), !.data = <<>>]
    ELSE [d EXCEPT !.data = @ \o bytes]

Compact(d) == [d EXCEPT !.data = SubSeq(d.data, d.offset + 1, Len(d.data)), !.offset = 0]
\* Past half of the buffer the bytes consumed are given back.
Consume(d, n) ==
    LET e == [d EXCEPT !.offset = @ + n]
    IN  IF e.offset * 2 >= BufferSize THEN Compact(e) ELSE e

\* decode_varlen: <<value, bytes>>; <<0, 0>> while it is incomplete, and no
\* more than four bytes.
Malformed == <<0, -1>>
DecodeVarlen(bytes) ==
    LET last == SelectInSeq(bytes, LAMBDA b : b < VarBase)
        size == IF last = 0 THEN Len(bytes) ELSE last
        digit(k) == IF k <= size THEN bytes[k] % VarBase ELSE 0
    IN  CASE size > 4 \/ (size = 4 /\ last = 0) -> Malformed
          [] last = 0 /\ size < 4 -> <<0, 0>>
          [] OTHER -> <<digit(1) + VarBase * (digit(2) + VarBase * (digit(3) + VarBase * digit(4))),
                        size>>

\* What read_next() can return.
NoPacket == [is |-> "none"]
BadPacket == [is |-> "error"]
Published(topic, payload, qos, id) ==
    [is |-> "publish", topic |-> topic, payload |-> payload, qos |-> qos, id |-> id]
Oversized(topic, length, qos, id) ==
    [is |-> "oversized", topic |-> topic, length |-> length, qos |-> qos, id |-> id]
Ack(type, id, rest) == [is |-> "ack", type |-> type, id |-> id, rest |-> rest]

ParsePublish(qos, body) ==
    LET topicEnd == 2 + ShortAt(body, 1)
        start == IF qos > 0 THEN topicEnd + 2 ELSE topicEnd
    IN  IF Len(body) < 2 THEN BadPacket
        ELSE IF topicEnd > Len(body) \/ start > Len(body) THEN BadPacket
        ELSE Published(SubSeq(body, 3, topicEnd), SubSeq(body, start + 1, Len(body)), qos,
                       IF qos > 0 THEN ShortAt(body, topicEnd + 1) ELSE 0)
ParsePacket(byte, body) ==
    LET type == TypeOf(byte)
    IN  CASE type = PublishType -> ParsePublish(QosOf(byte), body)
          [] type = ConnackType /\ Len(body) = 2 -> Ack(type, 0, <<body[1] % 2, body[2]>>)
          [] type \in {PubackType, UnsubackType} /\ Len(body) = 2 -> Ack(type, ShortAt(body, 1), <<>>)
          [] type = SubackType /\ Len(body) >= 3 ->
               Ack(type, ShortAt(body, 1), SubSeq(body, 3, Len(body)))
          [] type = PingrespType -> Ack(type, 0, <<>>)
          [] OTHER -> BadPacket

\* _maybe_finish_oversized
FinishOversized(d) ==
    IF d.drain.left > 0 THEN <<d, NoPacket>>
    ELSE <<[d EXCEPT !.drain = NoDrain],
           Oversized(d.drain.topic, d.drain.length, d.drain.qos, d.drain.id)>>

EnterDrain(d, left, topic, qos, id, length) ==
    FinishOversized([data |-> <<>>, offset |-> 0,
        drain |-> [on |-> TRUE, left |-> left, topic |-> topic, qos |-> qos, id |-> id,
                   length |-> length]])

\* _enter_drain_path: the topic and packet id of a PUBLISH that does not fit are
\* kept if they do; until they are there the buffer fills up.
TopicLost == <<-3>>
EnterDrainPath(d, live, length, header) ==
    LET byte == live[1]
        total == header + length
        topicLength == ShortAt(live, header + 1)
        qos == QosOf(byte)
        prelude == header + 2 + topicLength + (IF qos > 0 THEN 2 ELSE 0)
        topicEnd == header + 2 + topicLength
    IN  CASE TypeOf(byte) # PublishType -> <<d, BadPacket>>
          [] TypeOf(byte) = PublishType /\ Len(live) < header + 2 -> <<d, NoPacket>>
          [] OTHER ->
               IF prelude > BufferSize
               THEN EnterDrain(d, total - Len(live), TopicLost, qos, 0, length)
               ELSE IF Len(live) < prelude THEN <<d, NoPacket>>
               ELSE EnterDrain(d, total - Len(live), SubSeq(live, header + 3, topicEnd), qos,
                               IF qos > 0 THEN ShortAt(live, topicEnd + 1) ELSE 0, length)

\* "Buffer full mid-packet: compact to reopen fill space"
MakeRoom(d) == IF Len(d.data) = BufferSize /\ d.offset > 0 THEN Compact(d) ELSE d

\* read_next: the decoder afterwards, and what it returns.
ReadNext(d) ==
    LET live == SubSeq(d.data, d.offset + 1, Len(d.data))
        varlen == DecodeVarlen(Tail(live))
        header == 1 + varlen[2]
        total == header + varlen[1]
    IN  CASE d.drain.on -> FinishOversized(d)
          [] ~d.drain.on /\ Len(live) < 2 -> <<d, NoPacket>>
          [] OTHER ->
               IF varlen = Malformed THEN <<d, BadPacket>>
               ELSE IF varlen[2] = 0 THEN <<d, NoPacket>>
               ELSE IF total > BufferSize THEN EnterDrainPath(d, live, varlen[1], header)
               ELSE IF Len(live) < total THEN <<MakeRoom(d), NoPacket>>
               ELSE LET packet == ParsePacket(live[1], SubSeq(live, header + 1, total))
                    IN  <<IF packet = BadPacket THEN d ELSE Consume(d, total), packet>>

--------------------------------------------------------------------------------
(* What a broker sends: PUBLISH packets and acknowledgements, each encoded, and   *)
(* last perhaps one that breaks the protocol: a packet the decoder must refuse     *)
(* ("junk"), or a length without end.  A feed has its bytes, what was sent and     *)
(* where each packet ends.                                                         *)

AckBody(s) ==
    CASE s.type = ConnackType -> s.rest
      [] s.type = PingrespType -> <<>>
      [] OTHER -> Short(s.id) \o s.rest
Encode(s) ==
    CASE s.is = "publish" -> EncodePublish(s.topic, s.payload, s.qos, s.id)
      [] s.is = "ack" -> Packet(TypeByte(s.type, 0), AckBody(s))
      [] s.is = "junk" -> Packet(s.byte, s.body)
      [] s.is = "endless" -> s.bytes

\* What precedes the payload in the body of a PUBLISH.
Prelude(topicLength, qos) == 2 + topicLength + (IF qos > 0 THEN 2 ELSE 0)

\* A PUBLISH of junk is not larger than the buffer: the body of one that is is not
\* looked at.
Ill(byte, body) ==
    LET type == TypeOf(byte)
    IN  \/ type \notin {ConnackType, PublishType, PubackType, SubackType, UnsubackType, PingrespType}
        \/ type \in {ConnackType, PubackType, UnsubackType} /\ Len(body) # 2
        \/ type = SubackType /\ Len(body) < 3
        \/ /\ type = PublishType /\ Len(Packet(byte, body)) <= BufferSize
           /\ Len(body) < 2 \/ Prelude(ShortAt(body, 1), QosOf(byte)) > Len(body)

Sendable(s) ==
    CASE s.is = "publish" ->
           /\ s = Published(s.topic, s.payload, s.qos, s.id)
           /\ s.topic \in Seq(Int) /\ s.payload \in Seq(Int) /\ s.qos \in 0..2 /\ s.id \in Nat
           /\ s.qos = 0 => s.id = 0
           /\ FitsVarlen(Prelude(Len(s.topic), s.qos) + Len(s.payload))
      [] s.is = "ack" ->
           /\ s = Ack(s.type, s.id, s.rest)
           /\ s.id \in Nat /\ s.rest \in Seq(Int) /\ FitsVarlen(Len(AckBody(s)))
           /\ \/ s.type = ConnackType /\ s.id = 0 /\ Len(s.rest) = 2 /\ s.rest[1] \in {0, 1}
              \/ s.type = PingrespType /\ s.id = 0 /\ s.rest = <<>>
              \/ s.type \in {PubackType, UnsubackType} /\ s.rest = <<>>
              \/ s.type = SubackType /\ s.rest # <<>>
      [] s.is = "junk" ->
           s.byte \in Int /\ s.body \in Seq(Int) /\ FitsVarlen(Len(s.body)) /\ Ill(s.byte, s.body)
      [] s.is = "endless" ->
           s.bytes \in Seq(Int) /\ Len(s.bytes) >= 5 /\ \A k \in 2..5 : s.bytes[k] >= VarBase
      [] OTHER -> FALSE

\* What the client has of it: a PUBLISH larger than the buffer is reported with what
\* fits of its topic and id.
Arrives(s) ==
    LET fits == Len(Encode(s)) <= BufferSize
        length == Prelude(Len(s.topic), s.qos) + Len(s.payload)
    IN  CASE s.is \in {"publish", "ack"} /\ fits -> s
          [] s.is = "publish" /\ ~fits ->
               IF Len(Encode(s)) - Len(s.payload) <= BufferSize
               THEN Oversized(s.topic, length, s.qos, s.id) ELSE Oversized(TopicLost, length, s.qos, 0)
          [] OTHER -> BadPacket

EndOf(f, k) == IF k = 0 THEN 0 ELSE f.ends[k]

ASSUME FeedsAssumption ==
    \A f \in Feeds :
        /\ f.bytes \in Seq(Int) /\ f.ends \in Seq(Nat) /\ DOMAIN f.sent = DOMAIN f.ends
        /\ EndOf(f, Len(f.ends)) = Len(f.bytes)
        /\ \A k \in DOMAIN f.ends :
              /\ EndOf(f, k - 1) <= f.ends[k] /\ f.ends[k] <= Len(f.bytes)
              /\ SubSeq(f.bytes, EndOf(f, k - 1) + 1, f.ends[k]) = Encode(f.sent[k])
              /\ Sendable(f.sent[k])
              /\ Arrives(f.sent[k]) = BadPacket => k = Len(f.ends)

--------------------------------------------------------------------------------
(* _read_inbound: one recv_into() a tick, then every packet that is there       *)

Routes(topic) == {f \in Filters : TopicMatches(topic, f)}

\* What an application has of a packet that routes messages with topic_matches.
Received(packet) ==
    IF packet.is = "publish" THEN [packet |-> packet, routes |-> Routes(packet.topic)]
    ELSE [packet |-> packet, routes |-> {}]

WireInit ==
    /\ feed \in Feeds
    /\ unread = feed.bytes
    /\ decoder = NewDecoder /\ reading = FALSE /\ dispatched = <<>>

Failed == dispatched # <<>> /\ dispatched[Len(dispatched)].packet = BadPacket
TickCapacity == IF FillCapacity(decoder) < TickBudget THEN FillCapacity(decoder) ELSE TickBudget

\* recv_into() fills some of the capacity, or nothing is there (EAGAIN).
ReadInbound(n) ==
    /\ ~reading /\ ~Failed
    /\ n <= Len(unread) /\ n <= TickCapacity
    /\ decoder' = Advance(decoder, SubSeq(unread, 1, n))
    /\ unread' = SubSeq(unread, n + 1, Len(unread))
    /\ reading' = TRUE
    /\ UNCHANGED <<feed, dispatched>>

\* Then each packet that is there is dispatched.
DispatchNext ==
    /\ reading
    /\ LET next == ReadNext(decoder)
       IN  /\ decoder' = next[1]
           /\ reading' = (next[2].is \notin {"none", "error"})
           /\ dispatched' = IF next[2].is = "none" THEN dispatched
                            ELSE Append(dispatched, Received(next[2]))
    /\ UNCHANGED <<feed, unread>>

WireNext == (\E n \in 0..TickBudget : ReadInbound(n)) \/ DispatchNext
WireSpec == WireInit /\ [][WireNext]_streamvars

--------------------------------------------------------------------------------
(* Properties                                                                  *)

\* The matching that MQTT 3.1.1 (4.7) defines.
Matching(levels, filter) ==
    LET n == Len(filter)
        open == n > 0 /\ filter[n] = Hash
        fixed == IF open THEN n - 1 ELSE n
    IN  /\ IF open THEN Len(levels) >= fixed ELSE Len(levels) = fixed
        /\ \A k \in 1..fixed : filter[k] # Hash /\ (filter[k] = Plus \/ filter[k] = levels[k])

AsSent(packet) ==
    [packet |-> packet,
     routes |-> IF packet.is = "publish"
                THEN {f \in Filters : Matching(Levels(packet.topic), f)} ELSE {}]

\* The packet under way is larger than the whole buffer.
TooLargeUnderWay ==
    /\ Len(dispatched) < Len(feed.ends)
    /\ EndOf(feed, Len(dispatched) + 1) - EndOf(feed, Len(dispatched)) > BufferSize

\* However the stream is cut and however the buffer fills up, the packets
\* dispatched are those the broker sent, in order and intact, an oversized
\* PUBLISH is reported with its length and, if it fits, its topic and id, each
\* message goes to the filters it matches, and a packet that fits is always given
\* the room it still needs (PacketDecoder, topic_matches).
PacketsAsSent ==
    LET expected == [k \in DOMAIN feed.ends |-> AsSent(Arrives(feed.sent[k]))]
    IN  /\ IsPrefix(dispatched, expected)
        /\ unread = <<>> /\ ~reading => dispatched = expected
        /\ unread # <<>> /\ ~reading /\ ~Failed /\ FillCapacity(decoder) = 0 => TooLargeUnderWay

\* "Buffer full mid-packet: compact to reopen fill space, else fill_capacity()
\* stays 0 and recv is never called again" (_wire.py:423): as long as there are
\* bytes to receive, the decoder is willing to receive some.
DecoderNeverStalls == unread # <<>> /\ ~reading /\ ~Failed => FillCapacity(decoder) > 0
================================================================================
