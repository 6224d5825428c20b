------------------------------- MODULE Msgpack -------------------------------
(***************************************************************************)
(* The pure msgpack codec (msgpack/_pure.py) behind the key-value store,   *)
(* and what may become of packed bytes before they are read again: cut     *)
(* short, run on, a byte changed.                                          *)
(*                                                                         *)
(* A value is a record: its kind in `is`, its content in `of`.  A float is *)
(* the four bytes of the single it is stored as and whether it was exactly *)
(* that.                                                                   *)
(***************************************************************************)
EXTENDS Integers, Sequences, FiniteSets, SequencesExt

CONSTANTS
    PackedValues,       \* the values packed
    Damage,       \* the bytes a damaged one may turn into
    MAX_DEPTH     \* 8 in the source

VARIABLE packed   \* [value, bytes, data, done: what happened to the bytes]

Val(is, of) == [is |-> is, of |-> of]
Nil == Val("nil", 0)
Containers == {"array", "map"}

--------------------------------------------------------------------------------
(* Encoding                                                                  *)

\* Big endian, two's complement.
Wide(n, count) == [i \in 1 .. count |-> (n \div 256 ^ (count - i)) % 256]

IntBytes(n) ==
    CASE n \in 0 .. 127       -> <<n>>
      [] n \in -32 .. -1      -> <<n % 256>>
      [] n \in 128 .. 255     -> <<204, n>>
      [] n \in 256 .. 65535   -> <<205>> \o Wide(n, 2)
      [] n > 65535            -> <<206>> \o Wide(n, 4)
      [] n \in -128 .. -33    -> <<208, n % 256>>
      [] n \in -32768 .. -129 -> <<209>> \o Wide(n, 2)
      [] OTHER                -> <<210>> \o Wide(n, 4)

StrHeader(length) ==
    CASE length <= 31  -> <<160 + length>>
      [] length \in 32 .. 255 -> <<217, length>>
      [] OTHER -> <<218>> \o Wide(length, 2)

BinHeader(length) ==
    IF length <= 255 THEN <<196, length>> ELSE <<197>> \o Wide(length, 2)

\* An array's or a map's: the small form's first byte, the wide form's tag.
CountHeader(length, small, tag) ==
    IF length <= 15 THEN <<small + length>> ELSE <<tag>> \o Wide(length, 2)

\* A map is the sequence of its pairs; both lists flatten to their members.
Members(v) == IF v.is = "map" THEN FlattenSeq(v.of) ELSE v.of

RECURSIVE Encode(_)
Encode(v) ==
    LET items == FlattenSeq([i \in DOMAIN Members(v) |-> Encode(Members(v)[i])])
    IN  CASE v.is = "nil"   -> <<192>>
          [] v.is = "bool"  -> IF v.of THEN <<195>> ELSE <<194>>
          [] v.is = "int"   -> IntBytes(v.of)
          [] v.is = "float" -> <<202>> \o v.of.single
          [] v.is = "str"   -> StrHeader(Len(v.of)) \o v.of
          [] v.is = "bin"   -> BinHeader(Len(v.of)) \o v.of
          [] v.is = "array" -> CountHeader(Len(v.of), 144, 220) \o items
          [] v.is = "map"   -> CountHeader(Len(v.of), 128, 222) \o items

\* _encode raises for anything nested deeper, in whatever place of the value.
RECURSIVE Packable(_, _)
Packable(v, depth) ==
    /\ depth <= MAX_DEPTH
    /\ v.is \in Containers =>
          \A i \in DOMAIN Members(v) : Packable(Members(v)[i], depth + 1)

--------------------------------------------------------------------------------
(* Decoding                                                                  *)

Refusal == [ok |-> FALSE]
Read(v, next) == [ok |-> TRUE, value |-> v, next |-> next]

Unsigned(bytes) == FoldLeft(LAMBDA n, byte : n * 256 + byte, 0, bytes)
Signed(bytes) ==
    FoldLeft(LAMBDA n, byte : n * 256 + byte,
             IF bytes[1] >= 128 THEN bytes[1] - 256 ELSE bytes[1], Tail(bytes))

\* Mutant: the slice is taken as it comes.
TruncatesSilently(data, start, length) ==
    IF start > Len(data) + 1 THEN Len(data) + 2
    ELSE IF start + length > Len(data) + 1 THEN Len(data) + 1 ELSE start + length

\* Where a payload ends, one past the end of the data for one that does not fit.
BoundedEnd(data, start, length) ==
    IF start + length > Len(data) + 1 THEN Len(data) + 2 ELSE start + length

\* str() refuses what is no UTF-8.  The values' text is ASCII, and one damaged byte
\* among it never makes a longer character.
Utf8(bytes) == \A i \in DOMAIN bytes : bytes[i] < 128

Payload(data, is, start, length) ==
    LET end == BoundedEnd(data, start, length)
    IN  IF end > Len(data) + 1 \/ (is = "str" /\ ~Utf8(SubSeq(data, start, end - 1))) THEN Refusal
        ELSE Read(Val(is, SubSeq(data, start, end - 1)), end)

\* A fixed-width field read short raises, and unpackb makes that a refusal.
Short(data, at, count) == at + count - 1 > Len(data)
Number(data, at, count, signed) ==
    IF Short(data, at, count) THEN Refusal
    ELSE LET bytes == SubSeq(data, at, at + count - 1)
         IN  Read(Val("int", IF signed THEN Signed(bytes) ELSE Unsigned(bytes)), at + count)

\* The payload behind a length of `count` bytes.
Prefixed(data, is, at, count) ==
    IF Short(data, at, count) THEN Refusal
    ELSE Payload(data, is, at + count, Unsigned(SubSeq(data, at, at + count - 1)))

\* Python holds a bool and the int it equals for one key.
SameKey(a, b) ==
    LET plain(v) == IF v.is = "bool" THEN Val("int", IF v.of THEN 1 ELSE 0) ELSE v
    IN  plain(a) = plain(b)

Put(pairs, key, value) ==
    LET known == {i \in DOMAIN pairs : SameKey(pairs[i][1], key)}
    IN  IF known = {} THEN Append(pairs, <<key, value>>)
        ELSE [i \in DOMAIN pairs |-> IF i \in known THEN <<pairs[i][1], value>> ELSE pairs[i]]

RECURSIVE ReadValue(_, _, _), DecodeArray(_, _, _, _, _), DecodeMap(_, _, _, _, _)

\* `count` more elements from `at`, after those read.
DecodeArray(data, at, count, depth, items) ==
    IF count = 0 THEN Read(Val("array", items), at)
    ELSE LET item == ReadValue(data, at, depth + 1)
         IN  IF ~item.ok THEN Refusal
             ELSE DecodeArray(data, item.next, count - 1, depth, Append(items, item.value))

DecodeMap(data, at, count, depth, pairs) ==
    IF count = 0 THEN Read(Val("map", pairs), at)
    ELSE LET key   == ReadValue(data, at, depth + 1)
             value == IF key.ok THEN ReadValue(data, key.next, depth + 1) ELSE Refusal
         IN  IF ~value.ok \/ key.value.is \in Containers THEN Refusal
             ELSE DecodeMap(data, value.next, count - 1, depth, Put(pairs, key.value, value.value))

\* A count that the bytes left cannot hold is malformed before any is read.
Counted(data, is, at, count, depth) ==
    IF count * (IF is = "map" THEN 2 ELSE 1) > Len(data) - at + 1 THEN Refusal
    ELSE IF is = "map" THEN DecodeMap(data, at, count, depth, <<>>)
    ELSE DecodeArray(data, at, count, depth, <<>>)

WideCounted(data, is, at, depth) ==
    IF Short(data, at, 2) THEN Refusal
    ELSE Counted(data, is, at + 2, Unsigned(SubSeq(data, at, at + 1)), depth)

TooDeep(depth) == depth > MAX_DEPTH

ReadValue(data, at, depth) ==
    IF TooDeep(depth) \/ at > Len(data) THEN Refusal
    ELSE LET byte == data[at]
             next == at + 1
         IN  CASE byte <= 127            -> Read(Val("int", byte), next)
               [] byte \in 128 .. 143    -> Counted(data, "map", next, byte - 128, depth)
               [] byte \in 144 .. 159    -> Counted(data, "array", next, byte - 144, depth)
               [] byte \in 160 .. 191    -> Payload(data, "str", next, byte - 160)
               [] byte = 192             -> Read(Nil, next)
               [] byte \in {194, 195}    -> Read(Val("bool", byte = 195), next)
               [] byte \in {196, 197}    -> Prefixed(data, "bin", next, byte - 195)
               [] byte = 202             -> IF Short(data, next, 4) THEN Refusal
                                            ELSE Read(Val("float", [single |-> SubSeq(data, next, next + 3),
                                                                    exact |-> TRUE]), next + 4)
               [] byte \in {204, 205}    -> Number(data, next, byte - 203, FALSE)
               [] byte = 206             -> Number(data, next, 4, FALSE)
               [] byte \in {208, 209}    -> Number(data, next, byte - 207, TRUE)
               [] byte = 210             -> Number(data, next, 4, TRUE)
               [] byte \in {217, 218}    -> Prefixed(data, "str", next, byte - 216)
               [] byte = 220             -> WideCounted(data, "array", next, depth)
               [] byte = 222             -> WideCounted(data, "map", next, depth)
               [] byte >= 224            -> Read(Val("int", byte - 256), next)
               [] OTHER                  -> Refusal

Unpackb(data) ==
    LET whole == ReadValue(data, 1, 0)
    IN  IF whole.ok /\ whole.next = Len(data) + 1 THEN whole ELSE Refusal

--------------------------------------------------------------------------------
(* A value packed, stored and read again                                     *)

PackInit ==
    \E v \in PackedValues :
        /\ Packable(v, 0)
        /\ packed = [value |-> v, bytes |-> Encode(v), data |-> Encode(v), done |-> "kept"]

Truncate(length) ==
    /\ packed.done = "kept"
    /\ packed' = [packed EXCEPT !.data = SubSeq(packed.bytes, 1, length), !.done = "cut"]

RunOn(byte) ==
    /\ packed.done = "kept"
    /\ packed' = [packed EXCEPT !.data = Append(packed.bytes, byte), !.done = "longer"]

\* Bound: no integer at or above 2^31 is read, the model checker cannot count it.
Countable(i, byte) == packed.bytes[1] = 206 /\ i = 2 => byte < 128

Change(i, byte) ==
    /\ packed.done = "kept"
    /\ Countable(i, byte)
    /\ packed.bytes[i] # byte
    /\ packed' = [packed EXCEPT !.data[i] = byte, !.done = "changed"]

PackNext ==
    \/ \E length \in 0 .. (Len(packed.bytes) - 1) : Truncate(length)
    \/ \E byte \in Damage : RunOn(byte)
    \/ \E i \in DOMAIN packed.bytes, byte \in Damage : Change(i, byte)
--------------------------------------------------------------------------------
RECURSIVE Single(_)
\* The value as a reader can have it: floats rounded to their single.
Single(v) ==
    CASE v.is = "float" -> [v EXCEPT !.of.exact = TRUE]
      [] v.is = "array" -> [v EXCEPT !.of = [i \in DOMAIN v.of |-> Single(v.of[i])]]
      [] v.is = "map"   -> [v EXCEPT !.of = [i \in DOMAIN v.of |->
                                 <<Single(v.of[i][1]), Single(v.of[i][2])>>]]
      [] OTHER -> v

RECURSIVE KeysHashable(_)
\* A tuple may be a dict's key and is packed as an array, which is none.
KeysHashable(v) ==
    v.is \in Containers =>
        \A i \in DOMAIN Members(v) :
            KeysHashable(Members(v)[i]) /\ (v.is = "map" /\ i % 2 = 1 => Members(v)[i].is \notin Containers)

\* What packb accepts is read back whole, at every width and at the depth limit; the
\* same bytes cut short anywhere or run on by one are refused, never read as another
\* value; and what changed bytes are read as can itself be packed and read back, so
\* the decoder accepts nothing the encoder would not (msgpack/docs/guide.md:73).
PackedReadsBack ==
    LET read == Unpackb(packed.data)
    IN  CASE packed.done = "kept" ->
                IF KeysHashable(packed.value) THEN read.ok /\ read.value = Single(packed.value) ELSE ~read.ok
          [] packed.done \in {"cut", "longer"} -> ~read.ok
          [] packed.done = "changed" ->
                read.ok => Packable(read.value, 0) /\ Unpackb(Encode(read.value)).value = read.value

================================================================================
