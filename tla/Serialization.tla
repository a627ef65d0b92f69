---------------------------- MODULE Serialization ----------------------------
(***************************************************************************)
(* Serializer and Deserializer (api/ext/serialization.hxx): values of      *)
(* nested C++ types to bytes and back.  The header composes the C          *)
(* functions for numbers, strings and sequence lengths; those write        *)
(* numbers little-endian and lengths in LEB128, with Base instead of 256   *)
(* values of a byte, and do not fail when they write.                      *)
(*                                                                         *)
(* A type is a record with its kind, its argument types (of) and a number  *)
(* (n): the bytes of an integer, the size of a std::array.  A float is an  *)
(* integer of its width; deque and span are vectors; unordered containers  *)
(* are like ordered ones, and the order of iteration is open for both.     *)
(***************************************************************************)
EXTENDS Integers, Sequences, FiniteSets, SequencesExt

CONSTANTS Base,      \* values of a byte
          Types,     \* the types that occur
          MaxLen,    \* bound on the elements of a container or string
          MaxItems,  \* bound on the values in one payload
          Foreign    \* payloads that were not made by a Serializer

ASSUME BaseEven == Base \in Nat /\ Base > 2 /\ Base % 2 = 0

Half == Base \div 2
Byte == 0..(Base - 1)

\* Types without a byte, for which no C function is called: empty tuples.
RECURSIVE Silent(_)
Silent(T) == T.kind = "tuple" /\ \A i \in DOMAIN T.of : Silent(T.of[i])

VARIABLES phase,   \* "writing", "payload", "reading" or "done"
          origin,  \* the payload is a "serializer"'s, "altered" or "foreign"
          items,   \* the values that were serialized, with their types
          buf,     \* the bytes
          pos,     \* bytes the Deserializer has consumed
          calls    \* the calls of deserialize, with their outcomes

vars == <<phase, origin, items, buf, pos, calls>>

-----------------------------------------------------------------------------
(* Serialization: the set of encodings of a value.                          *)

Concat(A, B) == {a \o b : a \in A, b \in B}

LittleEndian(v, w) == [i \in 1..w |-> (v \div Base^(i - 1)) % Base]

RECURSIVE Leb128(_)
Leb128(len) ==
    IF len < Half THEN <<len>> ELSE <<Half + (len % Half)>> \o Leb128(len \div Half)

RECURSIVE serialize_with_serializer(_, _)
RECURSIVE SerializeAll(_, _)

\* Values one after the other.
SerializeAll(ts, vs) ==
    IF vs = <<>> THEN {<<>>}
    ELSE Concat(serialize_with_serializer(Head(ts), Head(vs)), SerializeAll(Tail(ts), Tail(vs)))

serialize_arithmetic(T, v) ==
    {CASE T.kind = "bool" -> <<IF v THEN 1 ELSE 0>>
       [] T.kind \in {"uint", "int"} -> LittleEndian(v % Base^T.n, T.n)}

serialize_string(v) == {Leb128(Len(v)) \o v}

\* std::tuple and std::pair.
serialize_tuple(T, v) == SerializeAll(T.of, v)

\* The length and then the elements, in the order of iteration.
serialize_sequence(T, s) ==
    Concat({Leb128(Len(s))}, SerializeAll([i \in DOMAIN s |-> T], s))

Pair(T) == [kind |-> "tuple", of |-> T.of, n |-> 0]

serialize_with_serializer(T, v) ==
    CASE T.kind \in {"bool", "uint", "int"} -> serialize_arithmetic(T, v)
      [] T.kind = "string" -> serialize_string(v)
      [] T.kind = "tuple" -> serialize_tuple(T, v)
      [] T.kind \in {"vector", "array"} -> serialize_sequence(T.of[1], v)
      [] T.kind = "set" -> UNION {serialize_sequence(T.of[1], s) : s \in SetToSeqs(v)}
      [] T.kind = "map" ->
            UNION {serialize_sequence(Pair(T), s) :
                      s \in SetToSeqs({<<k, v[k]>> : k \in DOMAIN v})}

-----------------------------------------------------------------------------
(* Deserialization.  A result has the Boolean the function returns, FALSE    *)
(* also when it throws, the new position, *err and the value.  *err is       *)
(* "null" without an err pointer, "stale" before it is written.              *)

\* Mutant: a result code is only written when it is an error.
ResultCheck_ErrorsOnly(e, ok) == IF e = "null" \/ ok THEN e ELSE "error"

\* __ZENOH_RESULT_CHECK.
ResultCheck(e, ok) == IF e = "null" THEN e ELSE IF ok THEN "ok" ELSE "error"

\* What the C functions return that read a value and then make it from bytes.
Result(e, ok, p, new, v) ==
    [ok |-> ok, pos |-> IF ok THEN new ELSE p, err |-> ResultCheck(e, ok),
     val |-> IF ok THEN v ELSE "undefined"]

\* The number that bytes first..last of b stand for, digits to the given base.
Number(b, first, last, base) ==
    LET digit(i) == (b[i] % base) * base^(i - first)
    IN  FoldLeft(LAMBDA x, y : x + y, 0, [j \in 1..(last - first + 1) |-> digit(first + j - 1)])

\* Mutant: two's complement is read as an unsigned number.
FromBytes_Unsigned(T, x) == IF T.kind = "bool" THEN x = 1 ELSE x

FromBytes(T, x) ==
    CASE T.kind = "bool" -> x = 1
      [] T.kind = "uint" -> x
      [] T.kind = "int" -> IF x < Base^T.n \div 2 THEN x ELSE x - Base^T.n

deserialize_arithmetic(T, b, p, e) ==
    LET last == p + (IF T.kind = "bool" THEN 1 ELSE T.n)
        x == Number(b, p + 1, last, Base)
        ok == last <= Len(b) /\ (T.kind = "bool" => x < 2)
    IN  Result(e, ok, p, last, FromBytes(T, x))

deserialize_length(b, p, e) ==
    LET ends == {i \in (p + 1)..Len(b) : b[i] < Half}
        last == Min(ends)
    IN  Result(e, ends # {}, p, last, Number(b, p + 1, last, Half))

deserialize_string(b, p, e) ==
    LET len == deserialize_length(b, p, e)
        last == len.pos + len.val
    IN  Result(e, len.ok /\ last <= Len(b), p, last, SubSeq(b, len.pos + 1, last))

RECURSIVE deserialize_with_deserializer(_, _, _, _)
RECURSIVE DeserializeAll(_, _, _, _)

\* Values one after the other, after r; the first failure ends it.
DeserializeAll(ts, b, r, vs) ==
    IF ts = <<>> THEN [r EXCEPT !.val = vs]
    ELSE LET x == deserialize_with_deserializer(Head(ts), b, r.pos, r.err)
         IN  IF x.ok THEN DeserializeAll(Tail(ts), b, x, Append(vs, x.val)) ELSE x

\* std::tuple and std::pair; a tuple without elements touches nothing.
deserialize_tuple(T, b, p, e) ==
    DeserializeAll(T.of, b, [ok |-> TRUE, pos |-> p, err |-> e, val |-> <<>>], <<>>)

\* Mutant: a std::array takes a sequence of any length.
SizeFits_Any(T, len) == TRUE

\* Only a std::array has a size of its own.
SizeFits(T, len) == T.kind = "array" => len = T.n

Element(T) == IF T.kind = "map" THEN Pair(T) ELSE T.of[1]

\* push_back, or insert, which keeps the first of two equal keys.
Collect(T, s) ==
    CASE T.kind \in {"vector", "array"} -> s
      [] T.kind = "set" -> ToSet(s)
      [] T.kind = "map" -> [k \in {s[i][1] : i \in DOMAIN s} |->
                               s[Min({i \in DOMAIN s : s[i][1] = k})][2]]

deserialize_sequence(T, b, p, e) ==
    LET len == deserialize_length(b, p, e)
        all == DeserializeAll([i \in 1..len.val |-> Element(T)], b, len, <<>>)
    IN  IF ~len.ok THEN len
        ELSE IF ~SizeFits(T, len.val) THEN Result(len.err, FALSE, len.pos, len.pos, <<>>)
        ELSE IF all.ok THEN [all EXCEPT !.val = Collect(T, all.val)] ELSE all

deserialize_with_deserializer(T, b, p, e) ==
    CASE T.kind \in {"bool", "uint", "int"} -> deserialize_arithmetic(T, b, p, e)
      [] T.kind = "string" -> deserialize_string(b, p, e)
      [] T.kind = "tuple" -> deserialize_tuple(T, b, p, e)
      [] T.kind \in {"vector", "array", "set", "map"} -> deserialize_sequence(T, b, p, e)

\* Mutant: bytes that are left over are not noticed.
deserialize_whole_NotDone(T, b, e) == deserialize_with_deserializer(T, b, 0, e)

\* zenoh::ext::deserialize: everything must be consumed.
deserialize_whole(T, b, e) ==
    LET r == deserialize_with_deserializer(T, b, 0, e)
        good == IF e = "null" THEN r.ok ELSE r.err = "ok"
    IN  IF r.pos < Len(b) /\ good THEN Result(e, FALSE, r.pos, r.pos, r.val) ELSE r

-----------------------------------------------------------------------------
(* The application.                                                         *)

RECURSIVE Values(_)
RECURSIVE TupleValues(_)
TupleValues(ts) ==
    IF ts = <<>> THEN {<<>>}
    ELSE {<<v>> \o s : v \in Values(Head(ts)), s \in TupleValues(Tail(ts))}

\* The values of a type, up to MaxLen elements.
Values(T) ==
    LET Small(S) == {D \in SUBSET S : Cardinality(D) <= MaxLen} IN
    CASE T.kind = "bool" -> BOOLEAN
      [] T.kind = "uint" -> 0..(Base^T.n - 1)
      [] T.kind = "int" -> (-(Base^T.n \div 2))..(Base^T.n \div 2 - 1)
      [] T.kind = "string" -> SeqOf(Byte, MaxLen)
      [] T.kind = "tuple" -> TupleValues(T.of)
      [] T.kind = "vector" -> SeqOf(Values(T.of[1]), MaxLen)
      [] T.kind = "array" -> [1..T.n -> Values(T.of[1])]
      [] T.kind = "set" -> Small(Values(T.of[1]))
      [] T.kind = "map" ->
            UNION {[D -> Values(T.of[2])] : D \in Small(Values(T.of[1]))}

Init ==
    /\ phase = "writing" /\ origin = "serializer"
    /\ items = <<>> /\ buf = <<>> /\ pos = 0 /\ calls = <<>>

\* Serializer::serialize.
serialize(T, v) ==
    /\ phase = "writing" /\ Len(items) < MaxItems
    /\ items' = Append(items, [type |-> T, val |-> v])
    /\ \E bytes \in serialize_with_serializer(T, v) : buf' = buf \o bytes
    /\ UNCHANGED <<phase, origin, pos, calls>>

\* Serializer::finish.
finish ==
    /\ phase = "writing" /\ items # <<>>
    /\ phase' = "payload"
    /\ UNCHANGED <<origin, items, buf, pos, calls>>

\* The payload of one value arrives cut, or with a byte after it.
Altered ==
    /\ phase = "payload" /\ origin = "serializer" /\ Len(items) = 1
    /\ origin' = "altered"
    /\ \/ \E n \in 0..(Len(buf) - 1) : buf' = SubSeq(buf, 1, n)
       \/ \E x \in Byte : buf' = Append(buf, x)
    /\ UNCHANGED <<phase, items, pos, calls>>

\* The payload is somebody else's, and perhaps of another type.
Arrives ==
    /\ phase = "writing" /\ items = <<>>
    /\ phase' = "payload" /\ origin' = "foreign"
    /\ buf' \in Foreign
    /\ UNCHANGED <<items, pos, calls>>

\* The types the reader may ask for next: those of the writer, or any.
Expected ==
    IF origin = "foreign" THEN Types
    ELSE {items[i].type : i \in {Len(calls) + 1} \cap DOMAIN items}

\* Several values may also be read as one tuple.
ExpectedWhole ==
    IF Len(items) < 2 THEN Expected
    ELSE {[kind |-> "tuple", of |-> [i \in DOMAIN items |-> items[i].type], n |-> 0]}

Outcome(T, e, r) == [type |-> T, given |-> e, ok |-> r.ok, err |-> r.err, val |-> r.val]

\* The free function deserialize, with or without an err pointer.
Deserialize(T, e) ==
    /\ phase = "payload"
    /\ phase' = "done"
    /\ LET r == deserialize_whole(T, buf, e) IN
       /\ calls' = <<Outcome(T, e, r)>>
       /\ pos' = r.pos
    /\ UNCHANGED <<origin, items, buf>>

\* A Deserializer for the payload.
Deserializer ==
    /\ phase = "payload" /\ origin # "altered"
    /\ phase' = "reading"
    /\ UNCHANGED <<origin, items, buf, pos, calls>>

\* Deserializer::deserialize, until the first failure.
DeserializeNext(T, e) ==
    /\ phase = "reading" /\ Len(calls) < MaxItems
    /\ \A i \in DOMAIN calls : calls[i].ok
    /\ LET r == deserialize_with_deserializer(T, buf, pos, e) IN
       /\ calls' = Append(calls, Outcome(T, e, r))
       /\ pos' = r.pos
    /\ UNCHANGED <<phase, origin, items, buf>>

Next ==
    \/ \E T \in Types : \E v \in Values(T) : serialize(T, v)
    \/ finish \/ Altered \/ Arrives \/ Deserializer
    \/ \E e \in {"null", "stale"} :
          \/ \E T \in ExpectedWhole : Deserialize(T, e)
          \/ \E T \in Expected : DeserializeNext(T, e)

Spec == Init /\ [][Next]_vars

-----------------------------------------------------------------------------
(* Properties.                                                              *)

\* "Data produced by subsequent calls to Serializer::serialize can be read by
\* corresponding calls to Deserializer::deserialize in the same order (or
\* alternatively by a single call to deserialize into tuple of serialized
\* types)", and is_done is true after the last value.
RoundTrip ==
    origin = "serializer" =>
        /\ \A i \in DOMAIN calls :
              /\ calls[i].ok
              /\ calls[i].val = IF phase = "done" /\ Len(items) > 1
                                THEN [j \in DOMAIN items |-> items[j].val]
                                ELSE items[i].val
        /\ phase = "done" \/ (calls # <<>> /\ Len(calls) = Len(items)) => pos = Len(buf)

\* A payload that lost its end, or has bytes after it, is refused whatever its
\* type is: no encoding is the beginning of another.  (An empty std::tuple does
\* not write *err, so that a stale error hides the bytes after it.)
AlteredIsRefused ==
    origin = "altered" =>
        \A i \in DOMAIN calls :
            calls[i].ok => Silent(calls[i].type) /\ calls[i].given = "stale"

\* What deserialize makes of foreign bytes is a value of the type it was asked for,
\* which survives a second round trip.
OnlyRealValues ==
    \A i \in DOMAIN calls :
        calls[i].ok /\ origin = "foreign" =>
            /\ calls[i].val \in Values(calls[i].type)
            /\ \A b \in serialize_with_serializer(calls[i].type, calls[i].val) :
                  deserialize_whole(calls[i].type, b, "null").val = calls[i].val

\* *err, whatever it was before, says Z_OK exactly when the call succeeded, which
\* is exactly when it would not have thrown without the err pointer.  (Except
\* for the empty std::tuple.)
ErrTellsSuccess ==
    \A i \in DOMAIN calls :
        LET c == calls[i] IN
        c.given = "stale" /\ ~Silent(c.type) =>
            /\ c.err = IF c.ok THEN "ok" ELSE "error"
            /\ phase = "done" => c.ok = deserialize_whole(c.type, buf, "null").ok

==============================================================================
