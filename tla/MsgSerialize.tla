---------------------------- MODULE MsgSerialize ----------------------------
(***************************************************************************)
(* The default serializer (port/serialize/serialize/msg_serialize.h) as    *)
(* functions on byte sequences.                                            *)
(*                                                                         *)
(* A type is a record with its kind, and what its elements or fields are.  *)
(* A value of a literal or a character is the sequence of its bytes, the   *)
(* least significant first; objects, strings, vectors and lists are        *)
(* sequences, sets are sets, maps are functions.  Sets of pointers are     *)
(* ordered by address: here they are the sequence in that order.           *)
(*                                                                         *)
(* A stream that is not good stays so, and nothing is written to it or     *)
(* read from it; which of its flags is set is left out.                    *)
(***************************************************************************)
EXTENDS Integers, SequencesExt, FiniteSets

CONSTANTS
    Null, Junk,             \* a null pointer; an object that was never assigned
    MAX_STRING_SIZE,        \* limits of a string and a container: 1024 and 64 in the code
    MAX_CONTAINER_SIZE,
    MAX_PARSE_STACK_DEPTH,  \* objects inside each other: 5 in the code
    CharCap,                \* size of the character arrays that strings are read into
    SizeMod,                \* sizes are numbers modulo this: 2^16 in the code
    Types,                  \* the types to be checked, in a sequence
    ValuesOf,               \* ValuesOf[i]: values of Types[i]
    Versions,               \* <<i, j>>: types i and j are versions of each other
    Damage                  \* what a damaged byte may be

ASSUME SerializeConstants ==
    /\ MAX_STRING_SIZE \in Nat \ {0} /\ MAX_CONTAINER_SIZE \in Nat \ {0} /\ MAX_PARSE_STACK_DEPTH \in Nat \ {0}
    /\ SizeMod \in Nat /\ SizeMod > MAX_STRING_SIZE /\ SizeMod > MAX_CONTAINER_SIZE
    /\ DOMAIN ValuesOf = DOMAIN Types /\ \A p \in Versions : {p[1], p[2]} \subseteq DOMAIN Types

Hosts == {"LE", "BE"}
WCHAR_SIZE == 2
WcharBytes == 4
Tag == [literal |-> 1, string |-> 8, wstring |-> 9, vector |-> 20, map |-> 21, list |-> 22, set |-> 23, object |-> 31]

(* A size, as uint16_t.                                                    *)
NumberOf(bytes) == (bytes[1] + 256 * bytes[2]) % SizeMod
TwoBytes(n) == LET size == n % SizeMod IN <<size % 256, size \div 256>>

(* A number in the memory of a host, and what is read from it.             *)
Memory(h, bytes) == IF h = "LE" THEN bytes ELSE Reverse(bytes)

-----------------------------------------------------------------------------
(* Writing.  A writer has what it has written, and whether it is good.     *)

Failed(s) == [s EXCEPT !.good = FALSE]

(* Bytes of memory go out as they are, or reversed on a big-endian host.   *)
write_internal(w, mem, no_swap) ==
    IF ~w.good THEN w
    ELSE [w EXCEPT !.buf = @ \o IF w.host = "LE" \/ no_swap THEN mem ELSE Reverse(mem)]

write_type(w, kind) == write_internal(w, <<Tag[kind]>>, FALSE)
WriteNumber(w, n) == write_internal(w, Memory(w.host, TwoBytes(n)), FALSE)
WriteFlag(w, b) == write_internal(w, <<IF b THEN 1 ELSE 0>>, FALSE)
WriteHeader(w, kind, n) == WriteNumber(write_type(w, kind), n)

RECURSIVE WriteValue(_, _, _)

(* Elements of a container have no type byte, unless they are objects.     *)
WriteLiteral(w, bytes, prependType) ==
    write_internal(IF prependType THEN write_type(w, "literal") ELSE w, Memory(w.host, bytes), FALSE)

WriteItem(w, T, v) == IF T.kind = "literal" THEN WriteLiteral(w, v, FALSE) ELSE WriteValue(w, T, v)

WriteString(w, s) ==
    IF Len(s) > MAX_STRING_SIZE THEN Failed(w) ELSE write_internal(WriteHeader(w, "string", Len(s)), s, TRUE)

(* The two low bytes of each character.                                    *)
WriteWString(w, s) ==
    LET low(c)  == LET offset == IF w.host = "LE" THEN 0 ELSE WcharBytes - WCHAR_SIZE
                   IN  SubSeq(Memory(w.host, c), offset + 1, offset + WCHAR_SIZE)
        put(x, c) == write_internal(x, low(c), FALSE)
    IN  IF Len(s) > MAX_STRING_SIZE THEN Failed(w) ELSE FoldLeft(put, WriteHeader(w, "wstring", Len(s)), s)

(* A character string includes its null character.  Its length is cut to a *)
(* size before it is checked, and checked after the header is written.     *)
WriteCString(w, s) ==
    LET size == (Len(s) + 1) % SizeMod
        x == WriteHeader(w, "string", size)
    IN  IF size > MAX_STRING_SIZE THEN Failed(x)
        ELSE write_internal(x, SubSeq(Append(s, 0), 1, size), TRUE)

(* The size of an object is its own two bytes and its fields: it is put in *)
(* place when they are written.  w is the stream before the object.        *)
Backfill(w, x) ==
    LET at == Len(w.buf) + 1
    IN  [x EXCEPT !.buf = SubSeq(@, 1, at) \o TwoBytes(Len(@) - at) \o SubSeq(@, at + 3, Len(@))]

WriteObject(w, T, v) ==
    LET fields == FoldLeft(LAMBDA x, i : WriteValue(x, T.fields[i], v[i]), WriteHeader(w, "object", 0),
                           [i \in DOMAIN T.fields |-> i])
    IN  IF fields.good THEN Backfill(w, fields) ELSE fields

(* Containers: all begin alike.                                            *)
WriteAll(w, kind, items, put(_, _)) ==
    IF Len(items) > MAX_CONTAINER_SIZE THEN Failed(w)
    ELSE FoldLeft(put, WriteHeader(w, kind, Len(items)), items)

WritePointer(w, T, v) == IF v = Null THEN WriteFlag(w, FALSE) ELSE WriteObject(WriteFlag(w, TRUE), T, v)

WriteBools(w, v) == WriteAll(w, "vector", v, LAMBDA x, b : WriteLiteral(x, b, TRUE))
WriteVector(w, T, v) == WriteAll(w, "vector", v, LAMBDA x, e : WriteItem(x, T.of, e))
WriteList(w, T, v)   == WriteAll(w, "list", v, LAMBDA x, e : WriteItem(x, T.of, e))
WriteSet(w, T, v)    == WriteAll(w, "set", SetToSeq(v), LAMBDA x, e : WriteItem(x, T.of, e))
WriteMap(w, T, v)    == WriteAll(w, "map", SetToSeq(DOMAIN v), LAMBDA x, k : WriteItem(WriteItem(x, T.key, k), T.of, v[k]))
WriteVectorOfPointers(w, T, v) == WriteAll(w, "vector", v, LAMBDA x, e : WritePointer(x, T.of, e))
WriteListOfPointers(w, T, v)   == WriteAll(w, "list", v, LAMBDA x, e : WritePointer(x, T.of, e))
WriteSetOfPointers(w, T, v)    == WriteAll(w, "set", v, LAMBDA x, e : WritePointer(x, T.of, e))
WriteMapOfPointers(w, T, v) ==
    WriteAll(w, "map", SetToSeq(DOMAIN v), LAMBDA x, k : WritePointer(WriteItem(x, T.key, k), T.of, v[k]))

WriteValue(w, T, v) ==
    CASE T.kind = "literal" -> WriteLiteral(w, v, TRUE)
      [] T.kind = "string"  -> WriteString(w, v)
      [] T.kind = "wstring" -> WriteWString(w, v)
      [] T.kind = "cstring" -> WriteCString(w, v)
      [] T.kind = "object"  -> WriteObject(w, T, v)
      [] T.kind = "bools"   -> WriteBools(w, v)
      [] T.kind = "vector"  -> WriteVector(w, T, v)
      [] T.kind = "list"    -> WriteList(w, T, v)
      [] T.kind = "set"     -> WriteSet(w, T, v)
      [] T.kind = "map"     -> WriteMap(w, T, v)
      [] T.kind = "vector*" -> WriteVectorOfPointers(w, T, v)
      [] T.kind = "list*"   -> WriteListOfPointers(w, T, v)
      [] T.kind = "set*"    -> WriteSetOfPointers(w, T, v)
      [] T.kind = "map*"    -> WriteMapOfPointers(w, T, v)

Writer(h) == [host |-> h, buf |-> <<>>, good |-> TRUE]

-----------------------------------------------------------------------------
(* Reading.  A reader has the bytes, how many it has taken, whether it is  *)
(* good, the positions at which it must stop, whether an assertion has     *)
(* ended the process, the value it has just read, and what a flag that was *)
(* never assigned is.                                                      *)

check_stop_parse(r) == r.stops # <<>> /\ r.good /\ r.pos >= Last(r.stops)
Idle(r) == ~r.good \/ check_stop_parse(r)

(* n bytes, as they are then in the memory of the host.                    *)
read_internal(r, n, no_swap) ==
    IF Idle(r) THEN [r EXCEPT !.val = Junk]
    ELSE IF r.pos + n > Len(r.buf) THEN [r EXCEPT !.good = FALSE, !.val = Junk]
    ELSE LET wire == SubSeq(r.buf, r.pos + 1, r.pos + n)
         IN  [r EXCEPT !.pos = @ + n, !.val = IF r.host = "LE" \/ no_swap THEN wire ELSE Reverse(wire)]

(* The type byte must be there and the right one.                          *)
read_type(r, kind) ==
    IF ~r.good \/ r.pos >= Len(r.buf) \/ r.buf[r.pos + 1] # Tag[kind] THEN Failed(r)
    ELSE read_internal(r, 1, FALSE)

(* A literal keeps what it was when nothing is read.                       *)
ReadBytes(r, n) ==
    LET x == read_internal(r, n, FALSE)
    IN  IF x.val = Junk THEN x ELSE [x EXCEPT !.val = Memory(r.host, @)]

ReadNumber(r) == LET x == ReadBytes(r, 2) IN [x EXCEPT !.val = IF @ = Junk THEN 0 ELSE NumberOf(@)]

(* A flag that is not read keeps what it was; a byte that is no bool may   *)
(* be either.                                                              *)
ReadFlag(r, was) ==
    LET x == ReadBytes(r, 1)
    IN  [x EXCEPT !.val = CASE @ = Junk -> was [] @ = <<0>> -> FALSE [] @ = <<1>> -> TRUE [] OTHER -> r.garbage]
ReadHeader(r, kind) == ReadNumber(read_type(r, kind))

RECURSIVE ReadValue(_, _)

ReadLiteral(r, n, readPrependedType) == ReadBytes(IF readPrependedType THEN read_type(r, "literal") ELSE r, n)

ReadItem(r, T) == IF T.kind = "literal" THEN ReadLiteral(r, T.width, FALSE) ELSE ReadValue(r, T)

ReadString(r) ==
    LET x == ReadHeader(r, "string")
    IN  IF ~x.good \/ x.val > MAX_STRING_SIZE THEN Failed([x EXCEPT !.val = <<>>])
        ELSE IF x.val = 0 THEN [x EXCEPT !.val = <<>>] ELSE read_internal(x, x.val, TRUE)

ReadWString(r) ==
    LET x == ReadHeader(r, "wstring")
        zeros(k) == [i \in 1..k |-> 0]
        high == zeros(WcharBytes - WCHAR_SIZE)
        char(y, i) == LET z == read_internal(y.r, WCHAR_SIZE, FALSE)
                          c == IF z.val = Junk THEN zeros(WcharBytes)
                               ELSE Memory(r.host, IF r.host = "LE" THEN z.val \o high ELSE high \o z.val)
                      IN  [r |-> z, s |-> Append(y.s, c)]
        all == FoldLeft(char, [r |-> x, s |-> <<>>], zeros(x.val))
    IN  IF ~x.good \/ x.val > MAX_STRING_SIZE THEN Failed([x EXCEPT !.val = <<>>]) ELSE [all.r EXCEPT !.val = all.s]

(* The null character comes with the string.                               *)
ReadCString(r) ==
    LET x == ReadHeader(r, "string")
        s == read_internal(x, x.val, TRUE)
    IN  IF ~x.good \/ x.val > MAX_STRING_SIZE \/ x.val > CharCap THEN Failed([x EXCEPT !.val = Junk])
        ELSE IF x.val = 0 THEN [x EXCEPT !.val = Junk]
        ELSE IF s.val = Junk THEN s ELSE [s EXCEPT !.val = Front(@)]

push_stop_parse_pos(r, pos) ==
    IF Len(r.stops) < MAX_PARSE_STACK_DEPTH THEN [r EXCEPT !.stops = Append(@, pos)] ELSE Failed([r EXCEPT !.ended = TRUE])
pop_stop_parse_pos(r) == IF r.ended THEN r ELSE [r EXCEPT !.stops = Front(@)]

(* Mutant: it is not. *)
SkipNothing(r, start, size) == r

(* What a later version has sent in addition is skipped.                   *)
SkipRest(r, start, size) ==
    LET end == r.pos + (size - ((r.pos - start) % SizeMod))
    IN  IF ~r.good \/ end <= r.pos THEN r
        ELSE IF end > Len(r.buf) THEN Failed(r) ELSE [r EXCEPT !.pos = end]

(* The fields of an object, read by its own read(): what is not there any  *)
(* more stays as it was.                                                   *)
ReadFields(r, T) ==
    LET field(y, i) == LET z == ReadValue(y.r, T.fields[i])
                       IN  [r |-> z, v |-> Append(y.v, IF check_stop_parse(y.r) THEN T.fields[i].default ELSE z.val)]
        all == FoldLeft(field, [r |-> r, v |-> <<>>], [i \in DOMAIN T.fields |-> i])
    IN  [all.r EXCEPT !.val = all.v]

ReadObject(r, T) ==
    LET tag == read_type(r, "object")
        x   == ReadNumber(tag)
        y   == ReadFields(push_stop_parse_pos(x, tag.pos + x.val), T)
    IN  IF ~tag.good THEN [tag EXCEPT !.val = Junk] ELSE SkipRest(pop_stop_parse_pos(y), tag.pos, x.val)

(* Containers: as many elements as the header says, whatever becomes of    *)
(* the stream.                                                             *)
ReadAll(r, kind, get(_)) ==
    LET x == ReadHeader(r, kind)
        item(y, i) == LET z == get(y.r) IN [r |-> z, s |-> Append(y.s, z.val)]
        all == FoldLeft(item, [r |-> x, s |-> <<>>], [i \in 1..x.val |-> i])
    IN  IF ~x.good \/ x.val > MAX_CONTAINER_SIZE THEN Failed([x EXCEPT !.val = <<>>]) ELSE [all.r EXCEPT !.val = all.s]

ReadObjectOrNull(x, T) == IF x.val THEN ReadValue(x, T) ELSE [x EXCEPT !.val = Null]
ReadPointer(r, T) == ReadObjectOrNull(ReadFlag(r, FALSE), T)

(* In a map the flag has no initial value.                                 *)
ReadMapPointer(r, T) == ReadObjectOrNull(ReadFlag(r, r.garbage), T)

(* A key and its value.                                                    *)
ReadEntry(r, T, get(_, _)) ==
    LET k == ReadItem(r, T.key)  v == get(k, T.of) IN [v EXCEPT !.val = <<k.val, @>>]

(* A later entry of the same key replaces an earlier one.                  *)
MapOf(entries) ==
    [k \in {entries[i][1] : i \in DOMAIN entries} |->
       LET i == CHOOSE i \in DOMAIN entries :
                  entries[i][1] = k /\ \A j \in DOMAIN entries : entries[j][1] = k => j <= i
       IN  entries[i][2]]

ReadBools(r)     == ReadAll(r, "vector", LAMBDA x : ReadLiteral(x, 1, TRUE))
ReadVector(r, T) == ReadAll(r, "vector", LAMBDA x : ReadItem(x, T.of))
ReadList(r, T)   == ReadAll(r, "list", LAMBDA x : ReadItem(x, T.of))
ReadSet(r, T)    == LET x == ReadAll(r, "set", LAMBDA y : ReadItem(y, T.of)) IN [x EXCEPT !.val = ToSet(@)]
ReadMap(r, T)    == LET x == ReadAll(r, "map", LAMBDA y : ReadEntry(y, T, ReadItem)) IN [x EXCEPT !.val = MapOf(@)]
ReadVectorOfPointers(r, T) == ReadAll(r, "vector", LAMBDA x : ReadPointer(x, T.of))
ReadListOfPointers(r, T)   == ReadAll(r, "list", LAMBDA x : ReadPointer(x, T.of))
ReadSetOfPointers(r, T)    == ReadAll(r, "set", LAMBDA x : ReadPointer(x, T.of))
ReadMapOfPointers(r, T)    ==
    LET x == ReadAll(r, "map", LAMBDA y : ReadEntry(y, T, ReadMapPointer)) IN [x EXCEPT !.val = MapOf(@)]

ReadValue(r, T) ==
    IF Idle(r) THEN [r EXCEPT !.val = Junk]
    ELSE CASE T.kind = "literal" -> ReadLiteral(r, T.width, TRUE)
           [] T.kind = "string"  -> ReadString(r)
           [] T.kind = "wstring" -> ReadWString(r)
           [] T.kind = "cstring" -> ReadCString(r)
           [] T.kind = "object"  -> ReadObject(r, T)
           [] T.kind = "bools"   -> ReadBools(r)
           [] T.kind = "vector"  -> ReadVector(r, T)
           [] T.kind = "list"    -> ReadList(r, T)
           [] T.kind = "set"     -> ReadSet(r, T)
           [] T.kind = "map"     -> ReadMap(r, T)
           [] T.kind = "vector*" -> ReadVectorOfPointers(r, T)
           [] T.kind = "list*"   -> ReadListOfPointers(r, T)
           [] T.kind = "set*"    -> ReadSetOfPointers(r, T)
           [] T.kind = "map*"    -> ReadMapOfPointers(r, T)

Reader(h, bytes, garbage) ==
    [host |-> h, buf |-> bytes, pos |-> 0, good |-> TRUE, stops |-> <<>>, ended |-> FALSE, val |-> Junk,
     garbage |-> garbage]

-----------------------------------------------------------------------------
(* What must hold.                                                         *)

Written(h, i, v)     == WriteValue(Writer(h), Types[i], v)
ReadFrom(h, b, i, g) == ReadValue(Reader(h, b, g), Types[i])

(* The limits that nobody checks when a value is written: the size of an   *)
(* object is cut to 16 bits, and so is the length of a C string before it  *)
(* is compared with the limit; a wide character loses its high bytes; the  *)
(* receiver's array may be too small for a string, and its stack of stop   *)
(* positions for objects inside each other (depth of them are open).       *)
RECURSIVE WithinLimits(_, _, _)
WithinLimits(T, v, depth) ==
    LET whole(S, x) == x = Null \/ WithinLimits(S, x, depth)
    IN  CASE T.kind = "object" ->
               /\ depth < MAX_PARSE_STACK_DEPTH
               /\ Len(WriteObject(Writer("LE"), T, v).buf) - 1 < SizeMod
               /\ \A k \in DOMAIN T.fields : WithinLimits(T.fields[k], v[k], depth + 1)
          [] T.kind = "cstring" -> Len(v) + 1 <= MAX_STRING_SIZE /\ Len(v) + 1 <= CharCap
          [] T.kind = "wstring" -> \A k \in DOMAIN v : \A b \in WCHAR_SIZE + 1..WcharBytes : v[k][b] = 0
          [] T.kind = "set" -> \A e \in v : whole(T.of, e)
          [] T.kind \in {"map", "map*"} -> \A k \in DOMAIN v : whole(T.key, k) /\ whole(T.of, v[k])
          [] T.kind \in {"vector", "list", "vector*", "list*", "set*"} -> \A k \in DOMAIN v : whole(T.of, v[k])
          [] OTHER -> TRUE

(* All of a stream has been read, and it was v.                            *)
IsRead(v, r) == r.good /\ r.val = v /\ r.pos = Len(r.buf) /\ r.stops = <<>>

(* What a host has written without an error, a host of either byte order   *)
(* reads back (msg_serialize.h:23, Endianness Handling), all of it and     *)
(* without an error: if it is within those limits, and only then.          *)
RoundTrip ==
    LET exact(w, within, i, v) ==
          w.good => \A h \in Hosts, garbage \in BOOLEAN : within <=> IsRead(v, ReadFrom(h, w.buf, i, garbage))
    IN  \A i \in DOMAIN Types, g \in Hosts : \A v \in ValuesOf[i] :
          exact(Written(g, i, v), WithinLimits(Types[i], v, 0), i, v)

(* A value as a receiver of another version should see it: what it knows   *)
(* of the fields, and the defaults of those that were not sent.            *)
RECURSIVE AsSeenBy(_, _, _)
AsSeenBy(S, T, v) ==
    CASE T.kind = "object" ->
           [k \in DOMAIN T.fields |->
              IF k \in DOMAIN S.fields THEN AsSeenBy(S.fields[k], T.fields[k], v[k]) ELSE T.fields[k].default]
      [] T.kind \in {"vector", "list"} -> [k \in DOMAIN v |-> AsSeenBy(S.of, T.of, v[k])]
      [] OTHER -> v

(* "If more data is received after parsing an object, the extra data is    *)
(* discarded.  If less data is received, the parsing of the extra data     *)
(* fields does not occur" (msg_serialize.h:145): also for objects in       *)
(* objects and in containers, and what follows is read as it was sent.     *)
VersionsAgree ==
    LET next(r, v)  == r.good /\ r.val = v /\ IsRead(<<7>>, ReadLiteral(r, 1, TRUE))
        agree(w, v, j) ==
          w.good => \A garbage \in BOOLEAN : next(ReadFrom("LE", WriteLiteral(w, <<7>>, TRUE).buf, j, garbage), v)
    IN  \A p \in Versions : \A v \in ValuesOf[p[1]] :
          WithinLimits(Types[p[1]], v, 0) => agree(Written("LE", p[1], v), AsSeenBy(Types[p[1]], Types[p[2]], v), p[2])

(* A message within the limits that ends too early never passes for a      *)
(* whole one.  Whatever the bytes are, no stop position is left behind to  *)
(* end the parsing of the next message, unless an assertion has ended the  *)
(* process.                                                                *)
DamageIsContained ==
    LET contained(r) == r.ended \/ r.stops = <<>>
        each(w, within, i) ==
          \A garbage \in BOOLEAN :
            /\ w.good /\ within =>
                 \A cut \in 0..Len(w.buf) - 1 : ~ReadFrom("LE", SubSeq(w.buf, 1, cut), i, garbage).good
            /\ \A k \in DOMAIN w.buf, x \in Damage : contained(ReadFrom("LE", [w.buf EXCEPT ![k] = x], i, garbage))
    IN  \A i \in DOMAIN Types : \A v \in ValuesOf[i] :
          each(Written("LE", i, v), WithinLimits(Types[i], v, 0), i)

(* What is read is what was written: between hosts, between versions, and  *)
(* never from a stream that was cut short.                                 *)
SerializerExact == RoundTrip /\ VersionsAgree /\ DamageIsContained
=============================================================================
