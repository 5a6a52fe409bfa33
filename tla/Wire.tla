-------------------------------- MODULE Wire --------------------------------
(***************************************************************************)
(* Values that cross runtimes: the MessagePack of cross-runtime events     *)
(* (ald-serialization-compat, the event envelope of ald-protocol), the     *)
(* json and msgpack globals, backtick hashes and vectors of the Lua        *)
(* frontend (ald-cfxlua-compat).                                           *)
(*                                                                         *)
(* Bytes are numbers below 256, and an i64 is its eight bytes in two's     *)
(* complement, the highest first.  A float is the number its four or eight *)
(* bytes stand for; NaN and the infinities are left out.                   *)
(***************************************************************************)
EXTENDS Integers, Sequences, FiniteSets, SequencesExt

CONSTANTS WireInts,       \* integers an event carries, by their bytes
          WireLens,       \* lengths of strings, binaries and opaque payloads
          LuaInts,        \* integers a Lua table holds, by their bytes
          MaxSource,      \* bound: characters of a Lua source
          Significand     \* bits a float keeps; an f32 keeps 24

ASSUME WireAssumption ==
    /\ WireInts \cup LuaInts \subseteq [1..8 -> 0..255]
    /\ Significand \in Nat \ {0}

-----------------------------------------------------------------------------
(* Big-endian bytes.                                                       *)

to_be_bytes(n, width) ==
    [i \in 1..width |-> LET e == width - i IN
        IF e >= 4 THEN (IF n < 0 THEN 255 ELSE 0) ELSE (n \div (256 ^ e)) % 256]

from_be_bytes(b) == FoldLeft(LAMBDA acc, x : acc * 256 + x, 0, b)
Repeat(n, x) == [i \in 1..n |-> x]
I64(n) == to_be_bytes(n, 8)
Unsigned64(b) == Repeat(8 - Len(b), 0) \o b
Signed64(b) == Repeat(8 - Len(b), IF b[1] < 128 THEN 0 ELSE 255) \o b
AsByte(n) == n % 256
Signed8(x) == IF x < 128 THEN x ELSE x - 256
Low(q, width) == SubSeq(q, 9 - width, 8)

(* q is in the range of an unsigned, of a signed number of width bytes.    *)
InUnsigned(q, width) == q = Unsigned64(Low(q, width)) /\ q[1] < 128
InSigned(q, width) == q = Signed64(Low(q, width))

-----------------------------------------------------------------------------
(* Events.  A value is a record: t tells its variant, n a number, b bytes, *)
(* items the elements of an array or the keys and values of a map in turn. *)

VARIABLES event,          \* the value put into an envelope
          wide,           \* did another runtime write it
          payload,        \* its bytes, possibly cut short on the way
          cut,            \* were they
          unpacked        \* what cfx_data gave

wireVars == <<event, wide, payload, cut, unpacked>>

Value(t, n, b, items) == [t |-> t, n |-> n, b |-> b, items |-> items]
Nil == Value("Nil", 0, <<>>, <<>>)
NoValue == [ok |-> FALSE, pos |-> 0, val |-> Nil]
IntOf(q) == Value("Int", 0, q, <<>>)
BoolOf(n) == Value("Bool", n, <<>>, <<>>)
StrOf(b) == Value("Str", 0, b, <<>>)
BinOf(b) == Value("Bin", 0, b, <<>>)
FloatOf(b) == Value("Float", 0, b, <<>>)
ExtOf(tag, b) == Value("Ext", tag, b, <<>>)
VectorOf(tag, b) == Value("Vector", tag, b, <<>>)
ArrayOf(items) == Value("Array", 0, <<>>, items)
MapOf(items) == Value("Map", 0, <<>>, items)

(* VECTOR2, VECTOR3, VECTOR4 and QUATERNION with the bytes of their floats. *)
VectorBytes == [tag \in 20..23 |-> IF tag = 23 THEN 16 ELSE 4 * (tag - 18)]

(* All the bytes of the i64 go out for 16 and 32 bits.                     *)
write_int(q) ==
    IF q[1] < 128
    THEN CASE InUnsigned(q, 1) /\ q[8] <= 127                 -> Low(q, 1)
           [] InUnsigned(q, 1) /\ q[8] > 127                  -> <<204>> \o Low(q, 1)
           [] InUnsigned(q, 2) /\ ~InUnsigned(q, 1)           -> <<205>> \o q
           [] InUnsigned(q, 4) /\ ~InUnsigned(q, 2)           -> <<206>> \o q
           [] OTHER                                           -> <<207>> \o q
    ELSE CASE InSigned(q, 1) /\ q[8] >= 224                   -> Low(q, 1)
           [] InSigned(q, 1) /\ q[8] < 224                    -> <<208>> \o Low(q, 1)
           [] InSigned(q, 2) /\ ~InSigned(q, 1)               -> <<209>> \o Low(q, 2)
           [] InSigned(q, 4) /\ ~InSigned(q, 2)               -> <<210>> \o Low(q, 4)
           [] OTHER                                           -> <<211>> \o q

(* A length with its tag: in the tag, in one byte (not of arrays and maps), *)
(* in two, in four.                                                        *)
Header(n, fix, fixed, one, two, four) ==
    IF n < fixed THEN <<fix + n>>
    ELSE IF n <= 255 /\ one # 0 THEN <<one, n>>
    ELSE IF n <= 65535 THEN <<two>> \o to_be_bytes(n, 2)
    ELSE <<four>> \o to_be_bytes(n, 4)

write_str(b) == Header(Len(b), 160, 32, 217, 218, 219) \o b
write_bin(b) == Header(Len(b), 0, 0, 196, 197, 198) \o b
write_ext(tag, b) ==
    (CASE Len(b) = 1 -> <<212>> [] Len(b) = 2 -> <<213>> [] Len(b) = 4 -> <<214>>
       [] Len(b) = 8 -> <<215>> [] Len(b) = 16 -> <<216>>
       [] OTHER -> Header(Len(b), 0, 0, 199, 200, 201)) \o <<AsByte(tag)>> \o b
write_vector(tag, b) == <<199, Len(b), tag>> \o b

RECURSIVE write_value(_)
write_value(v) ==
    LET all == FlattenSeq([i \in DOMAIN v.items |-> write_value(v.items[i])]) IN
    CASE v.t = "Nil"    -> <<192>>
      [] v.t = "Bool"   -> <<194 + v.n>>
      [] v.t = "Int"    -> write_int(v.b)
      [] v.t = "Float"  -> <<203>> \o v.b
      [] v.t = "Str"    -> write_str(v.b)
      [] v.t = "Bin"    -> write_bin(v.b)
      [] v.t = "Ext"    -> write_ext(v.n, v.b)
      [] v.t = "Vector" -> write_vector(v.n, v.b)
      [] v.t = "Array"  -> Header(Len(v.items), 144, 16, 0, 220, 221) \o all
      [] v.t = "Map"    -> Header(Len(v.items) \div 2, 128, 16, 0, 222, 223) \o all

(* External: another runtime's encoder, which gives every number and every *)
(* length its widest form; the format allows any.                          *)
RECURSIVE write_wide(_)
write_wide(v) ==
    LET all == FlattenSeq([i \in DOMAIN v.items |-> write_wide(v.items[i])])
        Sized(tag, n) == <<tag>> \o to_be_bytes(n, 4)
    IN
    CASE v.t = "Int"    -> <<IF v.b[1] < 128 THEN 207 ELSE 211>> \o v.b
      [] v.t = "Float"  -> <<IF Len(v.b) = 4 THEN 202 ELSE 203>> \o v.b
      [] v.t = "Str"    -> Sized(219, Len(v.b)) \o v.b
      [] v.t = "Bin"    -> Sized(198, Len(v.b)) \o v.b
      [] v.t \in {"Ext", "Vector"} -> Sized(201, Len(v.b)) \o <<AsByte(v.n)>> \o v.b
      [] v.t = "Array"  -> Sized(221, Len(v.items)) \o all
      [] v.t = "Map"    -> Sized(223, Len(v.items) \div 2) \o all
      [] OTHER          -> write_value(v)

(* Cursor::take: the bytes from pos on, or nothing.                        *)
Fits(b, pos, n) == pos + n - 1 <= Len(b)
Taken(b, pos, n, val) == [ok |-> TRUE, pos |-> pos + n, val |-> val]
BytesAt(b, pos, n) == SubSeq(b, pos, pos + n - 1)

(* Mutant: a field that overruns the buffer is cut to it.                  *)
take_lenient(b, pos, n) ==
    LET have == IF Fits(b, pos, n) THEN n ELSE Len(b) + 1 - pos IN
    IF have = 0 /\ n > 0 THEN NoValue ELSE Taken(b, pos, have, BytesAt(b, pos, have))

take(b, pos, n) == IF Fits(b, pos, n) THEN Taken(b, pos, n, BytesAt(b, pos, n)) ELSE NoValue

(* What the bytes that were taken mean.                                    *)
As(r, Make(_)) == IF r.ok THEN [r EXCEPT !.val = Make(r.val)] ELSE NoValue

(* External: str::from_utf8.  After a first byte n more are due, the next  *)
(* of them from lo to hi.                                                  *)
Due(n, lo, hi) == [n |-> n, lo |-> lo, hi |-> hi]
Utf8Lead(x) ==
    CASE x <= 127                    -> Due(0, 0, 0)
      [] x \in 194..223              -> Due(1, 128, 191)
      [] x = 224                     -> Due(2, 160, 191)
      [] x \in (225..239) \ {237}    -> Due(2, 128, 191)
      [] x = 237                     -> Due(2, 128, 159)
      [] x = 240                     -> Due(3, 144, 191)
      [] x \in 241..243              -> Due(3, 128, 191)
      [] x = 244                     -> Due(3, 128, 143)
      [] OTHER                       -> Due(-1, 0, 0)
from_utf8(b) ==
    LET more(i) == i \in DOMAIN b /\ b[i] \in 128..191 IN
    /\ ~more(1)
    /\ \A i \in DOMAIN b : ~more(i) =>
           LET d == Utf8Lead(b[i]) IN
           /\ d.n >= 0 /\ ~more(i + d.n + 1)
           /\ \A k \in 1..d.n : more(i + k)
           /\ d.n > 0 => b[i + 1] \in d.lo..d.hi

(* Mutant: bytes that are no text pass for one.                            *)
read_str_unchecked(b, pos, n) == As(take(b, pos, n), StrOf)

read_str(b, pos, n) ==
    LET r == take(b, pos, n) IN IF r.ok /\ from_utf8(r.val) THEN As(r, StrOf) ELSE NoValue
read_bin(b, pos, n) == As(take(b, pos, n), BinOf)
read_float(b, pos, width) == As(take(b, pos, width), FloatOf)
read_unsigned(b, pos, width) == As(take(b, pos, width), LAMBDA x : IntOf(Unsigned64(x)))
read_signed(b, pos, width) == As(take(b, pos, width), LAMBDA x : IntOf(Signed64(x)))

read_ext(b, pos, n) ==
    IF ~Fits(b, pos, 1) THEN NoValue
    ELSE LET tag == Signed8(b[pos]) IN
         As(take(b, pos + 1, n), LAMBDA x :
            IF tag \in 20..23 /\ n = VectorBytes[tag] THEN VectorOf(tag, x) ELSE ExtOf(tag, x))

(* The length in the width bytes at pos, then what it counts.  A length of *)
(* 2^24 and more overruns every payload here.                              *)
Counted(b, pos, width, Then(_, _)) ==
    IF ~Fits(b, pos, width) \/ (width = 4 /\ b[pos] # 0) THEN NoValue
    ELSE Then(pos + width, from_be_bytes(BytesAt(b, pos, width)))

RECURSIVE read_value(_, _), read_items(_, _, _, _)
read_items(b, pos, n, items) ==
    IF n = 0 THEN [ok |-> TRUE, pos |-> pos, val |-> ArrayOf(items)]
    ELSE LET r == read_value(b, pos) IN
         IF ~r.ok THEN NoValue ELSE read_items(b, r.pos, n - 1, Append(items, r.val))

read_array(b, pos, n) == read_items(b, pos, n, <<>>)
read_map(b, pos, n) ==
    LET r == read_items(b, pos, 2 * n, <<>>) IN
    IF r.ok THEN [r EXCEPT !.val = MapOf(r.val.items)] ELSE NoValue

read_value(b, pos) ==
    IF ~Fits(b, pos, 1) THEN NoValue
    ELSE LET tag == b[pos]
             Str(p, n) == read_str(b, p, n)
             Bin(p, n) == read_bin(b, p, n)
             Ext(p, n) == read_ext(b, p, n)
             Arr(p, n) == read_array(b, p, n)
             Map(p, n) == read_map(b, p, n)
             One(val) == Taken(b, pos, 1, val)
         IN CASE tag <= 127         -> One(IntOf(I64(tag)))
              [] tag \in 128..143   -> Map(pos + 1, tag - 128)
              [] tag \in 144..159   -> Arr(pos + 1, tag - 144)
              [] tag \in 160..191   -> Str(pos + 1, tag - 160)
              [] tag = 192          -> One(Nil)
              [] tag \in {194, 195} -> One(BoolOf(tag - 194))
              [] tag \in 196..198   -> Counted(b, pos + 1, 2 ^ (tag - 196), Bin)
              [] tag \in 199..201   -> Counted(b, pos + 1, 2 ^ (tag - 199), Ext)
              [] tag \in {202, 203} -> read_float(b, pos + 1, 4 * (tag - 201))
              [] tag \in 204..207   -> read_unsigned(b, pos + 1, 2 ^ (tag - 204))
              [] tag \in 208..211   -> read_signed(b, pos + 1, 2 ^ (tag - 208))
              [] tag \in 212..216   -> Ext(pos + 1, 2 ^ (tag - 212))
              [] tag \in 217..219   -> Counted(b, pos + 1, 2 ^ (tag - 217), Str)
              [] tag \in {220, 221} -> Counted(b, pos + 1, 2 * (tag - 219), Arr)
              [] tag \in {222, 223} -> Counted(b, pos + 1, 2 * (tag - 221), Map)
              [] tag >= 224         -> One(IntOf(I64(tag - 256)))
              [] OTHER              -> NoValue

Scalars(ints) ==
    {Nil, BoolOf(0), BoolOf(1), FloatOf(<<63, 248, 0, 0, 0, 0, 0, 0>>)}
    \cup {IntOf(q) : q \in ints} \cup {StrOf(<<195, 169>>)}
    \cup {StrOf(Repeat(n, 97)) : n \in WireLens} \cup {BinOf(Repeat(n, 192)) : n \in WireLens}
    \cup {ExtOf(10, Repeat(n, 204)) : n \in WireLens} \cup {ExtOf(-1, <<204>>)}
    \cup {VectorOf(tag, Repeat(VectorBytes[tag], 7)) : tag \in 20..23}
Small(ints) == {v \in Scalars(ints) : Len(v.b) <= 8}
Values(ints) ==
    LET some == Small(ints) IN
    Scalars(ints) \cup {ArrayOf(<<>>), MapOf(<<>>)}
    \cup {ArrayOf(<<x, y>>) : x \in some, y \in some}
    \cup {MapOf(<<StrOf(<<107>>), x, StrOf(<<108>>), y>>) : x \in some, y \in some}
    \cup {ArrayOf(Repeat(16, x)) : x \in some} \cup {ArrayOf(<<ArrayOf(<<x>>), x>>) : x \in some}

(* The integers write_int gives as many bytes as read_value takes: all but *)
(* those from 256 to 2^32 - 1.                                             *)
WireValues == Values(WireInts)
SoundInts == {q \in WireInts : InUnsigned(q, 4) => InUnsigned(q, 1)}
SoundValues == Values(SoundInts)

(* What another runtime may send: floats of 32 bits, and strings that are  *)
(* not UTF-8.                                                              *)
ForeignValues ==
    LET some == Scalars(WireInts)
                \cup {FloatOf(<<63, 192, 0, 0>>), StrOf(<<195>>), StrOf(<<237, 160, 128>>)}
    IN  some \cup {ArrayOf(<<x, Nil>>) : x \in some} \cup {MapOf(<<StrOf(<<107>>), x>>) : x \in some}

WireInit == event = Nil /\ wide = FALSE /\ payload = <<>> /\ cut = FALSE /\ unpacked = NoValue

with_cfx ==
    /\ payload = <<>>
    /\ event' \in WireValues /\ payload' = write_value(event')
    /\ UNCHANGED <<wide, cut, unpacked>>

(* External: an event from another runtime.                                *)
foreign_event ==
    /\ payload = <<>>
    /\ event' \in ForeignValues /\ payload' = write_wide(event')
    /\ wide' = TRUE
    /\ UNCHANGED <<cut, unpacked>>

(* External: the payload is cut short.                                     *)
cut_short ==
    /\ payload # <<>> /\ ~cut /\ unpacked = NoValue /\ (wide \/ event \in SoundValues)
    /\ \E n \in 1..(Len(payload) - 1) : payload' = SubSeq(payload, 1, n)
    /\ cut' = TRUE
    /\ UNCHANGED <<event, wide, unpacked>>

cfx_data ==
    /\ payload # <<>> /\ unpacked.pos = 0
    /\ unpacked' = [read_value(payload, 1) EXCEPT !.pos = 1]
    /\ UNCHANGED <<event, wide, payload, cut>>

WireNext == with_cfx \/ foreign_event \/ cut_short \/ cfx_data

RECURSIVE IsText(_)
IsText(v) == (v.t = "Str" => from_utf8(v.b)) /\ \A i \in DOMAIN v.items : IsText(v.items[i])

(* Every value, but for the integers from 256 to 2^32 - 1 of this encoder, *)
(* arrives as it was sent, at all the boundaries between the forms of an   *)
(* integer and of a length, nested or not, in the narrowest forms and in   *)
(* the widest; a string that is no text is refused, and no part of a value *)
(* that is not the whole is taken for one.                                 *)
EventsSurvive ==
    unpacked.pos = 1 /\ (wide \/ event \in SoundValues) =>
        IF cut \/ ~IsText(event) THEN ~unpacked.ok ELSE unpacked.ok /\ unpacked.val = event

(* Claimed of the encoder: it is written against the MessagePack           *)
(* specification and picks the narrowest representation of an integer.     *)
(* From 256 on the tag of 16 or 32 bits is followed by 64.                 *)
IntegersSurvive == unpacked.pos = 1 /\ ~wide /\ ~cut => unpacked.ok /\ unpacked.val = event

-----------------------------------------------------------------------------
(* msgpack.pack and msgpack.unpack of Lua tables, through json.  A key is  *)
(* an index or a name of one byte; a table holds scalars.                  *)

VARIABLES luaTable,       \* [keys -> scalars]
          luaStage,       \* "none", "table", "json", "packed", "unpacked";
                          \* of another runtime's bytes "foreign", "received"
          luaJson,        \* the json value on the way out
          luaBytes,
          luaBack         \* the table that came back, or that none did

luaVars == <<luaTable, luaStage, luaJson, luaBytes, luaBack>>

Index(i) == [k |-> "index", n |-> i]
Name(c) == [k |-> "name", n |-> c]
LuaKeys == {Index(i) : i \in 0..3} \cup {Name(107)}
NoTable == [k \in {} |-> Nil]
NoBack == [ok |-> FALSE, t |-> NoTable]
NoText == StrOf(<<195>>)
ShortScalars == {IntOf(q) : q \in {p \in LuaInts : InUnsigned(p, 2)}} \cup {BoolOf(0), StrOf(<<97>>)}
LuaScalars ==
    ShortScalars \cup {IntOf(q) : q \in LuaInts} \cup {FloatOf(<<63, 248, 0, 0, 0, 0, 0, 0>>), NoText}
    \cup {StrOf(Repeat(n, 97)) : n \in {31, 32, 255, 256}}

(* Up to three entries; or 15 or 16, about the end of the short form.      *)
LuaTables ==
    UNION {[keys -> IF Cardinality(keys) < 3 THEN LuaScalars ELSE ShortScalars] :
               keys \in {k \in SUBSET LuaKeys : Cardinality(k) <= 3}}
    \cup {[i \in {Index(j) : j \in 1..n} |-> x] : n \in {15, 16}, x \in LuaScalars}
    \cup {[i \in {Name(96 + j) : j \in 1..n} |-> x] : n \in {15, 16}, x \in LuaScalars}

(* The text of a key of an object.                                         *)
KeyText(key) == IF key.k = "name" THEN key.n ELSE 48 + key.n

(* Indices from 1 on make an array with nulls in the gaps, anything else   *)
(* an object ordered by its keys.                                          *)
lua_value_to_json(t) ==
    IF DOMAIN t # {} /\ \A key \in DOMAIN t : key.k = "index" /\ key.n >= 1
    THEN LET last == CHOOSE i \in 1..16 : Index(i) \in DOMAIN t /\ \A key \in DOMAIN t : key.n <= i
         IN  ArrayOf([i \in 1..last |-> IF Index(i) \in DOMAIN t THEN t[Index(i)] ELSE Nil])
    ELSE LET before(key) == {x \in DOMAIN t : KeyText(x) < KeyText(key)}
             keys == [i \in 1..Cardinality(DOMAIN t) |-> CHOOSE key \in DOMAIN t : Cardinality(before(key)) = i - 1]
         IN  MapOf(FlattenSeq([i \in DOMAIN keys |-> <<StrOf(<<KeyText(keys[i])>>), t[keys[i]]>>]))

(* A null does not set its place; of two entries of a key the later counts. *)
json_to_lua_value(j) ==
    IF j.t = "Array"
    THEN [key \in {Index(i) : i \in {x \in DOMAIN j.items : j.items[x] # Nil}} |-> j.items[key.n]]
    ELSE LET keyed(c) == {i \in DOMAIN j.items : i % 2 = 1 /\ j.items[i].b = <<c>>}
             of(c) == j.items[1 + CHOOSE i \in keyed(c) : \A x \in keyed(c) : x <= i]
             names == {c \in {j.items[i].b[1] : i \in {x \in DOMAIN j.items : x % 2 = 1}} : of(c) # Nil}
         IN  [key \in {Name(c) : c \in names} |-> of(key.n)]

(* Integers beyond 16 bits, and below -128, lose their upper bits.         *)
bridge_write_int(q) ==
    CASE InUnsigned(q, 1) /\ q[8] <= 127  -> Low(q, 1)
      [] InSigned(q, 1) /\ q[8] >= 224    -> Low(q, 1)
      [] InUnsigned(q, 1) /\ q[8] > 127   -> <<204>> \o Low(q, 1)
      [] q[1] < 128 /\ ~InUnsigned(q, 1)  -> <<205>> \o Low(q, 2)
      [] OTHER                            -> <<208>> \o Low(q, 1)

(* As Header, with no form beyond two bytes.                               *)
bridge_header(n, fix, fixed, one, two) ==
    IF n < fixed THEN <<fix + n>>
    ELSE IF n <= 255 /\ one # 0 THEN <<one, n>> ELSE <<two>> \o to_be_bytes(n, 2)

RECURSIVE bridge_write(_)
bridge_write(j) ==
    LET all == FlattenSeq([i \in DOMAIN j.items |-> bridge_write(j.items[i])]) IN
    CASE j.t = "Nil"   -> <<192>>
      [] j.t = "Bool"  -> <<194 + j.n>>
      [] j.t = "Int"   -> bridge_write_int(j.b)
      [] j.t = "Float" -> <<203>> \o j.b
      [] j.t = "Str"   -> bridge_header(Len(j.b), 160, 32, 217, 218) \o j.b
      [] j.t = "Array" -> bridge_header(Len(j.items), 144, 16, 0, 220) \o all
      [] j.t = "Map"   -> bridge_header(Len(j.items) \div 2, 128, 16, 0, 222) \o all

bridge_read_i8(b, pos) == read_signed(b, pos, 1)

(* A u64 that is no i64 stays a number of its own.                         *)
bridge_read_u64(b, pos) ==
    As(take(b, pos, 8), LAMBDA x : IF x[1] < 128 THEN IntOf(x) ELSE Value("Unsigned", 0, x, <<>>))

RECURSIVE bridge_read(_, _), bridge_read_arr(_, _, _, _)
bridge_read_arr(b, pos, n, items) ==
    IF n = 0 THEN [ok |-> TRUE, pos |-> pos, val |-> ArrayOf(items)]
    ELSE LET r == bridge_read(b, pos) IN
         IF ~r.ok THEN NoValue ELSE bridge_read_arr(b, r.pos, n - 1, Append(items, r.val))

(* A key is a string or a number.                                          *)
bridge_read_map(b, pos, n) ==
    LET r == bridge_read_arr(b, pos, 2 * n, <<>>) IN
    IF r.ok /\ \A i \in DOMAIN r.val.items :
                   i % 2 = 1 => r.val.items[i].t \in {"Str", "Int", "Float", "Unsigned"}
    THEN [r EXCEPT !.val = MapOf(r.val.items)] ELSE NoValue

(* The byte after the tag 0xcc is looked at and not passed.                *)
bridge_read(b, pos) ==
    IF ~Fits(b, pos, 1) THEN NoValue
    ELSE LET tag == b[pos]
             Str(p, n) == read_str(b, p, n)
             Arr(p, n) == bridge_read_arr(b, p, n, <<>>)
             Map(p, n) == bridge_read_map(b, p, n)
             One(val) == Taken(b, pos, 1, val)
         IN CASE tag <= 127         -> One(IntOf(I64(tag)))
              [] tag \in 128..143   -> Map(pos + 1, tag - 128)
              [] tag \in 144..159   -> Arr(pos + 1, tag - 144)
              [] tag \in 160..191   -> Str(pos + 1, tag - 160)
              [] tag = 192          -> One(Nil)
              [] tag \in {194, 195} -> One(BoolOf(tag - 194))
              [] tag \in {202, 203} -> read_float(b, pos + 1, 4 * (tag - 201))
              [] tag = 204          -> IF Fits(b, pos + 1, 1) THEN One(IntOf(I64(b[pos + 1]))) ELSE NoValue
              [] tag \in {205, 206} -> read_unsigned(b, pos + 1, 2 * (tag - 204))
              [] tag = 207          -> bridge_read_u64(b, pos + 1)
              [] tag = 208          -> bridge_read_i8(b, pos + 1)
              [] tag \in 209..211   -> read_signed(b, pos + 1, 2 ^ (tag - 208))
              [] tag \in 217..219   -> Counted(b, pos + 1, 2 ^ (tag - 217), Str)
              [] tag \in {220, 221} -> Counted(b, pos + 1, 2 * (tag - 219), Arr)
              [] tag \in {222, 223} -> Counted(b, pos + 1, 2 * (tag - 221), Map)
              [] tag >= 224         -> One(IntOf(I64(tag - 256)))
              [] OTHER              -> NoValue

LuaInit ==
    /\ luaTable = NoTable /\ luaStage = "none" /\ luaJson = Nil
    /\ luaBytes = <<>> /\ luaBack = NoBack

(* External: a script builds a table.                                      *)
build_table ==
    /\ luaStage = "none"
    /\ luaTable' \in LuaTables
    /\ luaStage' = "table"
    /\ UNCHANGED <<luaJson, luaBytes, luaBack>>

(* External: another runtime packs a table, in the widest forms.           *)
foreign_pack ==
    /\ luaStage = "none"
    /\ luaTable' \in LuaTables
    /\ luaBytes' = write_wide(lua_value_to_json(luaTable'))
    /\ luaStage' = "foreign"
    /\ UNCHANGED <<luaJson, luaBack>>

(* A string that is not UTF-8 ends the call with an error.                 *)
json_encode ==
    /\ luaStage = "table"
    /\ LET j == lua_value_to_json(luaTable) IN
       IF IsText(j) THEN luaJson' = j /\ luaStage' = "json"
       ELSE luaStage' = "unpacked" /\ UNCHANGED luaJson
    /\ UNCHANGED <<luaTable, luaBytes, luaBack>>

json_to_msgpack ==
    /\ luaStage = "json"
    /\ luaBytes' = bridge_write(luaJson)
    /\ luaStage' = "packed"
    /\ UNCHANGED <<luaTable, luaJson, luaBack>>

(* Keys misread as something else than a name of one byte are not told     *)
(* apart from a failure.                                                   *)
msgpack_to_lua ==
    /\ luaStage \in {"packed", "foreign"}
    /\ LET r == bridge_read(luaBytes, 1)
           named == r.ok /\ (r.val.t = "Array" \/ \A i \in DOMAIN r.val.items :
                                 i % 2 = 1 => r.val.items[i].t = "Str" /\ Len(r.val.items[i].b) = 1)
       IN luaBack' = IF named THEN [ok |-> TRUE, t |-> json_to_lua_value(r.val)] ELSE NoBack
    /\ luaStage' = IF luaStage = "packed" THEN "unpacked" ELSE "received"
    /\ UNCHANGED <<luaTable, luaJson, luaBytes>>

LuaNext == build_table \/ foreign_pack \/ json_encode \/ json_to_msgpack \/ msgpack_to_lua

(* The integers bridge_write_int keeps: from -128 to 127, 256 to 65535.    *)
KeptInt(q) == InSigned(q, 1) \/ (InUnsigned(q, 2) /\ ~InUnsigned(q, 1))

(* A list, or a table with names for keys, comes back as it was, gaps in   *)
(* the list included: from another runtime always, from msgpack.pack when  *)
(* its integers keep their bytes.  A string that is no text is refused.    *)
TablesSurvive ==
    (/\ luaStage \in {"unpacked", "received"}
     /\ \/ \A key \in DOMAIN luaTable : key.k = "index" /\ key.n >= 1
        \/ \A key \in DOMAIN luaTable : key.k = "name"
     /\ luaStage = "unpacked" =>
           \A key \in DOMAIN luaTable : luaTable[key].t = "Int" => KeptInt(luaTable[key].b))
    => IF \E key \in DOMAIN luaTable : luaTable[key] = NoText THEN ~luaBack.ok
       ELSE luaBack.ok /\ luaBack.t = luaTable

-----------------------------------------------------------------------------
(* rewrite_backticks over a source of backticks, quotes, letters and       *)
(* blanks: one step per character taken.                                   *)

VARIABLES source,         \* the characters
          at,             \* how many are taken
          rewritten,      \* pieces: a character, or a name that was hashed
          opened          \* where the name being read started, 0 if none

backtickVars == <<source, at, rewritten, opened>>

Tick == "tick"
Chars == {Tick, "quote", "a", "blank"}
BacktickInit == source = <<>> /\ at = 0 /\ rewritten = <<>> /\ opened = 0

(* External: a script of some length.                                      *)
write_source ==
    /\ source = <<>>
    /\ source' \in UNION {[1..n -> Chars] : n \in 1..MaxSource}
    /\ UNCHANGED <<at, rewritten, opened>>

Char(c) == [joaat |-> FALSE, text |-> <<c>>, from |-> at + 1]
is_valid_ident(name) == name # <<>> /\ \A i \in DOMAIN name : name[i] = "a"

copy_char ==
    /\ at < Len(source) /\ opened = 0
    /\ source[at + 1] # Tick \/ (at > 0 /\ source[at] = "quote")
    /\ rewritten' = Append(rewritten, Char(source[at + 1]))
    /\ at' = at + 1
    /\ UNCHANGED <<source, opened>>

open_tick ==
    /\ at < Len(source) /\ opened = 0
    /\ source[at + 1] = Tick /\ ~(at > 0 /\ source[at] = "quote")
    /\ opened' = at + 1 /\ at' = at + 1
    /\ UNCHANGED <<source, rewritten>>

read_name ==
    /\ opened # 0 /\ at < Len(source) /\ source[at + 1] # Tick
    /\ at' = at + 1
    /\ UNCHANGED <<source, rewritten, opened>>

(* The closing backtick, or the end of the source without one.             *)
close_tick ==
    /\ opened # 0
    /\ LET closed == at < Len(source)
           name == SubSeq(source, opened + 1, at)
           upto == IF closed THEN at + 1 ELSE at
       IN  /\ closed => source[at + 1] = Tick
           /\ rewritten' = Append(rewritten,
                 IF closed /\ is_valid_ident(name)
                 THEN [joaat |-> TRUE, text |-> name, from |-> opened]
                 ELSE [joaat |-> FALSE, text |-> SubSeq(source, opened, upto), from |-> opened])
           /\ at' = upto
    /\ opened' = 0
    /\ UNCHANGED source

BacktickNext == write_source \/ copy_char \/ open_tick \/ read_name \/ close_tick

Piece(p) == IF p.joaat THEN <<Tick>> \o p.text \o <<Tick>> ELSE p.text

(* Whatever the source, with the hashes written as backticks again the     *)
(* result is the source: no character is lost, doubled or moved, also with *)
(* a backtick that is never closed.                                        *)
RewriteKeepsSource ==
    opened = 0 =>
        FlattenSeq([i \in DOMAIN rewritten |-> Piece(rewritten[i])]) = SubSeq(source, 1, at)

(* Claimed of rewrite_backticks: string literals are left alone.  Only the *)
(* character before a backtick is looked at.                               *)
StringsLeftAlone ==
    \A i \in DOMAIN rewritten : rewritten[i].joaat =>
        Cardinality({j \in 1..(rewritten[i].from - 1) : source[j] = "quote"}) % 2 = 0

-----------------------------------------------------------------------------
(* Vectors of two to four components, as tables with their arity.  A       *)
(* component is a whole number that Significand bits can hold, each        *)
(* operation rounded as f32 rounds; overflow, fractions too small to hold  *)
(* and the sign of zero are left out.                                      *)

VARIABLES operands,       \* two vectors
          result          \* what the last operation gave

vectorVars == <<operands, result>>

Arguments == <<{-1, 0, 2, 9, 65}, {1, 9}, {0, 2}, {-1, 0}>>
Factors == {-1, 2, 3}
NoVec == [arity |-> 0, x |-> 0, y |-> 0, z |-> 0, w |-> 0]
Magnitude(n) == IF n < 0 THEN -n ELSE n

(* To the nearest number of Significand bits, of two the even one.         *)
fl(n) ==
    LET m == Magnitude(n)
        unit == 2 ^ (CHOOSE e \in 0..20 : m < 2 ^ (Significand + e)
                                          /\ (e = 0 \/ m >= 2 ^ (Significand + e - 1)))
        q == m \div unit
        up == 2 * (m % unit) > unit \/ (2 * (m % unit) = unit /\ q % 2 = 1)
        near == (IF up THEN q + 1 ELSE q) * unit
    IN  IF n < 0 THEN -near ELSE near

(* vec_to_table leaves out what the arity has not; table_to_vec reads a    *)
(* missing component as zero.                                              *)
ThroughTable(v) == [v EXCEPT !.z = IF v.arity >= 3 THEN @ ELSE 0, !.w = IF v.arity >= 4 THEN @ ELSE 0]

(* The constructors round their arguments and fill up with zeros.          *)
CfxVec(arity) ==
    {ThroughTable([arity |-> arity, x |-> fl(x), y |-> fl(y), z |-> fl(z), w |-> fl(w)]) :
        x \in Arguments[1], y \in Arguments[2], z \in Arguments[3], w \in Arguments[4]}
Vectors == CfxVec(2) \cup CfxVec(3) \cup CfxVec(4)

EachOf(a, b, Op(_, _)) ==
    [arity |-> a.arity, x |-> fl(Op(a.x, b.x)), y |-> fl(Op(a.y, b.y)),
     z |-> fl(Op(a.z, b.z)), w |-> fl(Op(a.w, b.w))]
vec_add(a, b) == EachOf(a, b, LAMBDA m, n : m + n)
vec_sub(a, b) == EachOf(a, b, LAMBDA m, n : m - n)
vec_mul(a, b) == EachOf(a, b, LAMBDA m, n : m * n)
vec_scale(a, s) == EachOf(a, a, LAMBDA m, n : m * s)
vec_dot(a, b) ==
    fl(fl(fl(fl(a.x * b.x) + fl(a.y * b.y)) + fl(a.z * b.z)) + fl(a.w * b.w))

(* Mutant: the middle component with its terms in the wrong order.         *)
vec_cross_swapped(a, b) ==
    [arity |-> 3, x |-> fl(fl(a.y * b.z) - fl(a.z * b.y)), y |-> fl(fl(a.x * b.z) - fl(a.z * b.x)),
     z |-> fl(fl(a.x * b.y) - fl(a.y * b.x)), w |-> 0]

vec_cross(a, b) ==
    [arity |-> 3, x |-> fl(fl(a.y * b.z) - fl(a.z * b.y)), y |-> fl(fl(a.z * b.x) - fl(a.x * b.z)),
     z |-> fl(fl(a.x * b.y) - fl(a.y * b.x)), w |-> 0]
same_arity(a, b) == a.arity = b.arity

Result(op, ok, v, n) == [op |-> op, ok |-> ok, v |-> v, n |-> n]
Refused(op) == Result(op, FALSE, NoVec, 0)
VectorInit == operands = <<NoVec, NoVec>> /\ result = Result("none", TRUE, NoVec, 0)
CanOperate == operands # <<NoVec, NoVec>> /\ result.op = "none"

construct_vectors ==
    /\ result.op = "none" /\ operands = <<NoVec, NoVec>>
    /\ operands' \in Vectors \X Vectors
    /\ UNCHANGED result

(* __add, __sub and __mul of two vectors refuse two arities.               *)
vector_operator ==
    /\ CanOperate
    /\ \E op \in {"add", "sub", "mul"} :
           LET a == ThroughTable(operands[1])
               b == ThroughTable(operands[2])
               v == CASE op = "add" -> vec_add(a, b) [] op = "sub" -> vec_sub(a, b) [] op = "mul" -> vec_mul(a, b)
           IN  result' = IF same_arity(a, b) THEN Result(op, TRUE, ThroughTable(v), 0) ELSE Refused(op)
    /\ UNCHANGED operands

(* __mul of a vector and a number, on either side; n is the number.        *)
scale_vector ==
    /\ CanOperate
    /\ \E s \in Factors :
           result' = Result("scale", TRUE, ThroughTable(vec_scale(ThroughTable(operands[1]), fl(s))), s)
    /\ UNCHANGED operands

dot_product ==
    /\ CanOperate
    /\ result' = IF same_arity(operands[1], operands[2])
                 THEN Result("dot", TRUE, NoVec, vec_dot(operands[1], operands[2])) ELSE Refused("dot")
    /\ UNCHANGED operands

cross_product ==
    /\ CanOperate
    /\ result' = IF operands[1].arity >= 3 /\ operands[2].arity >= 3
                 THEN Result("cross", TRUE, vec_cross(operands[1], operands[2]), 0) ELSE Refused("cross")
    /\ UNCHANGED operands

VectorNext == construct_vectors \/ vector_operator \/ scale_vector \/ dot_product \/ cross_product

Within(v, m) == \A n \in {v.x, v.y, v.z, v.w} : Magnitude(n) <= m
Minus(v) == [v EXCEPT !.x = -@, !.y = -@, !.z = -@, !.w = -@]

(* Half of each other at the least: their difference needs no rounding.    *)
Close(a, b) ==
    LET near(m, n) == m = n \/ (m > 0 /\ n > 0 /\ m <= 2 * n /\ n <= 2 * m)
    IN  near(a.x, b.x) /\ near(a.y, b.y) /\ near(a.z, b.z) /\ near(a.w, b.w)

(* Laws that rounding leaves standing: sums and products do not depend on  *)
(* the order of the operands, differences and cross products change their  *)
(* sign, doubling is adding to itself, a result has no component the arity *)
(* has not, two arities never meet in a result, and the difference of      *)
(* vectors close to each other gives the first back.  Where nothing is     *)
(* rounded a sum less one of its terms is the other, and a cross product   *)
(* of three components stands on both factors.                             *)
VectorLaws ==
    LET a == operands[1]
        b == operands[2]
        v == result.v
        small == CHOOSE m \in 0..99 : 6 * m * m * m <= 2 ^ Significand
                                      /\ 6 * (m + 1) * (m + 1) * (m + 1) > 2 ^ Significand
        is(op) == result.op = op /\ result.ok
    IN  /\ is("add") => v = vec_add(b, a)
        /\ is("mul") => v = vec_mul(b, a)
        /\ is("dot") => result.n = vec_dot(b, a)
        /\ is("sub") => v = Minus(vec_sub(b, a)) /\ (Close(a, b) => vec_add(v, b) = a)
        /\ is("scale") /\ result.n = 2 => v = vec_add(a, a)
        /\ result.ok => ThroughTable(v) = v
        /\ result.op \in {"add", "sub", "mul", "dot"} => (result.ok <=> a.arity = b.arity)
        /\ is("add") /\ Within(a, 2 ^ (Significand - 1)) /\ Within(b, 2 ^ (Significand - 1)) =>
               vec_sub(v, b) = a
        /\ is("cross") =>
               /\ v = Minus(vec_cross(b, a))
               /\ Within(a, small) /\ Within(b, small) =>
                     /\ a.arity = 3 => vec_dot(v, a) = 0
                     /\ b.arity = 3 => vec_dot(v, b) = 0

(* Values survive the way between runtimes: events and Lua tables come     *)
(* back as they were sent, at every boundary of a length, the backtick     *)
(* rewrite keeps the source, and vectors obey their laws.                  *)
WireSound == EventsSurvive /\ TablesSurvive /\ RewriteKeepsSource /\ VectorLaws

=============================================================================
