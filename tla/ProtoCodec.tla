------------------------------ MODULE ProtoCodec ------------------------------
(***************************************************************************)
(* What protobuf.js generates for a message type (encode, decode, verify,  *)
(* fromObject, toObject), over the calls of ProtoWriter and of the reader. *)
(*                                                                         *)
(* A JavaScript value is a pair of its kind and its content: "number" and  *)
(* "boolean", "text" with its UTF-16 units, "bytes", "array" with values,  *)
(* "object" with a function from its own properties, of a map from its     *)
(* keys, and Null for null and undefined.                                  *)
(***************************************************************************)
EXTENDS ProtoWriter

CONSTANTS
  Fields,     \* of each message type, its fields in the order of declaration
  Groups,     \* the types that are groups
  Enum,       \* of each enum type, its values in order, each with name and id
  Versions,   \* of each type, the types of readers that know fewer fields
  Inputs,     \* the messages that the page sends: pairs of type and properties
  MaxParts,   \* bound: how many it encodes
  MaxBuffers  \* bound: how often it calls finish

Null == <<"null">>
NoProperties == [name \in {} |-> Null]

WireTypes ==
  [int32 |-> 0, uint32 |-> 0, sint32 |-> 0, fixed32 |-> 5, sfixed32 |-> 5, int64 |-> 0,
   uint64 |-> 0, sint64 |-> 0, fixed64 |-> 1, sfixed64 |-> 1, bool |-> 0, string |-> 2,
   bytes |-> 2]

Basic(type) == type \in DOMAIN WireTypes
Packable(type) == Basic(type) /\ type \notin {"string", "bytes"}
Long(type) == type \in {"int64", "uint64", "sint64", "fixed64", "sfixed64"}

\* A field has name, id, rule, type, of (its enum or message type), packed,
\* key (of a map) and oneof, "" if it is in none.
Collection(f) == f.rule \in {"map", "repeated"}

\* An enum is an int32 on the wire.
OnWire(f) == IF f.type = "enum" THEN "int32" ELSE f.type
WireType(f) ==
  IF Basic(OnWire(f)) THEN WireTypes[OnWire(f)] ELSE IF f.of \in Groups THEN 3 ELSE 2

ProtocolAssumption ==
  /\ MaxParts \in Nat /\ MaxBuffers \in Nat
  /\ DOMAIN Versions = DOMAIN Fields
  /\ \A t \in DOMAIN Fields : \A i, j \in DOMAIN Fields[t] :
       i # j => Fields[t][i].id # Fields[t][j].id /\ Fields[t][i].name # Fields[t][j].name
  /\ \A input \in Inputs : input.type \in DOMAIN Fields

ASSUME ProtocolAssumption

-----------------------------------------------------------------------------
(* Messages.                                                               *)

TypeDefault(f) ==
  CASE f.type = "enum"    -> <<"number", Enum[f.of][1].id>>
    [] f.type = "bool"    -> <<"boolean", FALSE>>
    [] f.type = "string"  -> <<"text", <<>>>>
    [] f.type = "bytes"   -> <<"bytes", <<>>>>
    [] f.type = "message" -> Null
    [] OTHER              -> <<"number", 0>>

DefaultValue(f) ==
  CASE f.rule = "map"      -> <<"object", <<>>>>
    [] f.rule = "repeated" -> <<"array", <<>>>>
    [] OTHER               -> TypeDefault(f)

With(m, name, v) == [n \in DOMAIN m \cup {name} |-> IF n = name THEN v ELSE m[n]]

\* The constructor gives a message arrays and maps of its own, and takes the
\* properties that are not null.
Create(t, properties) ==
  FoldLeft(LAMBDA m, f :
             IF f.name \in DOMAIN properties /\ properties[f.name] # Null
             THEN With(m, f.name, properties[f.name])
             ELSE IF Collection(f) THEN With(m, f.name, DefaultValue(f)) ELSE m,
           NoProperties, Fields[t])

IsSet(m, f) == f.name \in DOMAIN m /\ m[f.name] # Null

\* Its own property, or that of the prototype.
Property(m, f) == IF f.name \in DOMAIN m THEN m[f.name] ELSE DefaultValue(f)

Numeric(v) ==
  CASE v[1] = "number" -> v[2] [] v[1] = "boolean" -> IF v[2] THEN 1 ELSE 0 [] OTHER -> 0

Truthy(v) ==
  CASE v[1] = "number" -> v[2] # 0
    [] v[1] = "boolean" -> v[2]
    [] v[1] = "text" -> v[2] # <<>>
    [] OTHER -> v # Null

-----------------------------------------------------------------------------
Put(w, ops) == IF w.threw THEN w ELSE Push(w, ops)
Tag(w, id, wireType) == Put(w, Uint32(id * 8 + wireType))

\* w.<type>(v): most take whatever they are given for a number, and a string
\* or bytes what has no length for empty.  No input has a text (base64) or an
\* array for bytes.
Write(w, type, v) ==
  LET throws == \/ v = Null /\ (Long(type) \/ type \in {"string", "bytes"})
                \/ type = "string" /\ v[1] \in {"bytes", "array"} /\ v[2] # <<>>
      taken == CASE type = "bool" -> Truthy(v)
                 [] type = "string" -> IF v[1] = "text" THEN v[2] ELSE <<>>
                 [] type = "bytes" -> IF v[1] = "bytes" THEN v[2] ELSE <<>>
                 [] OTHER -> Numeric(v)
  IN IF throws THEN [w EXCEPT !.threw = TRUE] ELSE Put(w, CallOf(type, taken))

-----------------------------------------------------------------------------
(* encode                                                                  *)

RECURSIVE Encode(_, _, _), EncodeValue(_, _, _), EncodeEntry(_, _, _, _), EncodeField(_, _, _)

\* genTypePartial, and a basic type.
EncodeValue(w, f, v) ==
  CASE WireType(f) = 3 -> Tag(Encode(Tag(w, f.id, 3), f.of, v), f.id, 4)
    [] f.type = "message" /\ WireType(f) = 2 -> Ldelim(Encode(Fork(Tag(w, f.id, 2)), f.of, v))
    [] OTHER -> Write(Tag(w, f.id, WireType(f)), OnWire(f), v)

\* One entry of a map: a message of a key, 1, and a value, 2.
EncodeEntry(w, f, k, v) ==
  LET keyed == Write(Tag(Fork(Tag(w, f.id, 2)), 1, WireTypes[f.key]), f.key, <<"number", k>>)
  IN Ldelim(EncodeValue(keyed, [f EXCEPT !.id = 2], v))

EncodeField(w, f, m) ==
  LET v == Property(m, f)
  IN CASE f.rule # "required" /\ ~IsSet(m, f) -> w
       [] f.rule = "map" ->
            FoldLeft(LAMBDA x, k : EncodeEntry(x, f, k, v[2][k]), w,
                     SetToSortSeq(DOMAIN v[2], <))
       [] f.rule = "repeated" ->
            IF v[2] = <<>> THEN w
            ELSE IF f.packed /\ Packable(OnWire(f))
            THEN Ldelim(FoldLeft(LAMBDA x, e : Write(x, OnWire(f), e), Fork(Tag(w, f.id, 2)), v[2]))
            ELSE FoldLeft(LAMBDA x, e : EncodeValue(x, f, e), w, v[2])
       [] OTHER -> EncodeValue(w, f, v)

\* The fields in the order of their ids.
Encode(w, t, v) ==
  IF w.threw \/ v = Null THEN [w EXCEPT !.threw = TRUE]
  ELSE LET m == IF v[1] = "object" THEN v[2] ELSE NoProperties
       IN FoldLeft(LAMBDA x, f : EncodeField(x, f, m), w,
                   SortSeq(Fields[t], LAMBDA f, g : f.id < g.id))

-----------------------------------------------------------------------------
(* decode.  The reader takes lengths and tags as they come: a nested       *)
(* message may pass the end of the one around it.                          *)

Number(v) == <<"number", v>>

ReadOf(type, buf, pos) ==
  CASE type = "int32" -> Converted(ReadInt32(buf, pos), Number)
    [] type = "uint32" -> Converted(ReadUint32(buf, pos), Number)
    [] type = "sint32" -> Converted(ReadSint32(buf, pos), Number)
    [] type = "int64" -> Converted(ReadInt64(buf, pos), Number)
    [] type = "uint64" -> Converted(ReadUint64(buf, pos), Number)
    [] type = "sint64" -> Converted(ReadSint64(buf, pos), Number)
    [] type = "fixed32" -> Converted(ReadFixed32(buf, pos), Number)
    [] type = "sfixed32" -> Converted(ReadSfixed32(buf, pos), Number)
    [] type \in {"fixed64", "sfixed64"} ->
         Converted(ReadFixed64(buf, pos), LAMBDA bits : Number(ToNumber(bits, type = "fixed64")))
    [] type = "bool" -> Converted(ReadUint32(buf, pos), LAMBDA v : <<"boolean", v # 0>>)
    [] type = "string" -> Converted(ReadString(buf, pos), LAMBDA v : <<"text", v>>)
    [] type = "bytes" -> Converted(ReadBytes(buf, pos), LAMBDA v : <<"bytes", v>>)

\* A group is passed over up to its end, also those within it.
RECURSIVE SkipType(_, _, _)
SkipType(buf, pos, wireType) ==
  CASE wireType = 0 -> SkipVarint(buf, pos)
    [] wireType = 1 -> Skip(buf, pos, 8)
    [] wireType = 2 -> Onward(ReadUint32(buf, pos), LAMBDA length, at : Skip(buf, at, length))
    [] wireType = 3 ->
         Onward(ReadUint32(buf, pos),
                LAMBDA tag, at :
                  IF tag % 8 = 4 THEN Read(0, at)
                  ELSE Onward(SkipType(buf, at, tag % 8), LAMBDA v, next : SkipType(buf, next, 3)))
    [] wireType = 5 -> Skip(buf, pos, 4)
    [] OTHER -> OutOfRange(buf)

RECURSIVE Decode(_, _, _, _), DecodeFields(_, _, _, _, _), DecodeField(_, _, _, _, _),
          DecodeEntry(_, _, _, _), DecodeValue(_, _, _), Unpack(_, _, _, _, _),
          DecodeTag(_, _, _, _, _), DecodeDelimited(_, _, _)

DecodeValue(f, buf, pos) ==
  CASE WireType(f) = 3 -> Decode(f.of, buf, pos, Len(buf))
    [] f.type = "message" /\ WireType(f) = 2 -> DecodeDelimited(f.of, buf, pos)
    [] OTHER -> ReadOf(OnWire(f), buf, pos)

\* The elements of a packed field, up to its end.
Unpack(f, buf, pos, end, read) ==
  IF pos >= end THEN Read(read, pos)
  ELSE Onward(ReadOf(OnWire(f), buf, pos),
              LAMBDA v, next : Unpack(f, buf, next, end, Append(read, v)))

\* The entry of a map: its length and the two tags are passed over.
DecodeEntry(f, buf, pos, entries) ==
  Onward(SkipVarint(buf, pos), LAMBDA length, at :
    Onward(ReadOf(f.key, buf, at + 1), LAMBDA key, next :
      Converted(DecodeValue(f, buf, next + 1), LAMBDA v : With(entries, key[2], v))))

\* A message with what the field f takes from pos.
DecodeField(f, wireType, buf, pos, m) ==
  LET old == Property(m, f)[2]
      packed == wireType = 2 /\ Packable(OnWire(f))
      set(v) == With(m, f.name, v)
  IN CASE f.rule = "map" ->
            Converted(DecodeEntry(f, buf, pos, old), LAMBDA v : set(<<"object", v>>))
       [] f.rule = "repeated" /\ packed ->
            Onward(ReadUint32(buf, pos), LAMBDA length, at :
              Converted(Unpack(f, buf, at, at + length, old), LAMBDA v : set(<<"array", v>>)))
       [] OTHER ->
            Converted(DecodeValue(f, buf, pos),
                      LAMBDA v : set(IF f.rule = "repeated" THEN <<"array", Append(old, v)>> ELSE v))

\* What is not known is skipped.
DecodeTag(t, tag, buf, pos, m) ==
  LET known == SelectSeq(Fields[t], LAMBDA f : f.id = tag \div 8)
  IN IF known = <<>> THEN Converted(SkipType(buf, pos, tag % 8), LAMBDA v : m)
     ELSE DecodeField(known[1], tag % 8, buf, pos, m)

DecodeFields(t, buf, pos, end, m) ==
  IF pos >= end THEN Read(m, pos)
  ELSE Onward(ReadUint32(buf, pos), LAMBDA tag, at :
         IF t \in Groups /\ tag % 8 = 4 THEN Read(m, at)
         ELSE Onward(DecodeTag(t, tag, buf, at, m),
                     LAMBDA now, next : DecodeFields(t, buf, next, end, now)))

\* At the end the required fields must be there.
Decode(t, buf, pos, end) ==
  Onward(DecodeFields(t, buf, pos, end, Create(t, NoProperties)), LAMBDA m, at :
    IF \E f \in Range(Fields[t]) : f.rule = "required" /\ f.name \notin DOMAIN m
    THEN OutOfRange(buf) ELSE Read(<<"object", m>>, at))

DecodeDelimited(t, buf, pos) ==
  Onward(ReadUint32(buf, pos), LAMBDA length, at : Decode(t, buf, at, at + length))

-----------------------------------------------------------------------------
(* verify                                                                  *)

RECURSIVE Verify(_, _), VerifyValue(_, _)

VerifyValue(f, v) ==
  CASE f.type = "enum" -> \E i \in DOMAIN Enum[f.of] : v = <<"number", Enum[f.of][i].id>>
    [] f.type = "message" -> Verify(f.of, v)
    [] f.type = "bool" -> v[1] = "boolean"
    [] f.type = "string" -> v[1] = "text"
    [] f.type = "bytes" -> v[1] \in {"bytes", "text", "array"}
    [] OTHER -> v[1] = "number"

Verify(t, v) ==
  LET present(f) == f.rule = "required" \/ IsSet(v[2], f)
      value(f) == Property(v[2], f)
  IN /\ v[1] = "object"
     /\ \A i \in DOMAIN Fields[t] :
          LET f == Fields[t][i]
          IN present(f) =>
               CASE f.rule = "map" ->
                      value(f)[1] = "object" /\ \A k \in DOMAIN value(f)[2] : VerifyValue(f, value(f)[2][k])
                 [] f.rule = "repeated" ->
                      value(f)[1] = "array" /\ \A k \in DOMAIN value(f)[2] : VerifyValue(f, value(f)[2][k])
                 [] OTHER ->
                      /\ VerifyValue(f, value(f))
                      /\ f.oneof # "" => \A j \in 1 .. i - 1 :
                           ~(Fields[t][j].oneof = f.oneof /\ present(Fields[t][j]))

-----------------------------------------------------------------------------
(* toObject and fromObject, without the library for 64-bit numbers, which  *)
(* the page does not load.                                                 *)

EnumName(of, v) ==
  LET named == SelectSeq(Enum[of], LAMBDA e : v = <<"number", e.id>>)
  IN IF named = <<>> THEN Null ELSE <<"text", named[1].name>>

EnumId(of, v) ==
  LET meant == SelectSeq(Enum[of], LAMBDA e : v = <<"number", e.id>> \/ v = <<"text", e.name>>)
  IN IF meant = <<>> THEN Null ELSE <<"number", meant[1].id>>

RECURSIVE ToObject(_, _, _), ToObjectValue(_, _, _),
          FromObject(_, _), FromObjectValue(_, _), FromObjectElement(_, _)

ToObjectValue(f, v, options) ==
  CASE f.type = "enum" -> IF options.enums THEN EnumName(f.of, v) ELSE v
    [] f.type = "message" -> ToObject(f.of, v, options)
    [] OTHER -> v

\* options: defaults, and enums by name.  A oneof gets no defaults.
ToObject(t, m, options) ==
  LET converted(f, v) ==
        IF Collection(f)
        THEN <<v[1], [k \in DOMAIN v[2] |-> ToObjectValue(f, v[2][k], options)]>>
        ELSE ToObjectValue(f, v, options)
      full(f, v) == IF Collection(f) THEN v[2] # <<>> ELSE IsSet(m[2], f)
      default(f) == IF f.type = "enum" /\ ~Collection(f)
                    THEN ToObjectValue(f, DefaultValue(f), options) ELSE DefaultValue(f)
      convert(d, f) ==
        IF full(f, Property(m[2], f)) THEN With(d, f.name, converted(f, Property(m[2], f)))
        ELSE IF options.defaults /\ f.oneof = "" THEN With(d, f.name, default(f))
        ELSE d
  IN <<"object", FoldLeft(convert, NoProperties, Fields[t])>>

\* Empty bytes are not taken over.
FromObjectValue(f, v) ==
  CASE f.type = "enum" -> EnumId(f.of, v)
    [] f.type = "message" -> FromObject(f.of, v)
    [] f.type \in {"uint32", "fixed32"} -> <<"number", Numeric(v) % Word>>
    [] f.type \in {"int32", "sint32", "sfixed32"} -> <<"number", Signed(Numeric(v))>>
    [] f.type = "bool" -> <<"boolean", Truthy(v)>>
    [] f.type = "bytes" -> IF v[2] = <<>> THEN Null ELSE v
    [] OTHER -> v

\* In an array of enums what is unknown becomes the default.
FromObjectElement(f, v) ==
  IF f.type = "enum" /\ f.rule = "repeated" /\ EnumId(f.of, v) = Null THEN TypeDefault(f)
  ELSE FromObjectValue(f, v)

FromObject(t, d) ==
  LET given(f) == IF f.name \in DOMAIN d[2] THEN d[2][f.name] ELSE Null
      value(f) ==
        IF given(f) = Null THEN Null
        ELSE IF Collection(f)
        THEN <<given(f)[1], [k \in DOMAIN given(f)[2] |-> FromObjectElement(f, given(f)[2][k])]>>
        ELSE FromObjectValue(f, given(f))
      take(m, f) == IF value(f) = Null THEN m ELSE With(m, f.name, value(f))
  IN <<"object", FoldLeft(take, Create(t, NoProperties), Fields[t])>>
=============================================================================
