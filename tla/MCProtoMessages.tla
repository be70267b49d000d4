--------------------------- MODULE MCProtoMessages ---------------------------
(***************************************************************************)
(* The chat message, and a message of everything it does not have, with    *)
(* values at the boundaries of words of 23 bits and units of 10 bits.      *)
(***************************************************************************)
EXTENDS ProtoMessages

Field(name, id, type) ==
  [name |-> name, id |-> id, rule |-> "optional", type |-> type, of |-> "", packed |-> TRUE,
   key |-> "", oneof |-> ""]

\* Chat is like the message of ChatMessage.proto; Bag has the other kinds.
\* Chat1 and Bag1 are readers that know fewer fields, also of the File.
MCFields ==
  [File  |-> << Field("name", 1, "string"), Field("size", 2, "int32"), Field("content", 3, "bytes") >>,
   File1 |-> << Field("size", 2, "int32") >>,
   Chat  |-> << [Field("file", 3, "message") EXCEPT !.of = "File"],
                [Field("id", 1, "uint32") EXCEPT !.rule = "required"],
                [Field("text", 4, "string") EXCEPT !.oneof = "body"],
                [Field("stamp", 5, "int64") EXCEPT !.oneof = "body"],
                [Field("list", 2, "sint32") EXCEPT !.rule = "repeated"] >>,
   Chat1 |-> << [Field("id", 1, "uint32") EXCEPT !.rule = "required"],
                [Field("file", 3, "message") EXCEPT !.of = "File1"] >>,
   Group |-> << Field("flag", 1, "bool"), [Field("file", 2, "message") EXCEPT !.of = "File"] >>,
   Bag   |-> << [Field("map", 1, "message") EXCEPT !.rule = "map", !.key = "int32", !.of = "File"],
                [Field("group", 2, "message") EXCEPT !.rule = "repeated", !.of = "Group"],
                [Field("kinds", 3, "enum") EXCEPT !.rule = "repeated", !.of = "Kind"],
                Field("fixed", 4, "fixed32"),
                Field("wide", 5, "sfixed64"),
                [Field("zig", 6, "sint64") EXCEPT !.rule = "repeated", !.packed = FALSE],
                [Field("kind", 7, "enum") EXCEPT !.of = "Kind"] >>,
   Bag1  |-> << [Field("kinds", 3, "enum") EXCEPT !.rule = "repeated", !.of = "Kind"] >>]

MCEnum == [Kind |-> << [name |-> <<1>>, id |-> 1], [name |-> <<2>>, id |-> -1] >>]

MCVersions ==
  [t \in DOMAIN MCFields |-> CASE t = "Chat" -> {"Chat1"} [] t = "Bag" -> {"Bag1"} [] OTHER -> {}]

N(n) == <<"number", n>>
T(s) == <<"text", s>>
B(s) == <<"bytes", s>>
A(s) == <<"array", s>>
O(m) == <<"object", m>>

Chat(properties) == [type |-> "Chat", properties |-> properties]
Bag(properties) == [type |-> "Bag", properties |-> properties]

\* Values about the lengths of their varints, texts with a pair of surrogates
\* (870, 895) and with some alone, nested messages with and without content,
\* entries, groups, an unknown enum value, and what verify refuses: no file, a
\* number for a message, a text for a number, nothing in an array.
MCInputs ==
  { Chat([id |-> N(31)]),
    Chat([id |-> N(32), text |-> T(<<31, 32, 127, 128>>)]),
    Chat([id |-> N(1023), stamp |-> N(1073741824)]),
    Chat([id |-> N(0), list |-> A(<<N(-4194304), N(4194303), N(-16)>>), stamp |-> N(-1)]),
    Chat([id |-> N(1048576), stamp |-> N(1048576), file |-> O([size |-> N(-2)])]),
    Chat([id |-> N(8388607), file |-> O([name |-> T(<<870, 895, 864>>), content |-> B(<<>>)])]),
    Chat([id |-> N(2), file |-> O([content |-> B(<<2, 0, 63, 8, 8, 8, 8, 8, 8, 8>>)])]),
    Chat([file |-> O([name |-> T(<<>>), size |-> N(32768)])]),
    Chat([id |-> T(<<1>>), text |-> T(<<>>), stamp |-> N(33554431)]),
    Chat([id |-> N(1), file |-> N(1)]),
    Bag([map |-> O(3 :> O([name |-> T(<<1023, 880>>)]) @@ -1 :> O(NoProperties)), wide |-> N(-8388608)]),
    Bag([map |-> O(1024 :> O([size |-> N(1)])), fixed |-> N(1)]),
    Bag([group |-> A(<< O([flag |-> <<"boolean", TRUE>>]), O([file |-> O([size |-> N(32768)])]) >>),
         kinds |-> A(<<N(-1), N(1)>>), zig |-> A(<<N(-1073741824)>>)]),
    Bag([group |-> A(<< O(NoProperties) >>), kind |-> N(2), kinds |-> A(<<N(2)>>)]),
    Bag([fixed |-> N(8388607), zig |-> A(<<N(512), N(-512)>>), kind |-> N(-1)]),
    Bag([wide |-> N(1073741823), kind |-> N(1), kinds |-> A(<<Null>>)]),
    Bag([zig |-> A(<<Null>>)]) }

\* A text with a pair about the end of a chunk and another chunk behind it.
LongText == { Chat([id |-> N(1), text |-> T(<<1, 870, 895, 2, 3>>)]) }
=============================================================================
