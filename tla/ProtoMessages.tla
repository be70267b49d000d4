---------------------------- MODULE ProtoMessages ----------------------------
(***************************************************************************)
(* A page that sends messages with protobuf.js: it encodes them with a     *)
(* writer, also several to one buffer, finishes, possibly more than once,  *)
(* and relays what it receives.  The reader of a buffer may know an older  *)
(* version of the types, and may get the beginning of the buffer only.     *)
(***************************************************************************)
EXTENDS ProtoCodec

VARIABLES
  parts,    \* history: a stack, of what its operations are for
  sent,     \* history: of each buffer, its parts, or <<>> if it was spoiled
  failed,   \* history: the messages that could not be encoded
  encoded   \* how many were encoded

vars == <<writerVars, parts, sent, failed, encoded>>

Init ==
  /\ WriterInit
  /\ parts = << <<>> >>
  /\ sent = <<>> /\ failed = {} /\ encoded = 0

Part(t, m, delimited) == [type |-> t, message |-> m, delimited |-> delimited]

AtTop == Len(parts) = 1

\* A buffer is either one message, in parts of one type, or messages with
\* their lengths.
MayFollow(t, delimited) ==
  \A i \in DOMAIN Head(parts) : /\ Head(parts)[i].delimited = delimited
                                /\ delimited \/ Head(parts)[i].type = t

\* The page drops a writer with which encode threw.
AfterEncode(w, t, m, delimited) ==
  /\ encoded < MaxParts /\ encoded' = encoded + 1
  /\ UNCHANGED <<sent, poolVars>>
  /\ IF w.threw
     THEN /\ failed' = failed \cup {<<t, m>>}
          /\ writer' = NewWriter /\ parts' = << <<>> >> /\ spoiled' = FALSE
     ELSE /\ writer' = w
          /\ parts' = <<Append(Head(parts), Part(t, m, delimited))>> \o Tail(parts)
          /\ UNCHANGED <<failed, spoiled>>

Message(input) == <<"object", Create(input.type, input.properties)>>

EncodePlain(input) ==
  /\ IF AtTop THEN MayFollow(input.type, FALSE) ELSE Head(parts) = <<>>
  /\ AfterEncode(Encode(writer, input.type, Message(input)), input.type, Message(input), FALSE)

\* encodeDelimited forks a writer that is not empty.  Within a fork that is
\* empty its ldelim would end that fork: the page does not do this.
Delimited(w) == IF w.threw THEN w ELSE Ldelim(w)

EncodeDelimited(input) ==
  /\ AtTop /\ MayFollow(input.type, TRUE)
  /\ LET w == IF writer.len > 0 THEN Fork(writer) ELSE writer
     IN AfterEncode(Delimited(Encode(w, input.type, Message(input))),
                    input.type, Message(input), TRUE)

\* The page does the same by hand.
PageFork ==
  /\ AtTop /\ MayFollow("", TRUE) /\ encoded < MaxParts
  /\ BeginFork /\ parts' = << <<>> >> \o parts
  /\ UNCHANGED <<sent, failed, encoded>>

PageLdelim ==
  /\ ~AtTop /\ Head(parts) # <<>>
  /\ EndFork
  /\ parts' = <<Append(parts[2], [Head(parts)[1] EXCEPT !.delimited = TRUE])>>
  /\ UNCHANGED <<sent, failed, encoded>>

PageReset ==
  /\ writer.len > 0 \/ ~AtTop
  /\ Discard
  /\ parts' = IF AtTop THEN << <<>> >> ELSE Tail(parts)
  /\ UNCHANGED <<sent, failed, encoded>>

Finish ==
  /\ AtTop /\ Head(parts) # <<>> /\ Len(sent) < MaxBuffers
  /\ FinishWriter
  /\ sent' = Append(sent, IF spoiled THEN <<>> ELSE Head(parts))
  /\ UNCHANGED <<parts, failed, encoded>>

CreateWriter ==
  /\ AtTop /\ writer # NewWriter
  /\ CreateNew /\ parts' = << <<>> >>
  /\ UNCHANGED <<sent, failed, encoded>>

Options == [defaults : BOOLEAN, enums : BOOLEAN]

RECURSIVE Convertible(_, _)
\* fromObject loses empty bytes and enum values without a name.
Convertible(t, v) ==
  \A f \in Range(Fields[t]) : IsSet(v[2], f) =>
    LET value == v[2][f.name]
        ok(x) == CASE f.type = "bytes" -> x[2] # <<>>
                   [] f.type = "message" -> Convertible(f.of, x)
                   [] f.type = "enum" -> EnumName(f.of, x) # Null
                   [] OTHER -> TRUE
    IN IF Collection(f) THEN \A k \in DOMAIN value[2] : ok(value[2][k]) ELSE ok(value)

RECURSIVE Filled(_, _)
\* v with the defaults that toObject gives and fromObject takes: not those of a
\* oneof, of messages, and of bytes.
Filled(t, v) ==
  LET one(f, x) == IF f.type = "message" THEN Filled(f.of, x) ELSE x
      value(f) == LET x == Property(v[2], f)
                  IN IF Collection(f) THEN <<x[1], [k \in DOMAIN x[2] |-> one(f, x[2][k])]>>
                     ELSE IF IsSet(v[2], f) THEN one(f, x) ELSE x
      defaulted(f) == Collection(f) \/ (f.oneof = "" /\ f.type \notin {"bytes", "message"})
      fill(m, f) == IF IsSet(v[2], f) \/ defaulted(f) THEN With(m, f.name, value(f)) ELSE m
  IN <<"object", FoldLeft(fill, NoProperties, Fields[t])>>

\* A message in a buffer of its own is decoded, made an object for JSON, made a
\* message again and encoded.
RelayMessage(t, decoded, options) ==
  /\ decoded.ok /\ Convertible(t, decoded.value)
  /\ AfterEncode(Encode(writer, t, FromObject(t, ToObject(t, decoded.value, options))), t,
                 IF options.defaults THEN Filled(t, decoded.value) ELSE decoded.value, FALSE)

Received(t, buf) == Decode(t, buf, 0, Len(buf))

Relay(n, options) ==
  /\ AtTop /\ Head(parts) = <<>> /\ Len(sent[n]) = 1 /\ ~sent[n][1].delimited
  /\ RelayMessage(sent[n][1].type, Received(sent[n][1].type, Contents(views[n])), options)

Next ==
  \/ \E input \in Inputs : EncodePlain(input) \/ EncodeDelimited(input)
  \/ PageFork \/ PageLdelim \/ PageReset
  \/ Finish \/ CreateWriter
  \/ \E n \in DOMAIN sent, options \in Options : Relay(n, options)

Spec == Init /\ [][Next]_vars

-----------------------------------------------------------------------------
(* What the bytes are worth.                                               *)

RECURSIVE Normal(_, _)
\* What a reader with the fields of t makes of the message v.
Normal(t, v) ==
  LET kept == {f \in Range(Fields[t]) : f.rule = "required" \/ Collection(f) \/ IsSet(v[2], f)}
      one(f, x) == IF f.type = "message" THEN Normal(f.of, x) ELSE x
      value(f) == LET x == Property(v[2], f)
                  IN IF Collection(f) THEN <<x[1], [k \in DOMAIN x[2] |-> one(f, x[2][k])]>>
                     ELSE one(f, x)
  IN <<"object", [name \in {f.name : f \in kept} |-> value(CHOOSE f \in kept : f.name = name)]>>

\* Two messages of type t one behind the other are read as one: arrays and maps
\* are joined, and otherwise the later one counts.
Joined(t, v, u) ==
  LET field(name) == CHOOSE f \in Range(Fields[t]) : f.name = name
      join(f, x, y) == CASE f.rule = "repeated" -> <<"array", x[2] \o y[2]>>
                         [] f.rule = "map" -> <<"object", y[2] @@ x[2]>>
                         [] OTHER -> y
  IN <<"object", [name \in DOMAIN v[2] \cup DOMAIN u[2] |->
                    IF name \notin DOMAIN u[2] THEN v[2][name]
                    ELSE IF name \notin DOMAIN v[2] THEN u[2][name]
                    ELSE join(field(name), v[2][name], u[2][name])]>>

Meant(t, plain) ==
  FoldLeft(LAMBDA v, p : Joined(t, v, Normal(t, p.message)),
           Normal(t, plain[1].message), Tail(plain))

\* The delimited messages of a buffer are read in turn, each up to its end.
Yields(r, v) == r.ok /\ r.value = v

InTurn(buf, list) ==
  LET after(r, v) == IF Yields(r, v) THEN r.pos ELSE -1
      next(pos, p) == IF pos < 0 THEN -1
                      ELSE after(DecodeDelimited(p.type, buf, pos), Normal(p.type, p.message))
  IN FoldLeft(next, 0, list) = Len(buf)

Verified(list) == \A i \in DOMAIN list : Verify(list[i].type, list[i].message)

-----------------------------------------------------------------------------
\* A message that verify accepts can be encoded, and a reader of any version
\* takes from the buffer what was put there: of messages whose integers fit
\* their types, which verify does not look at, and in which a required field
\* that is absent has its default, which verify does not mind.
RoundTrip ==
  /\ \A bad \in failed : ~Verify(bad[1], bad[2])
  /\ \A n \in DOMAIN sent : sent[n] # <<>> /\ Verified(sent[n]) =>
       IF sent[n][1].delimited THEN InTurn(Contents(views[n]), sent[n])
       ELSE \A t \in {sent[n][1].type} \cup Versions[sent[n][1].type] :
              Yields(Received(t, Contents(views[n])), Meant(t, sent[n]))

RECURSIVE Below(_, _, _)
\* v has values of u only, of arrays a beginning.  Nothing is said of 64-bit
\* varints.
Below(t, v, u) ==
  \A f \in Range(Fields[t]) : f.name \in DOMAIN v[2] =>
    LET x == v[2][f.name]
        below(a, b) == CASE f.type = "message" -> Below(f.of, a, b)
                         [] f.type \in {"int64", "uint64", "sint64"} -> TRUE
                         [] OTHER -> a = b
    IN /\ f.name \in DOMAIN u[2]
       /\ IF Collection(f)
          THEN \A k \in DOMAIN x[2] : k \in DOMAIN u[2][f.name][2] /\ below(x[2][k], u[2][f.name][2][k])
          ELSE below(x, u[2][f.name])

NothingAdded(t, r, m) == r.ok => Below(t, r.value, Normal(t, m))

\* What is read of the beginning of a buffer is in the message, or the reader
\* throws.
CutIsNoticed ==
  Len(sent) = 1 /\ writer = NewWriter =>
    \A n \in DOMAIN sent : Len(sent[n]) = 1 /\ ~sent[n][1].delimited /\ Verified(sent[n]) =>
      \A length \in 0 .. Len(Contents(views[n])) :
        NothingAdded(sent[n][1].type, Received(sent[n][1].type, SubSeq(Contents(views[n]), 1, length)),
                     sent[n][1].message)
=============================================================================
