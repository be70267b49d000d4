---------------------------- MODULE MCProtoLoader ----------------------------
(***************************************************************************)
(* Two loads of a page, which share a file: main imports a, which imports  *)
(* g, and weakly b, which extends a type of a; j is JSON.                  *)
(***************************************************************************)
EXTENDS ProtoLoader

Plain(kind, name) ==
  [kind |-> kind, name |-> <<name>>, upper |-> FALSE, id |-> 0, ref |-> <<>>, response |-> <<>>,
   extend |-> <<>>, oneof |-> <<>>, reserved |-> {}]
Capital(kind, name) == [Plain(kind, name) EXCEPT !.upper = TRUE]
Field(name, id) == [Plain("field", name) EXCEPT !.id = id]

MCRoot == <<"root">>
M == <<"M">>       \* main: message M { Foo foo = 1; oneof c { string s = 2; } }
foo == <<"foo">>
c == <<"c">>
s == <<"s">>
\* a: package p; message Foo { optional group X = 1 { } }
\*    enum Kind { ONE = 1; } service Svc { rpc Call (Foo) returns (M); }
Foo == <<"Foo">>
X == <<"X">>
x == <<"x">>
K == <<"Kind">>
Svc == <<"Svc">>
Call == <<"Call">>
e == <<"e">>       \* b: package q; extend Foo { int32 e = 2; }
P == <<"P">>       \* j: { p: { Bar: { y = 1, oneof d { y } }, extend Foo f = 3 } }
Bar == <<"Bar">>
y == <<"y">>
d == <<"d">>
f == <<"f">>
G == <<"G">>       \* g, bundled: { google: { Any: {} } }
AnyType == <<"Any">>

MCDecl ==
  MCRoot :> Plain("root", "") @@
  M :> Capital("type", "M") @@
  foo :> [Field("foo", 1) EXCEPT !.ref = <<"Foo">>] @@
  c :> Plain("oneof", "c") @@
  s :> Field("s", 2) @@
  Foo :> Capital("type", "Foo") @@
  X :> Capital("type", "X") @@
  x :> [Field("x", 1) EXCEPT !.ref = <<"X">>] @@
  K :> Capital("enum", "Kind") @@
  Svc :> Capital("service", "Svc") @@
  Call :> [Plain("method", "Call") EXCEPT !.ref = <<"Foo">>, !.response = <<"M">>] @@
  e :> [Field("e", 2) EXCEPT !.extend = <<"Foo">>] @@
  Sister(e) :> Field("e", 2) @@
  G :> Plain("namespace", "google") @@
  AnyType :> Capital("type", "Any") @@
  P :> Plain("namespace", "p") @@
  Bar :> Capital("type", "Bar") @@
  y :> Field("y", 1) @@
  d :> [Plain("oneof", "d") EXCEPT !.oneof = << <<"y">> >>] @@
  f :> [Field("f", 3) EXCEPT !.extend = <<"Foo">>] @@
  Sister(f) :> Field("f", 3) @@
  Package(<<"p">>) :> Plain("namespace", "p") @@
  Package(<<"q">>) :> Plain("namespace", "q")

MCTouched == {M, s, c, Foo, e}
MCObject == DOMAIN MCDecl

Braces(token, o, body) ==
  [token |-> token, object |-> o, body |-> body, field |-> None, values |-> <<>>]
Leaf(token, o) == Braces(token, o, <<>>)

MCContent ==
  [main |-> [json |-> FALSE, package |-> <<>>,
             body |-> << Braces("message", M, << Leaf("field", foo),
                                                 Braces("oneof", c, <<Leaf("field", s)>>) >>) >>],
   a |-> [json |-> FALSE, package |-> <<"p">>,
          body |-> << Braces("message", Foo, << [Leaf("group", X) EXCEPT !.field = x] >>),
                      [Leaf("enum", K) EXCEPT !.values = << [name |-> "ONE", id |-> 1] >>],
                      Braces("service", Svc, <<Leaf("rpc", Call)>>) >>],
   b |-> [json |-> FALSE, package |-> <<"q">>,
          body |-> <<Braces("extend", None, <<Leaf("field", e)>>)>>],
   g |-> [json |-> TRUE, package |-> <<>>,
          body |-> <<Braces("nested", G, <<Leaf("nested", AnyType)>>)>>],
   j |-> [json |-> TRUE, package |-> <<>>,
          body |-> << Braces("nested", P, << Braces("nested", Bar, << Leaf("oneof", d),
                                                                      Leaf("field", y) >>),
                                             Leaf("nested", f) >>) >>]]

\* Path, kind and oneof of what all these files make.
MCWhole ==
  { << <<"">>, "root", <<>> >>,
    << <<"", "M">>, "type", <<>> >>,
    << <<"", "M", "foo">>, "field", <<>> >>,
    << <<"", "M", "c">>, "oneof", <<>> >>,
    << <<"", "M", "s">>, "field", c >>,
    << <<"", "p">>, "namespace", <<>> >>,
    << <<"", "p", "Foo">>, "type", <<>> >>,
    << <<"", "p", "Foo", "X">>, "type", <<>> >>,
    << <<"", "p", "Foo", "x">>, "field", <<>> >>,
    << <<"", "p", "Foo", "", "p", "f">>, "field", <<>> >>,
    << <<"", "p", "Foo", "", "q", "e">>, "field", <<>> >>,
    << <<"", "p", "Kind">>, "enum", <<>> >>,
    << <<"", "p", "Svc">>, "service", <<>> >>,
    << <<"", "p", "Svc", "Call">>, "method", <<>> >>,
    << <<"", "p", "Bar">>, "type", <<>> >>,
    << <<"", "p", "Bar", "y">>, "field", d >>,
    << <<"", "p", "Bar", "d">>, "oneof", <<>> >>,
    << <<"", "p", "f">>, "field", <<>> >>,
    << <<"", "q">>, "namespace", <<>> >>,
    << <<"", "q", "e">>, "field", <<>> >>,
    << <<"", "google">>, "namespace", <<>> >>,
    << <<"", "google", "Any">>, "type", <<>> >> }

MCFile == DOMAIN MCContent
MCImports == [n \in MCFile |-> IF n = "main" THEN {"a"} ELSE IF n = "a" THEN {"g"} ELSE {}]
MCWeakImports == [n \in MCFile |-> IF n = "main" THEN {"b"} ELSE {}]
MCRequests == << {"main"}, {"j", "b"} >>
=============================================================================
