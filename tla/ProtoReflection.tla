--------------------------- MODULE ProtoReflection ---------------------------
(***************************************************************************)
(* The reflection tree of protobuf.js, the library with which the chat     *)
(* page reads ChatMessage.proto: namespaces, types with their fields and   *)
(* oneofs, services and enums below one root, and what the library keeps   *)
(* beside the tree, which every change must bring up to date: the arrays   *)
(* of members, the generated functions, the fields that extensions add to  *)
(* other types, the list of extensions that found no type yet.             *)
(*                                                                         *)
(* A heap is one record: what every object holds.  An operation takes a    *)
(* heap and returns the next one.  An exception is a heap with threw set:  *)
(* what was changed before it stays changed, and nothing follows.          *)
(***************************************************************************)
EXTENDS Integers, SequencesExt, TLC

CONSTANTS
  Object,  \* the objects, as sequences of strings
  Decl,    \* what the source says of each: see DeclAssumption
  Root     \* the root namespace

Kinds == {"root", "namespace", "type", "service", "enum", "field", "oneof", "method"}

None == <<>>          \* null
Unset == <<None>>     \* a cache that is null, or a function not generated

\* name: its name; upper: whether that begins with a capital; id: the number
\* of a field; ref: the type it names, <<>> if basic, of a method that of the
\* request; response: that of the response; extend: the type a field extends,
\* <<>> if none; oneof: the field names that JSON gives a oneof; reserved: the
\* reserved ids of a type or an enum.
DeclAssumption ==
  /\ None \notin Object /\ Root \in Object
  /\ DOMAIN Decl = Object
  /\ \A o \in Object : Decl[o].kind \in Kinds /\ (Decl[o].kind = "root") = (o = Root)

ASSUME DeclAssumption

Kind(o) == Decl[o].kind
IsNamespace(o) == Kind(o) \in {"root", "namespace", "type", "service"}
IsExtension(o) == Kind(o) = "field" /\ Decl[o].extend # <<>>

\* The field that tryHandleExtension makes for the extension field f, and the
\* package that define makes for a path.
Sister(f) == <<"sister">> \o f
Package(path) == <<"package">> \o path

VARIABLE heap

\* Objects that are in no namespace yet.
NewObjects ==
  [parent   |-> [o \in Object |-> None],
   name     |-> [o \in Object |-> Decl[o].name],
   resolved |-> [o \in Object |-> FALSE]]

NewNamespaces ==
  [nested      |-> [o \in Object |-> <<>>],   \* in the order of insertion
   nestedArray |-> [o \in Object |-> Unset]]

\* Of a service, fields holds the methods.
NewTypes ==
  [fields      |-> [o \in Object |-> <<>>],
   oneofs      |-> [o \in Object |-> <<>>],
   fieldsArray |-> [o \in Object |-> Unset],
   oneofsArray |-> [o \in Object |-> Unset],
   fieldsById  |-> [o \in Object |-> Unset],
   setup       |-> [o \in Object |-> Unset],  \* the fields encode, decode and verify are for
   objects     |-> [o \in Object |-> Unset],  \* the same of fromObject and toObject
   ctor        |-> [o \in Object |-> Unset]]  \* the same of the constructor

NewFields ==
  [resolvedType   |-> [o \in Object |-> None],
   partOf         |-> [o \in Object |-> None],
   extensionField |-> [o \in Object |-> None]]

NewOneOfs ==
  [oneof   |-> [o \in Object |-> Decl[o].oneof],
   members |-> [o \in Object |-> <<>>]]       \* its fieldsArray

\* values: the names and numbers of an enum.
NewEnums == [values |-> [o \in Object |-> <<>>]]

\* exposed: pairs of a namespace and a property.
\* broken: history, the namespaces and extensions that an exception left halfway.
NewRoot == [deferred |-> <<>>, exposed |-> {}, broken |-> {}, threw |-> ""]

NewHeap ==
  NewObjects @@ NewNamespaces @@ NewTypes @@ NewFields @@ NewOneOfs @@ NewEnums @@ NewRoot

Raise(h, error) == [h EXCEPT !.threw = error]
Failed(h) == h.threw # ""

\* An exception leaves x halfway.
Halfway(h, x) == IF Failed(h) THEN [h EXCEPT !.broken = @ \cup {x}] ELSE h

\* g if it failed, and else what follows: op(g).
Then(g, op(_)) == IF Failed(g) THEN g ELSE op(g)

\* op(g, x) for every x of s in turn, up to an exception.
Each(h, s, op(_, _)) == FoldLeft(LAMBDA g, x : IF Failed(g) THEN g ELSE op(g, x), h, s)

Named(h, s, name) == SelectSeq(s, LAMBDA x : h.name[x] = name)

-----------------------------------------------------------------------------
(* Reading the tree.                                                       *)

RECURSIVE RootOf(_, _)
RootOf(h, o) == IF h.parent[o] = None THEN o ELSE RootOf(h, h.parent[o])

InRoot(h, o) == RootOf(h, o) = Root

RECURSIVE FullName(_, _)
FullName(h, o) == (IF h.parent[o] = None THEN <<>> ELSE FullName(h, h.parent[o])) \o h.name[o]

Get(h, ns, name) ==
  LET found == Named(h, h.fields[ns] \o h.oneofs[ns] \o h.nested[ns], name)
  IN IF found = <<>> THEN None ELSE Head(found)

Cached(cache, value) == IF cache = Unset THEN value ELSE cache

NestedArray(h, ns) == Cached(h.nestedArray[ns], h.nested[ns])
FieldsArray(h, t) == Cached(h.fieldsArray[t], h.fields[t])
OneofsArray(h, t) == Cached(h.oneofsArray[t], h.oneofs[t])

ReadNested(h, ns) == [h EXCEPT !.nestedArray[ns] = NestedArray(h, ns)]
ReadFields(h, t) == [h EXCEPT !.fieldsArray[t] = FieldsArray(h, t)]
ReadOneofs(h, t) == [h EXCEPT !.oneofsArray[t] = OneofsArray(h, t)]
ReadById(h, t) ==
  IF h.fieldsById[t] = Unset THEN [h EXCEPT !.fieldsById[t] = h.fields[t]] ELSE h

\* A lookup gives what it finds and the namespaces whose nestedArray it reads.
NotFound == [found |-> None, read |-> {}]
Otherwise(l, next) ==
  IF l.found # None THEN l ELSE [found |-> next.found, read |-> l.read \cup next.read]

RECURSIVE Lookup(_, _, _, _, _)

\* From ns downwards, where first has the first name of the path.
LookupIn(h, ns, first, path, kinds) ==
  CASE first # None /\ Len(path) = 1 ->
         IF Kind(first) \in kinds THEN [found |-> first, read |-> {}] ELSE NotFound
    [] first # None /\ Len(path) > 1 ->
         IF IsNamespace(first) THEN Lookup(h, first, Tail(path), kinds, TRUE) ELSE NotFound
    [] OTHER -> FoldLeft(LAMBDA l, n : IF IsNamespace(n)
                                       THEN Otherwise(l, Lookup(h, n, path, kinds, TRUE)) ELSE l,
                         [found |-> None, read |-> {ns}], NestedArray(h, ns))

Lookup(h, ns, path, kinds, parentAlreadyChecked) ==
  IF Head(path) = "" THEN Lookup(h, RootOf(h, ns), Tail(path), kinds, FALSE)
  ELSE Otherwise(LookupIn(h, ns, Get(h, ns, <<Head(path)>>), path, kinds),
                 IF h.parent[ns] = None \/ parentAlreadyChecked THEN NotFound
                 ELSE Lookup(h, h.parent[ns], path, kinds, FALSE))

AfterLookup(h, l) ==
  [h EXCEPT !.nestedArray = [ns \in Object |-> IF ns \in l.read THEN NestedArray(h, ns) ELSE @[ns]]]

-----------------------------------------------------------------------------
(* What is kept beside the tree.                                           *)

\* Mutant of ClearType: the generated functions stay.
ClearArraysOnly(h, t) ==
  [h EXCEPT !.fieldsById[t] = Unset, !.fieldsArray[t] = Unset, !.oneofsArray[t] = Unset]

\* fromObject and toObject stay.
ClearType(h, t) ==
  [h EXCEPT !.fieldsById[t] = Unset, !.fieldsArray[t] = Unset, !.oneofsArray[t] = Unset,
            !.setup[t] = Unset]

ClearNested(h, ns) == [h EXCEPT !.nestedArray[ns] = Unset]

Property(h, o) == <<h.parent[o], h.name[o]>>
Expose(h, o) == IF Decl[o].upper THEN [h EXCEPT !.exposed = @ \cup {Property(h, o)}] ELSE h
Unexpose(h, o) == IF Decl[o].upper THEN [h EXCEPT !.exposed = @ \ {Property(h, o)}] ELSE h

RECURSIVE Change(_, _, _, _), HandleAdd(_, _), HandleRemove(_, _), HandleDeferred(_, _)

\* What parent.add(o) and parent.remove(o) come to is up to the parent.
AddTo(h, parent, o) == Change(h, "add", parent, o)
RemoveFrom(h, parent, o) == Change(h, "remove", parent, o)

\* tryHandleExtension: the sister field is remembered before it is added, and
\* whatever was found is asked to add it.
AddSister(h, f, extendedType) ==
  LET s == Sister(f)
      made == [h EXCEPT !.name[s] = FullName(h, f), !.parent[s] = None, !.resolved[s] = FALSE,
                        !.resolvedType[s] = None, !.extensionField[f] = s]
  IN Halfway(AddTo(made, extendedType, s), f)

Extend(h, f, l) ==
  IF l.found = None THEN [handled |-> FALSE, heap |-> AfterLookup(h, l)]
  ELSE [handled |-> TRUE, heap |-> AddSister(AfterLookup(h, l), f, l.found)]

TryHandleExtension(h, f) ==
  Extend(h, f, Lookup(h, h.parent[f], Decl[f].extend, Kinds, FALSE))

\* The loop over deferred when a type is added, from position i.
AfterTry(try, i) ==
  IF Failed(try.heap) THEN try.heap
  ELSE IF try.handled THEN HandleDeferred([try.heap EXCEPT !.deferred = RemoveAt(@, i)], i)
  ELSE HandleDeferred(try.heap, i + 1)

HandleDeferred(h, i) ==
  IF i > Len(h.deferred) THEN h ELSE AfterTry(TryHandleExtension(h, h.deferred[i]), i)

Deferred(try, f) ==
  IF try.handled THEN try.heap ELSE [try.heap EXCEPT !.deferred = Append(@, f)]

\* What is nested is handled, and then the object itself.
HandleNested(h, o) ==
  Then(Each(ReadNested(h, o), NestedArray(h, o), HandleAdd), LAMBDA g : Expose(g, o))

\* Mutant of HandleAdd: an extension of a type that is not there yet is forgotten.
HandleAddForgets(h, o) ==
  CASE Kind(o) = "field" -> IF ~IsExtension(o) \/ h.extensionField[o] # None THEN h
                            ELSE TryHandleExtension(h, o).heap
    [] Kind(o) = "enum" -> Expose(h, o)
    [] Kind(o) = "oneof" -> h
    [] OTHER -> Then(IF Kind(o) = "type" THEN HandleDeferred(h, 1) ELSE h,
                     LAMBDA g : HandleNested(g, o))

HandleAdd(h, o) ==
  CASE Kind(o) = "field" -> IF ~IsExtension(o) \/ h.extensionField[o] # None THEN h
                            ELSE Deferred(TryHandleExtension(h, o), o)
    [] Kind(o) = "enum" -> Expose(h, o)
    [] Kind(o) = "oneof" -> h
    [] OTHER -> Then(IF Kind(o) = "type" THEN HandleDeferred(h, 1) ELSE h,
                     LAMBDA g : HandleNested(g, o))

\* Mutant of HandleRemove: the sister of an extension stays in its type.
HandleRemoveLeavesSister(h, o) ==
  CASE Kind(o) = "field" ->
         IF ~IsExtension(o) THEN h
         ELSE [h EXCEPT !.deferred = Remove(@, o), !.extensionField[o] = None]
    [] Kind(o) = "enum" -> Unexpose(h, o)
    [] IsNamespace(o) -> Then(Each(ReadNested(h, o), NestedArray(h, o), HandleRemove),
                              LAMBDA g : Unexpose(g, o))
    [] OTHER -> h

HandleRemove(h, o) ==
  LET s == h.extensionField[o]
      forget(g) == [g EXCEPT !.extensionField[o] = None]
      leave(g) == Unexpose(g, o)
  IN CASE Kind(o) = "field" ->
            IF ~IsExtension(o) THEN h
            ELSE IF s = None THEN [h EXCEPT !.deferred = Remove(@, o)]
            ELSE IF h.parent[s] = None THEN Raise(h, "TypeError")
            ELSE Then(RemoveFrom(h, h.parent[s], s), forget)
       [] Kind(o) = "enum" -> Unexpose(h, o)
       [] IsNamespace(o) ->
            Then(Each(ReadNested(h, o), NestedArray(h, o), HandleRemove), leave)
       [] OTHER -> h

-----------------------------------------------------------------------------
(* Adding and removing.                                                    *)

\* addFieldsToParent: the fields of a oneof that are in no type go to its own.
AddFieldsToParent(h, o) ==
  IF h.parent[o] = None THEN h
  ELSE Each(h, h.members[o],
            LAMBDA g, f : IF g.parent[f] = None THEN AddTo(g, g.parent[o], f) ELSE g)

\* OneOf.onAdd: the fields that are in the type already become members.
CollectFields(h, o, t) ==
  Each(h, h.oneof[o],
       LAMBDA g, name :
         LET f == Get(g, t, name)
         IN IF f = None THEN g
            ELSE IF g.partOf[f] # None THEN g
            ELSE [g EXCEPT !.partOf[f] = o, !.members[o] = Append(@, f)])

\* Mutant of OnAdd: the object stays with its old parent, too.
OnAddTwice(h, o, parent) ==
  LET put == [h EXCEPT !.parent[o] = parent, !.resolved[o] = FALSE]
  IN Then(IF InRoot(put, parent) THEN HandleAdd(put, o) ELSE put,
          LAMBDA g : IF Kind(o) # "oneof" THEN g
                     ELSE AddFieldsToParent(CollectFields(g, o, parent), o))

\* onAdd of ReflectionObject and of OneOf.
OnAdd(h, o, parent) ==
  LET moved == IF h.parent[o] \in {None, parent} THEN h ELSE RemoveFrom(h, h.parent[o], o)
      put(g) == [g EXCEPT !.parent[o] = parent, !.resolved[o] = FALSE]
  IN Then(Then(Then(moved, put), LAMBDA g : IF InRoot(g, parent) THEN HandleAdd(g, o) ELSE g),
          LAMBDA g : IF Kind(o) # "oneof" THEN g
                     ELSE AddFieldsToParent(CollectFields(g, o, parent), o))

\* onRemove of ReflectionObject and of OneOf, which first removes its fields.
OnRemove(h, o, parent) ==
  LET emptied == IF Kind(o) # "oneof" THEN h
                 ELSE Each(h, h.members[o],
                           LAMBDA g, f : IF g.parent[f] = None THEN g
                                         ELSE RemoveFrom(g, g.parent[f], f))
      off(g) == [g EXCEPT !.parent[o] = None, !.resolved[o] = FALSE]
  IN Then(Then(emptied, LAMBDA g : IF InRoot(g, parent) THEN HandleRemove(g, o) ELSE g), off)

\* The caches of parent are cleared last: an exception on the way leaves them.
Added(h, o, parent, clear(_)) == Then(Halfway(OnAdd(h, o, parent), parent), clear)
Removed(h, o, parent, clear(_)) == Then(Halfway(OnRemove(h, o, parent), parent), clear)

\* Mutant of NamespaceAdd: the members of the other are not taken over.
NamespaceAddReplaces(h, ns, o) ==
  LET prev == Get(h, ns, h.name[o])
  IN IF prev # None /\ ~(Kind(prev) = "namespace" /\ IsNamespace(o)) THEN Raise(h, "duplicate name")
     ELSE Then(IF prev = None THEN h ELSE RemoveFrom(h, ns, prev),
               LAMBDA g : Added([g EXCEPT !.nested[ns] = Append(@, o)], o, ns,
                                LAMBDA f : ClearNested(f, ns)))

\* A plain namespace gives its members to the one that takes its place.
GiveWay(h, ns, prev, o) ==
  Then(Each(ReadNested(h, prev), NestedArray(h, prev), LAMBDA g, n : AddTo(g, o, n)),
       LAMBDA g : RemoveFrom(g, ns, prev))

NamespaceAdd(h, ns, o) ==
  LET prev == Get(h, ns, h.name[o])
  IN IF ~(IsExtension(o) \/ Kind(o) = "enum" \/ IsNamespace(o)) THEN Raise(h, "TypeError")
     ELSE IF prev # None /\ ~(Kind(prev) = "namespace" /\ IsNamespace(o))
     THEN Raise(h, "duplicate name")
     ELSE Then(IF prev = None THEN h ELSE GiveWay(h, ns, prev, o),
               LAMBDA g : Added([g EXCEPT !.nested[ns] = Append(@, o)], o, ns,
                                LAMBDA f : ClearNested(f, ns)))

IsReserved(o, id) == id \in Decl[o].reserved

TypeAdd(h, t, o) ==
  LET byId == ReadById(h, t)
      freed == IF h.parent[o] = None THEN byId ELSE RemoveFrom(byId, h.parent[o], o)
      clear(g) == ClearType(g, t)
  IN CASE Get(h, t, h.name[o]) # None -> Raise(h, "duplicate name")
       [] Kind(o) = "field" /\ ~IsExtension(o) ->
            IF \E f \in Range(byId.fieldsById[t]) : Decl[f].id = Decl[o].id
            THEN Raise(byId, "duplicate id")
            ELSE IF IsReserved(t, Decl[o].id) THEN Raise(byId, "reserved")
            ELSE Then(freed, LAMBDA g :
                        Added([g EXCEPT !.fields[t] = Append(@, o)], o, t, clear))
       [] Kind(o) = "oneof" -> Added([h EXCEPT !.oneofs[t] = Append(@, o)], o, t, clear)
       [] OTHER -> NamespaceAdd(h, t, o)

\* A method is put in its service and not taken from another.
ServiceAdd(h, s, o) ==
  IF Get(h, s, h.name[o]) # None THEN Raise(h, "duplicate name")
  ELSE IF Kind(o) = "method"
  THEN [h EXCEPT !.fields[s] = Append(@, o), !.parent[o] = s, !.fieldsArray[s] = Unset]
  ELSE NamespaceAdd(h, s, o)

OneOfAdd(h, oneof, f) ==
  LET freed == IF h.parent[f] \in {None, h.parent[oneof]} THEN h ELSE RemoveFrom(h, h.parent[f], f)
      join(g) == [g EXCEPT !.oneof[oneof] = Append(@, g.name[f]),
                           !.members[oneof] = Append(@, f), !.partOf[f] = oneof]
  IN IF Kind(f) # "field" THEN Raise(h, "TypeError")
     ELSE Then(Then(freed, join), LAMBDA g : AddFieldsToParent(g, oneof))

\* Enum.add, without the option allow_alias.
EnumAdd(h, enum, name, id) ==
  CASE \E v \in Range(h.values[enum]) : v.name = name -> Raise(h, "duplicate name")
    [] IsReserved(enum, id) -> Raise(h, "reserved")
    [] \E v \in Range(h.values[enum]) : v.id = id -> Raise(h, "duplicate id")
    [] OTHER -> [h EXCEPT !.values[enum] = Append(@, [name |-> name, id |-> id])]

NamespaceRemove(h, ns, o) ==
  IF h.parent[o] # ns THEN Raise(h, "not a member")
  ELSE Removed([h EXCEPT !.nested[ns] = Remove(@, o)], o, ns, LAMBDA g : ClearNested(g, ns))

TypeRemove(h, t, o) ==
  LET plain == Kind(o) = "field" /\ ~IsExtension(o)
      without == IF plain THEN [h EXCEPT !.fields[t] = Remove(@, o), !.parent[o] = None]
                 ELSE [h EXCEPT !.oneofs[t] = Remove(@, o), !.parent[o] = None]
  IN IF ~plain /\ Kind(o) # "oneof" THEN NamespaceRemove(h, t, o)
     ELSE IF o \notin Range(h.fields[t] \o h.oneofs[t]) THEN Raise(h, "not a member")
     ELSE Removed(without, o, t, LAMBDA g : ClearType(g, t))

ServiceRemove(h, s, o) ==
  IF Kind(o) # "method" THEN NamespaceRemove(h, s, o)
  ELSE IF o \notin Range(h.fields[s]) THEN Raise(h, "not a member")
  ELSE [h EXCEPT !.fields[s] = Remove(@, o), !.parent[o] = None, !.fieldsArray[s] = Unset]

\* OneOf.remove: the field stays in the type.
OneOfRemove(h, oneof, f) ==
  IF f \notin Range(h.members[oneof]) THEN Raise(h, "not a member")
  ELSE [h EXCEPT !.members[oneof] = Remove(@, f),
                 !.oneof[oneof] = Remove(@, h.name[f]), !.partOf[f] = None]

Change(h, method, parent, o) ==
  CASE method = "add" /\ Kind(parent) = "type" -> TypeAdd(h, parent, o)
    [] method = "add" /\ Kind(parent) = "service" -> ServiceAdd(h, parent, o)
    [] method = "add" /\ Kind(parent) = "oneof" -> OneOfAdd(h, parent, o)
    [] method = "add" /\ Kind(parent) \in {"root", "namespace"} -> NamespaceAdd(h, parent, o)
    [] method = "remove" /\ Kind(parent) = "type" -> TypeRemove(h, parent, o)
    [] method = "remove" /\ Kind(parent) = "service" -> ServiceRemove(h, parent, o)
    [] method = "remove" /\ Kind(parent) \in {"root", "namespace"} -> NamespaceRemove(h, parent, o)
    [] method = "remove" /\ Kind(parent) = "oneof" -> OneOfRemove(h, parent, o)
    [] OTHER -> Raise(h, "TypeError")

\* define: the namespaces of a path, created where they are missing.
RECURSIVE Define(_, _, _)
Define(h, ns, path) ==
  IF Failed(h) \/ path = <<>> THEN [heap |-> h, ns |-> ns]
  ELSE LET found == Named(h, h.nested[ns], <<Head(path)>>)
           new == Package(Tail(FullName(h, ns) \o <<Head(path)>>))
       IN IF found = <<>> THEN Define(AddTo(h, ns, new), new, Tail(path))
          ELSE IF ~IsNamespace(Head(found))
          THEN [heap |-> Raise(h, "path conflict"), ns |-> ns]
          ELSE Define(h, Head(found), Tail(path))
-----------------------------------------------------------------------------
(* Resolving the names of types, and the generated functions.              *)

Resolved(h, o) == [h EXCEPT !.resolved[o] = @ \/ InRoot(h, o)]

\* Field.resolve makes the constructor of its type, which resolves all the
\* fields of the type, this one included, before it is resolved itself.
RECURSIVE ResolveField(_, _), MakeCtor(_, _)
MakeCtor(h, t) ==
  LET listed == ReadFields(h, t)
      made == [listed EXCEPT !.ctor[t] = listed.fieldsArray[t]]
  IN IF h.ctor[t] # Unset THEN h
     ELSE Then(Each(made, made.fieldsArray[t], ResolveField),
               LAMBDA g : Each(ReadOneofs(g, t), OneofsArray(g, t), Resolved))

\* A lookup of a type throws if there is none.
LookedUp(h, l) ==
  IF l.found = None THEN Raise(AfterLookup(h, l), "no such type") ELSE AfterLookup(h, l)

Typed(h, f, l) == Then(LookedUp(h, l), LAMBDA g : [g EXCEPT !.resolvedType[f] = l.found])

\* The type of a field is that which its declaration names.
ResolveType(h, f) ==
  LET declaring == IF Head(f) = "sister" THEN h.parent[Tail(f)] ELSE h.parent[f]
  IN IF Decl[f].ref = <<>> THEN h
     ELSE IF declaring = None THEN Raise(h, "TypeError")
     ELSE Typed(h, f, Lookup(h, declaring, Decl[f].ref, {"type", "enum"}, FALSE))

ResolveField(h, f) ==
  IF h.resolved[f] THEN h
  ELSE Then(Then(ResolveType(h, f),
                 LAMBDA g : IF g.parent[f] # None /\ Kind(g.parent[f]) = "type"
                            THEN MakeCtor(g, g.parent[f]) ELSE g),
            LAMBDA g : Resolved(g, f))

\* Setup: what the first call of encode, decode, verify, fromObject or toObject
\* does.  All five are generated, for the fields there are now.
Generated(h, t) ==
  [h EXCEPT !.setup[t] = FieldsArray(h, t), !.objects[t] = FieldsArray(h, t)]

Setup(h, t) ==
  Then(Each(ReadFields(h, t), FieldsArray(h, t), ResolveField),
       LAMBDA g : Generated(ReadOneofs(MakeCtor(g, t), t), t))

TypeOfMethod(h, m, path) == LookedUp(h, Lookup(h, h.parent[m], path, {"type"}, FALSE))

ResolveMethod(h, m) ==
  IF h.resolved[m] THEN h
  ELSE Then(Then(TypeOfMethod(h, m, Decl[m].ref), LAMBDA g : TypeOfMethod(g, m, Decl[m].response)),
            LAMBDA g : Resolved(g, m))

\* What is nested in a service is not resolved.
ResolveService(h, s) ==
  Then(Each(ReadFields(h, s), FieldsArray(h, s), ResolveMethod), LAMBDA g : Resolved(g, s))

RECURSIVE ResolveNamespace(_, _)
ResolveNested(h, o) ==
  CASE Kind(o) = "field" -> ResolveField(h, o)
    [] Kind(o) = "service" -> ResolveService(h, o)
    [] IsNamespace(o) /\ Kind(o) # "service" -> ResolveNamespace(h, o)
    [] OTHER -> Resolved(h, o)

\* The fields and the oneofs of a type, which other namespaces do not have.
ResolveMembers(h, t) ==
  Then(Each(ReadFields(h, t), FieldsArray(h, t), ResolveField),
       LAMBDA g : Each(ReadOneofs(g, t), OneofsArray(g, t), Resolved))

ResolveNamespace(h, ns) ==
  Then(Then(IF Kind(ns) = "type" THEN ResolveMembers(h, ns) ELSE h,
            LAMBDA g : Each(ReadNested(g, ns), NestedArray(g, ns), ResolveNested)),
       LAMBDA g : Resolved(g, ns))

\* resolveAll of the root.
ResolveAll(h) ==
  IF h.deferred # <<>> THEN Raise(h, "unresolvable extensions") ELSE ResolveNamespace(h, Root)
=============================================================================
