----------------------------- MODULE ProtoLoader -----------------------------
(***************************************************************************)
(* RootLoad with what the files hold: a reply is parsed into the tree of   *)
(* ProtoReflection, and throws if that does.  Between the replies the page *)
(* encodes, resolves, and changes the tree.                                *)
(***************************************************************************)
EXTENDS ProtoReflection, RootLoad

CONSTANTS
  Content,   \* what each file holds: see ContentAssumption
  Touched,   \* the objects that the page uses, removes and moves
  MaxEvents, \* bound: requests that fail and changes of the tree by the page
  Whole      \* the tree that all the files make: full names, kinds and oneofs

\* json: is it a JSON file; package: a path; body: what is declared, in order,
\* each with its token, its object and its own body.  A token of a wrong place
\* is "illegal".
ContentAssumption ==
  /\ DOMAIN Content = File
  /\ Touched \subseteq Object
  /\ MaxEvents \in Nat

ASSUME ContentAssumption

VARIABLES
  removed,  \* history: the objects the page removed
  edits, errors

vars == <<heap, loading, removed, edits, errors>>

TypeOK ==
  /\ LoadTypeOK
  /\ \A l \in Loads : queued[l] = Cardinality(PendingOf(l))
  /\ DOMAIN heap = DOMAIN NewHeap /\ ~Failed(heap)
  /\ removed \subseteq Touched
  /\ edits \in Nat /\ errors \in Nat /\ edits + errors <= MaxEvents

Init ==
  /\ LoadInit
  /\ heap = NewHeap
  /\ removed = {}
  /\ edits = 0 /\ errors = 0

-----------------------------------------------------------------------------
(* Parsing.                                                                *)

RECURSIVE Declare(_, _, _), AddJSON(_, _, _)

\* ifBlock: the declarations between the braces, each with the object around.
Block(h, o, d) == Each(h, d.body, LAMBDA g, inner : Declare(g, o, inner))

\* parseType: what is inside is added first, then the type to its parent; the
\* same of a service and of a oneof, whose fields are in no type until then.
DeclareType(h, parent, d) ==
  Then(Block(h, d.object, d), LAMBDA g : AddTo(g, parent, d.object))

DeclareField(h, parent, d) == AddTo(h, parent, d.object)

\* A group is a type and a field, both of the parent.
DeclareGroup(h, parent, d) ==
  Then(DeclareType(h, parent, d), LAMBDA g : AddTo(g, parent, d.field))

DeclareEnum(h, parent, d) ==
  Then(Each(h, d.values, LAMBDA g, v : EnumAdd(g, d.object, v.name, v.id)),
       LAMBDA g : AddTo(g, parent, d.object))

\* The fields of an extension block belong to what is around it.
DeclareExtension(h, parent, d) == Block(h, parent, d)

Declare(h, parent, d) ==
  CASE d.token \in {"message", "service", "oneof"} -> DeclareType(h, parent, d)
    [] d.token = "enum" -> DeclareEnum(h, parent, d)
    [] d.token = "extend" -> DeclareExtension(h, parent, d)
    [] d.token = "group" -> DeclareGroup(h, parent, d)
    [] d.token \in {"field", "rpc"} -> DeclareField(h, parent, d)
    [] OTHER -> Raise(h, "illegal token")

\* fromJSON of a type: its fields, its oneofs, then what is nested; and of the
\* others, which have less.
FromJSON(h, d) ==
  LET of(token) == SelectSeq(d.body, LAMBDA inner : inner.token = token)
      others == SelectSeq(d.body, LAMBDA inner : inner.token \notin {"field", "oneof"})
  IN Each(h, of("field") \o of("oneof") \o others,
          LAMBDA g, inner : AddJSON(g, d.object, inner))

AddJSON(h, parent, d) == Then(FromJSON(h, d), LAMBDA g : AddTo(g, parent, d.object))

DeclareAll(at, body) == Each(at.heap, body, LAMBDA g, d : Declare(g, at.ns, d))

\* parse, and addJSON of the root for a text that begins with a brace.
Parse(h, file) ==
  LET c == Content[file]
  IN IF c.json THEN Each(h, c.body, LAMBDA g, d : AddJSON(g, Root, d))
     ELSE DeclareAll(Define(h, Root, c.package), c.body)

Quiet == UNCHANGED <<removed, edits, errors>>
Fault == edits + errors < MaxEvents /\ errors' = errors + 1 /\ UNCHANGED <<heap, removed, edits>>

\* What the parser made of the text stays, also when it threw.
Kept(h) == [h EXCEPT !.threw = ""]

LoadFiles(l) == Load(l) /\ UNCHANGED heap /\ Quiet

ReplyMakes(f, h) ==
  /\ Reply(f, Failed(h))
  /\ heap' = IF callback[owner[f]] = "waiting" THEN Kept(h) ELSE heap

ReplyParsed(f) == f \in pending /\ ReplyMakes(f, Parse(heap, f)) /\ Quiet

TimerMakes(f, h) == Timer(f, Failed(h)) /\ heap' = Kept(h)

TimerParsed(f) == f \in pending /\ TimerMakes(f, Parse(heap, f)) /\ Quiet

Lost(f) == (ReplyEmpty(f) \/ ReplyError(f)) /\ Fault

-----------------------------------------------------------------------------
(* The page uses and changes the tree.                                     *)

\* An exception is thrown to the page.
PageCall(h) ==
  /\ heap' = Kept(h)
  /\ UNCHANGED <<loading, errors>>

\* The first encode or decode of a type of the tree.
Use(t) ==
  /\ Kind(t) = "type" /\ InRoot(heap, t) /\ heap.setup[t] = Unset
  /\ PageCall(Setup(heap, t)) /\ UNCHANGED <<removed, edits>>

Edit(h) == edits + errors < MaxEvents /\ edits' = edits + 1 /\ PageCall(h)

PageResolveAll == Edit(ResolveAll(heap)) /\ UNCHANGED removed

RECURSIVE Inside(_, _, _)
Inside(h, o, p) == o = p \/ (h.parent[o] # None /\ Inside(h, h.parent[o], p))

PageRemove(o) ==
  /\ heap.parent[o] # None
  /\ removed' = removed \cup {o}
  /\ Edit(RemoveFrom(heap, heap.parent[o], o))

\* An object is not added to its own inside.
PageAdd(parent, o) ==
  /\ parent = Root \/ heap.parent[parent] # None
  /\ Kind(parent) \in {"root", "namespace", "type", "oneof"}
  /\ o \in removed \/ heap.parent[o] # None
  /\ ~Inside(heap, parent, o)
  /\ UNCHANGED removed
  /\ Edit(AddTo(heap, parent, o))

PageRemoveFromOneOf(o, f) ==
  /\ f \in Range(heap.members[o])
  /\ UNCHANGED removed
  /\ Edit(OneOfRemove(heap, o, f))

Next ==
  \/ \E l \in Loads : LoadFiles(l)
  \/ \E f \in File : ReplyParsed(f) \/ TimerParsed(f) \/ Lost(f)
  \/ \E o \in Touched : Use(o) \/ PageRemove(o)
  \/ PageResolveAll
  \/ \E p \in Touched \cup {Root}, o \in Touched : PageAdd(p, o) \/ PageRemoveFromOneOf(p, o)

Spec == Init /\ [][Next]_vars
FairSpec == Spec /\ LoadFairness

-----------------------------------------------------------------------------
(* The reflection tree.  What an exception left halfway is excepted.       *)

InTree(h, o) == o = Root \/ (h.parent[o] # None /\ InRoot(h, o))

Inner(ns) == heap.fields[ns] \o heap.oneofs[ns] \o heap.nested[ns]

\* Parents and members agree, and no two members of a namespace have one name.
TreeConsistent ==
  /\ \A ns \in Object \ heap.broken :
       /\ \A o \in Range(Inner(ns)) : heap.parent[o] = ns
       /\ Cardinality({heap.name[o] : o \in Range(Inner(ns))}) = Len(Inner(ns))
  /\ \A o \in Object : heap.parent[o] \notin heap.broken \cup {None}
       => o \in Range(Inner(heap.parent[o]))

\* What is kept beside the tree is that of now: the arrays of members, and the
\* functions encode, decode and verify, which are for the fields the type has.
CachesFresh ==
  \A ns \in Object \ heap.broken :
    /\ heap.nestedArray[ns] \in {Unset, heap.nested[ns]}
    /\ heap.fieldsArray[ns] \in {Unset, heap.fields[ns]}
    /\ heap.fieldsById[ns] \in {Unset, heap.fields[ns]}
    /\ heap.oneofsArray[ns] \in {Unset, heap.oneofs[ns]}
    /\ heap.setup[ns] \in {Unset, heap.fields[ns]}

Extensions == {f \in Object : IsExtension(f)}

\* An extension in the tree has its sister in a type, or it is deferred and
\* there is no such type; and every sister in the tree is that of an extension
\* in the tree.
ExtensionsApplied ==
  \A f \in Extensions \ heap.broken :
    /\ InTree(heap, f) =>
         IF heap.extensionField[f] # None
         THEN /\ f \notin Range(heap.deferred)
              /\ Sister(f) \in Range(heap.fields[heap.parent[Sister(f)]])
         ELSE /\ f \in Range(heap.deferred)
              /\ heap.broken = {} =>
                   Lookup(heap, heap.parent[f], Decl[f].extend, Kinds, FALSE).found = None
    /\ InTree(heap, Sister(f)) => InTree(heap, f) /\ heap.extensionField[f] = Sister(f)

\* The tree as its user sees it: full names, and where the extensions went.
Members(h) == {o \in Object : InTree(h, o)}
Shape(h) == {<<FullName(h, o), Kind(o), h.partOf[o]>> : o \in Members(h)}

\* The files may be parsed in any order.
InParallel ==
  edits = 0 /\ (\A f \in File : outcome[f] = "parsed") => Shape(heap) = Whole

\* A reply takes nothing out of the tree, unless its parsing throws.
NothingLost ==
  [][edits' = edits /\ heap'.broken = heap.broken =>
       Members(heap) \subseteq Members(heap') \cup {Package(Content[f].package) : f \in File}]_vars
=============================================================================
