----------------------------- MODULE MCProtoWriter -----------------------------
(***************************************************************************)
(* A 64-bit operation of two bytes, a text with a pair of surrogates, and  *)
(* bytes.  One bound is for all: the operations of the writer, the forks   *)
(* under way and, twice, the buffers.                                      *)
(***************************************************************************)
EXTENDS ProtoWriter

CONSTANT MaxSize  \* the bound

MCValues == { <<"int64", 32>>, <<"string", <<870, 895>> >>, <<"bytes", <<1>> >> }

Size ==
  Len(writer.ops) + 2 * Len(views)
    + Total([i \in DOMAIN writer.states |-> Len(writer.states[i].ops) + 1])

MCSpec == WriterInit /\ [][WriterNext /\ Size' <= MaxSize]_writerVars
=============================================================================
