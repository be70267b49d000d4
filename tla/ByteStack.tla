------------------------------- MODULE ByteStack -------------------------------
(***************************************************************************)
(* What a program gets from a Writer of protobuf.js (ProtoWriter): a stack *)
(* of byte strings.  A call appends the bytes of a value at the top, fork  *)
(* begins another string, ldelim appends it to the one below with its      *)
(* length in front, reset drops it, and finish gives a buffer of the top,  *)
(* which nothing changes any more.                                         *)
(*                                                                         *)
(* The writer may be used on after finish, unless that takes the promise   *)
(* back, until it is empty again.                                          *)
(***************************************************************************)
EXTENDS Integers, Sequences

CONSTANTS
  Encodings,  \* the bytes of the values that are written
  Varint(_)   \* those of a length

VARIABLES
  levels,   \* the byte strings, the top first
  buffers,  \* what finish gave so far
  valid     \* does the promise hold

vars == <<levels, buffers, valid>>

Empty == << <<>> >>

Init == levels = Empty /\ buffers = <<>> /\ valid = TRUE

Below == IF Len(levels) = 1 THEN Empty ELSE Tail(levels)

Call == \E bytes \in Encodings : levels' = <<Head(levels) \o bytes>> \o Tail(levels)

Fork == levels' = << <<>> >> \o levels

Ldelim ==
  levels' = <<Head(Below) \o Varint(Len(Head(levels))) \o Head(levels)>> \o Tail(Below)

Reset == levels' = Below

Create == levels' = Empty

Change == valid' /\ UNCHANGED buffers /\ (Call \/ Fork \/ Ldelim \/ Reset \/ Create)

Finish == buffers' = Append(buffers, Head(levels)) /\ (valid' => UNCHANGED levels)

\* Nothing is said of the writer, but the buffers stay.
NoPromise ==
  /\ valid' => levels' = Empty
  /\ Len(buffers) <= Len(buffers') /\ SubSeq(buffers', 1, Len(buffers)) = buffers

Next == IF valid THEN Change \/ Finish ELSE NoPromise

Spec == Init /\ [][Next]_vars
=============================================================================
