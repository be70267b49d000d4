--------------------------- MODULE UniqueIdSource ---------------------------
(***************************************************************************)
(* What the generator promises its callers, without clock, threads or      *)
(* locks: a sequence of numbers that is only ever extended, by a number it *)
(* does not contain yet.                                                   *)
(***************************************************************************)
EXTENDS Sequences, Integers

CONSTANT Numbers

VARIABLE numbers    \* the numbers handed out so far

Given == {numbers[i] : i \in 1 .. Len(numbers)}

Init == numbers = <<>>

HandOut(n) ==
  /\ n \notin Given
  /\ numbers' = Append(numbers, n)

Next == \E n \in Numbers : HandOut(n)

Spec == Init /\ [][Next]_numbers
=============================================================================
