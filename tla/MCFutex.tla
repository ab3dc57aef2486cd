------------------------------ MODULE MCFutex -------------------------------
(* Instances of Futex for TLC: threads are numbers, the first of higher     *)
(* priority than the others (a smaller number).                             *)
EXTENDS Futex, TLC

MCPriority == [t \in Threads |-> IF t = 1 THEN 1 ELSE 2]

\* The words are interchangeable.
MCSymmetry == Permutations(Words)

=============================================================================
