------------------------------- MODULE MCVmm -------------------------------
(***************************************************************************)
(* A small instance of Vmm: room for five kernel stacks, of which the      *)
(* kernel needs three itself, and eight pages of device memory; programs   *)
(* of up to two segments; pages of two units.                              *)
(***************************************************************************)
EXTENDS Vmm, TLC

\* Two that overlap, one that the other then refuses, one that reaches into the stack.
MCSegments == {Region(4, 2), Region(5, 1), Region(6, 3)}

\* A table that ends in the second page, one that ends with it, one that does not
\* end there, and two with more than two pages.
MCTables == { [offset |-> 1, length |-> 2, low |-> FALSE, madt |-> FALSE],
              [offset |-> 0, length |-> 4, low |-> FALSE, madt |-> TRUE],
              [offset |-> 1, length |-> 4, low |-> FALSE, madt |-> FALSE],
              [offset |-> 0, length |-> 5, low |-> FALSE, madt |-> FALSE],
              [offset |-> 1, length |-> 5, low |-> TRUE, madt |-> TRUE] }

Symmetry == Permutations(Procs)
=============================================================================
