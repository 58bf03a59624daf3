------------------------------- MODULE MCVfs -------------------------------
(***************************************************************************)
(* A small instance of Vfs: one file; two that strncmp tells apart; two    *)
(* that differ in the first character only; more than file_headers holds.  *)
(* Sizes are none, a part of a block, one block, and more.                 *)
(***************************************************************************)
EXTENDS Vfs, TLC

aa == <<"a", "a">>
ab == <<"a", "b">>
bb == <<"b", "b">>

Member(name, size) == [name |-> name, size |-> size]

MCArchives == { <<Member(aa, 3)>>,
                <<Member(aa, 4), Member(ab, 0)>>,
                <<Member(ab, 9), Member(bb, 5)>>,
                <<Member(aa, 0), Member(ab, 8), Member(bb, 1)>> }
MCPaths    == {<<>>, aa, ab, bb}

Symmetry == Permutations(Procs)
=============================================================================
