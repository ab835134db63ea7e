---------------------------- MODULE MCRenaArena ----------------------------
(***************************************************************************)
(* Two C++ arenas on a small heap, in units of eight bytes: a header of    *)
(* four units, pages of sixteen by default and of thirty-two at most.      *)
(***************************************************************************)
EXTENDS RenaArena, TLC

CONSTANTS ast_arena, result_arena

MCOwners == {ast_arena, result_arena}
Symmetry == Permutations(MCOwners)

MCDefaultPageSize == 16
MCLargePageSize == 32
MCInitialSizes == {0, 5}
MCMaxGrowSizes == {0, 8}
MCSizes == {0, 3, 16}
MCAligns == {1, 16}
=============================================================================
