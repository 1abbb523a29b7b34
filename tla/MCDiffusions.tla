---------------------------- MODULE MCDiffusions ----------------------------
(***************************************************************************)
(* Up to 8 segments and 16 ranks in two dimensions, 4 segments and 8 ranks *)
(* in three; a reservoir of 2 x 3 x 2 blocks, two threads, two points in   *)
(* different blocks of every direction and the upper right corner.         *)
(***************************************************************************)
EXTENDS Diffusions

MCMaxLog2Seg == [d \in {2, 3} |-> IF d = 2 THEN 3 ELSE 2]
MCMaxLog2Proc == [d \in {2, 3} |-> IF d = 2 THEN 4 ELSE 3]
MCBlocks == [d \in Dims |-> IF d = 1 THEN 3 ELSE 2]
At(x, y, z) == [d \in Dims |-> CASE d = 0 -> x [] d = 1 -> y [] OTHER -> z]
MCPoints == {At(0, 1, 0), At(3, 5, 2), At(4, 6, 4)}
=============================================================================
