---------------------------- MODULE MCErrorReport ----------------------------
(***************************************************************************)
(* ErrorReport for TLC: all settings and failures of the calculator; two   *)
(* coarse cells side by side, each of one by two fine cells, so three      *)
(* columns and three rows of nodes, numbered row by row from 1; the nodes  *)
(* of column 2 lie on the border of the two coarse cells.                  *)
(***************************************************************************)
EXTENDS ErrorReport, TLC

CONSTANTS t1, t2

MCThreads == {t1, t2}
MCFineCells == 1 .. 4
MCNodes == 1 .. 9

\* Fine cells 1 and 2 are the lower row, 3 and 4 the upper one.
MCNodesOf == (1 :> <<1, 2, 4, 5>>) @@ (2 :> <<2, 3, 5, 6>>)
             @@ (3 :> <<4, 5, 7, 8>>) @@ (4 :> <<5, 6, 8, 9>>)
MCCoarseOf == (1 :> 1) @@ (2 :> 2) @@ (3 :> 1) @@ (4 :> 2)
=============================================================================
