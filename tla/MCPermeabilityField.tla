------------------------ MODULE MCPermeabilityField ------------------------
(***************************************************************************)
(* Small instance of PermeabilityField for TLC: three ranks, a row owned   *)
(* by each, and blocks that overlap and are not the rank's own rows only.  *)
(***************************************************************************)
EXTENDS PermeabilityField

MCProcs == 0 .. 2
MCRows == 0 .. 2
MCOwner == [i \in MCRows |-> i]
MCBlock == [r \in MCProcs |-> CASE r = 0 -> {0, 1} [] r = 1 -> {0, 2} [] r = 2 -> {2}]
MCScript == <<"init", "create", "create", "create", "init", "create">>
=============================================================================
