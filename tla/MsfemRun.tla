------------------------------ MODULE MsfemRun ------------------------------
(***************************************************************************)
(* What Elliptic_MsFEM_Solver::apply promises: a call either hands out the *)
(* reconstruction of THIS call on every coarse cell, all at once, or (when *)
(* an exception leaves it) nothing.  An earlier call, failed or not, never *)
(* shows in a later one.                                                   *)
(***************************************************************************)
EXTENDS LocalCorrections

VARIABLES
  run,      \* calls begun
  busy,     \* a call is under way
  answer    \* the corrections handed out by the last call, << >> if none

vars == <<run, busy, answer>>

Init ==
  /\ run = 0
  /\ busy = FALSE
  /\ answer = << >>

Begin ==
  /\ ~busy
  /\ busy' = TRUE
  /\ run' = run + 1
  /\ answer' = << >>

Succeed ==
  /\ busy
  /\ busy' = FALSE
  /\ answer' = [c \in Cells |-> Reconstruction(run, c)]
  /\ UNCHANGED run

Fail ==
  /\ busy
  /\ busy' = FALSE
  /\ UNCHANGED <<run, answer>>

Next == Begin \/ Succeed \/ Fail

Spec == Init /\ [][Next]_vars
=============================================================================
