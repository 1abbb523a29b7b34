------------------------------ MODULE Diffusions ------------------------------
(***************************************************************************)
(* The diffusion ProblemContainer makes (problems/selector.cc): make_f     *)
(* looks the class up by problem.name, and only the one it finds ever runs. *)
(* "Random" is PermeabilityBlock, "SPE10" and "Tarbert" are Reservoir.     *)
(***************************************************************************)
EXTENDS Reservoir

CONSTANTS MaxLog2Seg, MaxLog2Proc, Overlaps  \* the bounds of PermeabilityBlock

ASSUME BoundsAssumption ==
  /\ MaxLog2Seg \in [{2, 3} -> Nat \ {0}]
  /\ MaxLog2Proc \in [{2, 3} -> Nat]
  /\ Overlaps \subseteq Nat

VARIABLES DIM, N, nProc, iProc, overlap, iMin, iMax, size, row, perm, dest, blockPc

blockVars == <<DIM, N, nProc, iProc, overlap, iMin, iMax, size, row, perm, dest, blockPc>>

Block == INSTANCE PermeabilityBlock WITH pc <- blockPc
Random == problem = "Random"

Idle ==
  /\ problem = "Random" /\ workers = {} /\ file = Missing
  /\ permeability = Missing /\ stage = "construct"
  /\ intervals = Nothing /\ matrix = Nothing
  /\ pc = << >> /\ dim = << >> /\ point = << >> /\ offset = << >> /\ value = << >>

NoBlock ==
  /\ DIM = 2 /\ N = 2 /\ nProc = 1 /\ iProc = 0 /\ overlap = 0
  /\ Block!Init

MakeF == (Idle /\ Block!Init) \/ (ReservoirInit /\ NoBlock)

DiffusionsNext ==
  \/ Random /\ Block!Next /\ UNCHANGED vars
  \/ ~Random /\ ReservoirNext /\ UNCHANGED blockVars
DiffusionsSpec == MakeF /\ [][DiffusionsNext]_<<vars, blockVars>>

-----------------------------------------------------------------------------
\* What a rank of the problem "Random" fetches and evaluates are the values of
\* its own block, and the blocks of the ranks have every segment
\* (random_permeability.hh: setRange, redistribute, operator()).
BlockInterpolates == Random => Block!Interpolates
BlockSegmentsDistributed == Random => Block!SegmentsDistributed
=============================================================================
