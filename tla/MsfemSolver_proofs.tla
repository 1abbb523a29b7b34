------------------------- MODULE MsfemSolver_proofs -------------------------
(***************************************************************************)
(* Proofs about MsfemSolver for every set of threads and cells, every      *)
(* number of shape functions and every number of calls.                    *)
(*                                                                         *)
(* The inductive invariant SolverInv says, stage by stage, what the store, *)
(* the coarse system and the corrections hold for a cell: while a cell is  *)
(* Open in a walk it still holds what the stage began with, afterwards     *)
(* what the stage leaves.                                                  *)
(***************************************************************************)
EXTENDS MsfemSolver, SequenceTheorems, TLAPS

\* The walk has not finished with the cell.
Open(c) == c \in todo \/ \E t \in Threads : pc[t] # "idle" /\ cell[t] = c

Visits ==
  /\ \A t, u \in Threads :
       t # u /\ pc[t] # "idle" /\ pc[u] # "idle" => cell[t] # cell[u]
  /\ \A t \in Threads :
       /\ pc[t] # "idle" => cell[t] \notin todo
       /\ pc[t] \in {"solve", "save"} => stage = "solve"
       /\ pc[t] \in {"load", "read"} => stage = "assemble"
       /\ pc[t] = "save" => sol[t] = LocalSolutions(run, cell[t])

Leaving ==
  /\ unwinding => todo = {} /\ stage \in {"out", "solve", "coarse"}
  /\ stage # "out" => run # 0
  /\ stage \in {"out", "coarse", "add", "leave"} => todo = {}
  /\ stage \in {"solve", "assemble", "coarse", "identify"} => solution = Nothing

InSolve ==
  stage = "solve" =>
    \A c \in Cells : /\ system[c] = << >>
                     /\ memory[c] \in {<< >>, LocalSolutions(run, c)}
                     /\ Open(c) => memory[c] = << >>
                     /\ ~unwinding /\ ~Open(c) => memory[c] = LocalSolutions(run, c)

InAssembly ==
  stage = "assemble" =>
    \A c \in Cells : /\ memory[c] = LocalSolutions(run, c)
                     /\ Open(c) => system[c] = << >>
                     /\ ~Open(c) => system[c] = <<LocalSolutions(run, c)>>

InCoarse ==
  stage = "coarse" => \A c \in Cells : memory[c] = LocalSolutions(run, c)

InIdentify ==
  stage = "identify" =>
    \A c \in Cells :
      /\ c \in todo => memory[c] = LocalSolutions(run, c)
      /\ c \notin todo => correction[c] = Identified(LocalSolutions(run, c))

InAdd ==
  stage = "add" => solution = [c \in Cells |-> Identified(LocalSolutions(run, c))]

InLeave ==
  stage = "leave" => solution = [c \in Cells |-> Reconstruction(run, c)]

Outside == stage = "out" => \A c \in Cells : memory[c] = << >>

SolverInv ==
  /\ TypeOK
  /\ Visits
  /\ Leaving
  /\ InSolve
  /\ InAssembly
  /\ InCoarse
  /\ InIdentify
  /\ InAdd
  /\ InLeave
  /\ Outside
  /\ CoarseSystemFresh
  /\ StoreHoldsOneSave

---------------------------------------------------------------------------
(* The data.                                                               *)

\* The local solutions of a cell are a sequence as long as a manager loads.
LEMMA LocalSolutionsType ==
  ASSUME NEW r \in Nat, NEW c
  PROVE  /\ LocalSolutions(r, c) \in [Slots -> Function]
         /\ LocalSolutions(r, c) \in Seq(Function)
         /\ Len(LocalSolutions(r, c)) = NumDofs + 2
         /\ LocalSolutions(r, c) # << >>
<1>1. LocalSolutions(r, c) \in [Slots -> Function]
  BY DEF LocalSolutions, Function, Solved, Zero
<1>2. NumDofs + 2 \in Nat
  BY DofsAssumption
<1>3. LocalSolutions(r, c) \in Seq(Function)
  BY <1>1, <1>2 DEF Slots
<1>4. Len(LocalSolutions(r, c)) = NumDofs + 2
  BY <1>1, <1>2, <1>3 DEF Slots
<1>5. QED
  BY <1>1, <1>3, <1>4, DofsAssumption

\* A manager that has solved nothing holds zero functions.
LEMMA ZeroType == [s \in Slots |-> Zero] \in [Slots -> Function]
BY DEF Zero, Function

\* Multiplying with a dof gives a function, of the same call.
LEMMA ScaledType ==
  ASSUME NEW f \in Function
  PROVE  Scaled(f) \in Function /\ Scaled(f).run = f.run
BY DEF Scaled, Function

\* += and -= add terms.
LEMMA TermType ==
  ASSUME NEW what \in Slots \cup {CoarsePart}, NEW f \in Function, NEW on \in {"cell", "grid"}
  PROVE  /\ Plus(what, f, on) \in SUBSET Terms
         /\ Minus(what, f, on) \in SUBSET Terms
BY DEF Plus, Minus, Terms, Term

\* The boundary correctors follow the inner problems.
LEMMA SlotFacts ==
  /\ InnerSlots \subseteq Slots
  /\ NeumannSlot \in Slots \ InnerSlots
  /\ DirichletSlot \in Slots \ InnerSlots
BY DofsAssumption DEF InnerSlots, Slots, NeumannSlot, DirichletSlot

\* A correction is a set of terms, whatever functions were loaded.
LEMMA IdentifiedType ==
  ASSUME NEW f, \A s \in Slots : f[s] \in Function
  PROVE  Identified(f) \in SUBSET Terms
<1>1. ASSUME NEW s \in InnerSlots
      PROVE  Plus(s, Scaled(f[s]), IF Oversampling THEN "cell" ELSE "grid") \in SUBSET Terms
  <2>1. s \in Slots /\ f[s] \in Function
    BY SlotFacts
  <2>2. (IF Oversampling THEN "cell" ELSE "grid") \in {"cell", "grid"}
    OBVIOUS
  <2>3. QED
    BY <2>1, <2>2, ScaledType, TermType
<1>2. Plus(DirichletSlot, f[DirichletSlot], "grid") \in SUBSET Terms
  BY SlotFacts, TermType
<1>3. Minus(NeumannSlot, f[NeumannSlot], "grid") \in SUBSET Terms
  BY SlotFacts, TermType
<1>4. QED
  BY <1>1, <1>2, <1>3 DEF Identified

\* What identify_fine_scale_part makes of the solutions of a call, together
\* with the coarse part, is the reconstruction the call owes.
LEMMA IdentifiedIsReconstruction ==
  ASSUME NEW r \in Nat \ {0}, NEW c \in Cells
  PROVE  Identified(LocalSolutions(r, c)) \cup Plus(CoarsePart, Solved(r), "grid")
           = Reconstruction(r, c)
<1> DEFINE f == LocalSolutions(r, c)
           on == IF Oversampling THEN "cell" ELSE "grid"
           inner == { Term(s, "plus", Scaled(Solved(r)), on) : s \in InnerSlots }
<1>1. \A s \in InnerSlots : f[s] = Solved(r)
  BY SlotFacts DEF LocalSolutions
<1>2. Solved(r) \in Function /\ Solved(r).run = r /\ Scaled(Solved(r)).run = r
  BY DEF Solved, Function, Scaled
<1>3. \A s \in InnerSlots :
        Plus(s, Scaled(f[s]), on) = { Term(s, "plus", Scaled(Solved(r)), on) }
  BY <1>1, <1>2 DEF Plus
<1>4. UNION { Plus(s, Scaled(f[s]), on) : s \in InnerSlots } = inner
  <2> HIDE DEF f, on
  <2>1. QED
    BY <1>3
<1>5. CASE c \in BoundaryCells
  <2>1. f[DirichletSlot] = Solved(r) /\ f[NeumannSlot] = Solved(r)
    BY <1>5, SlotFacts DEF LocalSolutions
  <2>2. /\ Plus(DirichletSlot, f[DirichletSlot], "grid")
             = { Term(DirichletSlot, "plus", Solved(r), "grid") }
        /\ Minus(NeumannSlot, f[NeumannSlot], "grid")
             = { Term(NeumannSlot, "minus", Solved(r), "grid") }
        /\ Plus(CoarsePart, Solved(r), "grid")
             = { Term(CoarsePart, "plus", Solved(r), "grid") }
    BY <2>1, <1>2 DEF Plus, Minus
  <2> HIDE DEF f
  <2>3. QED
    BY <1>4, <1>5, <2>2 DEF Identified, Reconstruction, f
<1>6. CASE c \notin BoundaryCells
  <2>1. f[DirichletSlot] = Zero /\ f[NeumannSlot] = Zero
    BY <1>6, SlotFacts DEF LocalSolutions
  <2>2. /\ Plus(DirichletSlot, f[DirichletSlot], "grid") = {}
        /\ Minus(NeumannSlot, f[NeumannSlot], "grid") = {}
        /\ Plus(CoarsePart, Solved(r), "grid")
             = { Term(CoarsePart, "plus", Solved(r), "grid") }
    BY <2>1, <1>2 DEF Plus, Minus, Zero
  <2> HIDE DEF f
  <2>3. QED
    BY <1>4, <1>6, <2>2 DEF Identified, Reconstruction, f
<1>7. QED
  BY <1>5, <1>6

\* The promised reconstruction is a set of terms.
LEMMA ReconstructionType ==
  ASSUME NEW r \in Nat \ {0}, NEW c \in Cells
  PROVE  Reconstruction(r, c) \in SUBSET Terms
<1>1. \A s \in Slots : LocalSolutions(r, c)[s] \in Function
  BY LocalSolutionsType
<1>2. Identified(LocalSolutions(r, c)) \in SUBSET Terms
  BY <1>1, IdentifiedType
<1>3. Solved(r) \in Function
  BY DEF Solved, Function
<1>4. Plus(CoarsePart, Solved(r), "grid") \in SUBSET Terms
  BY <1>3, TermType
<1>5. QED
  BY <1>2, <1>4, IdentifiedIsReconstruction

---------------------------------------------------------------------------
(* SolverInv is inductive: one lemma per action or group of actions.       *)

\* Everything is unset before the first call.
LEMMA InitSolver == Init => SolverInv
<1> SUFFICES ASSUME Init PROVE SolverInv
  OBVIOUS
<1>1. cell \in [Threads -> Cells]
  <2> DEFINE first == CHOOSE c \in Cells : TRUE
  <2>1. first \in Cells
    BY CellsNotEmpty
  <2>2. cell = [t \in Threads |-> first]
    BY DEF Init
  <2> HIDE DEF first
  <2>3. QED
    BY <2>1, <2>2
<1>2. unwinding \in BOOLEAN /\ unwinding = FALSE
  BY Zenon DEF Init
<1>3. sol \in [Threads -> [Slots -> Function]]
  BY ZeroType DEF Init
<1>4. /\ run \in 0 .. MaxRuns
      /\ stage \in Stages
      /\ todo \in SUBSET Cells
      /\ pc \in [Threads -> {"idle", "solve", "save", "load", "read"}]
      /\ memory \in [Cells -> Seq(Function)]
      /\ system \in [Cells -> Seq(Seq(Function))]
      /\ correction \in [Cells -> SUBSET Terms]
      /\ solution \in {Nothing} \cup [Cells -> SUBSET Terms]
  BY RunsAssumption DEF Init, Stages, Nothing
<1>5. TypeOK
  BY <1>1, <1>2, <1>3, <1>4 DEF TypeOK
<1>6. StoreHoldsOneSave
  BY DEF Init, StoreHoldsOneSave
<1>7. QED
  BY <1>2, <1>5, <1>6 DEF Init, SolverInv, Visits, Leaving, InSolve, InAssembly,
     InCoarse, InIdentify, InAdd, InLeave, Outside, CoarseSystemFresh, Idle

\* A call begins with an empty store and clears what the last one left.
LEMMA EnterStep == ASSUME SolverInv, Enter PROVE SolverInv'
<1> USE DEF SolverInv, Enter
<1>1. unwinding' \in BOOLEAN /\ unwinding' = FALSE
  BY Zenon
<1>2. Idle
  BY DEF Visits, Idle, TypeOK
<1>3. TypeOK'
  BY <1>1, RunsAssumption DEF TypeOK, Stages, Nothing
<1>4. Visits'
  BY <1>2 DEF Visits, Idle, TypeOK
<1>5. Leaving'
  BY <1>1, RunsAssumption DEF Leaving, TypeOK
<1>6. InSolve'
  BY <1>1 DEF InSolve, Outside, Open
<1>7. StoreHoldsOneSave'
  BY DEF StoreHoldsOneSave
<1>8. InAssembly' /\ InCoarse' /\ InIdentify' /\ InAdd' /\ InLeave' /\ Outside' /\ CoarseSystemFresh'
  BY DEF InAssembly, InCoarse, InIdentify, InAdd, InLeave, Outside, CoarseSystemFresh
<1>9. QED
  BY <1>3, <1>4, <1>5, <1>6, <1>7, <1>8

\* A stage begins only when the one before has left every cell done.
LEMMA AssemblySteps == ASSUME SolverInv, BeginAssembly \/ EndAssembly PROVE SolverInv'
<1> USE DEF SolverInv
<1>1. CASE BeginAssembly
  <2> USE DEF BeginAssembly
  <2>1. \A c \in Cells : ~Open(c)
    BY <1>1 DEF WalkOver, Idle, Open
  <2>2. \A c \in Cells : memory[c] = LocalSolutions(run, c) /\ system[c] = << >>
    BY <1>1, <2>1 DEF InSolve
  <2>3. TypeOK' /\ Visits' /\ Leaving'
    BY <1>1 DEF TypeOK, Stages, Visits, Leaving, WalkOver, Idle
  <2>4. InAssembly'
    BY <1>1, <2>2 DEF InAssembly, Open
  <2>5. StoreHoldsOneSave'
    BY <1>1 DEF StoreHoldsOneSave
  <2>6. InSolve' /\ InCoarse' /\ InIdentify' /\ InAdd' /\ InLeave' /\ Outside' /\ CoarseSystemFresh'
    BY <1>1 DEF InSolve, InCoarse, InIdentify, InAdd, InLeave, Outside, CoarseSystemFresh
  <2>7. QED
    BY <2>3, <2>4, <2>5, <2>6
<1>2. CASE EndAssembly
  <2> USE DEF EndAssembly
  <2>1. \A c \in Cells : ~Open(c)
    BY <1>2 DEF WalkOver, Idle, Open
  <2>2. TypeOK' /\ Visits' /\ Leaving'
    BY <1>2 DEF TypeOK, Stages, Visits, Leaving, WalkOver, Idle
  <2>3. InCoarse' /\ CoarseSystemFresh'
    BY <1>2, <2>1 DEF InAssembly, InCoarse, CoarseSystemFresh
  <2>4. StoreHoldsOneSave'
    BY <1>2 DEF StoreHoldsOneSave
  <2>5. InSolve' /\ InAssembly' /\ InIdentify' /\ InAdd' /\ InLeave' /\ Outside'
    BY <1>2 DEF InSolve, InAssembly, InIdentify, InAdd, InLeave, Outside
  <2>6. QED
    BY <2>2, <2>3, <2>4, <2>5
<1>3. QED
  BY <1>1, <1>2

\* The coarse solve keeps the store and the system, whether it fails or not.
LEMMA CoarseSteps == ASSUME SolverInv, CoarseSolve \/ CoarseSolveFails PROVE SolverInv'
<1> USE DEF SolverInv
<1>1. CASE CoarseSolve
  <2> USE DEF CoarseSolve
  <2>1. TypeOK' /\ Visits' /\ Leaving'
    BY <1>1 DEF TypeOK, Stages, Visits, Leaving
  <2>2. InIdentify'
    BY <1>1 DEF InCoarse, InIdentify
  <2>3. CoarseSystemFresh' /\ StoreHoldsOneSave'
    BY <1>1 DEF CoarseSystemFresh, StoreHoldsOneSave
  <2>4. InSolve' /\ InAssembly' /\ InCoarse' /\ InAdd' /\ InLeave' /\ Outside'
    BY <1>1 DEF InSolve, InAssembly, InCoarse, InAdd, InLeave, Outside
  <2>5. QED
    BY <2>1, <2>2, <2>3, <2>4
<1>2. CASE CoarseSolveFails
  <2> USE DEF CoarseSolveFails
  <2>1. unwinding' \in BOOLEAN
    BY <1>2, Zenon
  <2>2. TypeOK' /\ Visits' /\ Leaving'
    BY <1>2, <2>1 DEF TypeOK, Stages, Visits, Leaving
  <2>3. InCoarse' /\ CoarseSystemFresh' /\ StoreHoldsOneSave'
    BY <1>2 DEF InCoarse, CoarseSystemFresh, StoreHoldsOneSave
  <2>4. InSolve' /\ InAssembly' /\ InIdentify' /\ InAdd' /\ InLeave' /\ Outside'
    BY <1>2 DEF InSolve, InAssembly, InIdentify, InAdd, InLeave, Outside
  <2>5. QED
    BY <2>2, <2>3, <2>4
<1>3. QED
  BY <1>1, <1>2

\* The loop body scales the stored functions of its own cell only.
LEMMA IdentifySteps ==
  ASSUME SolverInv, NEW c \in Cells, IdentifyCell(c)
  PROVE  SolverInv'
<1> USE DEF SolverInv, IdentifyCell
<1>1. memory[c] = LocalSolutions(run, c)
  BY DEF InIdentify
<1>2. run \in Nat
  BY DEF TypeOK
<1>3. /\ memory[c] \in Seq(Function)
      /\ Len(memory[c]) = NumDofs + 2
      /\ \A s \in Slots : memory[c][s] \in Function
  BY <1>1, <1>2, LocalSolutionsType
<1> DEFINE new == [i \in DOMAIN memory[c] |->
                     IF i \in InnerSlots THEN Scaled(memory[c][i]) ELSE memory[c][i]]
<1>4. new \in Seq(Function) /\ Len(new) = NumDofs + 2
  <2>1. DOMAIN memory[c] = 1 .. NumDofs + 2 /\ NumDofs + 2 \in Nat
    BY <1>3, DofsAssumption
  <2>2. \A i \in 1 .. NumDofs + 2 : memory[c][i] \in Function /\ Scaled(memory[c][i]) \in Function
    BY <1>3, ScaledType DEF Slots
  <2>3. new = [i \in 1 .. NumDofs + 2 |->
                 IF i \in InnerSlots THEN Scaled(memory[c][i]) ELSE memory[c][i]]
    BY <2>1
  <2> HIDE DEF new
  <2>4. new \in [1 .. NumDofs + 2 -> Function]
    BY <2>2, <2>3
  <2>5. QED
    BY <2>1, <2>4
<1>5. memory' = [memory EXCEPT ![c] = new]
  BY Zenon
<1> HIDE DEF new
<1>6. Identified(memory[c]) \in SUBSET Terms
  BY <1>3, IdentifiedType
<1>7. TypeOK'
  <2>1. correction' \in [Cells -> SUBSET Terms]
    BY <1>6 DEF TypeOK
  <2>2. memory' \in [Cells -> Seq(Function)]
    BY <1>4, <1>5 DEF TypeOK
  <2>3. QED
    BY <2>1, <2>2 DEF TypeOK
<1>8. Visits' /\ Leaving'
  BY DEF Visits, Leaving, TypeOK
<1>9. InIdentify'
  BY <1>1, <1>5 DEF InIdentify, TypeOK
<1>10. StoreHoldsOneSave'
  BY <1>4, <1>5 DEF StoreHoldsOneSave, TypeOK
<1>11. CoarseSystemFresh'
  BY DEF CoarseSystemFresh
<1>12. InSolve' /\ InAssembly' /\ InCoarse' /\ InAdd' /\ InLeave' /\ Outside'
  BY DEF InSolve, InAssembly, InCoarse, InAdd, InLeave, Outside
<1>13. QED
  BY <1>7, <1>8, <1>9, <1>10, <1>11, <1>12

\* The proxy gets every correction, then the coarse part on top.
LEMMA ProxySteps == ASSUME SolverInv, MakeProxy \/ AddCoarse PROVE SolverInv'
<1> USE DEF SolverInv
<1>1. CASE MakeProxy
  <2> USE DEF MakeProxy, AllIdentified
  <2>1. TypeOK' /\ Visits' /\ Leaving'
    BY <1>1 DEF TypeOK, Stages, Visits, Leaving
  <2>2. InAdd'
    BY <1>1 DEF InIdentify, InAdd, TypeOK
  <2>3. CoarseSystemFresh' /\ StoreHoldsOneSave'
    BY <1>1 DEF CoarseSystemFresh, StoreHoldsOneSave
  <2>4. InSolve' /\ InAssembly' /\ InCoarse' /\ InIdentify' /\ InLeave' /\ Outside'
    BY <1>1 DEF InSolve, InAssembly, InCoarse, InIdentify, InLeave, Outside
  <2>5. QED
    BY <2>1, <2>2, <2>3, <2>4
<1>2. CASE AddCoarse
  <2> USE DEF AddCoarse
  <2>1. run \in Nat \ {0}
    BY <1>2 DEF TypeOK, Leaving
  <2>2. \A c \in Cells : solution[c] = Identified(LocalSolutions(run, c))
    BY <1>2 DEF InAdd
  <2>3. \A c \in Cells :
          solution[c] \cup Plus(CoarsePart, Solved(run), "grid") = Reconstruction(run, c)
    BY <2>1, <2>2, IdentifiedIsReconstruction
  <2>4. solution' = [c \in Cells |-> Reconstruction(run, c)]
    BY <1>2, <2>3
  <2>5. \A c \in Cells : Reconstruction(run, c) \in SUBSET Terms
    BY <2>1, ReconstructionType
  <2>6. TypeOK'
    BY <1>2, <2>4, <2>5 DEF TypeOK, Stages
  <2>7. Visits' /\ Leaving'
    BY <1>2 DEF Visits, Leaving
  <2>8. InLeave'
    BY <1>2, <2>4 DEF InLeave
  <2>9. CoarseSystemFresh' /\ StoreHoldsOneSave'
    BY <1>2 DEF CoarseSystemFresh, StoreHoldsOneSave
  <2>10. InSolve' /\ InAssembly' /\ InCoarse' /\ InIdentify' /\ InAdd' /\ Outside'
    BY <1>2 DEF InSolve, InAssembly, InCoarse, InIdentify, InAdd, Outside
  <2>11. QED
    BY <2>6, <2>7, <2>8, <2>9, <2>10
<1>3. QED
  BY <1>1, <1>2

\* The guard empties the store on both ways out.
LEMMA LeaveSteps == ASSUME SolverInv, Return \/ Unwind PROVE SolverInv'
<1> USE DEF SolverInv, Return, Unwind, Threw, ClearStore
<1>1. /\ stage' = "out"
      /\ memory' = [c \in Cells |-> << >>]
      /\ UNCHANGED <<run, todo, pc, cell, sol, system, correction, solution, unwinding>>
  OBVIOUS
<1>2. Idle /\ todo = {}
  BY DEF Visits, Leaving, WalkOver, Idle, TypeOK
<1> HIDE DEF Return, Unwind, Threw, ClearStore
<1>3. TypeOK'
  BY <1>1 DEF TypeOK, Stages
<1>4. Visits' /\ Leaving'
  BY <1>1, <1>2 DEF Visits, Leaving, Idle
<1>5. StoreHoldsOneSave' /\ Outside'
  BY <1>1 DEF StoreHoldsOneSave, Outside
<1>6. InSolve' /\ InAssembly' /\ InCoarse' /\ InIdentify' /\ InAdd' /\ InLeave' /\ CoarseSystemFresh'
  BY <1>1 DEF InSolve, InAssembly, InCoarse, InIdentify, InAdd, InLeave, CoarseSystemFresh
<1>7. QED
  BY <1>3, <1>4, <1>5, <1>6

\* No two threads visit one cell, since a visit takes its cell off todo.
LEMMA TakeCellStep ==
  ASSUME SolverInv, NEW t \in Threads, NEW c \in Cells, Visit(t, c)
  PROVE  SolverInv'
<1> USE DEF SolverInv, Visit
<1>1. TypeOK'
  BY ZeroType DEF TypeOK
<1>2. Visits'
  BY DEF Visits, TypeOK
<1>3. Leaving'
  BY DEF Leaving
<1>4. \A d \in Cells : Open(d)' <=> Open(d)
  BY DEF Open, TypeOK
<1>5. InSolve' /\ InAssembly'
  BY <1>4 DEF InSolve, InAssembly
<1>6. CoarseSystemFresh' /\ StoreHoldsOneSave'
  BY DEF CoarseSystemFresh, StoreHoldsOneSave
<1>7. InCoarse' /\ InIdentify' /\ InAdd' /\ InLeave' /\ Outside'
  BY DEF InCoarse, InIdentify, InAdd, InLeave, Outside
<1>8. QED
  BY <1>1, <1>2, <1>3, <1>5, <1>6, <1>7

\* The steps of a visit that leave the store and the system alone.
LEMMA QuietSteps ==
  ASSUME SolverInv, NEW t \in Threads, SolveCell(t) \/ Load(t)
  PROVE  SolverInv'
<1> USE DEF SolverInv
<1>t. cell[t] \in Cells /\ run \in Nat
  BY DEF TypeOK
<1>1. /\ UNCHANGED <<run, stage, todo, cell, memory, system, correction, solution, unwinding>>
      /\ pc[t] # "idle"
      /\ \A u \in Threads : pc'[u] # "idle" <=> pc[u] # "idle"
  BY DEF SolveCell, Load, TypeOK
<1>2. LocalSolutions(run, cell[t]) \in [Slots -> Function]
  BY <1>t, LocalSolutionsType
<1>3. TypeOK'
  BY <1>2 DEF SolveCell, Load, TypeOK
<1>4. Visits'
  BY DEF SolveCell, Load, Visits, TypeOK
<1>5. \A d \in Cells : Open(d)' <=> Open(d)
  BY <1>1 DEF Open
<1>6. InSolve' /\ InAssembly'
  BY <1>1, <1>5 DEF InSolve, InAssembly
<1>7. Leaving' /\ CoarseSystemFresh' /\ StoreHoldsOneSave'
  BY <1>1 DEF Leaving, CoarseSystemFresh, StoreHoldsOneSave
<1>8. InCoarse' /\ InIdentify' /\ InAdd' /\ InLeave' /\ Outside'
  BY <1>1 DEF InCoarse, InIdentify, InAdd, InLeave, Outside
<1>9. QED
  BY <1>3, <1>4, <1>6, <1>7, <1>8

\* A save finds nothing stored for its cell and puts the solutions there.
LEMMA SaveStep == ASSUME SolverInv, NEW t \in Threads, Save(t) PROVE SolverInv'
<1> USE DEF SolverInv, Save, Appended
<1>t. cell[t] \in Cells /\ run \in Nat
  BY DEF TypeOK
<1>1. stage = "solve" /\ Open(cell[t]) /\ sol[t] = LocalSolutions(run, cell[t])
  BY DEF Visits, Open
<1>2. memory[cell[t]] = << >>
  BY <1>1, <1>t DEF InSolve
<1>3. << >> \o LocalSolutions(run, cell[t]) = LocalSolutions(run, cell[t])
  BY <1>t, LocalSolutionsType, ConcatEmptySeq
<1>4. memory' = [memory EXCEPT ![cell[t]] = LocalSolutions(run, cell[t])]
  BY <1>1, <1>2, <1>3 DEF TypeOK
<1>5. \A c \in Cells : /\ LocalSolutions(run, c) \in Seq(Function)
                         /\ Len(LocalSolutions(run, c)) = NumDofs + 2
  BY <1>t, LocalSolutionsType
<1>6. TypeOK'
  BY <1>4, <1>5, <1>t DEF TypeOK
<1>7. Visits' /\ Leaving'
  BY DEF Visits, Leaving, TypeOK
<1>8. \A d \in Cells : Open(d)' <=> Open(d) /\ d # cell[t]
  BY <1>t DEF Open, Visits, TypeOK
<1>9. InSolve'
  BY <1>1, <1>4, <1>8 DEF InSolve, TypeOK
<1>10. StoreHoldsOneSave'
  BY <1>1, <1>4, <1>5 DEF StoreHoldsOneSave, TypeOK
<1>11. /\ InAssembly' /\ InCoarse' /\ InIdentify' /\ InAdd' /\ InLeave' /\ Outside'
       /\ CoarseSystemFresh'
  BY <1>1 DEF InAssembly, InCoarse, InIdentify, InAdd, InLeave, Outside, CoarseSystemFresh
<1>12. QED
  BY <1>6, <1>7, <1>9, <1>10, <1>11

\* An assembly reads exactly the solutions the first walk has saved.
LEMMA AssembleStep == ASSUME SolverInv, NEW t \in Threads, AssembleCell(t) PROVE SolverInv'
<1> USE DEF SolverInv, AssembleCell
<1>t. cell[t] \in Cells /\ run \in Nat
  BY DEF TypeOK
<1>1. stage = "assemble" /\ Open(cell[t])
  BY DEF Visits, Open
<1>2. memory[cell[t]] = LocalSolutions(run, cell[t]) /\ system[cell[t]] = << >>
  BY <1>1, <1>t DEF InAssembly
<1>3. /\ LocalSolutions(run, cell[t]) \in Seq(Function)
      /\ Len(LocalSolutions(run, cell[t])) = NumDofs + 2
  BY <1>t, LocalSolutionsType
<1>4. SubSeq(LocalSolutions(run, cell[t]), 1, NumDofs + 2) = LocalSolutions(run, cell[t])
  BY <1>3, SubSeqFull
<1>5. system' = [system EXCEPT ![cell[t]] = <<LocalSolutions(run, cell[t])>>]
  <2>1. system' = [system EXCEPT ![cell[t]] = Append(system[cell[t]], LocalSolutions(run, cell[t]))]
    BY <1>2, <1>4, <1>t, Zenon DEF TypeOK
  <2>2. Append(<< >>, LocalSolutions(run, cell[t])) = <<LocalSolutions(run, cell[t])>>
    OBVIOUS
  <2>3. QED
    BY <1>2, <2>1, <2>2, Zenon
<1>6. TypeOK'
  BY <1>3, <1>5 DEF TypeOK
<1>7. Visits' /\ Leaving'
  BY DEF Visits, Leaving, TypeOK
<1>8. \A d \in Cells : Open(d)' <=> Open(d) /\ d # cell[t]
  BY <1>t DEF Open, Visits, TypeOK
<1>9. InAssembly'
  <2>1. SUFFICES ASSUME NEW c \in Cells
                 PROVE  /\ memory'[c] = LocalSolutions(run', c)
                        /\ Open(c)' => system'[c] = << >>
                        /\ ~Open(c)' => system'[c] = <<LocalSolutions(run', c)>>
    BY DEF InAssembly
  <2>2. memory'[c] = LocalSolutions(run', c)
    BY <1>1 DEF InAssembly
  <2>3. CASE c = cell[t]
    BY <1>5, <1>8, <2>2, <2>3 DEF TypeOK
  <2>4. CASE c # cell[t]
    <3>1. system'[c] = system[c] /\ (Open(c)' <=> Open(c))
      BY <1>5, <1>8, <2>4 DEF TypeOK
    <3>2. QED
      BY <1>1, <2>2, <3>1 DEF InAssembly
  <2>5. QED
    BY <2>2, <2>3, <2>4
<1>10. StoreHoldsOneSave'
  BY DEF StoreHoldsOneSave
<1>11. /\ InSolve' /\ InCoarse' /\ InIdentify' /\ InAdd' /\ InLeave' /\ Outside'
       /\ CoarseSystemFresh'
  BY <1>1 DEF InSolve, InCoarse, InIdentify, InAdd, InLeave, Outside, CoarseSystemFresh
<1>12. QED
  BY <1>6, <1>7, <1>9, <1>10, <1>11

\* A local solver that fails leaves its cell without solutions and ends the
\* walk; the visits under way still save theirs.
LEMMA ThrowStep == ASSUME SolverInv, NEW t \in Threads, Throw(t) PROVE SolverInv'
<1> USE DEF SolverInv, Throw
<1>1. stage = "solve"
  BY DEF Visits
<1>2. unwinding' \in BOOLEAN /\ unwinding'
  BY Zenon
<1>3. TypeOK'
  BY <1>2 DEF TypeOK
<1>4. Visits' /\ Leaving'
  BY <1>1 DEF Visits, Leaving, TypeOK
<1>5. \A d \in Cells : Open(d)' => Open(d)
  BY DEF Open, TypeOK
<1>6. InSolve'
  BY <1>1, <1>2, <1>5 DEF InSolve
<1>7. StoreHoldsOneSave'
  BY DEF StoreHoldsOneSave
<1>8. /\ InAssembly' /\ InCoarse' /\ InIdentify' /\ InAdd' /\ InLeave' /\ Outside'
      /\ CoarseSystemFresh'
  BY <1>1 DEF InAssembly, InCoarse, InIdentify, InAdd, InLeave, Outside, CoarseSystemFresh
<1>9. QED
  BY <1>3, <1>4, <1>6, <1>7, <1>8

\* A stuttering step.
LEMMA Stutter == ASSUME SolverInv, UNCHANGED vars PROVE SolverInv'
BY DEF vars, SolverInv, TypeOK, Visits, Leaving, InSolve, InAssembly, InCoarse,
       InIdentify, InAdd, InLeave, Outside, Open, CoarseSystemFresh, StoreHoldsOneSave

(* In every state the store, the coarse system and the corrections hold    *)
(* what the stage says, for any number of threads, cells, shape functions  *)
(* and calls, failed calls included.                                       *)
THEOREM SolverCorrect == Spec => []SolverInv
<1>1. SolverInv /\ [Next]_vars => SolverInv'
  BY EnterStep, AssemblySteps, CoarseSteps, IdentifySteps, ProxySteps, LeaveSteps,
     TakeCellStep, QuietSteps, SaveStep, AssembleStep, ThrowStep, Stutter DEF Next
<1>2. QED
  BY InitSolver, <1>1, PTL DEF Spec

(* Every variable keeps its type. *)
THEOREM TypeCorrect == Spec => []TypeOK
<1>1. SolverInv => TypeOK
  BY DEF SolverInv
<1>2. QED
  BY <1>1, SolverCorrect, PTL

(* The solved coarse system has each cell once, from the unscaled          *)
(* solutions of the same call.                                             *)
THEOREM SystemFresh == Spec => []CoarseSystemFresh
<1>1. SolverInv => CoarseSystemFresh
  BY DEF SolverInv
<1>2. QED
  BY <1>1, SolverCorrect, PTL

(* The store is empty between calls and never holds a second save.         *)
THEOREM OneSave == Spec => []StoreHoldsOneSave
<1>1. SolverInv => StoreHoldsOneSave
  BY DEF SolverInv
<1>2. QED
  BY <1>1, SolverCorrect, PTL

(* MemoryBackend::read never throws: whatever is loaded has been saved.    *)
THEOREM LoadsNeverThrow == Spec => []LoadsSucceed
<1>1. ASSUME SolverInv PROVE LoadsSucceed
  <2> USE <1>1 DEF SolverInv
  <2>1. \A c \in Cells : memory[c] = LocalSolutions(run, c) => Loadable(c)
    BY LocalSolutionsType, DofsAssumption DEF Loadable, TypeOK
  <2>2. \A t \in Threads : pc[t] = "load" => Loadable(cell[t])
    BY <2>1 DEF Visits, InAssembly, TypeOK
  <2>3. stage = "identify" => \A c \in todo : Loadable(c)
    BY <2>1 DEF InIdentify, TypeOK
  <2>4. QED
    BY <2>2, <2>3 DEF LoadsSucceed
<1>2. QED
  BY <1>1, SolverCorrect, PTL

---------------------------------------------------------------------------
(* apply() implements MsfemRun: it begins at Enter, succeeds at Return,    *)
(* fails at Unwind, and every other step is hidden.                        *)

\* Before the first call nothing has been answered.
LEMMA RunInit == Init => Abstract!Init
BY DEF Init, Abstract!Init, Nothing

\* The two modules mean the same reconstruction.
LEMMA SameReconstruction ==
  \A r, c : Abstract!Reconstruction(r, c) = Reconstruction(r, c)
BY DEF Reconstruction, Abstract!Reconstruction, Term, Abstract!Term, Scaled, Abstract!Scaled,
       Solved, Abstract!Solved, CoarsePart, Abstract!CoarsePart, InnerSlots, Abstract!InnerSlots,
       DirichletSlot, Abstract!DirichletSlot, NeumannSlot, Abstract!NeumannSlot

\* Each step is a step of the abstract run or invisible in it.
LEMMA RunStep ==
  ASSUME SolverInv, [Next]_vars
  PROVE  [Abstract!Next]_(Abstract!vars)
<1> USE DEF SolverInv
<1>1. CASE Enter
  <2>1. Abstract!Begin
    BY <1>1 DEF Enter, Abstract!Begin, Nothing
  <2>2. QED
    BY <2>1 DEF Abstract!Next
<1>2. CASE Return
  <2>1. stage = "leave" /\ stage' = "out" /\ UNCHANGED <<run, solution>>
    BY <1>2 DEF Return
  <2>2. solution = [c \in Cells |-> Reconstruction(run, c)]
    BY <2>1 DEF InLeave
  <2>3. Abstract!Succeed
    BY <2>1, <2>2, SameReconstruction DEF Abstract!Succeed
  <2>4. QED
    BY <2>3 DEF Abstract!Next
<1>3. CASE Unwind
  <2>1. solution = Nothing
    BY <1>3 DEF Unwind, Threw, Leaving
  <2>2. Abstract!Fail
    BY <1>3, <2>1 DEF Unwind, Threw, Abstract!Fail
  <2>3. QED
    BY <2>2 DEF Abstract!Next
<1>4. CASE BeginAssembly \/ EndAssembly \/ CoarseSolve \/ CoarseSolveFails \/ MakeProxy \/ AddCoarse
  BY <1>4 DEF BeginAssembly, EndAssembly, CoarseSolve, CoarseSolveFails, MakeProxy,
              AddCoarse, Abstract!vars
<1>5. ASSUME NEW c \in Cells, IdentifyCell(c) PROVE UNCHANGED Abstract!vars
  BY <1>5 DEF IdentifyCell, Abstract!vars
<1>6. ASSUME NEW t \in Threads, NEW c \in Cells, Visit(t, c) PROVE UNCHANGED Abstract!vars
  BY <1>6 DEF Visit, Abstract!vars
<1>7. ASSUME NEW t \in Threads,
             SolveCell(t) \/ Save(t) \/ Load(t) \/ AssembleCell(t) \/ Throw(t)
      PROVE  UNCHANGED Abstract!vars
  BY <1>7 DEF SolveCell, Save, Load, AssembleCell, Throw, Abstract!vars
<1>8. CASE UNCHANGED vars
  BY <1>8 DEF vars, Abstract!vars
<1>9. QED
  BY <1>1, <1>2, <1>3, <1>4, <1>5, <1>6, <1>7, <1>8 DEF Next

(* apply() hands out the reconstruction of this call on every cell or      *)
(* nothing, whatever the threads do and whichever step fails.              *)
THEOREM SolverImplementsRun == Spec => ImplementsMsfemRun
<1>1. SolverInv /\ [Next]_vars => [Abstract!Next]_(Abstract!vars)
  BY RunStep
<1>2. QED
  BY <1>1, RunInit, SolverCorrect, PTL DEF Spec, ImplementsMsfemRun, Abstract!Spec
=============================================================================
