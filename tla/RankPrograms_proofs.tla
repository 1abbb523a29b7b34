------------------------- MODULE RankPrograms_proofs -------------------------
(***************************************************************************)
(* Proofs about RankPrograms, for every number of ranks and every sequence *)
(* of collective operations an algorithm may have, with or without the     *)
(* reduction of the run time and with any number of caught solves.         *)
(***************************************************************************)
EXTENDS RankPrograms, FiniteSetTheorems, SequenceTheorems, TLAPS

-----------------------------------------------------------------------------
\* The inductive invariant.  Every completed operation is one of a rank's program
\* or of its handler; a skipped one is behind a rank without having completed, and
\* is a caught solve.
Caught(program, n) == {i \in 1..n : program[i] = "caught"}
Counted == \A r \in Ranks : passed[r] + handled[r] = done + skips[r]
SkippedPast == \A r \in Ranks : skips[r] <= Cardinality(Caught(Program, passed[r]))
HandlerOfFailed == \A r \in Ranks : r \notin failed => handled[r] = 0
ReturnedAtEnd ==
  \A r \in Ranks : run[r] = "returned" => r \notin failed /\ passed[r] = InAll
CallersGoOn == \A r \in Ranks : run[r] = "waiting" => HasNext(r)
Together ==
  alone = {} =>
    /\ stuck = {} /\ \A r \in Ranks : skips[r] = 0
    /\ failed = {} \/ failed = Ranks
    /\ \A r, s \in Ranks : passed[r] = passed[s] /\ handled[r] = handled[s]
IInv ==
  /\ TypeOK
  /\ Counted /\ SkippedPast
  /\ HandlerOfFailed /\ ReturnedAtEnd /\ CallersGoOn
  /\ Together

-----------------------------------------------------------------------------
\* What main() does after the algorithm: the reduction of its run time, if it has
\* one, and the two of mem_usage(); none of them is a solve.
LEMMA ProgramShape ==
  ASSUME main \in Mains
  PROVE  /\ InAlgorithm \in Nat /\ InAll \in Nat /\ Len(RunTime) \in {0, 1}
         /\ InAll = InAlgorithm + Len(RunTime) + 2
         /\ \A i \in 1..InAll : Program[i] = "caught" => i \in 1..InAlgorithm /\ Program[i] = Algorithm[i]
<1> DEFINE Ending == RunTime \o MemUsage
           Names == Kinds \cup {"time", "peak", "total"}
           T == Len(RunTime)
           E == Len(Ending)
           Solve(s, i) == s[i] = "caught"
<1>1. Algorithm \in Seq(Kinds) /\ RunTime \in {<<>>, <<"time">>}
  BY MainsAssumption DEF Algorithm, RunTime, Maximum
<1>2. Algorithm \in Seq(Names)
  <2>1. Kinds \subseteq Names
    OBVIOUS
  <2> HIDE DEF Names
  <2> QED BY <1>1, <2>1
<1>3. MemUsage \in Seq(Names) /\ Len(MemUsage) = 2 /\ \A i \in 1..2 : ~Solve(MemUsage, i)
  BY DEF MemUsage
<1>4. RunTime \in Seq(Names) /\ T \in {0, 1} /\ \A i \in 1..T : ~Solve(RunTime, i)
  <2>1. CASE RunTime = <<>>
    BY <2>1
  <2>2. CASE RunTime = <<"time">>
    <3>1. <<"time">> \in Seq(Names) /\ Len(<<"time">>) = 1 /\ ~Solve(<<"time">>, 1)
      OBVIOUS
    <3> HIDE DEF Names, Solve
    <3>2. RunTime \in Seq(Names) /\ T = 1 /\ ~Solve(RunTime, 1)
      BY <2>2, <3>1, Zenon
    <3> QED BY <3>2
  <2> QED BY <1>1, <2>1, <2>2
<1> HIDE DEF Names
<1>5. /\ Ending \in Seq(Names) /\ E = T + Len(MemUsage)
      /\ \A i \in 1..T + Len(MemUsage) :
           Ending[i] = IF i <= T THEN RunTime[i] ELSE MemUsage[i - T]
  BY <1>3, <1>4, ConcatProperties, Zenon
<1>6. Program = Algorithm \o Ending
  BY Zenon DEF Program
<1> HIDE DEF Ending
<1>7. /\ Len(Program) = Len(Algorithm) + E
      /\ \A i \in 1..Len(Algorithm) + E :
           Program[i] = IF i <= Len(Algorithm) THEN Algorithm[i] ELSE Ending[i - Len(Algorithm)]
  <2>1. Ending \in Seq(Names)
    BY <1>5
  <2>2. /\ Len(Algorithm \o Ending) = Len(Algorithm) + Len(Ending)
        /\ \A i \in 1..Len(Algorithm) + Len(Ending) : (Algorithm \o Ending)[i] =
             IF i <= Len(Algorithm) THEN Algorithm[i] ELSE Ending[i - Len(Algorithm)]
    BY <1>2, <2>1, ConcatProperties, Zenon
  <2> QED BY <1>6, <2>2, Zenon
<1>8. InAlgorithm \in Nat
  BY <1>2, LenProperties, Zenon DEF InAlgorithm
<1> HIDE DEF T, E
<1>9. E = T + 2 /\ InAll = InAlgorithm + E
  BY <1>3, <1>5, <1>7 DEF InAll, InAlgorithm
<1>10. \A i \in 1..E : ~Solve(Ending, i)
  <2> TAKE i \in 1..E
  <2>1. Ending[i] = IF i <= T THEN RunTime[i] ELSE MemUsage[i - T]
    BY <1>3, <1>5, <1>9
  <2> HIDE DEF Solve
  <2>2. CASE i <= T
    <3>1. ~Solve(RunTime, i)
      BY <1>4, <2>2
    <3> QED BY <2>1, <2>2, <3>1 DEF Solve
  <2>3. CASE ~(i <= T)
    <3>1. i - T \in 1..2
      BY <1>4, <1>9, <2>3
    <3>2. ~Solve(MemUsage, i - T)
      BY <1>3, <3>1
    <3> QED BY <2>1, <2>3, <3>2 DEF Solve
  <2> QED BY <2>2, <2>3
<1>11. ASSUME NEW i \in 1..InAll, Solve(Program, i)
       PROVE  i \in 1..InAlgorithm /\ Program[i] = Algorithm[i]
  <2>1. Program[i] = IF i <= InAlgorithm THEN Algorithm[i] ELSE Ending[i - InAlgorithm]
    BY <1>7, <1>9 DEF InAlgorithm
  <2> HIDE DEF Solve
  <2>2. CASE i <= InAlgorithm
    BY <1>8, <2>1, <2>2
  <2>3. CASE ~(i <= InAlgorithm)
    <3>1. i - InAlgorithm \in 1..E
      BY <1>4, <1>8, <1>9, <2>3
    <3>2. ~Solve(Ending, i - InAlgorithm)
      BY <1>10, <3>1
    <3> QED BY <1>11, <2>1, <2>3, <3>2 DEF Solve
  <2> QED BY <2>2, <2>3
<1>12. InAll \in Nat /\ InAll = InAlgorithm + T + 2
  BY <1>4, <1>8, <1>9
<1> QED BY <1>4, <1>8, <1>11, <1>12 DEF T

\* The operations of a run are those it starts with.
LEMMA SameProgram ==
  ASSUME UNCHANGED main
  PROVE  /\ Program' = Program /\ InAll' = InAll /\ InAlgorithm' = InAlgorithm
<1>1. Algorithm' = Algorithm /\ RunTime' = RunTime
  BY DEF Algorithm, RunTime
<1>2. Program' = Program
  BY <1>1, Zenon DEF Program, MemUsage
<1> QED BY <1>1, <1>2 DEF InAll, InAlgorithm

\* Operations that may be skipped are finitely many, and one more is one more.
LEMMA CaughtCounts ==
  ASSUME NEW n \in Nat
  PROVE  /\ IsFiniteSet(Caught(Program, n)) /\ Cardinality(Caught(Program, n)) \in Nat
         /\ Cardinality(Caught(Program, n)) <= Cardinality(Caught(Program, n + 1))
         /\ Program[n + 1] = "caught" =>
              Cardinality(Caught(Program, n + 1)) = Cardinality(Caught(Program, n)) + 1
<1>1. ASSUME NEW m \in Nat PROVE IsFiniteSet(Caught(Program, m)) /\ Cardinality(Caught(Program, m)) \in Nat
  <2>1. IsFiniteSet(1..m) /\ Caught(Program, m) \subseteq 1..m
    BY FS_Interval DEF Caught
  <2>2. IsFiniteSet(Caught(Program, m))
    BY <2>1, FS_Subset
  <2> QED BY <2>2, FS_CardinalityType
<1>2. Caught(Program, n) \subseteq Caught(Program, n + 1)
  BY DEF Caught
<1>3. Cardinality(Caught(Program, n)) <= Cardinality(Caught(Program, n + 1))
  BY <1>1, <1>2, FS_Subset
<1>4. ASSUME Program[n + 1] = "caught"
      PROVE  Cardinality(Caught(Program, n + 1)) = Cardinality(Caught(Program, n)) + 1
  <2>1. Caught(Program, n + 1) = Caught(Program, n) \cup {n + 1} /\ n + 1 \notin Caught(Program, n)
    BY <1>4 DEF Caught
  <2>2. IsFiniteSet(Caught(Program, n))
    BY <1>1
  <2> HIDE DEF Caught
  <2> QED BY <2>1, <2>2, FS_AddElement
<1> QED BY <1>1, <1>3, <1>4

LEMMA InitIInv == Init => IInv
<1> SUFFICES ASSUME Init PROVE IInv
  OBVIOUS
<1> USE DEF Init
<1>1. TypeOK
  BY ProgramShape DEF TypeOK
<1>2. Caught(Program, 0) = {}
  BY DEF Caught
<1>3. Cardinality(Caught(Program, 0)) = 0
  BY <1>2, FS_EmptySet
<1>4. Counted /\ SkippedPast
  BY <1>3 DEF Counted, SkippedPast
<1>5. HandlerOfFailed /\ ReturnedAtEnd /\ CallersGoOn
  BY DEF HandlerOfFailed, ReturnedAtEnd, CallersGoOn
<1>6. Together
  BY DEF Together
<1> QED BY <1>1, <1>4, <1>5, <1>6 DEF IInv

\* The operations a rank has behind it, and those it may have skipped, stay when
\* it does.
LEMMA PastStays ==
  ASSUME UNCHANGED <<main, passed, skips>>, SkippedPast
  PROVE  SkippedPast'
<1>1. Program' = Program
  BY SameProgram
<1> QED BY <1>1, Zenon DEF SkippedPast

\* A call of a rank, its abort and its return change run alone.
LEMMA RunKeepsIInv ==
  ASSUME IInv, NEW r \in Ranks, Call(r) \/ Abort(r) \/ Return(r)
  PROVE  IInv'
<1> USE DEF IInv
<1>s. UNCHANGED <<main, passed, handled, failed, alone, skips, stuck, done>>
  BY DEF Call, Abort, Return
<1>1. InAll' = InAll /\ InAll \in Nat
  BY <1>s, SameProgram, ProgramShape DEF TypeOK
<1>2. TypeOK'
  BY <1>1 DEF TypeOK, Call, Abort, Return
<1>3. (Counted /\ HandlerOfFailed /\ Together)'
  BY <1>s DEF Counted, HandlerOfFailed, Together
<1>4. SkippedPast'
  BY <1>s, PastStays
<1>5. ReturnedAtEnd'
  BY <1>1 DEF ReturnedAtEnd, HasNext, TypeOK, Call, Abort, Return
<1>6. CallersGoOn'
  BY <1>1 DEF CallersGoOn, HasNext, TypeOK, Call, Abort, Return
<1> QED BY <1>2, <1>3, <1>4, <1>5, <1>6

LEMMA ThrowKeepsIInv ==
  ASSUME IInv, NEW r \in Ranks, Throw(r)
  PROVE  IInv'
<1> USE DEF IInv
<1>1. InAll' = InAll
  BY SameProgram DEF Throw
<1>2. TypeOK'
  BY <1>1 DEF TypeOK, Throw
<1>3. (Counted /\ HandlerOfFailed)'
  BY DEF Counted, HandlerOfFailed, Throw
<1>4. SkippedPast'
  BY PastStays DEF Throw
<1>5. ReturnedAtEnd'
  BY <1>1 DEF ReturnedAtEnd, Throw
<1>6. CallersGoOn'
  BY <1>1 DEF CallersGoOn, HasNext, TypeOK, Throw
<1>7. Together'
  BY DEF Together, Throw
<1> QED BY <1>2, <1>3, <1>4, <1>5, <1>6, <1>7

LEMMA SwallowKeepsIInv ==
  ASSUME IInv, NEW r \in Ranks, Swallow(r)
  PROVE  IInv'
<1> USE DEF IInv
<1>1. /\ passed[r] \in Nat /\ passed[r] < InAll /\ skips[r] \in Nat
      /\ InAll' = InAll /\ InAll \in Nat
  BY SameProgram, ProgramShape DEF TypeOK, Swallow
<1> DEFINE Effect ==
      /\ passed' = [passed EXCEPT ![r] = @ + 1]
      /\ alone' = alone \cup {r} /\ skips' = [skips EXCEPT ![r] = @ + 1]
      /\ UNCHANGED <<main, handled, run, failed, stuck, done>>
<1>e. Effect
  BY DEF Swallow
<1>2. TypeOK'
  BY <1>1, <1>e DEF TypeOK
<1>3. Counted'
  BY <1>1, <1>e DEF Counted, TypeOK
<1>4. SkippedPast'
  <2>1. Cardinality(Caught(Program, passed[r] + 1)) = Cardinality(Caught(Program, passed[r])) + 1
    BY <1>1, CaughtCounts DEF Swallow
  <2>2. Cardinality(Caught(Program, passed[r])) \in Nat /\ skips[r] <= Cardinality(Caught(Program, passed[r]))
    BY <1>1, CaughtCounts DEF SkippedPast
  <2>3. passed'[r] = passed[r] + 1 /\ skips'[r] = skips[r] + 1
    BY <1>e DEF TypeOK
  <2>4. \A s \in Ranks \ {r} : passed'[s] = passed[s] /\ skips'[s] = skips[s]
    BY <1>e DEF TypeOK
  <2>5. \A s \in Ranks : skips'[s] <= Cardinality(Caught(Program, passed'[s]))
    <3> TAKE s \in Ranks
    <3>1. CASE s = r
      BY <1>1, <2>1, <2>2, <2>3, <3>1
    <3>2. CASE s # r
      BY <2>4, <3>2 DEF SkippedPast
    <3> QED BY <3>1, <3>2
  <2>6. Program' = Program
    BY <1>e, SameProgram
  <2> QED BY <2>5, <2>6, Zenon DEF SkippedPast
<1>5. (HandlerOfFailed /\ ReturnedAtEnd)'
  BY <1>1 DEF HandlerOfFailed, ReturnedAtEnd, TypeOK, Swallow
<1>6. CallersGoOn'
  BY <1>1 DEF CallersGoOn, HasNext, TypeOK, Swallow
<1>7. Together'
  BY DEF Together, Swallow
<1> QED BY <1>2, <1>3, <1>4, <1>5, <1>6, <1>7

\* An operation that completes, with or without the failure of all ranks.
LEMMA StepKeepsIInv ==
  ASSUME IInv, AllWait, Step,
         \/ failed' = failed
         \/ failed' = Ranks /\ \A r \in Ranks : r \notin failed
  PROVE  IInv'
<1> USE DEF IInv
<1>0. UNCHANGED main /\ InAll' = InAll /\ InAll \in Nat
  BY SameProgram, ProgramShape DEF TypeOK, Step
<1>1. \A r \in Ranks : HasNext(r)
  BY DEF AllWait, CallersGoOn
<1>2. \A r \in Ranks : /\ passed[r] \in 0..InAll
                       /\ handled[r] \in 0..2
                       /\ r \in failed => handled[r] < 2
                       /\ r \notin failed => passed[r] < InAll
  BY <1>1 DEF TypeOK, HasNext, MemUsage
<1>3. TypeOK'
  BY <1>0, <1>2 DEF TypeOK, Step
<1>4. Counted'
  BY <1>2 DEF Counted, TypeOK, Step
<1>5. SkippedPast'
  <2>1. \A s \in Ranks : passed'[s] \in {passed[s], passed[s] + 1} /\ skips'[s] = skips[s]
    BY DEF Step
  <2>2. \A s \in Ranks : skips'[s] <= Cardinality(Caught(Program, passed'[s]))
    <3> TAKE s \in Ranks
    <3>1. /\ Cardinality(Caught(Program, passed[s])) \in Nat
          /\ Cardinality(Caught(Program, passed[s] + 1)) \in Nat
          /\ Cardinality(Caught(Program, passed[s])) <= Cardinality(Caught(Program, passed[s] + 1))
      <4>1. passed[s] \in Nat /\ passed[s] + 1 \in Nat
        BY <1>2
      <4> QED BY <4>1, CaughtCounts
    <3>2. skips[s] \in Nat /\ skips[s] <= Cardinality(Caught(Program, passed[s]))
      BY DEF SkippedPast, TypeOK
    <3>3. CASE passed'[s] = passed[s]
      BY <2>1, <3>2, <3>3
    <3>4. CASE passed'[s] = passed[s] + 1
      BY <2>1, <3>1, <3>2, <3>4
    <3> QED BY <2>1, <3>3, <3>4
  <2>3. Program' = Program
    BY <1>0, SameProgram
  <2> QED BY <2>2, <2>3, Zenon DEF SkippedPast
<1>6. (HandlerOfFailed /\ ReturnedAtEnd /\ CallersGoOn)'
  BY DEF HandlerOfFailed, ReturnedAtEnd, CallersGoOn, Step
<1>7. Together'
  BY <1>2 DEF Together, Step, TypeOK
<1> QED BY <1>3, <1>4, <1>5, <1>6, <1>7

\* Unlike operations only meet after a rank has thrown alone.
LEMMA UnlikeNeedsAlone ==
  ASSUME IInv, ~Alike
  PROVE  alone # {}
<1> SUFFICES ASSUME alone = {} PROVE \A r, s \in Ranks : Kind(r) = Kind(s)
  BY DEF Alike
<1> TAKE r, s \in Ranks
<1>1. passed[r] = passed[s] /\ handled[r] = handled[s] /\ (r \in failed <=> s \in failed)
  BY DEF IInv, Together
<1> QED BY <1>1 DEF Kind

LEMMA NextKeepsIInv == IInv /\ [Next]_vars => IInv'
<1> SUFFICES ASSUME IInv, [Next]_vars PROVE IInv'
  OBVIOUS
<1>1. ASSUME NEW r \in Ranks, Call(r) \/ Abort(r) \/ Return(r) PROVE IInv'
  BY <1>1, RunKeepsIInv
<1>2. ASSUME NEW r \in Ranks, Throw(r) PROVE IInv'
  BY <1>2, ThrowKeepsIInv
<1>3. ASSUME NEW r \in Ranks, Swallow(r) PROVE IInv'
  BY <1>3, SwallowKeepsIInv
<1>4. CASE Complete
  BY <1>4, StepKeepsIInv DEF Complete
<1>5. CASE SolveFails
  BY <1>5, StepKeepsIInv DEF SolveFails
<1>6. ASSUME UNCHANGED <<main, passed, handled, run, failed, alone, skips, done>>,
             stuck' = stuck \/ (stuck' = Ranks /\ alone # {})
      PROVE  IInv'
  <2>1. InAll' = InAll
    BY <1>6, SameProgram
  <2>2. TypeOK'
    BY <1>6, <2>1 DEF IInv, TypeOK
  <2>3. (Counted /\ HandlerOfFailed /\ ReturnedAtEnd /\ CallersGoOn)'
    BY <1>6, <2>1 DEF IInv, Counted, HandlerOfFailed, ReturnedAtEnd, CallersGoOn, HasNext
  <2>4. SkippedPast'
    BY <1>6, PastStays DEF IInv
  <2>5. Together'
    BY <1>6 DEF IInv, Together
  <2> QED BY <2>2, <2>3, <2>4, <2>5 DEF IInv
<1>7. CASE Mismatch
  BY <1>6, <1>7, UnlikeNeedsAlone DEF Mismatch
<1>8. CASE UNCHANGED vars
  BY <1>6, <1>8 DEF vars
<1> QED BY <1>1, <1>2, <1>3, <1>4, <1>5, <1>7, <1>8 DEF Next

LEMMA IInvHolds == Spec => []IInv
BY InitIInv, NextKeepsIInv, PTL DEF Spec

-----------------------------------------------------------------------------
\* The counters of every rank stay within its program and its handler.
THEOREM TypeCorrect == Spec => []TypeOK
<1>1. IInv => TypeOK
  BY DEF IInv
<1> QED BY <1>1, IInvHolds, PTL

\* When a rank has reported success, what the others have behind them: every
\* operation it skipped is one that completed without it.
LEMMA SuccessCounts ==
  ASSUME IInv, NEW r \in Ranks, run[r] = "returned", NEW s \in Ranks
  PROVE  /\ passed[s] + 2 + skips[r] >= InAll
         /\ passed[s] \in Nat /\ skips[r] \in Nat /\ passed[r] = InAll
<1>1. /\ passed[r] \in 0..InAll /\ passed[s] \in 0..InAll
      /\ handled[r] \in 0..2 /\ handled[s] \in 0..2 /\ done \in Nat
      /\ skips[r] \in Nat /\ skips[s] \in Nat /\ InAll \in Nat
  BY ProgramShape DEF IInv, TypeOK
<1>2. passed[r] = InAll /\ handled[r] = 0
  BY DEF IInv, ReturnedAtEnd, HandlerOfFailed
<1>3. InAll = done + skips[r] /\ passed[s] + handled[s] = done + skips[s]
  BY <1>1, <1>2 DEF IInv, Counted
<1> QED BY <1>1, <1>2, <1>3

\* No rank reports success while more of the others' operations in the algorithm
\* and in its run time are missing than it has itself skipped, however many ranks
\* throw, and wherever they do.
THEOREM SuccessIsShared == Spec => []SuccessMeansAllComputed
<1>1. IInv => SuccessMeansAllComputed
  <2> SUFFICES ASSUME IInv, NEW r \in Ranks, run[r] = "returned", NEW s \in Ranks
               PROVE  passed[s] >= InAlgorithm + Len(RunTime) - skips[r]
    BY DEF SuccessMeansAllComputed
  <2>1. InAlgorithm \in Nat /\ Len(RunTime) \in Nat /\ InAll = InAlgorithm + Len(RunTime) + 2
    BY ProgramShape DEF IInv, TypeOK
  <2> QED BY <2>1, SuccessCounts
<1> QED BY <1>1, IInvHolds, PTL

\* The solves of an algorithm whose exceptions are caught.
CaughtSolves == Caught(Algorithm, InAlgorithm)
\* When there are no more of them than operations that main() adds for the run
\* time, success of one rank says that every rank has computed everything.
WholeRunIsComputed ==
  Cardinality(CaughtSolves) <= Len(RunTime) =>
    \A r, s \in Ranks : run[r] = "returned" => passed[s] >= InAlgorithm

\* msfem without msfem.fem_comparison is such a run: it catches one solve, and the
\* run time makes up for it.
LEMMA MsfemIsWhole ==
  ASSUME NEW skipError \in BOOLEAN,
         main = [algorithm |-> MsfemAlgorithm(FALSE, skipError), runTime |-> Maximum]
  PROVE  CaughtSolves \subseteq {5}
<1> DEFINE Work == <<"grids", "barrier", "solve">>
           Errors == <<"grids", "caught">>
<1>1. Algorithm = Work \o (IF skipError THEN <<>> ELSE <<>> \o (Errors \o <<"flux">>))
  BY DEF Algorithm, MsfemAlgorithm, Comparing, Printing
<1>2. CASE skipError
  <2>1. Algorithm = Work \o <<>>
    BY <1>1, <1>2
  <2>2. Len(Algorithm) = 3 /\ \A i \in 1..3 : Algorithm[i] = Work[i]
    BY <2>1
  <2>3. \A i \in 1..3 : Work[i] # "caught"
    OBVIOUS
  <2> HIDE DEF Work
  <2>4. \A i \in 1..3 : Algorithm[i] # "caught"
    BY <2>2, <2>3
  <2>5. CaughtSolves = {i \in 1..3 : Algorithm[i] = "caught"}
    BY <2>2 DEF CaughtSolves, Caught, InAlgorithm
  <2>6. CaughtSolves = {}
    BY <2>4, <2>5, Zenon
  <2> QED BY <2>6
<1>3. CASE ~skipError
  <2> DEFINE Flow == Errors \o <<"flux">>
             Rest == <<>> \o Flow
  <2>1. Flow \in Seq(Kinds) /\ Len(Flow) = 3
    <3>1. Errors \in Seq(Kinds) /\ Len(Errors) = 2
      BY DEF Kinds
    <3>2. <<"flux">> \in Seq(Kinds) /\ Len(<<"flux">>) = 1
      BY DEF Kinds
    <3>3. Flow \in Seq(Kinds) /\ Len(Flow) = Len(Errors) + Len(<<"flux">>)
      BY <3>1, <3>2, ConcatProperties, Zenon
    <3> QED BY <3>1, <3>2, <3>3
  <2>2. Flow[1] = "grids" /\ Flow[3] = "flux"
    OBVIOUS
  <2> HIDE DEF Flow
  <2>3. Rest \in Seq(Kinds) /\ Len(Rest) = 3 /\ Rest[1] = Flow[1] /\ Rest[3] = Flow[3]
    BY <2>1
  <2> HIDE DEF Rest
  <2>4. Algorithm = Work \o Rest
    BY <1>1, <1>3 DEF Flow, Rest
  <2>5. /\ Len(Algorithm) = 6
        /\ Algorithm[1] = Work[1] /\ Algorithm[2] = Work[2] /\ Algorithm[3] = Work[3]
        /\ Algorithm[4] = Rest[1] /\ Algorithm[6] = Rest[3]
    <3>1. Work \in Seq(Kinds) /\ Len(Work) = 3
      BY DEF Kinds
    <3> HIDE DEF Work
    <3>2. /\ Len(Algorithm) = Len(Work) + Len(Rest)
          /\ \A i \in 1..Len(Work) + Len(Rest) : Algorithm[i] =
               IF i <= Len(Work) THEN Work[i] ELSE Rest[i - Len(Work)]
      BY <2>3, <2>4, <3>1, ConcatProperties, Zenon
    <3> QED BY <2>3, <3>1, <3>2
  <2>6. /\ Algorithm[1] # "caught" /\ Algorithm[2] # "caught" /\ Algorithm[3] # "caught"
        /\ Algorithm[4] # "caught" /\ Algorithm[6] # "caught"
    BY <2>2, <2>3, <2>5
  <2>7. \A i \in 1..6 : Algorithm[i] = "caught" => i = 5
    <3> TAKE i \in 1..6
    <3>1. i = 1 \/ i = 2 \/ i = 3 \/ i = 4 \/ i = 5 \/ i = 6
      OBVIOUS
    <3> QED BY <2>6, <3>1, Zenon
  <2>8. CaughtSolves = {i \in 1..6 : Algorithm[i] = "caught"}
    BY <2>5 DEF CaughtSolves, Caught, InAlgorithm
  <2> QED BY <2>7, <2>8
<1> QED BY <1>2, <1>3

\* Success of one rank means a whole computation on all of them in every run that
\* catches no more solves than main() has operations for its run time.
THEOREM WholeRunsAreComputed == Spec => []WholeRunIsComputed
<1>1. IInv => WholeRunIsComputed
  <2> SUFFICES ASSUME IInv, Cardinality(CaughtSolves) <= Len(RunTime),
                      NEW r \in Ranks, run[r] = "returned", NEW s \in Ranks
               PROVE  passed[s] >= InAlgorithm
    BY DEF WholeRunIsComputed
  <2>1. /\ InAlgorithm \in Nat /\ InAll \in Nat /\ Len(RunTime) \in Nat
        /\ InAll = InAlgorithm + Len(RunTime) + 2
        /\ \A i \in 1..InAll : Program[i] = "caught" =>
             i \in 1..InAlgorithm /\ Program[i] = Algorithm[i]
    BY ProgramShape DEF IInv, TypeOK
  <2>2. passed[r] = InAll /\ skips[r] \in Nat
    BY SuccessCounts
  <2>3. skips[r] <= Cardinality(Caught(Program, InAll))
    BY <2>2 DEF IInv, SkippedPast
  <2>4. Caught(Program, InAll) \subseteq CaughtSolves
    BY <2>1 DEF Caught, CaughtSolves
  <2>5. IsFiniteSet(CaughtSolves)
    <3>1. CaughtSolves \subseteq 1..InAlgorithm
      BY DEF CaughtSolves, Caught
    <3>2. IsFiniteSet(1..InAlgorithm)
      BY <2>1, FS_Interval
    <3> QED BY <3>1, <3>2, FS_Subset
  <2>6. /\ Cardinality(Caught(Program, InAll)) <= Cardinality(CaughtSolves)
        /\ Cardinality(Caught(Program, InAll)) \in Nat /\ Cardinality(CaughtSolves) \in Nat
    BY <2>4, <2>5, FS_Subset, FS_CardinalityType
  <2>7. skips[r] <= Len(RunTime)
    BY <2>1, <2>2, <2>3, <2>6
  <2> QED BY <2>1, <2>7, SuccessCounts
<1> QED BY <1>1, IInvHolds, PTL

\* The sequences of collective operations of the ranks agree until a rank throws
\* alone: a failure of all ranks at once takes all of them to the same handler.
THEOREM OnlyLoneFailuresMismatch == Spec => []MismatchNeedsLoneFailure
<1>1. IInv => MismatchNeedsLoneFailure
  <2> SUFFICES ASSUME IInv, stuck # {} \/ ~Alike PROVE alone # {}
    BY DEF MismatchNeedsLoneFailure
  <2>1. CASE stuck # {}
    BY <2>1 DEF IInv, Together
  <2>2. CASE ~Alike
    BY <2>2, UnlikeNeedsAlone
  <2> QED BY <2>1, <2>2
<1> QED BY <1>1, IInvHolds, PTL
=============================================================================
