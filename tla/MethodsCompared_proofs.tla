------------------------ MODULE MethodsCompared_proofs ------------------------
(***************************************************************************)
(* Proofs about MethodsCompared for every prime P, every number of coarse  *)
(* and micro cells, every coefficient, source and boundary, every number   *)
(* of layers, and every solver of the linear systems.                      *)
(*                                                                         *)
(* The first part is about sums over the grid in the field: PartialSums is *)
(* recursive, so that what it computes rests on a recursion theorem proved *)
(* here from the least number of a set (RecursionOnNat); after TotalIs,    *)
(* "numbers that begin and go on as the partial sums do are the partial    *)
(* sums", linearity and the other laws of sums need no induction.          *)
(*                                                                         *)
(* The second part has the integrals of one cell; the third the coarse     *)
(* system: its inductive invariant GalerkinInv says what the matrix, the   *)
(* vector and the Dirichlet values are in each phase, as sums over the     *)
(* cells the walk has come to.                                             *)
(*                                                                         *)
(* The fourth part is about the reference solver.  A regular system has    *)
(* one solution (SolutionUnique, from the two ways of summing a square     *)
(* array), and the finite element solution, less the shift, is one of the  *)
(* constrained system (FineFits, FluxesBalance): so the solver finds it.   *)
(*                                                                         *)
(* The fifth part is about the cells.  CellsInv says what the local        *)
(* solutions of a cell are like once they are found: a corrected shape     *)
(* function has one flux in the local grid, the same that any function has *)
(* which rises as much (SameFlux).  So a coarse system with a free border  *)
(* is not regular (RegularIsClosed), and without layers the values of the  *)
(* fine solution solve it (CoarseIsFine).  The boundary correctors of a    *)
(* cell are what its Dirichlet values contribute to the others             *)
(* (DirectionIs).                                                          *)
(*                                                                         *)
(* The sixth part asks when a run succeeds.  In a row of cells whose       *)
(* resistances do not add up to zero, only zero vanishes at the ends and   *)
(* has a flux that does not fall (ChainKernel): that holds of the local    *)
(* grids and, with the entries of the cells in the coarse matrix as        *)
(* coefficients (CellStiffness), of the coarse grid.                       *)
(***************************************************************************)
EXTENDS MethodsCompared, FiniteSetTheorems, WellFoundedInduction, TLAPS

---------------------------------------------------------------------------
(* Recursion on the numbers, the field, sums over the grid                 *)

\* A set of numbers with a member has a least one.
LEMMA LeastNumber ==
  ASSUME NEW T, T \subseteq Nat, T # {}
  PROVE  \E x \in T : \A y \in T : x <= y
<1> DEFINE R == OpToRel(<, Nat)
<1>1. IsWellFoundedOn(R, Nat)
  BY NatLessThanWellFounded
<1>2. \A x, y \in Nat : y < x => <<y, x>> \in R
  BY DEF OpToRel
<1> HIDE DEF R
<1>3. PICK x \in T : \A y \in T : ~(<<y, x>> \in R)
  BY <1>1, WFMin
<1>4. \A y \in T : x <= y
  <2> SUFFICES ASSUME NEW y \in T PROVE x <= y
    OBVIOUS
  <2>1. x \in Nat /\ y \in Nat /\ ~(y < x)
    BY <1>2, <1>3
  <2>2. QED BY <2>1
<1>5. QED BY <1>4

\* A recursion with a step function has the function it says, on every number.
Recursive(F, base, step) == \A n \in Nat : F[n] = IF n = 0 THEN base ELSE step[n][F[n - 1]]

\* Such a function exists: the one every beginning of which is built step
\* by step.
LEMMA RecursionOnNat ==
  ASSUME NEW S, NEW base \in S, NEW step \in [Nat -> [S -> S]]
  PROVE  \E F \in [Nat -> S] : Recursive(F, base, step)
<1> DEFINE Begins(F, n) == F \in [0 .. n -> S] /\ F[0] = base /\ \A i \in 1 .. n : F[i] = step[i][F[i - 1]]
           Without == {n \in Nat : ~\E F : Begins(F, n)}
           Two == {n \in Nat : \E F, g : \E m \in Nat : m >= n /\ Begins(F, n) /\ Begins(g, m) /\ F[n] # g[n]}
<1>1. \A n \in Nat : \E F : Begins(F, n)
  <2> SUFFICES ASSUME Without # {} PROVE FALSE
    OBVIOUS
  <2>1. PICK n \in Without : \A y \in Without : n <= y
    BY LeastNumber
  <2>2. n \in Nat
    OBVIOUS
  <2>3. n # 0
    <3> DEFINE F == [i \in 0 .. 0 |-> base]
    <3>1. Begins(F, 0)
      OBVIOUS
    <3>2. QED BY <3>1
  <2>4. n - 1 \in Nat /\ ~(n <= n - 1)
    BY <2>2, <2>3
  <2>5. PICK F : Begins(F, n - 1)
    BY <2>1, <2>4
  <2> DEFINE g == [i \in 0 .. n |-> IF i = n THEN step[n][F[n - 1]] ELSE F[i]]
  <2>6. F[n - 1] \in S
    BY <2>4, <2>5
  <2>7. g \in [0 .. n -> S]
    BY <2>2, <2>3, <2>5, <2>6
  <2>8. g[0] = base /\ \A i \in 1 .. n : g[i] = step[i][g[i - 1]]
    BY <2>2, <2>3, <2>5, <2>6
  <2>9. QED BY <2>2, <2>7, <2>8
<1>2. ASSUME NEW n \in Nat, NEW m \in Nat, m >= n, NEW F, NEW g, Begins(F, n), Begins(g, m)
      PROVE  F[n] = g[n]
  <2> HIDE DEF Begins
  <2> SUFFICES ASSUME F[n] # g[n] PROVE FALSE
    OBVIOUS
  <2>0. n \in Two
    BY <1>2
  <2> USE DEF Begins
  <2>1. PICK z \in Two : \A y \in Two : z <= y
    BY <2>0, LeastNumber
  <2>2. PICK p, q : \E l \in Nat : l >= z /\ Begins(p, z) /\ Begins(q, l) /\ p[z] # q[z]
    BY <2>1
  <2>3. PICK l \in Nat : l >= z /\ Begins(p, z) /\ Begins(q, l) /\ p[z] # q[z]
    BY <2>2
  <2>4. z \in Nat /\ z # 0
    BY <2>3
  <2> DEFINE r == [i \in 0 .. z - 1 |-> p[i]]
  <2>5. Begins(r, z - 1)
    BY <2>3, <2>4
  <2>6. r[z - 1] = p[z - 1]
    BY <2>4
  <2>7. z - 1 \in Nat /\ z - 1 \notin Two /\ l >= z - 1
    <3>1. \A y \in Two : z <= y
      BY <2>1
    <3> HIDE DEF Two
    <3>2. QED BY <2>3, <2>4, <3>1
  <2>8. p[z] = step[z][p[z - 1]] /\ q[z] = step[z][q[z - 1]]
    BY <2>3, <2>4
  <2> HIDE DEF Begins, r
  <2>9. r[z - 1] = q[z - 1]
    BY <2>3, <2>5, <2>7
  <2>10. QED BY <2>3, <2>6, <2>8, <2>9
<1> DEFINE h == [n \in Nat |-> (CHOOSE F : Begins(F, n))[n]]
<1>3. \A n \in Nat : Begins(CHOOSE F : Begins(F, n), n)
  BY <1>1
<1> HIDE DEF Begins
<1>4. ASSUME NEW n \in Nat PROVE h[n] \in S /\ h[n] = IF n = 0 THEN base ELSE step[n][h[n - 1]]
  <2> DEFINE c == CHOOSE F : Begins(F, n)
  <2>1. Begins(c, n) /\ h[n] = c[n]
    BY <1>3
  <2> HIDE DEF c, h
  <2>2. h[n] \in S
    BY <2>1 DEF Begins
  <2>3. CASE n = 0
    BY <2>1, <2>2, <2>3 DEF Begins
  <2>4. CASE n # 0
    <3> DEFINE d == CHOOSE F : Begins(F, n - 1)
    <3>1. n - 1 \in Nat /\ n >= n - 1
      BY <2>4
    <3>2. Begins(d, n - 1) /\ h[n - 1] = d[n - 1]
      BY <1>3, <3>1 DEF h
    <3> HIDE DEF d
    <3>3. d[n - 1] = c[n - 1]
      BY <1>2, <2>1, <3>1, <3>2
    <3>4. c[n] = step[n][c[n - 1]]
      BY <2>1, <2>4 DEF Begins
    <3>5. QED BY <2>1, <2>2, <2>4, <3>2, <3>3, <3>4
  <2>5. QED BY <2>3, <2>4
<1>5. h \in [Nat -> S]
  BY <1>4
<1> HIDE DEF h
<1>6. Recursive(h, base, step)
  BY <1>4 DEF Recursive
<1>7. QED BY <1>5, <1>6

---------------------------------------------------------------------------
\* Multiples of the field's prime: a number that is zero in the field.
Div(x) == \E q \in Int : x = q * P

\* The number of micro cells.
Size == NumCells * Micro

\* What the assumptions say of the sizes of the grid.
LEMMA Sizes == /\ P \in Nat /\ P > 1 /\ NumCells \in Nat /\ NumCells >= 1
               /\ Micro \in Nat /\ Micro >= 1 /\ Micro < P
               /\ Size \in Nat /\ Size >= NumCells /\ Size >= 1
<1>1. /\ P \in Nat /\ P > 1 /\ NumCells \in Nat /\ NumCells >= 1
      /\ Micro \in Nat /\ Micro >= 1 /\ Micro < P
  BY FieldAssumption, GridAssumption
<1>2. NumCells * Micro \in Nat /\ NumCells * Micro >= NumCells * 1
  BY <1>1
<1>3. QED BY <1>1, <1>2 DEF Size

\* Sums and differences of multiples.
LEMMA DivSum ==
  ASSUME NEW x \in Int, NEW y \in Int, NEW z \in Int, Div(x), Div(y), z = x + y \/ z = x - y
  PROVE  Div(z)
<1>1. PICK q \in Int : x = q * P
  BY DEF Div
<1>2. PICK r \in Int : y = r * P
  BY DEF Div
<1>3. P \in Int
  BY Sizes
<1>4. q + r \in Int /\ x + y = (q + r) * P /\ q - r \in Int /\ x - y = (q - r) * P
  BY <1>1, <1>2, <1>3
<1>5. QED BY <1>4 DEF Div

\* Multiples of multiples.
LEMMA DivTimes ==
  ASSUME NEW a \in Int, NEW x \in Int, Div(x)
  PROVE  Div(a * x)
<1>1. PICK q \in Int : x = q * P
  BY DEF Div
<1>2. P \in Int
  BY Sizes
<1>3. a * q \in Int /\ a * x = (a * q) * P
  BY <1>1, <1>2
<1>4. QED BY <1>3 DEF Div

\* Zero is a multiple.
LEMMA DivZero == Div(0)
BY Sizes DEF Div

\* The representative of a number in the field.
LEMMA DivMod ==
  ASSUME NEW a \in Int
  PROVE  (a % P) \in Field /\ Div(a - (a % P)) /\ ((a % P) = 0 <=> Div(a))
<1> DEFINE r == a % P
           q == a \div P
<1>1. r \in 0 .. P - 1 /\ q \in Int /\ a = q * P + r /\ P \in Nat \ {0}
  <2>1. P \in Nat \ {0}
    BY Sizes
  <2>2. QED BY <2>1
<1> HIDE DEF r, q
<1>2. a - r = q * P
  BY <1>1
<1>3. Div(a - r)
  BY <1>1, <1>2 DEF Div
<1>4. r = 0 => Div(a)
  BY <1>1, <1>3
<1>5. Div(a) => r = 0
  <2> SUFFICES ASSUME NEW l \in Int, a = l * P PROVE r = 0
    BY DEF Div
  <2>1. r = (l - q) * P /\ l - q \in Int
    BY <1>1
  <2>2. CASE l - q = 0
    BY <1>1, <2>1, <2>2
  <2>3. CASE l - q >= 1
    BY <1>1, <2>1, <2>3
  <2>4. CASE l - q <= -1
    BY <1>1, <2>1, <2>4
  <2>5. QED BY <2>1, <2>2, <2>3, <2>4
<1>6. QED BY <1>1, <1>3, <1>4, <1>5 DEF r, Field

\* Members of the field are equal when they differ by a multiple.
LEMMA DivField ==
  ASSUME NEW a \in Field, NEW b \in Field, Div(a - b)
  PROVE  a = b
<1>1. PICK l \in Int : a - b = l * P
  BY DEF Div
<1>2. P \in Nat \ {0} /\ a \in 0 .. P - 1 /\ b \in 0 .. P - 1
  BY Sizes DEF Field
<1>3. CASE l = 0
  BY <1>1, <1>2, <1>3
<1>4. CASE l >= 1
  BY <1>1, <1>2, <1>4
<1>5. CASE l <= -1
  BY <1>1, <1>2, <1>5
<1>6. QED BY <1>3, <1>4, <1>5

---------------------------------------------------------------------------
\* Terms that can be added up.
Ints(F, S) == \A n \in S : F[n] \in Int

\* Numbers that add up the members' values.
AddUp(g, F, S) ==
  \A n \in Nat : g[n] = (IF n = 0 THEN 0 ELSE g[n - 1]) + (IF n \in S THEN F[n] ELSE 0)

\* The recursive function PartialSums has the values its definition says.
LEMMA PartialSumsRecursive ==
  ASSUME NEW S, S \subseteq Nat, NEW F, Ints(F, S)
  PROVE  PartialSums(F, S) \in [Nat -> Int] /\ AddUp(PartialSums(F, S), F, S)
<1> DEFINE term == [n \in Nat |-> IF n \in S THEN F[n] ELSE 0]
           step == [n \in Nat |-> [a \in Int |-> a + term[n]]]
           Sums(g) == g = [n \in Nat |-> (IF n = 0 THEN 0 ELSE g[n - 1]) + (IF n \in S THEN F[n] ELSE 0)]
<1>1. term \in [Nat -> Int]
  BY DEF Ints
<1>2. \A n \in Nat : term[n] = IF n \in S THEN F[n] ELSE 0
  OBVIOUS
<1> HIDE DEF term
<1>3. step \in [Nat -> [Int -> Int]] /\ term[0] \in Int
  BY <1>1
<1>4. \A n \in Nat : \A a \in Int : step[n][a] = a + term[n]
  OBVIOUS
<1> HIDE DEF step
<1> DEFINE base == term[0]
<1> HIDE DEF base
<1>5. PICK g \in [Nat -> Int] : \A n \in Nat : g[n] = IF n = 0 THEN base ELSE step[n][g[n - 1]]
  <2>1. base \in Int
    BY <1>3 DEF base
  <2>2. \E g \in [Nat -> Int] : Recursive(g, base, step)
    BY <1>3, <2>1, RecursionOnNat
  <2>3. QED BY <2>2 DEF Recursive
<1>6. ASSUME NEW n \in Nat
      PROVE  g[n] = (IF n = 0 THEN 0 ELSE g[n - 1]) + (IF n \in S THEN F[n] ELSE 0)
  <2>1. CASE n = 0
    BY <1>1, <1>2, <1>5, <2>1 DEF base
  <2>2. CASE n # 0
    <3>1. n - 1 \in Nat
      BY <2>2
    <3>2. g[n - 1] \in Int /\ g[n] = step[n][g[n - 1]]
      BY <1>5, <2>2, <3>1
    <3>3. g[n] = g[n - 1] + term[n]
      BY <1>4, <3>2
    <3>4. QED BY <1>2, <2>2, <3>3
  <2>3. QED BY <2>1, <2>2
<1>7. Sums(g)
  BY <1>6
<1> DEFINE sums == CHOOSE h : Sums(h)
<1>8. Sums(sums)
  BY <1>7
<1>9. PartialSums(F, S) = sums
  BY DEF PartialSums
<1> HIDE DEF sums
<1>10. ASSUME NEW n \in Nat
      PROVE  sums[n] = (IF n = 0 THEN 0 ELSE sums[n - 1]) + (IF n \in S THEN F[n] ELSE 0)
  BY <1>8
<1> HIDE DEF Sums
<1>11. \A n \in Nat : sums[n] = g[n]
  <2> DEFINE Bad == {n \in Nat : sums[n] # g[n]}
  <2> SUFFICES ASSUME Bad # {} PROVE FALSE
    OBVIOUS
  <2>1. PICK n \in Bad : \A m \in Bad : n <= m
    BY LeastNumber
  <2>2. n \in Nat /\ sums[n] # g[n]
    OBVIOUS
  <2>3. CASE n = 0
    BY <1>6, <1>10, <2>2, <2>3
  <2>4. CASE n # 0
    <3>1. n - 1 \in Nat /\ ~(n <= n - 1)
      BY <2>2, <2>4
    <3>2. sums[n - 1] = g[n - 1]
      BY <2>1, <3>1
    <3>3. QED BY <1>6, <1>10, <2>2, <2>4, <3>2
  <2>5. QED BY <2>3, <2>4
<1>12. sums \in [Nat -> Int]
  <2>1. sums = [n \in Nat |-> sums[n]]
    BY <1>8 DEF Sums
  <2>2. QED BY <1>5, <1>11, <2>1
<1>13. AddUp(sums, F, S)
  BY <1>10 DEF AddUp
<1>14. QED BY <1>9, <1>12, <1>13

\* Numbers that begin and go on as the partial sums do, in the field, are the
\* partial sums.
LEMMA TotalIs ==
  ASSUME NEW S, S \subseteq Nat, NEW F, Ints(F, S), NEW G \in [Nat -> Int],
         \A n \in 0 .. Size :
           Div(G[n] - ((IF n = 0 THEN 0 ELSE G[n - 1]) + (IF n \in S THEN F[n] ELSE 0)))
  PROVE  Total(F, S) \in Field /\ Div(Total(F, S) - G[Size])
<1> DEFINE sums == PartialSums(F, S)
           term == [n \in Nat |-> IF n \in S THEN F[n] ELSE 0]
           Bad == {n \in 0 .. Size : ~Div(sums[n] - G[n])}
<1>1. sums \in [Nat -> Int] /\ Size \in Nat /\ AddUp(sums, F, S)
  BY PartialSumsRecursive, Sizes
<1>2. term \in [Nat -> Int]
  BY DEF Ints
<1>3. ASSUME NEW n \in Nat PROVE sums[n] = (IF n = 0 THEN 0 ELSE sums[n - 1]) + term[n]
  <2>1. term[n] = IF n \in S THEN F[n] ELSE 0
    OBVIOUS
  <2> HIDE DEF term, sums
  <2>2. QED BY <1>1, <2>1 DEF AddUp
<1>4. \A n \in 0 .. Size : Div(G[n] - ((IF n = 0 THEN 0 ELSE G[n - 1]) + term[n]))
  BY <1>1
<1>5. Total(F, S) = sums[Size] % P
  BY DEF Total, Size
<1> HIDE DEF sums, term
<1>6. Bad = {}
  <2> SUFFICES ASSUME Bad # {} PROVE FALSE
    OBVIOUS
  <2>1. Bad \subseteq Nat
    BY <1>1
  <2>2. PICK n \in Bad : \A m \in Bad : n <= m
    BY <2>1, LeastNumber
  <2>3. n \in 0 .. Size /\ n \in Nat /\ ~Div(sums[n] - G[n])
    BY <1>1
  <2>4. sums[n] \in Int /\ G[n] \in Int /\ term[n] \in Int
    BY <1>1, <1>2, <2>3
  <2>5. CASE n = 0
    <3>1. sums[n] = 0 + term[n] /\ Div(G[n] - (0 + term[n]))
      BY <1>3, <1>4, <2>3, <2>5
    <3> DEFINE x == G[n] - (0 + term[n])
               z == sums[n] - G[n]
    <3>3. x \in Int /\ z \in Int /\ z = 0 - x /\ Div(x)
      BY <2>4, <3>1
    <3> HIDE DEF x, z
    <3>4. Div(z)
      BY <3>3, DivSum, DivZero
    <3>5. QED BY <2>3, <3>4 DEF z
  <2>6. CASE n # 0
    <3>1. n - 1 \in 0 .. Size /\ n - 1 \in Nat /\ ~(n <= n - 1)
      BY <1>1, <2>3, <2>6
    <3>2. Div(sums[n - 1] - G[n - 1]) /\ sums[n - 1] \in Int /\ G[n - 1] \in Int
      BY <1>1, <2>2, <3>1
    <3>3. sums[n] = sums[n - 1] + term[n] /\ Div(G[n] - (G[n - 1] + term[n]))
      BY <1>3, <1>4, <2>3, <2>6
    <3> DEFINE x == G[n] - (G[n - 1] + term[n])
               y == sums[n - 1] - G[n - 1]
               z == sums[n] - G[n]
    <3>4. x \in Int /\ y \in Int /\ z \in Int /\ z = y - x
      BY <2>4, <3>2, <3>3
    <3>5. Div(x) /\ Div(y)
      BY <3>2, <3>3
    <3> HIDE DEF x, y, z
    <3>6. Div(z)
      BY <3>4, <3>5, DivSum
    <3>7. QED BY <2>3, <3>6 DEF z
  <2>7. QED BY <2>5, <2>6
<1>7. Div(sums[Size] - G[Size]) /\ sums[Size] \in Int /\ G[Size] \in Int
  BY <1>1, <1>6
<1> DEFINE s == sums[Size]
           t == s % P
<1>8. t \in Field /\ Div(s - t) /\ s \in Int
  BY <1>7, DivMod
<1>9. t \in Int
  BY <1>8, Sizes DEF Field
<1> HIDE DEF t
<1> DEFINE x == s - t
           y == s - G[Size]
           z == t - G[Size]
<1>10. x \in Int /\ y \in Int /\ z \in Int /\ z = y - x /\ Div(x) /\ Div(y)
  BY <1>7, <1>8, <1>9
<1> HIDE DEF s, x, y, z
<1>11. Div(z)
  BY <1>10, DivSum
<1>12. QED BY <1>5, <1>8, <1>11 DEF s, t, z

\* A sum is the last partial sum.
LEMMA TotalSums ==
  ASSUME NEW S, S \subseteq Nat, NEW F, Ints(F, S)
  PROVE  /\ Total(F, S) \in Field /\ Total(F, S) \in Int
         /\ PartialSums(F, S)[Size] \in Int
         /\ Div(PartialSums(F, S)[Size] - Total(F, S))
<1> DEFINE s == PartialSums(F, S)[Size]
<1>1. s \in Int
  BY PartialSumsRecursive, Sizes
<1>2. Total(F, S) = s % P
  BY DEF Total, Size
<1> HIDE DEF s
<1>3. (s % P) \in Field /\ Div(s - (s % P))
  BY <1>1, DivMod
<1>4. (s % P) \in Int
  BY <1>3, Sizes DEF Field
<1>5. QED BY <1>1, <1>2, <1>3, <1>4 DEF s

\* Sums are linear.
LEMMA TotalLinear ==
  ASSUME NEW S, S \subseteq Nat, NEW F, Ints(F, S), NEW g, Ints(g, S), NEW h, Ints(h, S),
         NEW a \in Int, NEW b \in Int,
         \A n \in S : Div(h[n] - (a * F[n] + b * g[n]))
  PROVE  Div(Total(h, S) - (a * Total(F, S) + b * Total(g, S)))
<1> DEFINE sf == PartialSums(F, S)
           sg == PartialSums(g, S)
           G == [n \in Nat |-> a * sf[n] + b * sg[n]]
<1>1. sf \in [Nat -> Int] /\ sg \in [Nat -> Int] /\ AddUp(sf, F, S) /\ AddUp(sg, g, S)
  BY PartialSumsRecursive
<1>2. /\ sf[Size] \in Int /\ sg[Size] \in Int
      /\ Total(F, S) \in Int /\ Total(g, S) \in Int /\ Total(h, S) \in Int
      /\ Div(sf[Size] - Total(F, S)) /\ Div(sg[Size] - Total(g, S))
  BY TotalSums
<1> HIDE DEF sf, sg
<1>3. G \in [Nat -> Int] /\ \A n \in Nat : G[n] = a * sf[n] + b * sg[n]
  BY <1>1
<1> HIDE DEF G
<1>4. ASSUME NEW n \in 0 .. Size
      PROVE  Div(G[n] - ((IF n = 0 THEN 0 ELSE G[n - 1]) + (IF n \in S THEN h[n] ELSE 0)))
  <2> DEFINE fn == IF n \in S THEN F[n] ELSE 0
             gn == IF n \in S THEN g[n] ELSE 0
             hn == IF n \in S THEN h[n] ELSE 0
             pf == IF n = 0 THEN 0 ELSE sf[n - 1]
             pg == IF n = 0 THEN 0 ELSE sg[n - 1]
             pG == IF n = 0 THEN 0 ELSE G[n - 1]
             x == hn - (a * fn + b * gn)
             z == G[n] - (pG + hn)
  <2>1. n \in Nat /\ (n # 0 => n - 1 \in Nat)
    BY Sizes
  <2>2. fn \in Int /\ gn \in Int /\ hn \in Int
    BY DEF Ints
  <2>3. pf \in Int /\ pg \in Int
    BY <1>1, <2>1
  <2>4. sf[n] = pf + fn /\ sg[n] = pg + gn
    BY <1>1, <2>1 DEF AddUp
  <2>5. G[n] = a * sf[n] + b * sg[n]
    BY <1>3, <2>1
  <2>6. pG = a * pf + b * pg
    <3>1. CASE n = 0
      BY <3>1
    <3>2. CASE n # 0
      BY <1>3, <2>1, <3>2
    <3>3. QED BY <3>1, <3>2
  <2>7. Div(x)
    <3>1. CASE n \in S
      BY <3>1
    <3>2. CASE n \notin S
      BY <3>2, DivZero
    <3>3. QED BY <3>1, <3>2
  <2> HIDE DEF fn, gn, hn, pf, pg, pG
  <2>8. /\ a * (pf + fn) = a * pf + a * fn /\ b * (pg + gn) = b * pg + b * gn
        /\ a * pf \in Int /\ a * fn \in Int /\ b * pg \in Int /\ b * gn \in Int
    BY <2>2, <2>3
  <2>9. x \in Int /\ z \in Int /\ z = 0 - x
    BY <2>2, <2>3, <2>4, <2>5, <2>6, <2>8
  <2> HIDE DEF x, z
  <2>10. Div(z)
    BY <2>7, <2>9, DivSum, DivZero
  <2>11. QED BY <2>10 DEF z, pG, hn
<1>5. Div(Total(h, S) - G[Size])
  BY <1>3, <1>4, TotalIs
<1>6. G[Size] = a * sf[Size] + b * sg[Size]
  BY <1>3, Sizes
<1> DEFINE x == sf[Size] - Total(F, S)
           y == sg[Size] - Total(g, S)
           u == a * x
           v == b * y
           w == u + v
           t == Total(h, S) - G[Size]
           z == Total(h, S) - (a * Total(F, S) + b * Total(g, S))
<1>7. x \in Int /\ y \in Int /\ Div(x) /\ Div(y)
  BY <1>2
<1>8. u = a * sf[Size] - a * Total(F, S) /\ v = b * sg[Size] - b * Total(g, S)
  BY <1>2
<1>9. a * sf[Size] \in Int /\ a * Total(F, S) \in Int /\ b * sg[Size] \in Int /\ b * Total(g, S) \in Int
  BY <1>2
<1>10. u \in Int /\ v \in Int /\ Div(u) /\ Div(v)
  <2> HIDE DEF x, y
  <2>1. a * x \in Int /\ b * y \in Int
    BY <1>7
  <2>2. Div(a * x)
    BY <1>7, DivTimes
  <2>3. Div(b * y)
    BY <1>7, DivTimes
  <2>4. QED BY <2>1, <2>2, <2>3
<1>11. w \in Int /\ t \in Int /\ z \in Int /\ z = t + w
  <2> HIDE DEF u, v
  <2>1. QED BY <1>2, <1>6, <1>8, <1>9, <1>10
<1>12. Div(w) /\ Div(t)
  <2>1. Div(t)
    BY <1>5
  <2> HIDE DEF u, v
  <2>2. QED BY <1>10, <2>1, DivSum
<1> HIDE DEF w, t, z
<1>13. Div(z)
  BY <1>11, <1>12, DivSum
<1>14. QED BY <1>13 DEF z

\* The sum of a function that is zero but in one place.
LEMMA TotalOne ==
  ASSUME NEW S, S \subseteq Nat, NEW F, Ints(F, S), NEW p \in S, p <= Size,
         \A n \in S \ {p} : Div(F[n])
  PROVE  Div(Total(F, S) - F[p])
<1> DEFINE G == [n \in Nat |-> IF p <= n THEN F[p] ELSE 0]
<1>1. p \in Nat /\ F[p] \in Int
  BY DEF Ints
<1>2. G \in [Nat -> Int] /\ \A n \in Nat : G[n] = IF p <= n THEN F[p] ELSE 0
  BY <1>1
<1> HIDE DEF G
<1>3. ASSUME NEW n \in 0 .. Size
      PROVE  Div(G[n] - ((IF n = 0 THEN 0 ELSE G[n - 1]) + (IF n \in S THEN F[n] ELSE 0)))
  <2>1. n \in Nat /\ (n # 0 => n - 1 \in Nat)
    BY Sizes
  <2> DEFINE pG == IF n = 0 THEN 0 ELSE G[n - 1]
             fn == IF n \in S THEN F[n] ELSE 0
             z == G[n] - (pG + fn)
  <2>2. fn \in Int /\ (n = p => fn = F[p]) /\ (n # p => Div(fn))
    BY DivZero DEF Ints
  <2>3. pG = IF p < n THEN F[p] ELSE 0
    BY <1>1, <1>2, <2>1
  <2>4. G[n] = IF p <= n THEN F[p] ELSE 0
    BY <1>2, <2>1
  <2> HIDE DEF fn, pG
  <2>5. CASE n = p
    <3>1. z = 0
      BY <1>1, <2>1, <2>2, <2>3, <2>4, <2>5
    <3> HIDE DEF z
    <3>2. Div(z)
      BY <3>1, DivZero
    <3>3. QED BY <3>2 DEF z, pG, fn
  <2>6. CASE n # p
    <3>1. z \in Int /\ z = 0 - fn
      BY <1>1, <2>1, <2>2, <2>3, <2>4, <2>6
    <3> HIDE DEF z
    <3>2. Div(z)
      BY <2>2, <2>6, <3>1, DivSum, DivZero
    <3>3. QED BY <3>2 DEF z, pG, fn
  <2>7. QED BY <2>5, <2>6
<1>4. Div(Total(F, S) - G[Size])
  BY <1>2, <1>3, TotalIs
<1>5. G[Size] = F[p]
  BY <1>2, Sizes
<1>6. QED BY <1>4, <1>5

\* The sum of a function that is zero but in two places.
LEMMA TotalTwo ==
  ASSUME NEW S, S \subseteq Nat, NEW F, Ints(F, S), NEW p \in S, NEW q \in S, p # q, p <= Size, q <= Size,
         \A n \in S \ {p, q} : Div(F[n])
  PROVE  Div(Total(F, S) - (F[p] + F[q]))
<1> DEFINE g == [n \in S |-> IF n = p THEN F[p] ELSE 0]
           h == [n \in S |-> IF n = p THEN 0 ELSE F[n]]
<1>1. /\ Ints(g, S) /\ g[p] = F[p] /\ \A n \in S \ {p} : g[n] = 0
      /\ Ints(h, S) /\ h[q] = F[q] /\ h[p] = 0 /\ \A n \in S \ {p} : h[n] = F[n]
  BY DEF Ints
<1> HIDE DEF g, h
<1>2. Div(Total(g, S) - g[p])
  BY <1>1, DivZero, TotalOne
<1>3. Div(Total(h, S) - h[q])
  <2>1. \A n \in S \ {q} : Div(h[n])
    BY <1>1, DivZero
  <2>2. QED BY <1>1, <2>1, TotalOne
<1>4. Div(Total(F, S) - (1 * Total(g, S) + 1 * Total(h, S)))
  <2>1. ASSUME NEW n \in S PROVE Div(F[n] - (1 * g[n] + 1 * h[n]))
    <3> DEFINE z == F[n] - (1 * g[n] + 1 * h[n])
    <3>1. z = 0
      BY <1>1 DEF Ints
    <3> HIDE DEF z
    <3>2. Div(z)
      BY <3>1, DivZero
    <3>3. QED BY <3>2 DEF z
  <2> DEFINE a == 1
  <2> HIDE DEF a
  <2>2. \A n \in S : Div(F[n] - (a * g[n] + a * h[n]))
    BY <2>1 DEF a
  <2>3. a \in Int
    BY DEF a
  <2>4. Div(Total(F, S) - (a * Total(g, S) + a * Total(h, S)))
    BY <1>1, <2>2, <2>3, TotalLinear
  <2>5. QED BY <2>4 DEF a
<1>5. /\ Total(F, S) \in Int /\ Total(g, S) \in Int /\ Total(h, S) \in Int
      /\ F[p] \in Int /\ F[q] \in Int
  BY <1>1, TotalSums DEF Ints
<1> DEFINE x == Total(g, S) - g[p]
           y == Total(h, S) - h[q]
           u == x + y
           v == Total(F, S) - (1 * Total(g, S) + 1 * Total(h, S))
           z == Total(F, S) - (F[p] + F[q])
<1>6. /\ x \in Int /\ y \in Int /\ u \in Int /\ v \in Int /\ z \in Int
      /\ u = x + y /\ z = v + u /\ Div(x) /\ Div(y) /\ Div(v)
  BY <1>1, <1>2, <1>3, <1>4, <1>5
<1> HIDE DEF x, y, u, v, z
<1>7. Div(u)
  BY <1>6, DivSum
<1>8. Div(z)
  BY <1>6, <1>7, DivSum
<1>9. QED BY <1>8 DEF z

\* Functions that are the same in the field have the same sum.
LEMMA TotalSame ==
  ASSUME NEW S, S \subseteq Nat, NEW F, Ints(F, S), NEW h, Ints(h, S),
         \A n \in S : Div(h[n] - F[n])
  PROVE  Div(Total(h, S) - Total(F, S))
<1> DEFINE a == 1
           b == 0
<1>1. a \in Int /\ b \in Int /\ \A x \in Int : a * x + b * x = x
  OBVIOUS
<1> HIDE DEF a, b
<1>2. \A n \in S : Div(h[n] - (a * F[n] + b * F[n]))
  BY <1>1 DEF Ints
<1>3. Div(Total(h, S) - (a * Total(F, S) + b * Total(F, S)))
  BY <1>1, <1>2, TotalLinear
<1>4. Total(F, S) \in Int
  BY TotalSums
<1>5. QED BY <1>1, <1>3, <1>4

\* A sum of differences of neighbours.
LEMMA TotalTelescopes ==
  ASSUME NEW a \in Nat, NEW b \in Nat, a <= b, b <= Size, NEW S, S = {n \in Nat : a < n /\ n <= b},
         NEW F, Ints(F, S), NEW H \in [Nat -> Int],
         \A n \in S : Div(H[n] - H[n - 1] - F[n])
  PROVE  Div(Total(F, S) - (H[b] - H[a]))
<1> DEFINE G == [n \in Nat |-> IF n <= a THEN 0 ELSE IF n <= b THEN H[n] - H[a] ELSE H[b] - H[a]]
<1>1. G \in [Nat -> Int]
  OBVIOUS
<1>2. \A n \in Nat : G[n] = IF n <= a THEN 0 ELSE IF n <= b THEN H[n] - H[a] ELSE H[b] - H[a]
  OBVIOUS
<1> HIDE DEF G
<1>3. ASSUME NEW n \in 0 .. Size
      PROVE  Div(G[n] - ((IF n = 0 THEN 0 ELSE G[n - 1]) + (IF n \in S THEN F[n] ELSE 0)))
  <2>1. n \in Nat /\ (n # 0 => n - 1 \in Nat)
    BY Sizes
  <2> DEFINE pG == IF n = 0 THEN 0 ELSE G[n - 1]
             fn == IF n \in S THEN F[n] ELSE 0
             z == G[n] - (pG + fn)
  <2>2. CASE n \in S
    <3>1. n - 1 \in Nat /\ n # 0 /\ a < n /\ n <= b
      BY <2>1, <2>2
    <3>2. F[n] \in Int /\ fn = F[n]
      BY <2>2 DEF Ints
    <3>3. H[n] \in Int /\ H[a] \in Int /\ H[n - 1] \in Int /\ H[b] \in Int
      BY <3>1
    <3>4. G[n] = H[n] - H[a]
      BY <1>2, <2>1, <3>1
    <3>5. pG = H[n - 1] - H[a]
      <4>1. CASE n - 1 = a
        BY <1>2, <3>1, <3>3, <4>1
      <4>2. CASE n - 1 # a
        BY <1>2, <3>1, <3>3, <4>2
      <4>3. QED BY <4>1, <4>2
    <3> HIDE DEF pG, fn
    <3>6. z = H[n] - H[n - 1] - F[n]
      BY <3>2, <3>3, <3>4, <3>5
    <3>7. Div(z)
      BY <2>2, <3>6
    <3>8. QED BY <3>7 DEF pG, fn
  <2>3. CASE n \notin S
    <3>1. fn = 0 /\ (n <= a \/ n > b)
      BY <2>1, <2>3
    <3>2. pG = G[n] /\ G[n] \in Int
      <4>1. CASE n = 0
        BY <1>1, <1>2, <4>1
      <4>2. CASE n # 0
        <5>1. n - 1 \in Nat /\ pG = G[n - 1]
          BY <2>1, <4>2
        <5>2. CASE n <= a
          BY <1>2, <2>1, <5>1, <5>2
        <5>3. CASE n > b
          <6>1. G[n] = H[b] - H[a]
            BY <1>2, <2>1, <5>3
          <6>2. CASE n - 1 = b
            <7>1. CASE a = b
              BY <1>2, <5>1, <6>1, <6>2, <7>1
            <7>2. CASE a # b
              BY <1>2, <5>1, <6>1, <6>2, <7>2
            <7>3. QED BY <7>1, <7>2
          <6>3. CASE n - 1 # b
            BY <1>2, <2>1, <5>1, <5>3, <6>1, <6>3
          <6>4. QED BY <6>2, <6>3
        <5>4. QED BY <3>1, <5>2, <5>3
      <4>3. QED BY <4>1, <4>2
    <3> HIDE DEF pG, fn
    <3>3. z = 0
      BY <3>1, <3>2
    <3> HIDE DEF z
    <3>4. Div(z)
      BY <3>3, DivZero
    <3>5. QED BY <3>4 DEF z, pG, fn
  <2>4. QED BY <2>2, <2>3
<1>4. Div(Total(F, S) - G[Size])
  BY <1>1, <1>3, TotalIs
<1>5. G[Size] = H[b] - H[a]
  <2>1. Size \in Nat
    BY Sizes
  <2>2. G[Size] = IF Size <= a THEN 0 ELSE IF Size <= b THEN H[Size] - H[a] ELSE H[b] - H[a]
    BY <1>2, <2>1
  <2>3. H[a] \in Int /\ H[b] \in Int
    OBVIOUS
  <2>4. CASE Size <= a
    BY <2>1, <2>2, <2>3, <2>4
  <2>5. CASE Size > a
    BY <2>1, <2>2, <2>3, <2>5
  <2>6. QED BY <2>1, <2>4, <2>5
<1>6. QED BY <1>4, <1>5

---------------------------------------------------------------------------
(* Functions of the nodes and the integrals of one coarse cell             *)

\* The number of micro cells of a coarse cell has a reciprocal.
LEMMA MicroReciprocal == /\ Reciprocal(Micro) \in Field /\ Reciprocal(Micro) \in Int
                 /\ Div(Micro * Reciprocal(Micro) - 1)
<1> DEFINE r == Reciprocal(Micro)
<1>1. Micro \in 1 .. P - 1 /\ Micro \in Int
  BY GridAssumption, Sizes
<1>2. \E y \in Field : ((Micro * y) % P) = 1
  BY <1>1, FieldAssumption
<1>3. r \in Field /\ ((Micro * r) % P) = 1
  BY <1>2 DEF Reciprocal
<1> HIDE DEF r
<1>4. r \in Int
  BY <1>3, Sizes DEF Field
<1> DEFINE x == Micro * r
<1>5. x \in Int /\ (x % P) = 1
  BY <1>1, <1>3, <1>4
<1> HIDE DEF x
<1>6. Div(x - (x % P))
  BY <1>5, DivMod
<1>7. QED BY <1>3, <1>4, <1>5, <1>6 DEF r, x

\* The fine grid by its size.
LEMMA Grid == /\ Entities = 1 .. Size /\ Nodes = 0 .. Size
              /\ \A e \in Entities : e \in Nodes /\ e - 1 \in Nodes
              /\ At(0) = 0 /\ At(NumCells) = Size
BY Sizes DEF Entities, Nodes, Size, At

\* The micro cells and nodes of a coarse cell lie between its ends.
LEMMA CellRange ==
  ASSUME NEW c \in Cells
  PROVE  /\ c \in Nat /\ c >= 1 /\ c <= NumCells
         /\ At(c - 1) \in Nat /\ At(c) \in Nat /\ At(c) = At(c - 1) + Micro /\ At(c) <= Size
         /\ Micros(c) = {n \in Nat : At(c - 1) < n /\ n <= At(c)}
         /\ Micros(c) \subseteq Entities
         /\ At(c) \in Micros(c)
<1>1. c \in Nat /\ c >= 1 /\ c <= NumCells /\ c - 1 \in Nat
  BY Sizes DEF Cells
<1>2. /\ (c - 1) * Micro \in Nat /\ c * Micro \in Nat /\ c * Micro = (c - 1) * Micro + Micro
  BY <1>1, Sizes
<1>3. c * Micro <= NumCells * Micro
  <2>1. NumCells - c \in Nat
    BY <1>1, Sizes
  <2>2. (NumCells - c) * Micro \in Nat
    BY <2>1, Sizes
  <2>3. (NumCells - c) * Micro = NumCells * Micro - c * Micro
    BY <1>1, Sizes
  <2>4. NumCells * Micro \in Nat
    BY Sizes DEF Size
  <2>5. QED BY <1>2, <2>2, <2>3, <2>4
<1>4. At(c - 1) \in Nat /\ At(c) \in Nat /\ At(c) = At(c - 1) + Micro /\ At(c) <= Size
  BY <1>2, <1>3 DEF At, Size
<1>5. Micros(c) = {n \in Nat : At(c - 1) < n /\ n <= At(c)}
  BY <1>4, Sizes, Grid DEF Micros
<1>6. QED BY <1>1, <1>4, <1>5, Sizes DEF Micros

\* A combination of functions of the nodes.
LEMMA CombinationIs ==
  ASSUME NEW v \in [Nodes -> Int], NEW w \in [Nodes -> Int], NEW a \in Int, NEW b \in Int
  PROVE  /\ Combination(a, v, b, w) \in [Nodes -> Int]
         /\ \A n \in Nodes : Div(Combination(a, v, b, w)[n] - (a * v[n] + b * w[n]))
<1>1. ASSUME NEW n \in Nodes
      PROVE  /\ Combination(a, v, b, w)[n] \in Int
             /\ Div(Combination(a, v, b, w)[n] - (a * v[n] + b * w[n]))
  <2> DEFINE x == a * v[n] + b * w[n]
             r == x % P
             y == x - r
             z == r - x
  <2>1. x \in Int
    OBVIOUS
  <2>2. r \in Int /\ Div(y)
    <3> HIDE DEF x
    <3>1. r \in Field /\ Div(x - r)
      BY <2>1, DivMod
    <3>2. QED BY <3>1, Sizes DEF Field
  <2>3. Combination(a, v, b, w)[n] = r
    BY DEF Combination
  <2> HIDE DEF x, r
  <2>4. y \in Int /\ z \in Int /\ z = 0 - y
    BY <2>1, <2>2
  <2> HIDE DEF y, z
  <2>5. Div(z)
    BY <2>2, <2>4, DivSum, DivZero
  <2>6. QED BY <2>2, <2>3, <2>5 DEF z, x
<1>2. Combination(a, v, b, w) = [n \in Nodes |-> Combination(a, v, b, w)[n]]
  BY DEF Combination
<1>3. QED BY <1>1, <1>2

\* The energy is linear in each of its functions.
LEMMA EnergyLinear ==
  ASSUME NEW K \in [Entities -> Int], NEW e \in Entities,
         NEW u \in [Nodes -> Int], NEW v \in [Nodes -> Int], NEW w \in [Nodes -> Int],
         NEW h \in [Nodes -> Int], NEW a \in Int, NEW b \in Int,
         \A n \in Nodes : Div(h[n] - (a * v[n] + b * w[n]))
  PROVE  /\ Energy(K, h, u, e) \in Int /\ Energy(K, v, u, e) \in Int /\ Energy(K, w, u, e) \in Int
         /\ Div(Energy(K, h, u, e) - (a * Energy(K, v, u, e) + b * Energy(K, w, u, e)))
<1> DEFINE p == e - 1
           x == h[e] - (a * v[e] + b * w[e])
           y == h[p] - (a * v[p] + b * w[p])
           s == K[e] * (u[e] - u[p])
           dv == v[e] - v[p]
           dw == w[e] - w[p]
           dh == h[e] - h[p]
           d == x - y
<1>1. e \in Nodes /\ p \in Nodes
  BY Grid
<1>2. Div(x) /\ Div(y)
  BY <1>1
<1>3. /\ h[e] \in Int /\ h[p] \in Int /\ v[e] \in Int /\ v[p] \in Int /\ w[e] \in Int /\ w[p] \in Int
      /\ u[e] \in Int /\ u[p] \in Int /\ K[e] \in Int
  BY <1>1
<1>4. s \in Int /\ dv \in Int /\ dw \in Int /\ dh \in Int /\ x \in Int /\ y \in Int /\ d \in Int
  BY <1>3
<1>5. dh = a * dv + b * dw + d
  BY <1>3
<1>6. Energy(K, h, u, e) = s * dh /\ Energy(K, v, u, e) = s * dv /\ Energy(K, w, u, e) = s * dw
  BY <1>3 DEF Energy
<1>7. d = x - y
  OBVIOUS
<1> HIDE DEF s, dv, dw, dh, x, y, d
<1>8. Div(d)
  BY <1>2, <1>4, <1>7, DivSum
<1>9. Div(s * d)
  BY <1>4, <1>8, DivTimes
<1>10. s * dh - (a * (s * dv) + b * (s * dw)) = s * d
  BY <1>4, <1>5
<1>11. s * dh \in Int /\ s * dv \in Int /\ s * dw \in Int
  BY <1>4
<1>12. QED BY <1>6, <1>9, <1>10, <1>11

\* The energy is symmetric.
LEMMA EnergySymmetric ==
  ASSUME NEW K \in [Entities -> Int], NEW e \in Entities, NEW v \in [Nodes -> Int], NEW w \in [Nodes -> Int]
  PROVE  Energy(K, v, w, e) = Energy(K, w, v, e)
<1> DEFINE x == v[e] - v[e - 1]
           y == w[e] - w[e - 1]
           z == K[e]
<1>1. x \in Int /\ y \in Int /\ z \in Int
  BY Grid
<1>2. Energy(K, v, w, e) = z * x * y /\ Energy(K, w, v, e) = z * y * x
  BY DEF Energy
<1> HIDE DEF x, y, z
<1>3. QED BY <1>1, <1>2

---------------------------------------------------------------------------
\* The types of the problem, the local solutions and the coarse solution.
Data ==
  /\ k \in [Entities -> Int] /\ f \in [Entities -> Int] /\ layers \in Nat
  /\ local \in [Cells -> [Slots -> [Nodes -> Int]]]
  /\ coarse \in [CoarseNodes -> Int]

\* The distance of a node from the other end of the cell, where the shape
\* function is zero.
Distance(c, s, n) == IF s = 0 THEN At(c) - n ELSE n - At(c - 1)

\* Distances are numbers.
LEMMA DistanceInt ==
  ASSUME NEW c \in Cells, NEW s, NEW n \in Int
  PROVE  Distance(c, s, n) \in Int
<1>1. At(c) \in Int /\ At(c - 1) \in Int
  BY CellRange
<1>2. QED BY <1>1 DEF Distance

\* A shape function is the distance divided by the width of the cell.
LEMMA CoarseBasisIs ==
  ASSUME NEW c \in Cells, NEW s \in Inner
  PROVE  /\ CoarseBasis(c, s) \in [Nodes -> Int]
         /\ \A n \in Nodes : Div(CoarseBasis(c, s)[n] - Reciprocal(Micro) * Distance(c, s, n))
<1>1. ASSUME NEW n \in Nodes
      PROVE  /\ CoarseBasis(c, s)[n] \in Int
             /\ Div(CoarseBasis(c, s)[n] - Reciprocal(Micro) * Distance(c, s, n))
  <2> DEFINE i == Reciprocal(Micro)
             t == Distance(c, s, n)
             x == i * t
             r == x % P
             y == x - r
             z == r - x
  <2>1. i \in Int /\ t \in Int
    <3>1. i \in Int
      BY MicroReciprocal, Zenon
    <3>2. n \in Int
      BY Grid, Sizes
    <3>3. t \in Int
      BY <3>2, DistanceInt
    <3>4. QED BY <3>1, <3>3
  <2>2. CoarseBasis(c, s)[n] = (t * i) % P
    BY DEF CoarseBasis, Distance
  <2> HIDE DEF i, t
  <2>3. x \in Int /\ CoarseBasis(c, s)[n] = r
    BY <2>1, <2>2
  <2>4. r \in Int /\ Div(y)
    <3> HIDE DEF x
    <3>1. r \in Field /\ Div(x - r)
      BY <2>3, DivMod
    <3>2. QED BY <3>1, Sizes DEF Field
  <2> HIDE DEF x, r
  <2>5. y \in Int /\ z \in Int /\ z = 0 - y
    BY <2>3, <2>4
  <2> HIDE DEF y, z
  <2>6. Div(z)
    BY <2>4, <2>5, DivSum, DivZero
  <2>7. QED BY <2>3, <2>4, <2>6 DEF z, x, i, t
<1>2. CoarseBasis(c, s) = [n \in Nodes |-> CoarseBasis(c, s)[n]]
  BY DEF CoarseBasis
<1>3. QED BY <1>1, <1>2

\* A corrected shape function.
LEMMA ReconstructionIs ==
  ASSUME Data, NEW c \in Cells, NEW s \in Inner
  PROVE  /\ local[c][s] \in [Nodes -> Int]
         /\ Reconstruction(c, s) \in [Nodes -> Int]
         /\ \A n \in Nodes : Div(Reconstruction(c, s)[n] - (CoarseBasis(c, s)[n] + local[c][s][n]))
<1> DEFINE b == CoarseBasis(c, s)
           l == local[c][s]
           r == Reconstruction(c, s)
           one == 1
<1>1. l \in [Nodes -> Int]
  BY DEF Data, Inner, Slots
<1>2. b \in [Nodes -> Int]
  BY CoarseBasisIs
<1>3. r = Combination(one, b, one, l)
  BY DEF Reconstruction, Plus
<1>4. one \in Int /\ \A x \in Int : one * x = x
  OBVIOUS
<1> HIDE DEF b, l, r, one
<1>5. r \in [Nodes -> Int] /\ \A n \in Nodes : Div(r[n] - (one * b[n] + one * l[n]))
  BY <1>1, <1>2, <1>3, <1>4, CombinationIs
<1>6. \A n \in Nodes : Div(r[n] - (b[n] + l[n]))
  BY <1>1, <1>2, <1>4, <1>5
<1>7. QED BY <1>1, <1>5, <1>6 DEF b, l, r

\* The load of a shape function of the coarse cell on one of its micro cells
\* differs from that of the shape function of the micro cell by the
\* difference of the squared distances.
LEMMA LoadDifference ==
  ASSUME Data, NEW c \in Cells, NEW s \in Inner, NEW e \in Micros(c)
  PROVE  LET with == Load(f, Reconstruction(c, s), e)
             without == Load(f, Plus(TestBase(e, s), local[c][s]), e)
         IN /\ with \in Int /\ without \in Int
            /\ Div((with - without)
                   - f[e] * (Reciprocal(Micro) * (Distance(c, s, e - 1) + Distance(c, s, e)) - 1))
<1> DEFINE p == e - 1
           i == Reciprocal(Micro)
           r == Reconstruction(c, s)
           b == CoarseBasis(c, s)
           l == local[c][s]
           h == TestBase(e, s)
           t == Plus(h, l)
           tp == Distance(c, s, p)
           te == Distance(c, s, e)
           one == 1
<1>1. e \in Entities /\ e \in Nodes /\ p \in Nodes /\ e \in Nat /\ f[e] \in Int
  BY CellRange, Grid, Sizes DEF Data
<1>2. r \in [Nodes -> Int] /\ l \in [Nodes -> Int] /\ \A n \in Nodes : Div(r[n] - (b[n] + l[n]))
  BY ReconstructionIs
<1>3. b \in [Nodes -> Int] /\ \A n \in Nodes : Div(b[n] - i * Distance(c, s, n))
  BY CoarseBasisIs
<1>4. h \in [Nodes -> Int] /\ h[e] + h[p] = 1
  <2>1. h = Hat(e - 1 + s) /\ s \in {0, 1}
    BY DEF TestBase, Inner
  <2>2. Hat(e - 1 + s) \in [Nodes -> Int]
    BY DEF Hat
  <2>3. CASE s = 0
    BY <1>1, <2>1, <2>3 DEF Hat
  <2>4. CASE s = 1
    BY <1>1, <2>1, <2>4 DEF Hat
  <2>5. QED BY <2>1, <2>2, <2>3, <2>4
<1>5. t = Combination(one, h, one, l)
  BY DEF Plus
<1>6. one \in Int /\ \A x \in Int : one * x = x
  OBVIOUS
<1>7. i \in Int /\ tp \in Int /\ te \in Int
  <2>1. i \in Int
    BY MicroReciprocal, Zenon
  <2>2. e \in Int /\ p \in Int
    BY <1>1
  <2>3. tp \in Int /\ te \in Int
    BY <2>2, DistanceInt
  <2>4. QED BY <2>1, <2>3
<1>8. Load(f, r, e) = f[e] * (r[p] + r[e]) /\ Load(f, t, e) = f[e] * (t[p] + t[e])
  BY DEF Load
<1> HIDE DEF one, t, h, l, b, r
<1>9. t \in [Nodes -> Int] /\ \A n \in Nodes : Div(t[n] - (one * h[n] + one * l[n]))
  BY <1>2, <1>4, <1>5, <1>6, CombinationIs
<1>10. \A n \in Nodes : Div(t[n] - (h[n] + l[n]))
  BY <1>2, <1>4, <1>6, <1>9
<1> DEFINE x1 == r[p] - (b[p] + l[p])
           x2 == r[e] - (b[e] + l[e])
           x3 == b[p] - i * tp
           x4 == b[e] - i * te
           x5 == t[p] - (h[p] + l[p])
           x6 == t[e] - (h[e] + l[e])
           y1 == x1 + x2
           y2 == x3 + x4
           y3 == x5 + x6
           y4 == y1 + y2
           y5 == y4 - y3
           F == f[e]
           z == F * (r[p] + r[e]) - F * (t[p] + t[e]) - F * (i * (tp + te) - 1)
<1>11. Div(x1) /\ Div(x2) /\ Div(x3) /\ Div(x4) /\ Div(x5) /\ Div(x6)
  BY <1>1, <1>2, <1>3, <1>10
<1>12. /\ r[p] \in Int /\ r[e] \in Int /\ b[p] \in Int /\ b[e] \in Int /\ l[p] \in Int /\ l[e] \in Int
       /\ t[p] \in Int /\ t[e] \in Int /\ h[p] \in Int /\ h[e] \in Int
  BY <1>1, <1>2, <1>3, <1>4, <1>9
<1>13. i * tp \in Int /\ i * te \in Int /\ i * (tp + te) = i * tp + i * te
  <2> HIDE DEF i, tp, te
  <2>1. QED BY <1>7
<1> HIDE DEF i, tp, te
<1>14. /\ x1 \in Int /\ x2 \in Int /\ x3 \in Int /\ x4 \in Int /\ x5 \in Int /\ x6 \in Int
       /\ y1 \in Int /\ y2 \in Int /\ y3 \in Int /\ y4 \in Int /\ y5 \in Int
  BY <1>12, <1>13
<1>15. y5 = (r[p] + r[e]) - (t[p] + t[e]) - (i * (tp + te) - 1)
  BY <1>4, <1>12, <1>13
<1>16. Div(y5)
  <2> HIDE DEF x1, x2, x3, x4, x5, x6
  <2>1. Div(y1) /\ Div(y2) /\ Div(y3)
    BY <1>11, <1>14, DivSum
  <2> HIDE DEF y1, y2, y3
  <2>2. Div(y4)
    BY <1>14, <2>1, DivSum
  <2> HIDE DEF y4
  <2>3. QED BY <1>14, <2>1, <2>2, DivSum
<1>17. z = F * y5
  <2> DEFINE A == r[p] + r[e]
             B == t[p] + t[e]
             C == i * (tp + te) - 1
  <2>1. A \in Int /\ B \in Int /\ C \in Int /\ F \in Int /\ y5 = A - B - C
    BY <1>1, <1>12, <1>13, <1>15
  <2>2. z = F * A - F * B - F * C
    OBVIOUS
  <2> HIDE DEF A, B, C, F, y5, z
  <2>3. QED BY <2>1, <2>2
<1>18. Div(F * y5)
  <2> HIDE DEF y5
  <2>1. QED BY <1>1, <1>14, <1>16, DivTimes
<1>19. F * (r[p] + r[e]) \in Int /\ F * (t[p] + t[e]) \in Int
  BY <1>1, <1>12
<1>20. QED BY <1>8, <1>17, <1>18, <1>19 DEF z, r, t, h, l, i, tp, te

\* A source that is constant on a cell has the same load with the shape
\* functions of the micro cells.
LEMMA SameLoad ==
  ASSUME Data, EvenSource, NEW c \in Cells, NEW s \in Inner, NEW D, Ints(D, Micros(c)),
         \A e \in Micros(c) :
           D[e] = Load(f, Reconstruction(c, s), e) - Load(f, Plus(TestBase(e, s), local[c][s]), e)
  PROVE  Div(Total(D, Micros(c)))
<1> DEFINE a == At(c - 1)
           b == At(c)
           i == Reciprocal(Micro)
           F == f[b]
           H == [n \in Nat |-> IF s = 0 THEN 0 - F * (i * ((b - n) * (b - n)) + (n - a))
                               ELSE F * (i * ((n - a) * (n - a)) - (n - a))]
<1>1. /\ a \in Nat /\ b \in Nat /\ b = a + Micro /\ b <= Size
      /\ Micros(c) = {n \in Nat : a < n /\ n <= b} /\ b \in Micros(c) /\ Micros(c) \subseteq Entities
  BY CellRange
<1>2. i \in Int /\ Div(Micro * i - 1) /\ Micro \in Int
  <2>1. i \in Int /\ Div(Micro * i - 1)
    BY MicroReciprocal, Zenon
  <2>2. Micro \in Int
    BY Sizes
  <2>3. QED BY <2>1, <2>2
<1>3. F \in Int /\ \A e \in Micros(c) : f[e] = F
  BY <1>1 DEF Data, EvenSource
<1>4. s = 0 \/ s = 1
  BY DEF Inner
<1>5. \A e \in Micros(c) :
        Div(D[e] - F * (i * (Distance(c, s, e - 1) + Distance(c, s, e)) - 1))
  BY <1>3, LoadDifference
<1>6. \A n : Distance(c, s, n) = IF s = 0 THEN b - n ELSE n - a
  BY DEF Distance
<1> HIDE DEF a, b, i, F
<1>7. H \in [Nat -> Int]
  BY <1>1, <1>2, <1>3
<1>8. \A n \in Nat : H[n] = IF s = 0 THEN 0 - F * (i * ((b - n) * (b - n)) + (n - a))
                            ELSE F * (i * ((n - a) * (n - a)) - (n - a))
  OBVIOUS
<1> HIDE DEF H
<1>9. ASSUME NEW n \in Micros(c) PROVE Div(H[n] - H[n - 1] - D[n])
  <2>1. n \in Nat /\ n - 1 \in Nat
    BY <1>1
  <2> DEFINE w == F * (i * (Distance(c, s, n - 1) + Distance(c, s, n)) - 1)
             x == D[n] - w
             z == H[n] - H[n - 1] - D[n]
  <2>2. Div(x)
    BY <1>5
  <2>3. D[n] \in Int /\ H[n] \in Int /\ H[n - 1] \in Int
    BY <1>7, <2>1 DEF Ints
  <2>4. w \in Int /\ H[n] - H[n - 1] = w
    <3>1. CASE s = 0
      <4> DEFINE u == b - n
                 v == n - a
      <4>1. H[n] = 0 - F * (i * (u * u) + v)
        BY <1>8, <2>1, <3>1
      <4>2. H[n - 1] = 0 - F * (i * ((b - (n - 1)) * (b - (n - 1))) + ((n - 1) - a))
        BY <1>8, <2>1, <3>1
      <4>3. b - (n - 1) = u + 1 /\ (n - 1) - a = v - 1 /\ u \in Int /\ v \in Int
        BY <1>1, <2>1
      <4>4. w = F * (i * ((u + 1) + u) - 1)
        BY <1>6, <3>1, <4>3
      <4> HIDE DEF u, v, w
      <4>5. H[n - 1] = 0 - F * (i * ((u + 1) * (u + 1)) + (v - 1))
        BY <4>2, <4>3
      <4>6. QED BY <1>2, <1>3, <4>1, <4>3, <4>4, <4>5
    <3>2. CASE s = 1
      <4> DEFINE v == n - a
      <4>1. H[n] = F * (i * (v * v) - v)
        BY <1>8, <2>1, <3>2
      <4>2. H[n - 1] = F * (i * (((n - 1) - a) * ((n - 1) - a)) - ((n - 1) - a))
        BY <1>8, <2>1, <3>2
      <4>3. (n - 1) - a = v - 1 /\ v \in Int
        BY <1>1, <2>1
      <4>4. w = F * (i * ((v - 1) + v) - 1)
        BY <1>6, <3>2, <4>3
      <4> HIDE DEF v, w
      <4>5. H[n - 1] = F * (i * ((v - 1) * (v - 1)) - (v - 1))
        BY <4>2, <4>3
      <4>6. QED BY <1>2, <1>3, <4>1, <4>3, <4>4, <4>5
    <3>3. QED BY <1>4, <3>1, <3>2
  <2> HIDE DEF w
  <2>5. x \in Int /\ z \in Int /\ z = 0 - x
    BY <2>3, <2>4
  <2> HIDE DEF x, z
  <2>6. Div(z)
    BY <2>2, <2>5, DivSum, DivZero
  <2>7. QED BY <2>6 DEF z
<1>10. Div(Total(D, Micros(c)) - (H[b] - H[a]))
  BY <1>1, <1>7, <1>9, TotalTelescopes
<1>11. H[b] - H[a] = (F * Micro) * (Micro * i - 1)
  <2>1. CASE s = 0
    <3>1. H[b] = 0 - F * (i * (0 * 0) + Micro)
      <4>1. H[b] = 0 - F * (i * ((b - b) * (b - b)) + (b - a))
        BY <1>1, <1>8, <2>1
      <4>2. b - b = 0 /\ b - a = Micro
        BY <1>1, <1>2
      <4>3. QED BY <4>1, <4>2
    <3>2. H[a] = 0 - F * (i * (Micro * Micro) + 0)
      BY <1>1, <1>2, <1>8, <2>1
    <3>3. QED BY <1>2, <1>3, <3>1, <3>2
  <2>2. CASE s = 1
    <3>1. H[b] = F * (i * (Micro * Micro) - Micro)
      BY <1>1, <1>2, <1>8, <2>2
    <3>2. H[a] = F * (i * (0 * 0) - 0)
      BY <1>1, <1>2, <1>8, <2>2
    <3>3. QED BY <1>2, <1>3, <3>1, <3>2
  <2>3. QED BY <1>4, <2>1, <2>2
<1> DEFINE g == F * Micro
           x == Micro * i - 1
           y == g * x
           T == Total(D, Micros(c))
           z == T - y
<1>12. g \in Int /\ x \in Int /\ Div(x)
  BY <1>2, <1>3
<1>13. y \in Int /\ Div(y)
  <2> HIDE DEF g, x
  <2>1. QED BY <1>12, DivTimes
<1>14. T \in Int
  BY <1>1, TotalSums
<1>15. z \in Int /\ Div(z) /\ T = z + y
  BY <1>10, <1>11, <1>13, <1>14
<1> HIDE DEF y, z, T
<1>16. Div(T)
  BY <1>13, <1>14, <1>15, DivSum
<1>17. QED BY <1>16 DEF T

\* The energy of functions with numbers as values is a number.
LEMMA EnergyInt ==
  ASSUME NEW K \in [Entities -> Int], NEW e \in Entities, NEW v \in [Nodes -> Int], NEW w \in [Nodes -> Int]
  PROVE  Energy(K, v, w, e) \in Int
BY Grid DEF Energy

\* So is the load.
LEMMA LoadInt ==
  ASSUME NEW K \in [Entities -> Int], NEW e \in Entities, NEW v \in [Nodes -> Int]
  PROVE  Load(K, v, e) \in Int
BY Grid DEF Load

\* With any number of layers the covered micro cells are those of the cell.
LEMMA CoveredIsCell ==
  ASSUME Data, NEW c \in Cells
  PROVE  Covered(c) = Micros(c)
<1>1. layers \in Nat /\ At(c) \in Nat /\ At(c - 1) \in Nat
  BY CellRange DEF Data
<1>2. \A e \in Entities : e \in Nat
  BY Grid, Sizes
<1>3. Micros(c) \subseteq Patch(c)
  BY <1>1, <1>2 DEF Micros, Patch
<1>4. QED BY <1>3 DEF Covered

\* The dofs of a cell are its two nodes.
LEMMA Dofs ==
  ASSUME NEW c \in Cells
  PROVE  Dof(c, 0) = c - 1 /\ Dof(c, 1) = c /\ c - 1 \in CoarseNodes /\ c \in CoarseNodes
BY Sizes DEF Cells, Dof, CoarseNodes

\* The load of the shape functions of the micro cells is a number.
LEMMA TestLoadInt ==
  ASSUME Data, NEW c \in Cells, NEW s \in Inner, NEW e \in Entities
  PROVE  Load(f, Plus(TestBase(e, s), local[c][s]), e) \in Int
<1>1. TestBase(e, s) \in [Nodes -> Int]
  BY DEF TestBase, Hat
<1>2. local[c][s] \in [Nodes -> Int]
  BY ReconstructionIs
<1> DEFINE one == 1
           v == TestBase(e, s)
           w == local[c][s]
           u == Plus(v, w)
<1>3. one \in Int /\ u = Combination(one, v, one, w)
  BY DEF Plus
<1> HIDE DEF one, v, w, u
<1>4. u \in [Nodes -> Int]
  BY <1>1, <1>2, <1>3, CombinationIs DEF v, w
<1>5. f \in [Entities -> Int]
  BY DEF Data
<1>6. QED BY <1>4, <1>5, LoadInt DEF u, v, w

\* The integrals the coarse system is made of.
LEMMA Integrals ==
  ASSUME Data, NEW c \in Cells, NEW s \in Inner
  PROVE  /\ DirectionOfFlux(c) \in [Nodes -> Int]
         /\ RhsIntegral(c, s) \in Int
         /\ \A t \in Inner : /\ MatrixIntegral(c, s, t) \in Int
                             /\ MatrixIntegral(c, s, t) = MatrixIntegral(c, t, s)
<1>1. k \in [Entities -> Int] /\ Covered(c) = Micros(c) /\ Micros(c) \subseteq Entities
      /\ \A t \in Inner : Reconstruction(c, t) \in [Nodes -> Int]
  BY CoveredIsCell, CellRange, ReconstructionIs DEF Data
<1>2. Micros(c) \subseteq Nat
  BY CellRange
<1>3. DirectionOfFlux(c) \in [Nodes -> Int]
  <2>1. local[c][DirichletSlot] \in [Nodes -> Int] /\ local[c][NeumannSlot] \in [Nodes -> Int]
    BY DEF Data, DirichletSlot, NeumannSlot, Slots
  <2> DEFINE one == 1
             minus == 0 - 1
  <2>2. one \in Int /\ minus \in Int
    OBVIOUS
  <2>3. DirectionOfFlux(c) = Combination(one, local[c][DirichletSlot], minus, local[c][NeumannSlot])
    BY DEF DirectionOfFlux
  <2> HIDE DEF one, minus
  <2>4. QED BY <2>1, <2>2, <2>3, CombinationIs
<1>4. RhsIntegral(c, s) \in Int
  <2> DEFINE q == [e \in Covered(c) |->
                     Load(f, Plus(TestBase(e, s), local[c][s]), e)
                       - Energy(k, DirectionOfFlux(c), Reconstruction(c, s), e)]
  <2>1. ASSUME NEW e \in Covered(c) PROVE q[e] \in Int
    <3>1. Load(f, Plus(TestBase(e, s), local[c][s]), e) \in Int
      BY <1>1, TestLoadInt
    <3>2. Energy(k, DirectionOfFlux(c), Reconstruction(c, s), e) \in Int
      BY <1>1, <1>3, EnergyInt
    <3>3. QED BY <3>1, <3>2
  <2>2. RhsIntegral(c, s) = Total(q, Covered(c))
    BY DEF RhsIntegral
  <2> HIDE DEF q
  <2>3. Ints(q, Covered(c))
    BY <2>1 DEF Ints
  <2>4. QED BY <1>1, <1>2, <2>2, <2>3, TotalSums
<1>5. ASSUME NEW t \in Inner PROVE /\ MatrixIntegral(c, s, t) \in Int
                                   /\ MatrixIntegral(c, s, t) = MatrixIntegral(c, t, s)
  <2> DEFINE q == [e \in Covered(c) |-> Energy(k, Reconstruction(c, s), Reconstruction(c, t), e)]
             r == [e \in Covered(c) |-> Energy(k, Reconstruction(c, t), Reconstruction(c, s), e)]
  <2>1. \A e \in Covered(c) : q[e] \in Int
    BY <1>1, EnergyInt
  <2>2. q = r
    BY <1>1, EnergySymmetric
  <2>3. MatrixIntegral(c, s, t) = Total(q, Covered(c)) /\ MatrixIntegral(c, t, s) = Total(r, Covered(c))
    BY DEF MatrixIntegral
  <2> HIDE DEF q, r
  <2>4. Ints(q, Covered(c))
    BY <2>1 DEF Ints
  <2>5. QED BY <1>1, <1>2, <2>2, <2>3, <2>4, TotalSums
<1>6. QED BY <1>3, <1>4, <1>5

\* What is left of the weak equation on a cell, in terms of the coarse system.
LEMMA ResidualIs ==
  ASSUME Data, EvenSource, NEW c \in Cells, NEW s \in Inner
  PROVE  /\ Residual(c, s) \in Int
         /\ Div(Residual(c, s) - (RhsIntegral(c, s) - (coarse[c - 1] * MatrixIntegral(c, s, 0)
                                                       + coarse[c] * MatrixIntegral(c, s, 1))))
<1> DEFINE M == Micros(c)
           R == Reconstruction(c, s)
           X0 == Reconstruction(c, 0)
           X1 == Reconstruction(c, 1)
           G == DirectionOfFlux(c)
           a == coarse[Dof(c, 0)]
           b == coarse[Dof(c, 1)]
           V == Combination(a, X0, b, X1)
           W == Plus(V, G)
           one == 1
           minus == 0 - 1
           WithR(e) == Load(f, R, e)
           WithT(e) == Load(f, Plus(TestBase(e, s), local[c][s]), e)
           r == [e \in M |-> WithR(e) - Energy(k, W, R, e)]
           q == [e \in M |-> WithT(e) - Energy(k, G, R, e)]
           m == [e \in M |-> Energy(k, V, R, e)]
           d == [e \in M |-> WithR(e) - WithT(e)]
           x == [e \in M |-> q[e] - m[e]]
           E0 == [e \in M |-> Energy(k, R, X0, e)]
           E1 == [e \in M |-> Energy(k, R, X1, e)]
<1>1. k \in [Entities -> Int] /\ f \in [Entities -> Int] /\ M \subseteq Entities /\ M \subseteq Nat
  BY CellRange DEF Data
<1>2. R \in [Nodes -> Int] /\ X0 \in [Nodes -> Int] /\ X1 \in [Nodes -> Int] /\ G \in [Nodes -> Int]
  <2>1. 0 \in Inner /\ 1 \in Inner
    BY DEF Inner
  <2>2. QED BY <2>1, ReconstructionIs, Integrals
<1>3. a \in Int /\ b \in Int /\ a = coarse[c - 1] /\ b = coarse[c]
  BY Dofs DEF Data
<1>4. one \in Int /\ minus \in Int /\ \A y \in Int : one * y = y /\ minus * y = 0 - y
  OBVIOUS
<1>5. W = Combination(one, V, one, G)
  BY DEF Plus
<1>6. /\ Residual(c, s) = Total(r, M)
      /\ RhsIntegral(c, s) = Total(q, M)
      /\ MatrixIntegral(c, s, 0) = Total(E0, M)
      /\ MatrixIntegral(c, s, 1) = Total(E1, M)
  <2>1. Covered(c) = M
    BY CoveredIsCell
  <2>2. QED BY <2>1 DEF Residual, RhsIntegral, MatrixIntegral, Whole
<1>7. \A e \in M : WithR(e) \in Int /\ WithT(e) \in Int
  BY <1>1, <1>2, LoadInt, TestLoadInt
<1>8. /\ \A e \in M : r[e] = WithR(e) - Energy(k, W, R, e)
      /\ \A e \in M : q[e] = WithT(e) - Energy(k, G, R, e)
      /\ \A e \in M : m[e] = Energy(k, V, R, e)
      /\ \A e \in M : d[e] = WithR(e) - WithT(e)
      /\ \A e \in M : x[e] = q[e] - m[e]
      /\ \A e \in M : E0[e] = Energy(k, R, X0, e)
      /\ \A e \in M : E1[e] = Energy(k, R, X1, e)
  OBVIOUS
<1>9. Ints(d, M) => Div(Total(d, M))
  <2>1. \A e \in M : d[e] = Load(f, Reconstruction(c, s), e) - Load(f, Plus(TestBase(e, s), local[c][s]), e)
    OBVIOUS
  <2> HIDE DEF d
  <2>2. QED BY <2>1, SameLoad
<1> HIDE DEF X0, X1, G, a, b, one, minus, r, q, m, d, x, E0, E1
<1>10. V \in [Nodes -> Int] /\ \A n \in Nodes : Div(V[n] - (a * X0[n] + b * X1[n]))
  BY <1>2, <1>3, CombinationIs
<1> HIDE DEF V
<1>11. W \in [Nodes -> Int] /\ \A n \in Nodes : Div(W[n] - (one * V[n] + one * G[n]))
  BY <1>2, <1>4, <1>5, <1>10, CombinationIs
<1> HIDE DEF W, R, M, WithR, WithT
<1>12. ASSUME NEW e \in M
       PROVE  /\ Energy(k, W, R, e) \in Int /\ Energy(k, G, R, e) \in Int /\ Energy(k, V, R, e) \in Int
              /\ Energy(k, R, X0, e) \in Int /\ Energy(k, R, X1, e) \in Int
              /\ Div(m[e] - (a * E0[e] + b * E1[e]))
              /\ Div(Energy(k, W, R, e) - (one * Energy(k, V, R, e) + one * Energy(k, G, R, e)))
  <2>1. e \in Entities
    BY <1>1
  <2>2. Div(Energy(k, V, R, e) - (a * Energy(k, X0, R, e) + b * Energy(k, X1, R, e)))
    BY <1>1, <1>2, <1>3, <1>10, <2>1, EnergyLinear
  <2>3. Energy(k, X0, R, e) = Energy(k, R, X0, e) /\ Energy(k, X1, R, e) = Energy(k, R, X1, e)
    BY <1>1, <1>2, <2>1, EnergySymmetric
  <2>4. Div(Energy(k, W, R, e) - (one * Energy(k, V, R, e) + one * Energy(k, G, R, e)))
    BY <1>1, <1>2, <1>4, <1>10, <1>11, <2>1, EnergyLinear
  <2>5. /\ Energy(k, W, R, e) \in Int /\ Energy(k, G, R, e) \in Int /\ Energy(k, V, R, e) \in Int
        /\ Energy(k, R, X0, e) \in Int /\ Energy(k, R, X1, e) \in Int
    BY <1>1, <1>2, <1>10, <1>11, <2>1, EnergyInt
  <2>6. QED BY <1>8, <2>2, <2>3, <2>4, <2>5
<1>13. Ints(r, M) /\ Ints(q, M) /\ Ints(m, M) /\ Ints(d, M) /\ Ints(E0, M) /\ Ints(E1, M)
  BY <1>7, <1>8, <1>12 DEF Ints
<1>14. Ints(x, M)
  BY <1>8, <1>13 DEF Ints
<1>15. Div(Total(m, M) - (a * Total(E0, M) + b * Total(E1, M)))
  BY <1>1, <1>3, <1>12, <1>13, TotalLinear
<1>16. Div(Total(x, M) - (one * Total(q, M) + minus * Total(m, M)))
  <2>1. ASSUME NEW e \in M PROVE Div(x[e] - (one * q[e] + minus * m[e]))
    <3> DEFINE z == x[e] - (one * q[e] + minus * m[e])
    <3>1. x[e] = q[e] - m[e] /\ q[e] \in Int /\ m[e] \in Int
      BY <1>8, <1>13 DEF Ints
    <3>2. z = 0
      BY <3>1 DEF one, minus
    <3> HIDE DEF z
    <3>3. Div(z)
      BY <3>2, DivZero
    <3>4. QED BY <3>3 DEF z
  <2>2. QED BY <1>1, <1>4, <1>13, <1>14, <2>1, TotalLinear
<1>17. Div(Total(r, M) - (one * Total(x, M) + one * Total(d, M)))
  <2>1. ASSUME NEW e \in M PROVE Div(r[e] - (one * x[e] + one * d[e]))
    <3> DEFINE w == Energy(k, W, R, e)
               v == Energy(k, V, R, e)
               g == Energy(k, G, R, e)
               y == w - (one * v + one * g)
               z == r[e] - (one * x[e] + one * d[e])
    <3>1. /\ r[e] = WithR(e) - w /\ q[e] = WithT(e) - g /\ m[e] = v
          /\ d[e] = WithR(e) - WithT(e) /\ x[e] = q[e] - m[e]
          /\ w \in Int /\ v \in Int /\ g \in Int /\ WithR(e) \in Int /\ WithT(e) \in Int
      BY <1>7, <1>8, <1>12
    <3>2. Div(y)
      BY <1>12
    <3> HIDE DEF w, v, g
    <3>3. one * v = v /\ one * g = g /\ one * x[e] = x[e] /\ one * d[e] = d[e]
      BY <3>1 DEF one
    <3>4. y \in Int /\ z \in Int /\ z = 0 - y
      BY <3>1, <3>3
    <3> HIDE DEF y, z
    <3>5. Div(z)
      BY <3>2, <3>4, DivSum, DivZero
    <3>6. QED BY <3>5 DEF z
  <2>2. QED BY <1>1, <1>4, <1>13, <1>14, <2>1, TotalLinear
<1>18. Div(Total(d, M))
  BY <1>9, <1>13
<1>19. /\ Total(r, M) \in Int /\ Total(x, M) \in Int /\ Total(d, M) \in Int /\ Total(q, M) \in Int
       /\ Total(m, M) \in Int /\ Total(E0, M) \in Int /\ Total(E1, M) \in Int
  BY <1>1, <1>13, <1>14, TotalSums
<1> DEFINE T0 == a * Total(E0, M) + b * Total(E1, M)
           z1 == Total(r, M) - (one * Total(x, M) + one * Total(d, M))
           z2 == Total(d, M)
           z3 == Total(x, M) - (one * Total(q, M) + minus * Total(m, M))
           z4 == Total(m, M) - T0
           z5 == z1 + z2
           z6 == z5 + z3
           z7 == z6 - z4
<1>20. T0 \in Int
  BY <1>3, <1>19
<1>21. Div(z1) /\ Div(z2) /\ Div(z3) /\ Div(z4)
  BY <1>15, <1>16, <1>17, <1>18
<1> HIDE DEF T0
<1>22. /\ z1 = Total(r, M) - (Total(x, M) + Total(d, M))
       /\ z3 = Total(x, M) - (Total(q, M) - Total(m, M))
  BY <1>19 DEF one, minus
<1>23. z1 \in Int /\ z2 \in Int /\ z3 \in Int /\ z4 \in Int /\ z5 \in Int /\ z6 \in Int /\ z7 \in Int
  BY <1>19, <1>20, <1>22
<1>24. z7 = Total(r, M) - (Total(q, M) - T0)
  <2> HIDE DEF z1, z3
  <2>1. QED BY <1>19, <1>20, <1>22
<1> HIDE DEF z1, z2, z3, z4
<1>25. Div(z5)
  BY <1>21, <1>23, DivSum
<1> HIDE DEF z5
<1>26. Div(z6)
  BY <1>21, <1>23, <1>25, DivSum
<1> HIDE DEF z6
<1>27. Div(z7)
  BY <1>21, <1>23, <1>26, DivSum
<1>28. QED BY <1>3, <1>6, <1>19, <1>24, <1>27 DEF T0

---------------------------------------------------------------------------
(* The coarse system                                                       *)

\* The cells the walk has come to.
Walked == Cells \ todo

\* What cell c contributes, if it is one of cs.
Part(c, cs, x) == IF c \in cs THEN x ELSE 0

\* What the cells cs have added to an entry of the matrix and of the vector.
Entry(cs, i, j) == Part(i, cs, MatrixBlock(i, i, j)) + Part(i + 1, cs, MatrixBlock(i + 1, i, j))
RowLoad(cs, i) == Part(i, cs, RhsBlock(i, i)) + Part(i + 1, cs, RhsBlock(i + 1, i))

\* The assembled operator applied to a function of the coarse nodes.
RowValue(u, i) ==
  (IF i \in Cells THEN u[i - 1] * MatrixIntegral(i, 1, 0) + u[i] * MatrixIntegral(i, 1, 1) ELSE 0)
    + (IF i + 1 \in Cells
       THEN u[i] * MatrixIntegral(i + 1, 0, 0) + u[i + 1] * MatrixIntegral(i + 1, 0, 1) ELSE 0)

\* The types of the system and the boundary data.
SystemType ==
  /\ matrix \in [CoarseNodes -> [CoarseNodes -> Int]]
  /\ rhs \in [CoarseNodes -> Int]
  /\ shift \in [CoarseNodes -> Int]
  /\ boundary \in [value : [Ends -> Field], neumann : [Ends -> Field], dirichlet : (SUBSET Ends) \ {{}}, sub : SubInfos]

\* The walk has added the entries of the cells it has come to, and has
\* projected the Dirichlet values of their nodes.
Assembled ==
  \A i \in CoarseNodes :
    /\ \A j \in CoarseNodes : Div(matrix[i][j] - Entry(Walked, i, j))
    /\ Div(rhs[i] - RowLoad(Walked, i))
    /\ shift[i] = IF i \in DirichletNodes /\ (i \in Walked \/ i + 1 \in Walked)
                  THEN boundary.value[At(i)] ELSE 0

\* A row of the matrix applied to the Dirichlet values.
Lift(i) == Total([j \in CoarseNodes |-> matrix[i][j] * shift[j]], CoarseNodes)

\* The constrained system: unit rows, and in the others the whole walk with
\* the Dirichlet values taken off.
Constrained ==
  \A i \in CoarseNodes :
    IF i \in DirichletNodes
    THEN /\ shift[i] = boundary.value[At(i)]
         /\ rhs[i] = 0
         /\ \A j \in CoarseNodes : matrix[i][j] = IF i = j THEN 1 ELSE 0
    ELSE /\ shift[i] = 0
         /\ \A j \in CoarseNodes : Div(matrix[i][j] - Entry(Cells, i, j))
         /\ Div(rhs[i] - (RowLoad(Cells, i) - Lift(i)))

\* The coarse solution has the Dirichlet values and solves the assembled rows
\* of the free dofs.
Balanced ==
  \A i \in CoarseNodes :
    IF i \in DirichletNodes THEN coarse[i] = boundary.value[At(i)]
    ELSE Div(RowLoad(Cells, i) - RowValue(coarse, i))

\* The inductive invariant: what the system is in each phase of a run.
GalerkinInv ==
  /\ Data
  /\ SystemType
  /\ pc = "local" => ZeroSystem
  /\ pc = "assemble" => Assembled
  /\ pc = "solve" => Constrained
  /\ pc \in {"identify", "done"} => Balanced

---------------------------------------------------------------------------
\* A coarse node is a node of the cells on its two sides, where they are.
LEMMA Neighbours ==
  ASSUME NEW i \in CoarseNodes
  PROVE  /\ i \in Nat /\ i <= Size
         /\ i \in Cells => i - 1 \in CoarseNodes
         /\ i + 1 \in Cells => i + 1 \in CoarseNodes
         /\ i \in Cells \/ i + 1 \in Cells
BY Sizes DEF CoarseNodes, Cells

\* A cell adds to the rows of its two nodes only.
LEMMA BlockOf ==
  ASSUME NEW c \in Cells, NEW i \in CoarseNodes, NEW j \in CoarseNodes
  PROVE  /\ MatrixBlock(c, i, j) =
              IF i \in {c - 1, c} /\ j \in {c - 1, c} THEN MatrixIntegral(c, i - (c - 1), j - (c - 1)) ELSE 0
         /\ RhsBlock(c, i) = IF i \in {c - 1, c} THEN RhsIntegral(c, i - (c - 1)) + Flux(At(i)) ELSE 0
<1>1. c \in Int /\ i \in Int /\ j \in Int
  BY Sizes DEF Cells, CoarseNodes
<1>2. \A n \in Int : (\E s \in Inner : n = Dof(c, s)) <=> n \in {c - 1, c}
  <2> SUFFICES ASSUME NEW n \in Int PROVE (\E s \in Inner : n = Dof(c, s)) <=> n \in {c - 1, c}
    OBVIOUS
  <2>1. Dof(c, 0) = c - 1 /\ Dof(c, 1) = c
    BY Dofs
  <2>2. QED BY <2>1 DEF Inner
<1>3. (\E s, t \in Inner : i = Dof(c, s) /\ j = Dof(c, t)) <=> i \in {c - 1, c} /\ j \in {c - 1, c}
  BY <1>1, <1>2
<1>4. Dof(c, 0) = c - 1
  BY Dofs
<1>5. QED BY <1>1, <1>2, <1>3, <1>4 DEF MatrixBlock, RhsBlock

\* Neumann data are numbers.
LEMMA FluxInt ==
  ASSUME SystemType, NEW n \in Int
  PROVE  Flux(n) \in Int
<1>1. \A m \in Ends : boundary.value[m] \in Int
  BY Sizes DEF SystemType, Field
<1>2. QED BY <1>1 DEF Flux

\* The entries a cell adds are numbers.
LEMMA BlockInt ==
  ASSUME Data, SystemType, NEW c \in Cells, NEW i \in CoarseNodes, NEW j \in CoarseNodes
  PROVE  MatrixBlock(c, i, j) \in Int /\ RhsBlock(c, i) \in Int
<1>1. c \in Int /\ i \in Int /\ j \in Int /\ At(i) \in Int
  BY Sizes DEF Cells, CoarseNodes, At
<1>2. \A s \in Inner : RhsIntegral(c, s) \in Int
  BY Integrals
<1>3. \A s, t \in Inner : MatrixIntegral(c, s, t) \in Int
  BY Integrals
<1>4. \A n \in {c - 1, c} : n - (c - 1) \in Inner
  BY <1>1 DEF Inner
<1>5. Flux(At(i)) \in Int
  BY <1>1, FluxInt
<1>6. QED BY <1>2, <1>3, <1>4, <1>5, BlockOf

\* So are the entries of any set of cells.
LEMMA EntryInt ==
  ASSUME Data, SystemType, NEW cs, cs \subseteq Cells, NEW i \in CoarseNodes, NEW j \in CoarseNodes
  PROVE  Entry(cs, i, j) \in Int /\ RowLoad(cs, i) \in Int
<1>1. ASSUME NEW c \in cs PROVE MatrixBlock(c, i, j) \in Int /\ RhsBlock(c, i) \in Int
  BY BlockInt
<1>2. QED BY <1>1 DEF Entry, RowLoad, Part

\* The integrals are those of the problem and the local solutions.
LEMMA IntegralsKept ==
  ASSUME UNCHANGED <<data, local>>
  PROVE  /\ \A c, s, t : MatrixIntegral(c, s, t)' = MatrixIntegral(c, s, t)
         /\ \A c, i, j : MatrixBlock(c, i, j)' = MatrixBlock(c, i, j)
         /\ \A c, i : RhsBlock(c, i)' = RhsBlock(c, i)
         /\ \A n : Flux(n)' = Flux(n)
         /\ DirichletNodes' = DirichletNodes
<1>0. k' = k /\ f' = f /\ layers' = layers /\ local' = local /\ boundary' = boundary
  BY DEF data
<1>1. ASSUME NEW c, NEW s, NEW t PROVE MatrixIntegral(c, s, t)' = MatrixIntegral(c, s, t)
  <2>1. Covered(c)' = Covered(c)
    BY <1>0 DEF Covered, Patch
  <2>2. Reconstruction(c, s)' = Reconstruction(c, s) /\ Reconstruction(c, t)' = Reconstruction(c, t)
    BY <1>0 DEF Reconstruction
  <2>3. QED BY <1>0, <2>1, <2>2, Zenon DEF MatrixIntegral
<1>2. \A c, i, j : MatrixBlock(c, i, j)' = MatrixBlock(c, i, j)
  BY <1>1, Zenon DEF MatrixBlock, Dof
<1>3. \A n : Flux(n)' = Flux(n)
  BY <1>0, Zenon DEF Flux
<1>4. ASSUME NEW c, NEW s PROVE RhsIntegral(c, s)' = RhsIntegral(c, s)
  <2>1. Covered(c)' = Covered(c)
    BY <1>0 DEF Covered, Patch
  <2>2. Reconstruction(c, s)' = Reconstruction(c, s)
    BY <1>0 DEF Reconstruction
  <2>3. DirectionOfFlux(c)' = DirectionOfFlux(c)
    BY <1>0 DEF DirectionOfFlux
  <2>4. QED BY <1>0, <2>1, <2>2, <2>3, Zenon DEF RhsIntegral
<1>5. \A c, i : RhsBlock(c, i)' = RhsBlock(c, i)
  BY <1>3, <1>4, Zenon DEF RhsBlock, Dof
<1>6. DirichletNodes' = DirichletNodes
  BY DEF data, DirichletNodes
<1>7. QED BY <1>1, <1>2, <1>3, <1>5, <1>6

---------------------------------------------------------------------------
\* A run begins with a zero system.
LEMMA InitGalerkin == Init => GalerkinInv
<1> SUFFICES ASSUME Init PROVE GalerkinInv
  OBVIOUS
<1>1. k \in [Entities -> Int] /\ f \in [Entities -> Int] /\ layers \in Nat
  <2>1. /\ k \in [Entities -> 1 .. P - 1] /\ f \in [Entities -> Field] /\ layers \in Nat
    BY DataAssumption DEF Init
  <2>2. 1 .. P - 1 \subseteq Int /\ Field \subseteq Int
    BY Sizes DEF Field
  <2>3. QED BY <2>1, <2>2
<1>2. boundary \in [value : [Ends -> Field], neumann : [Ends -> Field], dirichlet : (SUBSET Ends) \ {{}}, sub : SubInfos]
  BY DataAssumption DEF Init, BoundaryData
<1>3. local \in [Cells -> [Slots -> [Nodes -> Int]]]
  BY DEF Init, ZeroFunction
<1>4. coarse \in [CoarseNodes -> Int]
  BY DEF Init
<1>5. ZeroSystem /\ pc = "local"
  BY DEF Init
<1>6. SystemType
  BY <1>2, <1>5 DEF SystemType, ZeroSystem
<1>7. QED BY <1>1, <1>3, <1>4, <1>5, <1>6 DEF GalerkinInv, Data

\* Solving the local problems of a cell leaves the system at zero.
LEMMA SolveLocalStep == ASSUME GalerkinInv, SolveLocal PROVE GalerkinInv'
<1> DEFINE c == Min(todo)
           S == Touched(Patch(c))
           Y(s) == Solution(AssembledMatrix(c), AssembledRhs(c, s), S)
<1>1. /\ Data /\ SystemType /\ pc = "local" /\ ZeroSystem
      /\ UNCHANGED <<data, system, coarse, correction>>
  BY DEF GalerkinInv, SolveLocal
<1>2. CASE \A s \in Slots : IsSolved(c, s) => Solves(AssembledMatrix(c), AssembledRhs(c, s), S)
  <2>1. /\ local' = [local EXCEPT ![c] = SolveAllOnSingleCell(c)]
        /\ todo' = IF todo = {c} THEN Cells ELSE todo \ {c}
        /\ pc' = IF todo = {c} THEN "assemble" ELSE pc
    BY <1>2 DEF SolveLocal
  <2>2. ASSUME NEW s \in Slots, IsSolved(c, s) PROVE Y(s) \in [S -> Field]
    BY <1>2, <2>2 DEF Solves
  <2>3. Field \subseteq Int
    BY Sizes DEF Field
  <2> HIDE DEF c
  <2>4. SolveAllOnSingleCell(c) \in [Slots -> [Nodes -> Int]]
    <3>1. ASSUME NEW s \in Slots
          PROVE  (IF ~IsSolved(c, s) THEN ZeroFunction
                  ELSE LET x == Solution(AssembledMatrix(c), AssembledRhs(c, s), Touched(Patch(c)))
                       IN [n \in Nodes |-> IF n \in DOMAIN x THEN x[n] ELSE 0]) \in [Nodes -> Int]
      <4>1. CASE ~IsSolved(c, s)
        BY <4>1 DEF ZeroFunction
      <4>2. CASE IsSolved(c, s)
        <5> DEFINE x == Y(s)
        <5>1. x \in [S -> Field]
          BY <2>2, <4>2
        <5> HIDE DEF x, S
        <5>2. [n \in Nodes |-> IF n \in DOMAIN x THEN x[n] ELSE 0] \in [Nodes -> Int]
          <6>1. DOMAIN x = S /\ \A n \in S : x[n] \in Int
            BY <2>3, <5>1
          <6>2. \A n \in Nodes : (IF n \in DOMAIN x THEN x[n] ELSE 0) \in Int
            BY <6>1
          <6>3. QED BY <6>2
        <5>3. QED BY <4>2, <5>2 DEF x, S
      <4>3. QED BY <4>1, <4>2
    <3>2. QED BY <3>1 DEF SolveAllOnSingleCell
  <2>5. local' \in [Cells -> [Slots -> [Nodes -> Int]]]
    BY <1>1, <2>1, <2>4 DEF Data
  <2>6. Data' /\ SystemType' /\ ZeroSystem'
    BY <1>1, <2>5 DEF Data, SystemType, ZeroSystem, data, system
  <2>7. pc' \in {"local", "assemble"} /\ (pc' = "assemble" => todo' = Cells)
    BY <1>1, <2>1
  <2>8. pc' = "assemble" => Assembled'
    <3> SUFFICES ASSUME pc' = "assemble" PROVE Assembled'
      OBVIOUS
    <3>1. Walked' = {}
      BY <2>7 DEF Walked
    <3>2. /\ \A i \in CoarseNodes : shift'[i] = 0 /\ rhs'[i] = 0
          /\ \A i, j \in CoarseNodes : matrix'[i][j] = 0
      BY <2>6 DEF ZeroSystem
    <3>3. \A i, j : Entry({}, i, j)' = 0 /\ RowLoad({}, i)' = 0
      BY DEF Entry, RowLoad, Part
    <3>4. ASSUME NEW i \in CoarseNodes
          PROVE  /\ \A j \in CoarseNodes : Div(matrix'[i][j] - Entry(Walked, i, j)')
                 /\ Div(rhs'[i] - RowLoad(Walked, i)')
                 /\ shift'[i] = IF i \in DirichletNodes' /\ (i \in Walked' \/ i + 1 \in Walked')
                                THEN boundary'.value[At(i)] ELSE 0
      <4>1. \A j \in CoarseNodes : Entry(Walked, i, j)' = 0 /\ RowLoad(Walked, i)' = 0
        BY <3>1 DEF Entry, RowLoad, Part
      <4>2. 0 - 0 = 0
        OBVIOUS
      <4>3. QED BY <3>1, <3>2, <4>1, <4>2, DivZero
    <3>5. QED BY <3>4 DEF Assembled
  <2>9. QED BY <2>6, <2>7, <2>8 DEF GalerkinInv
<1>3. CASE ~ \A s \in Slots : IsSolved(c, s) => Solves(AssembledMatrix(c), AssembledRhs(c, s), S)
  <2>1. pc' = "thrown" /\ UNCHANGED <<local, todo>>
    BY <1>3 DEF SolveLocal
  <2>2. Data' /\ SystemType'
    BY <1>1, <2>1 DEF Data, SystemType, data, system
  <2>3. QED BY <2>1, <2>2 DEF GalerkinInv
<1>4. QED BY <1>2, <1>3

\* Adding in the field keeps the distance to a number.
LEMMA AddModulo ==
  ASSUME NEW m \in Int, NEW x \in Int, NEW y \in Int, Div(m - x)
  PROVE  ((m + y) % P) \in Int /\ Div(((m + y) % P) - (x + y))
<1> DEFINE a == m + y
           r == a % P
           u == m - x
           v == a - r
           z == r - (x + y)
<1>1. a \in Int
  OBVIOUS
<1>2. r \in Int /\ Div(a - r)
  <2> HIDE DEF a
  <2>1. r \in Field /\ Div(a - r)
    BY <1>1, DivMod
  <2>2. QED BY <2>1, Sizes DEF Field
<1> HIDE DEF r
<1>3. u \in Int /\ v \in Int /\ z \in Int /\ z = u - v /\ Div(u) /\ Div(v)
  BY <1>2
<1> HIDE DEF u, v, z
<1>4. Div(z)
  BY <1>3, DivSum
<1>5. QED BY <1>2, <1>4 DEF r, z

\* What a cell adds.
LEMMA EntryGrows ==
  ASSUME Data, SystemType, NEW c \in Cells, NEW cs, cs \subseteq Cells, c \notin cs,
         NEW i \in CoarseNodes, NEW j \in CoarseNodes
  PROVE  /\ Entry(cs \cup {c}, i, j) = Entry(cs, i, j) + MatrixBlock(c, i, j)
         /\ RowLoad(cs \cup {c}, i) = RowLoad(cs, i) + RhsBlock(c, i)
<1>1. c \in Int /\ i \in Int
  BY Sizes DEF Cells, CoarseNodes
<1>2. MatrixBlock(c, i, j) \in Int /\ RhsBlock(c, i) \in Int
  BY BlockInt
<1>3. \A d \in cs : MatrixBlock(d, i, j) \in Int /\ RhsBlock(d, i) \in Int
  BY BlockInt
<1>4. i \notin {c - 1, c} => MatrixBlock(c, i, j) = 0 /\ RhsBlock(c, i) = 0
  BY BlockOf
<1>5. CASE i = c
  <2>1. Part(i, cs, MatrixBlock(i, i, j)) = 0 /\ Part(i, cs, RhsBlock(i, i)) = 0
    BY <1>5 DEF Part
  <2>2. /\ Part(i, cs \cup {c}, MatrixBlock(i, i, j)) = MatrixBlock(c, i, j)
        /\ Part(i, cs \cup {c}, RhsBlock(i, i)) = RhsBlock(c, i)
    BY <1>5 DEF Part
  <2>3. i + 1 # c
    BY <1>1, <1>5
  <2>4. /\ Part(i + 1, cs \cup {c}, MatrixBlock(i + 1, i, j)) = Part(i + 1, cs, MatrixBlock(i + 1, i, j))
        /\ Part(i + 1, cs \cup {c}, RhsBlock(i + 1, i)) = Part(i + 1, cs, RhsBlock(i + 1, i))
    BY <2>3 DEF Part
  <2>5. Part(i + 1, cs, MatrixBlock(i + 1, i, j)) \in Int /\ Part(i + 1, cs, RhsBlock(i + 1, i)) \in Int
    BY <1>3 DEF Part
  <2>6. QED BY <1>2, <2>1, <2>2, <2>4, <2>5 DEF Entry, RowLoad
<1>6. CASE i + 1 = c
  <2>1. Part(i + 1, cs, MatrixBlock(i + 1, i, j)) = 0 /\ Part(i + 1, cs, RhsBlock(i + 1, i)) = 0
    BY <1>6 DEF Part
  <2>2. /\ Part(i + 1, cs \cup {c}, MatrixBlock(i + 1, i, j)) = MatrixBlock(c, i, j)
        /\ Part(i + 1, cs \cup {c}, RhsBlock(i + 1, i)) = RhsBlock(c, i)
    BY <1>6 DEF Part
  <2>3. i # c
    BY <1>1, <1>6
  <2>4. /\ Part(i, cs \cup {c}, MatrixBlock(i, i, j)) = Part(i, cs, MatrixBlock(i, i, j))
        /\ Part(i, cs \cup {c}, RhsBlock(i, i)) = Part(i, cs, RhsBlock(i, i))
    BY <2>3 DEF Part
  <2>5. Part(i, cs, MatrixBlock(i, i, j)) \in Int /\ Part(i, cs, RhsBlock(i, i)) \in Int
    BY <1>3 DEF Part
  <2>6. QED BY <1>2, <2>1, <2>2, <2>4, <2>5 DEF Entry, RowLoad
<1>7. CASE i # c /\ i + 1 # c
  <2>1. /\ \A x : Part(i, cs \cup {c}, x) = Part(i, cs, x)
        /\ \A x : Part(i + 1, cs \cup {c}, x) = Part(i + 1, cs, x)
    BY <1>7 DEF Part
  <2>2. MatrixBlock(c, i, j) = 0 /\ RhsBlock(c, i) = 0
    BY <1>1, <1>4, <1>7
  <2>3. Entry(cs, i, j) \in Int /\ RowLoad(cs, i) \in Int
    BY EntryInt
  <2>4. Entry(cs \cup {c}, i, j) = Entry(cs, i, j) /\ RowLoad(cs \cup {c}, i) = RowLoad(cs, i)
    BY <2>1 DEF Entry, RowLoad
  <2>5. QED BY <2>2, <2>3, <2>4
<1>8. QED BY <1>5, <1>6, <1>7

\* A cell of the walk adds its entries, in whichever order the threads come.
LEMMA WalkCellStep == ASSUME GalerkinInv, NEW c \in Cells, WalkCell(c) PROVE GalerkinInv'
<1>1. /\ Data /\ SystemType /\ Assembled /\ c \in todo
      /\ UNCHANGED <<data, pc, local, coarse, correction>> /\ pc = "assemble"
  BY DEF GalerkinInv, WalkCell
<1>2. Walked' = Walked \cup {c} /\ c \notin Walked /\ Walked \subseteq Cells
  BY <1>1 DEF WalkCell, Walked
<1>3. ASSUME NEW i \in CoarseNodes, NEW j \in CoarseNodes
      PROVE  /\ matrix'[i][j] = (matrix[i][j] + MatrixBlock(c, i, j)) % P
             /\ rhs'[i] = (rhs[i] + RhsBlock(c, i)) % P
  BY DEF WalkCell
<1>4. ASSUME NEW i \in CoarseNodes, NEW j \in CoarseNodes
      PROVE  /\ matrix'[i][j] \in Int /\ Div(matrix'[i][j] - Entry(Walked, i, j)')
             /\ rhs'[i] \in Int /\ Div(rhs'[i] - RowLoad(Walked, i)')
  <2>1. /\ matrix[i][j] \in Int /\ Div(matrix[i][j] - Entry(Walked, i, j))
        /\ rhs[i] \in Int /\ Div(rhs[i] - RowLoad(Walked, i))
    BY <1>1 DEF SystemType, Assembled
  <2>2. Entry(Walked, i, j) \in Int /\ RowLoad(Walked, i) \in Int
    BY <1>1, <1>2, EntryInt
  <2>3. MatrixBlock(c, i, j) \in Int /\ RhsBlock(c, i) \in Int
    BY <1>1, BlockInt
  <2>4. /\ Entry(Walked \cup {c}, i, j) = Entry(Walked, i, j) + MatrixBlock(c, i, j)
        /\ RowLoad(Walked \cup {c}, i) = RowLoad(Walked, i) + RhsBlock(c, i)
    BY <1>1, <1>2, EntryGrows
  <2>5. /\ Entry(Walked, i, j)' = Entry(Walked \cup {c}, i, j)
        /\ RowLoad(Walked, i)' = RowLoad(Walked \cup {c}, i)
    BY <1>1, <1>2, IntegralsKept DEF Entry, RowLoad, Part
  <2>6. matrix'[i][j] \in Int /\ Div(matrix'[i][j] - (Entry(Walked, i, j) + MatrixBlock(c, i, j)))
    <3> DEFINE m == matrix[i][j]
               x == Entry(Walked, i, j)
               y == MatrixBlock(c, i, j)
    <3>1. matrix'[i][j] = (m + y) % P /\ m \in Int /\ x \in Int /\ y \in Int /\ Div(m - x)
      BY <1>3, <2>1, <2>2, <2>3
    <3> HIDE DEF m, x, y
    <3>2. ((m + y) % P) \in Int /\ Div(((m + y) % P) - (x + y))
      BY <3>1, AddModulo
    <3>3. QED BY <3>1, <3>2 DEF x, y
  <2>7. rhs'[i] \in Int /\ Div(rhs'[i] - (RowLoad(Walked, i) + RhsBlock(c, i)))
    BY <1>3, <2>1, <2>2, <2>3, AddModulo
  <2>8. QED BY <2>4, <2>5, <2>6, <2>7
<1>5. ASSUME NEW i \in CoarseNodes
      PROVE  /\ shift'[i] \in Int
             /\ shift'[i] = IF i \in DirichletNodes' /\ (i \in Walked' \/ i + 1 \in Walked')
                            THEN boundary'.value[At(i)] ELSE 0
  <2>1. shift'[i] = IF i \in DirichletNodes /\ \E d \in {c}, s \in Inner : Dof(d, s) = i
                    THEN boundary.value[At(i)] ELSE shift[i]
    BY DEF WalkCell, Projected
  <2>2. (\E d \in {c}, s \in Inner : Dof(d, s) = i) <=> i = c - 1 \/ i = c
    BY Dofs DEF Inner
  <2>3. (i = c - 1 \/ i = c) <=> (i = c \/ i + 1 = c)
    BY Sizes DEF CoarseNodes, Cells
  <2>4. /\ shift[i] = IF i \in DirichletNodes /\ (i \in Walked \/ i + 1 \in Walked)
                      THEN boundary.value[At(i)] ELSE 0
        /\ shift[i] \in Int
    BY <1>1 DEF Assembled, SystemType
  <2>5. i \in DirichletNodes => boundary.value[At(i)] \in Int
    BY <1>1, Sizes DEF SystemType, DirichletNodes, Field
  <2>6. DirichletNodes' = DirichletNodes /\ boundary' = boundary
    BY <1>1 DEF data, DirichletNodes
  <2>7. QED BY <1>2, <2>1, <2>2, <2>3, <2>4, <2>5, <2>6
<1>6. Assembled'
  BY <1>4, <1>5 DEF Assembled
<1>7. SystemType'
  <2>1. matrix' = [i \in CoarseNodes |-> matrix'[i]]
        /\ \A i \in CoarseNodes : matrix'[i] = [j \in CoarseNodes |-> matrix'[i][j]]
    BY DEF WalkCell
  <2>2. matrix' \in [CoarseNodes -> [CoarseNodes -> Int]]
    BY <1>4, <2>1
  <2>3. rhs' = [i \in CoarseNodes |-> rhs'[i]] /\ shift' = [i \in CoarseNodes |-> shift'[i]]
    BY DEF WalkCell, Projected
  <2>4. rhs' \in [CoarseNodes -> Int] /\ shift' \in [CoarseNodes -> Int]
    BY <1>4, <1>5, <2>3
  <2>5. boundary' = boundary
    BY <1>1 DEF data
  <2>6. QED BY <1>1, <2>2, <2>4, <2>5 DEF SystemType
<1>8. Data'
  BY <1>1 DEF Data, data
<1>9. QED BY <1>1, <1>6, <1>7, <1>8 DEF GalerkinInv

\* Lifting and constraining make the constrained system of the assembled one.
LEMMA ConstrainStep == ASSUME GalerkinInv, Constrain PROVE GalerkinInv'
<1>1. /\ Data /\ SystemType /\ Assembled /\ pc' = "solve" /\ shift' = shift
      /\ UNCHANGED <<data, todo, local, coarse, correction>>
  BY DEF GalerkinInv, Constrain
<1>2. Walked = Cells
  BY DEF Constrain, Walked
<1>3. Data'
  BY <1>1 DEF Data, data
<1>4. ASSUME NEW i \in CoarseNodes
      PROVE  /\ rhs'[i] = IF i \in DirichletNodes THEN 0 ELSE (rhs[i] - Lift(i)) % P
             /\ matrix'[i] = IF i \in DirichletNodes THEN [j \in CoarseNodes |-> IF i = j THEN 1 ELSE 0]
                             ELSE matrix[i]
  <2>1. rhs'[i] = IF i \in DirichletNodes THEN 0 ELSE (rhs[i] - Lift(i)) % P
    BY DEF Constrain, ConstrainedVector, LiftedValues, Apply, Lift
  <2>2. matrix'[i] = [j \in CoarseNodes |->
                       IF i \notin DirichletNodes THEN matrix[i][j] ELSE IF i = j THEN 1 ELSE 0]
    BY DEF Constrain, ConstrainedMatrix
  <2>3. matrix[i] = [j \in CoarseNodes |-> matrix[i][j]]
    BY <1>1 DEF SystemType
  <2>4. QED BY <2>1, <2>2, <2>3
<1>5. CoarseNodes \subseteq Nat
  BY DEF CoarseNodes
<1>6. ASSUME NEW i \in CoarseNodes PROVE Lift(i) \in Int
  <2> DEFINE row == [j \in CoarseNodes |-> matrix[i][j] * shift[j]]
  <2>1. \A j \in CoarseNodes : row[j] \in Int
    BY <1>1 DEF SystemType
  <2>2. Lift(i) = Total(row, CoarseNodes)
    BY DEF Lift
  <2> HIDE DEF row
  <2>3. Ints(row, CoarseNodes)
    BY <2>1 DEF Ints
  <2>4. QED BY <1>5, <2>2, <2>3, TotalSums
<1>7. ASSUME NEW i \in CoarseNodes, i \notin DirichletNodes
      PROVE  rhs'[i] \in Int /\ Div(rhs'[i] - (RowLoad(Cells, i) - Lift(i)))
  <2> DEFINE m == rhs[i]
             x == RowLoad(Cells, i)
             l == Lift(i)
             y == 0 - l
  <2>1. m \in Int /\ x \in Int /\ l \in Int /\ Div(m - x)
    BY <1>1, <1>2, <1>6, EntryInt DEF SystemType, Assembled
  <2>2. rhs'[i] = (m - l) % P
    BY <1>4, <1>7
  <2> HIDE DEF m, x, l
  <2>3. y \in Int /\ m - l = m + y /\ x - l = x + y
    BY <2>1
  <2> HIDE DEF y
  <2>4. ((m + y) % P) \in Int /\ Div(((m + y) % P) - (x + y))
    BY <2>1, <2>3, AddModulo
  <2>5. QED BY <2>2, <2>3, <2>4 DEF x, l
<1>8. SystemType'
  <2>1. matrix' = [i \in CoarseNodes |-> matrix'[i]] /\ rhs' = [i \in CoarseNodes |-> rhs'[i]]
    BY DEF Constrain, ConstrainedVector, ConstrainedMatrix
  <2>2. ASSUME NEW i \in CoarseNodes PROVE matrix'[i] \in [CoarseNodes -> Int] /\ rhs'[i] \in Int
    <3>1. CASE i \in DirichletNodes
      <4>1. matrix'[i] = [j \in CoarseNodes |-> IF i = j THEN 1 ELSE 0] /\ rhs'[i] = 0
        BY <1>4, <3>1
      <4>2. QED BY <4>1
    <3>2. CASE i \notin DirichletNodes
      <4>1. matrix'[i] = matrix[i] /\ rhs'[i] \in Int
        BY <1>4, <1>7, <3>2
      <4>2. QED BY <1>1, <4>1 DEF SystemType
    <3>3. QED BY <3>1, <3>2
  <2>3. \A i \in CoarseNodes : matrix'[i] \in [CoarseNodes -> Int] /\ rhs'[i] \in Int
    BY <2>2
  <2>4. matrix' \in [CoarseNodes -> [CoarseNodes -> Int]] /\ rhs' \in [CoarseNodes -> Int]
    BY <2>1, <2>3
  <2>5. QED BY <1>1, <2>4 DEF SystemType, data
<1>9. ASSUME NEW i \in CoarseNodes
      PROVE  IF i \in DirichletNodes'
             THEN /\ shift'[i] = boundary'.value[At(i)]
                  /\ rhs'[i] = 0
                  /\ \A j \in CoarseNodes : matrix'[i][j] = IF i = j THEN 1 ELSE 0
             ELSE /\ shift'[i] = 0
                  /\ \A j \in CoarseNodes : Div(matrix'[i][j] - Entry(Cells, i, j)')
                  /\ Div(rhs'[i] - (RowLoad(Cells, i)' - Lift(i)'))
  <2>1. DirichletNodes' = DirichletNodes /\ boundary' = boundary
    BY <1>1 DEF data, DirichletNodes
  <2>2. shift[i] = IF i \in DirichletNodes THEN boundary.value[At(i)] ELSE 0
    BY <1>1, <1>2, Neighbours DEF Assembled
  <2>3. CASE i \in DirichletNodes
    BY <1>1, <1>4, <2>1, <2>2, <2>3
  <2>4. CASE i \notin DirichletNodes
    <3>1. matrix'[i] = matrix[i]
      BY <1>4, <2>4
    <3>2. \A j \in CoarseNodes : Div(matrix[i][j] - Entry(Cells, i, j))
      BY <1>1, <1>2 DEF Assembled
    <3>3. \A j : Entry(Cells, i, j)' = Entry(Cells, i, j)
      BY <1>1, IntegralsKept DEF Entry, Part
    <3>4. RowLoad(Cells, i)' = RowLoad(Cells, i)
      BY <1>1, IntegralsKept DEF RowLoad, Part
    <3>5. Lift(i)' = Lift(i)
      BY <1>1, <3>1 DEF Lift
    <3>6. QED BY <1>1, <1>7, <2>1, <2>2, <2>4, <3>1, <3>2, <3>3, <3>4, <3>5
  <2>5. QED BY <2>3, <2>4
<1>10. Constrained'
  BY <1>9 DEF Constrained
<1>11. QED BY <1>1, <1>3, <1>8, <1>10 DEF GalerkinInv

\* A row of one cell's entries applied to a function of the coarse nodes.
LEMMA CellRow ==
  ASSUME Data, SystemType, NEW c \in Cells, NEW i \in {c - 1, c}, NEW u \in [CoarseNodes -> Int],
         NEW g, Ints(g, CoarseNodes), \A j \in CoarseNodes : g[j] = MatrixBlock(c, i, j) * u[j]
  PROVE  /\ MatrixIntegral(c, i - (c - 1), 0) \in Int /\ MatrixIntegral(c, i - (c - 1), 1) \in Int
         /\ Div(Total(g, CoarseNodes) - (u[c - 1] * MatrixIntegral(c, i - (c - 1), 0)
                                         + u[c] * MatrixIntegral(c, i - (c - 1), 1)))
<1> DEFINE d == c - 1
           s == i - d
           m0 == MatrixIntegral(c, s, 0)
           m1 == MatrixIntegral(c, s, 1)
<1>1. c \in CoarseNodes /\ d \in CoarseNodes /\ c \in Int /\ d \in Int /\ d # c /\ i \in CoarseNodes
  BY Sizes DEF Cells, CoarseNodes
<1>2. s \in Inner /\ 0 \in Inner /\ 1 \in Inner
  BY <1>1 DEF Inner
<1>3. m0 \in Int /\ m1 \in Int
  BY <1>2, Integrals
<1>4. \A j \in CoarseNodes : MatrixBlock(c, i, j) = IF j \in {d, c} THEN MatrixIntegral(c, s, j - d) ELSE 0
  BY <1>1, BlockOf
<1>5. d - d = 0 /\ c - d = 1
  BY <1>1
<1>6. MatrixBlock(c, i, d) = m0 /\ MatrixBlock(c, i, c) = m1
  BY <1>1, <1>4, <1>5
<1>7. u[d] \in Int /\ u[c] \in Int
  BY <1>1
<1>8. g[d] = m0 * u[d] /\ g[c] = m1 * u[c]
  BY <1>1, <1>6
<1>9. \A j \in CoarseNodes \ {d, c} : g[j] = 0
  BY <1>1, <1>4
<1> HIDE DEF d, s, m0, m1
<1>10. g[d] = u[d] * m0 /\ g[c] = u[c] * m1
  BY <1>3, <1>7, <1>8
<1>11. CoarseNodes \subseteq Nat /\ d <= Size /\ c <= Size
  BY <1>1, Sizes DEF CoarseNodes
<1>12. \A j \in CoarseNodes \ {d, c} : Div(g[j])
  BY <1>9, DivZero
<1>13. Div(Total(g, CoarseNodes) - (g[d] + g[c]))
  BY <1>1, <1>11, <1>12, TotalTwo
<1>14. QED BY <1>3, <1>10, <1>13 DEF d, s, m0, m1

\* A sum of zeros.
LEMMA TotalZero ==
  ASSUME NEW S, S \subseteq Nat, NEW g, NEW p \in S, p <= Size, \A n \in S : g[n] = 0
  PROVE  Div(Total(g, S)) /\ Total(g, S) \in Int
<1>1. Ints(g, S)
  BY DEF Ints
<1>2. \A n \in S \ {p} : Div(g[n])
  BY DivZero
<1>3. Div(Total(g, S) - g[p])
  BY <1>1, <1>2, TotalOne
<1>4. Total(g, S) \in Int
  BY <1>1, TotalSums
<1>5. Total(g, S) - g[p] = Total(g, S)
  BY <1>4
<1>6. QED BY <1>3, <1>4, <1>5

\* A row of the assembled matrix applied to a sum.
LEMMA RowOfSystem ==
  ASSUME Data, SystemType, NEW i \in CoarseNodes,
         NEW u \in [CoarseNodes -> Int], NEW v \in [CoarseNodes -> Int], NEW w \in [CoarseNodes -> Int],
         \A j \in CoarseNodes : Div(u[j] - (v[j] + w[j])),
         \A j \in CoarseNodes : Div(matrix[i][j] - Entry(Cells, i, j))
  PROVE  LET mv == Total([j \in CoarseNodes |-> matrix[i][j] * v[j]], CoarseNodes)
             mw == Total([j \in CoarseNodes |-> matrix[i][j] * w[j]], CoarseNodes)
         IN mv \in Int /\ mw \in Int /\ RowValue(u, i) \in Int /\ Div((mv + mw) - RowValue(u, i))
<1> DEFINE N == CoarseNodes
           gv == [j \in N |-> matrix[i][j] * v[j]]
           gw == [j \in N |-> matrix[i][j] * w[j]]
           gu == [j \in N |-> matrix[i][j] * u[j]]
           B1(j) == Part(i, Cells, MatrixBlock(i, i, j))
           B2(j) == Part(i + 1, Cells, MatrixBlock(i + 1, i, j))
           b1 == [j \in N |-> B1(j) * u[j]]
           b2 == [j \in N |-> B2(j) * u[j]]
           V1 == IF i \in Cells THEN u[i - 1] * MatrixIntegral(i, 1, 0) + u[i] * MatrixIntegral(i, 1, 1) ELSE 0
           V2 == IF i + 1 \in Cells
                 THEN u[i] * MatrixIntegral(i + 1, 0, 0) + u[i + 1] * MatrixIntegral(i + 1, 0, 1) ELSE 0
           one == 1
<1>1. N \subseteq Nat /\ i \in Int /\ i <= Size /\ i \in N
  BY Sizes DEF CoarseNodes
<1>2. \A j \in N : matrix[i][j] \in Int /\ u[j] \in Int /\ v[j] \in Int /\ w[j] \in Int
  BY DEF SystemType
<1>3. \A j \in N : B1(j) \in Int /\ B2(j) \in Int
  BY BlockInt DEF Part
<1>4. \A j \in N : Entry(Cells, i, j) = B1(j) + B2(j)
  BY DEF Entry
<1>5. /\ \A j \in N : gv[j] = matrix[i][j] * v[j] /\ gw[j] = matrix[i][j] * w[j]
                      /\ gu[j] = matrix[i][j] * u[j]
      /\ \A j \in N : b1[j] = B1(j) * u[j] /\ b2[j] = B2(j) * u[j]
  OBVIOUS
<1>6. one \in Int
  OBVIOUS
<1>7. RowValue(u, i) = V1 + V2
  BY DEF RowValue
<1>8. i \in Cells => i - (i - 1) = 1 /\ i \in {i - 1, i} /\ \A j \in N : B1(j) = MatrixBlock(i, i, j)
  BY <1>1 DEF Part
<1>9. i + 1 \in Cells => /\ i - ((i + 1) - 1) = 0 /\ (i + 1) - 1 = i /\ i \in {(i + 1) - 1, i + 1}
                         /\ \A j \in N : B2(j) = MatrixBlock(i + 1, i, j)
  BY <1>1 DEF Part
<1>10. /\ i \notin Cells => \A j \in N : B1(j) = 0
       /\ i + 1 \notin Cells => \A j \in N : B2(j) = 0
  BY DEF Part
<1> HIDE DEF gv, gw, gu, B1, B2, b1, b2, one, N
<1>11. Ints(gv, N) /\ Ints(gw, N) /\ Ints(gu, N) /\ Ints(b1, N) /\ Ints(b2, N)
  <2> SUFFICES ASSUME NEW j \in N
               PROVE  gv[j] \in Int /\ gw[j] \in Int /\ gu[j] \in Int /\ b1[j] \in Int /\ b2[j] \in Int
    BY DEF Ints
  <2> QED BY <1>2, <1>3, <1>5
<1>12. /\ Total(gv, N) \in Int /\ Total(gw, N) \in Int /\ Total(gu, N) \in Int
       /\ Total(b1, N) \in Int /\ Total(b2, N) \in Int
  BY <1>1, <1>11, TotalSums
<1>13. Div(Total(gu, N) - (one * Total(gv, N) + one * Total(gw, N)))
  <2>1. ASSUME NEW j \in N PROVE Div(gu[j] - (one * gv[j] + one * gw[j]))
    <3> DEFINE m == matrix[i][j]
               x == u[j] - (v[j] + w[j])
               z == gu[j] - (one * gv[j] + one * gw[j])
    <3>1. m \in Int /\ u[j] \in Int /\ v[j] \in Int /\ w[j] \in Int /\ x \in Int
      BY <1>2
    <3>2. Div(x)
      BY DEF N
    <3>3. gu[j] = m * u[j] /\ gv[j] = m * v[j] /\ gw[j] = m * w[j]
      BY <1>5
    <3> HIDE DEF m
    <3>4. z = m * x
      BY <3>1, <3>3 DEF one
    <3> HIDE DEF x, z
    <3>5. Div(m * x)
      BY <3>1, <3>2, DivTimes
    <3>6. QED BY <3>4, <3>5 DEF z
  <2>2. QED BY <1>1, <1>6, <1>11, <2>1, TotalLinear
<1>14. Div(Total(gu, N) - (one * Total(b1, N) + one * Total(b2, N)))
  <2>1. ASSUME NEW j \in N PROVE Div(gu[j] - (one * b1[j] + one * b2[j]))
    <3> DEFINE m == matrix[i][j]
               x == m - Entry(Cells, i, j)
               z == gu[j] - (one * b1[j] + one * b2[j])
               y == u[j]
               p == B1(j)
               q == B2(j)
    <3>1. m \in Int /\ y \in Int /\ p \in Int /\ q \in Int
      BY <1>2, <1>3
    <3>2. Div(x) /\ x = m - (p + q)
      BY <1>4 DEF N
    <3>3. gu[j] = m * y /\ b1[j] = p * y /\ b2[j] = q * y
      BY <1>5
    <3> HIDE DEF m, y, p, q, x
    <3>4. x \in Int /\ z = y * x
      BY <3>1, <3>2, <3>3 DEF one
    <3> HIDE DEF z
    <3>5. Div(y * x)
      BY <3>1, <3>2, <3>4, DivTimes
    <3>6. QED BY <3>4, <3>5 DEF z
  <2>2. QED BY <1>1, <1>6, <1>11, <2>1, TotalLinear
<1>15. V1 \in Int /\ Div(Total(b1, N) - V1)
  <2>1. CASE i \in Cells
    <3>1. \A j \in N : b1[j] = MatrixBlock(i, i, j) * u[j]
      BY <1>5, <1>8, <2>1
    <3>2. u[i - 1] \in Int /\ u[i] \in Int
      BY <2>1, Neighbours
    <3>3. /\ MatrixIntegral(i, 1, 0) \in Int /\ MatrixIntegral(i, 1, 1) \in Int
          /\ Div(Total(b1, N) - (u[i - 1] * MatrixIntegral(i, 1, 0) + u[i] * MatrixIntegral(i, 1, 1)))
      <4> DEFINE s == i - (i - 1)
      <4>1. s = 1 /\ i \in {i - 1, i}
        BY <1>8, <2>1
      <4>2. /\ MatrixIntegral(i, s, 0) \in Int /\ MatrixIntegral(i, s, 1) \in Int
            /\ Div(Total(b1, N) - (u[i - 1] * MatrixIntegral(i, s, 0) + u[i] * MatrixIntegral(i, s, 1)))
        BY <1>11, <2>1, <3>1, <4>1, CellRow DEF N
      <4> HIDE DEF s
      <4>3. QED BY <4>1, <4>2
    <3>4. QED BY <2>1, <3>2, <3>3
  <2>2. CASE i \notin Cells
    <3>1. V1 = 0
      BY <2>2
    <3>2. \A j \in N : b1[j] = 0
      BY <1>2, <1>5, <1>10, <2>2
    <3>3. Div(Total(b1, N))
      BY <1>1, <3>2, TotalZero
    <3>4. Total(b1, N) - 0 = Total(b1, N)
      BY <1>12
    <3>5. QED BY <3>1, <3>3, <3>4
  <2>3. QED BY <2>1, <2>2
<1>16. V2 \in Int /\ Div(Total(b2, N) - V2)
  <2>1. CASE i + 1 \in Cells
    <3>1. \A j \in N : b2[j] = MatrixBlock(i + 1, i, j) * u[j]
      BY <1>5, <1>9, <2>1
    <3>2. u[i + 1] \in Int /\ u[i] \in Int
      BY <2>1, Neighbours
    <3>3. /\ MatrixIntegral(i + 1, 0, 0) \in Int /\ MatrixIntegral(i + 1, 0, 1) \in Int
          /\ Div(Total(b2, N) - (u[i] * MatrixIntegral(i + 1, 0, 0) + u[i + 1] * MatrixIntegral(i + 1, 0, 1)))
      <4> DEFINE c == i + 1
                 d == c - 1
                 s == i - d
      <4>1. s = 0 /\ d = i /\ i \in {c - 1, c} /\ c \in Cells
        BY <1>9, <2>1
      <4>2. \A j \in N : b2[j] = MatrixBlock(c, i, j) * u[j]
        BY <3>1
      <4> HIDE DEF c
      <4>3. /\ MatrixIntegral(c, s, 0) \in Int /\ MatrixIntegral(c, s, 1) \in Int
            /\ Div(Total(b2, N) - (u[d] * MatrixIntegral(c, s, 0) + u[c] * MatrixIntegral(c, s, 1)))
        BY <1>11, <4>1, <4>2, CellRow DEF N
      <4> HIDE DEF d, s
      <4>4. QED BY <4>1, <4>3 DEF c
    <3>4. QED BY <2>1, <3>2, <3>3
  <2>2. CASE i + 1 \notin Cells
    <3>1. V2 = 0
      BY <2>2
    <3>2. \A j \in N : b2[j] = 0
      BY <1>2, <1>5, <1>10, <2>2
    <3>3. Div(Total(b2, N))
      BY <1>1, <3>2, TotalZero
    <3>4. Total(b2, N) - 0 = Total(b2, N)
      BY <1>12
    <3>5. QED BY <3>1, <3>3, <3>4
  <2>3. QED BY <2>1, <2>2
<1> DEFINE z1 == Total(gu, N) - (Total(gv, N) + Total(gw, N))
           z2 == Total(gu, N) - (Total(b1, N) + Total(b2, N))
           z3 == Total(b1, N) - V1
           z4 == Total(b2, N) - V2
           z5 == z3 + z4
           z6 == z5 + z2
           z7 == z6 - z1
<1>17. Div(z1) /\ Div(z2)
  <2>1. one * Total(gv, N) = Total(gv, N) /\ one * Total(gw, N) = Total(gw, N)
        /\ one * Total(b1, N) = Total(b1, N) /\ one * Total(b2, N) = Total(b2, N)
    BY <1>12 DEF one
  <2>2. QED BY <1>13, <1>14, <2>1
<1>18. Div(z3) /\ Div(z4)
  BY <1>15, <1>16
<1>19. V1 \in Int /\ V2 \in Int
  BY <1>15, <1>16
<1> HIDE DEF V1, V2
<1>20. z1 \in Int /\ z2 \in Int /\ z3 \in Int /\ z4 \in Int /\ z5 \in Int /\ z6 \in Int /\ z7 \in Int
  BY <1>12, <1>19
<1>21. z7 = (Total(gv, N) + Total(gw, N)) - (V1 + V2)
  BY <1>12, <1>19
<1> HIDE DEF z1, z2, z3, z4
<1>22. Div(z5)
  BY <1>18, <1>20, DivSum
<1> HIDE DEF z5
<1>23. Div(z6)
  BY <1>17, <1>20, <1>22, DivSum
<1> HIDE DEF z6
<1>24. Div(z7)
  BY <1>17, <1>20, <1>23, DivSum
<1>25. /\ Total(gv, N) = Total([j \in CoarseNodes |-> matrix[i][j] * v[j]], CoarseNodes)
       /\ Total(gw, N) = Total([j \in CoarseNodes |-> matrix[i][j] * w[j]], CoarseNodes)
  BY DEF gv, gw, N
<1>26. QED BY <1>7, <1>12, <1>19, <1>21, <1>24, <1>25

\* The shifted solution of the constrained system balances the assembled one.
LEMMA ApplyInverseStep == ASSUME GalerkinInv, ApplyInverse PROVE GalerkinInv'
<1>1. /\ Data /\ SystemType /\ Constrained
      /\ UNCHANGED <<data, local, system, correction>>
  BY DEF GalerkinInv, ApplyInverse
<1>2. SystemType'
  BY <1>1 DEF SystemType, system, data
<1>3. CASE ~Solves(matrix, rhs, CoarseNodes)
  <2>1. pc' = "thrown" /\ coarse' = coarse
    BY <1>3 DEF ApplyInverse
  <2>2. Data'
    BY <1>1, <2>1 DEF Data, data
  <2>3. QED BY <1>2, <2>1, <2>2 DEF GalerkinInv
<1>4. CASE Solves(matrix, rhs, CoarseNodes)
  <2> DEFINE x == Solution(matrix, rhs, CoarseNodes)
  <2>1. x \in [CoarseNodes -> Field] /\ Apply(matrix, x, CoarseNodes) = rhs
    BY <1>4 DEF Solves
  <2>2. pc' = "identify" /\ coarse' = Shifted(x)
    BY <1>4 DEF ApplyInverse
  <2> HIDE DEF x
  <2>3. Field \subseteq Int
    BY Sizes DEF Field
  <2>4. x \in [CoarseNodes -> Int] /\ shift \in [CoarseNodes -> Int]
    BY <1>1, <2>1, <2>3 DEF SystemType
  <2>5. ASSUME NEW i \in CoarseNodes
        PROVE  /\ coarse'[i] = (x[i] + shift[i]) % P
               /\ coarse'[i] \in Int
               /\ Div(coarse'[i] - (x[i] + shift[i]))
    <3> DEFINE a == x[i] + shift[i]
               r == a % P
               y == a - r
               z == r - a
    <3>1. coarse'[i] = r
      BY <2>2 DEF Shifted
    <3>2. a \in Int
      BY <2>4
    <3>3. r \in Int /\ Div(y)
      <4> HIDE DEF a
      <4>1. r \in Field /\ Div(a - r)
        BY <3>2, DivMod
      <4>2. QED BY <2>3, <4>1
    <3> HIDE DEF a, r
    <3>4. y \in Int /\ z \in Int /\ z = 0 - y
      BY <3>2, <3>3
    <3> HIDE DEF y, z
    <3>5. Div(z)
      BY <3>3, <3>4, DivSum, DivZero
    <3>6. QED BY <3>1, <3>3, <3>5 DEF z, r, a
  <2>6. coarse' \in [CoarseNodes -> Int]
    <3>1. coarse' = [i \in CoarseNodes |-> coarse'[i]]
      BY <2>2 DEF Shifted
    <3>2. QED BY <2>5, <3>1
  <2>7. Data'
    BY <1>1, <2>6 DEF Data, data
  <2>8. ASSUME NEW i \in CoarseNodes PROVE rhs[i] = Total([j \in CoarseNodes |-> matrix[i][j] * x[j]], CoarseNodes)
    BY <2>1 DEF Apply
  <2>9. CoarseNodes \subseteq Nat
    BY DEF CoarseNodes
  <2>10. DirichletNodes' = DirichletNodes /\ boundary' = boundary
    BY <1>1 DEF data, DirichletNodes
  <2>11. ASSUME NEW i \in CoarseNodes, i \in DirichletNodes
         PROVE  coarse'[i] = boundary.value[At(i)]
    <3> DEFINE row == [j \in CoarseNodes |-> matrix[i][j] * x[j]]
    <3>1. /\ rhs[i] = 0 /\ shift[i] = boundary.value[At(i)]
          /\ \A j \in CoarseNodes : matrix[i][j] = IF i = j THEN 1 ELSE 0
      BY <1>1, <2>11 DEF Constrained
    <3>2. \A j \in CoarseNodes : x[j] \in Int
      BY <2>4
    <3>3. row[i] = x[i] /\ \A j \in CoarseNodes \ {i} : row[j] = 0
      BY <3>1, <3>2
    <3>4. rhs[i] = Total(row, CoarseNodes)
      BY <2>8
    <3> HIDE DEF row
    <3>5. Ints(row, CoarseNodes)
      BY <3>2, <3>3 DEF Ints
    <3>6. i <= Size /\ \A j \in CoarseNodes \ {i} : Div(row[j])
      BY <3>3, Neighbours, DivZero
    <3>7. Div(Total(row, CoarseNodes) - row[i])
      BY <2>9, <3>5, <3>6, TotalOne
    <3>8. Div(0 - x[i])
      BY <3>1, <3>3, <3>4, <3>7
    <3>9. 0 \in Field /\ x[i] \in Field
      BY <2>1, Sizes DEF Field
    <3>10. x[i] = 0
      BY <3>8, <3>9, DivField
    <3>11. boundary.value[At(i)] \in Field
      BY <1>1, <2>11 DEF SystemType, DirichletNodes
    <3>12. coarse'[i] = (0 + boundary.value[At(i)]) % P
      BY <2>5, <3>1, <3>10
    <3>13. QED BY <3>11, <3>12, Sizes DEF Field
  <2>12. ASSUME NEW i \in CoarseNodes, i \notin DirichletNodes
         PROVE  Div(RowLoad(Cells, i) - RowValue(coarse', i))
    <3> DEFINE mv == Total([j \in CoarseNodes |-> matrix[i][j] * x[j]], CoarseNodes)
               mw == Total([j \in CoarseNodes |-> matrix[i][j] * shift[j]], CoarseNodes)
               L == RowLoad(Cells, i)
               V == RowValue(coarse', i)
               z1 == (mv + mw) - V
               z2 == rhs[i] - (L - mw)
               z == L - V
    <3>1. /\ \A j \in CoarseNodes : Div(matrix[i][j] - Entry(Cells, i, j))
          /\ Div(z2)
      BY <1>1, <2>12 DEF Constrained, Lift
    <3>2. \A j \in CoarseNodes : Div(coarse'[j] - (x[j] + shift[j]))
      BY <2>5
    <3>3. mv \in Int /\ mw \in Int /\ V \in Int /\ Div(z1)
      BY <1>1, <2>4, <2>6, <3>1, <3>2, RowOfSystem
    <3>4. rhs[i] = mv
      BY <2>8
    <3>5. L \in Int
      BY <1>1, EntryInt
    <3> HIDE DEF mv, mw, L, V
    <3>6. z1 \in Int /\ z2 \in Int /\ z \in Int /\ z = z1 - z2
      BY <3>3, <3>4, <3>5
    <3> HIDE DEF z1, z2, z
    <3>7. Div(z)
      BY <3>1, <3>3, <3>6, DivSum
    <3>8. QED BY <3>7 DEF z, L, V
  <2>13. Balanced'
    <3>1. ASSUME NEW i \in CoarseNodes
          PROVE  RowLoad(Cells, i)' = RowLoad(Cells, i) /\ RowValue(coarse, i)' = RowValue(coarse', i)
      BY <1>1, IntegralsKept DEF RowLoad, RowValue, Part
    <3>2. QED BY <2>10, <2>11, <2>12, <3>1 DEF Balanced
  <2>14. QED BY <1>2, <2>2, <2>7, <2>13 DEF GalerkinInv
<1>5. QED BY <1>3, <1>4

\* The corrections of a cell change nothing of this.
LEMMA IdentifyCellStep == ASSUME GalerkinInv, IdentifyCell PROVE GalerkinInv'
<1>1. /\ Data /\ SystemType /\ Balanced /\ pc' \in {"identify", "done"}
      /\ UNCHANGED <<data, local, system, coarse>>
  BY DEF GalerkinInv, IdentifyCell
<1>2. Data' /\ SystemType'
  BY <1>1 DEF Data, SystemType, data, system
<1>3. DirichletNodes' = DirichletNodes /\ boundary' = boundary
  BY <1>1 DEF data, DirichletNodes
<1>4. ASSUME NEW i \in CoarseNodes
      PROVE  RowLoad(Cells, i)' = RowLoad(Cells, i) /\ RowValue(coarse, i)' = RowValue(coarse, i)
  BY <1>1, IntegralsKept DEF RowLoad, RowValue, Part
<1>5. Balanced'
  BY <1>1, <1>3, <1>4 DEF Balanced
<1>6. QED BY <1>1, <1>2, <1>5 DEF GalerkinInv

\* Neither does a step of the reference solver.
LEMMA GalerkinStutter == ASSUME GalerkinInv, UNCHANGED <<data, pc, todo, local, system, coarse>> PROVE GalerkinInv'
<1>1. Data /\ SystemType
  BY DEF GalerkinInv
<1>2. Data' /\ SystemType'
  BY <1>1 DEF Data, SystemType, data, system
<1>3. /\ DirichletNodes' = DirichletNodes /\ boundary' = boundary /\ Walked' = Walked
      /\ pc' = pc /\ matrix' = matrix /\ rhs' = rhs /\ shift' = shift /\ coarse' = coarse
  BY DEF data, system, DirichletNodes, Walked
<1>4. ASSUME NEW cs, NEW i \in CoarseNodes
      PROVE  /\ RowLoad(cs, i)' = RowLoad(cs, i) /\ RowValue(coarse, i)' = RowValue(coarse, i)
             /\ \A j : Entry(cs, i, j)' = Entry(cs, i, j)
  BY <1>3, IntegralsKept DEF RowLoad, RowValue, Entry, Part
<1>5. Balanced => Balanced'
  BY <1>3, <1>4 DEF Balanced
<1>6. Constrained => Constrained'
  <2>1. \A i : Lift(i)' = Lift(i)
    BY <1>3 DEF Lift
  <2>2. QED BY <1>3, <1>4, <2>1 DEF Constrained
<1>7. Assembled => Assembled'
  <2> SUFFICES ASSUME Assembled, NEW i \in CoarseNodes
               PROVE  /\ \A j \in CoarseNodes : Div(matrix'[i][j] - Entry(Walked, i, j)')
                      /\ Div(rhs'[i] - RowLoad(Walked, i)')
                      /\ shift'[i] = IF i \in DirichletNodes' /\ (i \in Walked' \/ i + 1 \in Walked')
                                     THEN boundary'.value[At(i)] ELSE 0
    BY DEF Assembled
  <2>1. RowLoad(Walked, i)' = RowLoad(Walked, i) /\ \A j : Entry(Walked, i, j)' = Entry(Walked, i, j)
    BY <1>3, IntegralsKept DEF RowLoad, Entry, Part
  <2>2. QED BY <1>3, <2>1 DEF Assembled
<1>8. ZeroSystem => ZeroSystem'
  BY <1>3 DEF ZeroSystem
<1>9. QED BY <1>2, <1>3, <1>5, <1>6, <1>7, <1>8 DEF GalerkinInv

\* A balanced row is the weak equation.
LEMMA BalancedIsOrthogonal == ASSUME GalerkinInv, EvenSource PROVE Orthogonal
<1> SUFFICES ASSUME pc \in {"identify", "done"}, NEW i \in CoarseNodes
             PROVE  IF i \in DirichletNodes THEN coarse[i] = boundary.value[At(i)]
                    ELSE ((IF i \in Cells THEN Residual(i, 1) ELSE 0)
                           + (IF i + 1 \in Cells THEN Residual(i + 1, 0) ELSE 0) + Flux(At(i))) % P = 0
  BY DEF Orthogonal
<1>1. Data /\ SystemType /\ Balanced
  BY DEF GalerkinInv
<1>2. CASE i \in DirichletNodes
  BY <1>1, <1>2 DEF Balanced
<1>3. CASE i \notin DirichletNodes
  <2> DEFINE c == i + 1
             A == IF i \in Cells THEN Residual(i, 1) ELSE 0
             B == IF c \in Cells THEN Residual(c, 0) ELSE 0
             VA == IF i \in Cells
                   THEN coarse[i - 1] * MatrixIntegral(i, 1, 0) + coarse[i] * MatrixIntegral(i, 1, 1) ELSE 0
             VB == IF c \in Cells
                   THEN coarse[i] * MatrixIntegral(c, 0, 0) + coarse[c] * MatrixIntegral(c, 0, 1) ELSE 0
             RA == IF i \in Cells THEN RhsIntegral(i, 1) ELSE 0
             RB == IF c \in Cells THEN RhsIntegral(c, 0) ELSE 0
             F == Flux(At(i))
             FA == IF i \in Cells THEN F ELSE 0
             FB == IF c \in Cells THEN F ELSE 0
             x == A - (RA - VA)
             y == B - (RB - VB)
             w == (RA + FA + (RB + FB)) - (VA + VB)
             v == x + y
             z == A + B + F
  <2>1. /\ i \in Int /\ i - (i - 1) = 1 /\ i \in {i - 1, i} /\ c - 1 = i /\ i \in {c - 1, c} /\ i - (c - 1) = 0
        /\ (i \in Cells => i - 1 \in CoarseNodes) /\ (c \in Cells => c \in CoarseNodes)
        /\ (i \in Cells \/ c \in Cells)
    BY Neighbours
  <2>2. 0 \in Inner /\ 1 \in Inner
    BY DEF Inner
  <2>3. /\ i \in Cells => RhsBlock(i, i) = RhsIntegral(i, 1) + F
        /\ c \in Cells => RhsBlock(c, i) = RhsIntegral(c, 0) + F
    <3>1. CASE i \in Cells
      BY <2>1, <3>1, BlockOf
    <3>2. ASSUME c \in Cells PROVE RhsBlock(c, i) = RhsIntegral(c, 0) + F
      <4> HIDE DEF c
      <4>1. RhsBlock(c, i) = RhsIntegral(c, i - (c - 1)) + F
        BY <2>1, <3>2, BlockOf
      <4>2. QED BY <2>1, <4>1
    <3>3. QED BY <3>1, <3>2
  <2>4. RowLoad(Cells, i) = RA + FA + (RB + FB)
    <3>1. F \in Int
      BY <1>1, <2>1, FluxInt, Sizes DEF At
    <3>2. RA \in Int /\ RB \in Int
      BY <1>1, <2>2, Integrals
    <3>3. Part(i, Cells, RhsBlock(i, i)) = RA + FA
      BY <2>3 DEF Part
    <3>4. Part(c, Cells, RhsBlock(c, i)) = RB + FB
      BY <2>3 DEF Part
    <3>5. QED BY <3>3, <3>4 DEF RowLoad
  <2>5. RowValue(coarse, i) = VA + VB
    BY DEF RowValue
  <2>6. Div(w)
    BY <1>1, <1>3, <2>4, <2>5 DEF Balanced
  <2>7. FA + FB = F /\ F \in Int /\ FA \in Int /\ FB \in Int
    <3>1. F \in Int
      BY <1>1, <2>1, FluxInt, Sizes DEF At
    <3>2. CASE i \in Cells /\ c \in Cells
      <4>1. At(i) \in Nat /\ At(c) = At(i) + Micro /\ At(c) <= Size /\ At(i) = At(i - 1) + Micro /\ At(i - 1) \in Nat
        <5>1. At(i) \in Nat /\ At(i) = At(i - 1) + Micro /\ At(i - 1) \in Nat
          BY <3>2, CellRange
        <5> HIDE DEF c
        <5>2. At(c) = At(c - 1) + Micro /\ At(c) <= Size
          BY <3>2, CellRange
        <5>3. QED BY <2>1, <5>1, <5>2
      <4>2. At(i) # 0 /\ At(i) # Size
        BY <4>1, Sizes
      <4>3. At(i) \notin Ends
        BY <4>2 DEF Ends, Size
      <4>4. F = 0
        BY <4>3 DEF Flux
      <4>5. QED BY <4>4
    <3>3. CASE ~(i \in Cells /\ c \in Cells)
      BY <2>1, <3>1, <3>3
    <3>4. QED BY <3>2, <3>3
  <2>8. A \in Int /\ VA \in Int /\ RA \in Int /\ Div(x)
    <3>1. CASE i \in Cells
      <4>1. /\ Residual(i, 1) \in Int
            /\ Div(Residual(i, 1) - (RhsIntegral(i, 1) - (coarse[i - 1] * MatrixIntegral(i, 1, 0)
                                                          + coarse[i] * MatrixIntegral(i, 1, 1))))
        BY <1>1, <2>2, <3>1, ResidualIs
      <4>2. RhsIntegral(i, 1) \in Int /\ MatrixIntegral(i, 1, 0) \in Int /\ MatrixIntegral(i, 1, 1) \in Int
        BY <1>1, <2>2, <3>1, Integrals
      <4>3. coarse[i - 1] \in Int /\ coarse[i] \in Int
        BY <1>1, <2>1, <3>1 DEF Data
      <4>4. QED BY <3>1, <4>1, <4>2, <4>3
    <3>2. CASE i \notin Cells
      <4>1. A = 0 /\ VA = 0 /\ RA = 0 /\ x = 0
        BY <3>2
      <4> HIDE DEF A, VA, RA, x
      <4>2. QED BY <4>1, DivZero
    <3>3. QED BY <3>1, <3>2
  <2>9. B \in Int /\ VB \in Int /\ RB \in Int /\ Div(y)
    <3>1. CASE c \in Cells
      <4>1. coarse[c] \in Int /\ coarse[i] \in Int
        BY <1>1, <2>1, <3>1 DEF Data
      <4> HIDE DEF c
      <4>2. /\ Residual(c, 0) \in Int
            /\ Div(Residual(c, 0) - (RhsIntegral(c, 0) - (coarse[c - 1] * MatrixIntegral(c, 0, 0)
                                                          + coarse[c] * MatrixIntegral(c, 0, 1))))
        BY <1>1, <2>2, <3>1, ResidualIs
      <4>3. RhsIntegral(c, 0) \in Int /\ MatrixIntegral(c, 0, 0) \in Int /\ MatrixIntegral(c, 0, 1) \in Int
        BY <1>1, <2>2, <3>1, Integrals
      <4>4. QED BY <2>1, <3>1, <4>1, <4>2, <4>3
    <3>2. CASE c \notin Cells
      <4>1. B = 0 /\ VB = 0 /\ RB = 0 /\ y = 0
        BY <3>2
      <4> HIDE DEF B, VB, RB, y
      <4>2. QED BY <4>1, DivZero
    <3>3. QED BY <3>1, <3>2
  <2> HIDE DEF A, B, VA, VB, RA, RB, F, FA, FB
  <2>10. x \in Int /\ y \in Int /\ w \in Int /\ v \in Int /\ z \in Int
    BY <2>7, <2>8, <2>9
  <2>11. z = v + w
    BY <2>7, <2>8, <2>9
  <2> HIDE DEF x, y, w
  <2>12. Div(v)
    BY <2>8, <2>9, <2>10, DivSum
  <2> HIDE DEF v, z
  <2>13. Div(z)
    BY <2>6, <2>10, <2>11, <2>12, DivSum
  <2>14. (z % P) = 0
    BY <2>10, <2>13, DivMod
  <2>15. QED BY <1>3, <2>14 DEF z, A, B, F
<1>4. QED BY <1>2, <1>3

\* Every step of a run keeps the invariant.
LEMMA GalerkinNext == GalerkinInv /\ [ComparedNext]_comparedVars => GalerkinInv'
<1> SUFFICES ASSUME GalerkinInv, [ComparedNext]_comparedVars PROVE GalerkinInv'
  OBVIOUS
<1>1. CASE Multiscale
  <2>1. CASE SolveLocal
    BY <2>1, SolveLocalStep
  <2>2. CASE \E c \in Cells : WalkCell(c)
    BY <2>2, WalkCellStep
  <2>3. CASE Constrain
    BY <2>3, ConstrainStep
  <2>4. CASE ApplyInverse
    BY <2>4, ApplyInverseStep
  <2>5. CASE IdentifyCell
    BY <2>5, IdentifyCellStep
  <2>6. QED BY <1>1, <2>1, <2>2, <2>3, <2>4, <2>5 DEF Multiscale, Next
<1>2. CASE Reference
  <2>1. UNCHANGED <<k, f, boundary>>
    BY <1>2 DEF Reference, Fem!Next, Fem!Begin, Fem!WalkEntity, Fem!Constrain, Fem!Solve, Fem!problem
  <2>2. UNCHANGED <<data, pc, todo, local, system, coarse>>
    BY <1>2, <2>1 DEF Reference, data, system
  <2>3. QED BY <2>2, GalerkinStutter
<1>3. CASE UNCHANGED comparedVars
  <2>1. UNCHANGED <<data, pc, todo, local, system, coarse>>
    BY <1>3 DEF comparedVars, vars
  <2>2. QED BY <2>1, GalerkinStutter
<1>4. QED BY <1>1, <1>2, <1>3 DEF ComparedNext

(* In every run of the coarse system, whichever order the threads walk in, *)
(* the parts fit: the system in each phase is that of the cells come to,   *)
(* of the Dirichlet values and of the local solutions they have, and the   *)
(* coarse solution balances it.                                            *)
THEOREM SystemsFit == ComparedSpec => []GalerkinInv
<1>1. ComparedInit => GalerkinInv
  BY InitGalerkin DEF ComparedInit
<1>2. QED BY <1>1, GalerkinNext, PTL DEF ComparedSpec

(* GalerkinOrthogonal for every grid, coefficient, source and boundary,    *)
(* every number of layers and every linear solver that solves what it does *)
(* not throw on: what coarse_scale_operator.cc lifts, constrains and       *)
(* shifts back fits what it assembles.                                     *)
THEOREM GalerkinHolds == ComparedSpec => []GalerkinOrthogonal
<1>1. GalerkinInv => GalerkinOrthogonal
  BY BalancedIsOrthogonal DEF GalerkinOrthogonal
<1>2. QED BY <1>1, SystemsFit, PTL

---------------------------------------------------------------------------
(* Equations in the field                                                  *)

\* The same number of the field.
Eq(x, y) == x \in Int /\ y \in Int /\ Div(x - y)

\* Equal numbers, and numbers equal the other way round.
LEMMA EqRefl == ASSUME NEW x \in Int PROVE Eq(x, x)
<1>1. x - x = 0
  OBVIOUS
<1>2. QED BY <1>1, DivZero DEF Eq

\* Being the same number is symmetric,
LEMMA EqSym == ASSUME NEW x, NEW y, Eq(x, y) PROVE Eq(y, x)
<1> DEFINE a == x - y
           z == y - x
<1>1. x \in Int /\ y \in Int /\ Div(a) /\ a \in Int /\ z \in Int /\ z = 0 - a
  BY DEF Eq
<1> HIDE DEF a, z
<1>2. Div(z)
  BY <1>1, DivZero, DivSum
<1>3. QED BY <1>1, <1>2 DEF Eq, z

\* and transitive.
LEMMA EqTrans == ASSUME NEW x, NEW y, NEW z, Eq(x, y), Eq(y, z) PROVE Eq(x, z)
<1> DEFINE a == x - y
           b == y - z
           c == x - z
<1>1. x \in Int /\ y \in Int /\ z \in Int /\ Div(a) /\ Div(b) /\ a \in Int /\ b \in Int /\ c \in Int /\ c = a + b
  BY DEF Eq
<1> HIDE DEF a, b, c
<1>2. Div(c)
  BY <1>1, DivSum
<1>3. QED BY <1>1, <1>2 DEF Eq, c

\* Sums and differences of the same numbers are the same.
LEMMA EqSum ==
  ASSUME NEW x, NEW y, Eq(x, y), NEW v, NEW w, Eq(v, w)
  PROVE  Eq(x + v, y + w) /\ Eq(x - v, y - w)
<1> DEFINE a == x - y
           b == v - w
           c == (x + v) - (y + w)
           d == (x - v) - (y - w)
<1>1. /\ x \in Int /\ y \in Int /\ v \in Int /\ w \in Int /\ Div(a) /\ Div(b) /\ a \in Int /\ b \in Int
      /\ c \in Int /\ d \in Int /\ c = a + b /\ d = a - b
  BY DEF Eq
<1> HIDE DEF a, b, c, d
<1>2. Div(c) /\ Div(d)
  BY <1>1, DivSum
<1>3. x + v \in Int /\ y + w \in Int /\ x - v \in Int /\ y - w \in Int
  BY <1>1
<1>4. QED BY <1>2, <1>3 DEF Eq, c, d

\* So are products.
LEMMA EqTimes ==
  ASSUME NEW x, NEW y, Eq(x, y), NEW v, NEW w, Eq(v, w)
  PROVE  Eq(x * v, y * w)
<1> DEFINE a == x - y
           b == v - w
           c == v * a
           d == y * b
           e == x * v - y * w
<1>1. x \in Int /\ y \in Int /\ v \in Int /\ w \in Int /\ Div(a) /\ Div(b) /\ a \in Int /\ b \in Int
  BY DEF Eq
<1>2. c \in Int /\ d \in Int /\ e \in Int
  BY <1>1
<1>3. e = c + d
  BY <1>1
<1> HIDE DEF a, b
<1>4. Div(c) /\ Div(d)
  BY <1>1, DivTimes
<1> HIDE DEF c, d, e
<1>5. Div(e)
  BY <1>2, <1>3, <1>4, DivSum
<1>6. x * v \in Int /\ y * w \in Int
  BY <1>1
<1>7. QED BY <1>5, <1>6 DEF Eq, e

\* A remainder is the same number, and one of the field.
LEMMA EqMod == ASSUME NEW x \in Int PROVE Eq((x % P), x) /\ (x % P) \in Field /\ (x % P) \in Int
<1> DEFINE r == x % P
<1>1. r \in Field /\ Div(x - r)
  BY DivMod
<1> HIDE DEF r
<1>2. r \in Int
  BY <1>1, Sizes DEF Field
<1>3. Eq(x, r)
  BY <1>1, <1>2 DEF Eq
<1>4. Eq(r, x)
  BY <1>3, EqSym
<1>5. QED BY <1>1, <1>2, <1>4 DEF r

\* The same number has one name in the field.
LEMMA EqField == ASSUME NEW x \in Field, NEW y \in Field, Eq(x, y) PROVE x = y
BY DivField DEF Eq

\* The field's numbers are integers, zero and one among them.
LEMMA FieldInt == Field \subseteq Int /\ 0 \in Field /\ 1 \in Field
BY Sizes DEF Field

\* One is not zero.
LEMMA OneNotZero == ~Eq(1, 0)
BY EqField, FieldInt

---------------------------------------------------------------------------
\* Sums of equal terms, of multiples, of sums and differences.
LEMMA SumsEqual ==
  ASSUME NEW S, S \subseteq Nat, NEW F, NEW g, \A n \in S : Eq(F[n], g[n])
  PROVE  Ints(F, S) /\ Ints(g, S) /\ Eq(Total(F, S), Total(g, S)) /\ Total(F, S) \in Field /\ Total(g, S) \in Field
<1>1. Ints(F, S) /\ Ints(g, S)
  BY DEF Ints, Eq
<1>2. \A n \in S : Div(F[n] - g[n])
  BY DEF Eq
<1>3. Div(Total(F, S) - Total(g, S))
  BY <1>1, <1>2, TotalSame
<1>4. /\ Total(F, S) \in Field /\ Total(g, S) \in Field /\ Total(F, S) \in Int /\ Total(g, S) \in Int
  BY <1>1, TotalSums
<1>5. QED BY <1>1, <1>3, <1>4 DEF Eq

\* The sum of a combination is that of the sums.
LEMMA SumLinear ==
  ASSUME NEW S, S \subseteq Nat, NEW F, Ints(F, S), NEW g, Ints(g, S), NEW h,
         NEW a \in Int, NEW b \in Int,
         \A n \in S : Eq(h[n], a * F[n] + b * g[n])
  PROVE  Ints(h, S) /\ Eq(Total(h, S), a * Total(F, S) + b * Total(g, S))
<1>1. Ints(h, S) /\ \A n \in S : Div(h[n] - (a * F[n] + b * g[n]))
  BY DEF Ints, Eq
<1>2. Div(Total(h, S) - (a * Total(F, S) + b * Total(g, S)))
  BY <1>1, TotalLinear
<1>3. Total(F, S) \in Int /\ Total(g, S) \in Int /\ Total(h, S) \in Int
  BY <1>1, TotalSums
<1>4. a * Total(F, S) \in Int /\ b * Total(g, S) \in Int
  BY <1>3
<1>5. QED BY <1>1, <1>2, <1>3, <1>4 DEF Eq

\* The sum of multiples is the multiple of the sum.
LEMMA SumScaled ==
  ASSUME NEW S, S \subseteq Nat, NEW F, Ints(F, S), NEW h, NEW a \in Int,
         \A n \in S : Eq(h[n], a * F[n])
  PROVE  Eq(Total(h, S), a * Total(F, S))
<1> DEFINE z == 0
<1>1. \A n \in S : a * F[n] \in Int /\ F[n] \in Int
  BY DEF Ints
<1>2. \A n \in S : a * F[n] + z * F[n] = a * F[n]
  BY <1>1
<1>3. Total(F, S) \in Int
  BY TotalSums
<1>4. a * Total(F, S) \in Int
  BY <1>3
<1>5. a * Total(F, S) + z * Total(F, S) = a * Total(F, S) /\ z \in Int
  BY <1>3, <1>4
<1> HIDE DEF z
<1>6. Eq(Total(h, S), a * Total(F, S) + z * Total(F, S))
  BY <1>2, <1>5, SumLinear
<1>7. QED BY <1>5, <1>6

\* A sum of zeros.
LEMMA SumZero ==
  ASSUME NEW S, S \subseteq Nat, NEW F, \A n \in S : Eq(F[n], 0)
  PROVE  Eq(Total(F, S), 0)
<1>1. Ints(F, S)
  BY DEF Ints, Eq
<1> DEFINE z == 0
<1>2. \A n \in S : z * F[n] = 0
  BY <1>1 DEF Ints
<1>3. z \in Int
  OBVIOUS
<1>4. Total(F, S) \in Int
  BY <1>1, TotalSums
<1>5. z * Total(F, S) = 0
  BY <1>4
<1> HIDE DEF z
<1>6. Eq(Total(F, S), z * Total(F, S))
  BY <1>1, <1>2, <1>3, SumScaled
<1>7. QED BY <1>5, <1>6

\* The sum of the rows' sums is that of the columns'.
LEMMA SumsSwap ==
  ASSUME NEW S, S \subseteq Nat, NEW M \in [S -> [S -> Int]]
  PROVE  Eq(Total([i \in S |-> Total([j \in S |-> M[i][j]], S)], S),
            Total([j \in S |-> Total([i \in S |-> M[i][j]], S)], S))
<1> DEFINE Row(i) == Total([j \in S |-> M[i][j]], S)
           Column(j) == [i \in S |-> M[i][j]]
           Upto(j, n) == PartialSums(Column(j), S)[n]
           rows == [i \in S |-> Row(i)]
           columns == [j \in S |-> Total(Column(j), S)]
           Line(n) == [j \in S |-> Upto(j, n)]
           G == [n \in Nat |-> Total(Line(n), S)]
<1>1. ASSUME NEW i \in S PROVE Ints([j \in S |-> M[i][j]], S) /\ Ints(Column(i), S)
  BY DEF Ints
<1>2. \A i \in S : Row(i) \in Int
  BY <1>1, TotalSums
<1>3. ASSUME NEW j \in S
      PROVE  /\ \A n \in Nat : Upto(j, n) \in Int
             /\ \A n \in Nat : Upto(j, n) = (IF n = 0 THEN 0 ELSE Upto(j, n - 1)) + (IF n \in S THEN M[n][j] ELSE 0)
             /\ Eq(Upto(j, Size), Total(Column(j), S))
  <2>1. Ints(Column(j), S)
    BY <1>1
  <2>2. \A n \in S : Column(j)[n] = M[n][j]
    OBVIOUS
  <2> DEFINE C == Column(j)
  <2> HIDE DEF C
  <2>3. PartialSums(C, S) \in [Nat -> Int] /\ AddUp(PartialSums(C, S), C, S)
    BY <2>1, PartialSumsRecursive DEF C
  <2>4. PartialSums(C, S)[Size] \in Int /\ Div(PartialSums(C, S)[Size] - Total(C, S)) /\ Total(C, S) \in Int
    BY <2>1, TotalSums DEF C
  <2>5. \A n \in Nat : PartialSums(C, S)[n] = 
                          (IF n = 0 THEN 0 ELSE PartialSums(C, S)[n - 1]) + (IF n \in S THEN M[n][j] ELSE 0)
    BY <2>2, <2>3 DEF AddUp, C
  <2>6. QED BY <2>3, <2>4, <2>5 DEF Eq, C
<1>4. \A n \in Nat : \A j \in S : Line(n)[j] = Upto(j, n)
  OBVIOUS
<1>5. \A j \in S : columns[j] = Total(Column(j), S)
  OBVIOUS
<1>6. \A i \in S : rows[i] = Row(i)
  OBVIOUS
<1>7. \A n \in Nat : G[n] = Total(Line(n), S)
  OBVIOUS
<1>8. G = [n \in Nat |-> G[n]]
  OBVIOUS
<1> HIDE DEF Upto, Column, columns, G, Row
<1>9. \A n \in Nat : Ints(Line(n), S)
  BY <1>3, <1>4 DEF Ints
<1> HIDE DEF Line
<1>10. \A n \in Nat : Total(Line(n), S) \in Int
  BY <1>9, TotalSums
<1>11. G \in [Nat -> Int]
  BY <1>7, <1>8, <1>10
<1>12. ASSUME NEW n \in 0 .. Size
       PROVE  Div(G[n] - ((IF n = 0 THEN 0 ELSE G[n - 1]) + (IF n \in S THEN rows[n] ELSE 0)))
  <2> DEFINE before == [j \in S |-> IF n = 0 THEN 0 ELSE Upto(j, n - 1)]
             added == [j \in S |-> IF n \in S THEN M[n][j] ELSE 0]
             x == IF n = 0 THEN 0 ELSE G[n - 1]
             y == IF n \in S THEN rows[n] ELSE 0
             one == 1
  <2>1. n \in Nat /\ (n # 0 => n - 1 \in Nat) /\ one \in Int
    BY Sizes
  <2>2. \A j \in S : before[j] = IF n = 0 THEN 0 ELSE Upto(j, n - 1)
    OBVIOUS
  <2>3. \A j \in S : added[j] = IF n \in S THEN M[n][j] ELSE 0
    OBVIOUS
  <2>4. n \in S => added = [j \in S |-> M[n][j]]
    OBVIOUS
  <2> HIDE DEF before, added
  <2>5. Ints(before, S) /\ Ints(added, S)
    BY <1>3, <2>1, <2>2, <2>3 DEF Ints
  <2>6. \A j \in S : Line(n)[j] = before[j] + added[j]
    BY <1>3, <1>4, <2>1, <2>2, <2>3
  <2>7. \A j \in S : Eq(Line(n)[j], one * before[j] + one * added[j])
    <3> SUFFICES ASSUME NEW j \in S PROVE Eq(Line(n)[j], one * before[j] + one * added[j])
      OBVIOUS
    <3>1. before[j] \in Int /\ added[j] \in Int
      BY <2>5 DEF Ints
    <3>2. Line(n)[j] \in Int /\ Line(n)[j] = one * before[j] + one * added[j]
      BY <2>6, <3>1
    <3>3. QED BY <3>2, EqRefl
  <2>8. Total(before, S) \in Int /\ Total(added, S) \in Int
    BY <2>5, TotalSums
  <2> HIDE DEF one
  <2>9. Eq(Total(Line(n), S), one * Total(before, S) + one * Total(added, S))
    BY <2>1, <2>5, <2>7, SumLinear
  <2>10. one * Total(before, S) + one * Total(added, S) = Total(before, S) + Total(added, S)
    BY <2>8 DEF one
  <2>11. Eq(Total(before, S), x)
    <3>1. CASE n = 0
      <4>1. \A j \in S : Eq(before[j], 0)
        BY <2>2, <3>1, EqRefl
      <4>2. x = 0
        BY <3>1
      <4>3. QED BY <4>1, <4>2, SumZero
    <3>2. CASE n # 0
      <4>1. n - 1 \in Nat /\ x = Total(Line(n - 1), S)
        BY <1>7, <2>1, <3>2
      <4>2. \A j \in S : Line(n - 1)[j] = before[j]
        BY <1>4, <2>2, <3>2, <4>1
      <4>3. \A j \in S : Eq(before[j], Line(n - 1)[j])
        BY <2>5, <4>2, EqRefl DEF Ints
      <4>4. QED BY <4>1, <4>3, SumsEqual
    <3>3. QED BY <3>1, <3>2
  <2>12. Eq(Total(added, S), y)
    <3>1. CASE n \in S
      <4>1. y = Total(added, S)
        BY <1>6, <2>4, <3>1 DEF Row
      <4>2. QED BY <2>8, <4>1, EqRefl
    <3>2. CASE n \notin S
      <4>1. \A j \in S : Eq(added[j], 0)
        BY <2>3, <3>2, EqRefl
      <4>2. y = 0
        BY <3>2
      <4>3. QED BY <4>1, <4>2, SumZero
    <3>3. QED BY <3>1, <3>2
  <2> HIDE DEF x, y
  <2>13. Eq(Total(before, S) + Total(added, S), x + y)
    BY <2>11, <2>12, EqSum
  <2>14. Eq(G[n], x + y)
    BY <1>7, <2>1, <2>9, <2>10, <2>13, EqTrans
  <2>15. QED BY <2>14 DEF Eq, x, y
<1>13. Ints(rows, S)
  BY <1>2, <1>6 DEF Ints
<1> HIDE DEF rows
<1>14. Eq(Total(rows, S), G[Size])
  <2>1. Div(Total(rows, S) - G[Size])
    BY <1>11, <1>12, <1>13, TotalIs
  <2>2. Total(rows, S) \in Int /\ G[Size] \in Int
    BY <1>11, <1>13, TotalSums, Sizes
  <2>3. QED BY <2>1, <2>2 DEF Eq
<1>15. Size \in Nat
  BY Sizes
<1>16. \A j \in S : Eq(Line(Size)[j], columns[j])
  BY <1>3, <1>4, <1>5, <1>15
<1>17. Eq(G[Size], Total(columns, S))
  BY <1>7, <1>15, <1>16, SumsEqual
<1>18. Eq(Total(rows, S), Total(columns, S))
  BY <1>14, <1>17, EqTrans
<1>19. QED BY <1>18 DEF rows, columns, Row, Column

\* A regular system has one solution at most: the solver's.
LEMMA SolutionUnique ==
  ASSUME NEW S, S \subseteq Nat, \A n \in S : n <= Size, NEW A \in [S -> [S -> Int]], Regular(A, S),
         NEW y \in [S -> Field], NEW b, b = Apply(A, y, S)
  PROVE  Solution(A, b, S) = y
<1> DEFINE B == Inverted(A, S)
           x == Solution(A, b, S)
<1>1. /\ B \in [S -> [S -> Field]]
      /\ \A j \in S : Apply(B, [i \in S |-> A[i][j]], S) = [i \in S |-> IF i = j THEN 1 ELSE 0]
  BY DEF Regular
<1>2. x = [r \in S |-> Total([i \in S |-> B[r][i] * b[i]], S)]
  BY DEF Solution, Apply
<1>3. ASSUME NEW r \in S, NEW j \in S
      PROVE  Total([i \in S |-> B[r][i] * A[i][j]], S) = IF r = j THEN 1 ELSE 0
  <2> DEFINE D == [i \in S |-> A[i][j]]
  <2> HIDE DEF B
  <2>1. Apply(B, D, S)[r] = Total([i \in S |-> B[r][i] * D[i]], S)
    BY DEF Apply
  <2>2. [i \in S |-> B[r][i] * D[i]] = [i \in S |-> B[r][i] * A[i][j]]
    OBVIOUS
  <2>3. Apply(B, D, S) = [i \in S |-> IF i = j THEN 1 ELSE 0]
    BY <1>1
  <2>4. Apply(B, D, S)[r] = IF r = j THEN 1 ELSE 0
    BY <2>3
  <2>5. QED BY <2>1, <2>2, <2>4
<1>4. \A i \in S : b[i] = Total([j \in S |-> A[i][j] * y[j]], S)
  BY DEF Apply
<1>5. \A r, i \in S : B[r][i] \in Int
  BY <1>1, FieldInt
<1>6. \A i, j \in S : A[i][j] \in Int /\ y[j] \in Int /\ y[j] \in Field
  BY FieldInt
<1> HIDE DEF B, x
<1>7. ASSUME NEW r \in S PROVE x[r] = y[r]
  <2> DEFINE M == [i \in S |-> [j \in S |-> B[r][i] * (A[i][j] * y[j])]]
             rows == [i \in S |-> Total([j \in S |-> M[i][j]], S)]
             columns == [j \in S |-> Total([i \in S |-> M[i][j]], S)]
             X == [i \in S |-> B[r][i] * b[i]]
  <2>1. \A i, j \in S : M[i][j] = B[r][i] * (A[i][j] * y[j]) /\ M[i][j] \in Int
    BY <1>5, <1>6
  <2>2. M \in [S -> [S -> Int]]
    BY <2>1
  <2> HIDE DEF M
  <2>3. Eq(Total(rows, S), Total(columns, S))
    BY <2>2, SumsSwap
  <2>4. ASSUME NEW i \in S PROVE Eq(X[i], rows[i])
    <3> DEFINE F == [j \in S |-> A[i][j] * y[j]]
               h == [j \in S |-> M[i][j]]
               a == B[r][i]
    <3>1. \A j \in S : F[j] = A[i][j] * y[j] /\ h[j] = M[i][j] /\ F[j] \in Int
      BY <1>6
    <3>2. b[i] = Total(F, S) /\ rows[i] = Total(h, S) /\ X[i] = a * b[i] /\ a \in Int
      BY <1>4, <1>5
    <3> HIDE DEF F, h, a, X, rows
    <3>3. Ints(F, S)
      BY <3>1 DEF Ints
    <3>4. \A j \in S : Eq(h[j], a * F[j])
      <4> SUFFICES ASSUME NEW j \in S PROVE Eq(h[j], a * F[j])
        OBVIOUS
      <4>1. h[j] = a * F[j] /\ h[j] \in Int
        BY <2>1, <3>1 DEF a
      <4>2. QED BY <4>1, EqRefl
    <3>5. Eq(Total(h, S), a * Total(F, S))
      BY <3>2, <3>3, <3>4, SumScaled
    <3>6. QED BY <3>2, <3>5, EqSym
  <2>5. Eq(Total(X, S), Total(rows, S))
    <3> HIDE DEF X, rows
    <3>1. QED BY <2>4, SumsEqual
  <2>6. ASSUME NEW j \in S PROVE Eq(columns[j], IF r = j THEN y[j] ELSE 0)
    <3> DEFINE F == [i \in S |-> B[r][i] * A[i][j]]
               h == [i \in S |-> M[i][j]]
               a == y[j]
    <3>1. \A i \in S : F[i] = B[r][i] * A[i][j] /\ h[i] = M[i][j] /\ F[i] \in Int
      BY <1>5, <1>6
    <3>2. columns[j] = Total(h, S) /\ Total(F, S) = (IF r = j THEN 1 ELSE 0) /\ a \in Int
      BY <1>3, <1>6
    <3> HIDE DEF F, h, a, columns
    <3>3. Ints(F, S)
      BY <3>1 DEF Ints
    <3>4. \A i \in S : Eq(h[i], a * F[i])
      <4> SUFFICES ASSUME NEW i \in S PROVE Eq(h[i], a * F[i])
        OBVIOUS
      <4> DEFINE u == B[r][i]
                 v == A[i][j]
      <4>1. u \in Int /\ v \in Int /\ h[i] = u * (v * a) /\ F[i] = u * v /\ h[i] \in Int
        BY <1>5, <1>6, <2>1, <3>1 DEF a
      <4> HIDE DEF u, v
      <4>2. h[i] = a * F[i]
        BY <3>2, <4>1
      <4>3. QED BY <4>1, <4>2, EqRefl
    <3>5. Eq(Total(h, S), a * Total(F, S))
      BY <3>2, <3>3, <3>4, SumScaled
    <3>6. a * Total(F, S) = IF r = j THEN y[j] ELSE 0
      BY <3>2 DEF a
    <3>7. QED BY <3>2, <3>5, <3>6
  <2>7. Eq(Total(columns, S), y[r])
    <3> HIDE DEF columns
    <3>1. Ints(columns, S) /\ \A j \in S \ {r} : Div(columns[j])
      <4>1. ASSUME NEW j \in S PROVE columns[j] \in Int /\ (j # r => Div(columns[j]))
        <5>1. Eq(columns[j], IF r = j THEN y[j] ELSE 0)
          BY <2>6
        <5>2. CASE j = r
          BY <5>1, <5>2 DEF Eq
        <5>3. CASE j # r
          <6>1. columns[j] \in Int /\ Div(columns[j] - 0)
            BY <5>1, <5>3 DEF Eq
          <6>2. columns[j] - 0 = columns[j]
            BY <6>1
          <6>3. QED BY <6>1, <6>2
        <5>4. QED BY <5>2, <5>3
      <4>2. QED BY <4>1 DEF Ints
    <3>2. Div(Total(columns, S) - columns[r])
      BY <3>1, TotalOne
    <3>3. Total(columns, S) \in Int /\ columns[r] \in Int
      BY <3>1, TotalSums DEF Ints
    <3>4. Eq(Total(columns, S), columns[r])
      BY <3>2, <3>3 DEF Eq
    <3>5. Eq(columns[r], y[r])
      BY <2>6
    <3>6. QED BY <3>4, <3>5, EqTrans
  <2>8. x[r] = Total(X, S)
    BY <1>2
  <2>9. Eq(x[r], y[r])
    <3> HIDE DEF X, rows, columns
    <3>1. QED BY <2>3, <2>5, <2>7, <2>8, EqTrans
  <2>10. x[r] \in Field
    <3> HIDE DEF X, rows, columns
    <3>1. QED BY <2>4, <2>8, SumsEqual
  <2>11. QED BY <1>6, <2>9, <2>10, EqField
<1>8. x = [r \in S |-> x[r]]
  BY <1>2
<1>9. QED BY <1>7, <1>8 DEF x

\* A sum of a prefix, by the prefix that is one term shorter.
LEMMA PrefixSum ==
  ASSUME NEW n \in 1 .. Size, NEW F, Ints(F, 1 .. n), NEW g, Ints(g, 1 .. n - 1),
         \A l \in 1 .. n - 1 : g[l] = F[l]
  PROVE  Eq(Total(F, 1 .. n), Total(g, 1 .. n - 1) + F[n])
<1> DEFINE S == 1 .. n
           T == 1 .. n - 1
           H == PartialSums(F, S)
           p == n - 1
           o == 0
<1>1. /\ n \in Nat /\ p \in Nat /\ n <= Size /\ p <= Size
      /\ n \in S /\ S \subseteq Nat /\ T \subseteq Nat /\ Size \in Nat
  BY Sizes
<1>2. H \in [Nat -> Int] /\ AddUp(H, F, S)
  BY <1>1, PartialSumsRecursive
<1> HIDE DEF H
<1>3. ASSUME NEW l \in S PROVE H[l] = H[l - 1] + F[l] /\ F[l] \in Int /\ H[l - 1] \in Int /\ H[l] \in Int
  <2>1. l \in Nat /\ l # 0 /\ l - 1 \in Nat
    BY <1>1
  <2>2. H[l] = (IF l = 0 THEN 0 ELSE H[l - 1]) + (IF l \in S THEN F[l] ELSE 0)
    BY <1>2, <2>1 DEF AddUp
  <2>3. QED BY <1>2, <2>1, <2>2 DEF Ints
<1>4. \A l \in S : Div(H[l] - H[l - 1] - F[l])
  <2> SUFFICES ASSUME NEW l \in S PROVE Div(H[l] - H[l - 1] - F[l])
    OBVIOUS
  <2>1. H[l] - H[l - 1] - F[l] = 0
    BY <1>3
  <2>2. QED BY <2>1, DivZero
<1>5. \A l \in T : Div(H[l] - H[l - 1] - g[l])
  <2> SUFFICES ASSUME NEW l \in T PROVE Div(H[l] - H[l - 1] - g[l])
    OBVIOUS
  <2>1. l \in S /\ g[l] = F[l]
    BY <1>1
  <2>2. QED BY <1>4, <2>1
<1>6. /\ S = {l \in Nat : o < l /\ l <= n} /\ T = {l \in Nat : o < l /\ l <= p}
      /\ o \in Nat /\ o <= n /\ o <= p /\ Ints(F, S) /\ Ints(g, T)
  BY <1>1
<1> HIDE DEF S, T, o
<1>7. Div(Total(F, S) - (H[n] - H[o]))
  BY <1>1, <1>2, <1>4, <1>6, TotalTelescopes
<1>8. Div(Total(g, T) - (H[p] - H[o]))
  BY <1>1, <1>2, <1>5, <1>6, TotalTelescopes
<1>9. Total(F, S) \in Int /\ Total(g, T) \in Int
  BY <1>1, <1>6, TotalSums
<1>10. H[n] = H[p] + F[n] /\ F[n] \in Int /\ H[p] \in Int /\ H[o] \in Int
  BY <1>1, <1>2, <1>3, <1>6
<1> DEFINE a == Total(F, S)
           b == Total(g, T)
           x == a - (H[n] - H[o])
           y == b - (H[p] - H[o])
           z == a - (b + F[n])
<1>11. x \in Int /\ y \in Int /\ z \in Int /\ z = x - y /\ Div(x) /\ Div(y)
  BY <1>7, <1>8, <1>9, <1>10, SMTT(30)
<1>12. a \in Int /\ b + F[n] \in Int
  BY <1>9, <1>10
<1> HIDE DEF x, y, z
<1>13. Div(z)
  BY <1>11, DivSum
<1>14. QED BY <1>12, <1>13 DEF z, Eq, S, T

\* A sum of no terms.
LEMMA PrefixNone == ASSUME NEW n \in Int, n <= 0, NEW F PROVE Eq(Total(F, 1 .. n), 0)
<1>1. 1 .. n \subseteq Nat /\ \A l \in 1 .. n : Eq(F[l], 0)
  OBVIOUS
<1>2. QED BY <1>1, SumZero

\* Members of the field but zero have reciprocals.
LEMMA Reciprocals ==
  ASSUME NEW x \in Field, x # 0
  PROVE  Reciprocal(x) \in Field /\ Reciprocal(x) \in Int /\ Eq(x * Reciprocal(x), 1)
<1> DEFINE r == Reciprocal(x)
           y == x * r
<1>1. x \in 1 .. P - 1 /\ x \in Int
  BY Sizes DEF Field
<1>2. \E u \in Field : ((x * u) % P) = 1
  BY <1>1, FieldAssumption
<1>3. r \in Field /\ ((x * r) % P) = 1
  BY <1>2 DEF Reciprocal
<1>4. r \in Int
  BY <1>3, FieldInt
<1> HIDE DEF r
<1>5. y \in Int /\ (y % P) = 1
  BY <1>1, <1>3, <1>4
<1> HIDE DEF y
<1>6. Eq(1, y)
  BY <1>5, EqMod
<1>7. QED BY <1>3, <1>4, <1>6, EqSym DEF r, y

---------------------------------------------------------------------------
(* The finite element solution by its flux                                 *)

\* The problem: a coefficient without zeros, a source, the boundary data.
Problem(K, F, b) ==
  /\ K \in [Entities -> 1 .. P - 1] /\ F \in [Entities -> Int]
  /\ b \in [value : [Ends -> Field], neumann : [Ends -> Field], dirichlet : (SUBSET Ends) \ {{}}, sub : SubInfos]

\* The integral of the source up to the middle of micro cell m.
LEMMA InflowIs ==
  ASSUME NEW F \in [Entities -> Int]
  PROVE  /\ \A m \in Entities : Inflow(F, m) \in Int
         /\ Eq(Inflow(F, 1), 0)
         /\ \A m \in Entities : m + 1 \in Entities => Eq(Inflow(F, m + 1), Inflow(F, m) + (F[m] + F[m + 1]))
<1> DEFINE Terms(m) == [l \in 1 .. m - 1 |-> F[l] + F[l + 1]]
<1>1. \A m \in Entities : Inflow(F, m) = Total(Terms(m), 1 .. m - 1)
  BY DEF Inflow
<1>2. \A m \in Entities : m \in 1 .. Size /\ m \in Nat
  BY Grid, Sizes
<1>3. ASSUME NEW m \in Entities PROVE Ints(Terms(m), 1 .. m - 1)
  <2>1. \A l \in 1 .. m - 1 : l \in Entities /\ l + 1 \in Entities
    BY <1>2, Grid, Sizes
  <2>2. QED BY <2>1 DEF Ints
<1>4. \A m \in Entities : \A l \in 1 .. m - 1 : Terms(m)[l] = F[l] + F[l + 1]
  OBVIOUS
<1> HIDE DEF Terms
<1>5. ASSUME NEW m \in Entities PROVE Inflow(F, m) \in Int
  <2>1. 1 .. m - 1 \subseteq Nat
    BY <1>2
  <2>2. QED BY <1>1, <1>3, <2>1, TotalSums
<1>6. Eq(Inflow(F, 1), 0)
  <2> DEFINE n == 1 - 1
  <2>1. 1 \in Entities /\ n \in Int /\ n <= 0
    BY Grid, Sizes
  <2>2. Inflow(F, 1) = Total(Terms(1), 1 .. n)
    BY <1>1, <2>1
  <2> HIDE DEF n
  <2>3. QED BY <2>1, <2>2, PrefixNone
<1>7. ASSUME NEW m \in Entities, m + 1 \in Entities
      PROVE  Eq(Inflow(F, m + 1), Inflow(F, m) + (F[m] + F[m + 1]))
  <2> DEFINE q == m + 1
             h == Terms(q)
             g == Terms(m)
  <2>1. q - 1 = m /\ m \in 1 .. Size /\ q \in Entities /\ m \in 1 .. m
    BY <1>2, <1>7
  <2>2. Inflow(F, q) = Total(h, 1 .. m) /\ Ints(h, 1 .. m) /\ \A l \in 1 .. m : h[l] = F[l] + F[l + 1]
    BY <1>1, <1>3, <1>4, <2>1
  <2>3. Inflow(F, m) = Total(g, 1 .. m - 1) /\ Ints(g, 1 .. m - 1) /\ \A l \in 1 .. m - 1 : g[l] = F[l] + F[l + 1]
    BY <1>1, <1>3, <1>4
  <2> HIDE DEF h, g
  <2>4. \A l \in 1 .. m - 1 : g[l] = h[l]
    BY <1>2, <2>2, <2>3
  <2>5. Eq(Total(h, 1 .. m), Total(g, 1 .. m - 1) + h[m])
    BY <2>1, <2>2, <2>3, <2>4, PrefixSum
  <2>6. h[m] = F[m] + F[m + 1]
    BY <2>1, <2>2
  <2>7. QED BY <2>2, <2>3, <2>5, <2>6
<1>8. QED BY <1>5, <1>6, <1>7

\* The differences of the rise are the fluxes divided by the coefficient.
LEMMA RiseIs ==
  ASSUME NEW K \in [Entities -> 1 .. P - 1], NEW F \in [Entities -> Int], NEW J \in Int
  PROVE  /\ \A n \in Nodes : Rise(K, F, J, n) \in Int
         /\ Eq(Rise(K, F, J, 0), 0)
         /\ \A e \in Entities : Eq(K[e] * (Rise(K, F, J, e) - Rise(K, F, J, e - 1)), J - Inflow(F, e))
<1> DEFINE Terms(n) == [m \in 1 .. n |-> (J - Inflow(F, m)) * Reciprocal(K[m])]
<1>1. \A n \in Nodes : Rise(K, F, J, n) = Total(Terms(n), 1 .. n)
  BY DEF Rise
<1>2. \A n \in Nodes : n \in Nat /\ n <= Size
  BY Grid, Sizes
<1>3. \A e \in Entities : e \in 1 .. Size /\ e \in Nat /\ e - 1 \in Nodes /\ e \in Nodes
  BY Grid, Sizes
<1>4. ASSUME NEW e \in Entities
      PROVE  /\ K[e] \in Int /\ Reciprocal(K[e]) \in Int /\ Inflow(F, e) \in Int
             /\ Eq(K[e] * Reciprocal(K[e]), 1)
  <2>1. K[e] \in Field /\ K[e] # 0
    BY Sizes DEF Field
  <2>2. QED BY <2>1, InflowIs, Reciprocals, FieldInt
<1>5. ASSUME NEW n \in Nodes
      PROVE  /\ 1 .. n \subseteq Entities /\ 1 .. n \subseteq Nat
             /\ \A m \in 1 .. n : Terms(n)[m] = (J - Inflow(F, m)) * Reciprocal(K[m])
             /\ Ints(Terms(n), 1 .. n)
  <2>1. 1 .. n \subseteq Entities /\ 1 .. n \subseteq Nat
    BY <1>2, Grid, Sizes
  <2>2. \A m \in 1 .. n : Terms(n)[m] = (J - Inflow(F, m)) * Reciprocal(K[m])
    OBVIOUS
  <2> HIDE DEF Terms
  <2>3. \A m \in 1 .. n : Terms(n)[m] \in Int
    <3> SUFFICES ASSUME NEW m \in 1 .. n PROVE Terms(n)[m] \in Int
      OBVIOUS
    <3>1. Inflow(F, m) \in Int /\ Reciprocal(K[m]) \in Int
      BY <1>4, <2>1
    <3>2. (J - Inflow(F, m)) * Reciprocal(K[m]) \in Int
      BY <3>1
    <3>3. QED BY <2>2, <3>2
  <2>4. QED BY <2>1, <2>2, <2>3 DEF Ints
<1> HIDE DEF Terms
<1>6. \A n \in Nodes : Rise(K, F, J, n) \in Int
  BY <1>1, <1>5, TotalSums
<1>7. Eq(Rise(K, F, J, 0), 0)
  <2> DEFINE z == 0
  <2>1. z \in Nodes /\ z \in Int /\ z <= 0
    BY Grid, Sizes
  <2> HIDE DEF z
  <2>2. Eq(Rise(K, F, J, z), 0)
    BY <1>1, <2>1, PrefixNone
  <2>3. QED BY <2>2 DEF z
<1>8. ASSUME NEW e \in Entities
      PROVE  Eq(K[e] * (Rise(K, F, J, e) - Rise(K, F, J, e - 1)), J - Inflow(F, e))
  <2> DEFINE p == e - 1
             a == Rise(K, F, J, e)
             b == Rise(K, F, J, p)
             r == Reciprocal(K[e])
             d == J - Inflow(F, e)
             t == Terms(e)[e]
             g == Terms(p)
             h == Terms(e)
             c == K[e]
  <2>1. e \in 1 .. Size /\ e \in Nodes /\ p \in Nodes /\ e \in 1 .. e /\ e \in Nat
    BY <1>3
  <2>2. \A m \in 1 .. p : m \in 1 .. e
    BY <2>1
  <2>3. \A m \in 1 .. p : g[m] = h[m]
    BY <1>5, <2>1, <2>2
  <2>4. Ints(g, 1 .. p) /\ Ints(h, 1 .. e) /\ a = Total(h, 1 .. e) /\ b = Total(g, 1 .. p)
    BY <1>1, <1>5, <2>1
  <2>5. t = d * r /\ d \in Int /\ r \in Int /\ c \in Int /\ a \in Int /\ b \in Int /\ Eq(c * r, 1)
    BY <1>4, <1>5, <1>6, <2>1, SMTT(30)
  <2> HIDE DEF g, h
  <2>6. Eq(Total(h, 1 .. e), Total(g, 1 .. p) + h[e])
    BY <2>1, <2>3, <2>4, PrefixSum
  <2>7. Eq(a, b + t)
    BY <2>4, <2>6 DEF h
  <2> HIDE DEF a, b, d, r, t, c
  <2>8. Eq(a - b, (b + t) - b) /\ (b + t) - b = t
    <3>1. Eq(b, b) /\ t \in Int
      BY <2>5, EqRefl
    <3>2. (b + t) - b = t
      BY <2>5, <3>1
    <3>3. Eq(a - b, (b + t) - b)
      BY <2>7, <3>1, EqSum
    <3>4. QED BY <3>2, <3>3
  <2>9. Eq(c * (a - b), c * t)
    BY <2>5, <2>8, EqRefl, EqTimes
  <2>10. c * t = d * (c * r) /\ d * 1 = d
    BY <2>5
  <2>11. Eq(d * (c * r), d * 1)
    BY <2>5, EqRefl, EqTimes
  <2>12. Eq(c * (a - b), d)
    BY <2>9, <2>10, <2>11, EqTrans
  <2>13. QED BY <2>12 DEF a, b, c, d, p
<1>9. QED BY <1>6, <1>7, <1>8

\* The ends of the interval belong to its first and its last micro cell.
LEMMA LastEntity == Max(Entities) = Size /\ Size \in Entities /\ 1 \in Entities /\ Ends = {0, Size} /\ 0 # Size
<1>1. Size \in Entities /\ 1 \in Entities /\ \A y \in Entities : Size >= y /\ y \in Nat
  BY Grid, Sizes
<1>2. \A x \in Entities : (\A y \in Entities : x >= y) => x = Size
  BY <1>1, Sizes
<1>3. Ends = {0, Size} /\ 0 # Size
  BY Sizes DEF Ends, Size
<1>4. QED BY <1>1, <1>2, <1>3 DEF Max

\* The rise over the whole interval depends on the first flux linearly.
LEMMA RiseLinear ==
  ASSUME NEW K \in [Entities -> 1 .. P - 1], NEW F \in [Entities -> Int], NEW J \in Int
  PROVE  LET T == Total([m \in Entities |-> Reciprocal(K[m])], Entities)
         IN T \in Field /\ Eq(Rise(K, F, J, Size), Rise(K, F, 0, Size) + J * T)
<1> DEFINE r == [m \in Entities |-> Reciprocal(K[m])]
           T == Total(r, Entities)
           h == [m \in 1 .. Size |-> (J - Inflow(F, m)) * Reciprocal(K[m])]
           g == [m \in 1 .. Size |-> (0 - Inflow(F, m)) * Reciprocal(K[m])]
           one == 1
<1>1. Entities = 1 .. Size /\ 1 .. Size \subseteq Nat /\ one \in Int
  BY Grid, Sizes
<1>2. Rise(K, F, J, Size) = Total(h, Entities) /\ Rise(K, F, 0, Size) = Total(g, Entities)
  BY <1>1 DEF Rise
<1>3. ASSUME NEW m \in Entities PROVE Reciprocal(K[m]) \in Int /\ Inflow(F, m) \in Int
  <2>1. K[m] \in Field /\ K[m] # 0
    BY Sizes DEF Field
  <2>2. QED BY <2>1, InflowIs, Reciprocals
<1>4. ASSUME NEW m \in Entities
      PROVE  r[m] = Reciprocal(K[m]) /\ h[m] = (J - Inflow(F, m)) * Reciprocal(K[m])
             /\ g[m] = (0 - Inflow(F, m)) * Reciprocal(K[m])
  BY <1>1
<1> HIDE DEF r, h, g, T
<1>5. ASSUME NEW m \in Entities
      PROVE  r[m] \in Int /\ g[m] \in Int /\ Eq(h[m], one * g[m] + J * r[m])
  <2> DEFINE x == Reciprocal(K[m])
             y == Inflow(F, m)
             z == J - y
             u == 0 - y
  <2>1. x \in Int /\ y \in Int
    BY <1>3
  <2>2. r[m] = x /\ h[m] = z * x /\ g[m] = u * x
    BY <1>4
  <2> HIDE DEF x, y
  <2>3. z \in Int /\ u \in Int /\ z = u + J
    BY <2>1
  <2> HIDE DEF z, u
  <2>4. z * x = u * x + J * x /\ u * x \in Int /\ J * x \in Int
    BY <2>1, <2>3
  <2>5. h[m] \in Int /\ h[m] = one * g[m] + J * r[m] /\ r[m] \in Int /\ g[m] \in Int
    BY <2>1, <2>2, <2>4
  <2>6. QED BY <2>5, EqRefl
<1>6. Ints(g, Entities) /\ Ints(r, Entities)
  BY <1>5 DEF Ints
<1> HIDE DEF one
<1>7. Eq(Total(h, Entities), one * Total(g, Entities) + J * Total(r, Entities))
  BY <1>1, <1>5, <1>6, SumLinear
<1>8. Total(g, Entities) \in Int /\ Total(r, Entities) \in Field
  BY <1>1, <1>6, TotalSums
<1>9. one * Total(g, Entities) = Total(g, Entities)
  BY <1>8 DEF one
<1>10. QED BY <1>2, <1>7, <1>8, <1>9 DEF T, r

\* The finite element solution: the fluxes of its micro cells fall by the
\* source between them, and it has the given values and fluxes at the ends.
LEMMA FineFits ==
  ASSUME NEW K, NEW F, NEW b, Problem(K, F, b),
         b.dirichlet = Ends => Total([m \in Entities |-> Reciprocal(K[m])], Entities) # 0
  PROVE  LET u == FineSolution(K, F, b)
         IN /\ u \in [Nodes -> Field]
            /\ \A n \in b.dirichlet : u[n] = b.value[n]
            /\ \E J \in Int :
                 /\ \A e \in Entities : Eq(K[e] * (u[e] - u[e - 1]), J - Inflow(F, e))
                 /\ 0 \notin b.dirichlet => J = 0 - F[1] - b.value[0]
                 /\ Size \notin b.dirichlet => J = Inflow(F, Size) + F[Size] + b.value[Size]
<1> DEFINE D == b.dirichlet
           v == b.value
           T == Total([m \in Entities |-> Reciprocal(K[m])], Entities)
           R == Reciprocal(T)
           J == IF D = Ends THEN (v[Size] - v[0] - Rise(K, F, 0, Size)) * R
                ELSE IF 0 \in D THEN Inflow(F, Size) + F[Size] + v[Size]
                ELSE 0 - F[1] - v[0]
           start == IF 0 \in D THEN v[0] ELSE v[Size] - Rise(K, F, J, Size)
           u == FineSolution(K, F, b)
<1>1. u = [n \in Nodes |-> (start + Rise(K, F, J, n)) % P]
  BY LastEntity DEF FineSolution
<1>2. /\ K \in [Entities -> 1 .. P - 1] /\ F \in [Entities -> Int] /\ v[0] \in Field /\ v[Size] \in Field
      /\ v[0] \in Int /\ v[Size] \in Int
      /\ D \subseteq {0, Size} /\ D # {} /\ Ends = {0, Size} /\ Size \in Entities /\ 1 \in Entities
      /\ 0 \in Nodes /\ Size \in Nodes
  <2>1. Ends = {0, Size} /\ Size \in Entities /\ 1 \in Entities
    BY LastEntity
  <2>2. 0 \in Nodes /\ Size \in Nodes
    BY Grid, Sizes
  <2>3. /\ K \in [Entities -> 1 .. P - 1] /\ F \in [Entities -> Int]
        /\ v \in [Ends -> Field] /\ D \in (SUBSET Ends) \ {{}}
    BY DEF Problem
  <2>4. v[0] \in Field /\ v[Size] \in Field
    BY <2>1, <2>3
  <2>5. v[0] \in Int /\ v[Size] \in Int
    BY <2>4, FieldInt
  <2>6. QED BY <2>1, <2>2, <2>3, <2>4, <2>5
<1>3. \A e \in Entities : e \in Nodes /\ e - 1 \in Nodes /\ K[e] \in Int /\ F[e] \in Int /\ Inflow(F, e) \in Int
  <2>1. \A e \in Entities : e \in Nodes /\ e - 1 \in Nodes
    BY Grid, Sizes
  <2>2. \A e \in Entities : K[e] \in Int /\ F[e] \in Int
    BY <1>2, Sizes
  <2>3. \A e \in Entities : Inflow(F, e) \in Int
    BY <1>2, InflowIs
  <2>4. QED BY <2>1, <2>2, <2>3
<1>4. T \in Field /\ \A I \in Int : Eq(Rise(K, F, I, Size), Rise(K, F, 0, Size) + I * T)
  BY <1>2, RiseLinear
<1>5. D = Ends => T # 0 /\ R \in Int /\ Eq(T * R, 1)
  BY <1>4, Reciprocals
<1>6. \A I \in Int : /\ \A n \in Nodes : Rise(K, F, I, n) \in Int
                     /\ Eq(Rise(K, F, I, 0), 0)
                     /\ \A e \in Entities : Eq(K[e] * (Rise(K, F, I, e) - Rise(K, F, I, e - 1)), I - Inflow(F, e))
  BY <1>2, RiseIs
<1>7. Rise(K, F, 0, Size) \in Int /\ T \in Int
  BY <1>2, <1>4, <1>6, FieldInt
<1> HIDE DEF T, R, u
<1>8. J \in Int
  <2>1. CASE D = Ends
    <3>1. R \in Int /\ v[Size] - v[0] - Rise(K, F, 0, Size) \in Int
      BY <1>2, <1>5, <1>7, <2>1
    <3>2. QED BY <2>1, <3>1
  <2>2. CASE D # Ends
    BY <1>2, <1>3, <2>2
  <2>3. QED BY <2>1, <2>2
<1>9. start \in Int
  BY <1>2, <1>6, <1>8
<1>10. /\ 0 \notin D => J = 0 - F[1] - v[0]
       /\ Size \notin D => J = Inflow(F, Size) + F[Size] + v[Size]
  BY <1>2, LastEntity
<1>11. D = Ends => J = (v[Size] - v[0] - Rise(K, F, 0, Size)) * R
  OBVIOUS
<1>12. start = IF 0 \in D THEN v[0] ELSE v[Size] - Rise(K, F, J, Size)
  OBVIOUS
<1> HIDE DEF J, start
<1>13. ASSUME NEW n \in Nodes
       PROVE  u[n] \in Field /\ u[n] \in Int /\ Eq(u[n], start + Rise(K, F, J, n))
  <2> DEFINE x == start + Rise(K, F, J, n)
  <2>1. x \in Int /\ u[n] = x % P
    BY <1>1, <1>6, <1>8, <1>9
  <2> HIDE DEF x
  <2>2. QED BY <2>1, EqMod DEF x
<1>14. u \in [Nodes -> Field]
  BY <1>1, <1>13
<1>15. ASSUME NEW e \in Entities PROVE Eq(K[e] * (u[e] - u[e - 1]), J - Inflow(F, e))
  <2> DEFINE p == e - 1
             x == start + Rise(K, F, J, e)
             y == start + Rise(K, F, J, p)
             d == Rise(K, F, J, e) - Rise(K, F, J, p)
  <2>1. Eq(u[e], x) /\ Eq(u[p], y) /\ K[e] \in Int
    BY <1>3, <1>13
  <2>2. x - y = d /\ d \in Int
    BY <1>3, <1>6, <1>8, <1>9
  <2> HIDE DEF x, y
  <2>3. Eq(u[e] - u[p], x - y)
    BY <2>1, EqSum
  <2>4. Eq(K[e] * (u[e] - u[p]), K[e] * d)
    BY <2>1, <2>2, <2>3, EqRefl, EqTimes
  <2>5. Eq(K[e] * d, J - Inflow(F, e))
    BY <1>6, <1>8
  <2>6. QED BY <2>4, <2>5, EqTrans
<1>16. 0 \in D => u[0] = v[0]
  <2> SUFFICES ASSUME 0 \in D PROVE u[0] = v[0]
    OBVIOUS
  <2> DEFINE a == Rise(K, F, J, 0)
  <2>1. Eq(u[0], v[0] + a) /\ Eq(a, 0) /\ Eq(v[0], v[0])
    BY <1>2, <1>6, <1>8, <1>12, <1>13, EqRefl
  <2> HIDE DEF a
  <2>2. Eq(v[0] + a, v[0] + 0) /\ v[0] + 0 = v[0]
    BY <1>2, <2>1, EqSum
  <2>3. QED BY <1>2, <1>13, <2>1, <2>2, EqTrans, EqField
<1>17. Size \in D => u[Size] = v[Size]
  <2> SUFFICES ASSUME Size \in D PROVE u[Size] = v[Size]
    OBVIOUS
  <2> DEFINE a == Rise(K, F, J, Size)
             a0 == Rise(K, F, 0, Size)
             w == v[Size]
             v0 == v[0]
             d == w - v0 - a0
  <2>1. /\ Eq(u[Size], start + a) /\ a \in Int /\ w \in Int /\ v0 \in Int /\ a0 \in Int /\ d \in Int
        /\ Eq(a, a0 + J * T)
    <3>1. Size \in Nodes
      BY <1>2
    <3>2. Eq(u[Size], start + a)
      BY <1>13, <3>1
    <3>3. a \in Int
      BY <1>6, <1>8, <3>1
    <3>4. Eq(a, a0 + J * T)
      BY <1>4, <1>8
    <3>5. w \in Int /\ v0 \in Int /\ a0 \in Int
      BY <1>2, <1>7
    <3> HIDE DEF a, a0, w, v0
    <3>6. d \in Int
      BY <3>5
    <3>7. QED BY <3>2, <3>3, <3>4, <3>5, <3>6
  <2>2. CASE 0 \notin D
    <3>1. start = w - a
      BY <1>12, <2>2
    <3> HIDE DEF a, w
    <3>2. start + a = w
      BY <2>1, <3>1
    <3>3. Eq(u[Size], w)
      BY <2>1, <3>2
    <3>4. QED BY <1>2, <1>13, <3>3, EqField DEF w
  <2>3. CASE 0 \in D
    <3>1. D = Ends /\ start = v0
      BY <1>2, <1>12, <2>3
    <3>2. J = d * R /\ R \in Int /\ Eq(T * R, 1)
      BY <1>5, <1>11, <3>1
    <3> HIDE DEF a, a0, w, v0, d
    <3>3. J * T = d * (T * R) /\ d * 1 = d
      BY <1>7, <2>1, <3>2
    <3>4. Eq(d * (T * R), d * 1)
      BY <2>1, <3>2, EqRefl, EqTimes
    <3>5. Eq(J * T, d)
      BY <3>3, <3>4
    <3>6. Eq(a0 + J * T, a0 + d)
      BY <2>1, <3>5, EqRefl, EqSum
    <3>7. Eq(a, a0 + d)
      BY <2>1, <3>6, EqTrans
    <3>8. Eq(v0 + a, v0 + (a0 + d))
      BY <2>1, <3>7, EqRefl, EqSum
    <3>9. v0 + (a0 + d) = w
      BY <2>1 DEF d
    <3>10. Eq(u[Size], w)
      BY <2>1, <3>1, <3>8, <3>9, EqTrans
    <3>11. QED BY <1>2, <1>13, <3>10, EqField DEF w
  <2>4. QED BY <2>2, <2>3
<1>18. \A n \in D : u[n] = v[n]
  BY <1>2, <1>16, <1>17
<1>19. QED BY <1>8, <1>10, <1>14, <1>15, <1>18 DEF u

---------------------------------------------------------------------------
(* The reference solver: its instance and its steps                        *)

\* What the instance of FemSolver calls a sum is one: the operators of its
\* grid are those of this module.
LEMMA FemTotal == ASSUME NEW F, NEW S PROVE Fem!Total(F, S) = Total(F, S)
BY DEF Fem!Total, Total, Fem!PartialSums, PartialSums

\* Its nodes and micro cells,
LEMMA FemSets == Fem!Nodes = Nodes /\ Fem!Entities = Entities /\ Fem!Ends = Ends
BY DEF Fem!Nodes, Nodes, Fem!Entities, Entities, Fem!Ends, Ends

\* its hat functions,
LEMMA FemHat == ASSUME NEW n PROVE Fem!Hat(n) = Hat(n)
BY DEF Fem!Nodes, Nodes, Fem!Hat, Hat

\* its matrices,
LEMMA FemApply == ASSUME NEW A, NEW x, NEW S PROVE Fem!Apply(A, x, S) = Apply(A, x, S)
BY FemTotal DEF Fem!Apply, Apply

\* its solutions,
LEMMA FemSolution == ASSUME NEW A, NEW b, NEW S PROVE Fem!Solution(A, b, S) = Solution(A, b, S)
BY FemApply DEF Fem!Solution, Solution

\* its solver,
LEMMA FemSolves == ASSUME NEW A, NEW b, NEW S PROVE Fem!Solves(A, b, S) <=> Solves(A, b, S)
BY FemApply DEF Fem!Solution, Solution, Fem!Solves, Solves, Fem!Regular, Regular, Field, Fem!Field

\* its reciprocals,
LEMMA FemReciprocal == ASSUME NEW x PROVE Fem!Reciprocal(x) = Reciprocal(x)
BY DEF Fem!Reciprocal, Reciprocal, Fem!Field, Field

\* its integrals of the source,
LEMMA FemInflow == ASSUME NEW F, NEW m PROVE Fem!Inflow(F, m) = Inflow(F, m)
BY FemTotal DEF Fem!Inflow, Inflow

\* its fluxes
LEMMA FemRise == ASSUME NEW K, NEW F, NEW J, NEW n PROVE Fem!Rise(K, F, J, n) = Rise(K, F, J, n)
BY FemTotal, FemInflow, FemReciprocal DEF Fem!Rise, Rise

\* and its last micro cell are the same.
LEMMA FemMax == ASSUME NEW S PROVE Fem!Max(S) = Max(S)
BY DEF Fem!Max, Max

\* So is the solution it is compared with.
LEMMA FemFine == ASSUME NEW K, NEW F, NEW b PROVE Fem!FineSolution(K, F, b) = FineSolution(K, F, b)
BY FemTotal, FemSets, FemMax, FemInflow, FemRise, FemReciprocal DEF Fem!FineSolution, FineSolution

\* The steps of the reference solver, in the operators of this module.
FemBegins ==
  /\ phase' = "assemble" /\ calls' = calls + 1 /\ walk' = Entities
  /\ femMatrix' = [m \in Nodes |-> ZeroFunction] /\ femRhs' = ZeroFunction
  /\ femShift' = solution
  /\ UNCHANGED <<k, f, boundary, solution>>

\* A micro cell of the walk.
FemWalks(e) ==
  /\ phase = "assemble" /\ e \in walk
  /\ femMatrix' = [m \in Nodes |-> [n \in Nodes |->
       IF {m, n} \subseteq {e - 1, e}
       THEN (femMatrix[m][n] + Energy(k, Hat(m), Hat(n), e)) % P ELSE femMatrix[m][n]]]
  /\ femRhs' = [n \in Nodes |-> IF n \in {e - 1, e}
                                THEN (femRhs[n] + Load(f, Hat(n), e) + Fem!Flux(n)) % P ELSE femRhs[n]]
  /\ femShift' = [n \in Nodes |-> IF n \in {e - 1, e} \cap boundary.dirichlet THEN boundary.value[n] ELSE femShift[n]]
  /\ walk' = walk \ {e}
  /\ UNCHANGED <<k, f, boundary, calls, phase, solution>>

\* The Dirichlet values are lifted.
FemConstrains ==
  /\ phase = "assemble" /\ walk = {} /\ phase' = "solve"
  /\ femRhs' = ConstrainedVector([n \in Nodes |-> (femRhs[n] - Apply(femMatrix, femShift, Nodes)[n]) % P],
                                 boundary.dirichlet, Nodes)
  /\ femMatrix' = ConstrainedMatrix(femMatrix, boundary.dirichlet, Nodes)
  /\ UNCHANGED <<k, f, boundary, calls, walk, femShift, solution>>

\* The solver solves, or throws.
FemReturns ==
  /\ phase = "solve"
  /\ \/ /\ Solves(femMatrix, femRhs, Nodes) /\ phase' = "idle"
        /\ solution' = Plus(Solution(femMatrix, femRhs, Nodes), femShift)
     \/ phase' = "thrown" /\ solution' = solution
  /\ UNCHANGED <<k, f, boundary, calls, walk, femMatrix, femRhs, femShift>>

\* Every step of the reference solver is one of these.
LEMMA FemStep ==
  ASSUME Fem!Next
  PROVE  FemBegins \/ (\E e \in Entities : FemWalks(e)) \/ FemConstrains \/ FemReturns
<1>1. CASE Fem!Begin
  BY <1>1, FemSets DEF Fem!Begin, Fem!problem, Fem!ZeroFunction, ZeroFunction, FemBegins
<1>2. CASE \E e \in Fem!Entities : Fem!WalkEntity(e)
  <2>1. PICK e \in Entities : Fem!WalkEntity(e)
    BY <1>2, FemSets
  <2>2. QED
    BY <2>1, FemSets, FemHat DEF Fem!WalkEntity, Fem!problem, Fem!Project, Fem!Energy, Energy, Fem!Load, Load,
                                      FemWalks
<1>3. CASE Fem!Constrain
  BY <1>3, FemSets, FemApply
     DEF Fem!Constrain, Fem!problem, Fem!ConstrainedVector, ConstrainedVector, Fem!ConstrainedMatrix, ConstrainedMatrix,
         FemConstrains
<1>4. CASE Fem!Solve
  BY <1>4, FemSets, FemSolves, FemSolution
     DEF Fem!Solve, Fem!problem, Fem!Plus, Plus, Fem!Combination, Combination, FemReturns
<1>5. QED BY <1>1, <1>2, <1>3, <1>4 DEF Fem!Next

---------------------------------------------------------------------------
(* The reference solver: what its system is made of                        *)

\* How the hat function of node n rises over micro cell e.
Slope(e, n) == IF n = e THEN 1 ELSE IF n = e - 1 THEN -1 ELSE 0

\* What the micro cells es have added to an entry of the matrix and of the
\* right hand side.
FemEntry(K, es, m, n) == Part(m, es, K[m] * Slope(m, n)) - Part(m + 1, es, K[m + 1] * Slope(m + 1, n))

\* The Neumann datum of a node.
FluxOf(b, n) == IF n \in Ends \ b.dirichlet THEN b.value[n] ELSE 0

\* What they have added to the right hand side.
FemLoad(F, b, es, n) == Part(n, es, F[n] + FluxOf(b, n)) + Part(n + 1, es, F[n + 1] + FluxOf(b, n))

\* A micro cell lies between two nodes, a node between two micro cells.
LEMMA NodesOf ==
  /\ \A e \in Entities : e \in Nat /\ e \in Nodes /\ e - 1 \in Nodes
  /\ \A n \in Nodes : n \in Nat /\ n <= Size /\ (n + 1 \in Entities => n + 1 \in Nodes)
                      /\ (n \in Entities => n - 1 \in Nodes)
                      /\ (n \notin Entities => n = 0 /\ n + 1 \in Entities)
                      /\ (n + 1 \notin Entities => n = Size /\ n \in Entities)
BY Grid, Sizes

\* The slope is that of the hat function.
LEMMA HatSlope ==
  ASSUME NEW e \in Entities, NEW n \in Nodes
  PROVE  /\ Hat(n)[e] - Hat(n)[e - 1] = Slope(e, n)
         /\ Hat(n)[e - 1] + Hat(n)[e] = IF n \in {e - 1, e} THEN 1 ELSE 0
         /\ Slope(e, n) \in Int /\ (n \notin {e - 1, e} => Slope(e, n) = 0)
<1>1. e \in Nodes /\ e - 1 \in Nodes /\ e \in Nat /\ n \in Nat
  BY NodesOf
<1>2. Hat(n)[e] = (IF e = n THEN 1 ELSE 0) /\ Hat(n)[e - 1] = (IF e - 1 = n THEN 1 ELSE 0)
  BY <1>1 DEF Hat
<1>3. QED BY <1>1, <1>2 DEF Slope

\* The data are numbers.
LEMMA ProblemInt ==
  ASSUME NEW K, NEW F, NEW b, Problem(K, F, b)
  PROVE  /\ \A e \in Entities : K[e] \in Int /\ F[e] \in Int
         /\ \A n \in Nodes : FluxOf(b, n) \in Int
         /\ b.dirichlet \subseteq Nodes /\ \A n \in b.dirichlet : b.value[n] \in Field /\ b.value[n] \in Int
<1>1. /\ K \in [Entities -> 1 .. P - 1] /\ F \in [Entities -> Int]
      /\ b.value \in [Ends -> Field] /\ b.dirichlet \subseteq Ends
  BY DEF Problem
<1>2. \A e \in Entities : K[e] \in Int /\ F[e] \in Int
  BY <1>1, Sizes
<1>3. \A n \in Ends : b.value[n] \in Field /\ b.value[n] \in Int
  BY <1>1, FieldInt
<1>4. Ends \subseteq Nodes
  BY LastEntity, NodesOf, Grid, Sizes
<1>5. \A n \in Nodes : FluxOf(b, n) \in Int
  BY <1>3 DEF FluxOf
<1>6. QED BY <1>1, <1>2, <1>3, <1>4, <1>5

\* The entries are numbers.
LEMMA FemEntryInt ==
  ASSUME NEW K, NEW F, NEW b, Problem(K, F, b), NEW es, es \subseteq Entities, NEW m \in Nodes, NEW n \in Nodes
  PROVE  FemEntry(K, es, m, n) \in Int /\ FemLoad(F, b, es, m) \in Int
<1>1. \A e \in es : K[e] \in Int /\ F[e] \in Int /\ Slope(e, n) \in Int
  BY ProblemInt, HatSlope
<1>2. \A e \in es : K[e] * Slope(e, n) \in Int
  BY <1>1
<1>3. FluxOf(b, m) \in Int
  BY ProblemInt
<1>4. /\ Part(m, es, K[m] * Slope(m, n)) \in Int /\ Part(m + 1, es, K[m + 1] * Slope(m + 1, n)) \in Int
      /\ Part(m, es, F[m] + FluxOf(b, m)) \in Int /\ Part(m + 1, es, F[m + 1] + FluxOf(b, m)) \in Int
  BY <1>1, <1>2, <1>3 DEF Part
<1>5. QED BY <1>4 DEF FemEntry, FemLoad

\* What a micro cell adds.
FemBlock(K, e, m, n) == IF {m, n} \subseteq {e - 1, e} THEN Energy(K, Hat(m), Hat(n), e) ELSE 0

\* What it adds to the right hand side.
FemShare(F, b, e, n) == IF n \in {e - 1, e} THEN Load(F, Hat(n), e) + FluxOf(b, n) ELSE 0

\* The entries grow by it.
LEMMA FemEntryGrows ==
  ASSUME NEW K, NEW F, NEW b, Problem(K, F, b), NEW es, es \subseteq Entities, NEW e \in Entities, e \notin es,
         NEW m \in Nodes, NEW n \in Nodes
  PROVE  /\ FemBlock(K, e, m, n) \in Int /\ FemShare(F, b, e, m) \in Int
         /\ FemEntry(K, es \cup {e}, m, n) = FemEntry(K, es, m, n) + FemBlock(K, e, m, n)
         /\ FemLoad(F, b, es \cup {e}, m) = FemLoad(F, b, es, m) + FemShare(F, b, e, m)
<1> DEFINE fe == es \cup {e}
           c == K[e]
           s == Slope(e, n)
           t == Slope(e, m)
           g == FluxOf(b, m)
           x == c * s
           a(y) == K[y] * Slope(y, n)
           d(y) == F[y] + FluxOf(b, m)
<1>1. c \in Int /\ s \in Int /\ t \in Int /\ F[e] \in Int /\ g \in Int /\ m \in Int /\ e \in Int
  BY ProblemInt, HatSlope, NodesOf
<1>2. x \in Int /\ c * t * s \in Int
  BY <1>1
<1>3. Energy(K, Hat(m), Hat(n), e) = c * t * s
  BY HatSlope DEF Energy
<1>4. (m = e => t = 1) /\ (m = e - 1 => t = -1) /\ (m # e /\ m # e - 1 => t = 0)
  BY <1>1 DEF Slope
<1>5. n \notin {e - 1, e} => s = 0
  BY HatSlope
<1>6. c * 1 * s = x /\ c * (-1) * s = 0 - x /\ c * 0 * s = 0 /\ (s = 0 => x = 0)
  BY <1>1
<1>7. FemBlock(K, e, m, n) = IF m = e THEN x ELSE IF m = e - 1 THEN 0 - x ELSE 0
  <2> HIDE DEF x, c, s, t
  <2>1. CASE {m, n} \subseteq {e - 1, e}
    BY <1>1, <1>3, <1>4, <1>6, <2>1 DEF FemBlock
  <2>2. CASE n \notin {e - 1, e}
    BY <1>1, <1>5, <1>6, <2>2 DEF FemBlock
  <2>3. CASE m \notin {e - 1, e}
    BY <2>3 DEF FemBlock
  <2>4. QED BY <2>1, <2>2, <2>3
<1>8. FemShare(F, b, e, m) = IF m \in {e - 1, e} THEN d(e) ELSE 0
  <2>1. m \in {e - 1, e} => Load(F, Hat(m), e) = F[e] * 1
    BY HatSlope DEF Load
  <2>2. F[e] * 1 = F[e]
    BY <1>1
  <2>3. QED BY <2>1, <2>2 DEF FemShare
<1>9. /\ a(e) = x /\ d(e) \in Int
      /\ FemEntry(K, es, m, n) \in Int /\ FemLoad(F, b, es, m) \in Int
  <2>1. a(e) = x /\ d(e) \in Int
    BY <1>1
  <2>2. FemEntry(K, es, m, n) \in Int /\ FemLoad(F, b, es, m) \in Int
    BY FemEntryInt
  <2>3. QED BY <2>1, <2>2
<1>10. /\ \A y \in es : a(y) \in Int /\ d(y) \in Int
  <2> SUFFICES ASSUME NEW y \in es PROVE a(y) \in Int /\ d(y) \in Int
    OBVIOUS
  <2>1. K[y] \in Int /\ Slope(y, n) \in Int /\ F[y] \in Int
    BY ProblemInt, HatSlope
  <2>2. QED BY <1>1, <2>1
<1>11. /\ FemEntry(K, es, m, n) = Part(m, es, a(m)) - Part(m + 1, es, a(m + 1))
       /\ FemEntry(K, fe, m, n) = Part(m, fe, a(m)) - Part(m + 1, fe, a(m + 1))
       /\ FemLoad(F, b, es, m) = Part(m, es, d(m)) + Part(m + 1, es, d(m + 1))
       /\ FemLoad(F, b, fe, m) = Part(m, fe, d(m)) + Part(m + 1, fe, d(m + 1))
  BY DEF FemEntry, FemLoad
<1> DEFINE am == a(m)
           aq == a(m + 1)
           dm == d(m)
           dq == d(m + 1)
<1>12. CASE m = e
  <2>1. m \notin es /\ m \in fe /\ (m + 1 \in fe <=> m + 1 \in es) /\ m # e - 1
    BY <1>1, <1>12
  <2>2. m + 1 \in es => aq \in Int /\ dq \in Int
    BY <1>10
  <2>3. am = x /\ dm = d(e)
    BY <1>12
  <2> HIDE DEF am, aq, dm, dq, x, fe
  <2>4. QED BY <1>2, <1>7, <1>8, <1>9, <1>11, <1>12, <2>1, <2>2, <2>3 DEF Part, am, aq, dm, dq, fe
<1>13. CASE m + 1 = e
  <2>1. m + 1 \notin es /\ m + 1 \in fe /\ (m \in fe <=> m \in es) /\ m = e - 1 /\ m # e
    BY <1>1, <1>13
  <2>2. m \in es => am \in Int /\ dm \in Int
    BY <1>10
  <2>3. aq = x /\ dq = d(e)
    BY <1>13
  <2> HIDE DEF am, aq, dm, dq, x, fe
  <2>4. QED BY <1>2, <1>7, <1>8, <1>9, <1>11, <1>13, <2>1, <2>2, <2>3 DEF Part, am, aq, dm, dq, fe
<1>14. CASE m # e /\ m + 1 # e
  <2>1. (m \in fe <=> m \in es) /\ (m + 1 \in fe <=> m + 1 \in es) /\ m # e - 1
    BY <1>1, <1>14
  <2>2. FemEntry(K, fe, m, n) = FemEntry(K, es, m, n) /\ FemLoad(F, b, fe, m) = FemLoad(F, b, es, m)
    BY <1>11, <2>1 DEF Part
  <2>3. FemBlock(K, e, m, n) = 0 /\ FemShare(F, b, e, m) = 0
    BY <1>7, <1>8, <1>14, <2>1
  <2>4. QED BY <1>9, <2>2, <2>3
<1>15. QED BY <1>12, <1>13, <1>14

\* The sum of a function of the nodes that is zero but in two of them, in one.
LEMMA SumTwo ==
  ASSUME NEW S, S \subseteq Nodes, NEW F, Ints(F, S), NEW p \in S, NEW q \in S, p # q,
         \A n \in S \ {p, q} : Eq(F[n], 0)
  PROVE  Eq(Total(F, S), F[p] + F[q])
<1>1. S \subseteq Nat /\ p <= Size /\ q <= Size
  BY NodesOf
<1>2. \A n \in S \ {p, q} : Div(F[n])
  <2> SUFFICES ASSUME NEW n \in S \ {p, q} PROVE Div(F[n])
    OBVIOUS
  <2>1. F[n] \in Int /\ Div(F[n] - 0)
    BY DEF Eq
  <2>2. F[n] - 0 = F[n]
    BY <2>1
  <2>3. QED BY <2>1, <2>2
<1>3. Div(Total(F, S) - (F[p] + F[q]))
  BY <1>1, <1>2, TotalTwo
<1>4. Total(F, S) \in Int /\ F[p] \in Int /\ F[q] \in Int
  BY <1>1, TotalSums DEF Ints
<1>5. QED BY <1>3, <1>4 DEF Eq

\* The sum of a function of the nodes that is zero but in one of them.
LEMMA SumOne ==
  ASSUME NEW S, S \subseteq Nodes, NEW F, Ints(F, S), NEW p \in S, \A n \in S \ {p} : Eq(F[n], 0)
  PROVE  Eq(Total(F, S), F[p])
<1>1. S \subseteq Nat /\ p <= Size
  BY NodesOf
<1>2. \A n \in S \ {p} : Div(F[n])
  <2> SUFFICES ASSUME NEW n \in S \ {p} PROVE Div(F[n])
    OBVIOUS
  <2>1. F[n] \in Int /\ Div(F[n] - 0)
    BY DEF Eq
  <2>2. F[n] - 0 = F[n]
    BY <2>1
  <2>3. QED BY <2>1, <2>2
<1>3. Div(Total(F, S) - F[p])
  BY <1>1, <1>2, TotalOne
<1>4. Total(F, S) \in Int /\ F[p] \in Int
  BY <1>1, TotalSums DEF Ints
<1>5. QED BY <1>3, <1>4 DEF Eq

\* The sum with the slopes of a micro cell is the rise over it.
LEMMA SlopeSum ==
  ASSUME NEW S, S \subseteq Nodes, NEW e \in Entities, e \in S, e - 1 \in S,
         NEW c \in Int, NEW u, \A n \in S : u[n] \in Int, NEW h,
         \A n \in S : h[n] = c * Slope(e, n) * u[n]
  PROVE  Ints(h, S) /\ Eq(Total(h, S), c * (u[e] - u[e - 1]))
<1> DEFINE p == e - 1
<1>1. e \in Nat /\ e \in S /\ p \in S /\ e # p
  BY NodesOf
<1>2. \A n \in S : Slope(e, n) \in Int /\ u[n] \in Int
  BY HatSlope
<1>3. \A n \in S : h[n] \in Int
  <2> SUFFICES ASSUME NEW n \in S PROVE h[n] \in Int
    OBVIOUS
  <2>1. c * Slope(e, n) * u[n] \in Int
    BY <1>2
  <2>2. QED BY <2>1
<1>4. \A n \in S \ {e, p} : Eq(h[n], 0)
  <2> SUFFICES ASSUME NEW n \in S \ {e, p} PROVE Eq(h[n], 0)
    OBVIOUS
  <2>1. Slope(e, n) = 0 /\ u[n] \in Int
    BY <1>2 DEF Slope
  <2>2. c * 0 * u[n] = 0
    BY <2>1
  <2>3. h[n] = 0
    BY <2>1, <2>2
  <2>4. QED BY <2>3, EqRefl
<1>5. Slope(e, e) = 1 /\ Slope(e, p) = -1
  BY <1>1 DEF Slope
<1>6. h[e] = c * 1 * u[e] /\ h[p] = c * (-1) * u[p] /\ u[e] \in Int /\ u[p] \in Int
  BY <1>1, <1>2, <1>5
<1>7. h[e] + h[p] = c * (u[e] - u[p])
  <2> DEFINE x == u[e]
             y == u[p]
  <2>1. x \in Int /\ y \in Int /\ h[e] = c * 1 * x /\ h[p] = c * (-1) * y
    BY <1>6
  <2> HIDE DEF x, y, p
  <2>2. c * 1 * x + c * (-1) * y = c * (x - y)
    BY <2>1
  <2>3. QED BY <2>1, <2>2 DEF x, y
<1>8. Ints(h, S)
  BY <1>3 DEF Ints
<1> HIDE DEF p
<1>9. Eq(Total(h, S), h[e] + h[p])
  BY <1>1, <1>4, <1>8, SumTwo
<1>10. QED BY <1>7, <1>8, <1>9 DEF p

\* The fall of the flux at a node, in the micro cells es: what the rows of the
\* matrix they assemble make of a function.
Fall(K, es, u, n) ==
  Part(n, es, K[n] * (u[n] - u[n - 1])) - Part(n + 1, es, K[n + 1] * (u[n + 1] - u[n]))

\* A row of the matrix the micro cells es assemble, applied to a function of
\* the nodes S around them.
LEMMA RowOfFem ==
  ASSUME NEW K \in [Entities -> Int], NEW es, es \subseteq Entities,
         NEW S, S \subseteq Nodes, \A e \in es : e \in S /\ e - 1 \in S,
         NEW n \in Nodes, NEW row, NEW u, \A j \in S : u[j] \in Int,
         \A j \in S : Eq(row[j], FemEntry(K, es, n, j))
  PROVE  LET h == [j \in S |-> row[j] * u[j]]
         IN Ints(h, S) /\ Fall(K, es, u, n) \in Int /\ Eq(Total(h, S), Fall(K, es, u, n))
<1> DEFINE h == [j \in S |-> row[j] * u[j]]
           q == n + 1
           x == Part(n, es, K[n] * (u[n] - u[n - 1]))
           y == Part(q, es, K[q] * (u[q] - u[q - 1]))
           g1 == [j \in S |-> Part(n, es, K[n] * Slope(n, j) * u[j])]
           g2 == [j \in S |-> Part(q, es, K[q] * Slope(q, j) * u[j])]
           one == 1
           minus == -1
<1>1. S \subseteq Nat /\ n \in Nat /\ q - 1 = n /\ q \in Nat
  BY NodesOf
<1>2. ASSUME NEW e \in Nat, NEW g, \A j \in S : g[j] = Part(e, es, K[e] * Slope(e, j) * u[j])
      PROVE  /\ Ints(g, S) /\ Part(e, es, K[e] * (u[e] - u[e - 1])) \in Int
             /\ Eq(Total(g, S), Part(e, es, K[e] * (u[e] - u[e - 1])))
  <2>1. CASE e \in es
    <3> DEFINE c == K[e]
               z == c * (u[e] - u[e - 1])
    <3>1. c \in Int /\ \A j \in S : g[j] = c * Slope(e, j) * u[j]
      BY <1>2, <2>1 DEF Part
    <3>2. Part(e, es, K[e] * (u[e] - u[e - 1])) = z
      BY <2>1 DEF Part
    <3> HIDE DEF c
    <3>3. Ints(g, S) /\ Eq(Total(g, S), z)
      BY <2>1, <3>1, SlopeSum
    <3>4. QED BY <3>2, <3>3 DEF Eq
  <2>2. CASE e \notin es
    <3>1. \A j \in S : g[j] = 0
      BY <1>2, <2>2 DEF Part
    <3>2. \A j \in S : Eq(g[j], 0)
      BY <3>1, EqRefl
    <3>3. Ints(g, S)
      BY <3>1 DEF Ints
    <3>4. Part(e, es, K[e] * (u[e] - u[e - 1])) = 0
      BY <2>2 DEF Part
    <3>5. Eq(Total(g, S), 0)
      BY <1>1, <3>2, SumZero
    <3>6. QED BY <3>3, <3>4, <3>5
  <2>3. QED BY <2>1, <2>2
<1>3. Ints(g1, S) /\ x \in Int /\ Eq(Total(g1, S), x)
  <2>1. \A j \in S : g1[j] = Part(n, es, K[n] * Slope(n, j) * u[j])
    OBVIOUS
  <2> HIDE DEF g1
  <2>2. QED BY <1>1, <1>2, <2>1
<1>4. Ints(g2, S) /\ y \in Int /\ Eq(Total(g2, S), y)
  <2>1. \A j \in S : g2[j] = Part(q, es, K[q] * Slope(q, j) * u[j])
    OBVIOUS
  <2> HIDE DEF g2, q
  <2>2. QED BY <1>1, <1>2, <2>1
<1>5. ASSUME NEW j \in S PROVE Eq(h[j], one * g1[j] + minus * g2[j])
  <2> DEFINE s == Part(n, es, K[n] * Slope(n, j))
             t == Part(q, es, K[q] * Slope(q, j))
             w == u[j]
  <2>1. Slope(n, j) \in Int /\ Slope(q, j) \in Int /\ w \in Int
    BY <1>1 DEF Slope
  <2>2. s \in Int /\ t \in Int /\ g1[j] = s * w /\ g2[j] = t * w
    <3>1. (n \in es => K[n] \in Int) /\ (q \in es => K[q] \in Int)
      OBVIOUS
    <3>2. 0 * w = 0
      BY <2>1
    <3>3. (n \in es => K[n] * Slope(n, j) \in Int) /\ (q \in es => K[q] * Slope(q, j) \in Int)
      BY <2>1, <3>1
    <3>4. s \in Int /\ t \in Int
      BY <3>3 DEF Part
    <3>5. g1[j] = s * w
      BY <3>2 DEF Part
    <3>6. g2[j] = t * w
      BY <3>2 DEF Part
    <3>7. QED BY <3>4, <3>5, <3>6
  <2>3. Eq(row[j], s - t) /\ h[j] = row[j] * w
    BY DEF FemEntry
  <2> HIDE DEF s, t, w
  <2>4. Eq(row[j] * w, (s - t) * w)
    BY <2>1, <2>3, EqRefl, EqTimes
  <2>5. (s - t) * w = 1 * (s * w) + (-1) * (t * w)
    BY <2>1, <2>2
  <2>6. QED BY <2>2, <2>3, <2>4, <2>5
<1>6. one \in Int /\ minus \in Int
  OBVIOUS
<1> HIDE DEF g1, g2, h, one, minus
<1>7. Ints(h, S) /\ Eq(Total(h, S), one * Total(g1, S) + minus * Total(g2, S))
  BY <1>1, <1>3, <1>4, <1>5, <1>6, SumLinear
<1> HIDE DEF x, y
<1>8. Eq(Total(g1, S) - Total(g2, S), x - y) /\ x - y \in Int
  <2>1. Eq(Total(g1, S) - Total(g2, S), x - y)
    BY <1>3, <1>4, EqSum
  <2>2. QED BY <2>1 DEF Eq
<1>9. one * Total(g1, S) + minus * Total(g2, S) = Total(g1, S) - Total(g2, S)
  BY <1>3, <1>4 DEF one, minus, Eq
<1>10. Eq(Total(h, S), x - y)
  BY <1>7, <1>8, <1>9, EqTrans
<1>11. Fall(K, es, u, n) = x - y
  BY <1>1 DEF Fall, x, y
<1>12. QED BY <1>7, <1>8, <1>10, <1>11 DEF h

\* A function of the nodes with the fluxes of the finite element solution
\* balances the load of every node that is not a Dirichlet end.
LEMMA FluxesBalance ==
  ASSUME NEW K, NEW F, NEW b, Problem(K, F, b), NEW u \in [Nodes -> Int], NEW J \in Int,
         \A e \in Entities : Eq(K[e] * (u[e] - u[e - 1]), J - Inflow(F, e)),
         0 \notin b.dirichlet => J = 0 - F[1] - b.value[0],
         Size \notin b.dirichlet => J = Inflow(F, Size) + F[Size] + b.value[Size],
         NEW n \in Nodes, n \notin b.dirichlet
  PROVE  Eq(Fall(K, Entities, u, n), FemLoad(F, b, Entities, n))
<1> DEFINE q == n + 1
           g == FluxOf(b, n)
           x == K[n] * (u[n] - u[n - 1])
           y == K[q] * (u[q] - u[n])
           i == Inflow(F, n)
           j == Inflow(F, q)
<1>1. /\ q - 1 = n /\ n \in Nat /\ g \in Int
      /\ (n \notin Entities => n = 0 /\ q \in Entities)
      /\ (q \notin Entities => n = Size /\ n \in Entities)
      /\ (n \in Entities /\ q \in Entities => n \notin Ends)
  <2>1. Ends = {0, Size} /\ (n \in Entities /\ q \in Entities => n # 0 /\ n # Size)
    BY LastEntity, NodesOf, Grid, Sizes
  <2>2. QED BY <2>1, NodesOf, ProblemInt
<1>2. /\ n \in Entities => Eq(x, J - i) /\ i \in Int /\ F[n] \in Int
      /\ q \in Entities => Eq(y, J - j) /\ j \in Int /\ F[q] \in Int
  <2>1. F \in [Entities -> Int]
    BY DEF Problem
  <2>2. \A e \in Entities : Inflow(F, e) \in Int
    BY <2>1, InflowIs
  <2>3. q \in Entities => Eq(y, J - j)
    <3>1. q \in Entities => Eq(K[q] * (u[q] - u[q - 1]), J - j)
      OBVIOUS
    <3>2. QED BY <1>1, <3>1
  <2>4. QED BY <2>1, <2>2, <2>3
<1>3. CASE n \in Entities /\ q \in Entities
  <2>1. Fall(K, Entities, u, n) = x - y /\ FemLoad(F, b, Entities, n) = (F[n] + g) + (F[q] + g)
    BY <1>3 DEF Fall, FemLoad, Part
  <2>2. g = 0
    BY <1>1, <1>3 DEF FluxOf
  <2>3. Eq(j, i + (F[n] + F[q]))
    BY <1>3, InflowIs DEF Problem
  <2> HIDE DEF x, y, i, j, g
  <2>4. Eq(x - y, (J - i) - (J - j)) /\ (J - i) - (J - j) = j - i
    <3>1. Eq(x - y, (J - i) - (J - j))
      BY <1>2, <1>3, EqSum
    <3>2. QED BY <1>2, <1>3, <3>1
  <2>5. Eq(i, i)
    BY <1>2, <1>3, EqRefl
  <2>6. Eq(j - i, (i + (F[n] + F[q])) - i) /\ (i + (F[n] + F[q])) - i = F[n] + F[q]
    <3>1. Eq(j - i, (i + (F[n] + F[q])) - i)
      BY <2>3, <2>5, EqSum
    <3>2. QED BY <1>2, <1>3, <3>1
  <2>7. Eq(x - y, F[n] + F[q])
    BY <2>4, <2>6, EqTrans
  <2>8. (F[n] + g) + (F[q] + g) = F[n] + F[q]
    BY <1>2, <1>3, <2>2
  <2>9. QED BY <2>1, <2>7, <2>8 DEF g
<1>4. CASE n \notin Entities
  <2>1. n = 0 /\ q = 1 /\ q \in Entities
    BY <1>1, <1>4
  <2>2. Fall(K, Entities, u, n) = 0 - y /\ FemLoad(F, b, Entities, n) = 0 + (F[q] + g)
    BY <1>4, <2>1 DEF Fall, FemLoad, Part
  <2>3. g = b.value[0]
    BY <2>1, LastEntity DEF FluxOf
  <2>4. J = 0 - F[1] - b.value[0]
    BY <2>1
  <2>5. Eq(j, 0)
    BY <2>1, InflowIs DEF Problem
  <2> HIDE DEF y, j, g
  <2>6. F[q] \in Int /\ j \in Int /\ Eq(y, J - j) /\ J = 0 - F[q] - g
    BY <1>2, <2>1, <2>3, <2>4
  <2> DEFINE z == 0
             w == F[q]
  <2>7. z \in Int /\ w \in Int
    BY <2>6
  <2> HIDE DEF z, w
  <2>8. Eq(z, z) /\ Eq(J, J) /\ Eq(j, z)
    BY <2>5, <2>7, EqRefl DEF z
  <2>9. Eq(J - j, J - z)
    BY <2>8, EqSum
  <2>10. Eq(y, J - z)
    BY <2>6, <2>9, EqTrans
  <2>11. Eq(z - y, z - (J - z))
    BY <2>8, <2>10, EqSum
  <2>12. z - (J - z) = z + (w + g)
    BY <1>1, <2>6, <2>7 DEF z, w
  <2>13. QED BY <2>2, <2>11, <2>12 DEF z, w
<1>5. CASE q \notin Entities
  <2>1. n = Size /\ n \in Entities
    BY <1>1, <1>5
  <2>2. Fall(K, Entities, u, n) = x - 0 /\ FemLoad(F, b, Entities, n) = (F[n] + g) + 0
    BY <1>5, <2>1 DEF Fall, FemLoad, Part
  <2>3. g = b.value[Size]
    BY <2>1, LastEntity DEF FluxOf
  <2>4. J = i + F[n] + g
    BY <2>1, <2>3
  <2> HIDE DEF x, i, g
  <2>5. i \in Int /\ F[n] \in Int /\ Eq(x, J - i)
    BY <1>2, <2>1
  <2>6. x - 0 = x /\ (F[n] + g) + 0 = J - i
    BY <1>1, <2>4, <2>5 DEF Eq
  <2>7. QED BY <2>2, <2>5, <2>6
<1>6. QED BY <1>3, <1>4, <1>5

---------------------------------------------------------------------------
\* The reference solver: the types, and the system in each phase of a call.
FemType ==
  /\ femMatrix \in [Nodes -> [Nodes -> Int]]
  /\ femRhs \in [Nodes -> Int] /\ femShift \in [Nodes -> Int] /\ solution \in [Nodes -> Int]
  /\ Problem(k, f, boundary)
  /\ walk \subseteq Entities /\ calls \in Nat

\* The walk has added the entries of the micro cells it has come to, and has
\* projected the Dirichlet values of their nodes.
FemAssembled ==
  \A m \in Nodes :
    /\ \A n \in Nodes : Eq(femMatrix[m][n], FemEntry(k, Entities \ walk, m, n))
    /\ Eq(femRhs[m], FemLoad(f, boundary, Entities \ walk, m))
    /\ m \in boundary.dirichlet /\ {m, m + 1} \cap (Entities \ walk) # {} => femShift[m] = boundary.value[m]

\* The constrained system, with the Dirichlet values taken off the others.
FemConstrained ==
  \A m \in Nodes :
    IF m \in boundary.dirichlet
    THEN /\ femShift[m] = boundary.value[m]
         /\ femRhs[m] = 0
         /\ \A n \in Nodes : femMatrix[m][n] = IF m = n THEN 1 ELSE 0
    ELSE /\ \A n \in Nodes : Eq(femMatrix[m][n], FemEntry(k, Entities, m, n))
         /\ femRhs[m] \in Field
         /\ Eq(femRhs[m], FemLoad(f, boundary, Entities, m)
                            - Total([n \in Nodes |-> femMatrix[m][n] * femShift[n]], Nodes))

\* The inductive invariant of the reference solver.
FemInv ==
  /\ FemType
  /\ phase = "assemble" => FemAssembled
  /\ phase = "solve" => FemConstrained
  /\ phase = "idle" /\ calls > 0 => solution = FineSolution(k, f, boundary)

\* The rows of the constrained system applied to a function of the nodes.
LEMMA ConstrainedRows ==
  ASSUME FemType, FemConstrained, NEW u \in [Nodes -> Int], NEW n \in Nodes
  PROVE  LET h == [j \in Nodes |-> femMatrix[n][j] * u[j]]
         IN /\ Ints(h, Nodes) /\ Total(h, Nodes) \in Field
            /\ n \in boundary.dirichlet => Eq(Total(h, Nodes), u[n])
            /\ n \notin boundary.dirichlet =>
                 Fall(k, Entities, u, n) \in Int /\ Eq(Total(h, Nodes), Fall(k, Entities, u, n))
<1> DEFINE h == [j \in Nodes |-> femMatrix[n][j] * u[j]]
<1>1. \A j \in Nodes : h[j] = femMatrix[n][j] * u[j] /\ femMatrix[n][j] \in Int /\ u[j] \in Int
  BY DEF FemType
<1>2. Ints(h, Nodes)
  <2>1. \A j \in Nodes : femMatrix[n][j] * u[j] \in Int
    BY <1>1
  <2>2. QED BY <2>1 DEF Ints
<1>3. Nodes \subseteq Nat
  BY NodesOf
<1>4. ASSUME n \in boundary.dirichlet PROVE Eq(Total(h, Nodes), u[n])
  <2>1. \A j \in Nodes : femMatrix[n][j] = IF n = j THEN 1 ELSE 0
    BY <1>4 DEF FemConstrained
  <2> HIDE DEF h
  <2>2. \A j \in Nodes \ {n} : h[j] = 0
    <3>1. \A j \in Nodes \ {n} : femMatrix[n][j] = 0
      BY <2>1
    <3>2. \A j \in Nodes \ {n} : 0 * u[j] = 0
      BY <1>1
    <3>3. QED BY <1>1, <3>1, <3>2
  <2>3. h[n] = u[n]
    <3>1. femMatrix[n][n] = 1 /\ 1 * u[n] = u[n]
      BY <1>1, <2>1
    <3>2. QED BY <1>1, <3>1
  <2>4. \A j \in Nodes \ {n} : Eq(h[j], 0)
    BY <2>2, EqRefl
  <2>5. Eq(Total(h, Nodes), h[n])
    BY <1>2, <2>4, SumOne
  <2>6. QED BY <2>3, <2>5
<1>5. ASSUME n \notin boundary.dirichlet
      PROVE  Fall(k, Entities, u, n) \in Int /\ Eq(Total(h, Nodes), Fall(k, Entities, u, n))
  <2> DEFINE row == femMatrix[n]
  <2>1. \A j \in Nodes : Eq(row[j], FemEntry(k, Entities, n, j))
    BY <1>5 DEF FemConstrained
  <2>2. k \in [Entities -> Int]
    <3>1. k \in [Entities -> 1 .. P - 1]
      BY DEF FemType, Problem
    <3>2. QED BY <3>1, Sizes
  <2>3. h = [j \in Nodes |-> row[j] * u[j]]
    OBVIOUS
  <2>4. /\ \A e \in Entities : e \in Nodes /\ e - 1 \in Nodes
        /\ \A j \in Nodes : u[j] \in Int
    BY NodesOf
  <2> HIDE DEF h, row
  <2>5. QED BY <2>1, <2>2, <2>3, <2>4, RowOfFem
<1>6. Total(h, Nodes) \in Field
  BY <1>2, <1>3, TotalSums
<1>7. QED BY <1>2, <1>4, <1>5, <1>6

\* A solver that inverts the constrained matrix of two Dirichlet ends shows
\* that the flux between them does not vanish in the field.
LEMMA RiseNotZero ==
  ASSUME FemType, FemConstrained, Regular(femMatrix, Nodes), boundary.dirichlet = Ends
  PROVE  Total([m \in Entities |-> Reciprocal(k[m])], Entities) # 0
<1> DEFINE T == Total([m \in Entities |-> Reciprocal(k[m])], Entities)
           one == 1
           z == 0
           a(n) == Rise(k, f, one, n)
           b(n) == Rise(k, f, z, n)
           w == [n \in Nodes |-> (a(n) - b(n)) % P]
           A == femMatrix
<1> SUFFICES ASSUME T = 0 PROVE FALSE
  OBVIOUS
<1>1. k \in [Entities -> 1 .. P - 1] /\ f \in [Entities -> Int] /\ Problem(k, f, boundary)
  BY DEF FemType, Problem
<1>2. one \in Int /\ z \in Int
  OBVIOUS
<1> HIDE DEF one, z, T
<1>3. /\ \A n \in Nodes : a(n) \in Int /\ b(n) \in Int
      /\ Eq(a(0), 0) /\ Eq(b(0), 0)
      /\ \A e \in Entities : /\ Eq(k[e] * (a(e) - a(e - 1)), one - Inflow(f, e))
                             /\ Eq(k[e] * (b(e) - b(e - 1)), z - Inflow(f, e))
  BY <1>1, <1>2, RiseIs
<1>4. Eq(a(Size), b(Size) + one * T) /\ T \in Field
  BY <1>1, <1>2, RiseLinear DEF one, z, T
<1> HIDE DEF a, b
<1>5. ASSUME NEW n \in Nodes PROVE w[n] \in Field /\ w[n] \in Int /\ Eq(w[n], a(n) - b(n))
  <2> DEFINE x == a(n) - b(n)
  <2>1. w[n] = x % P /\ x \in Int
    BY <1>3
  <2> HIDE DEF x, w
  <2>2. QED BY <2>1, EqMod DEF x
<1>6. w \in [Nodes -> Field] /\ w \in [Nodes -> Int]
  BY <1>5
<1> HIDE DEF w
<1>7. ASSUME NEW e \in Entities PROVE Eq(k[e] * (w[e] - w[e - 1]), 1)
  <2> DEFINE p == e - 1
             c == k[e]
             ae == a(e)
             be == b(e)
             ap == a(p)
             bp == b(p)
             i == Inflow(f, e)
  <2>1. /\ c \in Int /\ ae \in Int /\ be \in Int /\ ap \in Int /\ bp \in Int /\ i \in Int
        /\ Eq(w[e], ae - be) /\ Eq(w[p], ap - bp)
        /\ Eq(c * (ae - ap), one - i) /\ Eq(c * (be - bp), z - i)
    <3>1. e \in Nodes /\ p \in Nodes
      BY NodesOf
    <3>2. c \in Int /\ i \in Int
      BY <1>1, InflowIs, ProblemInt
    <3>3. QED BY <1>3, <1>5, <3>1, <3>2
  <2> HIDE DEF p, c, ae, be, ap, bp, i
  <2>2. Eq(w[e] - w[p], (ae - be) - (ap - bp))
    BY <2>1, EqSum
  <2>3. Eq(c * (w[e] - w[p]), c * ((ae - be) - (ap - bp)))
    BY <2>1, <2>2, EqRefl, EqTimes
  <2>4. c * ((ae - be) - (ap - bp)) = c * (ae - ap) - c * (be - bp)
    <3> DEFINE x == ae - ap
               y == be - bp
    <3>1. (ae - be) - (ap - bp) = x - y /\ x \in Int /\ y \in Int
      BY <2>1
    <3> HIDE DEF x, y
    <3>2. c * (x - y) = c * x - c * y
      BY <2>1, <3>1
    <3>3. QED BY <3>1, <3>2 DEF x, y
  <2>5. Eq(c * (ae - ap) - c * (be - bp), (one - i) - (z - i))
    BY <2>1, EqSum
  <2>6. (one - i) - (z - i) = 1
    BY <2>1 DEF one, z
  <2>7. Eq(c * (w[e] - w[p]), 1)
    BY <2>3, <2>4, <2>5, <2>6, EqTrans
  <2>8. QED BY <2>7 DEF c, p
<1>8. w[0] = 0 /\ w[Size] = 0
  <2>1. 0 \in Nodes /\ Size \in Nodes /\ 0 \in Field
    BY NodesOf, LastEntity, FieldInt
  <2>2. Eq(a(0) - b(0), 0)
    <3> DEFINE o == 0
    <3>1. o - o = 0 /\ Eq(a(0), o) /\ Eq(b(0), o)
      BY <1>3
    <3> HIDE DEF o
    <3>2. Eq(a(0) - b(0), o - o)
      BY <3>1, EqSum
    <3>3. QED BY <3>1, <3>2
  <2>3. w[0] = 0
    BY <1>5, <2>1, <2>2, EqTrans, EqField
  <2>4. one * T = 0
    BY DEF one
  <2>5. b(Size) \in Int /\ a(Size) \in Int
    BY <1>3, <2>1
  <2>6. Eq(a(Size), b(Size)) /\ Eq(b(Size), b(Size))
    BY <1>4, <2>4, <2>5, EqRefl
  <2>7. Eq(a(Size) - b(Size), b(Size) - b(Size)) /\ b(Size) - b(Size) = 0
    BY <2>5, <2>6, EqSum
  <2>8. w[Size] = 0
    BY <1>5, <2>1, <2>7, EqTrans, EqField
  <2>9. QED BY <2>3, <2>8
<1>9. Apply(A, w, Nodes) = ZeroFunction
  <2>1. ASSUME NEW n \in Nodes PROVE Apply(A, w, Nodes)[n] = 0
    <3> DEFINE h == [j \in Nodes |-> A[n][j] * w[j]]
    <3>1. /\ Total(h, Nodes) \in Field
          /\ n \in boundary.dirichlet => Eq(Total(h, Nodes), w[n])
          /\ n \notin boundary.dirichlet => Eq(Total(h, Nodes), Fall(k, Entities, w, n))
      BY <1>6, ConstrainedRows
    <3>2. Apply(A, w, Nodes)[n] = Total(h, Nodes)
      BY DEF Apply
    <3> HIDE DEF h, A
    <3>3. CASE n \in boundary.dirichlet
      <4>1. w[n] = 0
        BY <1>8, <3>3, LastEntity
      <4>2. QED BY <3>1, <3>2, <3>3, <4>1, EqField, FieldInt
    <3>4. CASE n \notin boundary.dirichlet
      <4> DEFINE q == n + 1
                 x == k[n] * (w[n] - w[n - 1])
                 y == k[q] * (w[q] - w[n])
      <4>1. n \in Entities /\ q \in Entities /\ q - 1 = n
        BY <3>4, NodesOf, LastEntity
      <4>2. Eq(x, 1) /\ Eq(y, 1)
        <5>1. Eq(k[q] * (w[q] - w[q - 1]), 1) /\ Eq(x, 1)
          BY <1>7, <4>1
        <5>2. QED BY <4>1, <5>1
      <4>3. Fall(k, Entities, w, n) = x - y
        BY <4>1 DEF Fall, Part
      <4> HIDE DEF x, y
      <4>4. Eq(x - y, one - one) /\ one - one = 0
        BY <4>2, EqSum DEF one
      <4>5. Eq(Total(h, Nodes), 0)
        BY <3>1, <3>4, <4>3, <4>4, EqTrans
      <4>6. QED BY <3>1, <3>2, <4>5, EqField, FieldInt
    <3>5. QED BY <3>3, <3>4
  <2>2. Apply(A, w, Nodes) = [n \in Nodes |-> Apply(A, w, Nodes)[n]]
    BY DEF Apply
  <2>3. QED BY <2>1, <2>2 DEF ZeroFunction
<1>10. Apply(A, ZeroFunction, Nodes) = ZeroFunction /\ ZeroFunction \in [Nodes -> Field]
  <2>1. ASSUME NEW n \in Nodes PROVE Apply(A, ZeroFunction, Nodes)[n] = 0
    <3> DEFINE h == [j \in Nodes |-> A[n][j] * ZeroFunction[j]]
    <3>1. \A j \in Nodes : A[n][j] \in Int
      BY DEF FemType
    <3>2. \A j \in Nodes : A[n][j] * 0 = 0
      BY <3>1
    <3>3. \A j \in Nodes : h[j] = 0
      BY <3>2 DEF ZeroFunction
    <3>4. Apply(A, ZeroFunction, Nodes)[n] = Total(h, Nodes)
      BY DEF Apply
    <3> HIDE DEF h
    <3>5. \A j \in Nodes : Eq(h[j], 0)
      BY <3>3, EqRefl
    <3>6. Nodes \subseteq Nat
      BY NodesOf
    <3>7. Eq(Total(h, Nodes), 0)
      BY <3>5, <3>6, SumZero
    <3>8. Ints(h, Nodes)
      BY <3>3 DEF Ints
    <3>9. Total(h, Nodes) \in Field
      BY <3>6, <3>8, TotalSums
    <3>10. QED BY <3>4, <3>7, <3>9, EqField, FieldInt
  <2>2. Apply(A, ZeroFunction, Nodes) = [n \in Nodes |-> Apply(A, ZeroFunction, Nodes)[n]]
    BY DEF Apply
  <2>3. QED BY <2>1, <2>2, FieldInt DEF ZeroFunction
<1>11. Nodes \subseteq Nat /\ (\A n \in Nodes : n <= Size) /\ A \in [Nodes -> [Nodes -> Int]]
  BY NodesOf DEF FemType
<1>12. Solution(A, ZeroFunction, Nodes) = w
  BY <1>6, <1>9, <1>11, SolutionUnique, ZenonT(30)
<1>13. Solution(A, ZeroFunction, Nodes) = ZeroFunction
  BY <1>10, <1>11, SolutionUnique
<1>14. 1 \in Entities /\ 1 \in Nodes /\ 0 \in Nodes
  BY NodesOf, LastEntity
<1>15. w[1] = 0
  BY <1>12, <1>13, <1>14 DEF ZeroFunction
<1>16. k[1] * (w[1] - w[1 - 1]) = 0
  <2>1. k[1] \in Int
    BY <1>1, <1>14, ProblemInt
  <2>2. w[1] - w[1 - 1] = 0
    BY <1>8, <1>15
  <2>3. QED BY <2>1, <2>2
<1>17. Eq(0, 1)
  BY <1>7, <1>14, <1>16
<1>18. QED BY <1>17, EqSym, OneNotZero

\* Whichever solver inverts the constrained matrix, and whatever the shift has
\* in the interior: the solution shifted back is the finite element solution.
LEMMA SolveFits ==
  ASSUME FemType, FemConstrained, Solves(femMatrix, femRhs, Nodes)
  PROVE  Plus(Solution(femMatrix, femRhs, Nodes), femShift) = FineSolution(k, f, boundary)
<1> DEFINE A == femMatrix
           D == boundary.dirichlet
           u == FineSolution(k, f, boundary)
           y == [n \in Nodes |-> (u[n] - femShift[n]) % P]
           x == Solution(A, femRhs, Nodes)
<1>1. Regular(A, Nodes) /\ x \in [Nodes -> Field] /\ Apply(A, x, Nodes) = femRhs
  BY DEF Solves
<1>2. Problem(k, f, boundary) /\ femShift \in [Nodes -> Int] /\ A \in [Nodes -> [Nodes -> Int]]
  BY DEF FemType
<1>3. D = Ends => Total([m \in Entities |-> Reciprocal(k[m])], Entities) # 0
  BY <1>1, RiseNotZero
<1>4. /\ u \in [Nodes -> Field]
      /\ \A n \in D : u[n] = boundary.value[n]
      /\ \E J \in Int :
           /\ \A e \in Entities : Eq(k[e] * (u[e] - u[e - 1]), J - Inflow(f, e))
           /\ 0 \notin D => J = 0 - f[1] - boundary.value[0]
           /\ Size \notin D => J = Inflow(f, Size) + f[Size] + boundary.value[Size]
  <2> DEFINE b == boundary
  <2>1. Problem(k, f, b) /\ (b.dirichlet = Ends => Total([m \in Entities |-> Reciprocal(k[m])], Entities) # 0)
    BY <1>2, <1>3
  <2> HIDE DEF b
  <2>2. /\ FineSolution(k, f, b) \in [Nodes -> Field]
        /\ \A n \in b.dirichlet : FineSolution(k, f, b)[n] = b.value[n]
        /\ \E J \in Int :
             /\ \A e \in Entities :
                  Eq(k[e] * (FineSolution(k, f, b)[e] - FineSolution(k, f, b)[e - 1]), J - Inflow(f, e))
             /\ 0 \notin b.dirichlet => J = 0 - f[1] - b.value[0]
             /\ Size \notin b.dirichlet => J = Inflow(f, Size) + f[Size] + b.value[Size]
    BY <2>1, FineFits
  <2>3. QED BY <2>2 DEF b
<1> HIDE DEF u, x
<1>5. u \in [Nodes -> Int] /\ \A n \in Nodes : u[n] \in Int /\ femShift[n] \in Int
  BY <1>2, <1>4, FieldInt
<1>6. ASSUME NEW n \in Nodes PROVE y[n] \in Field /\ y[n] \in Int /\ Eq(y[n], u[n] - femShift[n])
  <2> DEFINE d == u[n] - femShift[n]
  <2>1. y[n] = d % P /\ d \in Int
    BY <1>5
  <2> HIDE DEF d, y
  <2>2. QED BY <2>1, EqMod DEF d
<1>7. y \in [Nodes -> Field] /\ y \in [Nodes -> Int]
  BY <1>6
<1> HIDE DEF y
<1>8. Nodes \subseteq Nat /\ (\A n \in Nodes : n <= Size)
  BY NodesOf
<1>9. ASSUME NEW n \in Nodes PROVE Apply(A, y, Nodes)[n] = femRhs[n]
  <2> DEFINE h == [j \in Nodes |-> A[n][j] * y[j]]
             hu == [j \in Nodes |-> A[n][j] * u[j]]
             hs == [j \in Nodes |-> A[n][j] * femShift[j]]
             one == 1
             minus == -1
  <2>1. Apply(A, y, Nodes)[n] = Total(h, Nodes)
    BY DEF Apply
  <2>2. /\ Ints(h, Nodes) /\ Total(h, Nodes) \in Field
        /\ n \in D => Eq(Total(h, Nodes), y[n])
    BY <1>7, ConstrainedRows
  <2>3. /\ Ints(hu, Nodes) /\ Total(hu, Nodes) \in Field
        /\ n \notin D => Fall(k, Entities, u, n) \in Int /\ Eq(Total(hu, Nodes), Fall(k, Entities, u, n))
    BY <1>5, ConstrainedRows
  <2>4. Ints(hs, Nodes) /\ Total(hs, Nodes) \in Field
    BY <1>2, ConstrainedRows
  <2>5. CASE n \in D
    <3>1. femRhs[n] = 0 /\ femShift[n] = boundary.value[n] /\ u[n] = boundary.value[n]
      BY <1>4, <2>5 DEF FemConstrained
    <3>2. u[n] - femShift[n] = 0
      BY <1>5, <3>1
    <3> HIDE DEF h
    <3>3. Eq(Total(h, Nodes), 0)
      BY <1>6, <2>2, <2>5, <3>2, EqTrans
    <3>4. QED BY <2>1, <2>2, <3>1, <3>3, EqField, FieldInt
  <2>6. CASE n \notin D
    <3>1. /\ femRhs[n] \in Field
          /\ Eq(femRhs[n], FemLoad(f, boundary, Entities, n) - Total(hs, Nodes))
      BY <2>6 DEF FemConstrained
    <3>2. Eq(Fall(k, Entities, u, n), FemLoad(f, boundary, Entities, n))
      BY <1>2, <1>4, <1>5, <2>6, FluxesBalance
    <3>3. one \in Int /\ minus \in Int
      OBVIOUS
    <3>4. ASSUME NEW j \in Nodes PROVE Eq(h[j], one * hu[j] + minus * hs[j])
      <4> DEFINE c == A[n][j]
                 v == u[j]
                 s == femShift[j]
      <4>1. c \in Int /\ v \in Int /\ s \in Int /\ Eq(y[j], v - s)
        BY <1>2, <1>5, <1>6
      <4>2. h[j] = c * y[j] /\ hu[j] = c * v /\ hs[j] = c * s
        OBVIOUS
      <4> HIDE DEF c, v, s, h, hu, hs
      <4>3. Eq(c * y[j], c * (v - s))
        BY <4>1, EqRefl, EqTimes
      <4>4. c * (v - s) = 1 * (c * v) + (-1) * (c * s)
        BY <4>1
      <4>5. QED BY <4>2, <4>3, <4>4
    <3> HIDE DEF h, hu, hs, one, minus
    <3>5. Eq(Total(h, Nodes), one * Total(hu, Nodes) + minus * Total(hs, Nodes))
      BY <1>8, <2>3, <2>4, <3>3, <3>4, SumLinear
    <3>6. Total(hu, Nodes) \in Int /\ Total(hs, Nodes) \in Int
      BY <2>3, <2>4, FieldInt
    <3>7. one * Total(hu, Nodes) + minus * Total(hs, Nodes) = Total(hu, Nodes) - Total(hs, Nodes)
      BY <3>6 DEF one, minus
    <3>8. Eq(Total(hu, Nodes), FemLoad(f, boundary, Entities, n)) /\ Eq(Total(hs, Nodes), Total(hs, Nodes))
      BY <2>3, <2>6, <3>2, <3>6, EqRefl, EqTrans
    <3>9. Eq(Total(hu, Nodes) - Total(hs, Nodes), FemLoad(f, boundary, Entities, n) - Total(hs, Nodes))
      BY <3>8, EqSum
    <3>10. Eq(FemLoad(f, boundary, Entities, n) - Total(hs, Nodes), femRhs[n])
      BY <3>1, EqSym
    <3>11. Eq(Total(h, Nodes), femRhs[n])
      BY <3>5, <3>7, <3>9, <3>10, EqTrans
    <3>12. QED BY <2>1, <2>2, <3>1, <3>11, EqField
  <2>7. QED BY <2>5, <2>6
<1>10. Apply(A, y, Nodes) = femRhs
  <2>1. Apply(A, y, Nodes) = [n \in Nodes |-> Apply(A, y, Nodes)[n]]
    BY DEF Apply
  <2>2. femRhs = [n \in Nodes |-> femRhs[n]]
    BY DEF FemType
  <2>3. QED BY <1>9, <2>1, <2>2
<1>11. Solution(A, femRhs, Nodes) = y
  BY <1>1, <1>2, <1>7, <1>8, <1>10, SolutionUnique
<1>12. ASSUME NEW n \in Nodes PROVE ((1 * y[n] + 1 * femShift[n]) % P) = u[n]
  <2> DEFINE s == femShift[n]
             r == 1 * y[n] + 1 * s
             q == r % P
             v == u[n]
  <2>1. r = y[n] + s /\ r \in Int /\ s \in Int /\ v \in Int /\ v \in Field /\ Eq(y[n], v - s)
    BY <1>4, <1>5, <1>6
  <2> HIDE DEF r, s, v
  <2>2. Eq(q, r) /\ q \in Field
    BY <2>1, EqMod
  <2> HIDE DEF q
  <2>3. Eq(s, s) /\ (v - s) + s = v
    BY <2>1, EqRefl
  <2>4. Eq(r, v)
    BY <2>1, <2>3, EqSum
  <2>5. q = v
    BY <2>1, <2>2, <2>4, EqTrans, EqField
  <2>6. QED BY <2>5 DEF q, r, s, v
<1>13. u = [n \in Nodes |-> u[n]]
  BY <1>4
<1>14. Plus(y, femShift) = u
  BY <1>12, <1>13 DEF Plus, Combination
<1>15. QED BY <1>11, <1>14 DEF u

\* A run begins with the solver idle.
LEMMA InitFem == ComparedInit => FemInv
<1> SUFFICES ASSUME ComparedInit PROVE FemInv
  OBVIOUS
<1>1. Problem(k, f, boundary)
  <2>1. k \in [Entities -> 1 .. P - 1] /\ f \in [Entities -> Field]
        /\ boundary \in [value : [Ends -> Field], neumann : [Ends -> Field], dirichlet : (SUBSET Ends) \ {{}}, sub : SubInfos]
    BY DataAssumption DEF ComparedInit, Init, BoundaryData
  <2>2. f \in [Entities -> Int]
    BY <2>1, FieldInt
  <2>3. QED BY <2>1, <2>2 DEF Problem
<1>2. /\ femMatrix = [m \in Nodes |-> ZeroFunction] /\ femRhs = ZeroFunction /\ femShift = ZeroFunction
      /\ solution = ZeroFunction /\ walk = {} /\ phase = "idle" /\ calls = 0
  BY FemSets DEF ComparedInit, Fem!Init, Fem!ZeroFunction, ZeroFunction
<1>3. FemType
  BY <1>1, <1>2 DEF FemType, ZeroFunction
<1>4. QED BY <1>2, <1>3 DEF FemInv

\* A sum in the field, by numbers that are the same there.
LEMMA EqAdded ==
  ASSUME NEW m, NEW x, Eq(m, x), NEW y \in Int
  PROVE  Eq(((m + y) % P), x + y) /\ ((m + y) % P) \in Int
<1> DEFINE a == m + y
<1>1. m \in Int /\ x \in Int
  BY DEF Eq
<1>2. Eq(a, x + y) /\ a \in Int
  BY <1>1, EqRefl, EqSum
<1> HIDE DEF a
<1>3. Eq((a % P), a) /\ (a % P) \in Int
  BY <1>2, EqMod
<1>4. QED BY <1>2, <1>3, EqTrans DEF a

\* A call begins with a new system: no cell has been come to.
LEMMA FemBeginStep == ASSUME FemInv, FemBegins PROVE FemInv'
<1>1. FemType
  BY DEF FemInv
<1>2. FemType'
  BY <1>1 DEF FemType, Problem, ZeroFunction, FemBegins
<1>3. ASSUME NEW m \in Nodes, NEW n \in Nodes
      PROVE  /\ Eq(femMatrix'[m][n], FemEntry(k, {}, m, n)) /\ Eq(femRhs'[m], FemLoad(f, boundary, {}, m))
  <2>1. femMatrix'[m][n] = 0 /\ femRhs'[m] = 0
    BY DEF ZeroFunction, FemBegins
  <2>2. FemEntry(k, {}, m, n) = 0 - 0 /\ FemLoad(f, boundary, {}, m) = 0 + 0
    BY DEF FemEntry, FemLoad, Part
  <2>3. QED BY <2>1, <2>2, EqRefl
<1>4. Entities \ walk' = {} /\ phase' = "assemble" /\ UNCHANGED <<k, f, boundary>>
  BY DEF FemBegins
<1>5. FemAssembled'
  BY <1>3, <1>4 DEF FemAssembled
<1>6. QED BY <1>2, <1>4, <1>5 DEF FemInv

\* A micro cell adds its entries, in whichever order the threads come.
LEMMA FemWalkStep == ASSUME FemInv, NEW e \in Entities, FemWalks(e) PROVE FemInv'
<1> DEFINE es == Entities \ walk
           fe == es \cup {e}
<1>1. FemType /\ FemAssembled /\ Problem(k, f, boundary)
  BY DEF FemInv, FemType, FemWalks
<1>2. /\ es \subseteq Entities /\ e \notin es /\ Entities \ walk' = fe
      /\ phase = "assemble" /\ UNCHANGED <<k, f, boundary, calls, phase, solution>>
  BY DEF FemWalks
<1>3. \A n \in Nodes : Fem!Flux(n) = FluxOf(boundary, n)
  BY FemSets DEF Fem!Flux, FluxOf
<1>4. ASSUME NEW m \in Nodes, NEW n \in Nodes
      PROVE  /\ femMatrix'[m][n] \in Int /\ Eq(femMatrix'[m][n], FemEntry(k, fe, m, n))
             /\ femRhs'[m] \in Int /\ Eq(femRhs'[m], FemLoad(f, boundary, fe, m))
  <2> DEFINE a == femMatrix[m][n]
             r == femRhs[m]
             b == FemBlock(k, e, m, n)
             s == FemShare(f, boundary, e, m)
             x == FemEntry(k, es, m, n)
             y == FemLoad(f, boundary, es, m)
  <2>1. Eq(a, x) /\ Eq(r, y)
    BY <1>1 DEF FemAssembled
  <2>2. /\ b \in Int /\ s \in Int /\ FemEntry(k, fe, m, n) = x + b
        /\ FemLoad(f, boundary, fe, m) = y + s
    <3>1. es \subseteq Entities /\ e \notin es
      BY <1>2
    <3> HIDE DEF es
    <3>2. /\ FemBlock(k, e, m, n) \in Int /\ FemShare(f, boundary, e, m) \in Int
          /\ FemEntry(k, es \cup {e}, m, n) = FemEntry(k, es, m, n) + FemBlock(k, e, m, n)
          /\ FemLoad(f, boundary, es \cup {e}, m) = FemLoad(f, boundary, es, m) + FemShare(f, boundary, e, m)
      BY <1>1, <3>1, FemEntryGrows
    <3>3. QED BY <3>2
  <2>3. femMatrix'[m][n] = IF {m, n} \subseteq {e - 1, e} THEN (a + b) % P ELSE a
    BY DEF FemBlock, FemWalks
  <2>4. femRhs'[m] = IF m \in {e - 1, e} THEN (r + s) % P ELSE r
    <3>1. CASE m \in {e - 1, e}
      <4>1. s = Load(f, Hat(m), e) + FluxOf(boundary, m)
        BY <3>1 DEF FemShare
      <4>2. Load(f, Hat(m), e) \in Int /\ FluxOf(boundary, m) \in Int /\ r \in Int
        <5>1. f[e] \in Int
          BY <1>1, ProblemInt
        <5>2. Load(f, Hat(m), e) = f[e] * 1
          BY <3>1, HatSlope DEF Load
        <5>3. QED BY <1>1, <5>1, <5>2, ProblemInt DEF FemType
      <4>3. r + Load(f, Hat(m), e) + FluxOf(boundary, m) = r + s
        BY <4>1, <4>2
      <4>4. femRhs'[m] = (r + Load(f, Hat(m), e) + FluxOf(boundary, m)) % P
        BY <1>3, <3>1 DEF FemWalks
      <4>5. QED BY <3>1, <4>3, <4>4
    <3>2. CASE m \notin {e - 1, e}
      BY <3>2 DEF FemWalks
    <3>3. QED BY <3>1, <3>2
  <2>5. ({m, n} \subseteq {e - 1, e} \/ b = 0) /\ (m \in {e - 1, e} \/ s = 0)
    BY DEF FemBlock, FemShare
  <2> HIDE DEF a, r, b, s, x, y
  <2>6. Eq(((a + b) % P), x + b) /\ Eq(((r + s) % P), y + s)
    BY <2>1, <2>2, EqAdded
  <2>7. (b = 0 => x + b = x) /\ (s = 0 => y + s = y)
    BY <2>1 DEF Eq
  <2>8. Eq(femMatrix'[m][n], x + b)
    BY <2>1, <2>3, <2>5, <2>6, <2>7
  <2>9. Eq(femRhs'[m], y + s)
    BY <2>1, <2>4, <2>5, <2>6, <2>7
  <2>10. QED BY <2>2, <2>8, <2>9 DEF Eq
<1>5. ASSUME NEW m \in Nodes
      PROVE  /\ femShift'[m] \in Int
             /\ m \in boundary.dirichlet /\ {m, m + 1} \cap fe # {} => femShift'[m] = boundary.value[m]
  <2>1. femShift[m] \in Int /\ m \in Int /\ e \in Int
    BY <1>1, NodesOf DEF FemType
  <2>2. m \in boundary.dirichlet /\ {m, m + 1} \cap es # {} => femShift[m] = boundary.value[m]
    BY <1>1 DEF FemAssembled
  <2>3. m \in boundary.dirichlet => boundary.value[m] \in Int
    BY <1>1, ProblemInt
  <2>4. {m, m + 1} \cap fe # {} => {m, m + 1} \cap es # {} \/ m \in {e - 1, e}
    BY <2>1
  <2>5. QED BY <2>1, <2>2, <2>3, <2>4 DEF FemWalks
<1>6. FemType'
  <2>1. femMatrix' \in [Nodes -> [Nodes -> Int]]
    <3>1. femMatrix' = [m \in Nodes |-> femMatrix'[m]]
          /\ \A m \in Nodes : femMatrix'[m] = [n \in Nodes |-> femMatrix'[m][n]]
      BY DEF FemWalks
    <3>2. QED BY <1>4, <3>1
  <2>2. femRhs' \in [Nodes -> Int]
    <3>1. femRhs' = [m \in Nodes |-> femRhs'[m]]
      BY DEF FemWalks
    <3>2. QED BY <1>4, <3>1
  <2>3. femShift' \in [Nodes -> Int]
    <3>1. femShift' = [m \in Nodes |-> femShift'[m]]
      BY DEF FemWalks
    <3>2. QED BY <1>5, <3>1
  <2>4. QED BY <1>1, <1>2, <2>1, <2>2, <2>3 DEF FemType, Problem, FemWalks
<1>7. FemAssembled'
  BY <1>2, <1>4, <1>5 DEF FemAssembled
<1>8. QED BY <1>2, <1>6, <1>7 DEF FemInv

\* The walk is over: the Dirichlet values are lifted, the free dofs are left.
LEMMA FemConstrainStep == ASSUME FemInv, FemConstrains PROVE FemInv'
<1> DEFINE D == boundary.dirichlet
           lift(m) == Total([n \in Nodes |-> femMatrix[m][n] * femShift[n]], Nodes)
<1>1. /\ FemType /\ FemAssembled /\ Problem(k, f, boundary) /\ Entities \ walk = Entities
      /\ phase' = "solve" /\ UNCHANGED <<k, f, boundary, calls, walk, femShift, solution>>
  BY DEF FemInv, FemType, FemConstrains
<1>2. ASSUME NEW m \in Nodes
      PROVE  /\ \A n \in Nodes : femMatrix'[m][n] = IF m \notin D THEN femMatrix[m][n] ELSE IF m = n THEN 1 ELSE 0
             /\ femMatrix'[m] = [n \in Nodes |-> IF m \notin D THEN femMatrix[m][n] ELSE IF m = n THEN 1 ELSE 0]
             /\ femRhs'[m] = IF m \in D THEN 0 ELSE (femRhs[m] - lift(m)) % P
  BY DEF ConstrainedMatrix, ConstrainedVector, Apply, FemConstrains
<1>3. ASSUME NEW m \in Nodes
      PROVE  /\ lift(m) \in Int
             /\ Eq(((femRhs[m] - lift(m)) % P), FemLoad(f, boundary, Entities, m) - lift(m))
             /\ ((femRhs[m] - lift(m)) % P) \in Field
  <2> DEFINE h == [n \in Nodes |-> femMatrix[m][n] * femShift[n]]
             x == femRhs[m]
             y == FemLoad(f, boundary, Entities, m)
             t == Total(h, Nodes)
             d == x - t
  <2>1. Eq(x, y)
    BY <1>1 DEF FemAssembled
  <2>2. \A n \in Nodes : femMatrix[m][n] \in Int /\ femShift[n] \in Int
    BY <1>1 DEF FemType
  <2>3. \A n \in Nodes : femMatrix[m][n] * femShift[n] \in Int
    BY <2>2
  <2>4. Ints(h, Nodes) /\ Nodes \subseteq Nat
    BY <2>3, NodesOf DEF Ints
  <2>5. t \in Int
    <3> HIDE DEF h
    <3>1. QED BY <2>4, TotalSums
  <2> HIDE DEF h, x, y, t
  <2>6. Eq(d, y - t) /\ d \in Int
    <3>1. Eq(t, t)
      BY <2>5, EqRefl
    <3>2. Eq(d, y - t)
      BY <2>1, <3>1, EqSum
    <3>3. QED BY <3>2 DEF Eq
  <2> HIDE DEF d
  <2>7. Eq((d % P), d) /\ (d % P) \in Field
    BY <2>6, EqMod
  <2>8. Eq((d % P), y - t)
    BY <2>6, <2>7, EqTrans
  <2>9. QED BY <2>5, <2>7, <2>8 DEF d, t, h, x, y
<1>4. ASSUME NEW m \in Nodes, m \in D PROVE femShift[m] = boundary.value[m]
  <2>1. {m, m + 1} \cap (Entities \ walk) # {}
    BY <1>1, NodesOf
  <2>2. QED BY <1>1, <1>4, <2>1 DEF FemAssembled
<1> HIDE DEF lift
<1>5. FemType'
  <2>1. femMatrix' = [m \in Nodes |-> femMatrix'[m]] /\ femRhs' = [m \in Nodes |-> femRhs'[m]]
    BY DEF ConstrainedMatrix, ConstrainedVector, FemConstrains
  <2>2. ASSUME NEW m \in Nodes PROVE femMatrix'[m] \in [Nodes -> Int]
    <3>1. \A n \in Nodes : (IF m \notin D THEN femMatrix[m][n] ELSE IF m = n THEN 1 ELSE 0) \in Int
      BY <1>1 DEF FemType
    <3>2. QED BY <1>2, <3>1
  <2>3. \A m \in Nodes : femRhs'[m] \in Int
    BY <1>2, <1>3, FieldInt
  <2>4. femMatrix' \in [Nodes -> [Nodes -> Int]]
    BY <2>1, <2>2
  <2>5. femRhs' \in [Nodes -> Int]
    BY <2>1, <2>3
  <2>6. QED BY <1>1, <2>4, <2>5 DEF FemType, Problem
<1>6. FemConstrained'
  <2> SUFFICES ASSUME NEW m \in Nodes
               PROVE  IF m \in D
                      THEN /\ femShift[m] = boundary.value[m]
                           /\ femRhs'[m] = 0
                           /\ \A n \in Nodes : femMatrix'[m][n] = IF m = n THEN 1 ELSE 0
                      ELSE /\ \A n \in Nodes : Eq(femMatrix'[m][n], FemEntry(k, Entities, m, n))
                           /\ femRhs'[m] \in Field
                           /\ Eq(femRhs'[m], FemLoad(f, boundary, Entities, m)
                                               - Total([n \in Nodes |-> femMatrix'[m][n] * femShift[n]], Nodes))
    BY <1>1 DEF FemConstrained
  <2>1. CASE m \in D
    BY <1>2, <1>4, <2>1
  <2>2. CASE m \notin D
    <3>1. \A n \in Nodes : femMatrix'[m][n] = femMatrix[m][n]
      BY <1>2, <2>2
    <3>2. \A n \in Nodes : Eq(femMatrix'[m][n], FemEntry(k, Entities, m, n))
      BY <1>1, <3>1 DEF FemAssembled
    <3>3. [n \in Nodes |-> femMatrix'[m][n] * femShift[n]] = [n \in Nodes |-> femMatrix[m][n] * femShift[n]]
      BY <3>1
    <3>4. Total([n \in Nodes |-> femMatrix'[m][n] * femShift[n]], Nodes) = lift(m)
      BY <3>3 DEF lift
    <3>5. QED BY <1>2, <1>3, <2>2, <3>2, <3>4
  <2>3. QED BY <2>1, <2>2
<1>7. QED BY <1>1, <1>5, <1>6 DEF FemInv

\* The solver has solved the system, or has thrown.
LEMMA FemSolveStep == ASSUME FemInv, FemReturns PROVE FemInv'
<1>1. FemType /\ FemConstrained /\ UNCHANGED <<k, f, boundary, calls, walk, femMatrix, femRhs, femShift>>
  BY DEF FemInv, FemReturns
<1>2. CASE Solves(femMatrix, femRhs, Nodes) /\ phase' = "idle"
           /\ solution' = Plus(Solution(femMatrix, femRhs, Nodes), femShift)
  <2>1. solution' = FineSolution(k, f, boundary)
    BY <1>1, <1>2, SolveFits
  <2>2. \A n \in Nodes : solution'[n] \in Int /\ solution' = [m \in Nodes |-> solution'[m]]
    <3> SUFFICES ASSUME NEW n \in Nodes PROVE solution'[n] \in Int /\ solution' = [m \in Nodes |-> solution'[m]]
      OBVIOUS
    <3> DEFINE v == Solution(femMatrix, femRhs, Nodes)
               d == 1 * v[n] + 1 * femShift[n]
    <3>1. v \in [Nodes -> Field]
      BY <1>2 DEF Solves
    <3>2. v[n] \in Int /\ femShift[n] \in Int
      BY <1>1, <3>1, FieldInt DEF FemType
    <3>3. solution'[n] = d % P /\ d \in Int /\ solution' = [m \in Nodes |-> solution'[m]]
      BY <1>2, <3>2 DEF Plus, Combination
    <3> HIDE DEF d
    <3>4. (d % P) \in Int
      BY <3>3, EqMod
    <3>5. QED BY <3>3, <3>4
  <2>3. solution' \in [Nodes -> Int]
    <3>1. Size \in Nodes
      BY NodesOf, LastEntity
    <3>2. QED BY <2>2, <3>1
  <2>4. FemType'
    BY <1>1, <2>3 DEF FemType, Problem
  <2>5. (FineSolution(k, f, boundary))' = FineSolution(k, f, boundary)
    BY <1>1
  <2>6. QED BY <1>2, <2>1, <2>4, <2>5 DEF FemInv
<1>3. CASE phase' = "thrown" /\ solution' = solution
  BY <1>1, <1>3 DEF FemInv, FemType, Problem
<1>4. QED BY <1>2, <1>3 DEF FemReturns

\* Steps of the multiscale method leave the reference solver alone.
LEMMA FemStutter ==
  ASSUME FemInv, UNCHANGED <<k, f, boundary, femVars>>
  PROVE  FemInv'
BY DEF FemInv, FemType, Problem, FemAssembled, FemConstrained, femVars

\* Every step of a run keeps the invariant.
LEMMA FemNext == FemInv /\ [ComparedNext]_comparedVars => FemInv'
<1> SUFFICES ASSUME FemInv, [ComparedNext]_comparedVars PROVE FemInv'
  OBVIOUS
<1>1. CASE Multiscale
  <2>1. UNCHANGED <<k, f, boundary, femVars>>
    BY <1>1 DEF Multiscale, Next, SolveLocal, WalkCell, Constrain, ApplyInverse, IdentifyCell, data
  <2>2. QED BY <2>1, FemStutter
<1>2. CASE Reference
  <2>1. Fem!Next
    BY <1>2 DEF Reference
  <2>2. QED BY <2>1, FemStep, FemBeginStep, FemWalkStep, FemConstrainStep, FemSolveStep
<1>3. CASE UNCHANGED comparedVars
  <2>1. UNCHANGED <<k, f, boundary, femVars>>
    BY <1>3 DEF comparedVars, vars, data
  <2>2. QED BY <2>1, FemStutter
<1>4. QED BY <1>1, <1>2, <1>3 DEF ComparedNext

(* In every call of the reference solver, from whichever solution it       *)
(* starts and in whichever order the threads walk, the system in each      *)
(* phase is that of the micro cells come to, of the Dirichlet values and   *)
(* of the shift, and a call that returns has left the finite element       *)
(* solution.                                                               *)
THEOREM ReferenceFits == ComparedSpec => []FemInv
<1>1. QED BY InitFem, FemNext, PTL DEF ComparedSpec

(* EveryCallSolves for every grid, coefficient, source, boundary, number   *)
(* of calls and every linear solver that inverts what it does not throw    *)
(* on: the interior dofs that the shift has from the solution of an        *)
(* earlier call (fem_solver.cc:76-83, 127) are taken off by the lifted     *)
(* system.                                                                 *)
THEOREM EveryCallSolvesHolds == ComparedSpec => []EveryCallSolves
<1>1. FemInv => EveryCallSolves
  BY FemFine DEF FemInv, EveryCallSolves, Fem!EveryCallSolves
<1>2. QED BY <1>1, ReferenceFits, PTL

---------------------------------------------------------------------------
(* The local problems, and when the coarse system is regular               *)

\* The local grid of a coarse cell, by its first and its last node.
Left(c) == IF layers <= At(c - 1) THEN At(c - 1) - layers ELSE 0
Right(c) == IF At(c) + layers <= Size THEN At(c) + layers ELSE Size
Around(c) == Touched(Patch(c))

\* It is an interval around the cell, and the cell without layers.
LEMMA PatchIs ==
  ASSUME layers \in Nat, NEW c \in Cells
  PROVE  /\ Left(c) \in Nat /\ Right(c) \in Nat /\ Left(c) < Right(c) /\ Right(c) <= Size
         /\ Left(c) <= At(c - 1) /\ At(c) <= Right(c)
         /\ Patch(c) = {n \in Nat : Left(c) < n /\ n <= Right(c)}
         /\ Patch(c) \subseteq Entities /\ Micros(c) \subseteq Patch(c)
         /\ Around(c) = Left(c) .. Right(c) /\ Around(c) \subseteq Nodes
         /\ \A e \in Patch(c) : e \in Around(c) /\ e - 1 \in Around(c)
         /\ layers = 0 => Left(c) = At(c - 1) /\ Right(c) = At(c) /\ Patch(c) = Micros(c)
<1> DEFINE a == At(c - 1)
           b == At(c)
           l == Left(c)
           r == Right(c)
<1>1. a \in Nat /\ b \in Nat /\ b = a + Micro /\ b <= Size /\ Micro \in Nat /\ Micro >= 1 /\ Size \in Nat
  BY CellRange, Sizes
<1>2. Patch(c) = {e \in Entities : a - layers < e /\ e <= b + layers} /\ Entities = 1 .. Size /\ Nodes = 0 .. Size
  BY Grid DEF Patch
<1>3. Micros(c) = {n \in Nat : a < n /\ n <= b}
  BY CellRange
<1>4. l = (IF layers <= a THEN a - layers ELSE 0) /\ r = (IF b + layers <= Size THEN b + layers ELSE Size)
  BY DEF Left, Right
<1> HIDE DEF a, b, l, r
<1>5. l \in Nat /\ r \in Nat /\ l < r /\ r <= Size /\ l <= a /\ b <= r
  BY <1>1, <1>4
<1>6. Patch(c) = {n \in Nat : l < n /\ n <= r}
  BY <1>1, <1>2, <1>4
<1>7. Patch(c) \subseteq Entities /\ Micros(c) \subseteq Patch(c)
  BY <1>1, <1>2, <1>3, <1>5, <1>6
<1>8. Around(c) = l .. r
  <2>1. Around(c) = Patch(c) \cup {e - 1 : e \in Patch(c)}
    BY DEF Around, Touched
  <2>2. ASSUME NEW n \in l .. r PROVE n \in Around(c)
    <3>1. CASE n = l
      <4>1. n + 1 \in Patch(c) /\ (n + 1) - 1 = n
        BY <1>5, <1>6, <3>1
      <4>2. QED BY <2>1, <4>1
    <3>2. CASE n # l
      BY <1>5, <1>6, <2>1, <3>2
    <3>3. QED BY <3>1, <3>2
  <2>3. ASSUME NEW n \in Around(c) PROVE n \in l .. r
    BY <1>5, <1>6, <2>1
  <2>4. QED BY <2>2, <2>3
<1>9. \A e \in Patch(c) : e \in Around(c) /\ e - 1 \in Around(c)
  BY <1>5, <1>6, <1>8
<1>10. Around(c) \subseteq Nodes
  <2>1. l .. r \subseteq 0 .. Size
    BY <1>1, <1>5
  <2>2. QED BY <1>2, <1>8, <2>1
<1>11. layers = 0 => l = a /\ r = b
  BY <1>1, <1>4
<1>12. layers = 0 => Patch(c) = Micros(c)
  BY <1>3, <1>6, <1>11
<1>13. QED BY <1>5, <1>6, <1>7, <1>8, <1>9, <1>10, <1>11, <1>12 DEF a, b, l, r

\* All the local grids have both borders closed, or each has one free.
Closed == boundary.sub = "AllDirichlet" \/ boundary.dirichlet = Ends

\* The border where the local problems are zero.
LEMMA BorderIs ==
  ASSUME layers \in Nat, SystemType, NEW c \in Cells
  PROVE  /\ LocalBorder(c) \subseteq {Left(c), Right(c)}
         /\ LocalBorder(c) \subseteq Around(c)
         /\ Closed => LocalBorder(c) = {Left(c), Right(c)}
         /\ ~Closed => LocalBorder(c) = {Left(c)} \/ LocalBorder(c) = {Right(c)}
         /\ Closed <=> ~(Cardinality(LocalBorder(c)) < 2)
<1> DEFINE l == Left(c)
           r == Right(c)
           D == IF boundary.sub = "AllDirichlet" THEN Ends ELSE boundary.dirichlet
<1>1. l \in Nat /\ r \in Nat /\ l < r /\ Around(c) = l .. r
  BY PatchIs
<1> HIDE DEF l, r
<1>2. Min(l .. r) = l /\ Max(l .. r) = r
  <2>1. /\ l \in l .. r /\ \A y \in l .. r : l <= y
        /\ r \in l .. r /\ \A y \in l .. r : r >= y
    BY <1>1
  <2>2. \A x \in l .. r : (\A y \in l .. r : x <= y) => x = l
    BY <1>1
  <2>3. \A x \in l .. r : (\A y \in l .. r : x >= y) => x = r
    BY <1>1
  <2>4. QED BY <2>1, <2>2, <2>3 DEF Min, Max
<1>3. Ends = {0, Size} /\ 0 # Size
  BY LastEntity
<1>4. LocalBorder(c) = {[d \in Ends |-> IF d = 0 THEN l ELSE r][n] : n \in D}
  BY <1>1, <1>2 DEF LocalBorder, Around
<1>5. D \in (SUBSET Ends) \ {{}} /\ (D = Ends <=> Closed)
  BY DEF SystemType, Closed
<1> HIDE DEF D
<1>6. LocalBorder(c) = {IF n = 0 THEN l ELSE r : n \in D}
  BY <1>4, <1>5
<1>7. LocalBorder(c) \subseteq {l, r}
  BY <1>6
<1>8. CASE Closed
  <2>1. LocalBorder(c) = {l, r}
    BY <1>3, <1>5, <1>6, <1>8
  <2>2. Cardinality({l, r}) = 2
    <3>1. IsFiniteSet({l}) /\ Cardinality({l}) = 1
      BY FS_Singleton, Zenon
    <3>4. r \notin {l}
      BY <1>1
    <3>2. {l, r} = {l} \cup {r}
      OBVIOUS
    <3>3. Cardinality({l} \cup {r}) = 1 + 1
      BY <3>1, <3>4, FS_AddElement
    <3>5. QED BY <3>2, <3>3
  <2>3. QED BY <1>1, <1>8, <2>1, <2>2 DEF l, r
<1>9. CASE ~Closed
  <2>1. D = {0} \/ D = {Size}
    BY <1>3, <1>5, <1>9
  <2>2. LocalBorder(c) = {l} \/ LocalBorder(c) = {r}
    BY <1>3, <1>6, <2>1
  <2>3. Cardinality({l}) = 1 /\ Cardinality({r}) = 1
    BY FS_Singleton, Zenon
  <2>4. LocalBorder(c) \subseteq Around(c) /\ Cardinality(LocalBorder(c)) < 2
    <3>1. {l} \subseteq Around(c) /\ {r} \subseteq Around(c)
      BY <1>1
    <3>2. LocalBorder(c) \subseteq Around(c)
      BY <2>2, <3>1
    <3>3. Cardinality(LocalBorder(c)) = 1
      BY <2>2, <2>3
    <3>4. QED BY <3>2, <3>3
  <2>5. QED BY <1>7, <1>9, <2>2, <2>4 DEF l, r
<1>10. QED BY <1>8, <1>9

\* The sum of a flux tested with the hat function of a node.
LEMMA HatSum ==
  ASSUME NEW es, es \subseteq Entities, NEW n \in Nodes, NEW g, \A e \in es : g[e] \in Int,
         NEW h, \A e \in es : h[e] = g[e] * Slope(e, n)
  PROVE  /\ Part(n, es, g[n]) \in Int /\ Part(n + 1, es, g[n + 1]) \in Int
         /\ Ints(h, es)
         /\ Eq(Total(h, es), Part(n, es, g[n]) - Part(n + 1, es, g[n + 1]))
<1> DEFINE q == n + 1
           x == Part(n, es, g[n])
           y == Part(q, es, g[q])
<1>1. es \subseteq Nodes /\ es \subseteq Nat /\ n \in Nat /\ q \in Nat /\ q - 1 = n /\ n # q
  BY NodesOf
<1> HIDE DEF q
<1>2. \A e \in es : g[e] \in Int /\ Slope(e, n) \in Int
  BY DEF Slope
<1>3. \A e \in es : h[e] \in Int
  BY <1>2
<1>4. Ints(h, es)
  BY <1>3 DEF Ints
<1>5. n \in es => h[n] = g[n] /\ x = g[n]
  <2>1. Slope(n, n) = 1
    BY DEF Slope
  <2>2. n \in es => g[n] * 1 = g[n]
    BY <1>2
  <2>3. QED BY <2>1, <2>2 DEF Part
<1>6. q \in es => h[q] = 0 - g[q] /\ y = g[q]
  <2>1. Slope(q, n) = -1
    BY <1>1 DEF Slope
  <2>2. q \in es => g[q] * (-1) = 0 - g[q]
    BY <1>2
  <2>3. QED BY <2>1, <2>2 DEF Part
<1>7. (n \notin es => x = 0) /\ (q \notin es => y = 0)
  BY DEF Part
<1>8. x \in Int /\ y \in Int
  BY <1>2, <1>5, <1>6, <1>7
<1>9. \A e \in es \ {n, q} : Eq(h[e], 0)
  <2> SUFFICES ASSUME NEW e \in es \ {n, q} PROVE Eq(h[e], 0)
    OBVIOUS
  <2>1. e \in Nat /\ n # e - 1 /\ n # e
    BY <1>1
  <2>2. Slope(e, n) = 0
    BY <2>1 DEF Slope
  <2>3. g[e] * 0 = 0 /\ h[e] = g[e] * Slope(e, n)
    BY <1>2
  <2>4. h[e] = 0
    BY <2>2, <2>3
  <2>5. QED BY <2>4, EqRefl
<1> HIDE DEF x, y
<1>10. Eq(Total(h, es), x - y)
  <2>1. CASE n \in es /\ q \in es
    <3>1. Eq(Total(h, es), h[n] + h[q])
      BY <1>1, <1>4, <1>9, <2>1, SumTwo
    <3>2. h[n] + h[q] = x - y
      BY <1>2, <1>5, <1>6, <2>1
    <3>3. QED BY <3>1, <3>2
  <2>2. CASE n \in es /\ q \notin es
    <3>1. \A e \in es \ {n} : Eq(h[e], 0)
      BY <1>9, <2>2
    <3>2. Eq(Total(h, es), h[n])
      BY <1>1, <1>4, <2>2, <3>1, SumOne
    <3>3. h[n] = x - y
      BY <1>5, <1>7, <1>8, <2>2
    <3>4. QED BY <3>2, <3>3
  <2>3. CASE n \notin es /\ q \in es
    <3>1. \A e \in es \ {q} : Eq(h[e], 0)
      BY <1>9, <2>3
    <3>2. Eq(Total(h, es), h[q])
      BY <1>1, <1>4, <2>3, <3>1, SumOne
    <3>3. h[q] = x - y
      BY <1>6, <1>7, <1>8, <2>3
    <3>4. QED BY <3>2, <3>3
  <2>4. CASE n \notin es /\ q \notin es
    <3>1. \A e \in es : Eq(h[e], 0)
      BY <1>9, <2>4
    <3>2. Eq(Total(h, es), 0)
      BY <1>1, <3>1, SumZero
    <3>3. x - y = 0
      BY <1>7, <2>4
    <3>4. QED BY <3>2, <3>3
  <2>5. QED BY <2>1, <2>2, <2>3, <2>4
<1>11. QED BY <1>4, <1>8, <1>10 DEF x, y, q

\* The matrix of a local problem has the entries of its micro cells.
LEMMA LocalMatrixIs ==
  ASSUME Data, NEW c \in Cells, NEW m \in Nodes, NEW n \in Nodes
  PROVE  Eq(LocalMatrix(c)[m][n], FemEntry(k, Patch(c), m, n))
<1> DEFINE es == Patch(c)
           g == [e \in Entities |-> k[e] * Slope(e, n)]
           h == [e \in es |-> Energy(k, Hat(m), Hat(n), e)]
<1>1. es \subseteq Entities /\ m + 1 \in Nat
  BY PatchIs, NodesOf DEF Data
<1> HIDE DEF es
<1>2. \A e \in Entities : k[e] \in Int /\ Slope(e, n) \in Int /\ Slope(e, m) \in Int
  BY DEF Data, Slope
<1>3. \A e \in Entities : g[e] = k[e] * Slope(e, n) /\ g[e] \in Int
  BY <1>2
<1>4. \A e \in es : h[e] = g[e] * Slope(e, m)
  <2> SUFFICES ASSUME NEW e \in es PROVE h[e] = g[e] * Slope(e, m)
    OBVIOUS
  <2>1. e \in Entities
    BY <1>1
  <2>2. h[e] = k[e] * Slope(e, m) * Slope(e, n)
    BY <2>1, HatSlope DEF Energy
  <2>3. g[e] = k[e] * Slope(e, n)
    BY <1>3, <2>1
  <2> DEFINE a == k[e]
             x == Slope(e, m)
             y == Slope(e, n)
  <2>4. a \in Int /\ x \in Int /\ y \in Int
    BY <1>2, <2>1
  <2> HIDE DEF a, x, y
  <2>5. a * x * y = (a * y) * x
    BY <2>4
  <2>6. QED BY <2>2, <2>3, <2>5 DEF a, x, y
<1>5. LocalMatrix(c)[m][n] = Total(h, es)
  BY DEF LocalMatrix, es
<1> HIDE DEF g, h
<1>6. Eq(Total(h, es), Part(m, es, g[m]) - Part(m + 1, es, g[m + 1]))
  BY <1>1, <1>3, <1>4, HatSum
<1>7. Part(m, es, g[m]) - Part(m + 1, es, g[m + 1]) = FemEntry(k, es, m, n)
  <2>1. (m \in es => g[m] = k[m] * Slope(m, n)) /\ (m + 1 \in es => g[m + 1] = k[m + 1] * Slope(m + 1, n))
    BY <1>1, <1>3
  <2>2. QED BY <2>1 DEF FemEntry, Part
<1>8. QED BY <1>5, <1>6, <1>7 DEF es

\* The fall of the flux is linear.
LEMMA FallLinear ==
  ASSUME NEW K \in [Entities -> Int], NEW es, es \subseteq Entities, NEW n \in Nodes,
         NEW u \in [Nodes -> Int], NEW v \in [Nodes -> Int], NEW w \in [Nodes -> Int],
         NEW a \in Int, NEW b \in Int, \A j \in Nodes : Eq(w[j], a * u[j] + b * v[j])
  PROVE  /\ Fall(K, es, u, n) \in Int /\ Fall(K, es, v, n) \in Int /\ Fall(K, es, w, n) \in Int
         /\ Eq(Fall(K, es, w, n), a * Fall(K, es, u, n) + b * Fall(K, es, v, n))
<1> DEFINE X(z, e) == Part(e, es, K[e] * (z[e] - z[e - 1]))
<1>1. n + 1 \in Int /\ (n + 1) - 1 = n
  BY NodesOf
<1>2. \A z : Fall(K, es, z, n) = X(z, n) - X(z, n + 1)
  BY <1>1 DEF Fall
<1>3. ASSUME NEW e \in Int
      PROVE  X(u, e) \in Int /\ X(v, e) \in Int /\ X(w, e) \in Int /\ Eq(X(w, e), a * X(u, e) + b * X(v, e))
  <2>1. CASE e \in es
    <3> DEFINE c == K[e]
               p == e - 1
    <3>1. c \in Int /\ e \in Nodes /\ p \in Nodes
      BY <2>1, NodesOf
    <3>2. X(u, e) = c * (u[e] - u[p]) /\ X(v, e) = c * (v[e] - v[p]) /\ X(w, e) = c * (w[e] - w[p])
      BY <2>1 DEF Part
    <3> HIDE DEF c, p, X
    <3> DEFINE ue == u[e]
               up == u[p]
               ve == v[e]
               vp == v[p]
               we == w[e]
               wp == w[p]
    <3>3. ue \in Int /\ up \in Int /\ ve \in Int /\ vp \in Int /\ we \in Int /\ wp \in Int
      BY <3>1
    <3>4. Eq(we, a * ue + b * ve) /\ Eq(wp, a * up + b * vp)
      BY <3>1
    <3>5. X(u, e) = c * (ue - up) /\ X(v, e) = c * (ve - vp) /\ X(w, e) = c * (we - wp)
      BY <3>2
    <3> HIDE DEF ue, up, ve, vp, we, wp
    <3>6. Eq(we - wp, (a * ue + b * ve) - (a * up + b * vp))
      BY <3>4, EqSum
    <3>7. Eq(c * (we - wp), c * ((a * ue + b * ve) - (a * up + b * vp)))
      BY <3>1, <3>6, EqRefl, EqTimes
    <3>8. c * ((a * ue + b * ve) - (a * up + b * vp)) = a * (c * (ue - up)) + b * (c * (ve - vp))
      BY <3>1, <3>3
    <3>9. c * (ue - up) \in Int /\ c * (ve - vp) \in Int /\ c * (we - wp) \in Int
      BY <3>1, <3>3
    <3>10. QED BY <3>5, <3>7, <3>8, <3>9
  <2>2. CASE e \notin es
    <3>1. X(u, e) = 0 /\ X(v, e) = 0 /\ X(w, e) = 0
      BY <2>2 DEF Part
    <3>2. a * 0 + b * 0 = 0
      OBVIOUS
    <3> HIDE DEF X
    <3>3. QED BY <3>1, <3>2, EqRefl
  <2>3. QED BY <2>1, <2>2
<1> HIDE DEF X
<1>4. n \in Int
  BY NodesOf
<1> DEFINE q == n + 1
           u1 == X(u, n)
           u2 == X(u, q)
           v1 == X(v, n)
           v2 == X(v, q)
           w1 == X(w, n)
           w2 == X(w, q)
<1>5. /\ u1 \in Int /\ u2 \in Int /\ v1 \in Int /\ v2 \in Int /\ w1 \in Int /\ w2 \in Int
      /\ Eq(w1, a * u1 + b * v1) /\ Eq(w2, a * u2 + b * v2)
  BY <1>1, <1>3, <1>4
<1>6. Fall(K, es, u, n) = u1 - u2 /\ Fall(K, es, v, n) = v1 - v2 /\ Fall(K, es, w, n) = w1 - w2
  BY <1>2
<1> HIDE DEF u1, u2, v1, v2, w1, w2
<1>7. Eq(w1 - w2, (a * u1 + b * v1) - (a * u2 + b * v2))
  BY <1>5, EqSum
<1>8. (a * u1 + b * v1) - (a * u2 + b * v2) = a * (u1 - u2) + b * (v1 - v2)
  BY <1>5
<1>9. QED BY <1>5, <1>6, <1>7, <1>8

\* The right hand side with a direction takes its flux off.
LEMMA MinusEnergyIs ==
  ASSUME Data, NEW c \in Cells, NEW v \in [Nodes -> Int], NEW n \in Nodes
  PROVE  MinusEnergy(c, v, n) \in Int /\ Eq(MinusEnergy(c, v, n), 0 - Fall(k, Patch(c), v, n))
<1> DEFINE es == Patch(c)
           g == [e \in Entities |-> 0 - k[e] * (v[e] - v[e - 1])]
           h == [e \in es |-> 0 - Energy(k, v, Hat(n), e)]
           q == n + 1
<1>1. es \subseteq Entities /\ q \in Nat /\ q - 1 = n
  BY PatchIs, NodesOf DEF Data
<1> HIDE DEF es, q
<1>2. \A e \in Entities : k[e] \in Int /\ v[e] \in Int /\ v[e - 1] \in Int /\ Slope(e, n) \in Int
  BY NodesOf DEF Data, Slope
<1>3. \A e \in Entities : g[e] = 0 - k[e] * (v[e] - v[e - 1]) /\ g[e] \in Int
  BY <1>2
<1>4. \A e \in es : h[e] = g[e] * Slope(e, n)
  <2> SUFFICES ASSUME NEW e \in es PROVE h[e] = g[e] * Slope(e, n)
    OBVIOUS
  <2>1. e \in Entities
    BY <1>1
  <2>2. h[e] = 0 - k[e] * (v[e] - v[e - 1]) * Slope(e, n)
    BY <2>1, HatSlope DEF Energy
  <2> DEFINE a == k[e] * (v[e] - v[e - 1])
             y == Slope(e, n)
  <2>3. a \in Int /\ y \in Int
    BY <1>2, <2>1
  <2>4. h[e] = 0 - a * y /\ g[e] = 0 - a
    BY <1>3, <2>1, <2>2
  <2> HIDE DEF a, y
  <2>5. 0 - a * y = (0 - a) * y
    BY <2>3
  <2>6. QED BY <2>4, <2>5 DEF y
<1>5. MinusEnergy(c, v, n) = Total(h, es)
  BY DEF MinusEnergy, es
<1> HIDE DEF g, h
<1>6. /\ Part(n, es, g[n]) \in Int /\ Part(q, es, g[q]) \in Int
      /\ Eq(Total(h, es), Part(n, es, g[n]) - Part(q, es, g[q]))
  BY <1>1, <1>3, <1>4, HatSum DEF q
<1>7. Part(n, es, g[n]) - Part(q, es, g[q]) = 0 - Fall(k, es, v, n)
  <2> DEFINE x == Part(n, es, k[n] * (v[n] - v[n - 1]))
             y == Part(q, es, k[q] * (v[q] - v[q - 1]))
  <2>1. /\ n \in es => k[n] * (v[n] - v[n - 1]) \in Int /\ g[n] = 0 - k[n] * (v[n] - v[n - 1])
        /\ q \in es => k[q] * (v[q] - v[q - 1]) \in Int /\ g[q] = 0 - k[q] * (v[q] - v[q - 1])
    BY <1>1, <1>2, <1>3
  <2>2. x \in Int /\ y \in Int /\ Part(n, es, g[n]) = 0 - x /\ Part(q, es, g[q]) = 0 - y
    BY <2>1 DEF Part
  <2>3. Fall(k, es, v, n) = x - y
    BY <1>1 DEF Fall, q
  <2> HIDE DEF x, y
  <2>4. QED BY <2>2, <2>3
<1>8. QED BY <1>5, <1>6, <1>7 DEF es, Eq

\* A matrix makes a function of its dofs zero.
Vanishes(A, d, S) == \A n \in S : Eq(Total([j \in S |-> A[n][j] * d[j]], S), 0)

\* What a regular matrix makes zero is zero.
LEMMA Kernel ==
  ASSUME NEW S, S \subseteq Nat, \A n \in S : n <= Size, NEW A \in [S -> [S -> Int]], Regular(A, S),
         NEW d, \A n \in S : d[n] \in Int, Vanishes(A, d, S)
  PROVE  \A n \in S : Eq(d[n], 0)
<1> DEFINE b == [n \in S |-> 0]
           y == [n \in S |-> d[n] % P]
<1>1. \A n \in S : y[n] \in Field /\ Eq(y[n], d[n])
  BY EqMod
<1>2. y \in [S -> Field] /\ b \in [S -> Field]
  BY <1>1, FieldInt
<1>3. \A n \in S : b[n] = 0
  OBVIOUS
<1>4. ASSUME NEW n \in S PROVE Total([j \in S |-> A[n][j] * y[j]], S) = 0
  <2> DEFINE g == [j \in S |-> A[n][j] * y[j]]
             h == [j \in S |-> A[n][j] * d[j]]
  <2>1. \A j \in S : Eq(g[j], h[j])
    <3> SUFFICES ASSUME NEW j \in S PROVE Eq(g[j], h[j])
      OBVIOUS
    <3>1. A[n][j] \in Int /\ g[j] = A[n][j] * y[j] /\ h[j] = A[n][j] * d[j]
      OBVIOUS
    <3> HIDE DEF y, g, h
    <3>2. QED BY <1>1, <3>1, EqRefl, EqTimes
  <2>2. Eq(Total(h, S), 0)
    BY DEF Vanishes
  <2> HIDE DEF g, h
  <2>3. Eq(Total(g, S), Total(h, S)) /\ Total(g, S) \in Field
    BY <2>1, SumsEqual
  <2>4. Eq(Total(g, S), 0)
    BY <2>2, <2>3, EqTrans
  <2>5. Total(g, S) = 0
    BY <2>3, <2>4, EqField, FieldInt
  <2>6. QED BY <2>5 DEF g
<1>5. ASSUME NEW n \in S PROVE Total([j \in S |-> A[n][j] * b[j]], S) = 0
  <2> DEFINE g == [j \in S |-> A[n][j] * b[j]]
  <2>1. \A j \in S : g[j] = 0
    <3> SUFFICES ASSUME NEW j \in S PROVE g[j] = 0
      OBVIOUS
    <3>1. A[n][j] \in Int /\ g[j] = A[n][j] * 0
      OBVIOUS
    <3>2. QED BY <3>1
  <2> HIDE DEF g
  <2>2. Ints(g, S) /\ \A j \in S : Eq(g[j], 0)
    BY <2>1, EqRefl DEF Ints
  <2>3. Eq(Total(g, S), 0) /\ Total(g, S) \in Field
    BY <2>2, SumZero, TotalSums
  <2>4. QED BY <2>3, EqField, FieldInt DEF g
<1>6. b = Apply(A, y, S) /\ b = Apply(A, b, S)
  BY <1>4, <1>5 DEF Apply
<1> HIDE DEF b, y
<1>7. ASSUME NEW z \in [S -> Field], b = Apply(A, z, S) PROVE Solution(A, b, S) = z
  <2>1. S \subseteq Nat /\ (\A n \in S : n <= Size) /\ A \in [S -> [S -> Int]] /\ Regular(A, S)
    OBVIOUS
  <2>2. QED BY <1>7, <2>1, SolutionUnique, ZenonT(30)
<1>9. Solution(A, b, S) = y /\ Solution(A, b, S) = b
  BY <1>2, <1>6, <1>7
<1>8. ASSUME NEW n \in S PROVE Eq(d[n], 0)
  <2>1. Eq(0, d[n])
    BY <1>1, <1>3, <1>7, <1>9
  <2>2. QED BY <2>1, EqSym
<1>10. QED BY <1>8

\* A row of the constrained local matrix applied to a function of the nodes.
LEMMA LocalRows ==
  ASSUME Data, SystemType, NEW c \in Cells, NEW y \in [Nodes -> Int], NEW n \in Around(c)
  PROVE  LET h == [j \in Around(c) |-> AssembledMatrix(c)[n][j] * y[j]]
         IN /\ Ints(h, Around(c)) /\ Total(h, Around(c)) \in Field
            /\ n \in LocalBorder(c) => Eq(Total(h, Around(c)), y[n])
            /\ n \notin LocalBorder(c) =>
                 Fall(k, Patch(c), y, n) \in Int /\ Eq(Total(h, Around(c)), Fall(k, Patch(c), y, n))
<1> DEFINE S == Around(c)
           A == AssembledMatrix(c)
           h == [j \in S |-> A[n][j] * y[j]]
<1>1. /\ S \subseteq Nodes /\ S \subseteq Nat /\ n \in Nodes /\ Patch(c) \subseteq Entities
      /\ \A e \in Patch(c) : e \in S /\ e - 1 \in S
  BY PatchIs, NodesOf DEF Data
<1>2. \A j \in S : A[n][j] = IF n \notin LocalBorder(c) THEN LocalMatrix(c)[n][j] ELSE IF n = j THEN 1 ELSE 0
  BY DEF AssembledMatrix, ConstrainedMatrix, Around
<1>3. \A j \in S : y[j] \in Int
  BY <1>1
<1> HIDE DEF A
<1>4. CASE n \in LocalBorder(c)
  <2>1. \A j \in S : A[n][j] = IF n = j THEN 1 ELSE 0
    BY <1>2, <1>4
  <2>2. \A j \in S : h[j] = IF n = j THEN y[j] ELSE 0
    <3> SUFFICES ASSUME NEW j \in S PROVE h[j] = IF n = j THEN y[j] ELSE 0
      OBVIOUS
    <3>1. y[j] \in Int /\ h[j] = A[n][j] * y[j]
      BY <1>3
    <3>2. 1 * y[j] = y[j] /\ 0 * y[j] = 0
      BY <3>1
    <3>3. QED BY <2>1, <3>1, <3>2
  <2> HIDE DEF h
  <2>3. Ints(h, S)
    BY <1>3, <2>2 DEF Ints
  <2>4. \A j \in S \ {n} : Eq(h[j], 0)
    BY <2>2, EqRefl
  <2> HIDE DEF S
  <2>5. Eq(Total(h, S), h[n])
    BY <1>1, <2>3, <2>4, SumOne DEF S
  <2>6. h[n] = y[n]
    BY <2>2 DEF S
  <2>7. Total(h, S) \in Field
    BY <1>1, <2>3, TotalSums
  <2>8. QED BY <1>4, <2>3, <2>5, <2>6, <2>7 DEF S, h, A
<1>5. CASE n \notin LocalBorder(c)
  <2> DEFINE row == A[n]
             K == k
             es == Patch(c)
  <2>1. \A j \in S : Eq(row[j], FemEntry(K, es, n, j))
    <3> SUFFICES ASSUME NEW j \in S PROVE Eq(row[j], FemEntry(K, es, n, j))
      OBVIOUS
    <3>1. row[j] = LocalMatrix(c)[n][j] /\ j \in Nodes
      BY <1>1, <1>2, <1>5
    <3>2. QED BY <1>1, <3>1, LocalMatrixIs
  <2>2. K \in [Entities -> Int]
    BY DEF Data
  <2>3. h = [j \in S |-> row[j] * y[j]]
    OBVIOUS
  <2> HIDE DEF row, K, es, S, h
  <2>4. Ints(h, S) /\ Fall(K, es, y, n) \in Int /\ Eq(Total(h, S), Fall(K, es, y, n))
    BY <1>1, <1>3, <2>1, <2>2, <2>3, RowOfFem DEF es
  <2>5. Total(h, S) \in Field
    BY <1>1, <2>4, TotalSums
  <2>6. QED BY <1>5, <2>4, <2>5 DEF S, h, A, K, es
<1>6. QED BY <1>4, <1>5

\* The matrix of a local problem has integers as entries.
LEMMA LocalMatrixInt ==
  ASSUME Data, SystemType, NEW c \in Cells
  PROVE  AssembledMatrix(c) \in [Around(c) -> [Around(c) -> Int]]
<1>1. Around(c) \subseteq Nodes
  BY PatchIs DEF Data
<1>2. \A m, n \in Around(c) : LocalMatrix(c)[m][n] \in Int
  BY <1>1, LocalMatrixIs DEF Eq
<1>3. QED BY <1>2 DEF AssembledMatrix, ConstrainedMatrix, Around

\* A function that a regular local matrix makes zero is zero: one that is zero
\* on the border and whose flux does not fall anywhere else.
LEMMA LocalUnique ==
  ASSUME Data, SystemType, NEW c \in Cells, Regular(AssembledMatrix(c), Around(c)),
         NEW d \in [Nodes -> Int],
         \A n \in Around(c) : IF n \in LocalBorder(c) THEN Eq(d[n], 0)
                              ELSE Eq(Fall(k, Patch(c), d, n), 0)
  PROVE  \A n \in Around(c) : Eq(d[n], 0)
<1> DEFINE S == Around(c)
           A == AssembledMatrix(c)
<1>1. S \subseteq Nat /\ \A n \in S : n <= Size /\ d[n] \in Int
  BY PatchIs, NodesOf DEF Data
<1>2. A \in [S -> [S -> Int]] /\ Regular(A, S)
  BY LocalMatrixInt
<1>3. ASSUME NEW n \in S PROVE Eq(Total([j \in S |-> A[n][j] * d[j]], S), 0)
  <2> DEFINE h == [j \in S |-> A[n][j] * d[j]]
  <2>1. /\ n \in LocalBorder(c) => Eq(Total(h, S), d[n])
        /\ n \notin LocalBorder(c) => Eq(Total(h, S), Fall(k, Patch(c), d, n))
    BY LocalRows
  <2> HIDE DEF h
  <2>2. Eq(Total(h, S), 0)
    BY <2>1, EqTrans
  <2>3. QED BY <2>2 DEF h
<1>4. Vanishes(A, d, S)
  BY <1>3 DEF Vanishes
<1> HIDE DEF A, S
<1>6. \A n \in S : Eq(d[n], 0)
  BY <1>1, <1>2, <1>4, Kernel
<1>7. QED BY <1>6 DEF S

\* Solutions of the local problems of a cell: they vanish on the border, inside
\* the local grid their flux falls by the right hand side, that of a corrected
\* shape function not at all, and the correctors add up to nothing.
Fits(c, v) ==
  /\ v \in [Slots -> [Nodes -> Int]]
  /\ Regular(AssembledMatrix(c), Around(c))
  /\ \A s \in Slots : \A n \in LocalBorder(c) : Eq(v[s][n], 0)
  /\ \A s \in Inner : \A n \in Around(c) \ LocalBorder(c) :
       Eq(Fall(k, Patch(c), Plus(CoarseBasis(c, s), v[s]), n), 0)
  /\ \A s \in Slots : IsSolved(c, s) =>
       \A n \in Around(c) \ LocalBorder(c) : Eq(Fall(k, Patch(c), v[s], n), LocalRhs(c, s)[n])
  /\ \A n \in Around(c) : Eq(v[0][n] + v[1][n], 0)
  /\ \A s \in Slots : ~IsSolved(c, s) => v[s] = ZeroFunction

\* The shape functions of a cell add up to one.
LEMMA BasisSum ==
  ASSUME NEW c \in Cells, NEW n \in Nodes
  PROVE  Eq(CoarseBasis(c, 0)[n] + CoarseBasis(c, 1)[n], 1)
<1> DEFINE r == Reciprocal(Micro)
           x == CoarseBasis(c, 0)[n]
           y == CoarseBasis(c, 1)[n]
           a == At(c)
           b == At(c - 1)
<1>1. x \in Int /\ y \in Int /\ Div(x - r * Distance(c, 0, n)) /\ Div(y - r * Distance(c, 1, n))
  BY CoarseBasisIs DEF Inner
<1>2. r \in Int /\ Div(Micro * r - 1) /\ a \in Int /\ b \in Int /\ a = b + Micro /\ Micro \in Int /\ n \in Int
  BY MicroReciprocal, CellRange, Sizes, NodesOf
<1>3. Distance(c, 0, n) = a - n /\ Distance(c, 1, n) = n - b
  BY DEF Distance
<1> HIDE DEF r, x, y, a, b
<1>4. r * (a - n) \in Int /\ r * (n - b) \in Int /\ Micro * r \in Int
  BY <1>2
<1>5. Eq(x, r * (a - n)) /\ Eq(y, r * (n - b)) /\ Eq(Micro * r, 1)
  BY <1>1, <1>2, <1>3, <1>4 DEF Eq
<1>6. Eq(x + y, r * (a - n) + r * (n - b))
  BY <1>5, EqSum
<1>7. r * (a - n) + r * (n - b) = Micro * r
  BY <1>2
<1>8. Eq(x + y, 1)
  BY <1>5, <1>6, <1>7, EqTrans
<1>9. QED BY <1>8 DEF x, y

\* A constant has no flux.
LEMMA FallConstant ==
  ASSUME NEW K \in [Entities -> Int], NEW es, es \subseteq Entities, NEW n \in Nodes,
         NEW u \in [Nodes -> Int], NEW a \in Int, \A j \in Nodes : Eq(u[j], a)
  PROVE  Eq(Fall(K, es, u, n), 0)
<1> DEFINE one == [j \in Nodes |-> 1]
           zero == 0
<1>1. one \in [Nodes -> Int] /\ zero \in Int
  OBVIOUS
<1>2. \A j \in Nodes : Eq(u[j], a * one[j] + zero * one[j])
  <2> SUFFICES ASSUME NEW j \in Nodes PROVE Eq(u[j], a * one[j] + zero * one[j])
    OBVIOUS
  <2>1. a * one[j] + zero * one[j] = a
    OBVIOUS
  <2>2. QED BY <2>1
<1>3. Fall(K, es, one, n) = 0
  <2>1. n \in Int /\ n + 1 \in Int /\ (n + 1) - 1 = n
    BY NodesOf
  <2>2. n \in es => n \in Nodes /\ n - 1 \in Nodes /\ K[n] \in Int
    BY NodesOf
  <2>3. n + 1 \in es => n + 1 \in Nodes /\ K[n + 1] \in Int
    BY NodesOf
  <2>4. (n \in es => K[n] * (one[n] - one[n - 1]) = 0) /\ (n + 1 \in es => K[n + 1] * (one[n + 1] - one[n]) = 0)
    BY <2>2, <2>3
  <2>5. QED BY <2>4 DEF Fall, Part
<1> HIDE DEF one, zero
<1>4. Eq(Fall(K, es, u, n), a * Fall(K, es, one, n) + zero * Fall(K, es, one, n))
  BY <1>1, <1>2, FallLinear
<1>5. a * 0 + zero * 0 = 0
  BY <1>1
<1>6. QED BY <1>3, <1>4, <1>5

\* The rows of a solved local problem.
LEMMA LocalSolved ==
  ASSUME Data, SystemType, NEW c \in Cells, NEW s \in Slots, IsSolved(c, s),
         Solves(AssembledMatrix(c), AssembledRhs(c, s), Around(c)),
         NEW v, v = SolveAllOnSingleCell(c)[s]
  PROVE  /\ v \in [Nodes -> Int]
         /\ \A n \in LocalBorder(c) : Eq(v[n], 0)
         /\ \A n \in Around(c) \ LocalBorder(c) : Eq(Fall(k, Patch(c), v, n), LocalRhs(c, s)[n])
<1> DEFINE S == Around(c)
           A == AssembledMatrix(c)
           b == AssembledRhs(c, s)
           x == Solution(A, b, S)
<1>1. x \in [S -> Field] /\ Apply(A, x, S) = b
  BY DEF Solves
<1>2. S \subseteq Nodes /\ LocalBorder(c) \subseteq S
  BY PatchIs, BorderIs DEF Data
<1>3. v = [n \in Nodes |-> IF n \in DOMAIN x THEN x[n] ELSE 0]
  BY DEF SolveAllOnSingleCell, Around
<1> HIDE DEF x
<1>4. v = [n \in Nodes |-> IF n \in S THEN x[n] ELSE 0]
  BY <1>1, <1>3
<1>5. v \in [Nodes -> Int] /\ \A n \in S : v[n] = x[n]
  <2>1. \A n \in S : x[n] \in Int
    BY <1>1, FieldInt
  <2>2. QED BY <1>2, <1>4, <2>1
<1>6. ASSUME NEW n \in S
      PROVE  /\ n \in LocalBorder(c) => Eq(b[n], v[n])
             /\ n \notin LocalBorder(c) => Eq(b[n], Fall(k, Patch(c), v, n))
  <2> DEFINE h == [j \in S |-> A[n][j] * v[j]]
  <2>1. /\ n \in LocalBorder(c) => Eq(Total(h, S), v[n])
        /\ n \notin LocalBorder(c) => Eq(Total(h, S), Fall(k, Patch(c), v, n))
    BY <1>5, LocalRows
  <2>2. h = [j \in S |-> A[n][j] * x[j]]
    BY <1>5
  <2>3. b[n] = Total([j \in S |-> A[n][j] * x[j]], S)
    BY <1>1 DEF Apply
  <2>4. QED BY <2>1, <2>2, <2>3
<1>7. \A n \in S : b[n] = IF n \in LocalBorder(c) THEN 0 ELSE LocalRhs(c, s)[n]
  BY DEF AssembledRhs, ConstrainedVector, Around
<1> HIDE DEF b, A
<1>8. ASSUME NEW n \in LocalBorder(c) PROVE Eq(v[n], 0)
  <2>1. n \in S /\ Eq(0, v[n])
    BY <1>2, <1>6, <1>7
  <2>2. QED BY <2>1, EqSym
<1>9. ASSUME NEW n \in S \ LocalBorder(c) PROVE Eq(Fall(k, Patch(c), v, n), LocalRhs(c, s)[n])
  <2>1. Eq(LocalRhs(c, s)[n], Fall(k, Patch(c), v, n))
    BY <1>6, <1>7
  <2>2. QED BY <2>1, EqSym
<1>10. QED BY <1>5, <1>8, <1>9

\* What solving the local problems of a cell makes.
LEMMA SolvedFits ==
  ASSUME Data, SystemType, NEW c \in Cells,
         \A s \in Slots : IsSolved(c, s) => Solves(AssembledMatrix(c), AssembledRhs(c, s), Around(c)),
         NEW v, v = SolveAllOnSingleCell(c)
  PROVE  Fits(c, v)
<1> DEFINE S == Around(c)
           es == Patch(c)
           cb(s) == CoarseBasis(c, s)
           K == k
<1>1. /\ S \subseteq Nodes /\ es \subseteq Entities /\ LocalBorder(c) \subseteq S /\ K \in [Entities -> Int]
  BY PatchIs, BorderIs DEF Data
<1>2. 0 \in Inner /\ 1 \in Inner /\ Inner \subseteq Slots /\ \A s \in Inner : IsSolved(c, s)
  BY DEF Inner, Slots, IsSolved
<1>3. \A s \in Slots : ~IsSolved(c, s) => v[s] = ZeroFunction
  BY DEF SolveAllOnSingleCell
<1>4. ASSUME NEW s \in Slots
      PROVE  v[s] \in [Nodes -> Int] /\ \A n \in LocalBorder(c) : Eq(v[s][n], 0)
  <2>1. CASE IsSolved(c, s)
    BY <2>1, LocalSolved
  <2>2. CASE ~IsSolved(c, s)
    <3>1. v[s] \in [Nodes -> Int] /\ \A n \in LocalBorder(c) : v[s][n] = 0
      BY <1>1, <1>3, <2>2 DEF ZeroFunction
    <3>2. QED BY <3>1, EqRefl
  <2>3. QED BY <2>1, <2>2
<1>5. v \in [Slots -> [Nodes -> Int]]
  BY <1>4 DEF SolveAllOnSingleCell
<1>6. Regular(AssembledMatrix(c), S)
  BY <1>2 DEF Solves
<1>7. ASSUME NEW s \in Inner
      PROVE  cb(s) \in [Nodes -> Int] /\ v[s] \in [Nodes -> Int]
  BY <1>2, <1>4, CoarseBasisIs
<1>8. ASSUME NEW s \in Inner, NEW n \in S \ LocalBorder(c)
      PROVE  /\ Eq(Fall(K, es, v[s], n), 0 - Fall(K, es, cb(s), n))
             /\ Fall(K, es, v[s], n) \in Int /\ Fall(K, es, cb(s), n) \in Int
  <2>1. Eq(Fall(K, es, v[s], n), LocalRhs(c, s)[n])
    BY <1>2, LocalSolved
  <2>2. n \in Nodes /\ LocalRhs(c, s)[n] = MinusEnergy(c, cb(s), n)
    BY <1>1 DEF LocalRhs, CoarseBasisProduct
  <2>3. Eq(MinusEnergy(c, cb(s), n), 0 - Fall(K, es, cb(s), n))
    BY <1>7, <2>2, MinusEnergyIs
  <2> HIDE DEF K, es, cb
  <2>4. Eq(Fall(K, es, v[s], n), 0 - Fall(K, es, cb(s), n))
    BY <2>1, <2>2, <2>3, EqTrans
  <2>5. Fall(K, es, cb(s), n) \in Int
    <3> DEFINE u == cb(s)
               zero == 0
               z == [j \in Nodes |-> zero * u[j] + zero * u[j]]
    <3>1. u \in [Nodes -> Int] /\ zero \in Int
      BY <1>7
    <3> HIDE DEF u, zero
    <3>2. z \in [Nodes -> Int] /\ \A j \in Nodes : Eq(z[j], zero * u[j] + zero * u[j])
      <4>1. \A j \in Nodes : z[j] = zero * u[j] + zero * u[j] /\ z[j] \in Int
        BY <3>1
      <4>2. QED BY <4>1, EqRefl
    <3> HIDE DEF z
    <3>3. Fall(K, es, u, n) \in Int
      BY <1>1, <2>2, <3>1, <3>2, FallLinear
    <3>4. QED BY <3>3 DEF u
  <2>6. QED BY <2>4, <2>5 DEF Eq
<1>9. ASSUME NEW s \in Inner, NEW n \in S \ LocalBorder(c)
      PROVE  Eq(Fall(K, es, Plus(cb(s), v[s]), n), 0)
  <2> DEFINE u == cb(s)
             w == v[s]
             z == Plus(u, w)
             one == 1
  <2>1. u \in [Nodes -> Int] /\ w \in [Nodes -> Int] /\ one \in Int
    BY <1>7
  <2> HIDE DEF u, w, one
  <2>2. z \in [Nodes -> Int] /\ \A j \in Nodes : Div(z[j] - (one * u[j] + one * w[j]))
    BY <2>1, CombinationIs DEF Plus, one
  <2> HIDE DEF z
  <2>3. \A j \in Nodes : Eq(z[j], one * u[j] + one * w[j])
    <3>1. \A j \in Nodes : u[j] \in Int /\ w[j] \in Int /\ z[j] \in Int
      BY <2>1, <2>2
    <3>2. \A j \in Nodes : one * u[j] + one * w[j] \in Int
      BY <2>1, <3>1
    <3>3. QED BY <2>2, <3>1, <3>2 DEF Eq
  <2>4. n \in Nodes
    BY <1>1
  <2> HIDE DEF S, es, K, cb
  <2>5. Eq(Fall(K, es, z, n), one * Fall(K, es, u, n) + one * Fall(K, es, w, n))
    BY <1>1, <2>1, <2>2, <2>3, <2>4, FallLinear
  <2> DEFINE x == Fall(K, es, u, n)
             y == Fall(K, es, w, n)
  <2>6. x \in Int /\ y \in Int /\ Eq(y, 0 - x)
    BY <1>8 DEF u, w
  <2> HIDE DEF x, y
  <2>7. Eq(x + y, x + (0 - x))
    BY <2>6, EqRefl, EqSum
  <2>8. x + (0 - x) = 0 /\ one * x + one * y = x + y
    BY <2>6 DEF one
  <2>9. Eq(Fall(K, es, z, n), 0)
    BY <2>5, <2>7, <2>8, EqTrans DEF x, y
  <2>10. QED BY <2>9 DEF z, u, w
<1>10. \A n \in S : Eq(v[0][n] + v[1][n], 0)
  <2> DEFINE x == v[0]
             y == v[1]
             p == cb(0)
             q == cb(1)
             d == [n \in Nodes |-> x[n] + y[n]]
             u == [n \in Nodes |-> p[n] + q[n]]
             one == 1
  <2>1. /\ x \in [Nodes -> Int] /\ y \in [Nodes -> Int]
        /\ p \in [Nodes -> Int] /\ q \in [Nodes -> Int] /\ one \in Int
    BY <1>2, <1>7
  <2>2. \A n \in Nodes : Eq(u[n], 1)
    BY BasisSum
  <2>3. \A n \in LocalBorder(c) : Eq(x[n], 0) /\ Eq(y[n], 0) /\ n \in Nodes
    BY <1>1, <1>2, <1>4
  <2>4. \A n \in S \ LocalBorder(c) :
          /\ Eq(Fall(K, es, x, n), 0 - Fall(K, es, p, n))
          /\ Eq(Fall(K, es, y, n), 0 - Fall(K, es, q, n))
    BY <1>2, <1>8
  <2> HIDE DEF x, y, p, q, one
  <2>5. /\ d \in [Nodes -> Int] /\ u \in [Nodes -> Int]
        /\ \A n \in Nodes : Eq(d[n], one * x[n] + one * y[n]) /\ Eq(u[n], one * p[n] + one * q[n])
    <3>1. \A n \in Nodes : /\ d[n] = one * x[n] + one * y[n] /\ d[n] \in Int
                           /\ u[n] = one * p[n] + one * q[n] /\ u[n] \in Int
      BY <2>1 DEF one
    <3>2. QED BY <3>1, EqRefl
  <2>6. \A n \in Nodes : d[n] = x[n] + y[n]
    OBVIOUS
  <2> HIDE DEF d, u, S, K, es, cb
  <2>7. ASSUME NEW n \in S \ LocalBorder(c) PROVE Eq(Fall(K, es, d, n), 0)
    <3> DEFINE fx == Fall(K, es, x, n)
               fy == Fall(K, es, y, n)
               fp == Fall(K, es, p, n)
               fq == Fall(K, es, q, n)
               fd == Fall(K, es, d, n)
               fu == Fall(K, es, u, n)
    <3>1. n \in Nodes
      BY <1>1
    <3>2. fx \in Int /\ fy \in Int /\ Eq(fd, one * fx + one * fy)
      BY <1>1, <2>1, <2>5, <3>1, FallLinear
    <3>3. fp \in Int /\ fq \in Int /\ Eq(fu, one * fp + one * fq)
      BY <1>1, <2>1, <2>5, <3>1, FallLinear
    <3>4. Eq(fu, 0)
      BY <1>1, <2>1, <2>2, <2>5, <3>1, FallConstant DEF one
    <3>5. Eq(fx, 0 - fp) /\ Eq(fy, 0 - fq)
      BY <2>4
    <3> HIDE DEF fx, fy, fp, fq, fd, fu
    <3>6. Eq(fx + fy, (0 - fp) + (0 - fq))
      BY <3>5, EqSum
    <3>7. Eq(0 - fu, 0 - (fp + fq)) /\ Eq(0 - fu, 0 - 0)
      <4>1. one * fp + one * fq = fp + fq /\ Eq(0, 0)
        BY <3>3, EqRefl DEF one
      <4>2. Eq(fu, fp + fq)
        BY <3>3, <4>1
      <4>3. QED BY <3>4, <4>1, <4>2, EqSum
    <3>8. Eq(0 - (fp + fq), 0)
      <4>1. Eq(0 - (fp + fq), 0 - fu) /\ 0 - 0 = 0
        BY <3>7, EqSym
      <4>2. QED BY <3>7, <4>1, EqTrans
    <3>9. (0 - fp) + (0 - fq) = 0 - (fp + fq) /\ one * fx + one * fy = fx + fy
      BY <3>2, <3>3 DEF one
    <3>10. Eq(fd, 0)
      BY <3>2, <3>6, <3>8, <3>9, EqTrans
    <3>11. QED BY <3>10 DEF fd
  <2>8. ASSUME NEW n \in LocalBorder(c) PROVE Eq(d[n], 0)
    <3>1. Eq(x[n] + y[n], 0 + 0) /\ d[n] = x[n] + y[n]
      BY <2>3, <2>6, EqSum
    <3>2. 0 + 0 = 0
      OBVIOUS
    <3>3. QED BY <3>1, <3>2
  <2>9. \A n \in S : IF n \in LocalBorder(c) THEN Eq(d[n], 0) ELSE Eq(Fall(K, es, d, n), 0)
    BY <2>7, <2>8
  <2>10. \A n \in S : Eq(d[n], 0)
    BY <1>6, <2>5, <2>9, LocalUnique DEF S, K, es
  <2>11. QED BY <1>1, <2>6, <2>10 DEF x, y
<1>11. ASSUME NEW s \in Slots, IsSolved(c, s)
       PROVE  \A n \in S \ LocalBorder(c) : Eq(Fall(K, es, v[s], n), LocalRhs(c, s)[n])
  BY <1>11, LocalSolved
<1>12. QED BY <1>3, <1>4, <1>5, <1>6, <1>9, <1>10, <1>11 DEF Fits

\* The local solutions of a cell, kept.
LocalFits(c) == Fits(c, local[c])

\* A function whose flux does not fall between two nodes has one flux there.
LEMMA SameFlux ==
  ASSUME NEW K \in [Entities -> Int], NEW l \in Nat, NEW r \in Nat, l < r, r <= Size,
         NEW es, es = {n \in Nat : l < n /\ n <= r}, NEW u \in [Nodes -> Int],
         \A n \in Nat : l < n /\ n < r => Eq(Fall(K, es, u, n), 0),
         NEW e \in es
  PROVE  Eq(K[e] * (u[e] - u[e - 1]), K[l + 1] * (u[l + 1] - u[l]))
<1> DEFINE H == [n \in Nat |-> IF n \in es THEN K[n] * (u[n] - u[n - 1]) ELSE 0]
           a == l + 1
           S == {n \in Nat : a < n /\ n <= e}
           F == [n \in S |-> 0]
<1>1. es \subseteq Entities /\ Entities = 1 .. Size /\ Size \in Nat /\ a \in Nat /\ e \in Nat /\ a <= e /\ e <= r /\ a \in es
  BY Grid, Sizes
<1>2. \A n \in es : n \in Nat /\ n \in Nodes /\ n - 1 \in Nodes /\ K[n] \in Int
  BY <1>1, NodesOf
<1>3. \A n \in es : K[n] * (u[n] - u[n - 1]) \in Int
  BY <1>2
<1>4. H \in [Nat -> Int] /\ \A n \in es : H[n] = K[n] * (u[n] - u[n - 1])
  BY <1>2, <1>3
<1>5. ASSUME NEW n \in S PROVE Div(H[n] - H[n - 1] - F[n])
  <2> DEFINE m == n - 1
  <2>1. m \in es /\ n \in es /\ m + 1 = n /\ l < m /\ m < r /\ m \in Nat
    BY <1>1
  <2> HIDE DEF m
  <2>2. Fall(K, es, u, m) = K[m] * (u[m] - u[m - 1]) - K[n] * (u[n] - u[m])
    BY <2>1 DEF Fall, Part
  <2>3. H[m] = K[m] * (u[m] - u[m - 1]) /\ H[n] = K[n] * (u[n] - u[m])
    BY <1>4, <2>1 DEF m
  <2> HIDE DEF H
  <2>4. Eq(H[m] - H[n], 0)
    BY <2>1, <2>2, <2>3
  <2>5. H[m] \in Int /\ H[n] \in Int
    BY <1>4, <2>1
  <2>6. Eq(0, H[m] - H[n])
    BY <2>4, EqSym
  <2>7. Div(0 - (H[m] - H[n]))
    BY <2>6 DEF Eq
  <2>8. 0 - (H[m] - H[n]) = H[n] - H[m] - 0 /\ F[n] = 0
    BY <2>5
  <2>9. QED BY <2>7, <2>8 DEF m
<1>6. S \subseteq Nat /\ \A n \in S : Eq(F[n], 0)
  BY EqRefl
<1>7. Ints(F, S)
  BY DEF Ints
<1>8. e <= Size
  BY <1>1
<1> HIDE DEF H, F, a
<1>9. Div(Total(F, S) - (H[e] - H[a]))
  BY <1>1, <1>4, <1>5, <1>7, <1>8, TotalTelescopes
<1>10. Eq(Total(F, S), 0)
  BY <1>6, SumZero
<1>11. H[e] \in Int /\ H[a] \in Int /\ Total(F, S) \in Int
  BY <1>1, <1>4, <1>10 DEF Eq
<1>12. Eq(H[e] - H[a], 0)
  <2>1. Eq(Total(F, S), H[e] - H[a])
    BY <1>9, <1>11 DEF Eq
  <2>2. QED BY <1>10, <2>1, EqSym, EqTrans
<1>13. Eq(H[e], H[a])
  <2>1. (H[e] - H[a]) - 0 = H[e] - H[a]
    BY <1>11
  <2>2. QED BY <1>11, <1>12, <2>1 DEF Eq
<1>14. H[e] = K[e] * (u[e] - u[e - 1]) /\ H[a] = K[l + 1] * (u[l + 1] - u[l])
  <2>1. a - 1 = l
    BY DEF a
  <2>2. QED BY <1>1, <1>4, <2>1 DEF a
<1>15. QED BY <1>13, <1>14

\* A corrected shape function has one flux, none if a border is free.
LEMMA OneFlux ==
  ASSUME Data, SystemType, NEW c \in Cells, LocalFits(c), NEW s \in Inner
  PROVE  \E I \in Int :
           /\ \A e \in Patch(c) : Eq(k[e] * (Reconstruction(c, s)[e] - Reconstruction(c, s)[e - 1]), I)
           /\ ~Closed => I = 0
<1> DEFINE l == Left(c)
           r == Right(c)
           es == Patch(c)
           u == Reconstruction(c, s)
           K == k
           q(e) == K[e] * (u[e] - u[e - 1])
           a == l + 1
<1>1. /\ l \in Nat /\ r \in Nat /\ l < r /\ r <= Size /\ es = {n \in Nat : l < n /\ n <= r}
      /\ Around(c) = l .. r /\ Around(c) \subseteq Nodes /\ es \subseteq Entities
  BY PatchIs DEF Data
<1>2. u \in [Nodes -> Int] /\ K \in [Entities -> Int]
  BY ReconstructionIs DEF Data
<1>3. \A n \in Around(c) \ LocalBorder(c) : Eq(Fall(K, es, u, n), 0)
  BY DEF LocalFits, Fits, Reconstruction
<1>4. LocalBorder(c) \subseteq {l, r} /\ (~Closed => LocalBorder(c) = {l} \/ LocalBorder(c) = {r})
  BY BorderIs DEF Data
<1> HIDE DEF l, r, es, u, K
<1>5. \A n \in Nat : l < n /\ n < r => Eq(Fall(K, es, u, n), 0)
  <2> SUFFICES ASSUME NEW n \in Nat, l < n, n < r PROVE Eq(Fall(K, es, u, n), 0)
    OBVIOUS
  <2>1. n \in Around(c) /\ n \notin LocalBorder(c)
    BY <1>1, <1>4
  <2>2. QED BY <1>3, <2>1
<1>6. a - 1 = l
  BY <1>1
<1>7. \A e \in es : Eq(q(e), q(a))
  <2> SUFFICES ASSUME NEW e \in es PROVE Eq(q(e), q(a))
    OBVIOUS
  <2>1. Eq(K[e] * (u[e] - u[e - 1]), K[l + 1] * (u[l + 1] - u[l]))
    BY <1>1, <1>2, <1>5, SameFlux
  <2>2. QED BY <1>6, <2>1
<1>8. a \in es /\ r \in es /\ r + 1 \notin es /\ l \notin es
  BY <1>1
<1>9. q(a) \in Int
  BY <1>7, <1>8 DEF Eq
<1>10. CASE Closed
  BY <1>7, <1>9, <1>10 DEF u, es, K
<1>11. CASE ~Closed
  <2>1. \A e \in es : Eq(q(e), 0)
    <3>1. CASE LocalBorder(c) = {l}
      <4>1. r \in Around(c) \ LocalBorder(c)
        BY <1>1, <3>1
      <4>2. Eq(Fall(K, es, u, r), 0)
        BY <1>3, <4>1
      <4>3. Fall(K, es, u, r) = q(r) - 0
        BY <1>8 DEF Fall, Part
      <4>4. Eq(q(r), q(a))
        BY <1>7, <1>8
      <4>5. q(r) - 0 = q(r)
        BY <4>4 DEF Eq
      <4> HIDE DEF q
      <4>6. Eq(q(a), 0)
        BY <4>2, <4>3, <4>4, <4>5, EqSym, EqTrans
      <4>7. QED BY <1>7, <4>6, EqTrans
    <3>2. CASE LocalBorder(c) = {r}
      <4>1. l \in Around(c) \ LocalBorder(c)
        BY <1>1, <3>2
      <4>2. Eq(Fall(K, es, u, l), 0)
        BY <1>3, <4>1
      <4>3. Fall(K, es, u, l) = 0 - q(a)
        BY <1>6, <1>8 DEF Fall, Part
      <4> HIDE DEF q
      <4>4. Eq(0 - (0 - q(a)), 0 - 0) /\ 0 - 0 = 0
        BY <4>2, <4>3, EqRefl, EqSum
      <4>5. 0 - (0 - q(a)) = q(a)
        BY <1>9
      <4>6. Eq(q(a), 0)
        BY <4>4, <4>5
      <4>7. QED BY <1>7, <4>6, EqTrans
    <3>3. QED BY <1>4, <1>11, <3>1, <3>2
  <2>2. QED BY <1>11, <2>1 DEF u, es, K
<1>12. QED BY <1>10, <1>11

\* The entries of a cell add up to zero, row by row,
LEMMA BlockRows ==
  ASSUME Data, SystemType, NEW c \in Cells, LocalFits(c), NEW s \in Inner
  PROVE  Eq(MatrixIntegral(c, s, 0) + MatrixIntegral(c, s, 1), 0)
<1> DEFINE es == Micros(c)
           R(t) == Reconstruction(c, t)
           F == [e \in es |-> Energy(k, R(s), R(0), e)]
           g == [e \in es |-> Energy(k, R(s), R(1), e)]
           h == [e \in es |-> 0]
           one == 1
<1>1. /\ es \subseteq Nat /\ es \subseteq Patch(c) /\ es \subseteq Entities /\ Patch(c) \subseteq Entities
      /\ \A e \in es : e \in Around(c) /\ e - 1 \in Around(c) /\ e \in Nodes /\ e - 1 \in Nodes
  BY PatchIs, NodesOf DEF Data
<1>2. \A t \in Inner : R(t) \in [Nodes -> Int]
  BY ReconstructionIs
<1>3. \A t \in Inner, e \in es : Energy(k, R(s), R(t), e) \in Int
  BY <1>1, <1>2, EnergyInt DEF Data
<1>4. 0 \in Inner /\ 1 \in Inner /\ one \in Int
  BY DEF Inner
<1>5. Ints(F, es) /\ Ints(g, es)
  BY <1>3, <1>4 DEF Ints
<1>6. \A n \in Around(c) : Eq(R(0)[n] + R(1)[n], 1)
  <2> SUFFICES ASSUME NEW n \in Around(c) PROVE Eq(R(0)[n] + R(1)[n], 1)
    OBVIOUS
  <2>1. n \in Nodes
    BY PatchIs DEF Data
  <2> DEFINE x == R(0)[n]
             y == R(1)[n]
             p == CoarseBasis(c, 0)[n]
             q == CoarseBasis(c, 1)[n]
             v == local[c][0][n]
             w == local[c][1][n]
  <2>2. /\ x \in Int /\ y \in Int /\ p \in Int /\ q \in Int /\ v \in Int /\ w \in Int
        /\ Div(x - (p + v)) /\ Div(y - (q + w))
    BY <1>2, <1>4, <2>1, ReconstructionIs, CoarseBasisIs
  <2>3. Eq(p + q, 1) /\ Eq(v + w, 0)
    BY <2>1, BasisSum DEF LocalFits, Fits
  <2> HIDE DEF x, y, p, q, v, w
  <2>4. p + v \in Int /\ q + w \in Int
    BY <2>2
  <2>5. Eq(x, p + v) /\ Eq(y, q + w)
    BY <2>2, <2>4 DEF Eq
  <2>6. Eq(x + y, (p + v) + (q + w)) /\ Eq((p + q) + (v + w), 1 + 0)
    BY <2>3, <2>5, EqSum
  <2>7. (p + v) + (q + w) = (p + q) + (v + w) /\ 1 + 0 = 1
    BY <2>2
  <2>8. Eq(x + y, 1)
    BY <2>6, <2>7, EqTrans
  <2>9. QED BY <2>8 DEF x, y
<1>7. \A e \in es : Eq(h[e], one * F[e] + one * g[e])
  <2> SUFFICES ASSUME NEW e \in es PROVE Eq(h[e], one * F[e] + one * g[e])
    OBVIOUS
  <2> DEFINE p == e - 1
             K == k[e]
             a == R(s)[e]
             b == R(s)[p]
             v == R(0)[e]
             w == R(0)[p]
             x == R(1)[e]
             y == R(1)[p]
  <2>1. /\ K \in Int /\ a \in Int /\ b \in Int /\ v \in Int /\ w \in Int /\ x \in Int /\ y \in Int
    BY <1>1, <1>2, <1>4 DEF Data
  <2>2. Eq(v + x, 1) /\ Eq(w + y, 1)
    BY <1>1, <1>6
  <2>3. F[e] = K * (a - b) * (v - w) /\ g[e] = K * (a - b) * (x - y) /\ h[e] = 0
    BY DEF Energy
  <2> HIDE DEF K, p, a, b, v, w, x, y, F, g, h
  <2>4. Eq((v + x) - (w + y), 1 - 1) /\ 1 - 1 = 0
    BY <2>2, EqSum
  <2> DEFINE m == K * (a - b)
  <2>5. m \in Int
    BY <2>1
  <2>6. F[e] = m * (v - w) /\ g[e] = m * (x - y)
    BY <2>3
  <2> HIDE DEF m
  <2>7. Eq(m * ((v + x) - (w + y)), m * 0)
    BY <2>4, <2>5, EqRefl, EqTimes
  <2>8. one * F[e] + one * g[e] = m * ((v + x) - (w + y)) /\ m * 0 = 0
    <3>1. one * F[e] + one * g[e] = m * (v - w) + m * (x - y)
      <4>1. m * (v - w) \in Int /\ m * (x - y) \in Int
        BY <2>1, <2>5
      <4>2. QED BY <2>6, <4>1
    <3>2. m * (v - w) + m * (x - y) = m * ((v + x) - (w + y)) /\ m * 0 = 0
      BY <2>1, <2>5
    <3>3. QED BY <3>1, <3>2
  <2>9. QED BY <2>3, <2>7, <2>8, EqSym
<1>8. MatrixIntegral(c, s, 0) = Total(F, es) /\ MatrixIntegral(c, s, 1) = Total(g, es)
  BY CoveredIsCell DEF MatrixIntegral
<1>9. \A e \in es : Eq(h[e], 0)
  BY EqRefl
<1> HIDE DEF F, g, h, one
<1>10. Eq(Total(h, es), one * Total(F, es) + one * Total(g, es))
  BY <1>1, <1>4, <1>5, <1>7, SumLinear
<1>11. Eq(Total(h, es), 0)
  BY <1>1, <1>9, SumZero
<1>12. one * Total(F, es) + one * Total(g, es) = Total(F, es) + Total(g, es)
  <2>1. Total(F, es) \in Int /\ Total(g, es) \in Int
    BY <1>1, <1>5, TotalSums
  <2>2. QED BY <2>1 DEF one
<1>13. QED BY <1>8, <1>10, <1>11, <1>12, EqSym, EqTrans

\* and vanish if a border is free.
LEMMA FreeBlock ==
  ASSUME Data, SystemType, NEW c \in Cells, LocalFits(c), ~Closed, NEW s \in Inner, NEW t \in Inner
  PROVE  Eq(MatrixIntegral(c, s, t), 0)
<1> DEFINE es == Micros(c)
           u == Reconstruction(c, s)
           v == Reconstruction(c, t)
           F == [e \in es |-> Energy(k, u, v, e)]
<1>1. /\ es \subseteq Nat /\ es \subseteq Patch(c) /\ Patch(c) \subseteq Entities
      /\ \A e \in es : e \in Nodes /\ e - 1 \in Nodes
  BY PatchIs, NodesOf DEF Data
<1>2. u \in [Nodes -> Int] /\ v \in [Nodes -> Int]
  BY ReconstructionIs
<1>3. \A e \in Patch(c) : Eq(k[e] * (u[e] - u[e - 1]), 0)
  BY OneFlux
<1>4. MatrixIntegral(c, s, t) = Total(F, es)
  BY CoveredIsCell DEF MatrixIntegral
<1> HIDE DEF u, v
<1>5. \A e \in es : Eq(F[e], 0)
  <2> SUFFICES ASSUME NEW e \in es PROVE Eq(F[e], 0)
    OBVIOUS
  <2> DEFINE x == k[e] * (u[e] - u[e - 1])
             y == v[e] - v[e - 1]
  <2>1. Eq(x, 0) /\ y \in Int /\ F[e] = x * y
    BY <1>1, <1>2, <1>3 DEF Energy
  <2> HIDE DEF x, y, F
  <2>2. Eq(x * y, 0 * y) /\ 0 * y = 0
    BY <2>1, EqRefl, EqTimes
  <2>3. QED BY <2>1, <2>2
<1> HIDE DEF F
<1>6. QED BY <1>1, <1>4, <1>5, SumZero

\* A row of the constrained coarse matrix applied to a function of the nodes.
LEMMA CoarseRows ==
  ASSUME Data, SystemType, Constrained, NEW u \in [CoarseNodes -> Int], NEW i \in CoarseNodes
  PROVE  LET h == [j \in CoarseNodes |-> matrix[i][j] * u[j]]
         IN /\ Ints(h, CoarseNodes) /\ Total(h, CoarseNodes) \in Field
            /\ i \in DirichletNodes => Eq(Total(h, CoarseNodes), u[i])
            /\ i \notin DirichletNodes =>
                 RowValue(u, i) \in Int /\ Eq(Total(h, CoarseNodes), RowValue(u, i))
<1> DEFINE S == CoarseNodes
           h == [j \in S |-> matrix[i][j] * u[j]]
<1>1. S \subseteq Nodes /\ S \subseteq Nat
  BY Grid, Sizes DEF CoarseNodes
<1>2. \A j \in S : matrix[i][j] \in Int /\ u[j] \in Int
  BY DEF SystemType
<1>3. \A j \in S : h[j] \in Int
  BY <1>2
<1>4. Ints(h, S)
  BY <1>3 DEF Ints
<1>5. Total(h, S) \in Field /\ Total(h, S) \in Int
  <2> HIDE DEF h
  <2>1. QED BY <1>1, <1>4, TotalSums
<1>6. CASE i \in DirichletNodes
  <2>1. \A j \in S : matrix[i][j] = IF i = j THEN 1 ELSE 0
    BY <1>6 DEF Constrained
  <2>2. h[i] = u[i] /\ \A j \in S \ {i} : h[j] = 0
    BY <1>2, <2>1
  <2> HIDE DEF h
  <2>3. \A j \in S \ {i} : Eq(h[j], 0)
    BY <2>2, EqRefl
  <2>4. Eq(Total(h, S), h[i])
    BY <1>1, <1>4, <2>3, SumOne
  <2>5. QED BY <1>4, <1>5, <1>6, <2>2, <2>4 DEF h
<1>7. CASE i \notin DirichletNodes
  <2> DEFINE o == [j \in S |-> 0]
             g == [j \in S |-> matrix[i][j] * o[j]]
             mv == Total(h, S)
             mw == Total(g, S)
  <2>1. o \in [S -> Int] /\ \A j \in S : Div(u[j] - (u[j] + o[j]))
    <3>1. \A j \in S : u[j] - (u[j] + o[j]) = 0
      BY <1>2
    <3>2. QED BY <3>1, DivZero
  <2>2. \A j \in S : Div(matrix[i][j] - Entry(Cells, i, j))
    BY <1>7 DEF Constrained
  <2>3. \A j \in S : g[j] = 0
    BY <1>2
  <2>4. mw \in Int /\ RowValue(u, i) \in Int /\ Div((mv + mw) - RowValue(u, i))
    <3> HIDE DEF o
    <3>1. QED BY <2>1, <2>2, RowOfSystem
  <2> HIDE DEF g, o, h
  <2>5. Eq(mw, 0)
    <3>1. \A j \in S : Eq(g[j], 0)
      BY <2>3, EqRefl
    <3>2. QED BY <1>1, <3>1, SumZero
  <2>6. Eq(mv + mw, RowValue(u, i))
    BY <1>5, <2>4 DEF Eq
  <2>7. Eq((mv + mw) - mw, RowValue(u, i) - 0)
    BY <2>5, <2>6, EqSum
  <2>8. (mv + mw) - mw = mv /\ RowValue(u, i) - 0 = RowValue(u, i)
    BY <1>5, <2>4
  <2>9. QED BY <1>4, <1>5, <1>7, <2>4, <2>7, <2>8 DEF h
<1>8. QED BY <1>6, <1>7

\* What a regular coarse matrix makes zero is zero.
LEMMA CoarseUnique ==
  ASSUME Data, SystemType, Constrained, Regular(matrix, CoarseNodes), NEW u \in [CoarseNodes -> Int],
         \A i \in CoarseNodes : IF i \in DirichletNodes THEN Eq(u[i], 0) ELSE Eq(RowValue(u, i), 0)
  PROVE  \A i \in CoarseNodes : Eq(u[i], 0)
<1> DEFINE S == CoarseNodes
           A == matrix
<1>1. S \subseteq Nat /\ \A i \in S : i <= Size
  BY Neighbours
<1>2. A \in [S -> [S -> Int]] /\ Regular(A, S)
  BY DEF SystemType
<1>3. \A i \in S : u[i] \in Int
  OBVIOUS
<1>4. ASSUME NEW i \in S PROVE Eq(Total([j \in S |-> A[i][j] * u[j]], S), 0)
  <2> DEFINE h == [j \in S |-> A[i][j] * u[j]]
  <2>1. /\ i \in DirichletNodes => Eq(Total(h, S), u[i])
        /\ i \notin DirichletNodes => Eq(Total(h, S), RowValue(u, i))
    BY CoarseRows
  <2> HIDE DEF h
  <2>2. Eq(Total(h, S), 0)
    BY <2>1, EqTrans
  <2>3. QED BY <2>2 DEF h
<1>5. Vanishes(A, u, S)
  BY <1>4 DEF Vanishes
<1> HIDE DEF A, S
<1>6. \A i \in S : Eq(u[i], 0)
  BY <1>1, <1>2, <1>3, <1>5, Kernel
<1>7. QED BY <1>6 DEF S

\* The coarse ends.
LEMMA CoarseEnds ==
  /\ 0 \in CoarseNodes /\ NumCells \in CoarseNodes /\ At(0) = 0 /\ At(NumCells) = Size
  /\ \A i \in CoarseNodes : /\ At(i) \in Nodes /\ At(i) \in Int
                            /\ At(i) \in Ends <=> i \in {0, NumCells}
                            /\ i \in Cells <=> i # 0
                            /\ i + 1 \in Cells <=> i # NumCells
                            /\ i \in Nat
<1>1. NumCells \in Nat /\ NumCells >= 1 /\ CoarseNodes = 0 .. NumCells /\ Cells = 1 .. NumCells
  BY Sizes DEF CoarseNodes, Cells
<1>2. At(0) = 0 /\ At(NumCells) = Size /\ Ends = {0, Size} /\ Nodes = 0 .. Size
  BY Grid, LastEntity
<1>3. ASSUME NEW i \in CoarseNodes
      PROVE  At(i) \in Nodes /\ At(i) \in Int /\ (At(i) \in Ends <=> i \in {0, NumCells})
  <2>1. CASE i = 0
    BY <1>1, <1>2, <2>1, Sizes
  <2>2. CASE i = NumCells
    BY <1>1, <1>2, <2>2, Sizes
  <2>3. CASE i # 0 /\ i # NumCells
    <3>1. i \in Cells /\ i + 1 \in Cells /\ (i + 1) - 1 = i
      BY <1>1, <2>3
    <3>2. /\ At(i - 1) \in Nat /\ At(i) \in Nat /\ At(i) = At(i - 1) + Micro
          /\ At(i + 1) = At(i) + Micro /\ At(i + 1) <= Size /\ At(i + 1) \in Nat
      <4> DEFINE j == i + 1
      <4>1. At(j) = At(j - 1) + Micro /\ At(j) <= Size /\ j - 1 = i /\ At(j) \in Nat
        BY <3>1, CellRange
      <4>2. QED BY <3>1, <4>1, CellRange
    <3>3. At(i) > 0 /\ At(i) < Size
      BY <3>2, Sizes
    <3>4. QED BY <1>2, <2>3, <3>2, <3>3, Sizes
  <2>4. QED BY <2>1, <2>2, <2>3
<1>4. QED BY <1>1, <1>2, <1>3

\* A coarse system that is regular has no local grid with a free border.
LEMMA RegularIsClosed ==
  ASSUME Data, SystemType, Constrained, Regular(matrix, CoarseNodes), \A c \in Cells : LocalFits(c)
  PROVE  Closed
<1> SUFFICES ASSUME ~Closed PROVE FALSE
  OBVIOUS
<1>1. boundary.dirichlet \subseteq Ends /\ boundary.dirichlet # Ends
  BY DEF SystemType, Closed
<1>2. PICK i \in CoarseNodes : i \notin DirichletNodes
  <2>1. 0 \notin boundary.dirichlet \/ Size \notin boundary.dirichlet
    BY <1>1, LastEntity
  <2>2. QED BY <2>1, CoarseEnds DEF DirichletNodes
<1> DEFINE u == [j \in CoarseNodes |-> IF j = i THEN 1 ELSE 0]
<1>3. u \in [CoarseNodes -> Int] /\ u[i] = 1 /\ \A j \in DirichletNodes : j \in CoarseNodes /\ u[j] = 0
  BY <1>2 DEF DirichletNodes
<1> HIDE DEF u
<1>4. ASSUME NEW c \in Cells, NEW s \in Inner, NEW x \in Int, NEW y \in Int
      PROVE  Eq(x * MatrixIntegral(c, s, 0) + y * MatrixIntegral(c, s, 1), 0)
  <2> DEFINE p == MatrixIntegral(c, s, 0)
             q == MatrixIntegral(c, s, 1)
  <2>1. Eq(p, 0) /\ Eq(q, 0)
    BY FreeBlock DEF Inner
  <2> HIDE DEF p, q
  <2>2. Eq(x * p, x * 0) /\ Eq(y * q, y * 0)
    BY <2>1, EqRefl, EqTimes
  <2>3. Eq(x * p + y * q, x * 0 + y * 0)
    BY <2>2, EqSum
  <2>4. x * 0 + y * 0 = 0
    OBVIOUS
  <2>5. QED BY <2>3, <2>4 DEF p, q
<1>5. ASSUME NEW j \in CoarseNodes PROVE Eq(RowValue(u, j), 0)
  <2> DEFINE a == IF j \in Cells THEN u[j - 1] * MatrixIntegral(j, 1, 0) + u[j] * MatrixIntegral(j, 1, 1) ELSE 0
             b == IF j + 1 \in Cells
                  THEN u[j] * MatrixIntegral(j + 1, 0, 0) + u[j + 1] * MatrixIntegral(j + 1, 0, 1) ELSE 0
  <2>1. Eq(a, 0)
    <3>1. CASE j \in Cells
      <4>1. j - 1 \in CoarseNodes /\ u[j - 1] \in Int /\ u[j] \in Int
        BY <1>3, <3>1, Neighbours
      <4>2. QED BY <1>4, <3>1, <4>1 DEF Inner
    <3>2. CASE j \notin Cells
      BY <3>2, EqRefl
    <3>3. QED BY <3>1, <3>2
  <2>2. Eq(b, 0)
    <3>1. CASE j + 1 \in Cells
      <4>1. u[j + 1] \in Int /\ u[j] \in Int
        BY <1>3, <3>1, Neighbours
      <4>2. QED BY <1>4, <3>1, <4>1 DEF Inner
    <3>2. CASE j + 1 \notin Cells
      BY <3>2, EqRefl
    <3>3. QED BY <3>1, <3>2
  <2>3. RowValue(u, j) = a + b
    BY DEF RowValue
  <2> HIDE DEF a, b
  <2>4. Eq(a + b, 0 + 0) /\ 0 + 0 = 0
    BY <2>1, <2>2, EqSum
  <2>5. QED BY <2>3, <2>4
<1>6. \A j \in CoarseNodes : IF j \in DirichletNodes THEN Eq(u[j], 0) ELSE Eq(RowValue(u, j), 0)
  BY <1>3, <1>5, EqRefl
<1>7. Eq(u[i], 0)
  BY <1>3, <1>6, CoarseUnique
<1>8. QED BY <1>3, <1>7, OneNotZero

\* Without layers the border of a local grid is that of its cell.
LEMMA CellBorder ==
  ASSUME Data, SystemType, layers = 0, Closed, NEW c \in Cells, LocalFits(c)
  PROVE  /\ LocalBorder(c) = {At(c - 1), At(c)} /\ Patch(c) = Micros(c)
         /\ \A s \in Slots : Eq(local[c][s][At(c - 1)], 0) /\ Eq(local[c][s][At(c)], 0)
<1>1. LocalBorder(c) = {At(c - 1), At(c)} /\ Patch(c) = Micros(c)
  BY PatchIs, BorderIs DEF Data
<1>2. QED BY <1>1 DEF LocalFits, Fits

\* There the corrected shape functions have the values of a hat.
LEMMA EndValues ==
  ASSUME Data, SystemType, layers = 0, Closed, NEW c \in Cells, LocalFits(c), NEW s \in Inner
  PROVE  /\ At(c - 1) \in Nodes /\ At(c) \in Nodes
         /\ Eq(Reconstruction(c, s)[At(c - 1)], 1 - s) /\ Eq(Reconstruction(c, s)[At(c)], s)
<1> DEFINE a == At(c - 1)
           b == At(c)
           r == Reciprocal(Micro)
<1>1. a \in Nat /\ b \in Nat /\ b = a + Micro /\ a \in Nodes /\ b \in Nodes /\ Micro \in Nat
  BY CellRange, Sizes, Grid
<1>2. r \in Int /\ Div(Micro * r - 1) /\ s \in {0, 1}
  BY MicroReciprocal DEF Inner
<1>3. ASSUME NEW n \in Nodes, NEW x \in Int, Eq(r * Distance(c, s, n), x), Eq(local[c][s][n], 0)
      PROVE  Eq(Reconstruction(c, s)[n], x)
  <2> DEFINE u == Reconstruction(c, s)[n]
             v == CoarseBasis(c, s)[n]
             w == local[c][s][n]
             d == r * Distance(c, s, n)
  <2>1. u \in Int /\ v \in Int /\ w \in Int /\ d \in Int /\ Div(u - (v + w)) /\ Div(v - d)
    <3>1. /\ local[c][s] \in [Nodes -> Int] /\ Reconstruction(c, s) \in [Nodes -> Int]
          /\ CoarseBasis(c, s) \in [Nodes -> Int]
          /\ Div(u - (v + w)) /\ Div(v - d)
      BY ReconstructionIs, CoarseBasisIs
    <3>2. d \in Int
      BY <1>3 DEF Eq
    <3>3. QED BY <3>1, <3>2
  <2>2. Eq(d, x) /\ Eq(w, 0)
    BY <1>3
  <2> HIDE DEF u, v, w, d
  <2>3. Eq(u, v + w) /\ Eq(v, d)
    BY <2>1 DEF Eq
  <2>4. Eq(v, x)
    BY <2>2, <2>3, EqTrans
  <2>5. Eq(v + w, x + 0) /\ x + 0 = x
    BY <2>2, <2>4, EqSum
  <2>6. Eq(u, x)
    BY <2>3, <2>5, EqTrans
  <2>7. QED BY <2>6 DEF u
<1>4. Eq(local[c][s][a], 0) /\ Eq(local[c][s][b], 0)
  BY CellBorder DEF Inner, Slots
<1>5. Distance(c, s, a) = (IF s = 0 THEN b - a ELSE a - a) /\ Distance(c, s, b) = (IF s = 0 THEN b - b ELSE b - a)
  BY DEF Distance
<1> HIDE DEF a, b, r
<1>6. Eq(r * Distance(c, s, a), 1 - s) /\ Eq(r * Distance(c, s, b), s)
  <2>1. r * Micro = Micro * r /\ r * Micro \in Int /\ r * 0 = 0 /\ b - a = Micro /\ a - a = 0 /\ b - b = 0
    BY <1>1, <1>2
  <2>2. Eq(r * Micro, 1) /\ Eq(r * 0, 0)
    BY <1>2, <2>1, EqRefl DEF Eq
  <2>3. CASE s = 0
    BY <1>5, <2>1, <2>2, <2>3
  <2>4. CASE s = 1
    BY <1>5, <2>1, <2>2, <2>4
  <2>5. QED BY <1>2, <2>3, <2>4
<1>7. 1 - s \in Int /\ s \in Int
  BY <1>2
<1>8. Eq(Reconstruction(c, s)[a], 1 - s) /\ Eq(Reconstruction(c, s)[b], s)
  BY <1>1, <1>3, <1>4, <1>6, <1>7
<1>9. QED BY <1>1, <1>8 DEF a, b

\* A sum over the micro cells of a cell of the differences of a function.
LEMMA OverCell ==
  ASSUME NEW c \in Cells, NEW H, \A n \in Nodes : H[n] \in Int,
         NEW F, Ints(F, Micros(c)), \A e \in Micros(c) : Eq(F[e], H[e] - H[e - 1])
  PROVE  Eq(Total(F, Micros(c)), H[At(c)] - H[At(c - 1)])
<1> DEFINE a == At(c - 1)
           b == At(c)
           S == Micros(c)
           G == [n \in Nat |-> IF n \in Nodes THEN H[n] ELSE 0]
<1>1. /\ a \in Nat /\ b \in Nat /\ a <= b /\ b <= Size /\ S = {n \in Nat : a < n /\ n <= b} /\ S \subseteq Entities
      /\ a \in Nodes /\ b \in Nodes
  BY CellRange, Sizes, Grid
<1>2. G \in [Nat -> Int] /\ \A n \in Nodes : G[n] = H[n]
  BY NodesOf
<1> HIDE DEF a, b, S, G
<1>3. \A n \in S : Div(G[n] - G[n - 1] - F[n])
  <2> SUFFICES ASSUME NEW n \in S PROVE Div(G[n] - G[n - 1] - F[n])
    OBVIOUS
  <2>1. n \in Nodes /\ n - 1 \in Nodes
    BY <1>1, NodesOf
  <2>2. G[n] = H[n] /\ G[n - 1] = H[n - 1]
    BY <1>2, <2>1
  <2>3. Eq(F[n], H[n] - H[n - 1])
    BY DEF S
  <2>4. Eq(H[n] - H[n - 1], F[n])
    BY <2>3, EqSym
  <2>5. QED BY <2>2, <2>4 DEF Eq
<1>4. Ints(F, S)
  BY DEF S
<1>5. Div(Total(F, S) - (G[b] - G[a]))
  BY <1>1, <1>2, <1>3, <1>4, TotalTelescopes
<1>6. Total(F, S) \in Int /\ G[b] - G[a] \in Int
  <2>1. S \subseteq Nat
    BY <1>1
  <2>2. QED BY <1>1, <1>2, <1>4, <2>1, TotalSums
<1>7. Eq(Total(F, S), G[b] - G[a])
  BY <1>5, <1>6 DEF Eq
<1>8. G[b] = H[b] /\ G[a] = H[a]
  BY <1>1, <1>2
<1>9. QED BY <1>7, <1>8 DEF S, a, b

\* The energy of a function with a corrected shape function is the flux of that
\* times the function's rise over the cell.
LEMMA EnergyOverCell ==
  ASSUME Data, NEW c \in Cells, NEW u \in [Nodes -> Int], NEW v \in [Nodes -> Int],
         NEW I \in Int, \A e \in Micros(c) : Eq(k[e] * (v[e] - v[e - 1]), I),
         NEW F, \A e \in Micros(c) : F[e] = Energy(k, u, v, e) \/ F[e] = Energy(k, v, u, e)
  PROVE  Ints(F, Micros(c)) /\ Eq(Total(F, Micros(c)), I * (u[At(c)] - u[At(c - 1)]))
<1> DEFINE S == Micros(c)
           H == [n \in Nodes |-> I * u[n]]
<1>1. S \subseteq Entities /\ At(c) \in Nodes /\ At(c - 1) \in Nodes /\ \A e \in S : e \in Nodes /\ e - 1 \in Nodes
  <2>1. S \subseteq Entities
    BY CellRange
  <2>2. At(c) \in Nodes /\ At(c - 1) \in Nodes
    BY CellRange, Sizes, Grid, SMTT(30)
  <2> HIDE DEF S
  <2>3. \A e \in S : e \in Nodes /\ e - 1 \in Nodes
    BY <2>1, NodesOf
  <2>4. QED BY <2>1, <2>2, <2>3
<1>2. \A n \in Nodes : H[n] = I * u[n] /\ H[n] \in Int
  OBVIOUS
<1> HIDE DEF H
<1>3. \A e \in S : F[e] \in Int /\ Eq(F[e], H[e] - H[e - 1])
  <2> SUFFICES ASSUME NEW e \in S PROVE F[e] \in Int /\ Eq(F[e], H[e] - H[e - 1])
    OBVIOUS
  <2> DEFINE p == e - 1
             K == k[e]
             x == u[e]
             y == u[p]
             d == v[e] - v[p]
  <2>1. K \in Int /\ x \in Int /\ y \in Int /\ d \in Int /\ v[e] \in Int /\ v[p] \in Int
    BY <1>1 DEF Data
  <2>2. Eq(K * d, I) /\ H[e] = I * x /\ H[p] = I * y
    BY <1>1, <1>2
  <2>3. F[e] = K * (x - y) * d \/ F[e] = K * d * (x - y)
    BY DEF Energy
  <2> HIDE DEF K, x, y, d, p
  <2>4. K * (x - y) * d = (K * d) * (x - y) /\ K * d * (x - y) = (K * d) * (x - y)
    BY <2>1
  <2>5. x - y \in Int /\ I * (x - y) = I * x - I * y
    BY <2>1
  <2>6. Eq((K * d) * (x - y), I * (x - y))
    BY <2>2, <2>5, EqRefl, EqTimes
  <2>7. Eq(F[e], H[e] - H[p])
    BY <2>2, <2>3, <2>4, <2>5, <2>6
  <2>8. QED BY <2>7 DEF Eq, p
<1>4. Ints(F, S)
  BY <1>3 DEF Ints
<1>5. Eq(Total(F, S), H[At(c)] - H[At(c - 1)])
  BY <1>2, <1>3, <1>4, OverCell
<1>6. H[At(c)] - H[At(c - 1)] = I * (u[At(c)] - u[At(c - 1)])
  <2> DEFINE x == u[At(c)]
             y == u[At(c - 1)]
  <2>1. x \in Int /\ y \in Int
    BY <1>1
  <2>2. H[At(c)] = I * x /\ H[At(c - 1)] = I * y
    BY <1>1, <1>2
  <2> HIDE DEF x, y
  <2>3. I * x - I * y = I * (x - y)
    BY <2>1
  <2>4. QED BY <2>2, <2>3 DEF x, y
<1>7. QED BY <1>4, <1>5, <1>6

\* The entries of a cell applied to the values a function of the fine nodes has
\* at its two coarse nodes: the energy of that function.
LEMMA BlockIsEnergy ==
  ASSUME Data, SystemType, layers = 0, Closed, NEW c \in Cells, LocalFits(c), NEW s \in Inner,
         NEW u \in [Nodes -> Int]
  PROVE  LET F == [e \in Micros(c) |-> Energy(k, u, Reconstruction(c, s), e)]
         IN /\ Ints(F, Micros(c))
            /\ Eq(u[At(c - 1)] * MatrixIntegral(c, s, 0) + u[At(c)] * MatrixIntegral(c, s, 1), Total(F, Micros(c)))
<1> DEFINE S == Micros(c)
           R(t) == Reconstruction(c, t)
           F == [e \in S |-> Energy(k, u, R(s), e)]
           a == At(c - 1)
           b == At(c)
<1>1. R(s) \in [Nodes -> Int] /\ \A t \in Inner : R(t) \in [Nodes -> Int]
  BY ReconstructionIs
<1>2. PICK I \in Int : \A e \in S : Eq(k[e] * (R(s)[e] - R(s)[e - 1]), I)
  <2>1. Patch(c) = S
    BY CellBorder
  <2>2. QED BY <2>1, OneFlux
<1>3. Ints(F, S) /\ Eq(Total(F, S), I * (u[b] - u[a]))
  <2>1. \A e \in S : F[e] = Energy(k, u, R(s), e)
    OBVIOUS
  <2> HIDE DEF F, R
  <2>2. QED BY <1>1, <1>2, <2>1, EnergyOverCell
<1>4. ASSUME NEW t \in Inner PROVE Eq(MatrixIntegral(c, s, t), I * (t - (1 - t)))
  <2> DEFINE g == [e \in S |-> Energy(k, R(s), R(t), e)]
             v == R(t)
  <2>1. MatrixIntegral(c, s, t) = Total(g, S)
    BY CoveredIsCell DEF MatrixIntegral
  <2>2. Eq(v[b], t) /\ Eq(v[a], 1 - t)
    BY EndValues
  <2>3. v \in [Nodes -> Int] /\ \A e \in S : g[e] = Energy(k, R(s), v, e)
    BY <1>1
  <2> HIDE DEF g, v, R
  <2>4. Eq(Total(g, S), I * (v[b] - v[a]))
    BY <1>1, <1>2, <2>3, EnergyOverCell
  <2> HIDE DEF a, b
  <2>5. Eq(v[b] - v[a], t - (1 - t))
    BY <2>2, EqSum
  <2>6. Eq(I * (v[b] - v[a]), I * (t - (1 - t)))
    BY <2>5, EqRefl, EqTimes
  <2>7. QED BY <2>1, <2>4, <2>6, EqTrans
<1> DEFINE x == u[a]
           y == u[b]
           p == MatrixIntegral(c, s, 0)
           q == MatrixIntegral(c, s, 1)
           T == Total(F, S)
<1>5. x \in Int /\ y \in Int
  BY EndValues
<1>6. Eq(p, I * (0 - (1 - 0))) /\ Eq(q, I * (1 - (1 - 1)))
  BY <1>4 DEF Inner
<1>7. Eq(T, I * (y - x))
  BY <1>3
<1>8. I * (0 - (1 - 0)) = 0 - I /\ I * (1 - (1 - 1)) = I
  OBVIOUS
<1> HIDE DEF x, y, p, q, T
<1>9. Eq(x * p, x * (0 - I)) /\ Eq(y * q, y * I)
  BY <1>5, <1>6, <1>8, EqRefl, EqTimes
<1>10. Eq(x * p + y * q, x * (0 - I) + y * I)
  BY <1>9, EqSum
<1>11. x * (0 - I) + y * I = I * (y - x)
  BY <1>5
<1>12. Eq(x * p + y * q, T)
  BY <1>7, <1>10, <1>11, EqSym, EqTrans
<1>13. QED BY <1>3, <1>12 DEF x, y, p, q, T

\* There the direction of the boundary part is zero.
LEMMA DirectionEnds ==
  ASSUME Data, SystemType, layers = 0, Closed, NEW c \in Cells, LocalFits(c)
  PROVE  Eq(DirectionOfFlux(c)[At(c - 1)], 0) /\ Eq(DirectionOfFlux(c)[At(c)], 0)
<1> DEFINE v == local[c][DirichletSlot]
           w == local[c][NeumannSlot]
           one == 1
           minus == 0 - 1
           d == DirectionOfFlux(c)
<1>1. v \in [Nodes -> Int] /\ w \in [Nodes -> Int]
  BY DEF Data, DirichletSlot, NeumannSlot, Slots
<1>2. d = Combination(one, v, minus, w)
  BY DEF DirectionOfFlux
<1>3. one \in Int /\ minus \in Int
  OBVIOUS
<1>4. \A n \in {At(c - 1), At(c)} : n \in Nodes /\ Eq(v[n], 0) /\ Eq(w[n], 0)
  <2>1. DirichletSlot \in Slots /\ NeumannSlot \in Slots
    BY DEF DirichletSlot, NeumannSlot, Slots
  <2>2. At(c - 1) \in Nodes /\ At(c) \in Nodes
    BY CellRange, Sizes, Grid
  <2>3. QED BY <2>1, <2>2, CellBorder
<1> HIDE DEF v, w, d, one, minus
<1>5. d \in [Nodes -> Int] /\ \A n \in Nodes : Div(d[n] - (one * v[n] + minus * w[n]))
  BY <1>1, <1>2, <1>3, CombinationIs
<1>6. ASSUME NEW n \in {At(c - 1), At(c)} PROVE Eq(d[n], 0)
  <2>1. n \in Nodes /\ v[n] \in Int /\ w[n] \in Int /\ d[n] \in Int
    BY <1>1, <1>4, <1>5
  <2>2. one * v[n] + minus * w[n] = v[n] - w[n]
    BY <2>1 DEF one, minus
  <2>3. Eq(d[n], v[n] - w[n])
    BY <1>5, <2>1, <2>2 DEF Eq
  <2>4. Eq(v[n] - w[n], 0 - 0) /\ 0 - 0 = 0
    BY <1>4, EqSum
  <2>5. QED BY <2>3, <2>4, EqTrans
<1>7. QED BY <1>6 DEF d

\* The load a cell's integral has for a test function is that of the corrected
\* shape function.
LEMMA RhsIsLoad ==
  ASSUME Data, SystemType, EvenSource, layers = 0, Closed, NEW c \in Cells, LocalFits(c), NEW s \in Inner
  PROVE  LET L == [e \in Micros(c) |-> Load(f, Reconstruction(c, s), e)]
         IN Ints(L, Micros(c)) /\ Eq(RhsIntegral(c, s), Total(L, Micros(c)))
<1> DEFINE S == Micros(c)
           R == Reconstruction(c, s)
           G == DirectionOfFlux(c)
           W(e) == Load(f, Plus(TestBase(e, s), local[c][s]), e)
           L == [e \in S |-> Load(f, R, e)]
           D == [e \in S |-> Load(f, R, e) - W(e)]
           E == [e \in S |-> Energy(k, G, R, e)]
           q == [e \in S |-> W(e) - Energy(k, G, R, e)]
           X == [e \in S |-> D[e] + E[e]]
           one == 1
<1>1. S \subseteq Entities /\ S \subseteq Nat /\ one \in Int
  BY CellRange
<1>2. R \in [Nodes -> Int] /\ G \in [Nodes -> Int] /\ k \in [Entities -> Int] /\ f \in [Entities -> Int]
  BY ReconstructionIs, Integrals DEF Data
<1>3. RhsIntegral(c, s) = Total(q, S)
  BY CoveredIsCell DEF RhsIntegral
<1>4. \A e \in S : Load(f, R, e) \in Int /\ W(e) \in Int /\ Energy(k, G, R, e) \in Int
  <2> HIDE DEF R, G, W, S
  <2>1. \A e \in S : Load(f, R, e) \in Int /\ Energy(k, G, R, e) \in Int
    BY <1>1, <1>2, EnergyInt, LoadInt
  <2>2. \A e \in S : W(e) \in Int
    BY <1>1, TestLoadInt DEF W
  <2>3. QED BY <2>1, <2>2
<1>5. PICK I \in Int : \A e \in S : Eq(k[e] * (R[e] - R[e - 1]), I)
  <2>1. Patch(c) = S
    BY CellBorder
  <2>2. QED BY <2>1, OneFlux
<1>6. Ints(E, S) /\ Eq(Total(E, S), I * (G[At(c)] - G[At(c - 1)]))
  <2>1. \A e \in S : E[e] = Energy(k, G, R, e)
    OBVIOUS
  <2> HIDE DEF E, R, G
  <2>2. QED BY <1>2, <1>5, <2>1, EnergyOverCell
<1>7. Eq(Total(E, S), 0)
  <2> DEFINE x == G[At(c)]
             y == G[At(c - 1)]
  <2>1. Eq(x, 0) /\ Eq(y, 0)
    BY DirectionEnds
  <2> HIDE DEF x, y
  <2>2. Eq(x - y, 0 - 0) /\ 0 - 0 = 0
    BY <2>1, EqSum
  <2>3. Eq(I * (x - y), I * 0) /\ I * 0 = 0
    BY <2>2, EqRefl, EqTimes
  <2>4. QED BY <1>6, <2>3, EqTrans DEF x, y
<1>8. Ints(D, S) /\ Div(Total(D, S))
  <2>1. \A e \in S : D[e] = Load(f, R, e) - W(e) /\ D[e] \in Int
    BY <1>4
  <2>2. Ints(D, S)
    BY <2>1 DEF Ints
  <2> HIDE DEF D
  <2>3. QED BY <2>1, <2>2, SameLoad
<1>9. \A e \in S : /\ L[e] = Load(f, R, e) /\ D[e] = Load(f, R, e) - W(e) /\ E[e] = Energy(k, G, R, e)
                   /\ q[e] = W(e) - Energy(k, G, R, e) /\ X[e] = D[e] + E[e]
  OBVIOUS
<1> HIDE DEF L, D, E, q, X, W, R, G
<1>10. \A e \in S : /\ L[e] \in Int /\ D[e] \in Int /\ E[e] \in Int /\ q[e] \in Int /\ X[e] \in Int
                    /\ L[e] = q[e] + X[e] /\ X[e] = D[e] + E[e]
  BY <1>4, <1>9
<1>11. Ints(L, S) /\ Ints(q, S) /\ Ints(X, S)
  BY <1>10 DEF Ints
<1>12. \A e \in S : Eq(L[e], one * q[e] + one * X[e]) /\ Eq(X[e], one * D[e] + one * E[e])
  <2> SUFFICES ASSUME NEW e \in S
               PROVE  Eq(L[e], one * q[e] + one * X[e]) /\ Eq(X[e], one * D[e] + one * E[e])
    OBVIOUS
  <2>1. one * q[e] + one * X[e] = L[e] /\ one * D[e] + one * E[e] = X[e]
    BY <1>10 DEF one
  <2>2. QED BY <1>10, <2>1, EqRefl
<1> HIDE DEF one, S
<1>13. Eq(Total(L, S), one * Total(q, S) + one * Total(X, S)) /\ Eq(Total(X, S), one * Total(D, S) + one * Total(E, S))
  BY <1>1, <1>6, <1>8, <1>11, <1>12, SumLinear
<1>14. Total(q, S) \in Int /\ Total(X, S) \in Int /\ Total(D, S) \in Int /\ Total(E, S) \in Int
  BY <1>1, <1>6, <1>8, <1>11, TotalSums
<1>15. Eq(Total(D, S), 0)
  <2>1. Total(D, S) - 0 = Total(D, S)
    BY <1>14
  <2>2. QED BY <1>8, <1>14, <2>1 DEF Eq
<1>16. Eq(Total(X, S), 0)
  <2>1. one * Total(D, S) + one * Total(E, S) = Total(D, S) + Total(E, S)
    BY <1>14 DEF one
  <2>2. Eq(Total(D, S) + Total(E, S), 0 + 0) /\ 0 + 0 = 0
    BY <1>7, <1>15, EqSum
  <2>3. QED BY <1>13, <2>1, <2>2, EqTrans
<1>17. Eq(Total(L, S), Total(q, S))
  <2>1. one * Total(q, S) + one * Total(X, S) = Total(q, S) + Total(X, S) /\ Total(q, S) + 0 = Total(q, S)
    BY <1>14 DEF one
  <2>2. Eq(Total(q, S) + Total(X, S), Total(q, S) + 0)
    BY <1>14, <1>16, EqRefl, EqSum
  <2>3. QED BY <1>13, <2>1, <2>2, EqTrans
<1>18. QED BY <1>3, <1>11, <1>17, EqSym DEF L, S, R

\* A cell in the balance of a function whose fluxes fall by the source: what
\* flows in and out at its ends is left.
LEMMA CellBalance ==
  ASSUME Data, SystemType, EvenSource, layers = 0, Closed, NEW c \in Cells, LocalFits(c), NEW s \in Inner,
         NEW u \in [Nodes -> Int], NEW G, \A n \in Nodes : G[n] \in Int,
         \A e \in Micros(c) : Eq(k[e] * (u[e] - u[e - 1]), G[e] + f[e])
                              /\ Eq(k[e] * (u[e] - u[e - 1]), G[e - 1] - f[e])
  PROVE  Eq(RhsIntegral(c, s) - (u[At(c - 1)] * MatrixIntegral(c, s, 0) + u[At(c)] * MatrixIntegral(c, s, 1)),
            G[At(c - 1)] * (1 - s) - G[At(c)] * s)
<1> DEFINE S == Micros(c)
           R == Reconstruction(c, s)
           L == [e \in S |-> Load(f, R, e)]
           E == [e \in S |-> Energy(k, u, R, e)]
           F == [e \in S |-> L[e] - E[e]]
           H == [n \in Nodes |-> 0 - G[n] * R[n]]
           a == At(c - 1)
           b == At(c)
           one == 1
           minus == 0 - 1
<1>1. S \subseteq Entities /\ S \subseteq Nat /\ one \in Int /\ minus \in Int
  BY CellRange
<1>2. a \in Nodes /\ b \in Nodes /\ Eq(R[a], 1 - s) /\ Eq(R[b], s)
  BY EndValues
<1>3. R \in [Nodes -> Int] /\ k \in [Entities -> Int] /\ f \in [Entities -> Int]
  BY ReconstructionIs DEF Data
<1>4. Ints(L, S) /\ Eq(RhsIntegral(c, s), Total(L, S))
  BY RhsIsLoad
<1>5. Ints(E, S) /\ Eq(u[a] * MatrixIntegral(c, s, 0) + u[b] * MatrixIntegral(c, s, 1), Total(E, S))
  BY BlockIsEnergy
<1> HIDE DEF R
<1>6. \A n \in Nodes : H[n] \in Int /\ H[n] = 0 - G[n] * R[n]
  BY <1>3
<1>7. \A e \in S : /\ L[e] = f[e] * (R[e - 1] + R[e]) /\ E[e] = k[e] * (u[e] - u[e - 1]) * (R[e] - R[e - 1])
                   /\ F[e] = L[e] - E[e]
  BY DEF Load, Energy
<1> HIDE DEF L, E, F, H
<1>8. \A e \in S : F[e] \in Int /\ Eq(F[e], H[e] - H[e - 1]) /\ Eq(F[e], one * L[e] + minus * E[e])
  <2> SUFFICES ASSUME NEW e \in S
               PROVE  F[e] \in Int /\ Eq(F[e], H[e] - H[e - 1]) /\ Eq(F[e], one * L[e] + minus * E[e])
    OBVIOUS
  <2> DEFINE p == e - 1
             K == k[e]
             d == u[e] - u[p]
             x == R[e]
             y == R[p]
             g == G[e]
             h == G[p]
             t == f[e]
             Q == K * d
  <2>1. e \in Entities /\ e \in Nodes /\ p \in Nodes
    BY <1>1, NodesOf
  <2>2. K \in Int /\ d \in Int /\ x \in Int /\ y \in Int /\ g \in Int /\ h \in Int /\ t \in Int
    BY <1>3, <2>1
  <2>3. Eq(Q, g + t) /\ Eq(Q, h - t)
    OBVIOUS
  <2>4. /\ L[e] = t * (y + x) /\ E[e] = Q * (x - y) /\ F[e] = L[e] - E[e]
        /\ H[e] = 0 - g * x /\ H[p] = 0 - h * y
    BY <1>6, <1>7, <2>1
  <2>5. Q \in Int
    BY <2>2
  <2> HIDE DEF p, K, d, x, y, g, h, t, Q
  <2>6. Eq(Q * x, (g + t) * x) /\ Eq(Q * y, (h - t) * y)
    BY <2>2, <2>3, EqRefl, EqTimes
  <2>7. Eq(Q * x - Q * y, (g + t) * x - (h - t) * y)
    BY <2>6, EqSum
  <2>8. L[e] \in Int /\ E[e] \in Int /\ F[e] \in Int /\ E[e] = Q * x - Q * y
    BY <2>2, <2>4, <2>5
  <2>9. Eq(L[e] - E[e], L[e] - ((g + t) * x - (h - t) * y))
    BY <2>7, <2>8, EqRefl, EqSum
  <2>10. L[e] - ((g + t) * x - (h - t) * y) = H[e] - H[p]
    <3>1. (g + t) * x = g * x + t * x /\ (h - t) * y = h * y - t * y /\ t * (y + x) = t * y + t * x
      BY <2>2
    <3>2. g * x \in Int /\ t * x \in Int /\ h * y \in Int /\ t * y \in Int
      BY <2>2
    <3>3. QED BY <2>4, <3>1, <3>2
  <2>11. one * L[e] + minus * E[e] = F[e]
    BY <2>4, <2>8 DEF one, minus
  <2>12. QED BY <2>4, <2>8, <2>9, <2>10, <2>11, EqRefl DEF p
<1>9. Ints(F, S)
  BY <1>8 DEF Ints
<1>10. Eq(Total(F, S), H[b] - H[a])
  <2> HIDE DEF S
  <2>1. QED BY <1>6, <1>8, <1>9, OverCell DEF S, a, b
<1> DEFINE X == RhsIntegral(c, s)
           Y == u[a] * MatrixIntegral(c, s, 0) + u[b] * MatrixIntegral(c, s, 1)
<1> HIDE DEF X, Y, one, minus, S
<1>11. Eq(X - Y, Total(L, S) - Total(E, S))
  BY <1>4, <1>5, EqSum DEF X, Y
<1>12. Eq(Total(F, S), one * Total(L, S) + minus * Total(E, S))
  BY <1>1, <1>4, <1>5, <1>8, SumLinear
<1>13. one * Total(L, S) + minus * Total(E, S) = Total(L, S) - Total(E, S)
  <2>1. Total(L, S) \in Int /\ Total(E, S) \in Int
    BY <1>1, <1>4, <1>5, TotalSums
  <2>2. QED BY <2>1 DEF one, minus
<1>14. Eq(X - Y, H[b] - H[a])
  BY <1>10, <1>11, <1>12, <1>13, EqSym, EqTrans
<1>15. Eq(H[b] - H[a], G[a] * (1 - s) - G[b] * s)
  <2> DEFINE g == G[a]
             h == G[b]
             x == R[a]
             y == R[b]
             z == 1 - s
  <2>1. g \in Int /\ h \in Int /\ x \in Int /\ y \in Int /\ Eq(x, z) /\ Eq(y, s)
    BY <1>2, <1>3
  <2>2. H[b] = 0 - h * y /\ H[a] = 0 - g * x
    BY <1>2, <1>6
  <2> HIDE DEF g, h, x, y, z
  <2>3. Eq(g * x, g * z) /\ Eq(h * y, h * s)
    BY <2>1, EqRefl, EqTimes
  <2>4. Eq(g * x - h * y, g * z - h * s)
    BY <2>3, EqSum
  <2>5. H[b] - H[a] = g * x - h * y
    <3>1. g * x \in Int /\ h * y \in Int
      BY <2>1
    <3>2. QED BY <2>2, <3>1
  <2>6. QED BY <2>4, <2>5 DEF g, h, z
<1>16. QED BY <1>14, <1>15, EqTrans DEF X, Y, a, b

\* The assembled rows of free dofs, and the values of the fine solution.
LEMMA RowFits ==
  ASSUME Data, SystemType, EvenSource, layers = 0, Closed, \A c \in Cells : LocalFits(c),
         Problem(k, f, boundary),
         boundary.dirichlet = Ends => Total([m \in Entities |-> Reciprocal(k[m])], Entities) # 0,
         NEW u, u = FineSolution(k, f, boundary),
         NEW i \in CoarseNodes, i \notin DirichletNodes
  PROVE  LET U == [j \in CoarseNodes |-> u[At(j)]]
         IN RowValue(U, i) \in Int /\ Eq(RowLoad(Cells, i), RowValue(U, i))
<1> DEFINE b == boundary
           v == b.value
           D == b.dirichlet
           U == [j \in CoarseNodes |-> u[At(j)]]
<1>1. /\ u \in [Nodes -> Field]
      /\ \E J \in Int :
           /\ \A e \in Entities : Eq(k[e] * (u[e] - u[e - 1]), J - Inflow(f, e))
           /\ 0 \notin D => J = 0 - f[1] - v[0]
           /\ Size \notin D => J = Inflow(f, Size) + f[Size] + v[Size]
  <2> HIDE DEF b
  <2>1. Problem(k, f, b) /\ (b.dirichlet = Ends => Total([m \in Entities |-> Reciprocal(k[m])], Entities) # 0)
        /\ u = FineSolution(k, f, b)
    BY DEF b
  <2>2. QED BY <2>1, FineFits
<1>2. PICK J \in Int :
        /\ \A e \in Entities : Eq(k[e] * (u[e] - u[e - 1]), J - Inflow(f, e))
        /\ 0 \notin D => J = 0 - f[1] - v[0]
        /\ Size \notin D => J = Inflow(f, Size) + f[Size] + v[Size]
  BY <1>1
<1>3. u \in [Nodes -> Int] /\ f \in [Entities -> Int] /\ \A e \in Entities : Inflow(f, e) \in Int
  BY <1>1, FieldInt, InflowIs DEF Data
<1> DEFINE G == [n \in Nodes |-> IF n = 0 THEN J + f[1] ELSE J - Inflow(f, n) - f[n]]
<1>4. ASSUME NEW e \in Entities
      PROVE  /\ G[e] = J - Inflow(f, e) - f[e] /\ G[e] \in Int
             /\ G[e - 1] \in Int /\ Eq(G[e - 1], J - Inflow(f, e) + f[e])
  <2>1. e \in Nodes /\ e - 1 \in Nodes /\ e # 0 /\ e \in Nat /\ f[e] \in Int /\ Inflow(f, e) \in Int
    <3>1. e \in Nodes /\ e - 1 \in Nodes /\ e \in Nat
      BY NodesOf
    <3>2. e # 0
      BY DEF Entities
    <3>3. f[e] \in Int /\ Inflow(f, e) \in Int
      BY <1>3
    <3>4. QED BY <3>1, <3>2, <3>3
  <2>2. G[e] = J - Inflow(f, e) - f[e]
    BY <2>1
  <2>3. CASE e = 1
    <3>1. G[e - 1] = J + f[e] /\ Eq(Inflow(f, e), 0)
      BY <1>3, <2>1, <2>3, InflowIs
    <3> DEFINE w == Inflow(f, e)
               g == J + f[e]
    <3>2. g \in Int /\ w \in Int
      BY <2>1
    <3> HIDE DEF G
    <3>3. Eq(g - 0, g - w)
      <4> HIDE DEF g, w
      <4>1. Eq(0, w)
        BY <3>1, EqSym DEF w
      <4>2. QED BY <3>2, <4>1, EqRefl, EqSum
    <3>4. g - 0 = g /\ g - w = J - w + f[e]
      BY <2>1
    <3>5. QED BY <2>1, <2>2, <3>1, <3>3, <3>4
  <2>4. CASE e # 1
    <3> DEFINE p == e - 1
    <3>1. p \in Entities /\ p # 0 /\ p + 1 = e /\ f[p] \in Int /\ Inflow(f, p) \in Int /\ p \in Nodes
      <4>1. p \in Entities /\ p # 0 /\ p + 1 = e
        BY <2>1, <2>4, Grid
      <4> HIDE DEF p
      <4>2. f[p] \in Int /\ Inflow(f, p) \in Int /\ p \in Nodes
        BY <1>3, <4>1, NodesOf
      <4>3. QED BY <4>1, <4>2
    <3>2. G[p] = J - Inflow(f, p) - f[p]
      BY <3>1
    <3> HIDE DEF G, p
    <3>3. Eq(Inflow(f, e), Inflow(f, p) + (f[p] + f[e]))
      BY <1>3, <3>1, InflowIs
    <3> DEFINE w == Inflow(f, e)
               o == Inflow(f, p)
               x == f[p]
               y == f[e]
               g == J + y
    <3>4. w \in Int /\ o \in Int /\ x \in Int /\ y \in Int /\ g \in Int
      BY <2>1, <3>1
    <3>5. Eq(w, o + (x + y)) /\ G[p] = J - o - x
      BY <3>2, <3>3
    <3>6. g = J + y
      OBVIOUS
    <3> HIDE DEF w, o, x, y, g
    <3>7. Eq(g - (o + (x + y)), g - w)
      BY <3>4, <3>5, EqSym, EqRefl, EqSum
    <3>8. g - (o + (x + y)) = J - o - x /\ g - w = J - w + y /\ J - o - x \in Int
      BY <3>4, <3>6
    <3>9. QED BY <2>1, <2>2, <3>5, <3>7, <3>8 DEF w, y, p, G
  <2>5. QED BY <2>1, <2>2, <2>3, <2>4
<1>5. G[0] = J + f[1] /\ 0 \in Nodes
  BY NodesOf, LastEntity
<1>6. \A n \in Nodes : G[n] \in Int
  <2> SUFFICES ASSUME NEW n \in Nodes PROVE G[n] \in Int
    OBVIOUS
  <2>1. CASE n \in Entities
    BY <1>4, <2>1
  <2>2. CASE n = 0
    <3>1. f[1] \in Int
      BY <1>3, LastEntity
    <3>2. QED BY <1>5, <2>2, <3>1
  <2>3. QED BY <2>1, <2>2, NodesOf
<1> HIDE DEF G
<1>7. ASSUME NEW e \in Entities
      PROVE  Eq(k[e] * (u[e] - u[e - 1]), G[e] + f[e]) /\ Eq(k[e] * (u[e] - u[e - 1]), G[e - 1] - f[e])
  <2> DEFINE q == k[e] * (u[e] - u[e - 1])
             g == G[e]
             h == G[e - 1]
             w == Inflow(f, e)
             y == f[e]
  <2>1. w \in Int /\ y \in Int /\ g \in Int /\ h \in Int /\ Eq(q, J - w)
    BY <1>2, <1>3, <1>4
  <2>2. g = J - w - y /\ Eq(h, J - w + y)
    BY <1>4
  <2> HIDE DEF q, g, h, w, y
  <2>3. g + y = J - w /\ (J - w + y) - y = J - w
    BY <2>1, <2>2
  <2>4. Eq(h - y, (J - w + y) - y)
    BY <2>1, <2>2, EqRefl, EqSum
  <2>5. QED BY <2>1, <2>3, <2>4, EqSym, EqTrans DEF q, g, h, y
<1>8. ASSUME NEW c \in Cells, NEW s \in Inner
      PROVE  Eq(RhsIntegral(c, s) - (u[At(c - 1)] * MatrixIntegral(c, s, 0) + u[At(c)] * MatrixIntegral(c, s, 1)),
                G[At(c - 1)] * (1 - s) - G[At(c)] * s)
  <2>1. \A e \in Micros(c) : e \in Entities
    BY CellRange
  <2>2. QED BY <1>3, <1>6, <1>7, <2>1, CellBalance
<1> DEFINE n == At(i)
           V(c, s) == u[At(c - 1)] * MatrixIntegral(c, s, 0) + u[At(c)] * MatrixIntegral(c, s, 1)
           A == IF i \in Cells THEN RhsIntegral(i, 1) ELSE 0
           B == IF i + 1 \in Cells THEN RhsIntegral(i + 1, 0) ELSE 0
           X == IF i \in Cells THEN V(i, 1) ELSE 0
           Y == IF i + 1 \in Cells THEN V(i + 1, 0) ELSE 0
           gl == IF i \in Cells THEN 0 - G[n] ELSE 0
           gr == IF i + 1 \in Cells THEN G[n] ELSE 0
           ends == IF n \in Ends THEN v[n] ELSE 0
<1>9. i \in Nat /\ n \in Nodes /\ n \notin D /\ G[n] \in Int /\ (i + 1) - 1 = i /\ (i + 1) - i = 1
  BY <1>6, CoarseEnds DEF DirichletNodes
<1>10. Eq(A - X, gl)
  <2>1. CASE i \in Cells
    <3>1. Eq(RhsIntegral(i, 1) - V(i, 1), G[At(i - 1)] * (1 - 1) - G[n] * 1)
      BY <1>8, <2>1 DEF Inner
    <3>2. G[At(i - 1)] \in Int
      <4>1. At(i - 1) \in Nodes
        BY <2>1, CellRange, Grid, Sizes
      <4>2. QED BY <1>6, <4>1
    <3> DEFINE x == G[At(i - 1)]
               y == G[n]
    <3>3. x * (1 - 1) - y * 1 = 0 - y
      BY <1>9, <3>2
    <3> HIDE DEF V
    <3>4. QED BY <2>1, <3>1, <3>3
  <2>2. CASE i \notin Cells
    BY <2>2, EqRefl
  <2>3. QED BY <2>1, <2>2
<1>11. Eq(B - Y, gr)
  <2>1. CASE i + 1 \in Cells
    <3> DEFINE c == i + 1
    <3>1. Eq(RhsIntegral(c, 0) - V(c, 0), G[At(c - 1)] * (1 - 0) - G[At(c)] * 0)
      BY <1>8, <2>1 DEF Inner
    <3>2. G[At(c)] \in Int /\ c - 1 = i
      <4>1. At(c) \in Nodes
        BY <2>1, CellRange, Grid, Sizes
      <4>2. QED BY <1>6, <1>9, <4>1
    <3> DEFINE x == G[At(c)]
               y == G[n]
    <3>3. y * (1 - 0) - x * 0 = y
      BY <1>9, <3>2
    <3>4. G[At(c - 1)] = y
      BY <3>2
    <3> HIDE DEF V
    <3>5. QED BY <2>1, <3>1, <3>3, <3>4
  <2>2. CASE i + 1 \notin Cells
    BY <2>2, EqRefl
  <2>3. QED BY <2>1, <2>2
<1>12. RowLoad(Cells, i) = A + B + ends
  <2>1. Flux(n) = ends /\ (i \in Cells /\ i + 1 \in Cells => ends = 0)
    <3>1. n \in Ends <=> i \in {0, NumCells}
      BY CoarseEnds
    <3>2. i \in Cells /\ i + 1 \in Cells => i # 0 /\ i # NumCells
      BY CoarseEnds
    <3>3. QED BY <1>9, <3>1, <3>2 DEF Flux
  <2>2. ends \in Int
    <3>1. \A m \in Ends : v[m] \in Int
      BY FieldInt DEF SystemType
    <3>2. QED BY <3>1
  <2>3. i \in Cells => RhsIntegral(i, 1) \in Int
    BY Integrals DEF Inner
  <2>4. i + 1 \in Cells => RhsIntegral(i + 1, 0) \in Int
    BY Integrals DEF Inner
  <2>5. i \in Cells => RhsBlock(i, i) = RhsIntegral(i, 1) + ends
    <3>1. i - (i - 1) = 1
      BY <1>9
    <3>2. QED BY <2>1, <3>1, BlockOf
  <2>6. i + 1 \in Cells => RhsBlock(i + 1, i) = RhsIntegral(i + 1, 0) + ends
    <3>1. i - ((i + 1) - 1) = 0
      BY <1>9
    <3>2. QED BY <1>9, <2>1, <3>1, BlockOf
  <2>7. i \in Cells \/ i + 1 \in Cells
    BY Neighbours
  <2> HIDE DEF ends
  <2>8. QED BY <2>1, <2>2, <2>3, <2>4, <2>5, <2>6, <2>7 DEF RowLoad, Part
<1>13. RowValue(U, i) = X + Y
  <2>1. i \in Cells => U[i - 1] = u[At(i - 1)] /\ U[i] = u[At(i)]
    BY Neighbours
  <2>2. i + 1 \in Cells => U[i] = u[At((i + 1) - 1)] /\ U[i + 1] = u[At(i + 1)]
    BY <1>9, Neighbours
  <2> HIDE DEF U
  <2>3. QED BY <2>1, <2>2 DEF RowValue
<1>14. Eq(gl + gr + ends, 0) /\ ends \in Int
  <2>1. CASE i = 0
    <3>1. i \notin Cells /\ i + 1 \in Cells /\ n = 0 /\ n \in Ends
      BY <2>1, CoarseEnds, Sizes
    <3>2. G[n] = J + f[1] /\ J = 0 - f[1] - v[0] /\ f[1] \in Int /\ v[0] \in Int
      BY <1>2, <1>3, <1>5, <1>9, <3>1, LastEntity, FieldInt DEF SystemType
    <3>3. gl = 0 /\ gr = G[n] /\ ends = v[0]
      BY <3>1
    <3>4. gl + gr + ends = 0
      BY <3>2, <3>3
    <3>5. QED BY <3>2, <3>3, <3>4, EqRefl
  <2>2. CASE i = NumCells
    <3>1. i \in Cells /\ i + 1 \notin Cells /\ n = Size /\ n \in Ends /\ n \in Entities
      BY <2>2, CoarseEnds, Sizes, LastEntity
    <3>2. /\ G[n] = J - Inflow(f, n) - f[n] /\ J = Inflow(f, n) + f[n] + v[n]
          /\ f[n] \in Int /\ v[n] \in Int /\ Inflow(f, n) \in Int
      BY <1>2, <1>3, <1>4, <1>9, <3>1, FieldInt DEF SystemType
    <3>3. gl = 0 - G[n] /\ gr = 0 /\ ends = v[n]
      BY <3>1
    <3>4. gl + gr + ends = 0
      BY <3>2, <3>3
    <3>5. QED BY <3>2, <3>3, <3>4, EqRefl
  <2>3. CASE i # 0 /\ i # NumCells
    <3>1. i \in Cells /\ i + 1 \in Cells /\ n \notin Ends
      BY <2>3, CoarseEnds
    <3>2. gl = 0 - G[n] /\ gr = G[n] /\ ends = 0
      BY <3>1
    <3>3. gl + gr + ends = 0
      BY <1>9, <3>2
    <3>4. QED BY <3>2, <3>3, EqRefl
  <2>4. QED BY <2>1, <2>2, <2>3
<1>15. A \in Int /\ B \in Int /\ X \in Int /\ Y \in Int
  <2>1. A \in Int /\ B \in Int
    BY Integrals DEF Inner
  <2>2. \A c \in Cells, s \in Inner : V(c, s) \in Int
    <3> SUFFICES ASSUME NEW c \in Cells, NEW s \in Inner PROVE V(c, s) \in Int
      OBVIOUS
    <3>1. MatrixIntegral(c, s, 0) \in Int /\ MatrixIntegral(c, s, 1) \in Int
      BY Integrals DEF Inner
    <3>2. At(c - 1) \in Nodes /\ At(c) \in Nodes
      BY CellRange, Sizes, Grid
    <3>3. u[At(c - 1)] \in Int /\ u[At(c)] \in Int
      BY <1>3, <3>2
    <3>4. QED BY <3>1, <3>3
  <2> HIDE DEF V
  <2>3. X \in Int /\ Y \in Int
    BY <2>2 DEF Inner
  <2>4. QED BY <2>1, <2>3
<1> HIDE DEF A, B, X, Y, gl, gr, ends, U
<1>16. Eq((A - X) + (B - Y), gl + gr)
  BY <1>10, <1>11, EqSum
<1>17. Eq((A - X) + (B - Y) + ends, gl + gr + ends)
  BY <1>14, <1>16, EqRefl, EqSum
<1>18. Eq((A - X) + (B - Y) + ends, 0)
  BY <1>14, <1>17, EqTrans
<1>19. Eq((A - X) + (B - Y) + ends + (X + Y), 0 + (X + Y))
  <2>1. X + Y \in Int
    BY <1>15
  <2>2. QED BY <1>18, <2>1, EqRefl, EqSum
<1>20. (A - X) + (B - Y) + ends + (X + Y) = A + B + ends /\ 0 + (X + Y) = X + Y /\ X + Y \in Int
  BY <1>14, <1>15
<1>21. QED BY <1>12, <1>13, <1>19, <1>20 DEF U

\* A function of the fine nodes whose flux is one.
LEMMA UnitFlux ==
  ASSUME NEW K \in [Entities -> 1 .. P - 1], NEW F \in [Entities -> Int]
  PROVE  \E w \in [Nodes -> Field] :
           /\ w \in [Nodes -> Int] /\ w[0] = 0
           /\ Eq(w[Size], Total([m \in Entities |-> Reciprocal(K[m])], Entities))
           /\ \A e \in Entities : Eq(K[e] * (w[e] - w[e - 1]), 1)
<1> DEFINE T == Total([m \in Entities |-> Reciprocal(K[m])], Entities)
           one == 1
           z == 0
           a(n) == Rise(K, F, one, n)
           b(n) == Rise(K, F, z, n)
           w == [n \in Nodes |-> (a(n) - b(n)) % P]
<1>1. one \in Int /\ z \in Int
  OBVIOUS
<1> HIDE DEF one, z, T
<1>2. /\ \A n \in Nodes : a(n) \in Int /\ b(n) \in Int
      /\ Eq(a(0), 0) /\ Eq(b(0), 0)
      /\ \A e \in Entities : /\ Eq(K[e] * (a(e) - a(e - 1)), one - Inflow(F, e))
                             /\ Eq(K[e] * (b(e) - b(e - 1)), z - Inflow(F, e))
  BY <1>1, RiseIs
<1>3. Eq(a(Size), b(Size) + one * T) /\ T \in Field
  BY <1>1, RiseLinear DEF one, z, T
<1> HIDE DEF a, b
<1>4. ASSUME NEW n \in Nodes PROVE w[n] \in Field /\ w[n] \in Int /\ Eq(w[n], a(n) - b(n))
  <2> DEFINE x == a(n) - b(n)
  <2>1. w[n] = x % P /\ x \in Int
    BY <1>2
  <2> HIDE DEF x, w
  <2>2. QED BY <2>1, EqMod DEF x
<1>5. w \in [Nodes -> Field] /\ w \in [Nodes -> Int]
  BY <1>4
<1> HIDE DEF w
<1>6. ASSUME NEW e \in Entities PROVE Eq(K[e] * (w[e] - w[e - 1]), 1)
  <2> DEFINE p == e - 1
             c == K[e]
             ae == a(e)
             be == b(e)
             ap == a(p)
             bp == b(p)
             i == Inflow(F, e)
  <2>1. /\ c \in Int /\ ae \in Int /\ be \in Int /\ ap \in Int /\ bp \in Int /\ i \in Int
        /\ Eq(w[e], ae - be) /\ Eq(w[p], ap - bp)
        /\ Eq(c * (ae - ap), one - i) /\ Eq(c * (be - bp), z - i)
    <3>1. e \in Nodes /\ p \in Nodes
      BY NodesOf
    <3>2. c \in Int /\ i \in Int
      BY InflowIs, Sizes
    <3>3. QED BY <1>2, <1>4, <3>1, <3>2
  <2> HIDE DEF p, c, ae, be, ap, bp, i
  <2>2. Eq(w[e] - w[p], (ae - be) - (ap - bp))
    BY <2>1, EqSum
  <2>3. Eq(c * (w[e] - w[p]), c * ((ae - be) - (ap - bp)))
    BY <2>1, <2>2, EqRefl, EqTimes
  <2>4. c * ((ae - be) - (ap - bp)) = c * (ae - ap) - c * (be - bp)
    <3> DEFINE x == ae - ap
               y == be - bp
    <3>1. (ae - be) - (ap - bp) = x - y /\ x \in Int /\ y \in Int
      BY <2>1
    <3> HIDE DEF x, y
    <3>2. c * (x - y) = c * x - c * y
      BY <2>1, <3>1
    <3>3. QED BY <3>1, <3>2 DEF x, y
  <2>5. Eq(c * (ae - ap) - c * (be - bp), (one - i) - (z - i))
    BY <2>1, EqSum
  <2>6. (one - i) - (z - i) = 1
    BY <2>1 DEF one, z
  <2>7. Eq(c * (w[e] - w[p]), 1)
    BY <2>3, <2>4, <2>5, <2>6, EqTrans
  <2>8. QED BY <2>7 DEF c, p
<1>7. w[0] = 0 /\ Eq(w[Size], T)
  <2>1. 0 \in Nodes /\ Size \in Nodes /\ 0 \in Field
    BY NodesOf, LastEntity, FieldInt
  <2>2. Eq(a(0) - b(0), 0)
    <3> DEFINE o == 0
    <3>1. o - o = 0 /\ Eq(a(0), o) /\ Eq(b(0), o)
      BY <1>2
    <3> HIDE DEF o
    <3>2. Eq(a(0) - b(0), o - o)
      BY <3>1, EqSum
    <3>3. QED BY <3>1, <3>2
  <2>3. w[0] = 0
    BY <1>4, <2>1, <2>2, EqTrans, EqField
  <2>4. b(Size) \in Int /\ a(Size) \in Int /\ T \in Int
    BY <1>2, <1>3, <2>1, FieldInt
  <2>5. one * T = T /\ (b(Size) + T) - b(Size) = T
    BY <2>4 DEF one
  <2>6. Eq(a(Size), b(Size) + T) /\ Eq(b(Size), b(Size))
    BY <1>3, <2>4, <2>5, EqRefl
  <2>7. Eq(a(Size) - b(Size), (b(Size) + T) - b(Size))
    BY <2>6, EqSum
  <2>8. Eq(w[Size], T)
    BY <1>4, <2>1, <2>5, <2>7, EqTrans
  <2>9. QED BY <2>3, <2>8
<1>8. QED BY <1>5, <1>6, <1>7 DEF T

\* A coarse system that is regular with two Dirichlet ends: the sum of the
\* reciprocal coefficients is not zero.
LEMMA HarmonicNotZero ==
  ASSUME Data, SystemType, Constrained, Regular(matrix, CoarseNodes), layers = 0, Closed,
         \A c \in Cells : LocalFits(c), Problem(k, f, boundary), boundary.dirichlet = Ends
  PROVE  Total([m \in Entities |-> Reciprocal(k[m])], Entities) # 0
<1> DEFINE T == Total([m \in Entities |-> Reciprocal(k[m])], Entities)
<1> SUFFICES ASSUME T = 0 PROVE FALSE
  OBVIOUS
<1>1. k \in [Entities -> 1 .. P - 1] /\ f \in [Entities -> Int]
  BY DEF Problem
<1>2. PICK w \in [Nodes -> Field] : /\ w \in [Nodes -> Int] /\ w[0] = 0 /\ Eq(w[Size], T)
                                    /\ \A e \in Entities : Eq(k[e] * (w[e] - w[e - 1]), 1)
  BY <1>1, UnitFlux
<1> DEFINE W == [i \in CoarseNodes |-> w[At(i)]]
           V(c, s) == w[At(c - 1)] * MatrixIntegral(c, s, 0) + w[At(c)] * MatrixIntegral(c, s, 1)
<1>3. W \in [CoarseNodes -> Int] /\ \A i \in CoarseNodes : W[i] = w[At(i)]
  <2>1. \A i \in CoarseNodes : At(i) \in Nodes
    BY CoarseEnds
  <2>2. QED BY <1>2, <2>1
<1>4. ASSUME NEW c \in Cells, NEW s \in Inner PROVE Eq(V(c, s), s - (1 - s))
  <2> DEFINE S == Micros(c)
             R == Reconstruction(c, s)
             E == [e \in S |-> Energy(k, w, R, e)]
             a == At(c - 1)
             b == At(c)
  <2>1. S \subseteq Entities /\ \A e \in S : e \in Nodes /\ e - 1 \in Nodes
    <3>1. S \subseteq Entities
      BY CellRange
    <3> HIDE DEF S
    <3>2. QED BY <3>1, NodesOf
  <2>2. Eq(R[a], 1 - s) /\ Eq(R[b], s)
    BY EndValues
  <2>3. R \in [Nodes -> Int] /\ k \in [Entities -> Int]
    BY ReconstructionIs DEF Data
  <2>4. Ints(E, S) /\ Eq(V(c, s), Total(E, S))
    BY <1>2, BlockIsEnergy
  <2> HIDE DEF R
  <2>5. \A e \in S : Eq(E[e], R[e] - R[e - 1])
    <3> SUFFICES ASSUME NEW e \in S PROVE Eq(E[e], R[e] - R[e - 1])
      OBVIOUS
    <3> DEFINE q == k[e] * (w[e] - w[e - 1])
               d == R[e] - R[e - 1]
               one == 1
    <3>1. E[e] = q * d
      BY DEF Energy
    <3>2. Eq(q, one) /\ d \in Int
      BY <1>2, <2>1, <2>3
    <3> HIDE DEF q, d, E, one
    <3>3. Eq(q * d, one * d)
      BY <3>2, EqRefl, EqTimes
    <3>4. one * d = d
      BY <3>2 DEF one
    <3>5. QED BY <3>1, <3>3, <3>4 DEF d
  <2> HIDE DEF E, V
  <2>6. Eq(Total(E, S), R[b] - R[a])
    <3>1. \A n \in Nodes : R[n] \in Int
      BY <2>3
    <3>2. QED BY <2>4, <2>5, <3>1, OverCell
  <2>7. Eq(R[b] - R[a], s - (1 - s))
    BY <2>2, EqSum
  <2>8. QED BY <2>4, <2>6, <2>7, EqTrans
<1>5. V(1, 1) = W[0] * MatrixIntegral(1, 1, 0) + W[1] * MatrixIntegral(1, 1, 1) /\ 1 \in Cells
      /\ 0 \in CoarseNodes /\ 1 \in CoarseNodes
  <2>1. 0 \in CoarseNodes /\ 1 \in CoarseNodes /\ 1 \in Cells /\ 1 - 1 = 0
    BY Sizes DEF CoarseNodes, Cells
  <2>2. QED BY <1>3, <2>1
<1>6. ASSUME NEW i \in CoarseNodes, i \in Cells, i + 1 \in Cells PROVE Eq(RowValue(W, i), 0)
  <2>1. W[i - 1] = w[At(i - 1)] /\ W[i] = w[At(i)] /\ W[i] = w[At((i + 1) - 1)] /\ W[i + 1] = w[At(i + 1)]
    <3>1. i - 1 \in CoarseNodes /\ i + 1 \in CoarseNodes /\ (i + 1) - 1 = i
      BY <1>6, Neighbours
    <3>2. QED BY <1>3, <3>1
  <2> HIDE DEF W
  <2>2. RowValue(W, i) = V(i, 1) + V(i + 1, 0)
    BY <1>6, <2>1 DEF RowValue
  <2>3. Eq(V(i, 1), 1 - (1 - 1)) /\ Eq(V(i + 1, 0), 0 - (1 - 0))
    BY <1>4, <1>6 DEF Inner
  <2> HIDE DEF V
  <2>4. Eq(V(i, 1) + V(i + 1, 0), (1 - (1 - 1)) + (0 - (1 - 0))) /\ (1 - (1 - 1)) + (0 - (1 - 0)) = 0
    BY <2>3, EqSum
  <2>5. QED BY <2>2, <2>4
<1>7. \A i \in CoarseNodes : IF i \in DirichletNodes THEN Eq(W[i], 0) ELSE Eq(RowValue(W, i), 0)
  <2> SUFFICES ASSUME NEW i \in CoarseNodes
               PROVE  IF i \in DirichletNodes THEN Eq(W[i], 0) ELSE Eq(RowValue(W, i), 0)
    OBVIOUS
  <2>1. i \in DirichletNodes <=> i \in {0, NumCells}
    BY CoarseEnds DEF DirichletNodes
  <2>2. CASE i = 0
    <3>1. W[i] = 0
      BY <1>2, <1>3, <2>2, CoarseEnds
    <3>2. Eq(W[i], 0)
      BY <3>1, EqRefl
    <3>3. QED BY <2>1, <2>2, <3>2
  <2>3. CASE i = NumCells
    <3>1. W[i] = w[Size]
      BY <1>3, <2>3, CoarseEnds
    <3>2. Eq(W[i], 0)
      BY <1>2, <3>1
    <3>3. QED BY <2>1, <2>3, <3>2
  <2>4. CASE i # 0 /\ i # NumCells
    <3>1. i \in Cells /\ i + 1 \in Cells
      BY <2>4, CoarseEnds
    <3>2. QED BY <1>6, <2>1, <2>4, <3>1
  <2>5. QED BY <2>2, <2>3, <2>4
<1> HIDE DEF W, T
<1>8. \A i \in CoarseNodes : Eq(W[i], 0)
  BY <1>3, <1>7, CoarseUnique
<1>9. Eq(V(1, 1), 0)
  <2> DEFINE x == W[0]
             y == W[1]
             p == MatrixIntegral(1, 1, 0)
             q == MatrixIntegral(1, 1, 1)
  <2>1. Eq(x, 0) /\ Eq(y, 0)
    BY <1>5, <1>8
  <2>2. p \in Int /\ q \in Int
    BY <1>5, Integrals DEF Inner
  <2>3. V(1, 1) = x * p + y * q
    BY <1>5
  <2> HIDE DEF x, y, p, q, V
  <2>4. Eq(x * p, 0 * p) /\ Eq(y * q, 0 * q)
    BY <2>1, <2>2, EqRefl, EqTimes
  <2>5. Eq(x * p + y * q, 0 * p + 0 * q) /\ 0 * p + 0 * q = 0
    BY <2>2, <2>4, EqSum
  <2>6. QED BY <2>3, <2>5
<1>10. Eq(V(1, 1), 1)
  <2>1. Eq(V(1, 1), 1 - (1 - 1)) /\ 1 - (1 - 1) = 1
    BY <1>4, <1>5 DEF Inner
  <2>2. QED BY <2>1
<1>11. QED BY <1>9, <1>10, EqSym, EqTrans, OneNotZero

\* The assembled operator is linear.
LEMMA RowMinus ==
  ASSUME Data, NEW i \in CoarseNodes, NEW u \in [CoarseNodes -> Int], NEW v \in [CoarseNodes -> Int],
         NEW d \in [CoarseNodes -> Int], \A j \in CoarseNodes : d[j] = u[j] - v[j]
  PROVE  RowValue(d, i) = RowValue(u, i) - RowValue(v, i)
<1> DEFINE V(x, c, s) == x[c - 1] * MatrixIntegral(c, s, 0) + x[c] * MatrixIntegral(c, s, 1)
           X(x) == IF i \in Cells THEN V(x, i, 1) ELSE 0
           Y(x) == IF i + 1 \in Cells THEN V(x, i + 1, 0) ELSE 0
<1>1. ASSUME NEW c \in Cells, NEW s \in Inner
      PROVE  V(d, c, s) = V(u, c, s) - V(v, c, s) /\ V(u, c, s) \in Int /\ V(v, c, s) \in Int
  <2> DEFINE m == MatrixIntegral(c, s, 0)
             n == MatrixIntegral(c, s, 1)
             p == u[c - 1]
             q == u[c]
             x == v[c - 1]
             y == v[c]
             g == d[c - 1]
             h == d[c]
  <2>1. m \in Int /\ n \in Int
    BY Integrals DEF Inner
  <2>2. p \in Int /\ q \in Int /\ x \in Int /\ y \in Int /\ g = p - x /\ h = q - y
    BY Dofs
  <2> HIDE DEF m, n, p, q, x, y, g, h
  <2>3. g * m + h * n = (p * m + q * n) - (x * m + y * n)
    <3>1. g * m = p * m - x * m /\ h * n = q * n - y * n
      BY <2>1, <2>2
    <3>2. p * m \in Int /\ q * n \in Int /\ x * m \in Int /\ y * n \in Int
      BY <2>1, <2>2
    <3>3. QED BY <3>1, <3>2
  <2>4. p * m + q * n \in Int /\ x * m + y * n \in Int
    BY <2>1, <2>2
  <2>5. QED BY <2>3, <2>4 DEF m, n, p, q, x, y, g, h
<1>2. (i + 1) - 1 = i
  BY Neighbours
<1>3. RowValue(u, i) = X(u) + Y(u) /\ RowValue(v, i) = X(v) + Y(v) /\ RowValue(d, i) = X(d) + Y(d)
  BY <1>2 DEF RowValue
<1> HIDE DEF V
<1>4. X(d) = X(u) - X(v) /\ X(u) \in Int /\ X(v) \in Int
  BY <1>1 DEF Inner
<1>5. Y(d) = Y(u) - Y(v) /\ Y(u) \in Int /\ Y(v) \in Int
  BY <1>1 DEF Inner
<1> HIDE DEF X, Y
<1>6. QED BY <1>3, <1>4, <1>5

\* Without layers the coarse solution has the values of the fine solution.
LEMMA CoarseIsFine ==
  ASSUME Data, SystemType, Constrained, Regular(matrix, CoarseNodes), EvenSource, layers = 0,
         \A c \in Cells : LocalFits(c), Problem(k, f, boundary),
         NEW u \in [CoarseNodes -> Field],
         \A i \in CoarseNodes : IF i \in DirichletNodes THEN u[i] = boundary.value[At(i)]
                                ELSE Div(RowLoad(Cells, i) - RowValue(u, i))
  PROVE  \A i \in CoarseNodes : u[i] = FineSolution(k, f, boundary)[At(i)]
<1>1. Closed
  BY RegularIsClosed
<1>2. boundary.dirichlet = Ends => Total([m \in Entities |-> Reciprocal(k[m])], Entities) # 0
  BY <1>1, HarmonicNotZero
<1> DEFINE b == boundary
           w == FineSolution(k, f, b)
           U == [j \in CoarseNodes |-> w[At(j)]]
           d == [j \in CoarseNodes |-> u[j] - U[j]]
<1>3. w \in [Nodes -> Field] /\ \A n \in boundary.dirichlet : w[n] = boundary.value[n]
  <2>1. Problem(k, f, b) /\ (b.dirichlet = Ends => Total([m \in Entities |-> Reciprocal(k[m])], Entities) # 0)
    BY <1>2
  <2>2. w \in [Nodes -> Field] /\ \A n \in b.dirichlet : w[n] = b.value[n]
    <3> HIDE DEF b
    <3>1. QED BY <2>1, FineFits
  <2>3. QED BY <2>2
<1>4. ASSUME NEW i \in CoarseNodes, i \notin DirichletNodes
      PROVE  RowValue(U, i) \in Int /\ Eq(RowLoad(Cells, i), RowValue(U, i))
  <2>1. w = FineSolution(k, f, boundary)
    OBVIOUS
  <2> HIDE DEF w
  <2>2. QED BY <1>1, <1>2, <1>4, <2>1, RowFits
<1> HIDE DEF w
<1>5. U \in [CoarseNodes -> Field] /\ \A i \in CoarseNodes : U[i] = w[At(i)]
  BY <1>3, CoarseEnds
<1>6. U \in [CoarseNodes -> Int] /\ u \in [CoarseNodes -> Int]
  BY <1>5, FieldInt
<1> HIDE DEF U
<1>7. d \in [CoarseNodes -> Int] /\ \A j \in CoarseNodes : d[j] = u[j] - U[j]
  BY <1>6
<1> HIDE DEF d
<1>8. ASSUME NEW i \in CoarseNodes
      PROVE  IF i \in DirichletNodes THEN Eq(d[i], 0) ELSE Eq(RowValue(d, i), 0)
  <2>1. CASE i \in DirichletNodes
    <3>1. u[i] = U[i]
      BY <1>3, <1>5, <2>1 DEF DirichletNodes
    <3>2. d[i] = 0
      BY <1>6, <1>7, <3>1
    <3>3. QED BY <2>1, <3>2, EqRefl
  <2>2. CASE i \notin DirichletNodes
    <3> DEFINE L == RowLoad(Cells, i)
               x == RowValue(u, i)
               y == RowValue(U, i)
    <3>1. RowValue(d, i) = x - y
      BY <1>6, <1>7, RowMinus
    <3>2. Eq(L, y) /\ Div(L - x)
      BY <1>4, <2>2
    <3>3. x \in Int
      BY <1>6, <2>2, CoarseRows
    <3> HIDE DEF L, x, y
    <3>4. Eq(x, L)
      BY <3>2, <3>3, EqSym DEF Eq
    <3>5. Eq(x, y) /\ y \in Int
      BY <3>2, <3>4, EqTrans DEF Eq
    <3>6. Eq(x - y, y - y) /\ y - y = 0
      BY <3>5, EqRefl, EqSum
    <3>7. QED BY <2>2, <3>1, <3>6
  <2>3. QED BY <2>1, <2>2
<1>9. \A i \in CoarseNodes : Eq(d[i], 0)
  BY <1>7, <1>8, CoarseUnique
<1>10. ASSUME NEW i \in CoarseNodes PROVE u[i] = w[At(i)]
  <2>1. u[i] \in Field /\ U[i] \in Field /\ u[i] \in Int /\ U[i] \in Int /\ Eq(d[i], 0) /\ d[i] = u[i] - U[i]
    BY <1>5, <1>6, <1>7, <1>9
  <2>2. Eq(u[i], U[i])
    <3>1. (u[i] - U[i]) - 0 = u[i] - U[i]
      BY <2>1
    <3>2. QED BY <2>1, <3>1 DEF Eq
  <2>3. QED BY <1>5, <2>1, <2>2, EqField
<1>11. QED BY <1>10 DEF w

\* What the local problems are made of, and their solutions.
LEMMA ProblemsKept ==
  ASSUME UNCHANGED data
  PROVE  \A c : /\ Patch(c)' = Patch(c) /\ Around(c)' = Around(c) /\ LocalBorder(c)' = LocalBorder(c)
                /\ AssembledMatrix(c)' = AssembledMatrix(c)
                /\ \A s : (IsSolved(c, s)' <=> IsSolved(c, s)) /\ LocalRhs(c, s)' = LocalRhs(c, s)
<1>1. k' = k /\ layers' = layers /\ boundary' = boundary
  BY DEF data
<1> SUFFICES ASSUME NEW c
             PROVE  /\ Patch(c)' = Patch(c) /\ Around(c)' = Around(c) /\ LocalBorder(c)' = LocalBorder(c)
                    /\ AssembledMatrix(c)' = AssembledMatrix(c)
                    /\ \A s : (IsSolved(c, s)' <=> IsSolved(c, s)) /\ LocalRhs(c, s)' = LocalRhs(c, s)
  OBVIOUS
<1>2. Patch(c)' = Patch(c)
  BY <1>1, Zenon DEF Patch
<1>3. Around(c)' = Around(c)
  BY <1>2, Zenon DEF Around
<1>4. LocalBorder(c)' = LocalBorder(c)
  BY <1>1, <1>2, Zenon DEF LocalBorder
<1>5. LocalMatrix(c)' = LocalMatrix(c)
  BY <1>1, <1>2, Zenon DEF LocalMatrix
<1>6. AssembledMatrix(c)' = AssembledMatrix(c)
  BY <1>2, <1>4, <1>5, Zenon DEF AssembledMatrix
<1>7. \A s : IsSolved(c, s)' <=> IsSolved(c, s)
  BY DEF IsSolved, HasBoundaryIntersections, Dof
<1>8. \A s : LocalRhs(c, s)' = LocalRhs(c, s)
  <2>1. DirichletNodes' = DirichletNodes
    BY <1>1, Zenon DEF DirichletNodes
  <2>2. \A n : DirichletProduct(c, n)' = DirichletProduct(c, n)
    BY <1>1, <1>2, <2>1, Zenon DEF DirichletProduct, MinusEnergy, Projected
  <2>3. \A s, n : BoundaryProduct(c, s, n)' = BoundaryProduct(c, s, n)
    BY <1>1, <2>2, Zenon DEF BoundaryProduct, HasBoundaryIntersections
  <2>4. \A s, n : CoarseBasisProduct(c, s, n)' = CoarseBasisProduct(c, s, n)
    BY <1>1, <1>2, Zenon DEF CoarseBasisProduct, MinusEnergy
  <2>5. QED BY <2>3, <2>4, Zenon DEF LocalRhs
<1>9. QED BY <1>2, <1>3, <1>4, <1>6, <1>7, <1>8

\* Solutions of a cell fit in the next state if they are the ones kept there.
LEMMA FitsKept ==
  ASSUME UNCHANGED data, NEW c, NEW x, local'[c] = x, Fits(c, x)
  PROVE  LocalFits(c)'
<1>1. k' = k
  BY DEF data
<1>2. QED BY <1>1, ProblemsKept, Zenon DEF LocalFits, Fits

---------------------------------------------------------------------------
(* The cells of a run: their local solutions and their corrections         *)

\* What holds once the coarse system is solved: the local grids have no free
\* border, without layers the coarse solution has the values of the fine
\* solution, and the cells come to have their corrections.
Identified ==
  /\ Closed
  /\ layers = 0 /\ boundary.dirichlet = Ends => Total([m \in Entities |-> Reciprocal(k[m])], Entities) # 0
  /\ layers = 0 /\ EvenSource => \A i \in CoarseNodes : coarse[i] = FineSolution(k, f, boundary)[At(i)]
  /\ \A c \in Cells \ todo : correction[c] = Plus(Cut(c, InnerPart(c)), DirectionOfFlux(c))

\* The inductive invariant of the cells: which have been come to, and what
\* holds of those.
CellsInv ==
  /\ todo \subseteq Cells
  /\ pc \in {"local", "identify"} => todo # {}
  /\ pc = "done" => todo = {}
  /\ pc # "thrown" => \A c \in Cells : (pc = "local" => c \notin todo) => LocalFits(c)
  /\ pc = "assemble" => matrix \in [CoarseNodes -> [CoarseNodes -> Field]]
  /\ DOMAIN correction = Cells
  /\ pc \in {"identify", "done"} => Identified

\* The walks without threads take the cells in order.
LEMMA NextCell ==
  ASSUME todo \subseteq Cells, todo # {}
  PROVE  Min(todo) \in todo /\ Min(todo) \in Cells
<1>1. todo \subseteq Nat
  BY Sizes DEF Cells
<1>2. \E x \in todo : \A y \in todo : x <= y
  BY <1>1, LeastNumber
<1>3. Min(todo) \in todo
  BY <1>2 DEF Min
<1>4. QED BY <1>3

\* At the start no cell has been solved.
LEMMA InitCells == ASSUME Init PROVE CellsInv
<1>1. pc = "local" /\ todo = Cells /\ DOMAIN correction = Cells
  BY DEF Init
<1>2. Cells # {}
  BY Sizes DEF Cells
<1>3. QED BY <1>1, <1>2 DEF CellsInv

\* solve_all_on_single_cell: the solver's solutions of a cell's local problems fit,
\* and those of the other cells stay; with the last cell the assembly begins
\* with an empty matrix.
LEMMA SolveLocalCells == ASSUME GalerkinInv, CellsInv, SolveLocal PROVE CellsInv'
<1> DEFINE c == Min(todo)
           v == SolveAllOnSingleCell(c)
<1>1. /\ Data /\ SystemType /\ pc = "local" /\ ZeroSystem
      /\ UNCHANGED <<data, system, coarse, correction>>
  BY DEF GalerkinInv, SolveLocal
<1>2. /\ c \in todo /\ c \in Cells /\ todo \subseteq Cells /\ DOMAIN correction = Cells
      /\ \A e \in Cells : e \notin todo => LocalFits(e)
  BY <1>1, NextCell DEF CellsInv
<1>3. UNCHANGED <<data, matrix, correction>>
  BY <1>1 DEF system
<1>4. CASE \A s \in Slots : IsSolved(c, s) => Solves(AssembledMatrix(c), AssembledRhs(c, s), Touched(Patch(c)))
  <2>1. /\ local' = [local EXCEPT ![c] = v]
        /\ todo' = IF todo = {c} THEN Cells ELSE todo \ {c}
        /\ pc' = IF todo = {c} THEN "assemble" ELSE "local"
    BY <1>1, <1>4 DEF SolveLocal
  <2> HIDE DEF c
  <2>2. \A s \in Slots : IsSolved(c, s) => Solves(AssembledMatrix(c), AssembledRhs(c, s), Around(c))
    BY <1>4 DEF Around
  <2>3. Fits(c, v)
    BY <1>1, <1>2, <2>2, SolvedFits
  <2>4. local'[c] = v /\ \A e \in Cells : e # c => local'[e] = local[e]
    BY <1>1, <1>2, <2>1 DEF Data
  <2> HIDE DEF v
  <2>5. ASSUME NEW e \in Cells, e \notin todo \/ e = c PROVE LocalFits(e)'
    <3>1. CASE e = c
      BY <1>3, <2>3, <2>4, <3>1, FitsKept
    <3>2. CASE e # c
      <4>1. Fits(e, local[e])
        BY <1>2, <2>5, <3>2 DEF LocalFits
      <4>2. local'[e] = local[e]
        BY <2>4, <3>2
      <4> DEFINE x == local[e]
      <4>3. Fits(e, x) /\ local'[e] = x
        BY <4>1, <4>2
      <4> HIDE DEF x
      <4>4. QED BY <1>3, <4>3, FitsKept
    <3>3. QED BY <3>1, <3>2
  <2>6. \A e \in Cells : (pc' = "local" => e \notin todo') => LocalFits(e)'
    <3> SUFFICES ASSUME NEW e \in Cells, pc' = "local" => e \notin todo' PROVE LocalFits(e)'
      OBVIOUS
    <3>1. e \notin todo \/ e = c
      BY <1>2, <2>1
    <3>2. QED BY <2>5, <3>1
  <2>7. /\ todo' \subseteq Cells /\ (pc' = "local" => todo' # {}) /\ pc' \in {"local", "assemble"}
    BY <1>2, <2>1
  <2>8. matrix' \in [CoarseNodes -> [CoarseNodes -> Field]]
    BY <1>1, <1>3, FieldInt DEF ZeroSystem
  <2>9. DOMAIN correction' = Cells
    BY <1>2, <1>3
  <2>10. QED BY <2>6, <2>7, <2>8, <2>9 DEF CellsInv
<1>5. CASE ~ \A s \in Slots : IsSolved(c, s) => Solves(AssembledMatrix(c), AssembledRhs(c, s), Touched(Patch(c)))
  <2>1. pc' = "thrown" /\ UNCHANGED <<local, todo>>
    BY <1>5 DEF SolveLocal
  <2> HIDE DEF c
  <2>2. QED BY <1>2, <1>3, <2>1 DEF CellsInv
<1>6. QED BY <1>4, <1>5

\* The local solutions fit as long as nothing of them changes.
LEMMA AllFitKept ==
  ASSUME UNCHANGED <<data, local>>, NEW cs, \A c \in cs : LocalFits(c)
  PROVE  \A c \in cs : LocalFits(c)'
<1> SUFFICES ASSUME NEW c \in cs PROVE LocalFits(c)'
  OBVIOUS
<1> DEFINE x == local[c]
<1>1. Fits(c, x) /\ local'[c] = x
  BY DEF LocalFits
<1> HIDE DEF x
<1>2. QED BY <1>1, FitsKept

\* The walk adds entries of the field and touches no local solution.
LEMMA WalkCellCells == ASSUME GalerkinInv, CellsInv, NEW d \in Cells, WalkCell(d) PROVE CellsInv'
<1>1. /\ Data /\ SystemType /\ pc = "assemble" /\ pc' = "assemble" /\ todo' = todo \ {d}
      /\ matrix' = [i \in CoarseNodes |-> [j \in CoarseNodes |-> (matrix[i][j] + MatrixBlock(d, i, j)) % P]]
      /\ UNCHANGED <<data, local, correction>>
  BY DEF GalerkinInv, WalkCell
<1>2. todo \subseteq Cells /\ DOMAIN correction = Cells /\ \A c \in Cells : LocalFits(c)
  BY <1>1 DEF CellsInv
<1>3. \A c \in Cells : LocalFits(c)'
  BY <1>1, <1>2, AllFitKept
<1>4. matrix' \in [CoarseNodes -> [CoarseNodes -> Field]]
  <2>1. ASSUME NEW i \in CoarseNodes, NEW j \in CoarseNodes
        PROVE  ((matrix[i][j] + MatrixBlock(d, i, j)) % P) \in Field
    <3> DEFINE x == matrix[i][j] + MatrixBlock(d, i, j)
    <3>1. x \in Int
      BY <1>1, BlockInt DEF SystemType
    <3> HIDE DEF x
    <3>2. QED BY <3>1, EqMod DEF x
  <2>2. QED BY <1>1, <2>1
<1>5. QED BY <1>1, <1>2, <1>3, <1>4 DEF CellsInv

\* The rest of the constructor touches no local solution.
LEMMA ConstrainCells == ASSUME CellsInv, Constrain PROVE CellsInv'
<1>1. pc = "assemble" /\ pc' = "solve" /\ UNCHANGED <<data, todo, local, correction>>
  BY DEF Constrain
<1>2. todo \subseteq Cells /\ DOMAIN correction = Cells /\ \A c \in Cells : LocalFits(c)
  BY <1>1 DEF CellsInv
<1>3. \A c \in Cells : LocalFits(c)'
  BY <1>1, <1>2, AllFitKept
<1>4. QED BY <1>1, <1>2, <1>3 DEF CellsInv

\* What the problem and the local solutions leave as they are.
LEMMA DerivedKept ==
  ASSUME UNCHANGED data
  PROVE  /\ Closed' <=> Closed
         /\ EvenSource' <=> EvenSource
         /\ k' = k /\ f' = f /\ layers' = layers /\ boundary' = boundary
BY DEF data, Closed, EvenSource

\* apply_inverse: a solver that returns has inverted the matrix, which it could not
\* with a free border or a vanishing sum of resistances; so the values of the fine
\* solution, which balance the same rows, are the ones it has found.
LEMMA ApplyInverseCells ==
  ASSUME GalerkinInv, GalerkinInv', FemInv, CellsInv, ApplyInverse
  PROVE  CellsInv'
<1>1. /\ Data /\ SystemType /\ Constrained /\ pc = "solve"
      /\ UNCHANGED <<data, local, system, correction>>
  BY DEF GalerkinInv, ApplyInverse
<1>2. todo \subseteq Cells /\ DOMAIN correction = Cells /\ \A c \in Cells : LocalFits(c)
  BY <1>1 DEF CellsInv
<1>3. \A c \in Cells : LocalFits(c)'
  BY <1>1, <1>2, AllFitKept
<1>4. CASE ~Solves(matrix, rhs, CoarseNodes)
  <2>1. pc' = "thrown" /\ todo' = todo
    BY <1>4 DEF ApplyInverse
  <2>2. QED BY <1>1, <1>2, <1>3, <2>1 DEF CellsInv
<1>5. CASE Solves(matrix, rhs, CoarseNodes)
  <2>1. pc' = "identify" /\ todo' = Cells /\ coarse' = Shifted(Solution(matrix, rhs, CoarseNodes))
    BY <1>5 DEF ApplyInverse
  <2>2. Regular(matrix, CoarseNodes) /\ Solution(matrix, rhs, CoarseNodes) \in [CoarseNodes -> Field]
    BY <1>5 DEF Solves
  <2>3. Problem(k, f, boundary)
    BY DEF FemInv, FemType
  <2>4. Closed
    BY <1>1, <1>2, <2>2, RegularIsClosed
  <2>5. layers = 0 /\ boundary.dirichlet = Ends => Total([m \in Entities |-> Reciprocal(k[m])], Entities) # 0
    BY <1>1, <1>2, <2>2, <2>3, <2>4, HarmonicNotZero
  <2>6. coarse' \in [CoarseNodes -> Field]
    <3> DEFINE x == Solution(matrix, rhs, CoarseNodes)
    <3>1. x \in [CoarseNodes -> Field] /\ coarse' = [i \in CoarseNodes |-> (x[i] + shift[i]) % P]
      BY <2>1, <2>2 DEF Shifted
    <3> HIDE DEF x
    <3>2. \A i \in CoarseNodes : ((x[i] + shift[i]) % P) \in Field
      <4> SUFFICES ASSUME NEW i \in CoarseNodes PROVE ((x[i] + shift[i]) % P) \in Field
        OBVIOUS
      <4> DEFINE y == x[i] + shift[i]
      <4>1. y \in Int
        <5>1. x[i] \in Int
          BY <3>1, FieldInt
        <5>2. shift[i] \in Int
          BY <1>1 DEF SystemType
        <5>3. QED BY <5>1, <5>2
      <4> HIDE DEF y
      <4>2. QED BY <4>1, EqMod DEF y
    <3>3. QED BY <3>1, <3>2
  <2>7. \A i \in CoarseNodes : IF i \in DirichletNodes THEN coarse'[i] = boundary.value[At(i)]
                               ELSE Div(RowLoad(Cells, i) - RowValue(coarse', i))
    <3>1. Balanced'
      BY <2>1 DEF GalerkinInv
    <3>2. DirichletNodes' = DirichletNodes /\ boundary' = boundary
      BY <1>1 DEF data, DirichletNodes
    <3>3. ASSUME NEW i \in CoarseNodes
          PROVE  RowLoad(Cells, i)' = RowLoad(Cells, i) /\ RowValue(coarse, i)' = RowValue(coarse', i)
      BY <1>1, IntegralsKept DEF RowLoad, RowValue, Part
    <3>4. QED BY <3>1, <3>2, <3>3 DEF Balanced
  <2>8. layers = 0 /\ EvenSource => \A i \in CoarseNodes : coarse'[i] = FineSolution(k, f, boundary)[At(i)]
    BY <1>1, <1>2, <2>2, <2>3, <2>6, <2>7, CoarseIsFine
  <2>9. Identified'
    <3>1. Cells \ todo' = {}
      BY <2>1
    <3>2. /\ Closed' <=> Closed
          /\ EvenSource' <=> EvenSource
          /\ k' = k /\ f' = f /\ layers' = layers /\ boundary' = boundary
      BY <1>1, DerivedKept
    <3>3. QED BY <2>4, <2>5, <2>8, <3>1, <3>2 DEF Identified
  <2>10. Cells # {} /\ DOMAIN correction' = Cells
    <3>1. 1 \in Cells
      BY Sizes, SMT DEF Cells
    <3>2. correction' = correction /\ DOMAIN correction = Cells
      BY <1>1, <1>2
    <3>3. QED BY <3>1, <3>2, Zenon
  <2>11. QED BY <1>3, <2>1, <2>9, <2>10 DEF CellsInv
<1>6. QED BY <1>4, <1>5

\* The correction of a cell, of what does not change.
LEMMA CorrectionKept ==
  ASSUME UNCHANGED <<data, local, coarse>>
  PROVE  \A c : Plus(Cut(c, InnerPart(c)), DirectionOfFlux(c))' = Plus(Cut(c, InnerPart(c)), DirectionOfFlux(c))
<1>1. layers' = layers
  BY DEF data
<1> SUFFICES ASSUME NEW c
             PROVE Plus(Cut(c, InnerPart(c)), DirectionOfFlux(c))' = Plus(Cut(c, InnerPart(c)), DirectionOfFlux(c))
  OBVIOUS
<1>2. DirectionOfFlux(c)' = DirectionOfFlux(c) /\ InnerPart(c)' = InnerPart(c)
  BY Zenon DEF DirectionOfFlux, InnerPart
<1>3. Cut(c, InnerPart(c))' = Cut(c, InnerPart(c))
  BY <1>1, <1>2, Zenon DEF Cut
<1>4. QED BY <1>2, <1>3, Zenon

\* identify_fine_scale_part: the cell come to gets its correction, the others keep theirs.
LEMMA IdentifyCellCells == ASSUME CellsInv, IdentifyCell PROVE CellsInv'
<1> DEFINE c == Min(todo)
           X(e) == Plus(Cut(e, InnerPart(e)), DirectionOfFlux(e))
<1>1. /\ pc = "identify" /\ UNCHANGED <<data, local, system, coarse>>
      /\ correction' = [correction EXCEPT ![c] = X(c)] /\ todo' = todo \ {c}
      /\ pc' = IF todo = {c} THEN "done" ELSE pc
  BY DEF IdentifyCell
<1>2. /\ c \in todo /\ c \in Cells /\ todo \subseteq Cells /\ DOMAIN correction = Cells /\ Identified
      /\ \A e \in Cells : LocalFits(e)
  BY <1>1, NextCell DEF CellsInv
<1>3. \A e \in Cells : LocalFits(e)'
  BY <1>1, <1>2, AllFitKept
<1> HIDE DEF c
<1>4. correction'[c] = X(c) /\ (\A e \in Cells \ {c} : correction'[e] = correction[e]) /\ DOMAIN correction' = Cells
  <2> HIDE DEF X
  <2>1. QED BY <1>1, <1>2
<1>5. \A e : X(e)' = X(e)
  BY <1>1, CorrectionKept
<1> HIDE DEF X
<1>6. \A e \in Cells \ todo' : correction'[e] = X(e)'
  BY <1>1, <1>2, <1>4, <1>5 DEF Identified, X
<1>7. Identified'
  <2>1. /\ Closed' <=> Closed
        /\ EvenSource' <=> EvenSource
        /\ k' = k /\ f' = f /\ layers' = layers /\ boundary' = boundary
    BY <1>1, DerivedKept
  <2>2. coarse' = coarse
    BY <1>1
  <2>3. QED BY <1>2, <1>6, <2>1, <2>2 DEF Identified, X
<1>8. /\ todo' \subseteq Cells /\ pc' \in {"identify", "done"}
      /\ (pc' = "done" => todo' = {}) /\ (pc' = "identify" => todo' # {})
  BY <1>1, <1>2
<1>9. QED BY <1>3, <1>4, <1>7, <1>8 DEF CellsInv

\* The steps of the reference solver change nothing of it.
LEMMA CellsStutter ==
  ASSUME CellsInv, UNCHANGED <<data, pc, todo, local, matrix, coarse, correction>>
  PROVE  CellsInv'
<1>1. \A cs : (\A c \in cs : LocalFits(c)) => \A c \in cs : LocalFits(c)'
  BY AllFitKept
<1>2. pc # "thrown" => \A c \in Cells : (pc = "local" => c \notin todo) => LocalFits(c)'
  <2> DEFINE cs == {c \in Cells : pc = "local" => c \notin todo}
  <2>1. pc # "thrown" => \A c \in cs : LocalFits(c)
    BY DEF CellsInv
  <2>2. pc # "thrown" => \A c \in cs : LocalFits(c)'
    <3> HIDE DEF cs
    <3>1. QED BY <1>1, <2>1
  <2>3. QED BY <2>2
<1>3. Identified => Identified'
  <2>1. /\ Closed' <=> Closed
        /\ EvenSource' <=> EvenSource
        /\ k' = k /\ f' = f /\ layers' = layers /\ boundary' = boundary
    BY DerivedKept
  <2>2. \A c : Plus(Cut(c, InnerPart(c)), DirectionOfFlux(c))' = Plus(Cut(c, InnerPart(c)), DirectionOfFlux(c))
    BY CorrectionKept
  <2>3. QED BY <2>1, <2>2 DEF Identified
<1>4. QED BY <1>2, <1>3 DEF CellsInv

\* The invariant of the cells is inductive, given that of the coarse system.
LEMMA CellsNext ==
  GalerkinInv /\ GalerkinInv' /\ FemInv /\ CellsInv /\ [ComparedNext]_comparedVars => CellsInv'
<1> SUFFICES ASSUME GalerkinInv, GalerkinInv', FemInv, CellsInv, [ComparedNext]_comparedVars PROVE CellsInv'
  OBVIOUS
<1>1. CASE Multiscale
  <2>1. CASE SolveLocal
    BY <2>1, SolveLocalCells
  <2>2. CASE \E c \in Cells : WalkCell(c)
    BY <2>2, WalkCellCells
  <2>3. CASE Constrain
    BY <2>3, ConstrainCells
  <2>4. CASE ApplyInverse
    BY <2>4, ApplyInverseCells
  <2>5. CASE IdentifyCell
    BY <2>5, IdentifyCellCells
  <2>6. QED BY <1>1, <2>1, <2>2, <2>3, <2>4, <2>5 DEF Multiscale, Next
<1>2. CASE Reference
  <2>1. UNCHANGED <<k, f, boundary>>
    BY <1>2 DEF Reference, Fem!Next, Fem!Begin, Fem!WalkEntity, Fem!Constrain, Fem!Solve, Fem!problem
  <2>2. UNCHANGED <<data, pc, todo, local, matrix, coarse, correction>>
    BY <1>2, <2>1 DEF Reference, data, system
  <2>3. QED BY <2>2, CellsStutter
<1>3. CASE UNCHANGED comparedVars
  <2>1. UNCHANGED <<data, pc, todo, local, matrix, coarse, correction>>
    BY <1>3 DEF comparedVars, vars, system
  <2>2. QED BY <2>1, CellsStutter
<1>4. QED BY <1>1, <1>2, <1>3 DEF ComparedNext

\* In every run the cells solved so far have local solutions whose flux does not
\* fall and whose correctors add up to nothing; a coarse solve that returns has
\* met no free border and, without layers, has found the values of the fine
\* solution; each cell identify_fine_scale_part has come to has its correction.
THEOREM CellsFit == ComparedSpec => []CellsInv
<1>1. ComparedInit => CellsInv
  BY InitCells DEF ComparedInit
<1>2. QED BY <1>1, CellsNext, SystemsFit, ReferenceFits, PTL DEF ComparedSpec

\* NodalValuesAgree for every grid, coefficient and boundary, every source that is
\* constant on coarse cells and every linear solver: without oversampling the
\* coarse solution of msfem_solver.cc has in the coarse nodes the values of the
\* reference solver's.
THEOREM NodalValuesAgreeHolds == ComparedSpec => []NodalValuesAgree
<1>1. CellsInv /\ FemInv => NodalValuesAgree
  BY DEF CellsInv, Identified, FemInv, NodalValuesAgree
<1>2. QED BY <1>1, CellsFit, ReferenceFits, PTL

---------------------------------------------------------------------------
\* The prolongation between the two nodes of a cell.
LEMMA ProlongedIs ==
  ASSUME NEW u \in [CoarseNodes -> Int], NEW c \in Cells, NEW n \in Nodes, At(c - 1) <= n, n <= At(c)
  PROVE  Eq(Prolonged(u)[n], u[c - 1] * (Reciprocal(Micro) * (At(c) - n))
                             + u[c] * (Reciprocal(Micro) * (n - At(c - 1))))
<1> DEFINE a == At(c - 1)
           b == At(c)
           r == Reciprocal(Micro)
           i == n \div Micro
           t == n % Micro
           x == u[c - 1]
           y == u[c]
           E == x * (r * (b - n)) + y * (r * (n - a))
<1>1. /\ a \in Nat /\ b \in Nat /\ b = a + Micro /\ n \in Nat /\ Micro \in Nat \ {0} /\ r \in Int
      /\ Eq(r * Micro, 1) /\ c \in Nat
  <2>1. a \in Nat /\ b \in Nat /\ b = a + Micro /\ n \in Nat /\ Micro \in Nat \ {0} /\ c \in Nat
    BY CellRange, Sizes, NodesOf
  <2>2. r \in Int /\ Div(Micro * r - 1)
    BY MicroReciprocal
  <2> HIDE DEF r
  <2>3. Micro * r = r * Micro /\ r * Micro \in Int
    BY <2>1, <2>2
  <2>4. QED BY <2>1, <2>2, <2>3 DEF Eq
<1>2. x \in Int /\ y \in Int /\ c - 1 \in CoarseNodes /\ c \in CoarseNodes
  BY Dofs
<1>3. i \in Nat /\ t \in Nat /\ t < Micro /\ n = i * Micro + t
  <2>1. i \in Int /\ t \in 0 .. Micro - 1 /\ n = Micro * i + t
    BY <1>1
  <2> HIDE DEF i, t
  <2>2. i >= 0
    <3> SUFFICES ASSUME i <= -1 PROVE FALSE
      BY <2>1
    <3>1. Micro * (0 - i - 1) >= 0 /\ Micro * (0 - i - 1) = 0 - Micro * i - Micro
      BY <1>1, <2>1
    <3>2. QED BY <1>1, <2>1, <3>1
  <2>3. QED BY <1>1, <2>1, <2>2
<1>4. a = (c - 1) * Micro /\ b = c * Micro
  BY DEF At
<1>5. Prolonged(u)[n] = IF t = 0 THEN u[i] ELSE ((u[i] * (Micro - t) + u[i + 1] * t) * r) % P
  BY DEF Prolonged
<1> HIDE DEF r, i, t, x, y
<1>6. i < c - 1 => FALSE
  <2> SUFFICES ASSUME i < c - 1 PROVE FALSE
    OBVIOUS
  <2> DEFINE j == c - 2 - i
  <2>1. j \in Nat /\ i = c - 2 - j
    BY <1>1, <1>3
  <2> HIDE DEF j
  <2>2. j * Micro >= 0 /\ (c - 2 - j) * Micro = (c - 1) * Micro - Micro - j * Micro
    BY <1>1, <2>1
  <2>3. QED BY <1>1, <1>3, <1>4, <2>1, <2>2
<1>7. i >= c => i = c /\ t = 0
  <2> SUFFICES ASSUME i >= c PROVE i = c /\ t = 0
    OBVIOUS
  <2> DEFINE j == i - c
  <2>1. j \in Nat /\ i = c + j
    BY <1>1, <1>3
  <2> HIDE DEF j
  <2>2. (c + j) * Micro = c * Micro + j * Micro
    BY <1>1, <2>1
  <2>3. j * Micro + t <= 0 /\ j * Micro \in Nat
    BY <1>1, <1>3, <1>4, <2>1, <2>2
  <2>4. j = 0
    <3>1. j >= 1 => j * Micro >= 1 * Micro
      BY <1>1, <2>1
    <3>2. QED BY <1>1, <1>3, <2>1, <2>3, <3>1
  <2>5. QED BY <1>1, <1>3, <2>1, <2>3, <2>4
<1>8. i = c - 1 \/ (i = c /\ t = 0)
  BY <1>1, <1>3, <1>6, <1>7
<1> HIDE DEF a, b
<1>9. CASE i = c
  <2>1. t = 0 /\ n = b /\ b - n = 0 /\ n - a = Micro
    BY <1>1, <1>3, <1>4, <1>7, <1>9
  <2>2. Prolonged(u)[n] = y
    BY <1>5, <1>9, <2>1 DEF y
  <2>3. E = y * (r * Micro)
    <3>1. x * (r * 0) = 0 /\ y * (r * Micro) \in Int
      BY <1>1, <1>2
    <3>2. QED BY <2>1, <3>1
  <2>4. Eq(y * (r * Micro), y)
    <3>1. y * 1 = y /\ Eq(y, y)
      BY <1>2, EqRefl
    <3>2. Eq(y * (r * Micro), y * 1)
      BY <1>1, <3>1, EqTimes
    <3>3. QED BY <3>1, <3>2
  <2>5. QED BY <2>2, <2>3, <2>4, EqSym DEF x, y, r, a, b
<1>10. CASE i = c - 1
  <2>1. t = n - a /\ Micro - t = b - n /\ i + 1 = c /\ u[i] = x /\ u[i + 1] = y
    <3>1. t = n - a /\ i + 1 = c
      BY <1>1, <1>3, <1>4, <1>10
    <3>2. QED BY <1>1, <1>10, <3>1 DEF x, y
  <2>2. CASE t = 0
    <3>1. Prolonged(u)[n] = x /\ n - a = 0 /\ b - n = Micro
      BY <1>1, <1>5, <2>1, <2>2
    <3>2. E = x * (r * Micro)
      <4>1. y * (r * 0) = 0 /\ x * (r * Micro) \in Int
        BY <1>1, <1>2
      <4>2. QED BY <3>1, <4>1
    <3>3. Eq(x * (r * Micro), x)
      <4>1. x * 1 = x /\ Eq(x, x)
        BY <1>2, EqRefl
      <4>2. Eq(x * (r * Micro), x * 1)
        BY <1>1, <4>1, EqTimes
      <4>3. QED BY <4>1, <4>2
    <3>4. QED BY <3>1, <3>2, <3>3, EqSym DEF x, y, r, a, b
  <2>3. CASE t # 0
    <3> DEFINE p == b - n
               q == n - a
               z == (x * p + y * q) * r
    <3>1. p \in Int /\ q \in Int /\ p = Micro - t /\ q = t
      BY <1>1, <2>1
    <3>2. Prolonged(u)[n] = z % P
      BY <1>5, <2>1, <2>3, <3>1
    <3> HIDE DEF p, q
    <3>3. z = x * (r * p) + y * (r * q) /\ z \in Int
      BY <1>1, <1>2, <3>1
    <3> HIDE DEF z
    <3>4. Eq(z % P, z)
      BY <3>3, EqMod
    <3>5. QED BY <3>2, <3>3, <3>4 DEF p, q, x, y, r, a, b
  <2>4. QED BY <2>2, <2>3
<1>11. QED BY <1>8, <1>9, <1>10

\* With the weighted correctors it is the combination of the corrected shape
\* functions.
LEMMA SumOfShapes ==
  ASSUME Data, NEW c \in Cells, NEW n \in Nodes, At(c - 1) <= n, n <= At(c)
  PROVE  /\ Prolonged(coarse)[n] \in Int /\ InnerPart(c)[n] \in Int
         /\ Eq(Prolonged(coarse)[n] + InnerPart(c)[n],
               coarse[c - 1] * Reconstruction(c, 0)[n] + coarse[c] * Reconstruction(c, 1)[n])
<1> DEFINE r == Reciprocal(Micro)
           x == coarse[c - 1]
           y == coarse[c]
           p == Prolonged(coarse)[n]
           l0 == local[c][0]
           l1 == local[c][1]
           i == InnerPart(c)[n]
           v0 == r * (At(c) - n)
           v1 == r * (n - At(c - 1))
           b0 == CoarseBasis(c, 0)[n]
           b1 == CoarseBasis(c, 1)[n]
           s0 == Reconstruction(c, 0)[n]
           s1 == Reconstruction(c, 1)[n]
           m0 == l0[n]
           m1 == l1[n]
<1>1. x \in Int /\ y \in Int /\ coarse \in [CoarseNodes -> Int] /\ Dof(c, 0) = c - 1 /\ Dof(c, 1) = c
  BY Dofs DEF Data
<1>2. Eq(p, x * v0 + y * v1)
  BY <1>1, ProlongedIs
<1>3. v0 \in Int /\ v1 \in Int
  <2>1. r \in Int
    BY MicroReciprocal
  <2>2. At(c) \in Int /\ At(c - 1) \in Int /\ n \in Int
    BY CellRange, NodesOf
  <2> HIDE DEF r
  <2>3. QED BY <2>1, <2>2
<1>4. Eq(b0, v0) /\ Eq(b1, v1)
  <2>1. b0 \in Int /\ b1 \in Int /\ Div(b0 - v0) /\ Div(b1 - v1)
    BY CoarseBasisIs DEF Inner, Distance
  <2> HIDE DEF b0, b1, v0, v1
  <2>2. QED BY <1>3, <2>1 DEF Eq
<1>5. /\ l0 \in [Nodes -> Int] /\ l1 \in [Nodes -> Int] /\ m0 \in Int /\ m1 \in Int
      /\ s0 \in Int /\ s1 \in Int /\ Div(s0 - (b0 + m0)) /\ Div(s1 - (b1 + m1))
  BY ReconstructionIs DEF Inner
<1>6. i \in Int /\ Div(i - (x * m0 + y * m1))
  <2>1. InnerPart(c) = Combination(x, l0, y, l1)
    BY <1>1 DEF InnerPart
  <2> HIDE DEF x, y, l0, l1
  <2>2. InnerPart(c) \in [Nodes -> Int] /\ \A m \in Nodes : Div(InnerPart(c)[m] - (x * l0[m] + y * l1[m]))
    BY <1>1, <1>5, <2>1, CombinationIs
  <2>3. QED BY <2>2
<1> HIDE DEF r, x, y, p, l0, l1, i, v0, v1, b0, b1, s0, s1, m0, m1
<1>7. b0 \in Int /\ b1 \in Int
  BY <1>4 DEF Eq
<1>8. Eq(s0, b0 + m0) /\ Eq(s1, b1 + m1)
  <2>1. b0 + m0 \in Int /\ b1 + m1 \in Int
    BY <1>5, <1>7
  <2>2. QED BY <1>5, <2>1 DEF Eq
<1>9. Eq(i, x * m0 + y * m1)
  <2>1. x * m0 + y * m1 \in Int
    BY <1>1, <1>5
  <2>2. QED BY <1>6, <2>1 DEF Eq
<1>10. Eq(s0, v0 + m0) /\ Eq(s1, v1 + m1)
  <2>1. Eq(b0 + m0, v0 + m0) /\ Eq(b1 + m1, v1 + m1)
    BY <1>4, <1>5, EqRefl, EqSum
  <2>2. QED BY <1>8, <2>1, EqTrans
<1>11. Eq(x * s0, x * (v0 + m0)) /\ Eq(y * s1, y * (v1 + m1))
  BY <1>1, <1>10, EqRefl, EqTimes
<1>12. Eq(x * s0 + y * s1, x * (v0 + m0) + y * (v1 + m1))
  BY <1>11, EqSum
<1>13. Eq(p + i, (x * v0 + y * v1) + (x * m0 + y * m1))
  BY <1>2, <1>9, EqSum
<1>14. (x * v0 + y * v1) + (x * m0 + y * m1) = x * (v0 + m0) + y * (v1 + m1)
  <2>1. x * (v0 + m0) = x * v0 + x * m0 /\ y * (v1 + m1) = y * v1 + y * m1
    BY <1>1, <1>3, <1>5
  <2>2. x * v0 \in Int /\ x * m0 \in Int /\ y * v1 \in Int /\ y * m1 \in Int
    BY <1>1, <1>3, <1>5
  <2>3. QED BY <2>1, <2>2
<1>15. p \in Int
  BY <1>2 DEF Eq
<1>16. Eq(p + i, x * s0 + y * s1)
  BY <1>12, <1>13, <1>14, EqSym, EqTrans
<1>17. QED BY <1>6, <1>15, <1>16 DEF p, i, x, y, s0, s1

\* A prolonged function has integers as values.
LEMMA ProlongedInt ==
  ASSUME NEW u \in [CoarseNodes -> Int]
  PROVE  Prolonged(u) \in [Nodes -> Int]
<1>1. ASSUME NEW n \in Nodes PROVE Prolonged(u)[n] \in Int
  <2> DEFINE i == n \div Micro
             t == n % Micro
             m == Micro
             r == Reciprocal(m)
  <2>1. n \in Nat /\ n <= NumCells * m /\ m \in Nat /\ m >= 1 /\ NumCells \in Nat
    BY NodesOf, Sizes DEF Size
  <2>2. i \in Nat /\ t \in Nat /\ t < m /\ n = m * i + t
    BY <2>1
  <2>3. r \in Int
    BY MicroReciprocal
  <2> HIDE DEF i, t, r
  <2>4. CASE i >= NumCells + 1
    <3> DEFINE x == i - (NumCells + 1)
    <3>1. x \in Nat /\ i = x + NumCells + 1
      BY <2>1, <2>2, <2>4
    <3> HIDE DEF x
    <3> DEFINE p == m * i
               q == NumCells * m
               w == m * x
    <3>2. p = w + q + m /\ w >= 0 /\ w \in Int /\ q \in Int /\ n = p + t /\ n <= q
      BY <2>1, <2>2, <3>1
    <3> HIDE DEF p, q, w
    <3>3. QED BY <2>1, <2>2, <3>2
  <2>5. CASE i = NumCells
    <3>1. m * i = NumCells * m
      BY <2>1, <2>5
    <3>2. t = 0
      BY <2>1, <2>2, <3>1
    <3>3. i \in CoarseNodes
      BY <2>1, <2>5 DEF CoarseNodes
    <3>4. Prolonged(u)[n] = u[i]
      BY <3>2 DEF Prolonged, i, t
    <3>5. QED BY <3>3, <3>4
  <2>6. CASE i < NumCells
    <3>1. i \in CoarseNodes /\ i + 1 \in CoarseNodes
      BY <2>1, <2>2, <2>6 DEF CoarseNodes
    <3> DEFINE y == (u[i] * (m - t) + u[i + 1] * t) * r
    <3>2. Prolonged(u)[n] = IF t = 0 THEN u[i] ELSE y % P
      BY DEF Prolonged, i, t, r
    <3>3. u[i] \in Int /\ y \in Int
      <4> DEFINE a == u[i]
                 b == u[i + 1]
                 d == m - t
      <4>1. a \in Int /\ b \in Int /\ d \in Int
        BY <2>1, <2>2, <3>1
      <4> HIDE DEF a, b, d
      <4>2. a * d \in Int /\ b * t \in Int
        BY <2>2, <4>1
      <4> DEFINE z == a * d + b * t
      <4>3. z \in Int
        BY <4>2
      <4> HIDE DEF z
      <4>4. z * r \in Int
        BY <2>3, <4>3
      <4>5. QED BY <4>1, <4>4 DEF z, a, b, d
    <3> HIDE DEF y
    <3>4. QED BY <3>2, <3>3, EqMod
  <2>7. QED BY <2>1, <2>2, <2>4, <2>5, <2>6
<1>2. QED BY <1>1 DEF Prolonged


\* The Dirichlet value in a coarse node of a cell, or nothing.
Given(c, s) == IF Dof(c, s) \in DirichletNodes THEN boundary.value[At(Dof(c, s))] ELSE 0

\* The values the local problems are given, in the coarse nodes of a cell.
LEMMA GivenIs ==
  ASSUME SystemType, NEW c \in Cells, NEW g, g = Projected(Cells, [i \in CoarseNodes |-> 0])
  PROVE  /\ g \in [CoarseNodes -> Int] /\ g[c - 1] = Given(c, 0) /\ g[c] = Given(c, 1)
         /\ Given(c, 0) \in Int /\ Given(c, 1) \in Int
         /\ BoundaryExcess(c) = Combination(Given(c, 0), local[c][0], Given(c, 1), local[c][1])
<1>1. /\ \A i \in CoarseNodes : i \in DirichletNodes => boundary.value[At(i)] \in Int
      /\ Dof(c, 0) = c - 1 /\ Dof(c, 1) = c /\ c - 1 \in CoarseNodes /\ c \in CoarseNodes
  <2>1. \A i \in CoarseNodes : i \in DirichletNodes => boundary.value[At(i)] \in Field
    BY DEF DirichletNodes, SystemType
  <2>2. QED BY <2>1, Dofs, FieldInt
<1>2. \A i \in CoarseNodes :
        g[i] = IF i \in DirichletNodes /\ \E d \in Cells, s \in Inner : Dof(d, s) = i
               THEN boundary.value[At(i)] ELSE 0
  BY DEF Projected
<1>3. g \in [CoarseNodes -> Int]
  <2>1. \A i \in CoarseNodes : g[i] \in Int
    BY <1>1, <1>2
  <2>2. g = [i \in CoarseNodes |-> g[i]]
    BY DEF Projected
  <2>3. QED BY <2>1, <2>2
<1>4. ASSUME NEW s \in Inner, Dof(c, s) \in CoarseNodes PROVE g[Dof(c, s)] = Given(c, s)
  <2>1. \E d \in Cells, t \in Inner : Dof(d, t) = Dof(c, s)
    OBVIOUS
  <2>2. QED BY <1>2, <1>4, <2>1 DEF Given
<1>5. g[c - 1] = Given(c, 0) /\ g[c] = Given(c, 1)
  <2>1. 0 \in Inner /\ 1 \in Inner
    BY DEF Inner
  <2>2. g[Dof(c, 0)] = Given(c, 0) /\ g[Dof(c, 1)] = Given(c, 1)
    BY <1>1, <1>4, <2>1
  <2>3. QED BY <1>1, <2>2
<1>6. BoundaryExcess(c) = Combination(Given(c, 0), local[c][0], Given(c, 1), local[c][1])
  BY DEF BoundaryExcess, Given
<1>7. QED BY <1>1, <1>3, <1>5, <1>6

\* The right hand side for the Dirichlet corrector is that for the shape
\* functions with the given values.
LEMMA DirichletIs ==
  ASSUME Data, SystemType, layers = 0, Closed, NEW c \in Cells, LocalFits(c),
         NEW n \in Around(c) \ LocalBorder(c)
  PROVE  /\ LocalRhs(c, 0)[n] \in Int /\ LocalRhs(c, 1)[n] \in Int
         /\ Eq(DirichletProduct(c, n), Given(c, 0) * LocalRhs(c, 0)[n] + Given(c, 1) * LocalRhs(c, 1)[n])
<1> DEFINE a == At(c - 1)
           b == At(c)
           g == Projected(Cells, [i \in CoarseNodes |-> 0])
           u == Prolonged(g)
           v0 == CoarseBasis(c, 0)
           v1 == CoarseBasis(c, 1)
           x == Given(c, 0)
           y == Given(c, 1)
           w == [j \in Nodes |-> IF a <= j /\ j <= b THEN u[j] ELSE x * v0[j] + y * v1[j]]
           K == k
           S == Patch(c)
           q == n + 1
           r == Reciprocal(Micro)
           h0 == LocalRhs(c, 0)[n]
           h1 == LocalRhs(c, 1)[n]
           f0 == Fall(K, S, v0, n)
           f1 == Fall(K, S, v1, n)
<1>1. /\ a \in Nat /\ b \in Nat /\ n \in Nat /\ a < n /\ n < b /\ n \in Nodes /\ S \subseteq Entities
      /\ S = {e \in Nat : a < e /\ e <= b}
  <2>1. LocalBorder(c) = {a, b} /\ S = Micros(c)
    BY CellBorder
  <2>2. Around(c) = Left(c) .. Right(c) /\ Around(c) \subseteq Nodes
    BY PatchIs
  <2>3. Left(c) \in Nat /\ Right(c) \in Nat /\ LocalBorder(c) = {Left(c), Right(c)}
    BY PatchIs, BorderIs
  <2>4. a \in Nat /\ b \in Nat /\ a < b /\ S = {e \in Nat : a < e /\ e <= b} /\ S \subseteq Entities
    BY <2>1, CellRange, Sizes
  <2>5. Left(c) = a /\ Right(c) = b
    BY <2>1, <2>3, <2>4, PatchIs
  <2>6. QED BY <2>1, <2>2, <2>4, <2>5
<1>2. /\ g \in [CoarseNodes -> Int] /\ x \in Int /\ y \in Int /\ g[c - 1] = x /\ g[c] = y
      /\ v0 \in [Nodes -> Int] /\ v1 \in [Nodes -> Int] /\ K \in [Entities -> Int] /\ r \in Int
  <2>1. g \in [CoarseNodes -> Int] /\ x \in Int /\ y \in Int /\ g[c - 1] = x /\ g[c] = y
    <3> HIDE DEF x, y
    <3>1. QED BY GivenIs DEF x, y
  <2>2. v0 \in [Nodes -> Int] /\ v1 \in [Nodes -> Int]
    BY CoarseBasisIs DEF Inner
  <2>3. QED BY <2>1, <2>2, MicroReciprocal DEF Data
<1> HIDE DEF g
<1>3. u \in [Nodes -> Int]
  BY <1>2, ProlongedInt
<1>4. \A j \in Nodes : Eq(v0[j], r * (b - j)) /\ Eq(v1[j], r * (j - a))
  <2> SUFFICES ASSUME NEW j \in Nodes PROVE Eq(v0[j], r * (b - j)) /\ Eq(v1[j], r * (j - a))
    OBVIOUS
  <2>1. Div(v0[j] - r * Distance(c, 0, j)) /\ Div(v1[j] - r * Distance(c, 1, j))
    BY CoarseBasisIs DEF Inner
  <2>2. Distance(c, 0, j) = b - j /\ Distance(c, 1, j) = j - a
    BY DEF Distance
  <2>3. v0[j] \in Int /\ v1[j] \in Int /\ j \in Int
    BY <1>2, NodesOf
  <2> HIDE DEF v0, v1, a, b, r
  <2>4. r * (b - j) \in Int /\ r * (j - a) \in Int
    BY <1>1, <1>2, <2>3
  <2>5. QED BY <2>1, <2>2, <2>3, <2>4 DEF Eq
<1>5. ASSUME NEW j \in Nodes, a <= j, j <= b PROVE Eq(u[j], x * v0[j] + y * v1[j])
  <2>1. Eq(u[j], x * (r * (b - j)) + y * (r * (j - a)))
    <3>1. Eq(u[j], g[c - 1] * (r * (b - j)) + g[c] * (r * (j - a)))
      BY <1>2, <1>5, ProlongedIs
    <3>2. QED BY <1>2, <3>1
  <2>2. Eq(r * (b - j), v0[j]) /\ Eq(r * (j - a), v1[j]) /\ Eq(x, x) /\ Eq(y, y)
    BY <1>2, <1>4, EqSym, EqRefl
  <2> HIDE DEF u, v0, v1, x, y, a, b, r
  <2>3. Eq(x * (r * (b - j)), x * v0[j]) /\ Eq(y * (r * (j - a)), y * v1[j])
    BY <2>2, EqTimes
  <2>4. Eq(x * (r * (b - j)) + y * (r * (j - a)), x * v0[j] + y * v1[j])
    BY <2>3, EqSum
  <2>5. QED BY <2>1, <2>4, EqTrans
<1> HIDE DEF u, v0, v1, x, y, a, b, r, K, S
<1>6. w \in [Nodes -> Int] /\ \A j \in Nodes : Eq(w[j], x * v0[j] + y * v1[j])
  <2> SUFFICES ASSUME NEW j \in Nodes PROVE w[j] \in Int /\ Eq(w[j], x * v0[j] + y * v1[j])
    OBVIOUS
  <2>1. u[j] \in Int /\ v0[j] \in Int /\ v1[j] \in Int /\ j \in Int
    BY <1>2, <1>3, NodesOf
  <2>2. x * v0[j] + y * v1[j] \in Int
    BY <1>2, <2>1
  <2>3. CASE a <= j /\ j <= b
    BY <1>5, <2>1, <2>3
  <2>4. CASE ~(a <= j /\ j <= b)
    BY <2>2, <2>4, EqRefl
  <2>5. QED BY <2>3, <2>4
<1>7. Fall(K, S, w, n) = Fall(K, S, u, n)
  <2>1. /\ n \in S /\ q \in S /\ q - 1 = n /\ n - 1 \in Nodes /\ q \in Nodes
        /\ a <= n - 1 /\ n - 1 <= b /\ a <= n /\ n <= b /\ a <= q /\ q <= b
    BY <1>1, NodesOf
  <2>2. w[n - 1] = u[n - 1] /\ w[n] = u[n] /\ w[q] = u[q]
    BY <1>1, <2>1
  <2> HIDE DEF w
  <2>3. QED BY <2>1, <2>2 DEF Fall, Part
<1> HIDE DEF w
<1>8. f0 \in Int /\ f1 \in Int /\ Eq(Fall(K, S, u, n), x * f0 + y * f1)
  BY <1>1, <1>2, <1>6, <1>7, FallLinear
<1>9. /\ h0 \in Int /\ h1 \in Int /\ Eq(h0, 0 - f0) /\ Eq(h1, 0 - f1)
      /\ Eq(DirichletProduct(c, n), 0 - Fall(K, S, u, n))
  <2>1. h0 = MinusEnergy(c, v0, n) /\ h1 = MinusEnergy(c, v1, n)
    BY <1>1 DEF LocalRhs, CoarseBasisProduct, Inner, v0, v1
  <2>2. DirichletProduct(c, n) = MinusEnergy(c, u, n)
    BY DEF DirichletProduct, u, g
  <2> HIDE DEF h0, h1, f0, f1
  <2>3. ASSUME NEW t \in [Nodes -> Int]
        PROVE  MinusEnergy(c, t, n) \in Int /\ Eq(MinusEnergy(c, t, n), 0 - Fall(K, S, t, n))
    BY <1>1, MinusEnergyIs DEF K, S
  <2>4. h0 \in Int /\ Eq(h0, 0 - f0)
    BY <1>2, <2>1, <2>3 DEF f0
  <2>5. h1 \in Int /\ Eq(h1, 0 - f1)
    BY <1>2, <2>1, <2>3 DEF f1
  <2>6. Eq(DirichletProduct(c, n), 0 - Fall(K, S, u, n))
    BY <1>3, <2>2, <2>3
  <2>7. QED BY <2>4, <2>5, <2>6
<1> DEFINE p == DirichletProduct(c, n)
           z == Fall(K, S, u, n)
           k0 == 0 - f0
           k1 == 0 - f1
<1> HIDE DEF h0, h1, p, z, f0, f1
<1>10. Eq(x * h0, x * k0) /\ Eq(y * h1, y * k1)
  <2>1. Eq(x, x) /\ Eq(y, y)
    BY <1>2, EqRefl
  <2>2. QED BY <1>9, <2>1, EqTimes
<1>11. Eq(p, 0 - (x * f0 + y * f1))
  <2>1. Eq(0, 0)
    BY EqRefl
  <2>2. Eq(0 - z, 0 - (x * f0 + y * f1))
    BY <1>8, <2>1, EqSum DEF z
  <2>3. QED BY <1>9, <2>2, EqTrans DEF p, z
<1>12. 0 - (x * f0 + y * f1) = x * k0 + y * k1
  BY <1>2, <1>8
<1>13. Eq(x * k0 + y * k1, x * h0 + y * h1)
  BY <1>10, EqSum, EqSym
<1>14. Eq(p, x * h0 + y * h1)
  BY <1>11, <1>12, <1>13, EqTrans
<1>15. QED BY <1>9, <1>14 DEF p, h0, h1, x, y

\* The boundary correctors of a cell are what its Dirichlet values contribute to
\* the correctors of its shape functions.
LEMMA DirectionIs ==
  ASSUME Data, SystemType, layers = 0, Closed, NEW c \in Cells, LocalFits(c), NEW m \in Touched(Micros(c))
  PROVE  /\ DirectionOfFlux(c)[m] \in Int /\ BoundaryExcess(c)[m] \in Int
         /\ Eq(DirectionOfFlux(c)[m], BoundaryExcess(c)[m])
<1> DEFINE x == Given(c, 0)
           y == Given(c, 1)
           v0 == local[c][0]
           v1 == local[c][1]
           vn == local[c][NeumannSlot]
           vd == local[c][DirichletSlot]
           D == DirectionOfFlux(c)
           B == BoundaryExcess(c)
           one == 1
           minus == 0 - 1
           K == k
           S == Patch(c)
           p == [j \in Nodes |-> one * vd[j] + minus * vn[j]]
           q == [j \in Nodes |-> x * v0[j] + y * v1[j]]
           d == [j \in Nodes |-> p[j] - q[j]]
<1>1. /\ v0 \in [Nodes -> Int] /\ v1 \in [Nodes -> Int] /\ vn \in [Nodes -> Int] /\ vd \in [Nodes -> Int]
      /\ x \in Int /\ y \in Int /\ one \in Int /\ minus \in Int /\ K \in [Entities -> Int] /\ S \subseteq Entities
  <2>1. v0 \in [Nodes -> Int] /\ v1 \in [Nodes -> Int] /\ vn \in [Nodes -> Int] /\ vd \in [Nodes -> Int]
    BY DEF Data, Slots, NeumannSlot, DirichletSlot
  <2>2. x \in Int /\ y \in Int
    BY GivenIs
  <2>3. K \in [Entities -> Int] /\ S \subseteq Entities
    BY PatchIs DEF Data
  <2>4. one \in Int /\ minus \in Int
    OBVIOUS
  <2>5. QED BY <2>1, <2>2, <2>3, <2>4
<1>2. Around(c) \subseteq Nodes /\ m \in Around(c)
  <2>1. S = Micros(c) /\ Around(c) \subseteq Nodes
    BY CellBorder, PatchIs DEF Data
  <2>2. QED BY <2>1 DEF Around
<1>3. D = Combination(one, vd, minus, vn) /\ B = Combination(x, v0, y, v1)
  BY GivenIs DEF DirectionOfFlux
<1> HIDE DEF x, y, v0, v1, vn, vd, D, B, one, minus
<1>4. /\ D \in [Nodes -> Int] /\ B \in [Nodes -> Int] /\ p \in [Nodes -> Int] /\ q \in [Nodes -> Int]
      /\ \A j \in Nodes : Eq(D[j], p[j]) /\ Eq(B[j], q[j])
  <2>1. /\ D \in [Nodes -> Int] /\ \A j \in Nodes : Div(D[j] - (one * vd[j] + minus * vn[j]))
        /\ B \in [Nodes -> Int] /\ \A j \in Nodes : Div(B[j] - (x * v0[j] + y * v1[j]))
    BY <1>1, <1>3, CombinationIs
  <2>2. \A j \in Nodes : /\ p[j] = one * vd[j] + minus * vn[j] /\ p[j] \in Int
                         /\ q[j] = x * v0[j] + y * v1[j] /\ q[j] \in Int
    BY <1>1
  <2>3. p \in [Nodes -> Int] /\ q \in [Nodes -> Int]
    BY <2>2
  <2> HIDE DEF p, q
  <2>4. QED BY <2>1, <2>2, <2>3 DEF Eq
<1>5. \A j \in Nodes : p[j] = one * vd[j] + minus * vn[j] /\ q[j] = x * v0[j] + y * v1[j]
  OBVIOUS
<1>6. \A j \in Nodes : p[j] = vd[j] - vn[j]
  BY <1>1, <1>5 DEF one, minus
<1> HIDE DEF p, q
<1>7. d \in [Nodes -> Int] /\ \A j \in Nodes : d[j] = p[j] - q[j] /\ Eq(d[j], one * p[j] + minus * q[j])
  <2> SUFFICES ASSUME NEW j \in Nodes
               PROVE  d[j] \in Int /\ d[j] = p[j] - q[j] /\ Eq(d[j], one * p[j] + minus * q[j])
    OBVIOUS
  <2>1. p[j] \in Int /\ q[j] \in Int
    BY <1>4
  <2>2. one * p[j] + minus * q[j] = p[j] - q[j] /\ d[j] = p[j] - q[j] /\ d[j] \in Int
    BY <2>1 DEF one, minus
  <2>3. QED BY <2>2, EqRefl
<1> HIDE DEF d
<1>8. CASE ~HasBoundaryIntersections(c)
  <2>1. \A j \in Nodes : vd[j] = 0 /\ vn[j] = 0
    <3>1. DirichletSlot \in Slots \ Inner /\ NeumannSlot \in Slots \ Inner
      BY DEF DirichletSlot, NeumannSlot, Slots, Inner
    <3>2. vd = ZeroFunction /\ vn = ZeroFunction
      BY <1>8, <3>1 DEF LocalFits, Fits, IsSolved, vd, vn
    <3>3. QED BY <3>2 DEF ZeroFunction
  <2>2. x = 0 /\ y = 0
    <3>1. \A s \in Inner : At(Dof(c, s)) \notin boundary.dirichlet
      BY <1>8 DEF HasBoundaryIntersections, SystemType
    <3>2. 0 \in Inner /\ 1 \in Inner
      BY DEF Inner
    <3>3. QED BY <3>1, <3>2 DEF Given, DirichletNodes, x, y
  <2>3. \A j \in Nodes : p[j] = 0 /\ q[j] = 0
    <3> SUFFICES ASSUME NEW j \in Nodes PROVE p[j] = 0 /\ q[j] = 0
      OBVIOUS
    <3>1. v0[j] \in Int /\ v1[j] \in Int
      BY <1>1
    <3>2. 0 * v0[j] + 0 * v1[j] = 0 /\ 0 - 0 = 0
      BY <3>1
    <3>3. q[j] = 0 * v0[j] + 0 * v1[j] /\ p[j] = 0 - 0
      BY <1>5, <1>6, <2>1, <2>2
    <3>4. QED BY <3>2, <3>3
  <2>4. Eq(D[m], 0) /\ Eq(B[m], 0)
    BY <1>2, <1>4, <2>3
  <2>5. QED BY <1>2, <1>4, <2>4, EqSym, EqTrans DEF D, B
<1>9. CASE HasBoundaryIntersections(c)
  <2>1. \A s \in Slots : IsSolved(c, s)
    BY <1>9 DEF IsSolved
  <2>2. ASSUME NEW j \in LocalBorder(c) PROVE Eq(d[j], 0)
    <3>1. j \in Nodes
      BY <1>2, BorderIs DEF Data
    <3>2. Eq(v0[j], 0) /\ Eq(v1[j], 0) /\ Eq(vn[j], 0) /\ Eq(vd[j], 0)
      BY DEF LocalFits, Fits, Slots, NeumannSlot, DirichletSlot, v0, v1, vn, vd
    <3>3. Eq(x, x) /\ Eq(y, y)
      BY <1>1, EqRefl
    <3>4. Eq(x * v0[j], x * 0) /\ Eq(y * v1[j], y * 0)
      BY <3>2, <3>3, EqTimes
    <3>5. x * 0 = 0 /\ y * 0 = 0
      BY <1>1
    <3>6. Eq(x * v0[j] + y * v1[j], 0 + 0) /\ Eq(vd[j] - vn[j], 0 - 0)
      BY <3>2, <3>4, <3>5, EqSum
    <3>7. Eq(q[j], 0) /\ Eq(p[j], 0)
      BY <1>5, <1>6, <3>1, <3>6
    <3>8. Eq(p[j] - q[j], 0 - 0) /\ 0 - 0 = 0
      BY <3>7, EqSum
    <3>9. QED BY <1>7, <3>1, <3>8
  <2>3. ASSUME NEW j \in Around(c) \ LocalBorder(c) PROVE Eq(Fall(K, S, d, j), 0)
    <3> DEFINE h0 == LocalRhs(c, 0)[j]
               h1 == LocalRhs(c, 1)[j]
               hd == DirichletProduct(c, j)
               f0 == Fall(K, S, v0, j)
               f1 == Fall(K, S, v1, j)
               fn == Fall(K, S, vn, j)
               fd == Fall(K, S, vd, j)
               fp == Fall(K, S, p, j)
               fq == Fall(K, S, q, j)
    <3>1. j \in Nodes /\ j \notin Ends
      <4>1. LocalBorder(c) = {At(c - 1), At(c)} /\ Around(c) = Left(c) .. Right(c) /\ j \in Nodes
        BY <1>2, CellBorder, PatchIs DEF Data
      <4>2. LocalBorder(c) = {Left(c), Right(c)} /\ Left(c) \in Nat /\ Right(c) \in Nat /\ Right(c) <= Size
        BY BorderIs, PatchIs DEF Data
      <4>3. Ends = {0, Size}
        BY DEF Ends, Size
      <4>4. Left(c) < j /\ j < Right(c)
        <5> DEFINE l == Left(c)
                   r == Right(c)
        <5>1. j \in l .. r /\ j \notin {l, r} /\ l \in Nat /\ r \in Nat
          BY <4>1, <4>2
        <5> HIDE DEF l, r
        <5>2. l < j /\ j < r
          BY <5>1
        <5>3. QED BY <5>2 DEF l, r
      <4>5. j # 0 /\ j # Size
        BY <4>1, <4>2, <4>4, Sizes
      <4>6. QED BY <4>1, <4>3, <4>5
    <3>2. /\ Eq(f0, h0) /\ Eq(f1, h1)
          /\ Eq(fn, LocalRhs(c, NeumannSlot)[j]) /\ Eq(fd, LocalRhs(c, DirichletSlot)[j])
      <4>1. \A s \in Slots : Eq(Fall(K, S, local[c][s], j), LocalRhs(c, s)[j])
        BY <2>1 DEF LocalFits, Fits, K, S
      <4>2. 0 \in Slots /\ 1 \in Slots /\ NeumannSlot \in Slots /\ DirichletSlot \in Slots
        BY DEF Slots, NeumannSlot, DirichletSlot
      <4>3. QED BY <4>1, <4>2 DEF v0, v1, vn, vd
    <3>3. LocalRhs(c, NeumannSlot)[j] = 0 /\ LocalRhs(c, DirichletSlot)[j] = hd
      <4>1. NeumannSlot \notin Inner /\ DirichletSlot \notin Inner /\ NeumannSlot # DirichletSlot
        BY DEF Inner, NeumannSlot, DirichletSlot
      <4>2. /\ LocalRhs(c, NeumannSlot)[j] = BoundaryProduct(c, NeumannSlot, j)
            /\ LocalRhs(c, DirichletSlot)[j] = BoundaryProduct(c, DirichletSlot, j)
        BY <3>1, <4>1 DEF LocalRhs
      <4>3. QED BY <1>9, <3>1, <4>1, <4>2 DEF BoundaryProduct
    <3>4. h0 \in Int /\ h1 \in Int /\ Eq(hd, x * h0 + y * h1)
      BY DirichletIs DEF x, y
    <3> HIDE DEF S, K
    <3>5. fp \in Int /\ fd \in Int /\ fn \in Int /\ Eq(fp, one * fd + minus * fn)
      <4>1. \A i \in Nodes : Eq(p[i], one * vd[i] + minus * vn[i])
        <5>1. \A i \in Nodes : p[i] = one * vd[i] + minus * vn[i] /\ p[i] \in Int
          BY <1>4, <1>5
        <5>2. QED BY <5>1, EqRefl
      <4>2. QED BY <1>1, <1>4, <3>1, <4>1, FallLinear
    <3>6. fq \in Int /\ f0 \in Int /\ f1 \in Int /\ Eq(fq, x * f0 + y * f1)
      <4>1. \A i \in Nodes : Eq(q[i], x * v0[i] + y * v1[i])
        <5>1. \A i \in Nodes : q[i] = x * v0[i] + y * v1[i] /\ q[i] \in Int
          BY <1>4, <1>5
        <5>2. QED BY <5>1, EqRefl
      <4>2. QED BY <1>1, <1>4, <3>1, <4>1, FallLinear
    <3>7. Eq(Fall(K, S, d, j), one * fp + minus * fq)
      BY <1>1, <1>4, <1>7, <3>1, FallLinear
    <3> HIDE DEF h0, h1, hd, f0, f1, fn, fd, fp, fq
    <3>8. Eq(fd - fn, hd - 0)
      BY <3>2, <3>3, EqSum
    <3>9. one * fd + minus * fn = fd - fn /\ one * fp + minus * fq = fp - fq
      BY <3>5, <3>6 DEF one, minus
    <3>10. Eq(x * f0 + y * f1, x * h0 + y * h1)
      <4>1. Eq(x, x) /\ Eq(y, y)
        BY <1>1, EqRefl
      <4>2. Eq(x * f0, x * h0) /\ Eq(y * f1, y * h1)
        BY <3>2, <4>1, EqTimes
      <4>3. QED BY <4>2, EqSum
    <3>11. hd - 0 = hd
      BY <3>4 DEF Eq
    <3>12. Eq(fp, x * h0 + y * h1)
      BY <3>4, <3>5, <3>8, <3>9, <3>11, EqTrans
    <3>13. Eq(fq, x * h0 + y * h1)
      BY <3>6, <3>10, EqTrans
    <3>14. Eq(fp, fq)
      BY <3>12, <3>13, EqSym, EqTrans
    <3>15. Eq(fp - fq, fq - fq) /\ fq - fq = 0
      BY <3>6, <3>14, EqRefl, EqSum
    <3>16. QED BY <3>7, <3>9, <3>15, EqTrans
  <2>4. \A j \in Around(c) : IF j \in LocalBorder(c) THEN Eq(d[j], 0) ELSE Eq(Fall(k, Patch(c), d, j), 0)
    BY <2>2, <2>3 DEF K, S
  <2>5. Regular(AssembledMatrix(c), Around(c))
    BY DEF LocalFits, Fits
  <2>6. Eq(d[m], 0)
    BY <1>2, <1>7, <2>4, <2>5, LocalUnique
  <2>7. D[m] \in Int /\ B[m] \in Int /\ Eq(D[m], p[m]) /\ Eq(q[m], B[m]) /\ p[m] \in Int /\ q[m] \in Int
    BY <1>2, <1>4, EqSym
  <2>8. Eq(p[m], q[m])
    <3>1. d[m] = p[m] - q[m]
      BY <1>2, <1>7
    <3>2. Eq(d[m] + q[m], 0 + q[m])
      BY <2>6, <2>7, EqRefl, EqSum
    <3>3. d[m] + q[m] = p[m] /\ 0 + q[m] = q[m]
      BY <2>7, <3>1
    <3>4. QED BY <3>2, <3>3
  <2>9. QED BY <2>7, <2>8, EqTrans DEF D, B
<1>10. QED BY <1>8, <1>9

\* In a cell without source the coarse solution and the weighted correctors
\* have the values of a function whose fluxes fall by the source, if they have
\* them in the two coarse nodes.
LEMMA CellExact ==
  ASSUME Data, SystemType, layers = 0, Closed, NEW c \in Cells, LocalFits(c),
         \A e \in Micros(c) : f[e] = 0,
         NEW u \in [Nodes -> Field], NEW J \in Int,
         \A e \in Entities : Eq(k[e] * (u[e] - u[e - 1]), J - Inflow(f, e)),
         coarse[c - 1] = u[At(c - 1)], coarse[c] = u[At(c)]
  PROVE  \A n \in Touched(Micros(c)) : ((Prolonged(coarse)[n] + InnerPart(c)[n]) % P) = u[n]
<1> DEFINE S == Micros(c)
           a == At(c - 1)
           b == At(c)
           R0 == Reconstruction(c, 0)
           R1 == Reconstruction(c, 1)
           x == coarse[c - 1]
           y == coarse[c]
           v == [n \in Nodes |-> x * R0[n] + y * R1[n]]
           d == [n \in Nodes |-> v[n] - u[n]]
           one == 1
           minus == 0 - 1
           K == k
<1>1. /\ S \subseteq Entities /\ a \in Nodes /\ b \in Nodes /\ a \in Nat /\ b \in Nat
      /\ S = {n \in Nat : a < n /\ n <= b}
      /\ Around(c) = a .. b /\ Around(c) = Touched(S) /\ Around(c) \subseteq Nodes
      /\ LocalBorder(c) = {a, b} /\ Patch(c) = S
  <2>1. LocalBorder(c) = {a, b} /\ Patch(c) = S
    BY CellBorder
  <2>2. Around(c) = a .. b /\ Around(c) \subseteq Nodes
    BY PatchIs
  <2>3. Around(c) = Touched(S)
    BY <2>1 DEF Around
  <2>4. a \in Nodes /\ b \in Nodes /\ a \in Nat /\ b \in Nat /\ S = {n \in Nat : a < n /\ n <= b} /\ S \subseteq Entities
    BY CellRange, Sizes, Grid
  <2>5. QED BY <2>1, <2>2, <2>3, <2>4
<1>2. /\ R0 \in [Nodes -> Int] /\ R1 \in [Nodes -> Int] /\ K \in [Entities -> Int] /\ u \in [Nodes -> Int]
      /\ x \in Int /\ y \in Int /\ one \in Int /\ minus \in Int
  <2>1. R0 \in [Nodes -> Int] /\ R1 \in [Nodes -> Int]
    BY ReconstructionIs DEF Inner
  <2>2. x \in Int /\ y \in Int
    BY Dofs DEF Data
  <2>3. u \in [Nodes -> Int]
    <3>1. \A n \in Nodes : u[n] \in Int
      BY FieldInt
    <3>2. QED BY <3>1
  <2>4. K \in [Entities -> Int]
    BY DEF Data
  <2>5. one \in Int /\ minus \in Int
    OBVIOUS
  <2> HIDE DEF R0, R1, x, y, one, minus, K
  <2>6. QED BY <2>1, <2>2, <2>3, <2>4, <2>5
<1>3. Eq(R0[a], 1) /\ Eq(R1[a], 0) /\ Eq(R0[b], 0) /\ Eq(R1[b], 1)
  <2>1. Eq(R0[a], 1 - 0) /\ Eq(R0[b], 0) /\ Eq(R1[a], 1 - 1) /\ Eq(R1[b], 1)
    BY EndValues DEF Inner
  <2>2. QED BY <2>1
<1>4. \A n \in Around(c) \ LocalBorder(c) : Eq(Fall(K, S, R0, n), 0) /\ Eq(Fall(K, S, R1, n), 0)
  BY <1>1 DEF LocalFits, Fits, Inner, Reconstruction
<1> HIDE DEF R0, R1, x, y, one, minus, K
<1>5. /\ v \in [Nodes -> Int] /\ \A n \in Nodes : v[n] = x * R0[n] + y * R1[n] /\ v[n] \in Int
  BY <1>2
<1> HIDE DEF v
<1>6. /\ d \in [Nodes -> Int] /\ \A n \in Nodes : d[n] = v[n] - u[n]
  BY <1>2, <1>5
<1> HIDE DEF d
<1>7. Eq(d[a], 0) /\ Eq(d[b], 0)
  <2> DEFINE p0 == R0[a]
             p1 == R1[a]
             q0 == R0[b]
             q1 == R1[b]
  <2>1. p0 \in Int /\ p1 \in Int /\ q0 \in Int /\ q1 \in Int
    BY <1>1, <1>2
  <2>2. Eq(p0, 1) /\ Eq(p1, 0) /\ Eq(q0, 0) /\ Eq(q1, 1)
    BY <1>3
  <2>3. v[a] = x * p0 + y * p1 /\ v[b] = x * q0 + y * q1 /\ d[a] = v[a] - x /\ d[b] = v[b] - y
    BY <1>1, <1>5, <1>6 DEF x, y
  <2> HIDE DEF p0, p1, q0, q1
  <2>4. Eq(x, x) /\ Eq(y, y)
    BY <1>2, EqRefl
  <2>5. Eq(x * p0, x * 1) /\ Eq(y * p1, y * 0) /\ Eq(x * q0, x * 0) /\ Eq(y * q1, y * 1)
    BY <2>2, <2>4, EqTimes
  <2>6. x * 1 = x /\ x * 0 = 0 /\ y * 1 = y /\ y * 0 = 0 /\ x + 0 = x /\ 0 + y = y /\ x - x = 0 /\ y - y = 0
    BY <1>2
  <2>7. Eq(x * p0 + y * p1, x + 0) /\ Eq(x * q0 + y * q1, 0 + y)
    BY <2>5, <2>6, EqSum
  <2>8. Eq(v[a] - x, x - x) /\ Eq(v[b] - y, y - y)
    BY <2>3, <2>4, <2>6, <2>7, EqSum
  <2>9. QED BY <2>3, <2>6, <2>8
<1>8. ASSUME NEW n \in Around(c) \ LocalBorder(c) PROVE Eq(Fall(K, S, d, n), 0)
  <2> DEFINE q == n + 1
             fv == Fall(K, S, v, n)
             fu == Fall(K, S, u, n)
             fd == Fall(K, S, d, n)
             f0 == Fall(K, S, R0, n)
             f1 == Fall(K, S, R1, n)
  <2>1. n \in Nodes /\ n \in Nat /\ n \in S /\ q \in S /\ q - 1 = n /\ n \in Entities /\ q \in Entities
    BY <1>1
  <2>2. f0 \in Int /\ f1 \in Int /\ fv \in Int /\ Eq(fv, x * f0 + y * f1)
    <3>1. \A j \in Nodes : Eq(v[j], x * R0[j] + y * R1[j])
      BY <1>5, EqRefl
    <3> HIDE DEF S
    <3>2. QED BY <1>1, <1>2, <1>5, <2>1, <3>1, FallLinear
  <2>3. Eq(fv, 0)
    <3>1. Eq(f0, 0) /\ Eq(f1, 0)
      BY <1>4
    <3> HIDE DEF f0, f1, fv
    <3>2. Eq(x * f0, x * 0) /\ Eq(y * f1, y * 0)
      BY <1>2, <3>1, EqRefl, EqTimes
    <3>3. Eq(x * f0 + y * f1, x * 0 + y * 0)
      BY <3>2, EqSum
    <3>4. x * 0 + y * 0 = 0
      BY <1>2
    <3>5. QED BY <2>2, <3>3, <3>4, EqTrans
  <2>4. Eq(fu, 0)
    <3> DEFINE g == K[n] * (u[n] - u[n - 1])
               h == K[q] * (u[q] - u[n])
               i == Inflow(f, n)
               j == Inflow(f, q)
    <3>1. fu = g - h
      BY <2>1 DEF Fall, Part
    <3>2. Eq(g, J - i) /\ Eq(h, J - j)
      <4>1. Eq(K[q] * (u[q] - u[q - 1]), J - j) /\ Eq(g, J - i)
        BY <2>1 DEF K
      <4>2. QED BY <2>1, <4>1
    <3>3. i \in Int /\ j \in Int /\ Eq(j, i)
      <4>1. f \in [Entities -> Int] /\ f[n] = 0 /\ f[q] = 0
        BY <2>1 DEF Data
      <4>2. i \in Int /\ j \in Int /\ Eq(j, i + (f[n] + f[q]))
        BY <2>1, <4>1, InflowIs
      <4>3. i + (f[n] + f[q]) = i
        BY <4>1, <4>2
      <4>4. QED BY <4>2, <4>3
    <3> HIDE DEF g, h, i, j, fu
    <3>4. Eq(g - h, (J - i) - (J - j)) /\ Eq(j - i, i - i)
      <4>1. Eq(i, i)
        BY <3>3, EqRefl
      <4>2. QED BY <3>2, <3>3, <4>1, EqSum
    <3>5. (J - i) - (J - j) = j - i /\ i - i = 0
      BY <3>3
    <3>6. QED BY <3>1, <3>4, <3>5, EqTrans
  <2>5. fu \in Int /\ Eq(fd, one * fv + minus * fu)
    <3>1. \A j \in Nodes : Eq(d[j], one * v[j] + minus * u[j])
      <4> SUFFICES ASSUME NEW j \in Nodes PROVE Eq(d[j], one * v[j] + minus * u[j])
        OBVIOUS
      <4>1. v[j] \in Int /\ u[j] \in Int /\ d[j] = v[j] - u[j] /\ d[j] \in Int
        BY <1>2, <1>5, <1>6
      <4>2. one * v[j] + minus * u[j] = d[j]
        BY <4>1 DEF one, minus
      <4>3. QED BY <4>1, <4>2, EqRefl
    <3> HIDE DEF S
    <3>2. QED BY <1>1, <1>2, <1>5, <1>6, <2>1, <3>1, FallLinear
  <2> HIDE DEF fv, fu, fd
  <2>6. one * fv + minus * fu = fv - fu
    BY <2>2, <2>5 DEF one, minus
  <2>7. Eq(fv - fu, 0 - 0) /\ 0 - 0 = 0
    BY <2>3, <2>4, EqSum
  <2>8. QED BY <2>5, <2>6, <2>7, EqTrans DEF fd
<1>9. \A n \in Around(c) : IF n \in LocalBorder(c) THEN Eq(d[n], 0) ELSE Eq(Fall(k, Patch(c), d, n), 0)
  BY <1>1, <1>7, <1>8 DEF K
<1>10. \A n \in Around(c) : Eq(d[n], 0)
  <2>1. Regular(AssembledMatrix(c), Around(c))
    BY DEF LocalFits, Fits
  <2>2. QED BY <1>6, <1>9, <2>1, LocalUnique
<1>11. ASSUME NEW n \in Around(c) PROVE ((Prolonged(coarse)[n] + InnerPart(c)[n]) % P) = u[n]
  <2> DEFINE p == Prolonged(coarse)[n]
             i == InnerPart(c)[n]
             s == p + i
  <2>1. n \in Nodes /\ a <= n /\ n <= b
    BY <1>1
  <2>2. p \in Int /\ i \in Int /\ Eq(s, v[n])
    <3>1. Eq(s, x * R0[n] + y * R1[n]) /\ p \in Int /\ i \in Int
      BY <2>1, SumOfShapes DEF x, y, R0, R1
    <3>2. QED BY <1>5, <2>1, <3>1
  <2>3. Eq(d[n], 0) /\ d[n] = v[n] - u[n] /\ v[n] \in Int /\ u[n] \in Int /\ u[n] \in Field
    BY <1>2, <1>5, <1>6, <1>10, <2>1
  <2> HIDE DEF p, i
  <2>4. s \in Int
    BY <2>2
  <2> HIDE DEF s
  <2>5. Eq(v[n], u[n])
    <3>1. (v[n] - u[n]) - 0 = v[n] - u[n]
      BY <2>3
    <3>2. QED BY <2>3, <3>1 DEF Eq
  <2>6. Eq((s % P), s) /\ (s % P) \in Field
    BY <2>4, EqMod
  <2>7. Eq((s % P), u[n])
    BY <2>2, <2>5, <2>6, EqTrans
  <2>8. (s % P) = u[n]
    BY <2>3, <2>6, <2>7, EqField
  <2>9. QED BY <2>8 DEF s, p, i
<1>12. QED BY <1>1, <1>11

\* Equal numbers have equal remainders.
LEMMA EqRemainders == ASSUME NEW x, NEW y, Eq(x, y) PROVE (x % P) = (y % P)
<1>1. x \in Int /\ y \in Int
  BY DEF Eq
<1>2. Eq(x % P, x) /\ Eq(y % P, y) /\ (x % P) \in Field /\ (y % P) \in Field
  BY <1>1, EqMod
<1>3. Eq(x % P, y % P)
  BY <1>2, EqSym, EqTrans
<1>4. QED BY <1>2, <1>3, EqField

\* The correction is what the weighted correctors and the boundary correctors add.
LEMMA CorrectionIs ==
  ASSUME Data, layers = 0, NEW c \in Cells, NEW n \in Nodes, DirectionOfFlux(c)[n] \in Int
  PROVE  Eq(Plus(Cut(c, InnerPart(c)), DirectionOfFlux(c))[n], InnerPart(c)[n] + DirectionOfFlux(c)[n])
<1> DEFINE v == InnerPart(c)
           w == DirectionOfFlux(c)
           x == v[n]
           y == w[n]
<1>1. Cut(c, v) = v
  BY DEF Cut
<1>2. v \in [Nodes -> Int]
  <2>1. coarse[Dof(c, 0)] \in Int /\ coarse[Dof(c, 1)] \in Int
    BY Dofs DEF Data
  <2>2. local[c][0] \in [Nodes -> Int] /\ local[c][1] \in [Nodes -> Int]
    BY DEF Data, Slots
  <2>3. QED BY <2>1, <2>2, CombinationIs DEF InnerPart
<1> HIDE DEF v, w
<1>3. Plus(Cut(c, v), w)[n] = (1 * x + 1 * y) % P
  BY <1>1 DEF Plus, Combination
<1>4. x \in Int /\ y \in Int
  BY <1>2 DEF w
<1> HIDE DEF x, y
<1>5. 1 * x + 1 * y = x + y /\ x + y \in Int
  BY <1>4
<1>6. Eq((x + y) % P, x + y)
  BY <1>5, EqMod
<1>7. QED BY <1>3, <1>5, <1>6 DEF v, w, x, y

\* What is handed out for a cell without source, from the invariants.
LEMMA CellsAreExact == ASSUME GalerkinInv, FemInv, CellsInv PROVE ReconstructionExact
<1> SUFFICES ASSUME pc = "done", layers = 0, EvenSource, NEW c \in Cells, SourceFree(c),
                    NEW n \in Touched(Micros(c))
             PROVE  ((Prolonged(coarse)[n] + correction[c][n]) % P)
                      = ((FineSolution(k, f, boundary)[n] + BoundaryExcess(c)[n]) % P)
  BY DEF ReconstructionExact
<1>1. /\ Data /\ SystemType /\ Problem(k, f, boundary) /\ Identified /\ todo = {} /\ LocalFits(c) /\ Closed
  BY DEF GalerkinInv, FemInv, FemType, CellsInv, Identified
<1> DEFINE b == boundary
           u == FineSolution(k, f, b)
           p == Prolonged(coarse)[n]
           i == InnerPart(c)[n]
           d == DirectionOfFlux(c)[n]
           x == BoundaryExcess(c)[n]
           z == correction[c][n]
<1>2. n \in Nodes /\ At(c - 1) <= n /\ n <= At(c)
  <2>1. Micros(c) = {e \in Nat : At(c - 1) < e /\ e <= At(c)} /\ Micros(c) \subseteq Entities /\ At(c - 1) \in Nat
    BY CellRange
  <2>2. \A e \in Micros(c) : e \in Nodes /\ e - 1 \in Nodes
    BY <2>1, NodesOf
  <2>3. ASSUME NEW e \in Micros(c) PROVE At(c - 1) <= e - 1 /\ e - 1 <= At(c) /\ At(c - 1) <= e /\ e <= At(c)
    <3> DEFINE l == At(c - 1)
               r == At(c)
    <3>1. l \in Nat /\ r \in Nat /\ e \in Nat /\ l < e /\ e <= r
      BY <2>1, CellRange
    <3> HIDE DEF l, r
    <3>2. l <= e - 1 /\ e - 1 <= r /\ l <= e /\ e <= r
      BY <3>1
    <3>3. QED BY <3>2 DEF l, r
  <2>4. n \in Micros(c) \/ \E e \in Micros(c) : n = e - 1
    BY DEF Touched
  <2>5. QED BY <2>2, <2>3, <2>4
<1>3. d \in Int /\ x \in Int /\ Eq(d, x)
  BY <1>1, DirectionIs
<1>4. Eq(z, i + d)
  <2>1. correction[c] = Plus(Cut(c, InnerPart(c)), DirectionOfFlux(c))
    BY <1>1 DEF Identified
  <2>2. QED BY <1>1, <1>2, <1>3, <2>1, CorrectionIs
<1>5. p \in Int /\ i \in Int
  BY <1>1, <1>2, SumOfShapes
<1>6. u[n] \in Int /\ Eq(p + i, u[n])
  <2>1. Problem(k, f, b) /\ (b.dirichlet = Ends => Total([m \in Entities |-> Reciprocal(k[m])], Entities) # 0)
    BY <1>1 DEF Identified
  <2>2. u \in [Nodes -> Field] /\ \E J \in Int : \A e \in Entities : Eq(k[e] * (u[e] - u[e - 1]), J - Inflow(f, e))
    <3> HIDE DEF b
    <3>1. QED BY <2>1, FineFits
  <2>3. coarse[c - 1] = u[At(c - 1)] /\ coarse[c] = u[At(c)]
    <3>1. c - 1 \in CoarseNodes /\ c \in CoarseNodes
      BY Dofs
    <3>2. QED BY <1>1, <3>1 DEF Identified
  <2> HIDE DEF u, p, i
  <2>4. PICK J \in Int : \A e \in Entities : Eq(k[e] * (u[e] - u[e - 1]), J - Inflow(f, e))
    BY <2>2
  <2>5. ((p + i) % P) = u[n]
    <3>1. \A e \in Micros(c) : f[e] = 0
      BY DEF SourceFree
    <3>2. \A m \in Touched(Micros(c)) : ((Prolonged(coarse)[m] + InnerPart(c)[m]) % P) = u[m]
      BY <1>1, <2>2, <2>3, <2>4, <3>1, CellExact
    <3>3. QED BY <3>2 DEF p, i
  <2>6. u[n] \in Int /\ Eq(p + i, (p + i) % P)
    <3>1. u[n] \in Field /\ p + i \in Int
      BY <1>2, <1>5, <2>2
    <3>2. QED BY <3>1, FieldInt, EqMod, EqSym
  <2>7. QED BY <2>5, <2>6
<1> HIDE DEF u, p, i, d, x, z
<1>7. Eq(p + z, u[n] + x)
  <2>1. Eq(p + z, p + (i + d))
    BY <1>4, <1>5, EqRefl, EqSum
  <2>2. Eq((p + i) + d, u[n] + x) /\ (p + i) + d = p + (i + d)
    BY <1>3, <1>5, <1>6, EqSum
  <2>3. QED BY <2>1, <2>2, EqTrans
<1>8. ((p + z) % P) = ((u[n] + x) % P)
  BY <1>7, EqRemainders
<1>9. QED BY <1>8 DEF p, z, u, x, b

\* ReconstructionExact for every grid, coefficient and boundary, every source that
\* is constant on coarse cells and every linear solver: without oversampling, what
\* msfem_solver.cc hands out for a cell without source makes the fine solution
\* there, in a boundary cell up to what its Dirichlet values contribute twice.
THEOREM ReconstructionExactHolds == ComparedSpec => []ReconstructionExact
<1>1. QED BY CellsAreExact, SystemsFit, ReferenceFits, CellsFit, PTL

---------------------------------------------------------------------------
(* The assembled operator, and which systems are regular                   *)

\* The assembled rows add up to zero,
LEMMA RowsAddUp ==
  ASSUME Data, SystemType, Assembled, todo = {}, \A c \in Cells : LocalFits(c), NEW i \in CoarseNodes
  PROVE  Eq(Total(matrix[i], CoarseNodes), 0)
<1> DEFINE S == CoarseNodes
           u == [j \in S |-> 1]
           o == [j \in S |-> 0]
           h == [j \in S |-> matrix[i][j] * u[j]]
           g == [j \in S |-> matrix[i][j] * o[j]]
<1>1. \A j \in S : matrix[i][j] \in Int
  BY DEF SystemType
<1>2. \A j \in S : Div(matrix[i][j] - Entry(Cells, i, j))
  <2>1. Walked = Cells
    BY DEF Walked
  <2>2. QED BY <2>1 DEF Assembled
<1>3. \A j \in S : g[j] = 0 /\ h[j] = matrix[i][j]
  BY <1>1
<1>4. h = matrix[i]
  BY <1>1, <1>3 DEF SystemType
<1>5. u \in [S -> Int] /\ o \in [S -> Int] /\ \A j \in S : u[j] = 1
  OBVIOUS
<1>6. \A j \in S : Div(u[j] - (u[j] + o[j]))
  <2>1. \A j \in S : u[j] - (u[j] + o[j]) = 0
    OBVIOUS
  <2>2. QED BY <2>1, DivZero
<1> HIDE DEF u, o
<1>7. LET mv == Total(h, S)
          mw == Total(g, S)
      IN mv \in Int /\ mw \in Int /\ RowValue(u, i) \in Int /\ Div((mv + mw) - RowValue(u, i))
  BY <1>2, <1>5, <1>6, RowOfSystem
<1> HIDE DEF h, g
<1>8. Eq(Total(g, S), 0)
  <2>1. \A j \in S : Eq(g[j], 0)
    BY <1>3, EqRefl
  <2>2. S \subseteq Nat
    BY Neighbours
  <2>3. QED BY <2>1, <2>2, SumZero
<1>9. Eq(RowValue(u, i), 0)
  <2> DEFINE V(c, s) == u[c - 1] * MatrixIntegral(c, s, 0) + u[c] * MatrixIntegral(c, s, 1)
             a == IF i \in Cells THEN V(i, 1) ELSE 0
             b == IF i + 1 \in Cells THEN V(i + 1, 0) ELSE 0
  <2>1. ASSUME NEW c \in Cells, NEW s \in Inner PROVE Eq(V(c, s), 0)
    <3> DEFINE m == MatrixIntegral(c, s, 0)
               n == MatrixIntegral(c, s, 1)
    <3>1. Eq(m + n, 0) /\ m \in Int /\ n \in Int
      BY BlockRows, Integrals DEF Inner
    <3>2. u[c - 1] = 1 /\ u[c] = 1
      BY <1>5, Dofs
    <3>3. u[c - 1] * m + u[c] * n = m + n
      <4> HIDE DEF m, n
      <4>1. QED BY <3>1, <3>2
    <3>4. QED BY <3>1, <3>3
  <2>2. (i + 1) - 1 = i
    BY Neighbours
  <2>3. RowValue(u, i) = a + b
    BY <2>2 DEF RowValue
  <2> HIDE DEF V
  <2>4. Eq(a, 0) /\ Eq(b, 0)
    BY <2>1, EqRefl DEF Inner
  <2> HIDE DEF a, b
  <2>5. Eq(a + b, 0 + 0) /\ 0 + 0 = 0
    BY <2>4, EqSum
  <2>6. QED BY <2>3, <2>5
<1>10. Eq(Total(h, S), 0)
  <2> DEFINE x == Total(h, S)
             y == Total(g, S)
             z == RowValue(u, i)
  <2>1. x \in Int /\ y \in Int /\ z \in Int /\ Div((x + y) - z) /\ Eq(y, 0) /\ Eq(z, 0)
    BY <1>7, <1>8, <1>9
  <2> HIDE DEF x, y, z
  <2>2. Eq(x + y, z)
    BY <2>1 DEF Eq
  <2>3. (x + y) - y = x /\ z - 0 = z /\ x + y \in Int /\ 0 \in Int
    BY <2>1
  <2> DEFINE w == x + y
             o1 == 0
  <2>4. w - y = x /\ z - o1 = z /\ w \in Int /\ o1 \in Int /\ Eq(w, z) /\ Eq(y, o1) /\ Eq(z, o1)
    BY <2>1, <2>2, <2>3
  <2> HIDE DEF w, o1
  <2>5. Eq(w - y, z - o1)
    BY <2>1, <2>4, EqSum
  <2>6. Eq(x, o1)
    BY <2>1, <2>4, <2>5, EqTrans
  <2>7. QED BY <2>6 DEF x, o1
<1>11. QED BY <1>4, <1>10

\* and the entries are symmetric.
LEMMA EntriesSymmetric ==
  ASSUME Data, NEW i \in CoarseNodes, NEW j \in CoarseNodes
  PROVE  Entry(Cells, i, j) = Entry(Cells, j, i)
<1> DEFINE M(c, s, t) == MatrixIntegral(c, s, t)
<1>1. i \in Nat /\ j \in Nat
  BY Neighbours
<1>2. ASSUME NEW c \in Cells
      PROVE  /\ MatrixBlock(c, i, j) = IF i \in {c - 1, c} /\ j \in {c - 1, c} THEN M(c, i - (c - 1), j - (c - 1)) ELSE 0
             /\ MatrixBlock(c, j, i) = IF i \in {c - 1, c} /\ j \in {c - 1, c} THEN M(c, j - (c - 1), i - (c - 1)) ELSE 0
  BY BlockOf
<1>3. ASSUME NEW c \in Cells PROVE MatrixBlock(c, i, j) = MatrixBlock(c, j, i)
  <2>1. c \in Int
    BY CellRange
  <2>2. CASE i \in {c - 1, c} /\ j \in {c - 1, c}
    <3>1. i - (c - 1) \in Inner /\ j - (c - 1) \in Inner
      BY <1>1, <2>1, <2>2 DEF Inner
    <3>2. QED BY <1>2, <2>2, <3>1, Integrals
  <2>3. CASE ~(i \in {c - 1, c} /\ j \in {c - 1, c})
    BY <1>2, <2>3
  <2>4. QED BY <2>2, <2>3
<1>4. ASSUME NEW c \in Cells, ~(i \in {c - 1, c} /\ j \in {c - 1, c}) PROVE MatrixBlock(c, i, j) = 0
  BY <1>2, <1>4
<1> HIDE DEF M
<1>5. CASE i = j
  BY <1>5
<1>6. CASE j = i + 1
  <2>1. Entry(Cells, i, j) = 0 + Part(i + 1, Cells, MatrixBlock(i + 1, i, j))
    <3>1. i \in Cells => MatrixBlock(i, i, j) = 0
      BY <1>1, <1>4, <1>6
    <3>2. QED BY <3>1 DEF Entry, Part
  <2>2. Entry(Cells, j, i) = Part(j, Cells, MatrixBlock(j, j, i)) + 0
    <3>1. j + 1 \in Cells => MatrixBlock(j + 1, i, j) = 0
      BY <1>1, <1>4, <1>6
    <3>2. j + 1 \in Cells => MatrixBlock(j + 1, j, i) = 0
      BY <1>3, <3>1
    <3>3. QED BY <3>2 DEF Entry, Part
  <2>3. Part(i + 1, Cells, MatrixBlock(i + 1, i, j)) = Part(j, Cells, MatrixBlock(j, j, i))
    BY <1>3, <1>6 DEF Part
  <2> DEFINE x == Part(j, Cells, MatrixBlock(j, j, i))
  <2>4. QED
    <3>1. x \in Int
      <4>1. j \in Cells => MatrixBlock(j, j, i) \in Int
        <5>1. j \in Cells => j - 1 \in CoarseNodes /\ j - (j - 1) = 1 /\ i - (j - 1) = 0
          BY <1>1, <1>6, Neighbours
        <5>2. j \in Cells => MatrixBlock(j, j, i) = MatrixIntegral(j, 1, 0)
          BY <1>1, <1>2, <1>6, <5>1 DEF M
        <5>3. QED BY <5>2, Integrals DEF Inner
      <4>2. QED BY <4>1 DEF Part
    <3> HIDE DEF x
    <3>2. x + 0 = 0 + x
      BY <3>1
    <3>3. QED BY <2>1, <2>2, <2>3, <3>2 DEF x
<1>7. CASE i = j + 1
  <2>1. Entry(Cells, j, i) = 0 + Part(j + 1, Cells, MatrixBlock(j + 1, j, i))
    <3>1. j \in Cells => MatrixBlock(j, i, j) = 0
      BY <1>1, <1>4, <1>7
    <3>2. j \in Cells => MatrixBlock(j, j, i) = 0
      BY <1>3, <3>1
    <3>3. QED BY <3>2 DEF Entry, Part
  <2>2. Entry(Cells, i, j) = Part(i, Cells, MatrixBlock(i, i, j)) + 0
    <3>1. i + 1 \in Cells => MatrixBlock(i + 1, i, j) = 0
      BY <1>1, <1>4, <1>7
    <3>2. QED BY <3>1 DEF Entry, Part
  <2>3. Part(j + 1, Cells, MatrixBlock(j + 1, j, i)) = Part(i, Cells, MatrixBlock(i, i, j))
    BY <1>3, <1>7 DEF Part
  <2> DEFINE x == Part(i, Cells, MatrixBlock(i, i, j))
  <2>4. QED
    <3>1. x \in Int
      <4>1. i \in Cells => MatrixBlock(i, i, j) \in Int
        <5>1. i \in Cells => i - 1 \in CoarseNodes /\ i - (i - 1) = 1 /\ j - (i - 1) = 0
          BY <1>1, <1>7, Neighbours
        <5>2. i \in Cells => MatrixBlock(i, i, j) = MatrixIntegral(i, 1, 0)
          BY <1>1, <1>2, <1>7, <5>1 DEF M
        <5>3. QED BY <5>2, Integrals DEF Inner
      <4>2. QED BY <4>1 DEF Part
    <3> HIDE DEF x
    <3>2. x + 0 = 0 + x
      BY <3>1
    <3>3. QED BY <2>1, <2>2, <2>3, <3>2 DEF x
<1>8. CASE i # j /\ j # i + 1 /\ i # j + 1
  <2>1. \A c \in Cells : MatrixBlock(c, i, j) = 0 /\ MatrixBlock(c, j, i) = 0
    <3> SUFFICES ASSUME NEW c \in Cells PROVE MatrixBlock(c, i, j) = 0 /\ MatrixBlock(c, j, i) = 0
      OBVIOUS
    <3>1. c \in Int
      BY CellRange
    <3>2. ~(i \in {c - 1, c} /\ j \in {c - 1, c})
      BY <1>1, <1>8, <3>1
    <3>3. QED BY <1>3, <1>4, <3>2
  <2>2. Entry(Cells, i, j) = 0 + 0 /\ Entry(Cells, j, i) = 0 + 0
    BY <2>1 DEF Entry, Part
  <2>3. QED BY <2>2
<1>9. QED BY <1>5, <1>6, <1>7, <1>8

\* The assembled coarse operator is symmetric and maps constants to zero.
LEMMA AssembledIsDiffusion ==
  ASSUME GalerkinInv, CellsInv, pc = "assemble", todo = {}
  PROVE  /\ \A i, j \in CoarseNodes : matrix[i][j] = matrix[j][i]
         /\ \A i \in CoarseNodes : Total(matrix[i], CoarseNodes) = 0
<1>1. /\ Data /\ SystemType /\ Assembled /\ matrix \in [CoarseNodes -> [CoarseNodes -> Field]]
      /\ \A c \in Cells : LocalFits(c)
  BY DEF GalerkinInv, CellsInv
<1>2. Walked = Cells
  BY DEF Walked
<1>3. ASSUME NEW i \in CoarseNodes, NEW j \in CoarseNodes PROVE matrix[i][j] = matrix[j][i]
  <2> DEFINE x == matrix[i][j]
             y == matrix[j][i]
             z == Entry(Cells, i, j)
  <2>1. x \in Field /\ y \in Field /\ x \in Int /\ y \in Int
    BY <1>1, FieldInt
  <2>2. Div(x - z) /\ Div(y - z) /\ z \in Int
    BY <1>1, <1>2, EntriesSymmetric, EntryInt DEF Assembled
  <2> HIDE DEF x, y, z
  <2>3. Eq(x, z) /\ Eq(y, z)
    BY <2>1, <2>2 DEF Eq
  <2>4. x = y
    BY <2>1, <2>3, EqSym, EqTrans, EqField
  <2>5. QED BY <2>4 DEF x, y
<1>4. ASSUME NEW i \in CoarseNodes PROVE Total(matrix[i], CoarseNodes) = 0
  <2> DEFINE r == matrix[i]
  <2>1. Eq(Total(r, CoarseNodes), 0)
    BY <1>1, RowsAddUp
  <2>2. Ints(r, CoarseNodes)
    BY <1>1, FieldInt DEF Ints
  <2>3. CoarseNodes \subseteq Nat
    BY Neighbours
  <2> HIDE DEF r
  <2>4. Total(r, CoarseNodes) \in Field
    BY <2>2, <2>3, TotalSums
  <2>5. Total(r, CoarseNodes) = 0
    BY <2>1, <2>4, FieldInt, EqField
  <2>6. QED BY <2>5 DEF r
<1>5. QED BY <1>3, <1>4

\* A local grid with a free border.
LEMMA FreeIsOpen ==
  ASSUME Data, SystemType
  PROVE  (\E c \in Cells : Cardinality(LocalBorder(c)) < 2) <=> ~Closed
<1>1. layers \in Nat /\ 1 \in Cells
  BY Sizes DEF Data, Cells
<1>2. \A c \in Cells : Closed <=> ~(Cardinality(LocalBorder(c)) < 2)
  BY <1>1, BorderIs
<1>3. QED BY <1>1, <1>2

\* What needs neither hypothesis of DiffusionOperatorHolds below: the operator
\* that coarse_scale_operator.cc assembles is symmetric and zero on constants in
\* any order of the walk, and no coarse solve succeeds with a free border.
THEOREM OperatorOfDiffusion ==
  ComparedSpec => [](/\ pc = "assemble" /\ todo = {} =>
                          /\ \A i, j \in CoarseNodes : matrix[i][j] = matrix[j][i]
                          /\ \A i \in CoarseNodes : Total(matrix[i], CoarseNodes) = 0
                     /\ pc \in {"identify", "done"} => \A c \in Cells : ~(Cardinality(LocalBorder(c)) < 2))
<1> DEFINE free == \E c \in Cells : Cardinality(LocalBorder(c)) < 2
           A == pc = "assemble" /\ todo = {} =>
                  /\ \A i, j \in CoarseNodes : matrix[i][j] = matrix[j][i]
                  /\ \A i \in CoarseNodes : Total(matrix[i], CoarseNodes) = 0
           B == pc \in {"identify", "done"} => \A c \in Cells : ~(Cardinality(LocalBorder(c)) < 2)
<1>1. GalerkinInv /\ CellsInv => A
  BY AssembledIsDiffusion
<1>2. GalerkinInv /\ CellsInv => B
  <2>1. GalerkinInv => (free <=> ~Closed)
    BY FreeIsOpen DEF GalerkinInv
  <2>2. CellsInv /\ pc \in {"identify", "done"} => Closed
    BY DEF CellsInv, Identified
  <2>3. QED BY <2>1, <2>2
<1>3. GalerkinInv /\ CellsInv => A /\ B
  BY <1>1, <1>2
<1>4. QED BY <1>3, SystemsFit, CellsFit, PTL

\* A product is zero if a factor is.
LEMMA NoZeroDivisor ==
  ASSUME NEW x \in Int, NEW y \in Int, Eq(x * y, 0), ~Eq(x, 0)
  PROVE  Eq(y, 0)
<1> DEFINE z == x % P
           r == Reciprocal(z)
           o == 0
<1>1. z \in Field /\ z \in Int /\ Eq(z, x)
  BY EqMod
<1>2. z # 0
  BY <1>1, EqSym
<1> HIDE DEF z
<1>3. r \in Int /\ Eq(z * r, 1)
  BY <1>1, <1>2, Reciprocals
<1> HIDE DEF r
<1>4. Eq(x, z) /\ Eq(r, r) /\ Eq(y, y)
  BY <1>1, <1>3, EqSym, EqRefl
<1>5. Eq(x * r, 1)
  <2>1. Eq(x * r, z * r)
    BY <1>4, EqTimes
  <2>2. QED BY <1>3, <2>1, EqTrans
<1> DEFINE p == x * r
           q == x * y
           one == 1
<1>6. Eq(p, one) /\ Eq(q, o) /\ p \in Int /\ q \in Int /\ one \in Int /\ o \in Int /\ Eq(r, r) /\ Eq(y, y)
  BY <1>3, <1>4, <1>5
<1>7. p * y = q * r
  BY <1>3
<1>8. one * y = y /\ o * r = o
  BY <1>3
<1> HIDE DEF p, q, one, o
<1>9. Eq(p * y, one * y) /\ Eq(q * r, o * r)
  BY <1>6, EqTimes
<1>10. Eq(y, o)
  BY <1>7, <1>8, <1>9, EqSym, EqTrans
<1>11. QED BY <1>10 DEF o

\* The difference of a flux J over a resistance s.
LEMMA FluxOver ==
  ASSUME NEW c \in Int, NEW s \in Int, NEW x \in Int, NEW J \in Int, Eq(c * s, 1), Eq(c * x, J)
  PROVE  Eq(x, J * s)
<1> DEFINE one == 1
           p == c * s
           w == c * x
<1>1. Eq(p, one) /\ Eq(w, J) /\ p * x = w * s /\ one * x = x
  OBVIOUS
<1>2. Eq(x, x) /\ Eq(s, s)
  BY EqRefl
<1> HIDE DEF one, p, w
<1>3. Eq(p * x, one * x) /\ Eq(w * s, J * s)
  BY <1>1, <1>2, EqTimes
<1>4. QED BY <1>1, <1>3, EqSym, EqTrans

\* How far a function with steady flux J rises, from the resistances g.
LEMMA SteadyRise ==
  ASSUME NEW a \in Nat, NEW b \in Nat, a <= b, b <= Size, NEW es, es = {n \in Nat : a < n /\ n <= b},
         NEW u, \A n \in a .. b : u[n] \in Int, NEW J \in Int, NEW g, Ints(g, es),
         \A e \in es : Eq(u[e] - u[e - 1], J * g[e])
  PROVE  Eq(u[b] - u[a], J * Total(g, es))
<1> DEFINE h == [e \in es |-> u[e] - u[e - 1]]
           G == [n \in Nat |-> IF n \in a .. b THEN u[n] ELSE 0]
           T == Total(h, es)
<1>1. es \subseteq Nat /\ \A e \in es : e \in a .. b /\ e - 1 \in a .. b
  OBVIOUS
<1>2. \A e \in es : h[e] \in Int /\ h[e] = u[e] - u[e - 1]
  BY <1>1
<1>3. Ints(h, es)
  BY <1>2 DEF Ints
<1>4. G \in [Nat -> Int]
  OBVIOUS
<1>5. \A e \in es : G[e] = u[e] /\ G[e - 1] = u[e - 1]
  BY <1>1
<1>6. G[b] = u[b] /\ G[a] = u[a] /\ u[b] \in Int /\ u[a] \in Int
  OBVIOUS
<1> HIDE DEF h, G
<1>7. \A e \in es : Div(G[e] - G[e - 1] - h[e])
  <2> SUFFICES ASSUME NEW e \in es PROVE Div(G[e] - G[e - 1] - h[e])
    OBVIOUS
  <2>1. G[e] - G[e - 1] - h[e] = 0
    BY <1>2, <1>5
  <2>2. QED BY <2>1, DivZero
<1>8. Div(T - (G[b] - G[a])) /\ T \in Int
  BY <1>1, <1>3, <1>4, <1>7, TotalTelescopes, TotalSums
<1>9. Eq(T, J * Total(g, es))
  <2>1. \A e \in es : Eq(h[e], J * g[e])
    BY <1>2
  <2>2. QED BY <1>1, <2>1, SumScaled
<1>10. Eq(T, u[b] - u[a])
  BY <1>6, <1>8 DEF Eq
<1>11. QED BY <1>9, <1>10, EqSym, EqTrans

\* A row of cells with conductances K and resistances g between the nodes l
\* and r, and a function on it that has no source, and is zero in the nodes D.
Chain(K, g, es, l, r) ==
  /\ K \in [Entities -> Int] /\ l \in Nat /\ r \in Nat /\ l < r /\ r <= Size
  /\ es = {n \in Nat : l < n /\ n <= r}
  /\ Ints(g, es) /\ \A e \in es : Eq(K[e] * g[e], 1)
Steady(K, es, d, D, l, r) ==
  /\ d \in [Nodes -> Int] /\ D \subseteq {l, r} /\ D # {}
  /\ \A n \in l .. r : IF n \in D THEN Eq(d[n], 0) ELSE Eq(Fall(K, es, d, n), 0)

\* What a fixed end and no source leave: nothing, if a flux between two fixed
\* ends would have to overcome some resistance.  The nodes are those of a local
\* grid or of the coarse grid.
LEMMA ChainKernel ==
  ASSUME NEW K, NEW g, NEW es, NEW l, NEW r, Chain(K, g, es, l, r),
         NEW d, NEW D, Steady(K, es, d, D, l, r),
         D = {l, r} => ~Eq(Total(g, es), 0)
  PROVE  \A n \in l .. r : Eq(d[n], 0)
<1> DEFINE a == l + 1
           q(e) == K[e] * (d[e] - d[e - 1])
           J == q(a)
<1> USE DEF Chain, Steady
<1>1. /\ l .. r \subseteq Nodes /\ es \subseteq Entities /\ es \subseteq Nat
      /\ a \in es /\ a - 1 = l /\ r \in es /\ r + 1 \notin es /\ l \notin es
      /\ \A e \in es : e \in Nodes /\ e - 1 \in Nodes /\ e \in l .. r /\ e - 1 \in l .. r
  <2>1. l .. r \subseteq Nodes /\ es \subseteq Entities
    BY Grid, Sizes
  <2>2. /\ es \subseteq Nat /\ a \in es /\ a - 1 = l /\ r \in es /\ r + 1 \notin es /\ l \notin es
        /\ \A e \in es : e \in l .. r /\ e - 1 \in l .. r
    OBVIOUS
  <2>3. QED BY <2>1, <2>2
<1>2. \A e \in es : q(e) \in Int
  BY <1>1
<1>3. \A e \in es : Eq(q(e), J)
  <2> SUFFICES ASSUME NEW e \in es PROVE Eq(q(e), J)
    OBVIOUS
  <2>1. \A n \in Nat : l < n /\ n < r => Eq(Fall(K, es, d, n), 0)
    <3> SUFFICES ASSUME NEW n \in Nat, l < n, n < r PROVE Eq(Fall(K, es, d, n), 0)
      OBVIOUS
    <3>1. n \in l .. r /\ n \notin D
      OBVIOUS
    <3>2. QED BY <3>1
  <2>2. Eq(K[e] * (d[e] - d[e - 1]), K[l + 1] * (d[l + 1] - d[l]))
    BY <2>1, SameFlux
  <2>3. QED BY <1>1, <2>2
<1>4. J \in Int
  BY <1>1, <1>2
<1>5. \A e \in es : Eq(d[e] - d[e - 1], J * g[e])
  <2> SUFFICES ASSUME NEW e \in es PROVE Eq(d[e] - d[e - 1], J * g[e])
    OBVIOUS
  <2> DEFINE c == K[e]
             x == d[e] - d[e - 1]
             s == g[e]
  <2>1. c \in Int /\ x \in Int /\ s \in Int /\ Eq(c * s, 1) /\ Eq(c * x, J)
    BY <1>1, <1>3 DEF Ints
  <2> HIDE DEF c, x, s, J
  <2>2. Eq(x, J * s)
    BY <1>4, <2>1, FluxOver
  <2>3. QED BY <2>2 DEF x, s
<1> HIDE DEF J, a
<1>6. ASSUME NEW m \in Nat, NEW n \in Nat, l <= m, m <= n, n <= r
      PROVE  /\ d[m] \in Int /\ d[n] \in Int
             /\ \E T \in Int : Eq(d[n] - d[m], J * T)
             /\ m = l /\ n = r => Eq(d[n] - d[m], J * Total(g, es))
  <2> DEFINE fs == {e \in Nat : m < e /\ e <= n}
  <2>1. fs \subseteq es /\ fs \subseteq Nat /\ m .. n \subseteq l .. r /\ n <= Size
    <3>1. \A e \in fs : e \in es
      BY <1>6
    <3>2. \A j \in m .. n : j \in l .. r
      BY <1>6
    <3>3. n <= Size /\ fs \subseteq Nat
      BY <1>6, Sizes
    <3>4. QED BY <3>1, <3>2, <3>3
  <2>2. \A e \in fs : e \in es
    BY <2>1
  <2>3. m \in m .. n /\ n \in m .. n /\ (m = l /\ n = r => fs = es)
    BY <1>6
  <2>4. fs = {e \in Nat : m < e /\ e <= n}
    OBVIOUS
  <2> HIDE DEF fs
  <2>5. Ints(g, fs) /\ \A e \in fs : Eq(d[e] - d[e - 1], J * g[e])
    BY <1>5, <2>2 DEF Ints
  <2>6. \A j \in m .. n : d[j] \in Int
    BY <1>1, <2>1
  <2>7. Eq(d[n] - d[m], J * Total(g, fs))
    BY <1>4, <1>6, <2>1, <2>4, <2>5, <2>6, SteadyRise
  <2>8. Total(g, fs) \in Int
    BY <2>1, <2>5, TotalSums
  <2>9. QED BY <2>3, <2>6, <2>7, <2>8
<1>7. l \in l .. r /\ r \in l .. r
  OBVIOUS
<1>8. Eq(J, 0)
  <2>1. CASE l \notin D
    <3>1. Eq(Fall(K, es, d, l), 0)
      BY <1>7, <2>1
    <3>2. Fall(K, es, d, l) = 0 - J
      BY <1>1 DEF Fall, Part, J, a
    <3>3. 0 - (0 - J) = J /\ 0 - 0 = 0
      BY <1>4
    <3> DEFINE o == 0
    <3>4. Eq(o, o) /\ Eq(o - J, o) /\ o - (o - J) = J /\ o - o = o
      BY <3>1, <3>2, <3>3, EqRefl
    <3> HIDE DEF o
    <3>5. Eq(o - (o - J), o - o)
      BY <3>4, EqSum
    <3>6. Eq(J, o)
      BY <3>4, <3>5
    <3>7. QED BY <3>6 DEF o
  <2>2. CASE r \notin D
    <3>1. Eq(Fall(K, es, d, r), 0)
      BY <1>7, <2>2
    <3>2. Fall(K, es, d, r) = q(r) - 0
      BY <1>1 DEF Fall, Part
    <3>3. q(r) \in Int /\ Eq(q(r), J)
      BY <1>1, <1>2, <1>3
    <3> HIDE DEF q
    <3>4. q(r) - 0 = q(r)
      BY <3>3
    <3>5. Eq(q(r), 0)
      BY <3>1, <3>2, <3>4
    <3>6. QED BY <3>3, <3>5, EqSym, EqTrans
  <2>3. CASE D = {l, r}
    <3> DEFINE T == Total(g, es)
    <3>1. ~Eq(T, 0) /\ T \in Int
      BY <1>1, <2>3, TotalSums
    <3>2. Eq(d[l], 0) /\ Eq(d[r], 0)
      BY <1>7, <2>3
    <3>3. Eq(d[r] - d[l], J * T) /\ d[l] \in Int /\ d[r] \in Int
      BY <1>6
    <3> HIDE DEF T
    <3> DEFINE o == 0
    <3>4. Eq(d[r], o) /\ Eq(d[l], o) /\ o - o = o
      BY <3>2
    <3> HIDE DEF o
    <3>5. Eq(d[r] - d[l], o)
      <4>1. Eq(d[r] - d[l], o - o)
        BY <3>4, EqSum
      <4>2. QED BY <3>4, <4>1
    <3>6. Eq(J * T, o)
      BY <3>3, <3>5, EqSym, EqTrans
    <3>7. T * J = J * T
      BY <1>4, <3>1
    <3>8. Eq(T * J, 0)
      BY <3>6, <3>7 DEF o
    <3>9. QED BY <1>4, <3>1, <3>8, NoZeroDivisor
  <2>4. QED BY <2>1, <2>2, <2>3
<1>9. ASSUME NEW m \in Nat, NEW n \in Nat, l <= m, m <= n, n <= r
      PROVE  Eq(d[n] - d[m], 0) /\ d[m] \in Int /\ d[n] \in Int
  <2>1. PICK T \in Int : Eq(d[n] - d[m], J * T)
    BY <1>6, <1>9
  <2> DEFINE o == 0
  <2>2. Eq(J, o) /\ o * T = o /\ Eq(T, T)
    BY <1>8, EqRefl
  <2> HIDE DEF o
  <2>3. Eq(J * T, o * T)
    BY <2>2, EqTimes
  <2>4. Eq(d[n] - d[m], o)
    BY <2>1, <2>2, <2>3, EqTrans
  <2>5. d[m] \in Int /\ d[n] \in Int
    BY <1>6, <1>9
  <2>6. QED BY <2>4, <2>5 DEF o
<1>10. SUFFICES ASSUME NEW n \in l .. r PROVE Eq(d[n], 0)
  OBVIOUS
<1> DEFINE o == 0
<1>11. CASE l \in D
  <2>1. Eq(d[n] - d[l], 0) /\ d[n] \in Int /\ d[l] \in Int
    BY <1>9
  <2>2. Eq(d[l], o) /\ Eq(d[n] - d[l], o) /\ o + o = o /\ (d[n] - d[l]) + d[l] = d[n]
    BY <1>7, <1>11, <2>1
  <2> HIDE DEF o
  <2>3. Eq((d[n] - d[l]) + d[l], o + o)
    BY <2>2, EqSum
  <2>4. Eq(d[n], o)
    BY <2>2, <2>3
  <2>5. QED BY <2>4 DEF o
<1>12. CASE r \in D
  <2>1. Eq(d[r] - d[n], 0) /\ d[n] \in Int /\ d[r] \in Int
    BY <1>9
  <2>2. Eq(d[r], o) /\ Eq(d[r] - d[n], o) /\ o - o = o /\ d[r] - (d[r] - d[n]) = d[n]
    BY <1>7, <1>12, <2>1
  <2> HIDE DEF o
  <2>3. Eq(d[r] - (d[r] - d[n]), o - o)
    BY <2>2, EqSum
  <2>4. Eq(d[n], o)
    BY <2>2, <2>3
  <2>5. QED BY <2>4 DEF o
<1>13. QED BY <1>11, <1>12

\* The local systems are systems over the field.
LEMMA LocalSystem ==
  ASSUME Data, SystemType, NEW c \in Cells, NEW s \in Slots
  PROVE  /\ AssembledMatrix(c) \in [Around(c) -> [Around(c) -> Field]]
         /\ AssembledRhs(c, s) \in [Around(c) -> Field]
<1> DEFINE S == Around(c)
           es == Patch(c)
<1>1. S \subseteq Nodes /\ es \subseteq Entities /\ es \subseteq Nat
  <2>1. S \subseteq Nodes /\ es \subseteq Entities
    BY PatchIs DEF Data
  <2> HIDE DEF S, es
  <2>2. QED BY <2>1, Grid
<1>2. \A n \in Nodes : Hat(n) \in [Nodes -> Int]
  BY DEF Hat
<1>3. \A m, n \in Nodes : LocalMatrix(c)[m][n] \in Field
  <2> SUFFICES ASSUME NEW m \in Nodes, NEW n \in Nodes PROVE LocalMatrix(c)[m][n] \in Field
    OBVIOUS
  <2> DEFINE h == [e \in es |-> Energy(k, Hat(m), Hat(n), e)]
  <2>1. LocalMatrix(c)[m][n] = Total(h, es)
    BY DEF LocalMatrix
  <2>2. Ints(h, es)
    BY <1>1, <1>2, EnergyInt DEF Ints, Data
  <2> HIDE DEF h, es
  <2>3. QED BY <1>1, <2>1, <2>2, TotalSums
<1>4. ASSUME NEW v \in [Nodes -> Int], NEW n \in Nodes PROVE MinusEnergy(c, v, n) \in Field
  <2> DEFINE h == [e \in es |-> 0 - Energy(k, v, Hat(n), e)]
  <2>1. MinusEnergy(c, v, n) = Total(h, es)
    BY DEF MinusEnergy
  <2>2. \A e \in es : Energy(k, v, Hat(n), e) \in Int
    BY <1>1, <1>2, EnergyInt DEF Data
  <2>3. Ints(h, es)
    BY <2>2 DEF Ints
  <2> HIDE DEF h, es
  <2>4. QED BY <1>1, <2>1, <2>3, TotalSums
<1>5. ASSUME NEW n \in Nodes PROVE LocalRhs(c, s)[n] \in Field
  <2>1. CASE s \in Inner
    <3>1. CoarseBasis(c, s) \in [Nodes -> Int]
      BY <2>1, CoarseBasisIs
    <3>2. LocalRhs(c, s)[n] = MinusEnergy(c, CoarseBasis(c, s), n)
      BY <2>1 DEF LocalRhs, CoarseBasisProduct
    <3>3. QED BY <1>4, <3>1, <3>2
  <2>2. CASE s \notin Inner
    <3>1. LocalRhs(c, s)[n] = BoundaryProduct(c, s, n)
      BY <2>2 DEF LocalRhs
    <3>2. n \in Ends => boundary.neumann[n] \in Field
      BY DEF SystemType
    <3>3. DirichletProduct(c, n) \in Field
      <4> DEFINE z == [i \in CoarseNodes |-> 0]
                 u == Projected(Cells, z)
      <4>1. \A i \in CoarseNodes : u[i] \in Int
        <5> SUFFICES ASSUME NEW i \in CoarseNodes PROVE u[i] \in Int
          OBVIOUS
        <5>1. i \in DirichletNodes => boundary.value[At(i)] \in Field
          BY DEF DirichletNodes, SystemType
        <5>2. (u[i] = boundary.value[At(i)] /\ i \in DirichletNodes) \/ u[i] = 0
          BY DEF Projected
        <5>3. QED BY <5>1, <5>2, FieldInt
      <4>2. u \in [CoarseNodes -> Int]
        BY <4>1 DEF Projected
      <4>3. DirichletProduct(c, n) = MinusEnergy(c, Prolonged(u), n)
        BY DEF DirichletProduct
      <4> HIDE DEF u
      <4>4. QED BY <1>4, <4>2, <4>3, ProlongedInt
    <3>4. QED BY <3>1, <3>2, <3>3, FieldInt DEF BoundaryProduct
  <2>3. QED BY <2>1, <2>2
<1>6. AssembledMatrix(c) \in [S -> [S -> Field]]
  <2>1. AssembledMatrix(c) = [i \in S |-> [j \in S |-> IF i \notin LocalBorder(c) THEN LocalMatrix(c)[i][j]
                                                       ELSE IF i = j THEN 1 ELSE 0]]
    BY DEF AssembledMatrix, ConstrainedMatrix, Around
  <2> HIDE DEF S
  <2>2. QED BY <1>1, <1>3, <2>1, FieldInt
<1>7. AssembledRhs(c, s) \in [S -> Field]
  <2>1. AssembledRhs(c, s) = [i \in S |-> IF i \in LocalBorder(c) THEN 0 ELSE LocalRhs(c, s)[i]]
    BY DEF AssembledRhs, ConstrainedVector, Around
  <2> HIDE DEF S
  <2>2. QED BY <1>1, <1>5, <2>1, FieldInt
<1>8. QED BY <1>6, <1>7

---------------------------------------------------------------------------
(* When a run succeeds                                                     *)

\* What the linear solver is used for: it solves a system whose matrix makes
\* nothing but zero zero.
SolverSolves ==
  \A S \in SUBSET Nodes : \A A \in [S -> [S -> Field]], b \in [S -> Field] :
    (\A x \in [S -> Field] : (\A i \in S : Apply(A, x, S)[i] = 0) => \A i \in S : x[i] = 0)
      => Solves(A, b, S)

\* The resistance of a row of micro cells, the length of a local grid, and the
\* resistance of a cell between the
\* coarse shape functions: the reciprocal of its entry in the coarse matrix.
Resistance(es) == Total([e \in es |-> Reciprocal(k[e])], es)
Length(c) == Right(c) - Left(c)
CellResistance(c) ==
  Resistance(Patch(c)) * Resistance(Patch(c)) * Micro * Micro
    * Reciprocal((Length(c) * Length(c) * Resistance(Micros(c))) % P)

\* Over the reals these resistances are positive because the coefficients are, and
\* there is nothing to assume.  In the field that takes the place of the reals
\* they must not be multiples of P: that is all the problem has to fulfil.
Definite ==
  /\ \A c \in Cells : Resistance(Patch(c)) # 0 /\ (Length(c) * Length(c) * Resistance(Micros(c))) % P # 0
  /\ Total([c \in Cells |-> CellResistance(c)], Cells) # 0

\* The reciprocal coefficients are such.
LEMMA ReciprocalCoefficients ==
  ASSUME k \in [Entities -> 1 .. P - 1], NEW es, es \subseteq Entities
  PROVE  LET g == [e \in es |-> Reciprocal(k[e])]
         IN /\ Ints(g, es) /\ \A e \in es : Eq(k[e] * g[e], 1)
            /\ Resistance(es) = Total(g, es) /\ Resistance(es) \in Field /\ Resistance(es) \in Int
<1> DEFINE g == [e \in es |-> Reciprocal(k[e])]
<1>1. \A e \in es : Reciprocal(k[e]) \in Int /\ Eq(k[e] * Reciprocal(k[e]), 1)
  <2> SUFFICES ASSUME NEW e \in es PROVE Reciprocal(k[e]) \in Int /\ Eq(k[e] * Reciprocal(k[e]), 1)
    OBVIOUS
  <2> DEFINE x == k[e]
  <2>1. x \in 1 .. P - 1
    OBVIOUS
  <2>2. x \in Field /\ x # 0
    BY <2>1, Sizes DEF Field
  <2> HIDE DEF x
  <2>3. Reciprocal(x) \in Int /\ Eq(x * Reciprocal(x), 1)
    BY <2>2, Reciprocals
  <2>4. QED BY <2>3 DEF x
<1>2. Ints(g, es) /\ \A e \in es : Eq(k[e] * g[e], 1)
  BY <1>1 DEF Ints
<1>3. Resistance(es) = Total(g, es)
  BY DEF Resistance
<1>4. es \subseteq Nat
  BY Grid
<1> HIDE DEF g
<1>5. Total(g, es) \in Field /\ Total(g, es) \in Int
  BY <1>2, <1>4, TotalSums
<1>6. QED BY <1>2, <1>3, <1>5 DEF g

\* Every local problem has a solution.
LEMMA LocalSolves ==
  ASSUME SolverSolves, Definite, Data, SystemType, k \in [Entities -> 1 .. P - 1],
         NEW c \in Cells, NEW s \in Slots
  PROVE  Solves(AssembledMatrix(c), AssembledRhs(c, s), Around(c))
<1> DEFINE S == Around(c)
           A == AssembledMatrix(c)
           b == AssembledRhs(c, s)
           l == Left(c)
           r == Right(c)
           es == Patch(c)
           D == LocalBorder(c)
           g == [e \in es |-> Reciprocal(k[e])]
           K == k
<1>1. /\ l \in Nat /\ r \in Nat /\ l < r /\ r <= Size /\ es = {n \in Nat : l < n /\ n <= r}
      /\ S = l .. r /\ S \subseteq Nodes /\ es \subseteq Entities
  BY PatchIs DEF Data
<1>2. D \subseteq {l, r} /\ D # {}
  <2>1. D \subseteq {l, r} /\ (D = {l, r} \/ D = {l} \/ D = {r})
    BY BorderIs DEF Data
  <2>2. QED BY <2>1
<1>3. A \in [S -> [S -> Field]] /\ b \in [S -> Field]
  BY LocalSystem
<1>4. Ints(g, es) /\ (\A e \in es : Eq(K[e] * g[e], 1)) /\ Total(g, es) \in Field /\ Total(g, es) # 0
  <2>1. Resistance(es) # 0
    BY DEF Definite
  <2>2. QED BY <1>1, <2>1, ReciprocalCoefficients
<1>5. K \in [Entities -> Int]
  BY DEF Data
<1>6. ASSUME NEW x \in [S -> Field], \A i \in S : Apply(A, x, S)[i] = 0
      PROVE  \A i \in S : x[i] = 0
  <2> DEFINE d == [n \in Nodes |-> IF n \in S THEN x[n] ELSE 0]
  <2>1. d \in [Nodes -> Int] /\ \A n \in S : d[n] = x[n]
    <3> HIDE DEF S
    <3>1. \A n \in S : x[n] \in Int
      BY FieldInt
    <3>2. QED BY <1>1, <3>1
  <2> HIDE DEF d
  <2>2. ASSUME NEW n \in S PROVE IF n \in D THEN Eq(d[n], 0) ELSE Eq(Fall(K, es, d, n), 0)
    <3> DEFINE h == [j \in S |-> A[n][j] * d[j]]
               t == Total(h, S)
    <3>1. n \in D => Eq(t, d[n])
      BY <2>1, LocalRows
    <3>2. n \notin D => Eq(t, Fall(K, es, d, n))
      BY <2>1, LocalRows
    <3>3. h = [j \in S |-> A[n][j] * x[j]]
      <4> HIDE DEF S, A
      <4>1. QED BY <2>1
    <3>4. t = Apply(A, x, S)[n]
      BY <3>3 DEF Apply
    <3>5. t = 0
      BY <1>6, <3>4
    <3> HIDE DEF t
    <3>6. Eq(t, 0)
      BY <3>5, EqRefl
    <3>7. QED BY <3>1, <3>2, <3>6, EqSym, EqTrans
  <2> HIDE DEF g, A, b, l, r, es, D, K, S
  <2>3. ~Eq(Total(g, es), 0)
    BY <1>4, EqField, FieldInt
  <2>4. \A n \in l .. r : IF n \in D THEN Eq(d[n], 0) ELSE Eq(Fall(K, es, d, n), 0)
    BY <1>1, <2>2
  <2>5. Chain(K, g, es, l, r) /\ Steady(K, es, d, D, l, r)
    BY <1>1, <1>2, <1>4, <1>5, <2>1, <2>4 DEF Chain, Steady
  <2>6. \A n \in l .. r : Eq(d[n], 0)
    BY <2>3, <2>5, ChainKernel
  <2>7. \A n \in S : Eq(x[n], 0)
    BY <1>1, <2>1, <2>6
  <2>8. QED BY <2>7, EqField, FieldInt
<1> HIDE DEF A, b, S
<1>7. Solves(A, b, S)
  BY <1>1, <1>3, <1>6 DEF SolverSolves
<1>8. QED BY <1>7 DEF A, b, S

\* A corrected shape function at the ends of its local grid: that of the shape
\* function.
LEMMA PatchEnds ==
  ASSUME Data, SystemType, Closed, NEW c \in Cells, LocalFits(c)
  PROVE  LET u == Reconstruction(c, 0)
         IN /\ u[Left(c)] \in Int /\ u[Right(c)] \in Int /\ Length(c) \in Int
            /\ Eq(u[Right(c)] - u[Left(c)], 0 - Reciprocal(Micro) * Length(c))
<1> DEFINE u == Reconstruction(c, 0)
           l == Left(c)
           r == Right(c)
           b == At(c)
           o == Reciprocal(Micro)
<1>1. LocalBorder(c) = {l, r} /\ l \in Nodes /\ r \in Nodes /\ l \in Int /\ r \in Int /\ b \in Int /\ o \in Int
  <2>1. LocalBorder(c) = {l, r}
    BY BorderIs DEF Data
  <2>2. l \in Nat /\ r \in Nat /\ l < r /\ r <= Size
    BY PatchIs DEF Data
  <2>3. b \in Int /\ o \in Int
    BY CellRange, MicroReciprocal
  <2>4. QED BY <2>1, <2>2, <2>3, Grid, Sizes
<1>2. ASSUME NEW n \in {l, r} PROVE u[n] \in Int /\ Eq(u[n], o * (b - n))
  <2> DEFINE v == CoarseBasis(c, 0)[n]
             w == local[c][0][n]
             t == o * (b - n)
             x == u[n]
  <2>1. /\ u \in [Nodes -> Int] /\ CoarseBasis(c, 0) \in [Nodes -> Int] /\ local[c][0] \in [Nodes -> Int]
        /\ n \in Nodes /\ n \in Int
    BY <1>1, ReconstructionIs, CoarseBasisIs DEF Inner
  <2>2. x \in Int /\ v \in Int /\ w \in Int
    BY <2>1
  <2>3. Div(x - (v + w)) /\ Div(v - o * Distance(c, 0, n))
    BY <2>1, ReconstructionIs, CoarseBasisIs DEF Inner
  <2>4. Distance(c, 0, n) = b - n
    BY DEF Distance
  <2>5. t \in Int
    BY <1>1, <2>1
  <2>6. Eq(w, 0)
    BY <1>1 DEF LocalFits, Fits, Slots
  <2>7. Div(x - (v + w)) /\ Div(v - t)
    BY <2>3, <2>4
  <2> HIDE DEF v, w, x, t
  <2>8. Eq(x, v + w) /\ Eq(v, t)
    BY <2>2, <2>5, <2>7 DEF Eq
  <2>9. Eq(v + w, t + 0) /\ t + 0 = t
    BY <2>5, <2>6, <2>8, EqSum
  <2>10. Eq(x, t)
    BY <2>8, <2>9, EqTrans
  <2>11. QED BY <2>2, <2>10 DEF x, t
<1>3. u[l] \in Int /\ u[r] \in Int /\ Eq(u[r], o * (b - r)) /\ Eq(u[l], o * (b - l))
  BY <1>2
<1>4. Length(c) = r - l /\ Length(c) \in Int
  BY <1>1 DEF Length
<1> DEFINE x == u[l]
           y == u[r]
<1>5. x \in Int /\ y \in Int /\ Eq(y, o * (b - r)) /\ Eq(x, o * (b - l))
  BY <1>3
<1> HIDE DEF l, r, b, o, u, x, y
<1>6. Eq(y - x, o * (b - r) - o * (b - l))
  BY <1>5, EqSum
<1>7. o * (b - r) - o * (b - l) = 0 - o * (r - l)
  <2> DEFINE p == b - r
             q == b - l
             s == r - l
  <2>1. p \in Int /\ q \in Int /\ s \in Int /\ q = p + s
    BY <1>1
  <2> HIDE DEF p, q, s
  <2>2. o * q = o * p + o * s /\ o * p \in Int /\ o * s \in Int
    BY <1>1, <2>1
  <2>3. o * p - o * q = 0 - o * s
    BY <2>2
  <2>4. QED BY <2>3 DEF p, q, s
<1>8. QED BY <1>4, <1>5, <1>6, <1>7 DEF l, r, x, y, u, o

\* The entry of a cell is the reciprocal of its resistance.
LEMMA CellStiffness ==
  ASSUME Data, SystemType, k \in [Entities -> 1 .. P - 1], Closed, Definite, NEW c \in Cells, LocalFits(c)
  PROVE  CellResistance(c) \in Int /\ Eq(MatrixIntegral(c, 0, 0) * CellResistance(c), 1)
<1> DEFINE es == Patch(c)
           S == Micros(c)
           l == Left(c)
           r == Right(c)
           a == At(c - 1)
           b == At(c)
           u == Reconstruction(c, 0)
           X == Resistance(es)
           Y == Resistance(S)
           L == Length(c)
           M == Micro
           m == MatrixIntegral(c, 0, 0)
           g == [e \in es |-> Reciprocal(k[e])]
           h == [e \in S |-> Reciprocal(k[e])]
<1>1. /\ l \in Nat /\ r \in Nat /\ l <= r /\ r <= Size /\ es = {n \in Nat : l < n /\ n <= r}
      /\ es \subseteq Entities /\ S \subseteq es
  BY PatchIs DEF Data
<1>2. /\ a \in Nat /\ b \in Nat /\ a <= b /\ b <= Size /\ S = {n \in Nat : a < n /\ n <= b} /\ S \subseteq Entities
  BY CellRange, Sizes
<1>3. u \in [Nodes -> Int] /\ m \in Int /\ M \in Int
  BY ReconstructionIs, Integrals, Sizes DEF Inner
<1>4. Ints(g, es) /\ (\A e \in es : Eq(k[e] * g[e], 1)) /\ X = Total(g, es) /\ X \in Int
  BY <1>1, ReciprocalCoefficients
<1>5. Ints(h, S) /\ (\A e \in S : h[e] = g[e]) /\ Y = Total(h, S) /\ Y \in Int
  <2>1. \A e \in S : h[e] = g[e]
    BY <1>1
  <2>2. QED BY <1>2, <2>1, ReciprocalCoefficients
<1>6. PICK I \in Int : \A e \in es : Eq(k[e] * (u[e] - u[e - 1]), I)
  BY OneFlux DEF Inner
<1> HIDE DEF g, h, u
<1>7. \A e \in es : Eq(u[e] - u[e - 1], I * g[e])
  <2> SUFFICES ASSUME NEW e \in es PROVE Eq(u[e] - u[e - 1], I * g[e])
    OBVIOUS
  <2> DEFINE q == k[e]
             x == u[e] - u[e - 1]
             s == g[e]
  <2>1. q \in Int /\ x \in Int /\ s \in Int /\ Eq(q * s, 1) /\ Eq(q * x, I)
    <3>1. e \in Entities /\ q \in Int
      BY <1>1 DEF Data
    <3>2. e \in Nodes /\ e - 1 \in Nodes
      BY <3>1, NodesOf
    <3>3. QED BY <1>3, <1>4, <1>6, <3>1, <3>2 DEF Ints
  <2> HIDE DEF q, x, s
  <2>2. Eq(x, I * s)
    BY <2>1, FluxOver
  <2>3. QED BY <2>2 DEF x, s
<1>8. Eq(u[r] - u[l], I * X)
  <2> HIDE DEF l, r, es, X
  <2>1. \A n \in l .. r : u[n] \in Int
    BY <1>1, <1>3, Grid, Sizes
  <2>2. QED BY <1>1, <1>4, <1>7, <2>1, SteadyRise
<1>9. Eq(u[b] - u[a], I * Y)
  <2>1. \A n \in a .. b : u[n] \in Int
    <3> HIDE DEF a, b
    <3>1. QED BY <1>2, <1>3, Grid, Sizes
  <2>2. \A e \in S : Eq(u[e] - u[e - 1], I * h[e])
    <3> HIDE DEF S, es
    <3>1. QED BY <1>1, <1>5, <1>7
  <2> HIDE DEF a, b, S, Y
  <2>3. QED BY <1>2, <1>5, <2>1, <2>2, SteadyRise
<1>10. Eq(m, I * (u[b] - u[a]))
  <2> DEFINE E == [e \in S |-> Energy(k, Reconstruction(c, 0), Reconstruction(c, 0), e)]
  <2>1. m = Total(E, S)
    BY CoveredIsCell DEF MatrixIntegral
  <2>2. \A e \in S : E[e] = Energy(k, u, u, e)
    BY DEF u
  <2>3. \A e \in S : Eq(k[e] * (u[e] - u[e - 1]), I)
    <3> HIDE DEF S, es
    <3>1. QED BY <1>1, <1>6
  <2> HIDE DEF E, m
  <2>4. QED BY <1>3, <2>1, <2>2, <2>3, EnergyOverCell
<1>11. Eq(u[r] - u[l], 0 - Reciprocal(M) * L) /\ L \in Int
  BY PatchEnds DEF u
<1> DEFINE o == Reciprocal(M)
           W == (L * L * Y) % P
           q == Reciprocal(W)
<1>12. o \in Int /\ Eq(M * o, 1)
  <2>1. o \in Int /\ Div(M * o - 1)
    BY MicroReciprocal
  <2> HIDE DEF o, M
  <2>2. M * o \in Int
    BY <1>3, <2>1
  <2>3. QED BY <2>1, <2>2 DEF Eq
<1>13. L * L * Y \in Int /\ W \in Field /\ W \in Int /\ Eq(W, L * L * Y) /\ W # 0
  <2>1. W # 0
    BY DEF Definite
  <2> HIDE DEF L, Y
  <2> DEFINE z == L * L * Y
  <2>2. z \in Int
    BY <1>5, <1>11
  <2>3. W = z % P
    OBVIOUS
  <2> HIDE DEF z, W
  <2>4. W \in Field /\ W \in Int /\ Eq(W, z)
    BY <2>2, <2>3, EqMod
  <2>5. QED BY <2>1, <2>2, <2>4 DEF z
<1>14. CellResistance(c) = X * X * M * M * q
  BY DEF CellResistance
<1> HIDE DEF W, L, Y, X, m, M, o
<1>15. q \in Int /\ Eq(W * q, 1)
  BY <1>13, Reciprocals
<1> HIDE DEF q
<1>16. Eq(m, I * (I * Y))
  <2>1. Eq(I * (u[b] - u[a]), I * (I * Y))
    BY <1>9, EqRefl, EqTimes
  <2>2. QED BY <1>10, <2>1, EqTrans
<1> DEFINE J == I * X
           x == M * J
<1>17. J \in Int /\ x \in Int
  BY <1>3, <1>4
<1>18. Eq(x, 0 - L)
  <2> DEFINE t == 0 - o * L
             one == 1
             n == M * o
  <2>1. Eq(J, t) /\ Eq(M, M) /\ Eq(n, one) /\ Eq(L, L) /\ n \in Int /\ t \in Int
    <3>1. Eq(J, t)
      <4> DEFINE y == u[r] - u[l]
      <4>1. Eq(y, J) /\ Eq(y, t)
        BY <1>8, <1>11 DEF o
      <4> HIDE DEF y, J, t
      <4>2. QED BY <4>1, EqSym, EqTrans
    <3>2. Eq(M, M) /\ Eq(L, L) /\ Eq(n, one)
      BY <1>3, <1>11, <1>12, EqRefl
    <3>3. QED BY <3>1, <3>2 DEF Eq
  <2>2. M * t = 0 - n * L /\ 0 - one * L = 0 - L
    <3> DEFINE s == o * L
    <3>1. s \in Int /\ n * L = M * s /\ t = 0 - s
      BY <1>3, <1>11, <1>12
    <3> HIDE DEF s, t, n
    <3>2. M * (0 - s) = 0 - M * s
      BY <1>3, <3>1
    <3>3. QED BY <1>11, <3>1, <3>2
  <2> HIDE DEF n, t, one, J
  <2>3. Eq(x, M * t) /\ Eq(n * L, one * L)
    BY <2>1, EqTimes
  <2> DEFINE z == 0
  <2>4. z \in Int
    OBVIOUS
  <2> HIDE DEF z
  <2>5. Eq(z - n * L, z - one * L)
    BY <2>3, <2>4, EqRefl, EqSum
  <2>6. Eq(x, 0 - L)
    BY <2>2, <2>3, <2>5, EqTrans DEF z
  <2>7. QED BY <2>6
<1> DEFINE R == X * X * M * M * q
           n == 0 - L
<1>19. R \in Int /\ n \in Int
  BY <1>3, <1>4, <1>11, <1>15
<1>20. Eq(m * R, (I * (I * Y)) * R)
  <2>1. Eq(R, R)
    BY <1>19, EqRefl
  <2> HIDE DEF R
  <2>2. QED BY <1>16, <2>1, EqTimes
<1>21. (I * (I * Y)) * R = (x * x * Y) * q
  BY <1>3, <1>4, <1>5, <1>15
<1> HIDE DEF x, R, J
<1>22. Eq(x, n) /\ Eq(Y, Y) /\ Eq(q, q)
  BY <1>5, <1>15, <1>18, EqRefl
<1> HIDE DEF n
<1>23. Eq(x * x * Y, n * n * Y)
  <2>1. Eq(x * x, n * n)
    BY <1>22, EqTimes
  <2>2. QED BY <1>22, <2>1, EqTimes
<1>24. n * n * Y = L * L * Y
  BY <1>5, <1>11 DEF n
<1>25. Eq((x * x * Y) * q, W * q)
  <2>1. Eq(x * x * Y, W)
    BY <1>13, <1>23, <1>24, EqSym, EqTrans
  <2>2. QED BY <1>22, <2>1, EqTimes
<1>26. Eq(m * R, 1)
  <2>1. Eq(m * R, W * q)
    BY <1>20, <1>21, <1>25, EqTrans
  <2>2. QED BY <1>15, <2>1, EqTrans
<1>27. QED BY <1>14, <1>19, <1>26 DEF m, R

\* The coarse nodes are those of a row of cells with the entries of the cells as
\* conductances.
LEMMA CoarseFall ==
  ASSUME Data, SystemType, \A c \in Cells : LocalFits(c), NEW u \in [CoarseNodes -> Int],
         NEW K, \A c \in Cells : K[c] = MatrixIntegral(c, 0, 0),
         NEW d, \A i \in CoarseNodes : d[i] = u[i],
         NEW i \in CoarseNodes
  PROVE  Eq(Fall(K, Cells, d, i), RowValue(u, i))
<1> DEFINE x == IF i \in Cells THEN K[i] * (d[i] - d[i - 1]) ELSE 0
           y == IF i + 1 \in Cells THEN K[i + 1] * (d[i + 1] - d[i]) ELSE 0
           a == IF i \in Cells THEN u[i - 1] * MatrixIntegral(i, 1, 0) + u[i] * MatrixIntegral(i, 1, 1) ELSE 0
           b == IF i + 1 \in Cells
                THEN u[i] * MatrixIntegral(i + 1, 0, 0) + u[i + 1] * MatrixIntegral(i + 1, 0, 1) ELSE 0
           o == 0
<1>1. ASSUME NEW c \in Cells
      PROVE  LET t == K[c] * (d[c] - d[c - 1])
             IN /\ Eq(u[c - 1] * MatrixIntegral(c, 1, 0) + u[c] * MatrixIntegral(c, 1, 1), t)
                /\ Eq(u[c - 1] * MatrixIntegral(c, 0, 0) + u[c] * MatrixIntegral(c, 0, 1), 0 - t)
  <2> DEFINE m == MatrixIntegral(c, 0, 0)
             n == MatrixIntegral(c, 0, 1)
             p == MatrixIntegral(c, 1, 1)
             v == u[c - 1]
             w == u[c]
             q == 0 - m
             z == 0
  <2>1. m \in Int /\ n \in Int /\ p \in Int /\ MatrixIntegral(c, 1, 0) = n
    BY Integrals DEF Inner
  <2>2. Eq(m + n, z) /\ Eq(n + p, z)
    <3>1. Eq(MatrixIntegral(c, 0, 0) + MatrixIntegral(c, 0, 1), 0)
          /\ Eq(MatrixIntegral(c, 1, 0) + MatrixIntegral(c, 1, 1), 0)
      BY BlockRows DEF Inner
    <3>2. QED BY <2>1, <3>1
  <2>3. v \in Int /\ w \in Int /\ K[c] = m /\ d[c] = w /\ d[c - 1] = v
    BY Dofs
  <2> HIDE DEF m, n, p, v, w
  <2>4. q \in Int /\ z \in Int /\ z - m = q /\ (m + n) - m = n /\ z - q = m /\ (n + p) - n = p
    BY <2>1
  <2> HIDE DEF q, z
  <2>5. Eq(n, q)
    <3>1. Eq((m + n) - m, z - m)
      BY <2>1, <2>2, EqRefl, EqSum
    <3>2. QED BY <2>4, <3>1
  <2>6. Eq(p, m)
    <3>1. Eq((n + p) - n, z - q)
      BY <2>2, <2>5, EqSum
    <3>2. QED BY <2>4, <3>1
  <2>7. Eq(v, v) /\ Eq(w, w) /\ Eq(m, m)
    BY <2>1, <2>3, EqRefl
  <2>8. Eq(v * n, v * q) /\ Eq(w * p, w * m) /\ Eq(v * m, v * m) /\ Eq(w * n, w * q)
    BY <2>5, <2>6, <2>7, EqTimes
  <2>9. Eq(v * n + w * p, v * q + w * m) /\ Eq(v * m + w * n, v * m + w * q)
    BY <2>8, EqSum
  <2>10. v * q + w * m = m * (w - v) /\ v * m + w * q = 0 - m * (w - v)
    BY <2>1, <2>3 DEF q
  <2>11. QED BY <2>1, <2>3, <2>9, <2>10 DEF m, n, p, v, w
<1>2. (i + 1) - 1 = i
  BY Neighbours
<1>3. Eq(a, x)
  <2>1. CASE i \in Cells
    BY <1>1, <2>1
  <2>2. CASE i \notin Cells
    BY <2>2, EqRefl
  <2>3. QED BY <2>1, <2>2
<1>4. Eq(b, 0 - y)
  <2>1. CASE i + 1 \in Cells
    BY <1>1, <1>2, <2>1
  <2>2. CASE i + 1 \notin Cells
    <3>1. b = 0 /\ 0 - y = 0
      BY <2>2
    <3>2. QED BY <3>1, EqRefl
  <2>3. QED BY <2>1, <2>2
<1>5. y \in Int
  <2>1. CASE i + 1 \in Cells
    <3> DEFINE c == i + 1
    <3>1. c \in Cells /\ c \in CoarseNodes
      BY <2>1, Neighbours
    <3> HIDE DEF c
    <3>2. K[c] \in Int
      BY <3>1, Integrals DEF Inner
    <3>3. d[c] \in Int /\ d[i] \in Int
      BY <3>1
    <3>4. QED BY <3>2, <3>3 DEF c
  <2>2. QED BY <2>1
<1>6. Fall(K, Cells, d, i) = x - y
  BY DEF Fall, Part
<1>7. RowValue(u, i) = a + b
  BY DEF RowValue
<1> HIDE DEF x, y, a, b
<1>8. x \in Int /\ x + (0 - y) = x - y
  BY <1>3, <1>5 DEF Eq
<1>9. Eq(a + b, x + (0 - y))
  BY <1>3, <1>4, EqSum
<1>10. QED BY <1>6, <1>7, <1>8, <1>9, EqSym

\* What the constrained coarse rows make zero is zero.
LEMMA CoarseKernel ==
  ASSUME Data, SystemType, k \in [Entities -> 1 .. P - 1], Closed, Definite, \A c \in Cells : LocalFits(c),
         NEW u \in [CoarseNodes -> Int],
         \A i \in CoarseNodes : IF i \in DirichletNodes THEN Eq(u[i], 0) ELSE Eq(RowValue(u, i), 0)
  PROVE  \A i \in CoarseNodes : Eq(u[i], 0)
<1> DEFINE K == [e \in Entities |-> IF e \in Cells THEN MatrixIntegral(e, 0, 0) ELSE 0]
           g == [c \in Cells |-> CellResistance(c)]
           d == [n \in Nodes |-> IF n \in CoarseNodes THEN u[n] ELSE 0]
           D == DirichletNodes
           z == 0
           N == NumCells
<1>1. /\ Cells \subseteq Entities /\ CoarseNodes \subseteq Nodes /\ CoarseNodes = z .. N
      /\ z \in Nat /\ N \in Nat /\ z < N /\ N <= Size /\ Cells = {n \in Nat : z < n /\ n <= N} /\ Cells \subseteq Nat
  BY Sizes, Grid DEF Cells, CoarseNodes
<1>2. \A c \in Cells : MatrixIntegral(c, 0, 0) \in Int
  BY Integrals DEF Inner
<1>3. K \in [Entities -> Int] /\ \A c \in Cells : K[c] = MatrixIntegral(c, 0, 0)
  <2>1. \A e \in Entities : K[e] \in Int
    BY <1>2
  <2>2. K = [e \in Entities |-> K[e]]
    OBVIOUS
  <2>3. \A c \in Cells : K[c] = MatrixIntegral(c, 0, 0)
    BY <1>1
  <2> HIDE DEF K
  <2>4. QED BY <2>1, <2>2, <2>3
<1>4. d \in [Nodes -> Int] /\ \A i \in CoarseNodes : d[i] = u[i]
  BY <1>1
<1>5. Ints(g, Cells) /\ \A c \in Cells : g[c] = CellResistance(c) /\ Eq(MatrixIntegral(c, 0, 0) * g[c], 1)
  BY CellStiffness DEF Ints
<1>6. Total(g, Cells) # 0
  BY DEF Definite
<1> HIDE DEF K, g, d, z, N
<1>7. ~Eq(Total(g, Cells), 0)
  <2>1. Total(g, Cells) \in Field
    BY <1>1, <1>5, TotalSums
  <2>2. QED BY <1>6, <2>1, EqField, FieldInt
<1>8. D \subseteq {z, N} /\ D # {}
  <2>1. D \subseteq {z, N}
    BY CoarseEnds DEF DirichletNodes, SystemType, z, N
  <2>2. 0 \in boundary.dirichlet \/ Size \in boundary.dirichlet
    <3>1. boundary.dirichlet \subseteq {0, Size} /\ boundary.dirichlet # {}
      BY LastEntity DEF SystemType
    <3>2. QED BY <3>1
  <2>3. QED BY <2>1, <2>2, CoarseEnds DEF DirichletNodes
<1>9. Chain(K, g, Cells, z, N)
  <2>1. \A c \in Cells : Eq(K[c] * g[c], 1)
    BY <1>3, <1>5
  <2>2. QED BY <1>1, <1>3, <1>5, <2>1 DEF Chain
<1>10. Steady(K, Cells, d, D, z, N)
  <2>1. ASSUME NEW i \in CoarseNodes PROVE IF i \in D THEN Eq(d[i], 0) ELSE Eq(Fall(K, Cells, d, i), 0)
    <3>1. Eq(Fall(K, Cells, d, i), RowValue(u, i))
      BY <1>3, <1>4, CoarseFall
    <3>2. QED BY <1>4, <3>1, EqTrans
  <2> HIDE DEF D
  <2>2. QED BY <1>1, <1>4, <1>8, <2>1 DEF Steady
<1> HIDE DEF D
<1>11. \A i \in z .. N : Eq(d[i], 0)
  BY <1>7, <1>9, <1>10, ChainKernel
<1>12. QED BY <1>1, <1>4, <1>11

\* The coarse system has a solution.
LEMMA CoarseSolves ==
  ASSUME SolverSolves, Definite, Data, SystemType, Constrained, k \in [Entities -> 1 .. P - 1], Closed,
         \A c \in Cells : LocalFits(c),
         matrix \in [CoarseNodes -> [CoarseNodes -> Field]], rhs \in [CoarseNodes -> Field]
  PROVE  Solves(matrix, rhs, CoarseNodes)
<1> DEFINE S == CoarseNodes
<1>1. S \in SUBSET Nodes
  BY Sizes, Grid DEF CoarseNodes
<1>2. ASSUME NEW x \in [S -> Field], \A i \in S : Apply(matrix, x, S)[i] = 0
      PROVE  \A i \in S : x[i] = 0
  <2>1. x \in [S -> Int]
    <3>1. \A i \in S : x[i] \in Int
      BY FieldInt
    <3>2. QED BY <3>1
  <2>2. ASSUME NEW i \in S PROVE IF i \in DirichletNodes THEN Eq(x[i], 0) ELSE Eq(RowValue(x, i), 0)
    <3> DEFINE t == Total([j \in S |-> matrix[i][j] * x[j]], S)
    <3>1. /\ i \in DirichletNodes => Eq(t, x[i])
          /\ i \notin DirichletNodes => Eq(t, RowValue(x, i))
      BY <2>1, CoarseRows
    <3>2. t = Apply(matrix, x, S)[i]
      BY DEF Apply
    <3>3. t = 0
      BY <1>2, <3>2
    <3> HIDE DEF t
    <3>4. Eq(t, 0)
      BY <3>3, EqRefl
    <3>5. QED BY <3>1, <3>4, EqSym, EqTrans
  <2>3. \A i \in S : Eq(x[i], 0)
    BY <2>1, <2>2, CoarseKernel
  <2>4. QED BY <2>3, EqField, FieldInt
<1> HIDE DEF S
<1>3. QED BY <1>1, <1>2 DEF SolverSolves, S

\* A run whose local grids have no free border does not fail: neither a local
\* solver throws, nor does apply_inverse of the coarse system.
FailsOpen ==
  /\ pc = "solve" => matrix \in [CoarseNodes -> [CoarseNodes -> Field]] /\ rhs \in [CoarseNodes -> Field]
  /\ pc = "thrown" /\ Definite => ~Closed

\* That depends on the problem only.
LEMMA DefiniteKept ==
  ASSUME UNCHANGED data
  PROVE  (Definite' <=> Definite) /\ (Closed' <=> Closed)
<1>1. k' = k /\ layers' = layers /\ (Closed' <=> Closed)
  BY DerivedKept
<1>2. \A es : Resistance(es)' = Resistance(es)
  BY <1>1, Zenon DEF Resistance
<1>3. \A c : Patch(c)' = Patch(c) /\ Length(c)' = Length(c)
  BY <1>1, Zenon DEF Patch, Length, Left, Right
<1>4. \A c : /\ Resistance(Patch(c))' = Resistance(Patch(c))
             /\ Resistance(Micros(c))' = Resistance(Micros(c))
  BY <1>1, <1>3, Zenon DEF Resistance
<1>5. \A c : CellResistance(c)' = CellResistance(c)
  BY <1>3, <1>4, Zenon DEF CellResistance
<1>6. Total([c \in Cells |-> CellResistance(c)], Cells)' = Total([c \in Cells |-> CellResistance(c)], Cells)
  BY <1>5, Zenon
<1>7. QED BY <1>1, <1>3, <1>4, <1>6, Zenon DEF Definite

\* Inductive, given what holds of the coarse system and of the cells.
LEMMA FailsOpenNext ==
  ASSUME SolverSolves
  PROVE  GalerkinInv /\ FemInv /\ CellsInv /\ FailsOpen /\ [ComparedNext]_comparedVars => FailsOpen'
<1> SUFFICES ASSUME GalerkinInv, FemInv, CellsInv, FailsOpen, [ComparedNext]_comparedVars PROVE FailsOpen'
  OBVIOUS
<1>1. Data /\ SystemType /\ k \in [Entities -> 1 .. P - 1]
  BY DEF GalerkinInv, FemInv, FemType, Problem
<1>2. CASE SolveLocal
  <2> DEFINE c == Min(todo)
  <2>1. /\ pc = "local" /\ UNCHANGED data
        /\ ~ (\A s \in Slots : IsSolved(c, s) => Solves(AssembledMatrix(c), AssembledRhs(c, s), Touched(Patch(c))))
             => pc' = "thrown"
        /\ pc' \in {"local", "assemble"} \/ ~ (\A s \in Slots : IsSolved(c, s) =>
             Solves(AssembledMatrix(c), AssembledRhs(c, s), Touched(Patch(c))))
    BY <1>2, Zenon DEF SolveLocal
  <2>2. c \in Cells
    BY <2>1, NextCell DEF CellsInv
  <2> HIDE DEF c
  <2>3. Definite => \A s \in Slots : Solves(AssembledMatrix(c), AssembledRhs(c, s), Touched(Patch(c)))
    BY <1>1, <2>2, LocalSolves DEF Around
  <2>4. Definite' <=> Definite
    BY <2>1, DefiniteKept
  <2>5. Definite => pc' \in {"local", "assemble"}
    BY <2>1, <2>3
  <2>6. pc' # "solve"
    BY <1>2 DEF SolveLocal
  <2>7. QED BY <2>4, <2>5, <2>6 DEF FailsOpen
<1>3. CASE \E c \in Cells : WalkCell(c)
  <2>1. pc' = "assemble"
    BY <1>3 DEF WalkCell
  <2>2. QED BY <2>1 DEF FailsOpen
<1>4. CASE Constrain
  <2>1. /\ pc = "assemble" /\ pc' = "solve"
        /\ rhs' = ConstrainedVector([i \in CoarseNodes |-> (rhs[i] - LiftedValues[i]) % P], DirichletNodes, CoarseNodes)
        /\ matrix' = ConstrainedMatrix(matrix, DirichletNodes, CoarseNodes)
    BY <1>4 DEF Constrain
  <2>2. matrix \in [CoarseNodes -> [CoarseNodes -> Field]]
    BY <2>1 DEF CellsInv
  <2>3. matrix' \in [CoarseNodes -> [CoarseNodes -> Field]]
    BY <2>1, <2>2, FieldInt DEF ConstrainedMatrix
  <2>4. ASSUME NEW i \in CoarseNodes PROVE rhs[i] - LiftedValues[i] \in Int
    <3> DEFINE h == [j \in CoarseNodes |-> matrix[i][j] * shift[j]]
    <3>1. \A j \in CoarseNodes : matrix[i][j] \in Int /\ shift[j] \in Int
      BY <1>1 DEF SystemType
    <3>2. Ints(h, CoarseNodes)
      BY <3>1 DEF Ints
    <3>3. LiftedValues[i] = Total(h, CoarseNodes)
      BY DEF LiftedValues, Apply
    <3>4. CoarseNodes \subseteq Nat
      BY Neighbours
    <3> HIDE DEF h
    <3>5. Total(h, CoarseNodes) \in Int
      BY <3>2, <3>4, TotalSums
    <3>6. rhs[i] \in Int
      BY <1>1 DEF SystemType
    <3>7. QED BY <3>3, <3>5, <3>6
  <2>5. ASSUME NEW i \in CoarseNodes PROVE ((rhs[i] - LiftedValues[i]) % P) \in Field
    <3> DEFINE x == rhs[i] - LiftedValues[i]
    <3>1. x \in Int
      BY <2>4
    <3> HIDE DEF x
    <3>2. x % P \in Field
      BY <3>1, EqMod
    <3>3. QED BY <3>2 DEF x
  <2>6. rhs' \in [CoarseNodes -> Field]
    BY <2>1, <2>5, FieldInt DEF ConstrainedVector
  <2>7. QED BY <2>1, <2>3, <2>6 DEF FailsOpen
<1>5. CASE ApplyInverse
  <2>1. pc = "solve" /\ UNCHANGED data /\ pc' \in {"identify", "thrown"}
        /\ (Solves(matrix, rhs, CoarseNodes) => pc' = "identify")
    BY <1>5 DEF ApplyInverse
  <2>2. Constrained /\ (\A c \in Cells : LocalFits(c))
        /\ matrix \in [CoarseNodes -> [CoarseNodes -> Field]] /\ rhs \in [CoarseNodes -> Field]
    BY <2>1 DEF GalerkinInv, CellsInv, FailsOpen
  <2>3. Definite /\ Closed => Solves(matrix, rhs, CoarseNodes)
    BY <1>1, <2>2, CoarseSolves
  <2>4. (Definite' <=> Definite) /\ (Closed' <=> Closed)
    BY <2>1, DefiniteKept
  <2>5. QED BY <2>1, <2>3, <2>4 DEF FailsOpen
<1>6. CASE IdentifyCell
  <2>1. pc' \in {"identify", "done"}
    BY <1>6 DEF IdentifyCell
  <2>2. QED BY <2>1 DEF FailsOpen
<1>7. CASE UNCHANGED <<data, pc, matrix, rhs>>
  <2>1. (Definite' <=> Definite) /\ (Closed' <=> Closed)
    BY <1>7, DefiniteKept
  <2>2. QED BY <1>7, <2>1 DEF FailsOpen
<1>8. CASE Reference
  <2>1. UNCHANGED <<k, f, boundary>>
    BY <1>8 DEF Reference, Fem!Next, Fem!Begin, Fem!WalkEntity, Fem!Constrain, Fem!Solve, Fem!problem
  <2>2. UNCHANGED <<data, pc, matrix, rhs>>
    BY <1>8, <2>1 DEF Reference, data, system
  <2>3. QED BY <1>7, <2>2
<1>9. CASE UNCHANGED comparedVars
  <2>1. UNCHANGED <<data, pc, matrix, rhs>>
    BY <1>9 DEF comparedVars, vars, system
  <2>2. QED BY <1>7, <2>1
<1>10. QED BY <1>2, <1>3, <1>4, <1>5, <1>6, <1>8, <1>9 DEF ComparedNext, Multiscale, Next

\* With a solver that solves regular systems and no vanishing resistance, a run
\* fails only with a free border of a local grid: on any other problem neither
\* localproblemsolver.cc nor msfem_solver.cc throws.
THEOREM FailsOnlyOpen == ASSUME SolverSolves PROVE ComparedSpec => []FailsOpen
<1>1. ComparedInit => FailsOpen
  BY DEF ComparedInit, Init, FailsOpen
<1>2. GalerkinInv /\ FemInv /\ CellsInv /\ FailsOpen /\ [ComparedNext]_comparedVars => FailsOpen'
  BY FailsOpenNext
<1>3. QED BY <1>1, <1>2, SystemsFit, ReferenceFits, CellsFit, PTL DEF ComparedSpec

\* DiffusionOperator for every grid, coefficient, source, boundary and number of
\* layers, if the solver solves regular systems and no resistance vanishes: the
\* operator of coarse_scale_operator.cc is symmetric and zero on constants, and the
\* run ends with "Coarse solve failed." just where the subBoundaryInfo of
\* spe10.cc:35 or tarbert.cc:25 leaves a border free.
THEOREM DiffusionOperatorHolds == ASSUME SolverSolves PROVE ComparedSpec => [](Definite => DiffusionOperator)
<1>1. GalerkinInv /\ CellsInv /\ FailsOpen => (Definite => DiffusionOperator)
  <2> SUFFICES ASSUME GalerkinInv, CellsInv, FailsOpen, Definite PROVE DiffusionOperator
    OBVIOUS
  <2>1. Data /\ SystemType
    BY DEF GalerkinInv
  <2> DEFINE free == \E c \in Cells : Cardinality(LocalBorder(c)) < 2
  <2>2. free <=> ~Closed
    BY <2>1, FreeIsOpen
  <2>3. pc = "thrown" => ~Closed
    BY DEF FailsOpen
  <2>4. pc \in {"identify", "done"} => Closed
    BY DEF CellsInv, Identified
  <2> HIDE DEF free
  <2>5. (pc = "thrown" => free) /\ (pc \in {"identify", "done"} => ~free)
    BY <2>2, <2>3, <2>4
  <2>6. pc = "assemble" /\ todo = {} =>
          /\ \A i, j \in CoarseNodes : matrix[i][j] = matrix[j][i]
          /\ \A i \in CoarseNodes : Total(matrix[i], CoarseNodes) = 0
    BY AssembledIsDiffusion
  <2>7. QED BY <2>5, <2>6, Zenon DEF DiffusionOperator, free
<1>2. QED BY <1>1, SystemsFit, CellsFit, FailsOnlyOpen, PTL
===============================================================================
