---------------------------- MODULE ModelProblems ----------------------------
(***************************************************************************)
(* What the model problems (problems/) say of the boundary: where there    *)
(* are Dirichlet and where Neumann data, which data, and what the border   *)
(* of a local grid is in the eyes of the local problems.  A face of a box  *)
(* is known by its outer normal, <<direction, sign>>.                      *)
(*                                                                         *)
(* The systems of MultiscaleSystem are those of an interval: a problem's   *)
(* domain between the two faces of one direction.                          *)
(***************************************************************************)
EXTENDS IntervalFem

CONSTANTS
  Configs,     \* bound: the subtrees problem.boundaryInfo a configuration has
  AnyValue     \* bound: the values of an exact solution, [Ends -> Field]

Names == {"Synthetic", "Random", "ER2007", "SPE10", "Tarbert"}
Dimensions(name) == IF name = "SPE10" THEN {3} ELSE {2, 3}
Directions(dim) == 0 .. dim - 1
Normals == (0..2) \X {-1, 1}
Settings == [default : {"dirichlet", "neumann"}, others : SUBSET Normals]

ASSUME ProblemsAssumption == Configs \subseteq Settings /\ AnyValue \in [Ends -> Field]

\* boundary_settings(), without a subtree in the configuration: the kind of
\* most faces, and the normals of the others.
OwnSettings(name, dim) ==
  CASE name = "Synthetic" ->
         [default |-> "dirichlet", others |-> IF dim = 3 THEN {2} \X {-1, 1} ELSE {}]
    [] name = "Random" -> [default |-> "dirichlet", others |-> (1 .. dim - 1) \X {-1, 1}]
    [] name = "ER2007" -> [default |-> "dirichlet", others |-> {}]
    [] name = "SPE10" -> [default |-> "neumann", others |-> {<<1, 1>>}]
    [] name = "Tarbert" -> [default |-> "neumann", others |-> {<<1, IF dim = 2 THEN -1 ELSE 1>>}]

\* ER2007 does not look at the configuration.
BoundarySettings(name, dim) ==
  {OwnSettings(name, dim)} \cup (IF name = "ER2007" THEN {} ELSE Configs)

IsDirichlet(settings, normal) == (settings.default = "dirichlet") # (normal \in settings.others)

\* subBoundaryInfo(): the local problems are fixed on the whole border, or, by
\* the same settings, on the faces that have the normal of a Dirichlet face.
SubBoundaryInfo(name) == IF name \in {"SPE10", "Tarbert"} THEN "NormalBased" ELSE "AllDirichlet"

\* DirichletData and NeumannData at the faces of direction d.
DirichletData(name, d, n) ==
  CASE name = "Random" /\ d = 0 -> IF n = 0 THEN 1 ELSE 0
    [] name \in {"SPE10", "Tarbert"} -> 0
    [] OTHER -> AnyValue[n]
NeumannData(name, d, n) ==
  IF d # 1 \/ n # 0 THEN 0
  ELSE IF name = "SPE10" THEN 1 ELSE IF name = "Tarbert" THEN P - 1 ELSE 0

NormalAt(d, n) == <<d, IF n = 0 THEN -1 ELSE 1>>

BoundaryOf(name, settings, d) ==
  LET fixed == {n \in Ends : IsDirichlet(settings, NormalAt(d, n))}
  IN [value |-> [n \in Ends |-> IF n \in fixed THEN DirichletData(name, d, n) ELSE NeumannData(name, d, n)],
      neumann |-> [n \in Ends |-> NeumannData(name, d, n)],
      dirichlet |-> fixed,
      sub |-> SubBoundaryInfo(name)]

\* All problems, between faces at least one of which is a Dirichlet face.
ProblemBoundaries ==
  {b \in UNION {{BoundaryOf(name, s, d) : s \in BoundarySettings(name, dim), d \in Directions(dim)} :
                  <<name, dim>> \in {nd \in Names \X {2, 3} : nd[2] \in Dimensions(nd[1])}} :
     b.dirichlet # {}}
=============================================================================
