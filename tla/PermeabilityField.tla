-------------------------- MODULE PermeabilityField --------------------------
(***************************************************************************)
(* The random permeability field of all ranks of a communicator            *)
(* (problems/random_permeability.hh): init() and create(), called by every *)
(* rank in the same order, each rank at its own pace.                      *)
(*                                                                         *)
(* create() has a complex field computed by all ranks together, each rank  *)
(* owning a layer of its rows, and then fetches the rows of its own block  *)
(* from the layers of the other ranks with one-sided MPI_Get's between two *)
(* fences.  Nothing but the fences keeps a rank from overwriting its layer *)
(* while others still read it.  One computation serves two calls: the      *)
(* first uses the real part of the field, the second the imaginary part of *)
(* what the first one fetched, without any communication.                  *)
(*                                                                         *)
(* A value of a realization is known by the numbers of coefficient sets    *)
(* every rank had drawn from its random generator for it.                  *)
(***************************************************************************)
EXTENDS Naturals, Sequences, FiniteSets

CONSTANTS
  Procs,   \* the ranks
  Rows,    \* the rows of nodes of the unit square that blocks consist of
  Owner,   \* [Rows -> Procs]: the rank whose layer has the row
  Block,   \* [Procs -> SUBSET Rows]: the rows of a rank's block
  Script   \* the calls every rank makes

\* Call m is the last init among the first n calls.
IsLastInit(m, n) == Script[m] = "init" /\ \A l \in m + 1 .. n : Script[l] # "init"

ASSUME OwnerAssumption == Owner \in [Rows -> Procs]
ASSUME BlockAssumption == Block \in [Procs -> SUBSET Rows]
ASSUME ScriptAssumption ==
  /\ Script \in Seq({"init", "create"})
  /\ \A n \in DOMAIN Script : \E m \in 1 .. n : IsLastInit(m, n)

VARIABLES
  call,    \* the call each rank is in, or has made last
  pc,      \* where a rank is in it
  part,    \* _part: 0 the real, 1 the imaginary part
  draws,   \* coefficient sets drawn from _rand since it was seeded
  layer,   \* _layer: the realization in it, or Noise
  perm,    \* _perm: per row of the block, the realization its values are of
  wanted,  \* rows whose MPI_Get has not been carried out
  joined   \* the collective operations each rank has come to: <<call, which>>

vars == <<call, pc, part, draws, layer, perm, wanted, joined>>

\* Nothing, or coefficients that are not transformed yet.
Noise == << >>

Init ==
  /\ call = [r \in Procs |-> 0]
  /\ pc = [r \in Procs |-> "ready"]
  /\ part = [r \in Procs |-> 1]
  /\ draws = [r \in Procs |-> 0]
  /\ layer = [r \in Procs |-> Noise]
  /\ perm = [r \in Procs |-> [i \in Block[r] |-> Noise]]
  /\ wanted = [r \in Procs |-> {}]
  /\ joined = [r \in Procs |-> {}]

\* Rank r comes to the collective operation op of call n.
Join(r, n, op) == joined' = [joined EXCEPT ![r] = @ \cup {<<n, op>>}]

\* All ranks have come to it.
AllJoined(n, op) == \A q \in Procs : <<n, op>> \in joined[q]

NextCall(r) == Script[call[r] + 1]

\* _part = 1 - _part, and an odd part asks for nothing new.
OtherPart(r) == 1 - part[r]

---------------------------------------------------------------------------
(* init()                                                                  *)

\* Wrong: init leaves the part as it is.
SamePart(r) == part[r]

\* The part init sets.
FirstPart(r) == 1

\* A new object: seeded generator, empty layer and block.
StartInit(r) ==
  /\ pc[r] = "ready"
  /\ call[r] < Len(Script)
  /\ NextCall(r) = "init"
  /\ call' = [call EXCEPT ![r] = @ + 1]
  /\ part' = [part EXCEPT ![r] = FirstPart(r)]
  /\ draws' = [draws EXCEPT ![r] = 0]
  /\ layer' = [layer EXCEPT ![r] = Noise]
  /\ perm' = [perm EXCEPT ![r] = [i \in Block[r] |-> Noise]]
  /\ pc' = [pc EXCEPT ![r] = "setup"]
  /\ Join(r, call[r] + 1, "setup")
  /\ UNCHANGED wanted

\* The forward transform of the basis, which all ranks take part in.
FinishInit(r) ==
  /\ pc[r] = "setup"
  /\ AllJoined(call[r], "setup")
  /\ pc' = [pc EXCEPT ![r] = "ready"]
  /\ UNCHANGED <<call, part, draws, layer, perm, wanted, joined>>

---------------------------------------------------------------------------
(* create()                                                                *)

\* Wrong: a rank that has its rows itself needs nothing from the others.
NeedsOthersRows(r) == OtherPart(r) = 0 /\ \E i \in Block[r] : Owner[i] # r

\* The field is computed for its real part only.
NeedsField(r) == OtherPart(r) = 0

\* The imaginary part of what is there.
UseOtherPart(r) ==
  /\ pc[r] = "ready"
  /\ call[r] < Len(Script)
  /\ NextCall(r) = "create"
  /\ ~NeedsField(r)
  /\ call' = [call EXCEPT ![r] = @ + 1]
  /\ part' = [part EXCEPT ![r] = OtherPart(r)]
  /\ UNCHANGED <<pc, draws, layer, perm, wanted, joined>>

\* A new field: the layer is overwritten with random coefficients.
Draw(r) ==
  /\ pc[r] = "ready"
  /\ call[r] < Len(Script)
  /\ NextCall(r) = "create"
  /\ NeedsField(r)
  /\ call' = [call EXCEPT ![r] = @ + 1]
  /\ part' = [part EXCEPT ![r] = OtherPart(r)]
  /\ draws' = [draws EXCEPT ![r] = @ + 1]
  /\ layer' = [layer EXCEPT ![r] = Noise]
  /\ pc' = [pc EXCEPT ![r] = "ifft"]
  /\ Join(r, call[r] + 1, "ifft")
  /\ UNCHANGED <<perm, wanted>>

\* The inverse transform, which needs the coefficients of all ranks, the
\* exponential, the window, and the fence that opens the epoch; this fence
\* (NOPRECEDE) does not wait.
Transform(r) ==
  /\ pc[r] = "ifft"
  /\ AllJoined(call[r], "ifft")
  /\ layer' = [layer EXCEPT ![r] = draws]
  /\ wanted' = [wanted EXCEPT ![r] = Block[r]]
  /\ pc' = [pc EXCEPT ![r] = "get"]
  /\ Join(r, call[r], "get")
  /\ UNCHANGED <<call, part, draws, perm>>

\* Rank q has opened its window for the call rank r is in.
Exposed(q, r) == <<call[r], "get">> \in joined[q]

\* The MPI_Get of a row is carried out, some time before the closing fence ends.
Get(r, i) ==
  /\ pc[r] \in {"get", "fence"}
  /\ i \in wanted[r]
  /\ Exposed(Owner[i], r)
  /\ perm' = [perm EXCEPT ![r][i] = layer[Owner[i]]]
  /\ wanted' = [wanted EXCEPT ![r] = @ \ {i}]
  /\ UNCHANGED <<call, pc, part, draws, layer, joined>>

\* All gets are issued; the closing fence is called.
CloseEpoch(r) ==
  /\ pc[r] = "get"
  /\ pc' = [pc EXCEPT ![r] = "fence"]
  /\ Join(r, call[r], "fence")
  /\ UNCHANGED <<call, part, draws, layer, perm, wanted>>

\* Wrong: a rank goes on when it has its own rows.
OwnGetsDone(r) == wanted[r] = {}

\* The closing fence completes: all ranks have called it, and the rank's own
\* gets and those of its rows are done.
EpochOver(r) ==
  /\ wanted[r] = {}
  /\ AllJoined(call[r], "fence")
  /\ \A q \in Procs : \A i \in wanted[q] : Owner[i] # r

FinishCreate(r) ==
  /\ pc[r] = "fence"
  /\ EpochOver(r)
  /\ pc' = [pc EXCEPT ![r] = "ready"]
  /\ UNCHANGED <<call, part, draws, layer, perm, wanted, joined>>

---------------------------------------------------------------------------
Next ==
  \/ \E r \in Procs : StartInit(r)
  \/ \E r \in Procs : FinishInit(r)
  \/ \E r \in Procs : UseOtherPart(r)
  \/ \E r \in Procs : Draw(r)
  \/ \E r \in Procs : Transform(r)
  \/ \E r \in Procs, i \in Rows : Get(r, i)
  \/ \E r \in Procs : CloseEpoch(r)
  \/ \E r \in Procs : FinishCreate(r)

Spec == Init /\ [][Next]_vars

\* Every rank goes on with its program, and MPI carries out the gets.
RankStep(r) ==
  \/ StartInit(r) \/ FinishInit(r) \/ UseOtherPart(r) \/ Draw(r) \/ Transform(r)
  \/ CloseEpoch(r) \/ FinishCreate(r)

FairSpec ==
  /\ Spec
  /\ \A r \in Procs : WF_vars(RankStep(r)) /\ \A i \in Block[r] : WF_vars(Get(r, i))

---------------------------------------------------------------------------
Realization == [Procs -> Nat]

\* The type invariant of the field.
TypeOK ==
  /\ call \in [Procs -> 0 .. Len(Script)]
  /\ pc \in [Procs -> {"setup", "ifft", "get", "fence", "ready"}]
  /\ part \in [Procs -> {0, 1}]
  /\ draws \in [Procs -> Nat]
  /\ layer \in [Procs -> Realization \cup {Noise}]
  /\ DOMAIN perm = Procs
  /\ \A r \in Procs : perm[r] \in [Block[r] -> Realization \cup {Noise}]
  /\ wanted \in [Procs -> SUBSET Rows]
  /\ joined \in [Procs -> SUBSET ((1 .. Len(Script)) \X {"setup", "ifft", "get", "fence"})]

\* The creates since the last init among the first n calls.
LastInit(n) == CHOOSE m \in 1 .. n : IsLastInit(m, n)
Created(n) == IF n = 0 THEN 0 ELSE n - LastInit(n)

\* The realization, and the part of it, the c-th create after an init gives.
Expected(c) == [q \in Procs |-> (c + 1) \div 2]
ExpectedPart(c) == 1 - (c % 2)

\* After the c-th create since an init a rank evaluates one whole field, in
\* every row of its block: the one c alone determines, whatever the pace of
\* the ranks, and the same one after every init (test/compare_msfem.cc runs the
\* algorithm twice and expects equal errors).
FieldIsWhole ==
  \A r \in Procs : pc[r] = "ready" =>
    LET c == Created(call[r]) IN
      /\ part[r] = ExpectedPart(c)
      /\ c > 0 => \A i \in Block[r] : perm[r][i] = Expected(c)

\* No layer is written while a rank may read it: a get that can be carried
\* out finds the field of the call it belongs to.
GetsReadTheirField ==
  \A r \in Procs : \A i \in wanted[r] :
    Exposed(Owner[i], r) => layer[Owner[i]] = Expected(Created(call[r]))

\* Every rank comes to the end of its calls: no rank waits for ever in a
\* collective operation or a fence.
ScriptEnds == <>(\A r \in Procs : call[r] = Len(Script) /\ pc[r] = "ready")
=============================================================================
