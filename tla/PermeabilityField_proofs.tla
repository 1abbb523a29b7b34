---------------------- MODULE PermeabilityField_proofs ----------------------
(***************************************************************************)
(* Proofs about PermeabilityField, for every set of ranks, distribution of *)
(* rows and sequence of calls.                                             *)
(***************************************************************************)
EXTENDS PermeabilityField, TLAPS

---------------------------------------------------------------------------
(* The calls                                                               *)

CallNumbers == 0 .. Len(Script)

\* The last init exists among the calls up to any of them.
LEMMA LastInitType ==
  ASSUME NEW n \in 1 .. Len(Script)
  PROVE  LastInit(n) \in 1 .. n /\ IsLastInit(LastInit(n), n)
<1>1. n \in DOMAIN Script
  BY ScriptAssumption
<1>2. \E m \in 1 .. n : IsLastInit(m, n)
  BY <1>1, ScriptAssumption
<1> QED BY <1>2 DEF LastInit

\* There is only one.
LEMMA LastInitUnique ==
  ASSUME NEW n \in 1 .. Len(Script), NEW m \in 1 .. n, IsLastInit(m, n)
  PROVE  LastInit(n) = m
<1>1. LastInit(n) \in 1 .. n /\ IsLastInit(LastInit(n), n)
  BY LastInitType
<1>2. ~(m < LastInit(n))
  <2>1. SUFFICES ASSUME m < LastInit(n) PROVE FALSE
    OBVIOUS
  <2>2. LastInit(n) \in m + 1 .. n
    BY <1>1, <2>1
  <2> QED BY <1>1, <2>2 DEF IsLastInit
<1>3. ~(LastInit(n) < m)
  <2>1. SUFFICES ASSUME LastInit(n) < m PROVE FALSE
    OBVIOUS
  <2>2. m \in LastInit(n) + 1 .. n
    BY <1>1, <2>1
  <2> QED BY <1>1, <2>2 DEF IsLastInit
<1> QED BY <1>1, <1>2, <1>3

\* The creates since the last init are numbered.
LEMMA CreatedType == \A n \in CallNumbers : Created(n) \in Nat
<1> SUFFICES ASSUME NEW n \in CallNumbers PROVE Created(n) \in Nat
  OBVIOUS
<1>1. CASE n = 0
  BY <1>1 DEF Created
<1>2. CASE n # 0
  <2>1. n \in 1 .. Len(Script)
    BY <1>2, ScriptAssumption DEF CallNumbers
  <2>2. LastInit(n) \in 1 .. n
    BY <2>1, LastInitType
  <2>3. \A m \in 1 .. n : n - m \in Nat
    BY <2>1
  <2> QED BY <1>2, <2>2, <2>3 DEF Created
<1> QED BY <1>1, <1>2

\* An init starts the count again.
LEMMA CreatedInit ==
  ASSUME NEW n \in CallNumbers, n < Len(Script), Script[n + 1] = "init"
  PROVE  n + 1 \in CallNumbers /\ Created(n + 1) = 0
<1>1. n + 1 \in 1 .. Len(Script) /\ n + 1 \in CallNumbers /\ n + 1 # 0
  BY ScriptAssumption DEF CallNumbers
<1>2. n + 1 \in 1 .. n + 1
  BY <1>1
<1>3. IsLastInit(n + 1, n + 1)
  BY <1>1 DEF IsLastInit
<1>4. LastInit(n + 1) = n + 1
  BY <1>1, <1>2, <1>3, LastInitUnique
<1>5. \A k \in Nat : k - k = 0
  OBVIOUS
<1> QED BY <1>1, <1>4, <1>5 DEF Created, CallNumbers

\* A create counts.
LEMMA CreatedCreate ==
  ASSUME NEW n \in CallNumbers, n < Len(Script), Script[n + 1] = "create"
  PROVE  n + 1 \in CallNumbers /\ Created(n + 1) = Created(n) + 1
<1>1. n + 1 \in 1 .. Len(Script) /\ n + 1 \in CallNumbers /\ n + 1 # 0
  BY ScriptAssumption DEF CallNumbers
<1> DEFINE m == LastInit(n + 1)
<1>2. m \in 1 .. n + 1 /\ IsLastInit(m, n + 1)
  BY <1>1, LastInitType
<1> HIDE DEF m
<1>3. m # n + 1
  BY <1>2 DEF IsLastInit
<1>4. m \in 1 .. n /\ n \in 1 .. Len(Script) /\ n # 0
  <2>1. n \in Nat /\ Len(Script) \in Nat
    BY ScriptAssumption DEF CallNumbers
  <2> QED BY <1>1, <1>2, <1>3, <2>1
<1>5. IsLastInit(m, n)
  BY <1>2, <1>4 DEF IsLastInit
<1>6. LastInit(n) = m
  BY <1>4, <1>5, LastInitUnique
<1>7. Created(n + 1) = (n + 1) - m
  BY <1>1 DEF Created, m
<1>8. Created(n) = n - m
  BY <1>4, <1>6 DEF Created
<1> QED BY <1>1, <1>4, <1>7, <1>8

\* The parts alternate, and every real part takes new coefficients.
LEMMA Parts ==
  ASSUME NEW c \in Nat
  PROVE  /\ ExpectedPart(c) \in {0, 1}
         /\ ExpectedPart(c + 1) = 1 - ExpectedPart(c)
         /\ (c + 1) \div 2 \in Nat
         /\ ExpectedPart(c + 1) = 0 => ((c + 1) + 1) \div 2 = ((c + 1) \div 2) + 1
         /\ ExpectedPart(c + 1) # 0 => ((c + 1) + 1) \div 2 = (c + 1) \div 2
<1>1. \A k \in Nat : k % 2 \in {0, 1}
  OBVIOUS
<1> QED BY <1>1 DEF ExpectedPart

\* An init begins with the imaginary part and no coefficients.
LEMMA PartsOfInit == ExpectedPart(0) = 1 /\ (0 + 1) \div 2 = 0
BY DEF ExpectedPart

---------------------------------------------------------------------------
(* The inductive invariant                                                 *)

\* Part and draws follow from the calls made.
Paced(r) ==
  /\ part[r] = ExpectedPart(Created(call[r]))
  /\ draws[r] = (Created(call[r]) + 1) \div 2

\* The call a rank is in fits its place; a rank outside of the epoch wants nothing.
WithinCall(r) ==
  /\ pc[r] = "setup" => call[r] > 0 /\ Created(call[r]) = 0
  /\ pc[r] \in {"ifft", "get", "fence"} =>
       call[r] > 0 /\ Script[call[r]] = "create" /\ part[r] = 0
  /\ pc[r] \in {"ready", "setup", "ifft"} => wanted[r] = {}
  /\ wanted[r] \subseteq Block[r]

\* From the transform on a rank has the field of its call, and in its block
\* the rows that are fetched.
HasField(r) == pc[r] \in {"get", "fence"} \/ (pc[r] = "ready" /\ Created(call[r]) > 0)

Filled(r) ==
  HasField(r) =>
    /\ layer[r] = Expected(Created(call[r]))
    /\ \A i \in Block[r] : i \notin wanted[r] => perm[r][i] = Expected(Created(call[r]))

\* A rank has come to no operation that is still before it.
JoinedPast(r) ==
  \A n \in 1 .. Len(Script) :
    /\ <<n, "setup">> \in joined[r] => n <= call[r]
    /\ <<n, "ifft">> \in joined[r] => n <= call[r]
    /\ <<n, "get">> \in joined[r] =>
         n < call[r] \/ (n = call[r] /\ pc[r] \in {"get", "fence", "ready"})
    /\ <<n, "fence">> \in joined[r] =>
         n < call[r] \/ (n = call[r] /\ pc[r] \in {"fence", "ready"})

AtPlace(r) == Paced(r) /\ WithinCall(r) /\ Filled(r) /\ JoinedPast(r)

\* No rank is past a closing fence another one has not come to.
FieldCall(n) == Script[n] = "create" /\ ExpectedPart(Created(n)) = 0
Passed(r, n) == n < call[r] \/ (n = call[r] /\ pc[r] = "ready")
FencesPassed ==
  \A r \in Procs : \A n \in 1 .. Len(Script) :
    FieldCall(n) /\ Passed(r, n) => \A q \in Procs : <<n, "fence">> \in joined[q]

\* Whose rows are wanted waits in the epoch of the reader.
ReadersHeld ==
  \A r \in Procs : \A i \in wanted[r] :
    Exposed(Owner[i], r) =>
      call[Owner[i]] = call[r] /\ pc[Owner[i]] \in {"get", "fence"}

IInv ==
  /\ TypeOK
  /\ \A r \in Procs : AtPlace(r)
  /\ FencesPassed
  /\ ReadersHeld

---------------------------------------------------------------------------
(* Every step keeps it                                                     *)

\* The next call of a rank that is ready.
LEMMA NextCallFacts ==
  ASSUME IInv, NEW r \in Procs, call[r] < Len(Script)
  PROVE  /\ call[r] \in CallNumbers /\ call[r] \in Nat /\ call[r] + 1 \in 1 .. Len(Script)
         /\ call[r] + 1 > 0 /\ Created(call[r]) \in Nat
         /\ Script[call[r] + 1] = "init" => Created(call[r] + 1) = 0
         /\ Script[call[r] + 1] = "create" => Created(call[r] + 1) = Created(call[r]) + 1
<1>1. call[r] \in CallNumbers /\ call[r] \in Nat /\ Len(Script) \in Nat
  BY ScriptAssumption DEF IInv, TypeOK, CallNumbers
<1> QED BY <1>1, CreatedType, CreatedInit, CreatedCreate

\* Where the ranks can be.
LEMMA CallType ==
  ASSUME IInv, NEW r \in Procs
  PROVE  call[r] \in CallNumbers /\ call[r] \in Nat /\ Len(Script) \in Nat /\ Created(call[r]) \in Nat
<1>1. call[r] \in CallNumbers /\ call[r] \in Nat /\ Len(Script) \in Nat
  BY ScriptAssumption DEF IInv, TypeOK, CallNumbers
<1> QED BY <1>1, CreatedType

\* Nothing of rank q changes.
Same(q) ==
  /\ call'[q] = call[q] /\ pc'[q] = pc[q] /\ part'[q] = part[q] /\ draws'[q] = draws[q]
  /\ layer'[q] = layer[q] /\ perm'[q] = perm[q] /\ wanted'[q] = wanted[q]
  /\ joined'[q] = joined[q]

\* What the step of another rank leaves.
LEMMA SameAtPlace ==
  ASSUME NEW q \in Procs, AtPlace(q), Same(q)
  PROVE  AtPlace(q)'
<1>1. Paced(q)' BY DEF AtPlace, Paced, Same
<1>2. WithinCall(q)' BY DEF AtPlace, WithinCall, Same
<1>3. Filled(q)' BY DEF AtPlace, Filled, HasField, Same, Expected
<1>4. JoinedPast(q)' BY DEF AtPlace, JoinedPast, Same
<1> QED BY <1>1, <1>2, <1>3, <1>4 DEF AtPlace

\* init begins.
LEMMA StartInitStep ==
  ASSUME IInv, NEW r \in Procs, StartInit(r)
  PROVE  IInv'
<1>1. pc[r] = "ready" /\ call[r] < Len(Script) /\ Script[call[r] + 1] = "init"
  BY DEF StartInit, NextCall, FirstPart, Join
<1>2. /\ call[r] \in Nat /\ call[r] + 1 \in 1 .. Len(Script) /\ Len(Script) \in Nat
      /\ Created(call[r]) \in Nat
      /\ Created(call[r] + 1) = 0
  BY <1>1, NextCallFacts, CallType
<1>3. /\ call'[r] = call[r] + 1
      /\ pc'[r] = "setup"
      /\ part'[r] = 1
      /\ draws'[r] = 0
      /\ layer'[r] = Noise
      /\ perm'[r] = [i \in Block[r] |-> Noise]
      /\ wanted'[r] = wanted[r]
      /\ joined'[r] = joined[r] \cup {<<call[r] + 1, "setup">>}
  BY DEF IInv, TypeOK, StartInit, NextCall, FirstPart, Join
<1>4. \A q \in Procs : q # r => Same(q)
  BY DEF IInv, TypeOK, Same, StartInit, NextCall, FirstPart, Join
<1>5. AtPlace(r)
  BY DEF IInv
<1>6. TypeOK'
  BY <1>1, <1>2 DEF IInv, TypeOK, Realization, Noise, StartInit, NextCall, FirstPart, Join
<1>7. AtPlace(r)'
  <2>1. Paced(r)'
    BY <1>2, <1>3, PartsOfInit DEF Paced
  <2>2. WithinCall(r)'
    BY <1>1, <1>2, <1>3, <1>5 DEF AtPlace, WithinCall
  <2>3. Filled(r)'
    BY <1>1, <1>2, <1>3, <1>5 DEF AtPlace, Filled, HasField, Expected
  <2>4. JoinedPast(r)'
    <3>1. SUFFICES ASSUME NEW n \in 1 .. Len(Script)
                   PROVE  /\ <<n, "setup">> \in joined'[r] => n <= call'[r]
                          /\ <<n, "ifft">> \in joined'[r] => n <= call'[r]
                          /\ <<n, "get">> \in joined'[r] =>
                               n < call'[r] \/ (n = call'[r] /\ pc'[r] \in {"get", "fence", "ready"})
                          /\ <<n, "fence">> \in joined'[r] =>
                               n < call'[r] \/ (n = call'[r] /\ pc'[r] \in {"fence", "ready"})
      BY DEF JoinedPast
    <3>2. n \in Nat /\ call[r] \in Nat /\ call'[r] = call[r] + 1
      BY <1>2, <1>3
    <3>3. /\ <<n, "setup">> \in joined[r] => n <= call[r]
          /\ <<n, "ifft">> \in joined[r] => n <= call[r]
          /\ <<n, "get">> \in joined[r] => n <= call[r]
          /\ <<n, "fence">> \in joined[r] => n <= call[r]
      BY <1>5, <3>2 DEF AtPlace, JoinedPast
    <3>4. /\ <<n, "get">> \in joined'[r] => <<n, "get">> \in joined[r]
          /\ <<n, "fence">> \in joined'[r] => <<n, "fence">> \in joined[r]
          /\ <<n, "ifft">> \in joined'[r] => <<n, "ifft">> \in joined[r]
          /\ <<n, "setup">> \in joined'[r] => <<n, "setup">> \in joined[r] \/ n = call[r] + 1
      BY <1>3
    <3> QED BY <3>2, <3>3, <3>4
  <2> QED BY <2>1, <2>2, <2>3, <2>4 DEF AtPlace
<1>8. \A q \in Procs : AtPlace(q)'
  BY <1>4, <1>7, SameAtPlace DEF IInv
<1>9. FencesPassed'
  <2>1. SUFFICES ASSUME NEW q \in Procs, NEW n \in 1 .. Len(Script), FieldCall(n), Passed(q, n)'
                 PROVE  \A p \in Procs : <<n, "fence">> \in joined'[p]
    BY DEF FencesPassed, FieldCall
  <2>2. Passed(q, n)
    BY <1>1, <1>2, <1>3, <1>4, <2>1 DEF Passed, Same
  <2>3. \A p \in Procs : <<n, "fence">> \in joined[p]
    BY <2>1, <2>2 DEF IInv, FencesPassed
  <2>4. \A p \in Procs : joined[p] \subseteq joined'[p]
    BY <1>3, <1>4 DEF Same
  <2> QED BY <2>3, <2>4
<1>10. ReadersHeld'
  <2>1. SUFFICES ASSUME NEW q \in Procs, NEW j \in wanted'[q], Exposed(Owner[j], q)'
                 PROVE  call'[Owner[j]] = call'[q] /\ pc'[Owner[j]] \in {"get", "fence"}
    BY DEF ReadersHeld
  <2>2. j \in wanted[q] /\ call'[q] = call[q] /\ Owner[j] \in Procs
    BY <1>1, <1>3, <1>4, <1>5, OwnerAssumption DEF AtPlace, WithinCall, Same, IInv, TypeOK
  <2>3. <<call[q], "get">> \in joined[Owner[j]]
    BY <1>3, <1>4, <2>1, <2>2 DEF Exposed, Same
  <2>4. call[Owner[j]] = call[q] /\ pc[Owner[j]] \in {"get", "fence"}
    BY <2>2, <2>3 DEF IInv, ReadersHeld, Exposed
  <2> QED BY <1>1, <1>3, <1>4, <2>2, <2>4 DEF Same
<1> QED BY <1>6, <1>8, <1>9, <1>10 DEF IInv

\* init ends.
LEMMA FinishInitStep ==
  ASSUME IInv, NEW r \in Procs, FinishInit(r)
  PROVE  IInv'
<1>1. pc[r] = "setup"
  BY DEF FinishInit
<1>2. call[r] \in Nat /\ Len(Script) \in Nat /\ Created(call[r]) \in Nat
  BY CallType
<1>3. /\ call'[r] = call[r]
      /\ pc'[r] = "ready"
      /\ part'[r] = part[r]
      /\ draws'[r] = draws[r]
      /\ layer'[r] = layer[r]
      /\ perm'[r] = perm[r]
      /\ wanted'[r] = wanted[r]
      /\ joined'[r] = joined[r]
  BY DEF IInv, TypeOK, FinishInit
<1>4. \A q \in Procs : q # r => Same(q)
  BY DEF IInv, TypeOK, Same, FinishInit
<1>5. AtPlace(r)
  BY DEF IInv
<1>6. TypeOK'
  BY <1>1, <1>2 DEF IInv, TypeOK, Realization, Noise, FinishInit
<1>7. AtPlace(r)'
  <2>1. Paced(r)'
    BY <1>1, <1>2, <1>3, <1>5 DEF AtPlace, Paced
  <2>2. WithinCall(r)'
    BY <1>1, <1>2, <1>3, <1>5 DEF AtPlace, WithinCall
  <2>3. Filled(r)'
    BY <1>2, <1>1, <1>3, <1>5 DEF AtPlace, WithinCall, Filled, HasField
  <2>4. JoinedPast(r)'
    BY <1>1, <1>2, <1>3, <1>5 DEF AtPlace, JoinedPast
  <2> QED BY <2>1, <2>2, <2>3, <2>4 DEF AtPlace
<1>8. \A q \in Procs : AtPlace(q)'
  BY <1>4, <1>7, SameAtPlace DEF IInv
<1>9. FencesPassed'
  <2>1. SUFFICES ASSUME NEW q \in Procs, NEW n \in 1 .. Len(Script), FieldCall(n), Passed(q, n)'
                 PROVE  \A p \in Procs : <<n, "fence">> \in joined'[p]
    BY DEF FencesPassed, FieldCall
  <2>2. Passed(q, n)
    <3>1. CASE q # r
      BY <1>4, <2>1, <3>1 DEF Passed, Same
    <3>2. CASE q = r
      <4>1. n # call[r]
        BY <1>1, <1>5, <2>1, PartsOfInit DEF AtPlace, WithinCall, FieldCall
      <4> QED BY <1>3, <2>1, <3>2, <4>1 DEF Passed
    <3> QED BY <3>1, <3>2
  <2>3. \A p \in Procs : <<n, "fence">> \in joined[p]
    BY <2>1, <2>2 DEF IInv, FencesPassed
  <2>4. \A p \in Procs : joined[p] \subseteq joined'[p]
    BY <1>3, <1>4 DEF Same
  <2> QED BY <2>3, <2>4
<1>10. ReadersHeld'
  <2>1. SUFFICES ASSUME NEW q \in Procs, NEW j \in wanted'[q], Exposed(Owner[j], q)'
                 PROVE  call'[Owner[j]] = call'[q] /\ pc'[Owner[j]] \in {"get", "fence"}
    BY DEF ReadersHeld
  <2>2. j \in wanted[q] /\ call'[q] = call[q] /\ Owner[j] \in Procs
    BY <1>1, <1>3, <1>4, <1>5, OwnerAssumption DEF AtPlace, WithinCall, Same, IInv, TypeOK
  <2>3. <<call[q], "get">> \in joined[Owner[j]]
    BY <1>3, <1>4, <2>1, <2>2 DEF Exposed, Same
  <2>4. call[Owner[j]] = call[q] /\ pc[Owner[j]] \in {"get", "fence"}
    BY <2>2, <2>3 DEF IInv, ReadersHeld, Exposed
  <2> QED BY <1>1, <1>3, <1>4, <2>2, <2>4 DEF Same
<1> QED BY <1>6, <1>8, <1>9, <1>10 DEF IInv

\* create switches to the imaginary part.
LEMMA UseOtherPartStep ==
  ASSUME IInv, NEW r \in Procs, UseOtherPart(r)
  PROVE  IInv'
<1>1. pc[r] = "ready" /\ call[r] < Len(Script) /\ Script[call[r] + 1] = "create" /\ 1 - part[r] # 0
  BY DEF UseOtherPart, NextCall, NeedsField, OtherPart
<1>2. /\ call[r] \in Nat /\ call[r] + 1 \in 1 .. Len(Script) /\ Len(Script) \in Nat
      /\ Created(call[r]) \in Nat
      /\ Created(call[r] + 1) = Created(call[r]) + 1
  BY <1>1, NextCallFacts, CallType
<1>3. /\ call'[r] = call[r] + 1
      /\ pc'[r] = pc[r]
      /\ part'[r] = 1 - part[r]
      /\ draws'[r] = draws[r]
      /\ layer'[r] = layer[r]
      /\ perm'[r] = perm[r]
      /\ wanted'[r] = wanted[r]
      /\ joined'[r] = joined[r]
  BY DEF IInv, TypeOK, UseOtherPart, NextCall, NeedsField, OtherPart
<1>4. \A q \in Procs : q # r => Same(q)
  BY DEF IInv, TypeOK, Same, UseOtherPart, NextCall, NeedsField, OtherPart
<1>5. AtPlace(r)
  BY DEF IInv
<1>6. TypeOK'
  BY <1>1, <1>2 DEF IInv, TypeOK, Realization, Noise, UseOtherPart, NextCall, NeedsField, OtherPart
<1>7. AtPlace(r)'
  <2>1. Paced(r)'
    <3>1. part[r] = ExpectedPart(Created(call[r])) /\ draws[r] = (Created(call[r]) + 1) \div 2
      BY <1>5 DEF AtPlace, Paced
    <3>2. /\ ExpectedPart(Created(call[r]) + 1) = 1 - ExpectedPart(Created(call[r]))
          /\ ExpectedPart(Created(call[r]) + 1) # 0 =>
               ((Created(call[r]) + 1) + 1) \div 2 = (Created(call[r]) + 1) \div 2
      BY <1>2, Parts
    <3>3. Created(call'[r]) = Created(call[r]) + 1
      BY <1>2, <1>3
    <3> QED BY <1>1, <1>3, <3>1, <3>2, <3>3 DEF Paced
  <2>2. WithinCall(r)'
    BY <1>1, <1>2, <1>3, <1>5 DEF AtPlace, WithinCall
  <2>3. Filled(r)'
    <3>1. part[r] = ExpectedPart(Created(call[r])) /\ wanted[r] = {}
      BY <1>1, <1>5 DEF AtPlace, Paced, WithinCall
    <3>2. /\ ExpectedPart(Created(call[r]) + 1) # 0
          /\ Created(call[r]) > 0
      <4>1. ExpectedPart(Created(call[r]) + 1) = 1 - ExpectedPart(Created(call[r]))
        BY <1>2, Parts
      <4>2. Created(call[r]) # 0
        BY <1>1, <3>1, <4>1, PartsOfInit
      <4> QED BY <1>1, <1>2, <3>1, <4>1, <4>2
    <3>3. Expected(Created(call[r]) + 1) = Expected(Created(call[r]))
      <4>1. ((Created(call[r]) + 1) + 1) \div 2 = (Created(call[r]) + 1) \div 2
        BY <1>2, <3>2, Parts
      <4> QED BY <4>1 DEF Expected
    <3>4. /\ layer[r] = Expected(Created(call[r]))
          /\ \A i \in Block[r] : perm[r][i] = Expected(Created(call[r]))
      BY <1>1, <1>5, <3>1, <3>2 DEF AtPlace, Filled, HasField
    <3>5. Created(call'[r]) = Created(call[r]) + 1
      BY <1>2, <1>3
    <3> QED BY <1>3, <3>3, <3>4, <3>5 DEF Filled
  <2>4. JoinedPast(r)'
    <3>1. SUFFICES ASSUME NEW n \in 1 .. Len(Script)
                   PROVE  /\ <<n, "setup">> \in joined'[r] => n <= call'[r]
                          /\ <<n, "ifft">> \in joined'[r] => n <= call'[r]
                          /\ <<n, "get">> \in joined'[r] =>
                               n < call'[r] \/ (n = call'[r] /\ pc'[r] \in {"get", "fence", "ready"})
                          /\ <<n, "fence">> \in joined'[r] =>
                               n < call'[r] \/ (n = call'[r] /\ pc'[r] \in {"fence", "ready"})
      BY DEF JoinedPast
    <3>2. n \in Nat /\ call[r] \in Nat /\ call'[r] = call[r] + 1
      BY <1>2, <1>3
    <3>3. /\ <<n, "setup">> \in joined[r] => n <= call[r]
          /\ <<n, "ifft">> \in joined[r] => n <= call[r]
          /\ <<n, "get">> \in joined[r] => n <= call[r]
          /\ <<n, "fence">> \in joined[r] => n <= call[r]
      BY <1>5, <3>2 DEF AtPlace, JoinedPast
    <3>4. joined'[r] = joined[r]
      BY <1>3
    <3> QED BY <3>2, <3>3, <3>4
  <2> QED BY <2>1, <2>2, <2>3, <2>4 DEF AtPlace
<1>8. \A q \in Procs : AtPlace(q)'
  BY <1>4, <1>7, SameAtPlace DEF IInv
<1>9. FencesPassed'
  <2>1. SUFFICES ASSUME NEW q \in Procs, NEW n \in 1 .. Len(Script), FieldCall(n), Passed(q, n)'
                 PROVE  \A p \in Procs : <<n, "fence">> \in joined'[p]
    BY DEF FencesPassed, FieldCall
  <2>2. Passed(q, n)
    <3>1. CASE q # r
      BY <1>4, <2>1, <3>1 DEF Passed, Same
    <3>2. CASE q = r
      <4>1. ExpectedPart(Created(call[r]) + 1) # 0
        <5>1. part[r] = ExpectedPart(Created(call[r]))
          BY <1>5 DEF AtPlace, Paced
        <5>2. ExpectedPart(Created(call[r]) + 1) = 1 - ExpectedPart(Created(call[r]))
          BY <1>2, Parts
        <5> QED BY <1>1, <5>1, <5>2
      <4>2. n # call[r] + 1
        BY <1>2, <2>1, <4>1 DEF FieldCall
      <4>3. n \in Nat
        OBVIOUS
      <4> QED BY <1>1, <1>2, <1>3, <2>1, <3>2, <4>2, <4>3 DEF Passed
    <3> QED BY <3>1, <3>2
  <2>3. \A p \in Procs : <<n, "fence">> \in joined[p]
    BY <2>1, <2>2 DEF IInv, FencesPassed
  <2>4. \A p \in Procs : joined[p] \subseteq joined'[p]
    BY <1>3, <1>4 DEF Same
  <2> QED BY <2>3, <2>4
<1>10. ReadersHeld'
  <2>1. SUFFICES ASSUME NEW q \in Procs, NEW j \in wanted'[q], Exposed(Owner[j], q)'
                 PROVE  call'[Owner[j]] = call'[q] /\ pc'[Owner[j]] \in {"get", "fence"}
    BY DEF ReadersHeld
  <2>2. j \in wanted[q] /\ call'[q] = call[q] /\ Owner[j] \in Procs
    BY <1>1, <1>3, <1>4, <1>5, OwnerAssumption DEF AtPlace, WithinCall, Same, IInv, TypeOK
  <2>3. <<call[q], "get">> \in joined[Owner[j]]
    BY <1>3, <1>4, <2>1, <2>2 DEF Exposed, Same
  <2>4. call[Owner[j]] = call[q] /\ pc[Owner[j]] \in {"get", "fence"}
    BY <2>2, <2>3 DEF IInv, ReadersHeld, Exposed
  <2> QED BY <1>1, <1>3, <1>4, <2>2, <2>4 DEF Same
<1> QED BY <1>6, <1>8, <1>9, <1>10 DEF IInv

\* create draws coefficients.
LEMMA DrawStep ==
  ASSUME IInv, NEW r \in Procs, Draw(r)
  PROVE  IInv'
<1>1. pc[r] = "ready" /\ call[r] < Len(Script) /\ Script[call[r] + 1] = "create" /\ 1 - part[r] = 0
  BY DEF Draw, NextCall, NeedsField, OtherPart, Join
<1>2. /\ call[r] \in Nat /\ call[r] + 1 \in 1 .. Len(Script) /\ Len(Script) \in Nat
      /\ Created(call[r]) \in Nat
      /\ Created(call[r] + 1) = Created(call[r]) + 1
  BY <1>1, NextCallFacts, CallType
<1>3. /\ call'[r] = call[r] + 1
      /\ pc'[r] = "ifft"
      /\ part'[r] = 1 - part[r]
      /\ draws'[r] = draws[r] + 1
      /\ layer'[r] = Noise
      /\ perm'[r] = perm[r]
      /\ wanted'[r] = wanted[r]
      /\ joined'[r] = joined[r] \cup {<<call[r] + 1, "ifft">>}
  BY DEF IInv, TypeOK, Draw, NextCall, NeedsField, OtherPart, Join
<1>4. \A q \in Procs : q # r => Same(q)
  BY DEF IInv, TypeOK, Same, Draw, NextCall, NeedsField, OtherPart, Join
<1>5. AtPlace(r)
  BY DEF IInv
<1>6. TypeOK'
  BY <1>1, <1>2 DEF IInv, TypeOK, Realization, Noise, Draw, NextCall, NeedsField, OtherPart, Join
<1>7. AtPlace(r)'
  <2>1. Paced(r)'
    <3>1. part[r] = ExpectedPart(Created(call[r])) /\ draws[r] = (Created(call[r]) + 1) \div 2
      BY <1>5 DEF AtPlace, Paced
    <3>2. /\ ExpectedPart(Created(call[r]) + 1) = 1 - ExpectedPart(Created(call[r]))
          /\ ExpectedPart(Created(call[r]) + 1) = 0 =>
               ((Created(call[r]) + 1) + 1) \div 2 = ((Created(call[r]) + 1) \div 2) + 1
      BY <1>2, Parts
    <3>3. Created(call'[r]) = Created(call[r]) + 1
      BY <1>2, <1>3
    <3> QED BY <1>1, <1>3, <3>1, <3>2, <3>3 DEF Paced
  <2>2. WithinCall(r)'
    BY <1>1, <1>2, <1>3, <1>5 DEF AtPlace, WithinCall
  <2>3. Filled(r)'
    BY <1>1, <1>2, <1>3, <1>5 DEF AtPlace, Filled, HasField, Expected
  <2>4. JoinedPast(r)'
    <3>1. SUFFICES ASSUME NEW n \in 1 .. Len(Script)
                   PROVE  /\ <<n, "setup">> \in joined'[r] => n <= call'[r]
                          /\ <<n, "ifft">> \in joined'[r] => n <= call'[r]
                          /\ <<n, "get">> \in joined'[r] =>
                               n < call'[r] \/ (n = call'[r] /\ pc'[r] \in {"get", "fence", "ready"})
                          /\ <<n, "fence">> \in joined'[r] =>
                               n < call'[r] \/ (n = call'[r] /\ pc'[r] \in {"fence", "ready"})
      BY DEF JoinedPast
    <3>2. n \in Nat /\ call[r] \in Nat /\ call'[r] = call[r] + 1
      BY <1>2, <1>3
    <3>3. /\ <<n, "setup">> \in joined[r] => n <= call[r]
          /\ <<n, "ifft">> \in joined[r] => n <= call[r]
          /\ <<n, "get">> \in joined[r] => n <= call[r]
          /\ <<n, "fence">> \in joined[r] => n <= call[r]
      BY <1>5, <3>2 DEF AtPlace, JoinedPast
    <3>4. /\ <<n, "get">> \in joined'[r] => <<n, "get">> \in joined[r]
          /\ <<n, "fence">> \in joined'[r] => <<n, "fence">> \in joined[r]
          /\ <<n, "setup">> \in joined'[r] => <<n, "setup">> \in joined[r]
          /\ <<n, "ifft">> \in joined'[r] => <<n, "ifft">> \in joined[r] \/ n = call[r] + 1
      BY <1>3
    <3> QED BY <3>2, <3>3, <3>4
  <2> QED BY <2>1, <2>2, <2>3, <2>4 DEF AtPlace
<1>8. \A q \in Procs : AtPlace(q)'
  BY <1>4, <1>7, SameAtPlace DEF IInv
<1>9. FencesPassed'
  <2>1. SUFFICES ASSUME NEW q \in Procs, NEW n \in 1 .. Len(Script), FieldCall(n), Passed(q, n)'
                 PROVE  \A p \in Procs : <<n, "fence">> \in joined'[p]
    BY DEF FencesPassed, FieldCall
  <2>2. Passed(q, n)
    BY <1>1, <1>2, <1>3, <1>4, <2>1 DEF Passed, Same
  <2>3. \A p \in Procs : <<n, "fence">> \in joined[p]
    BY <2>1, <2>2 DEF IInv, FencesPassed
  <2>4. \A p \in Procs : joined[p] \subseteq joined'[p]
    BY <1>3, <1>4 DEF Same
  <2> QED BY <2>3, <2>4
<1>10. ReadersHeld'
  <2>1. SUFFICES ASSUME NEW q \in Procs, NEW j \in wanted'[q], Exposed(Owner[j], q)'
                 PROVE  call'[Owner[j]] = call'[q] /\ pc'[Owner[j]] \in {"get", "fence"}
    BY DEF ReadersHeld
  <2>2. j \in wanted[q] /\ call'[q] = call[q] /\ Owner[j] \in Procs
    BY <1>1, <1>3, <1>4, <1>5, OwnerAssumption DEF AtPlace, WithinCall, Same, IInv, TypeOK
  <2>3. <<call[q], "get">> \in joined[Owner[j]]
    BY <1>3, <1>4, <2>1, <2>2 DEF Exposed, Same
  <2>4. call[Owner[j]] = call[q] /\ pc[Owner[j]] \in {"get", "fence"}
    BY <2>2, <2>3 DEF IInv, ReadersHeld, Exposed
  <2> QED BY <1>1, <1>3, <1>4, <2>2, <2>4 DEF Same
<1> QED BY <1>6, <1>8, <1>9, <1>10 DEF IInv

\* The field is transformed and the epoch opened.
LEMMA TransformStep ==
  ASSUME IInv, NEW r \in Procs, Transform(r)
  PROVE  IInv'
<1>1. pc[r] = "ifft" /\ AllJoined(call[r], "ifft")
  BY DEF Transform, Join
<1>2. call[r] \in Nat /\ Len(Script) \in Nat /\ Created(call[r]) \in Nat
  BY CallType
<1>3. /\ call'[r] = call[r]
      /\ pc'[r] = "get"
      /\ part'[r] = part[r]
      /\ draws'[r] = draws[r]
      /\ layer'[r] = draws
      /\ perm'[r] = perm[r]
      /\ wanted'[r] = Block[r]
      /\ joined'[r] = joined[r] \cup {<<call[r], "get">>}
  BY DEF IInv, TypeOK, Transform, Join
<1>4. \A q \in Procs : q # r => Same(q)
  BY DEF IInv, TypeOK, Same, Transform, Join
<1>5. AtPlace(r)
  BY DEF IInv
<1>6. TypeOK'
  <2>1. layer' \in [Procs -> Realization \cup {Noise}]
    BY DEF IInv, TypeOK, Realization, Transform
  <2>2. joined' \in [Procs -> SUBSET ((1 .. Len(Script)) \X {"setup", "ifft", "get", "fence"})]
    <3>1. call[r] \in 1 .. Len(Script)
      BY <1>1, <1>2, <1>5 DEF AtPlace, WithinCall, IInv, TypeOK
    <3> QED BY <3>1 DEF IInv, TypeOK, Transform, Join
  <2>3. wanted' \in [Procs -> SUBSET Rows] /\ pc' \in [Procs -> {"setup", "ifft", "get", "fence", "ready"}]
    BY BlockAssumption DEF IInv, TypeOK, Transform
  <2> QED BY <2>1, <2>2, <2>3 DEF IInv, TypeOK, Transform
<1>7. AtPlace(r)'
  <2>1. Paced(r)'
    BY <1>1, <1>2, <1>3, <1>5 DEF AtPlace, Paced
  <2>2. WithinCall(r)'
    BY <1>1, <1>2, <1>3, <1>5 DEF AtPlace, WithinCall
  <2>3. Filled(r)'
    <3>1. Script[call[r]] = "create" /\ call[r] > 0 /\ part[r] = 0
      BY <1>1, <1>5 DEF AtPlace, WithinCall
    <3>2. call[r] \in 1 .. Len(Script) /\ FieldCall(call[r])
      <4>1. call[r] \in 1 .. Len(Script)
        BY <1>2, <3>1 DEF IInv, TypeOK
      <4>2. ExpectedPart(Created(call[r])) = 0
        BY <1>5, <3>1 DEF AtPlace, Paced
      <4> QED BY <3>1, <4>1, <4>2 DEF FieldCall
    <3>3. <<call[r], "fence">> \notin joined[r]
      <4>1. <<call[r], "fence">> \in joined[r] => call[r] < call[r] \/ pc[r] \in {"fence", "ready"}
        BY <1>5, <3>2 DEF AtPlace, JoinedPast
      <4>2. ~(call[r] < call[r])
        BY <1>2
      <4> QED BY <1>1, <4>1, <4>2
    <3>4. \A q \in Procs : call[q] = call[r]
      <4>1. SUFFICES ASSUME NEW q \in Procs PROVE call[q] = call[r]
        OBVIOUS
      <4>2. ~(call[r] < call[q])
        BY <3>2, <3>3 DEF IInv, FencesPassed, Passed
      <4>3. call[r] <= call[q]
        BY <1>1, <3>2 DEF AllJoined, IInv, AtPlace, JoinedPast
      <4>4. call[q] \in Nat
        BY CallType
      <4> QED BY <1>2, <4>2, <4>3, <4>4
    <3>5. \A q \in Procs : draws[q] = (Created(call[r]) + 1) \div 2
      BY <3>4 DEF IInv, AtPlace, Paced
    <3>6. layer'[r] = Expected(Created(call[r]))
      BY <1>3, <3>5 DEF Expected, IInv, TypeOK
    <3> QED BY <1>3, <3>6 DEF Filled
  <2>4. JoinedPast(r)'
    BY <1>1, <1>2, <1>3, <1>5 DEF AtPlace, JoinedPast
  <2> QED BY <2>1, <2>2, <2>3, <2>4 DEF AtPlace
<1>8. \A q \in Procs : AtPlace(q)'
  BY <1>4, <1>7, SameAtPlace DEF IInv
<1>9. FencesPassed'
  <2>1. SUFFICES ASSUME NEW q \in Procs, NEW n \in 1 .. Len(Script), FieldCall(n), Passed(q, n)'
                 PROVE  \A p \in Procs : <<n, "fence">> \in joined'[p]
    BY DEF FencesPassed, FieldCall
  <2>2. Passed(q, n)
    BY <1>1, <1>2, <1>3, <1>4, <2>1 DEF Passed, Same
  <2>3. \A p \in Procs : <<n, "fence">> \in joined[p]
    BY <2>1, <2>2 DEF IInv, FencesPassed
  <2>4. \A p \in Procs : joined[p] \subseteq joined'[p]
    BY <1>3, <1>4 DEF Same
  <2> QED BY <2>3, <2>4
<1>10. ReadersHeld'
  <2>1. SUFFICES ASSUME NEW q \in Procs, NEW j \in wanted'[q], Exposed(Owner[j], q)'
                 PROVE  call'[Owner[j]] = call'[q] /\ pc'[Owner[j]] \in {"get", "fence"}
    BY DEF ReadersHeld
  <2>2. j \in Rows /\ call'[q] = call[q] /\ Owner[j] \in Procs
    BY <1>3, <1>4, <1>6, OwnerAssumption DEF Same, TypeOK
  <2>3. CASE Owner[j] = r /\ call[q] = call[r]
    BY <1>3, <2>2, <2>3
  <2>4. CASE Owner[j] # r \/ call[q] # call[r]
    <3>1. <<call[q], "get">> \in joined[Owner[j]]
      BY <1>3, <1>4, <2>1, <2>2, <2>4 DEF Exposed, Same
    <3>2. CASE q # r
      <4>1. j \in wanted[q]
        BY <1>4, <2>1, <3>2 DEF Same
      <4>2. call[Owner[j]] = call[q] /\ pc[Owner[j]] \in {"get", "fence"}
        BY <3>1, <4>1 DEF IInv, ReadersHeld, Exposed
      <4> QED BY <1>1, <1>4, <2>2, <4>2 DEF Same
    <3>3. CASE q = r
      <4>1. call[r] \in 1 .. Len(Script) /\ FieldCall(call[r])
        BY <1>1, <1>2, <1>5 DEF AtPlace, WithinCall, Paced, FieldCall, IInv, TypeOK
      <4>2. <<call[r], "fence">> \notin joined[r]
        <5>1. <<call[r], "fence">> \in joined[r] => call[r] < call[r] \/ pc[r] \in {"fence", "ready"}
          BY <1>5, <4>1 DEF AtPlace, JoinedPast
        <5>2. ~(call[r] < call[r])
          BY <1>2
        <5> QED BY <1>1, <5>1, <5>2
      <4>3. ~Passed(Owner[j], call[r])
        BY <2>2, <4>1, <4>2 DEF IInv, FencesPassed
      <4>4. call[Owner[j]] = call[r] /\ pc[Owner[j]] \in {"get", "fence"}
        BY <2>2, <3>1, <3>3, <4>1, <4>3 DEF Passed, IInv, AtPlace, JoinedPast
      <4> QED BY <1>3, <1>4, <2>2, <2>4, <3>3, <4>4 DEF Same
    <3> QED BY <3>2, <3>3
  <2> QED BY <2>3, <2>4
<1> QED BY <1>6, <1>8, <1>9, <1>10 DEF IInv

\* A row is fetched.
LEMMA GetStep ==
  ASSUME IInv, NEW r \in Procs, NEW i \in Rows, Get(r, i)
  PROVE  IInv'
<1>1. pc[r] \in {"get", "fence"} /\ i \in wanted[r] /\ Exposed(Owner[i], r)
  BY DEF Get
<1>2. call[r] \in Nat /\ Len(Script) \in Nat /\ Created(call[r]) \in Nat
  BY CallType
<1>3. /\ call'[r] = call[r]
      /\ pc'[r] = pc[r]
      /\ part'[r] = part[r]
      /\ draws'[r] = draws[r]
      /\ layer'[r] = layer[r]
      /\ perm'[r] = [perm[r] EXCEPT ![i] = layer[Owner[i]]]
      /\ wanted'[r] = wanted[r] \ {i}
      /\ joined'[r] = joined[r]
  BY DEF IInv, TypeOK, Get
<1>4. \A q \in Procs : q # r => Same(q)
  BY DEF IInv, TypeOK, Same, Get
<1>5. AtPlace(r)
  BY DEF IInv
<1>6. TypeOK'
  <2>1. Owner[i] \in Procs /\ i \in Block[r]
    BY <1>1, <1>5, OwnerAssumption DEF AtPlace, WithinCall
  <2>2. layer[Owner[i]] \in Realization \cup {Noise}
    BY <2>1 DEF IInv, TypeOK
  <2>3. DOMAIN perm' = Procs
    BY DEF IInv, TypeOK, Get
  <2>4. \A q \in Procs : perm'[q] \in [Block[q] -> Realization \cup {Noise}]
    <3>1. SUFFICES ASSUME NEW q \in Procs
                   PROVE  perm'[q] \in [Block[q] -> Realization \cup {Noise}]
      OBVIOUS
    <3>2. perm[q] \in [Block[q] -> Realization \cup {Noise}]
      BY DEF IInv, TypeOK
    <3>3. CASE q = r
      BY <1>3, <2>2, <3>2, <3>3
    <3>4. CASE q # r
      BY <1>4, <3>2, <3>4 DEF Same
    <3> QED BY <3>3, <3>4
  <2>5. wanted' \in [Procs -> SUBSET Rows]
    BY DEF IInv, TypeOK, Get
  <2> QED BY <2>3, <2>4, <2>5 DEF IInv, TypeOK, Get, Realization
<1>7. AtPlace(r)'
  <2>1. Paced(r)'
    BY <1>1, <1>2, <1>3, <1>5 DEF AtPlace, Paced
  <2>2. WithinCall(r)'
    BY <1>1, <1>2, <1>3, <1>5 DEF AtPlace, WithinCall
  <2>3. Filled(r)'
    <3>1. Owner[i] \in Procs /\ i \in Block[r]
      BY <1>1, <1>5, OwnerAssumption DEF AtPlace, WithinCall
    <3>2. call[Owner[i]] = call[r] /\ pc[Owner[i]] \in {"get", "fence"}
      BY <1>1 DEF IInv, ReadersHeld
    <3>3. layer[Owner[i]] = Expected(Created(call[r]))
      BY <3>1, <3>2 DEF IInv, AtPlace, Filled, HasField
    <3>4. perm[r] \in [Block[r] -> Realization \cup {Noise}]
      BY DEF IInv, TypeOK
    <3>5. perm'[r][i] = Expected(Created(call[r]))
      BY <1>3, <3>1, <3>3, <3>4
    <3>6. \A j \in Block[r] : j # i => perm'[r][j] = perm[r][j]
      BY <1>3, <3>4
    <3>7. /\ layer[r] = Expected(Created(call[r]))
          /\ \A j \in Block[r] : j \notin wanted[r] => perm[r][j] = Expected(Created(call[r]))
      BY <1>1, <1>5 DEF AtPlace, Filled, HasField
    <3> QED BY <1>3, <3>5, <3>6, <3>7 DEF Filled
  <2>4. JoinedPast(r)'
    BY <1>1, <1>2, <1>3, <1>5 DEF AtPlace, JoinedPast
  <2> QED BY <2>1, <2>2, <2>3, <2>4 DEF AtPlace
<1>8. \A q \in Procs : AtPlace(q)'
  BY <1>4, <1>7, SameAtPlace DEF IInv
<1>9. FencesPassed'
  <2>1. SUFFICES ASSUME NEW q \in Procs, NEW n \in 1 .. Len(Script), FieldCall(n), Passed(q, n)'
                 PROVE  \A p \in Procs : <<n, "fence">> \in joined'[p]
    BY DEF FencesPassed, FieldCall
  <2>2. Passed(q, n)
    BY <1>1, <1>2, <1>3, <1>4, <2>1 DEF Passed, Same
  <2>3. \A p \in Procs : <<n, "fence">> \in joined[p]
    BY <2>1, <2>2 DEF IInv, FencesPassed
  <2>4. \A p \in Procs : joined[p] \subseteq joined'[p]
    BY <1>3, <1>4 DEF Same
  <2> QED BY <2>3, <2>4
<1>10. ReadersHeld'
  <2>1. SUFFICES ASSUME NEW q \in Procs, NEW j \in wanted'[q], Exposed(Owner[j], q)'
                 PROVE  call'[Owner[j]] = call'[q] /\ pc'[Owner[j]] \in {"get", "fence"}
    BY DEF ReadersHeld
  <2>2. j \in wanted[q] /\ call'[q] = call[q] /\ Owner[j] \in Procs
    BY <1>1, <1>3, <1>4, <1>5, OwnerAssumption DEF AtPlace, WithinCall, Same, IInv, TypeOK
  <2>3. <<call[q], "get">> \in joined[Owner[j]]
    BY <1>3, <1>4, <2>1, <2>2 DEF Exposed, Same
  <2>4. call[Owner[j]] = call[q] /\ pc[Owner[j]] \in {"get", "fence"}
    BY <2>2, <2>3 DEF IInv, ReadersHeld, Exposed
  <2> QED BY <1>1, <1>3, <1>4, <2>2, <2>4 DEF Same
<1> QED BY <1>6, <1>8, <1>9, <1>10 DEF IInv

\* The closing fence is called.
LEMMA CloseEpochStep ==
  ASSUME IInv, NEW r \in Procs, CloseEpoch(r)
  PROVE  IInv'
<1>1. pc[r] = "get"
  BY DEF CloseEpoch, Join
<1>2. call[r] \in Nat /\ Len(Script) \in Nat /\ Created(call[r]) \in Nat
  BY CallType
<1>3. /\ call'[r] = call[r]
      /\ pc'[r] = "fence"
      /\ part'[r] = part[r]
      /\ draws'[r] = draws[r]
      /\ layer'[r] = layer[r]
      /\ perm'[r] = perm[r]
      /\ wanted'[r] = wanted[r]
      /\ joined'[r] = joined[r] \cup {<<call[r], "fence">>}
  BY DEF IInv, TypeOK, CloseEpoch, Join
<1>4. \A q \in Procs : q # r => Same(q)
  BY DEF IInv, TypeOK, Same, CloseEpoch, Join
<1>5. AtPlace(r)
  BY DEF IInv
<1>6. TypeOK'
  <2>1. joined' \in [Procs -> SUBSET ((1 .. Len(Script)) \X {"setup", "ifft", "get", "fence"})]
    <3>1. call[r] \in 1 .. Len(Script)
      BY <1>1, <1>2, <1>5 DEF AtPlace, WithinCall, IInv, TypeOK
    <3> QED BY <3>1 DEF IInv, TypeOK, CloseEpoch, Join
  <2>2. pc' \in [Procs -> {"setup", "ifft", "get", "fence", "ready"}]
    BY DEF IInv, TypeOK, CloseEpoch
  <2> QED BY <2>1, <2>2 DEF IInv, TypeOK, CloseEpoch
<1>7. AtPlace(r)'
  <2>1. Paced(r)'
    BY <1>1, <1>2, <1>3, <1>5 DEF AtPlace, Paced
  <2>2. WithinCall(r)'
    BY <1>1, <1>2, <1>3, <1>5 DEF AtPlace, WithinCall
  <2>3. Filled(r)'
    BY <1>1, <1>2, <1>3, <1>5 DEF AtPlace, Filled, HasField, Expected
  <2>4. JoinedPast(r)'
    BY <1>1, <1>2, <1>3, <1>5 DEF AtPlace, JoinedPast
  <2> QED BY <2>1, <2>2, <2>3, <2>4 DEF AtPlace
<1>8. \A q \in Procs : AtPlace(q)'
  BY <1>4, <1>7, SameAtPlace DEF IInv
<1>9. FencesPassed'
  <2>1. SUFFICES ASSUME NEW q \in Procs, NEW n \in 1 .. Len(Script), FieldCall(n), Passed(q, n)'
                 PROVE  \A p \in Procs : <<n, "fence">> \in joined'[p]
    BY DEF FencesPassed, FieldCall
  <2>2. Passed(q, n)
    BY <1>1, <1>2, <1>3, <1>4, <2>1 DEF Passed, Same
  <2>3. \A p \in Procs : <<n, "fence">> \in joined[p]
    BY <2>1, <2>2 DEF IInv, FencesPassed
  <2>4. \A p \in Procs : joined[p] \subseteq joined'[p]
    BY <1>3, <1>4 DEF Same
  <2> QED BY <2>3, <2>4
<1>10. ReadersHeld'
  <2>1. SUFFICES ASSUME NEW q \in Procs, NEW j \in wanted'[q], Exposed(Owner[j], q)'
                 PROVE  call'[Owner[j]] = call'[q] /\ pc'[Owner[j]] \in {"get", "fence"}
    BY DEF ReadersHeld
  <2>2. j \in wanted[q] /\ call'[q] = call[q] /\ Owner[j] \in Procs
    BY <1>1, <1>3, <1>4, <1>5, OwnerAssumption DEF AtPlace, WithinCall, Same, IInv, TypeOK
  <2>3. <<call[q], "get">> \in joined[Owner[j]]
    BY <1>3, <1>4, <2>1, <2>2 DEF Exposed, Same
  <2>4. call[Owner[j]] = call[q] /\ pc[Owner[j]] \in {"get", "fence"}
    BY <2>2, <2>3 DEF IInv, ReadersHeld, Exposed
  <2> QED BY <1>1, <1>3, <1>4, <2>2, <2>4 DEF Same
<1> QED BY <1>6, <1>8, <1>9, <1>10 DEF IInv

\* create ends.
LEMMA FinishCreateStep ==
  ASSUME IInv, NEW r \in Procs, FinishCreate(r)
  PROVE  IInv'
<1>1. pc[r] = "fence" /\ AllJoined(call[r], "fence") /\ wanted[r] = {} /\ \A q \in Procs : \A j \in wanted[q] : Owner[j] # r
  BY DEF FinishCreate, EpochOver
<1>2. call[r] \in Nat /\ Len(Script) \in Nat /\ Created(call[r]) \in Nat
  BY CallType
<1>3. /\ call'[r] = call[r]
      /\ pc'[r] = "ready"
      /\ part'[r] = part[r]
      /\ draws'[r] = draws[r]
      /\ layer'[r] = layer[r]
      /\ perm'[r] = perm[r]
      /\ wanted'[r] = wanted[r]
      /\ joined'[r] = joined[r]
  BY DEF IInv, TypeOK, FinishCreate, EpochOver
<1>4. \A q \in Procs : q # r => Same(q)
  BY DEF IInv, TypeOK, Same, FinishCreate, EpochOver
<1>5. AtPlace(r)
  BY DEF IInv
<1>6. TypeOK'
  BY <1>1, <1>2 DEF IInv, TypeOK, Realization, Noise, FinishCreate, EpochOver
<1>7. AtPlace(r)'
  <2>1. Paced(r)'
    BY <1>1, <1>2, <1>3, <1>5 DEF AtPlace, Paced
  <2>2. WithinCall(r)'
    BY <1>1, <1>2, <1>3, <1>5 DEF AtPlace, WithinCall
  <2>3. Filled(r)'
    BY <1>1, <1>2, <1>3, <1>5 DEF AtPlace, Filled, HasField, Expected
  <2>4. JoinedPast(r)'
    BY <1>1, <1>2, <1>3, <1>5 DEF AtPlace, JoinedPast
  <2> QED BY <2>1, <2>2, <2>3, <2>4 DEF AtPlace
<1>8. \A q \in Procs : AtPlace(q)'
  BY <1>4, <1>7, SameAtPlace DEF IInv
<1>9. FencesPassed'
  <2>1. SUFFICES ASSUME NEW q \in Procs, NEW n \in 1 .. Len(Script), FieldCall(n), Passed(q, n)'
                 PROVE  \A p \in Procs : <<n, "fence">> \in joined'[p]
    BY DEF FencesPassed, FieldCall
  <2>2. \A p \in Procs : joined'[p] = joined[p]
    BY <1>3, <1>4 DEF Same
  <2>3. CASE q = r /\ n = call[r]
    BY <1>1, <2>2, <2>3 DEF AllJoined
  <2>4. CASE ~(q = r /\ n = call[r])
    <3>1. Passed(q, n)
      BY <1>3, <1>4, <2>1, <2>4 DEF Passed, Same
    <3> QED BY <2>1, <2>2, <3>1 DEF IInv, FencesPassed
  <2> QED BY <2>3, <2>4
<1>10. ReadersHeld'
  <2>1. SUFFICES ASSUME NEW q \in Procs, NEW j \in wanted'[q], Exposed(Owner[j], q)'
                 PROVE  call'[Owner[j]] = call'[q] /\ pc'[Owner[j]] \in {"get", "fence"}
    BY DEF ReadersHeld
  <2>2. j \in wanted[q] /\ call'[q] = call[q] /\ Owner[j] \in Procs
    BY <1>1, <1>3, <1>4, <1>5, OwnerAssumption DEF AtPlace, WithinCall, Same, IInv, TypeOK
  <2>3. <<call[q], "get">> \in joined[Owner[j]]
    BY <1>3, <1>4, <2>1, <2>2 DEF Exposed, Same
  <2>4. call[Owner[j]] = call[q] /\ pc[Owner[j]] \in {"get", "fence"}
    BY <2>2, <2>3 DEF IInv, ReadersHeld, Exposed
  <2> QED BY <1>1, <1>3, <1>4, <2>2, <2>4 DEF Same
<1> QED BY <1>6, <1>8, <1>9, <1>10 DEF IInv

---------------------------------------------------------------------------
(* The theorems                                                            *)

\* The initial states.
LEMMA InitIInv == Init => IInv
<1> SUFFICES ASSUME Init PROVE IInv
  OBVIOUS
<1>1. Len(Script) \in Nat
  BY ScriptAssumption
<1>2. TypeOK
  BY <1>1 DEF Init, TypeOK, Realization
<1>3. \A r \in Procs : AtPlace(r)
  <2>1. Created(0) = 0
    BY DEF Created
  <2>2. SUFFICES ASSUME NEW r \in Procs PROVE AtPlace(r)
    OBVIOUS
  <2>3. Paced(r)
    BY <2>1, PartsOfInit DEF Init, Paced
  <2> QED BY <2>1, <2>3 DEF Init, AtPlace, WithinCall, Filled, HasField, JoinedPast
<1>4. FencesPassed
  BY <1>1 DEF Init, FencesPassed, Passed
<1>5. ReadersHeld
  BY DEF Init, ReadersHeld
<1> QED BY <1>2, <1>3, <1>4, <1>5 DEF IInv

\* Steps in which nothing happens.
LEMMA StutterIInv == IInv /\ UNCHANGED vars => IInv'
<1> SUFFICES ASSUME IInv, UNCHANGED vars PROVE IInv'
  OBVIOUS
<1>1. TypeOK'
  BY DEF IInv, TypeOK, vars, Realization, Noise
<1>2. \A q \in Procs : AtPlace(q)'
  BY SameAtPlace DEF IInv, Same, vars
<1>3. FencesPassed'
  BY DEF IInv, FencesPassed, Passed, FieldCall, vars
<1>4. ReadersHeld'
  BY DEF IInv, ReadersHeld, Exposed, vars
<1> QED BY <1>1, <1>2, <1>3, <1>4 DEF IInv

\* The invariant holds in all reachable states.
THEOREM Invariance == Spec => []IInv
<1>1. IInv /\ [Next]_vars => IInv'
  <2> SUFFICES ASSUME IInv, [Next]_vars PROVE IInv'
    OBVIOUS
  <2>1. CASE \E r \in Procs : StartInit(r)
    BY <2>1, StartInitStep
  <2>2. CASE \E r \in Procs : FinishInit(r)
    BY <2>2, FinishInitStep
  <2>3. CASE \E r \in Procs : UseOtherPart(r)
    BY <2>3, UseOtherPartStep
  <2>4. CASE \E r \in Procs : Draw(r)
    BY <2>4, DrawStep
  <2>5. CASE \E r \in Procs : Transform(r)
    BY <2>5, TransformStep
  <2>6. CASE \E r \in Procs, i \in Rows : Get(r, i)
    BY <2>6, GetStep
  <2>7. CASE \E r \in Procs : CloseEpoch(r)
    BY <2>7, CloseEpochStep
  <2>8. CASE \E r \in Procs : FinishCreate(r)
    BY <2>8, FinishCreateStep
  <2>9. CASE UNCHANGED vars
    BY <2>9, StutterIInv
  <2> QED BY <2>1, <2>2, <2>3, <2>4, <2>5, <2>6, <2>7, <2>8, <2>9 DEF Next
<1> QED BY <1>1, InitIInv, PTL DEF Spec

\* The variables keep their types (random_permeability.hh:102-322).
THEOREM TypeCorrect == Spec => []TypeOK
<1>1. IInv => TypeOK
  BY DEF IInv
<1> QED BY <1>1, Invariance, PTL

\* A rank that is not within a call evaluates one whole field, the one its
\* number of create() calls determines (random_permeability.hh:296-322).
THEOREM WholeField == Spec => []FieldIsWhole
<1>1. IInv => FieldIsWhole
  <2>1. SUFFICES ASSUME IInv, NEW r \in Procs, pc[r] = "ready"
                 PROVE  /\ part[r] = ExpectedPart(Created(call[r]))
                        /\ Created(call[r]) > 0 =>
                             \A i \in Block[r] : perm[r][i] = Expected(Created(call[r]))
    BY DEF FieldIsWhole
  <2>2. AtPlace(r) /\ wanted[r] = {}
    BY <2>1 DEF IInv, AtPlace, WithinCall
  <2> QED BY <2>1, <2>2 DEF AtPlace, Paced, Filled, HasField
<1> QED BY <1>1, Invariance, PTL

\* No rank overwrites its layer while another one reads it: the two fences
\* are enough (random_permeability.hh:264, 290).
THEOREM LayerReadInTime == Spec => []GetsReadTheirField
<1>1. IInv => GetsReadTheirField
  <2>1. SUFFICES ASSUME IInv, NEW r \in Procs, NEW i \in wanted[r], Exposed(Owner[i], r)
                 PROVE  layer[Owner[i]] = Expected(Created(call[r]))
    BY DEF GetsReadTheirField
  <2>2. Owner[i] \in Procs
    BY <2>1, OwnerAssumption DEF IInv, TypeOK
  <2>3. call[Owner[i]] = call[r] /\ pc[Owner[i]] \in {"get", "fence"}
    BY <2>1 DEF IInv, ReadersHeld
  <2> QED BY <2>1, <2>2, <2>3 DEF IInv, AtPlace, Filled, HasField
<1> QED BY <1>1, Invariance, PTL
=============================================================================
