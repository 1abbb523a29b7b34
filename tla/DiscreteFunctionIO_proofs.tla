---------------------- MODULE DiscreteFunctionIO_proofs ----------------------
(***************************************************************************)
(* Proofs about DiscreteFunctionIO for every set of threads and cells and  *)
(* every number of runs.                                                   *)
(*                                                                         *)
(* The lookup alone does not keep assert(ret.second) true; the discipline  *)
(* of the walks does.  The inductive invariant StoreInv therefore relates  *)
(* the store to the walk: in the first walk a cell still to be visited has *)
(* no backend (FirstWalk) and one already visited has its own (Covered),   *)
(* from the second walk on all cells have one (LaterWalks), and no two     *)
(* threads ever visit one cell (VisitsExclusive).                          *)
(***************************************************************************)
EXTENDS DiscreteFunctionIO, TLAPS

VisitsExclusive ==
  /\ \A t, u \in Threads :
       t # u /\ pc[t] # "idle" /\ pc[u] # "idle" => key[t] # key[u]
  /\ \A t \in Threads : pc[t] # "idle" => key[t] \notin todo

MutexInv ==
  /\ \A t \in Threads : t \in mutex <=> pc[t] = "emplace"
  /\ \A t, u \in mutex : t = u
  /\ \A t \in Threads : pc[t] = "emplace" => found[t] = memory

RefInv ==
  /\ \A k \in Keys : memory[k] <= made
  /\ \A t \in Threads :
       /\ pc[t] \in {"idle", "find", "lock"} => ref[t] = NoBackend
       /\ pc[t] = "emplace" => /\ ref[t] # NoBackend
                               /\ ref[t] <= made
                               /\ \A k \in Keys : memory[k] # ref[t]
       /\ pc[t] = "use" => ref[t] # NoBackend /\ ref[t] = memory[key[t]]

FirstWalk ==
  walk = 1 => /\ \A k \in todo : memory[k] = NoBackend
              /\ \A t \in Threads : pc[t] \in {"find", "lock", "emplace"}
                                      => memory[key[t]] = NoBackend

Covered ==
  walk = 1 /\ ~unwinding =>
    \A k \in Keys : \/ k \in todo
                    \/ memory[k] # NoBackend
                    \/ \E t \in Threads : pc[t] # "idle" /\ key[t] = k

LaterWalks ==
  walk >= 2 => /\ \A k \in Keys : memory[k] # NoBackend
               /\ \A t \in Threads : pc[t] \notin {"lock", "emplace"}

\* Only the assembly makes a second manager.
SecondManager ==
  \A t \in Threads : pc[t] # "idle" /\ again[t] => walk = 2

BetweenRuns ==
  walk = 0 => /\ Idle
              /\ todo = {}
              /\ \A k \in Keys : memory[k] = NoBackend

StoreInv ==
  /\ TypeOK
  /\ VisitsExclusive
  /\ MutexInv
  /\ RefInv
  /\ FirstWalk
  /\ Covered
  /\ LaterWalks
  /\ SecondManager
  /\ BetweenRuns

---------------------------------------------------------------------------
\* The initial state is well typed.
LEMMA InitType == Init => TypeOK
<1> SUFFICES ASSUME Init PROVE TypeOK
  OBVIOUS
<1>1. key \in [Threads -> Keys]
  <2>1. (CHOOSE k \in Keys : TRUE) \in Keys
    BY KeysAssumption
  <2> DEFINE first == CHOOSE k \in Keys : TRUE
  <2>2. key = [t \in Threads |-> first]
    BY DEF Init
  <2> HIDE DEF first
  <2>3. first \in Keys
    BY <2>1 DEF first
  <2>4. QED
    BY <2>2, <2>3
<1>2. unwinding \in BOOLEAN /\ again \in [Threads -> BOOLEAN]
  BY Zenon DEF Init
<1>3. /\ memory \in [Keys -> Nat]
      /\ mutex \in SUBSET Threads
      /\ pc \in [Threads -> {"idle", "find", "lock", "emplace", "use"}]
      /\ found \in [Threads -> [Keys -> Nat]]
      /\ ref \in [Threads -> Nat]
      /\ made \in Nat
      /\ walk \in 0 .. LastWalk
      /\ todo \in SUBSET Keys
      /\ runs \in Nat
  BY DEF Init, NoBackend, LastWalk
<1>4. QED
  BY <1>1, <1>2, <1>3 DEF TypeOK

(* Every variable keeps its type. *)
THEOREM TypeCorrect == Spec => []TypeOK
<1>1. Init => TypeOK
  BY InitType
<1>2. TypeOK /\ [Next]_vars => TypeOK'
  <2> SUFFICES ASSUME TypeOK, [Next]_vars PROVE TypeOK'
    OBVIOUS
  <2> USE DEF TypeOK
  <2>1. CASE StartRun
    <3>1. unwinding' \in BOOLEAN
      BY <2>1, Zenon DEF StartRun
    <3>2. QED
      BY <2>1, <3>1 DEF StartRun, LastWalk
  <2>2. CASE NextWalk
    BY <2>2 DEF NextWalk, GoesOn, LastWalk
  <2>3. CASE Clear
    BY <2>3 DEF Clear, Leaves, LastWalk, NoBackend
  <2>4. ASSUME NEW t \in Threads, NEW k \in Keys, Visit(t, k) PROVE TypeOK'
    <3>1. again' \in [Threads -> BOOLEAN]
      BY <2>4, Zenon DEF Visit
    <3>2. QED
      BY <2>4, <3>1 DEF Visit, OwnPartition
  <2>5. ASSUME NEW t \in Threads, FindHit(t) PROVE TypeOK'
    BY <2>5 DEF FindHit
  <2>6. ASSUME NEW t \in Threads, FindMiss(t) PROVE TypeOK'
    BY <2>6 DEF FindMiss
  <2>7. ASSUME NEW t \in Threads, Lock(t) PROVE TypeOK'
    BY <2>7 DEF Lock
  <2>8. ASSUME NEW t \in Threads, Emplace(t) PROVE TypeOK'
    BY <2>8 DEF Emplace
  <2>9. ASSUME NEW t \in Threads, Leave(t) PROVE TypeOK'
    BY <2>9 DEF Leave, NoBackend
  <2>10. ASSUME NEW t \in Threads, Throw(t) PROVE TypeOK'
    BY <2>10 DEF Throw, NoBackend
  <2>11. ASSUME NEW t \in Threads, NextManager(t) PROVE TypeOK'
    <3>1. again' \in [Threads -> BOOLEAN]
      BY <2>11, Zenon DEF NextManager
    <3>2. QED
      BY <2>11, <3>1 DEF NextManager, NoBackend
  <2>12. CASE UNCHANGED vars
    BY <2>12 DEF vars
  <2>13. QED
    BY <2>1, <2>2, <2>3, <2>4, <2>5, <2>6, <2>7, <2>8, <2>9, <2>10, <2>11, <2>12 DEF Next
<1>3. QED
  BY <1>1, <1>2, PTL DEF Spec

---------------------------------------------------------------------------
(* StoreInv is inductive: one step per action, one lemma per group of      *)
(* actions.                                                                *)

\* The empty store before the first run satisfies it.
LEMMA InitStore == Init => StoreInv
<1> SUFFICES ASSUME Init PROVE StoreInv
  OBVIOUS
<1>1. TypeOK
  BY InitType
<1>2. QED
  BY <1>1 DEF Init, StoreInv, VisitsExclusive, MutexInv, RefInv, FirstWalk,
              Covered, LaterWalks, SecondManager, BetweenRuns, Idle, NoBackend

\* The steps of apply()'s thread between the visits.
LEMMA WalkSteps ==
  ASSUME StoreInv, StartRun \/ NextWalk \/ Clear, TypeOK'
  PROVE  StoreInv'
<1> USE DEF StoreInv
<1>1. CASE StartRun
  BY <1>1 DEF StartRun, TypeOK, VisitsExclusive, MutexInv, RefInv, FirstWalk,
              Covered, LaterWalks, SecondManager, BetweenRuns, Idle
<1>2. CASE NextWalk
  BY <1>2 DEF NextWalk, GoesOn, TypeOK, VisitsExclusive, MutexInv, RefInv, FirstWalk,
              Covered, LaterWalks, SecondManager, BetweenRuns, Idle, LastWalk
<1>3. CASE Clear
  BY <1>3 DEF Clear, Leaves, TypeOK, VisitsExclusive, MutexInv, RefInv, FirstWalk,
              Covered, LaterWalks, SecondManager, BetweenRuns, Idle, NoBackend
<1>4. QED
  BY <1>1, <1>2, <1>3

\* A visit begins and ends.
LEMMA VisitSteps ==
  ASSUME StoreInv, NEW t \in Threads, TypeOK',
         (\E k \in Keys : Visit(t, k)) \/ NextManager(t) \/ Leave(t) \/ Throw(t)
  PROVE  StoreInv'
<1> USE DEF StoreInv
<1>1. ASSUME NEW k \in Keys, Visit(t, k) PROVE StoreInv'
  <2>1. SecondManager'
    <3>1. again' = [again EXCEPT ![t] = (walk = 2)] /\ walk' = walk
      BY <1>1 DEF Visit
    <3>2. \A u \in Threads : pc'[u] # "idle" => u = t \/ pc[u] # "idle"
      BY <1>1 DEF Visit, TypeOK
    <3>3. SUFFICES ASSUME NEW u \in Threads, pc'[u] # "idle", again'[u] PROVE walk = 2
      BY <3>1 DEF SecondManager
    <3>4. CASE u = t
      BY <3>1, <3>3, <3>4, Zenon DEF TypeOK
    <3>5. CASE u # t
      <4>1. again[u]
        BY <3>1, <3>3, <3>5, Zenon DEF TypeOK
      <4>2. QED
        BY <3>2, <3>3, <3>5, <4>1 DEF SecondManager
    <3>6. QED
      BY <3>4, <3>5
  <2>2. QED
    BY <1>1, <2>1 DEF Visit, OwnPartition, TypeOK, VisitsExclusive, MutexInv, RefInv, FirstWalk,
                      Covered, LaterWalks, BetweenRuns, Idle
<1>2. CASE Leave(t)
  BY <1>2 DEF Leave, TypeOK, VisitsExclusive, MutexInv, RefInv, FirstWalk,
              Covered, LaterWalks, SecondManager, BetweenRuns, Idle, NoBackend
<1>3. CASE Throw(t)
  BY <1>3 DEF Throw, TypeOK, VisitsExclusive, MutexInv, RefInv, FirstWalk,
              Covered, LaterWalks, SecondManager, BetweenRuns, Idle, NoBackend
<1>4. CASE NextManager(t)
  BY <1>4 DEF NextManager, TypeOK, VisitsExclusive, MutexInv, RefInv, FirstWalk,
              Covered, LaterWalks, SecondManager, BetweenRuns, Idle, NoBackend
<1>5. QED
  BY <1>1, <1>2, <1>3, <1>4

\* The lookup.
LEMMA GetSteps ==
  ASSUME StoreInv, NEW t \in Threads, TypeOK', Get(t)
  PROVE  StoreInv'
<1> USE DEF StoreInv
<1>1. CASE FindHit(t)
  BY <1>1 DEF FindHit, TypeOK, VisitsExclusive, MutexInv, RefInv, FirstWalk,
              Covered, LaterWalks, SecondManager, BetweenRuns, Idle
<1>2. CASE FindMiss(t)
  BY <1>2 DEF FindMiss, TypeOK, VisitsExclusive, MutexInv, RefInv, FirstWalk,
              Covered, LaterWalks, SecondManager, BetweenRuns, Idle
<1>3. CASE Lock(t)
  <2> USE DEF Lock, Unlocked, TypeOK
  <2>1. VisitsExclusive'
    BY <1>3 DEF VisitsExclusive
  <2>2. MutexInv'
    BY <1>3 DEF MutexInv
  <2>3. RefInv'
    BY <1>3 DEF RefInv, NoBackend
  <2>4. walk # 0 /\ ~(walk >= 2)
    BY <1>3 DEF LaterWalks, SecondManager, BetweenRuns, Idle
  <2>5. FirstWalk' /\ Covered'
    BY <1>3 DEF FirstWalk, Covered
  <2>6. LaterWalks' /\ BetweenRuns'
    BY <1>3, <2>4 DEF LaterWalks, BetweenRuns
  <2>7. SecondManager'
    BY <1>3 DEF SecondManager
  <2>8. QED
    BY <2>1, <2>2, <2>3, <2>5, <2>6, <2>7
<1>4. CASE Emplace(t)
  <2> USE DEF Emplace, TypeOK
  <2>1. walk = 1
    BY <1>4 DEF LaterWalks, SecondManager, BetweenRuns, Idle, LastWalk
  <2>2. memory[key[t]] = NoBackend /\ found[t] = memory
    BY <1>4, <2>1 DEF FirstWalk, MutexInv
  <2>3. /\ memory' = [memory EXCEPT ![key[t]] = ref[t]]
        /\ ref' = ref
    BY <1>4, <2>2 DEF KeyIsNew
  <2>4. VisitsExclusive'
    BY <1>4 DEF VisitsExclusive
  <2>5. MutexInv'
    BY <1>4, <2>3 DEF MutexInv
  <2>6. ref[t] # NoBackend /\ ref[t] <= made
    BY <1>4 DEF RefInv, Idle
  <2>7. RefInv'
    BY <1>4, <2>2, <2>3, <2>6 DEF RefInv, VisitsExclusive, MutexInv
  <2>8. FirstWalk' /\ Covered'
    <3>1. FirstWalk'
      BY <1>4, <2>1, <2>3 DEF FirstWalk, VisitsExclusive
    <3>2. \A k \in Keys : k = key[t] => memory'[k] # NoBackend
      BY <2>3, <2>6
    <3>3. \A k \in Keys : k # key[t] => memory'[k] = memory[k]
      BY <2>3
    <3>4. \A u \in Threads : pc'[u] # "idle" <=> pc[u] # "idle"
      BY <1>4
    <3>5. todo' = todo /\ key' = key /\ walk' = walk /\ (unwinding' <=> unwinding)
      BY <1>4, Zenon
    <3>6. Covered'
      BY <2>1, <3>2, <3>3, <3>4, <3>5 DEF Covered
    <3>7. QED
      BY <3>1, <3>6
  <2>9. LaterWalks' /\ BetweenRuns'
    BY <1>4, <2>1 DEF LaterWalks, BetweenRuns
  <2>10. SecondManager'
    BY <1>4 DEF SecondManager
  <2>11. QED
    BY <2>4, <2>5, <2>7, <2>8, <2>9, <2>10
<1>5. QED
  BY <1>1, <1>2, <1>3, <1>4 DEF Get

\* Every step preserves it.
LEMMA StoreStep == StoreInv /\ [Next]_vars /\ TypeOK' => StoreInv'
<1> SUFFICES ASSUME StoreInv, [Next]_vars, TypeOK' PROVE StoreInv'
  OBVIOUS
<1>1. CASE Next
  BY <1>1, WalkSteps, VisitSteps, GetSteps DEF Next, Get
<1>2. CASE UNCHANGED vars
  BY <1>2 DEF vars, StoreInv, TypeOK, VisitsExclusive, MutexInv, RefInv,
              FirstWalk, Covered, LaterWalks, SecondManager, BetweenRuns, Idle
<1>3. QED
  BY <1>1, <1>2

(* The store and the walks keep the relation the discipline rests on. *)
THEOREM StoreCorrect == Spec => []StoreInv
<1>1. QED
  BY InitStore, StoreStep, TypeCorrect, PTL DEF Spec

---------------------------------------------------------------------------
(* assert(ret.second) in DiscreteFunctionIO::get holds for any number of   *)
(* threads and cells, although the key is looked up outside the lock.      *)
THEOREM AssertionHolds == Spec => []EmplaceSucceeds
<1>1. StoreInv => EmplaceSucceeds
  <2> SUFFICES ASSUME StoreInv, NEW t \in Threads, pc[t] = "emplace"
               PROVE  found[t][key[t]] = NoBackend
    BY DEF EmplaceSucceeds, KeyIsNew
  <2>1. walk = 1
    BY DEF StoreInv, TypeOK, LaterWalks, SecondManager, BetweenRuns, Idle, LastWalk
  <2>2. QED
    BY <2>1 DEF StoreInv, FirstWalk, MutexInv
<1>2. QED
  BY <1>1, StoreCorrect, PTL

(* A solution manager's reference always is the live backend of its cell. *)
THEOREM ReferencesLive == Spec => []NoDanglingBackend
<1>1. StoreInv => NoDanglingBackend
  BY DEF StoreInv, RefInv, NoDanglingBackend
<1>2. QED
  BY <1>1, StoreCorrect, PTL

(* Assembly and reconstruction never insert into the store. *)
THEOREM ReadersOnlyRead == Spec => []LaterWalksOnlyRead
<1>1. StoreInv => LaterWalksOnlyRead
  BY DEF StoreInv, LaterWalks, LaterWalksOnlyRead
<1>2. QED
  BY <1>1, StoreCorrect, PTL

---------------------------------------------------------------------------
(* The lookup, with its unlocked find and its data race, is an atomic      *)
(* lookup of BackendMap: every step of the store is one step of the        *)
(* abstract map or leaves it unchanged.                                    *)

\* The empty store is the empty map.
LEMMA MapInit == Init => Abstract!Init
BY DEF Init, Abstract!Init, Held

\* Each step is a step of the map or invisible in it.
LEMMA MapStep ==
  ASSUME StoreInv, [Next]_vars
  PROVE  [Abstract!Next]_(Abstract!vars)
<1> USE DEF Abstract!vars, Held
<1>t. TypeOK
  BY DEF StoreInv
<1>1. CASE StartRun
  BY <1>1 DEF StartRun
<1>2. CASE NextWalk
  BY <1>2 DEF NextWalk, GoesOn
<1>3. CASE Clear
  <2>1. Abstract!Clear
    BY <1>3 DEF Clear, Leaves, Abstract!Clear, Idle
  <2>2. QED
    BY <2>1 DEF Abstract!Next
<1>4. ASSUME NEW t \in Threads, NEW k \in Keys, Visit(t, k)
      PROVE  UNCHANGED Abstract!vars
  <2>1. Held' = Held
    BY <1>4, <1>t DEF Visit, OwnPartition, TypeOK
  <2>2. QED
    BY <1>4, <2>1 DEF Visit
<1>5. ASSUME NEW t \in Threads, FindHit(t) PROVE Abstract!Next
  <2>1. PICK k \in Keys : k = key[t]
    BY <1>t DEF TypeOK
  <2>2. Abstract!Return(t, k)
    BY <1>5, <2>1, <1>t DEF FindHit, Abstract!Return, TypeOK
  <2>3. QED
    BY <2>2 DEF Abstract!Next
<1>6. ASSUME NEW t \in Threads, FindMiss(t) PROVE UNCHANGED Abstract!vars
  BY <1>6, <1>t DEF FindMiss, TypeOK
<1>7. ASSUME NEW t \in Threads, Lock(t) PROVE UNCHANGED Abstract!vars
  BY <1>7, <1>t DEF Lock, Unlocked, TypeOK
<1>8. ASSUME NEW t \in Threads, Emplace(t) PROVE Abstract!Next
  <2>1. walk = 1
    BY <1>8, <1>t DEF Emplace, StoreInv, TypeOK, LaterWalks, SecondManager, BetweenRuns, Idle, LastWalk
  <2>2. memory[key[t]] = NoBackend /\ found[t] = memory
    BY <1>8, <2>1 DEF Emplace, StoreInv, FirstWalk, MutexInv
  <2>3. /\ memory' = [memory EXCEPT ![key[t]] = ref[t]]
        /\ ref' = ref
    BY <1>8, <2>2, <1>t DEF Emplace, KeyIsNew, TypeOK
  <2>4. ref[t] \in Nat \ Abstract!Live
    BY <1>8, <1>t DEF Emplace, StoreInv, RefInv, Abstract!Live, TypeOK
  <2>5. PICK k \in Keys : k = key[t]
    BY <1>t DEF TypeOK
  <2>6. Abstract!Create(t, k)
    BY <1>8, <2>2, <2>3, <2>4, <2>5, <1>t DEF Emplace, Abstract!Create, TypeOK
  <2>7. QED
    BY <2>6 DEF Abstract!Next
<1>9. ASSUME NEW t \in Threads, Leave(t) PROVE Abstract!Next
  <2>1. Abstract!Release(t)
    BY <1>9, <1>t DEF Leave, Abstract!Release, StoreInv, RefInv, TypeOK
  <2>2. QED
    BY <2>1 DEF Abstract!Next
<1>10. ASSUME NEW t \in Threads, Throw(t) PROVE Abstract!Next
  <2>1. Abstract!Release(t)
    BY <1>10, <1>t DEF Throw, Abstract!Release, StoreInv, RefInv, TypeOK
  <2>2. QED
    BY <2>1 DEF Abstract!Next
<1>11. ASSUME NEW t \in Threads, NextManager(t) PROVE Abstract!Next
  <2>1. Abstract!Release(t)
    BY <1>11, <1>t DEF NextManager, Abstract!Release, StoreInv, RefInv, TypeOK
  <2>2. QED
    BY <2>1 DEF Abstract!Next
<1>12. CASE UNCHANGED vars
  BY <1>12 DEF vars
<1>13. QED
  BY <1>1, <1>2, <1>3, <1>4, <1>5, <1>6, <1>7, <1>8, <1>9, <1>10, <1>11, <1>12 DEF Next

(* The store implements the atomic map of backends. *)
THEOREM StoreImplementsMap == Spec => ImplementsBackendMap
<1>1. StoreInv /\ [Next]_vars => [Abstract!Next]_(Abstract!vars)
  BY MapStep
<1>2. QED
  BY <1>1, MapInit, StoreCorrect, PTL DEF Spec, ImplementsBackendMap, Abstract!Spec

(* No insertion is lost: a backend leaves the store only by the clear.     *)
THEOREM InsertionsKept == Spec => BackendsKept
<1> DEFINE Keep == \/ memory' = [k \in Keys |-> NoBackend]
                   \/ \A k \in Keys : memory[k] # NoBackend => memory'[k] = memory[k]
<1>1. ASSUME StoreInv, [Next]_vars PROVE [Keep]_vars
  <2>1. [Abstract!Next]_(Abstract!vars)
    BY <1>1, MapStep
  <2>2. CASE \E t \in Threads, k \in Keys : Abstract!Create(t, k)
    BY <2>2, <1>1 DEF Abstract!Create, StoreInv, TypeOK
  <2>3. CASE UNCHANGED memory
    BY <2>3
  <2>4. CASE Abstract!Clear
    BY <2>4 DEF Abstract!Clear
  <2>5. QED
    BY <2>1, <2>2, <2>3, <2>4 DEF Abstract!Next, Abstract!vars, Abstract!Return, Abstract!Release
<1>2. QED
  BY <1>1, StoreCorrect, PTL DEF Spec, BackendsKept
=============================================================================
