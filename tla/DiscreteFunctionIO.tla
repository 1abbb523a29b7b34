------------------------- MODULE DiscreteFunctionIO -------------------------
(***************************************************************************)
(* The process-wide store of local MsFEM solutions (common/df_io.hh) and   *)
(* the way Elliptic_MsFEM_Solver::apply uses it.                           *)
(*                                                                         *)
(* DiscreteFunctionIO::get looks its key up WITHOUT the mutex, then locks, *)
(* makes a backend, emplaces it and asserts that the key was new.  Nothing *)
(* re-checks the key under the lock, and an unlocked find may overlap an   *)
(* emplace of another thread, which is a data race on the unordered_map.   *)
(* Two things keep the assertion true: a walk hands every coarse cell to   *)
(* one thread only, and the walks follow one another.                      *)
(*                                                                         *)
(* A run of the solver is three walks over the interior coarse cells:      *)
(* 1 solves the local problems (all threads), 2 assembles the coarse       *)
(* system (all threads), 3 builds the corrections (the main thread); then, *)
(* or as soon as an exception has left a walk, the ClearGuard empties the  *)
(* store.  The data race is a choice between the outcomes the build can    *)
(* produce that let the program go on: a find that overlaps an emplace may *)
(* miss a key that is present, an emplace that overlaps another one may    *)
(* lose it.                                                                *)
(***************************************************************************)
EXTENDS Naturals

CONSTANTS
  Threads,     \* the threads of one rank
  MainThread,  \* the one that runs apply() and the serial walk
  Keys,        \* leaf indices of the interior coarse cells
  MaxRuns      \* bound: calls of apply() in one process

ASSUME MainAssumption == MainThread \in Threads
ASSUME KeysAssumption == Keys # {}
ASSUME RunsAssumption == MaxRuns \in Nat

VARIABLES
  memory,      \* memory_: the backend of every key, NoBackend if absent
  mutex,       \* mutex_: the threads inside lock_guard's scope
  pc,          \* where each thread is in its visit of a cell
  key,         \* the cell a thread visits
  found,       \* the map a thread's emplace works on
  ref,         \* the backend a thread's get has made or returned
  again,       \* the visit makes another solution manager after this one
  made,        \* backends made so far, the identity of the next one
  walk,        \* 0 between runs, else the walk of the run
  todo,        \* cells of the walk no thread has taken
  unwinding,   \* an exception has left a visit
  runs         \* runs begun

vars == <<memory, mutex, pc, key, found, ref, again, made, walk, todo, unwinding, runs>>

NoBackend == 0
LastWalk == 3

\* Walk 3 is a plain loop of apply()'s thread, the others use the thread pool.
Workers == IF walk = LastWalk THEN {MainThread} ELSE Threads

Init ==
  /\ memory = [k \in Keys |-> NoBackend]
  /\ mutex = {}
  /\ pc = [t \in Threads |-> "idle"]
  /\ key = [t \in Threads |-> CHOOSE k \in Keys : TRUE]   \* of no visit yet
  /\ found = [t \in Threads |-> [k \in Keys |-> NoBackend]]
  /\ ref = [t \in Threads |-> NoBackend]
  /\ again = [t \in Threads |-> FALSE]
  /\ made = 0
  /\ walk = 0
  /\ todo = {}
  /\ unwinding = FALSE
  /\ runs = 0

\* Wrong: a walk that throws does not wait for the other visits.
NotJoined == TRUE

\* No thread is in a visit.
Idle == \A t \in Threads : pc[t] = "idle"

---------------------------------------------------------------------------
(* The walks of Elliptic_MsFEM_Solver::apply.                              *)

\* apply() is entered: the guard is made and the first walk begins.
StartRun ==
  /\ walk = 0
  /\ runs < MaxRuns
  /\ runs' = runs + 1
  /\ walk' = 1
  /\ todo' = Keys
  /\ unwinding' = FALSE
  /\ UNCHANGED <<memory, mutex, pc, key, found, ref, again, made>>

\* Wrong: a walk follows a failed one.
GoesOnAfterThrow == walk \in 1 .. LastWalk - 1 /\ todo = {} /\ Idle

\* A walk has visited every cell and returned; another one follows.
GoesOn == walk \in 1 .. LastWalk - 1 /\ todo = {} /\ Idle /\ ~unwinding

NextWalk ==
  /\ GoesOn
  /\ walk' = walk + 1
  /\ todo' = Keys
  /\ UNCHANGED <<memory, mutex, pc, key, found, ref, again, made, unwinding, runs>>

\* Wrong: two threads may be given the same cell.
SharedPartition(k) == todo

\* What is left of the walk: every cell is a partition of its own.
OwnPartition(k) == todo \ {k}

\* A worker takes a cell of the walk, so one thread visits it.  Its solution manager calls memory().
Visit(t, k) ==
  /\ walk > 0
  /\ pc[t] = "idle"
  /\ t \in Workers
  /\ k \in todo
  /\ todo' = OwnPartition(k)
  /\ key' = [key EXCEPT ![t] = k]
  /\ pc' = [pc EXCEPT ![t] = "find"]
  /\ again' = [again EXCEPT ![t] = (walk = 2)]
  /\ UNCHANGED <<memory, mutex, found, ref, made, walk, unwinding, runs>>

\* In the assembly a visit has a manager for the matrix and then, the first
\* one being gone, one for the right hand side.
NextManager(t) ==
  /\ pc[t] = "use"
  /\ again[t]
  /\ again' = [again EXCEPT ![t] = FALSE]
  /\ ref' = [ref EXCEPT ![t] = NoBackend]
  /\ pc' = [pc EXCEPT ![t] = "find"]
  /\ UNCHANGED <<memory, mutex, key, found, made, walk, todo, unwinding, runs>>

\* The visit ends and its solution manager with it.
Leave(t) ==
  /\ pc[t] = "use"
  /\ ~again[t]
  /\ pc' = [pc EXCEPT ![t] = "idle"]
  /\ ref' = [ref EXCEPT ![t] = NoBackend]
  /\ UNCHANGED <<memory, mutex, key, found, again, made, walk, todo, unwinding, runs>>

\* The visit throws (a local solver fails, a function is missing): the walk
\* hands out no further cell, visits under way end first.
Throw(t) ==
  /\ pc[t] = "use"
  /\ pc' = [pc EXCEPT ![t] = "idle"]
  /\ ref' = [ref EXCEPT ![t] = NoBackend]
  /\ todo' = {}
  /\ unwinding' = TRUE
  /\ UNCHANGED <<memory, mutex, key, found, again, made, walk, runs>>

\* Wrong: the store is cleared at the end of apply() only.
LeavesAtEnd == todo = {} /\ Idle /\ walk = LastWalk

\* apply() is left, one way or the other, when no visit is under way.
Leaves == todo = {} /\ Idle /\ (walk = LastWalk \/ unwinding)

\* ~ClearGuard, on the normal and on the exceptional way out of apply().
Clear ==
  /\ walk > 0
  /\ Leaves
  /\ memory' = [k \in Keys |-> NoBackend]
  /\ walk' = 0
  /\ UNCHANGED <<mutex, pc, key, found, ref, again, made, todo, unwinding, runs>>

---------------------------------------------------------------------------
(* DiscreteFunctionIO::get                                                 *)

\* map.find finds the key and get returns its backend.
FindHit(t) ==
  /\ pc[t] = "find"
  /\ memory[key[t]] # NoBackend
  /\ ref' = [ref EXCEPT ![t] = memory[key[t]]]
  /\ pc' = [pc EXCEPT ![t] = "use"]
  /\ UNCHANGED <<memory, mutex, key, found, again, made, walk, todo, unwinding, runs>>

\* map.find finds nothing: the key is absent, or an emplace is under way and
\* the reader meets a half-linked bucket.
FindMiss(t) ==
  /\ pc[t] = "find"
  /\ memory[key[t]] = NoBackend \/ mutex # {}
  /\ pc' = [pc EXCEPT ![t] = "lock"]
  /\ UNCHANGED <<memory, mutex, key, found, ref, again, made, walk, todo, unwinding, runs>>

\* Wrong: no lock.
NeverHeld == TRUE

\* The mutex can be locked.
Unlocked == mutex = {}

\* lock_guard, make_shared of a new backend, and the beginning of the emplace.
Lock(t) ==
  /\ pc[t] = "lock"
  /\ Unlocked
  /\ mutex' = mutex \cup {t}
  /\ made' = made + 1
  /\ ref' = [ref EXCEPT ![t] = made']
  /\ found' = [found EXCEPT ![t] = memory]
  /\ pc' = [pc EXCEPT ![t] = "emplace"]
  /\ UNCHANGED <<memory, key, again, walk, todo, unwinding, runs>>

\* ret.second: the key was new to the map.
KeyIsNew(t) == found[t][key[t]] = NoBackend

\* The end of the emplace: a new key gets the new backend, an old one keeps
\* its own, and get returns the one that is in the map; the guard unlocks.
Emplace(t) ==
  /\ pc[t] = "emplace"
  /\ memory' = IF KeyIsNew(t) THEN [found[t] EXCEPT ![key[t]] = ref[t]] ELSE found[t]
  /\ ref' = [ref EXCEPT ![t] = memory'[key[t]]]
  /\ mutex' = mutex \ {t}
  /\ pc' = [pc EXCEPT ![t] = "use"]
  /\ UNCHANGED <<key, found, again, made, walk, todo, unwinding, runs>>

Get(t) == FindHit(t) \/ FindMiss(t) \/ Lock(t) \/ Emplace(t)

---------------------------------------------------------------------------
Next ==
  \/ StartRun
  \/ NextWalk
  \/ Clear
  \/ \E t \in Threads, k \in Keys : Visit(t, k)
  \/ \E t \in Threads : NextManager(t)
  \/ \E t \in Threads : FindHit(t)
  \/ \E t \in Threads : FindMiss(t)
  \/ \E t \in Threads : Lock(t)
  \/ \E t \in Threads : Emplace(t)
  \/ \E t \in Threads : Leave(t)
  \/ \E t \in Threads : Throw(t)

Spec == Init /\ [][Next]_vars

\* A visit under way goes on, a walk with cells left gives them to a worker,
\* and apply()'s thread proceeds when a walk is over.
Fairness ==
  /\ \A t \in Threads : WF_vars(Get(t)) /\ WF_vars(NextManager(t) \/ Leave(t))
  /\ WF_vars(\E k \in Keys : Visit(MainThread, k))
  /\ WF_vars(NextWalk)
  /\ WF_vars(Clear)

FairSpec == Spec /\ Fairness

---------------------------------------------------------------------------
TypeOK ==
  /\ memory \in [Keys -> Nat]
  /\ mutex \in SUBSET Threads
  /\ pc \in [Threads -> {"idle", "find", "lock", "emplace", "use"}]
  /\ key \in [Threads -> Keys]
  /\ found \in [Threads -> [Keys -> Nat]]
  /\ ref \in [Threads -> Nat]
  /\ again \in [Threads -> BOOLEAN]
  /\ made \in Nat
  /\ walk \in 0 .. LastWalk
  /\ todo \in SUBSET Keys
  /\ unwinding \in BOOLEAN
  /\ runs \in Nat

\* assert(ret.second) in get: although nothing looks the key up again under
\* the lock, no two threads ever emplace a backend for the same cell.
EmplaceSucceeds == \A t \in Threads : pc[t] = "emplace" => KeyIsNew(t)

\* The backend a solution manager refers to is the one the store has for its
\* cell: it is neither destroyed by a clear nor replaced behind its back.
NoDanglingBackend ==
  \A t \in Threads : pc[t] = "use" => /\ ref[t] # NoBackend
                                      /\ ref[t] = memory[key[t]]

\* A backend, once in the store, stays there until everything is cleared: no
\* emplace loses the insertion of another thread.
BackendsKept ==
  [][ \/ memory' = [k \in Keys |-> NoBackend]
      \/ \A k \in Keys : memory[k] # NoBackend => memory'[k] = memory[k] ]_vars

\* Only the first walk makes backends: the assembly and the reconstruction,
\* which read the stored functions by index, never meet a fresh empty backend.
LaterWalksOnlyRead ==
  \A t \in Threads : walk >= 2 => pc[t] \notin {"lock", "emplace"}

\* Every run, also one left by an exception, ends with an empty store.
RunEndsClean ==
  walk > 0 ~> (walk = 0 /\ \A k \in Keys : memory[k] = NoBackend)

\* A client holds a backend from the step in which its lookup returns it.
Held == [t \in Threads |-> IF pc[t] = "use" THEN ref[t] ELSE NoBackend]

Abstract == INSTANCE BackendMap WITH
              Backends <- Nat, None <- NoBackend, memory <- memory, held <- Held

\* The store is an atomic map from cells to backends.
ImplementsBackendMap == Abstract!Spec
=============================================================================
