----------------------------- MODULE BackendMap -----------------------------
(***************************************************************************)
(* What the in-memory store of local solutions promises its clients: a     *)
(* lookup is one atomic step that returns THE backend of its key, made on  *)
(* the first lookup since the last clear and never exchanged before the    *)
(* next one.  The store is cleared only when no client holds a backend.    *)
(* DiscreteFunctionIO, whose lookup is find / lock / emplace, implements   *)
(* this specification.                                                     *)
(***************************************************************************)
CONSTANTS
  Threads,   \* the threads of one rank
  Keys,      \* indices of the coarse cells, the keys of the store
  Backends,  \* identities of MemoryBackend objects
  None       \* no backend

VARIABLES
  memory,    \* the backend of each key, None before it is made
  held       \* the backend each thread works on, None when it works on none

vars == <<memory, held>>

Init ==
  /\ memory = [k \in Keys |-> None]
  /\ held = [t \in Threads |-> None]

Live == { memory[k] : k \in Keys } \ {None}

\* A lookup of a key that has a backend.
Return(t, k) ==
  /\ held[t] = None
  /\ memory[k] # None
  /\ held' = [held EXCEPT ![t] = memory[k]]
  /\ UNCHANGED memory

\* The first lookup of a key makes a backend no other key has.
Create(t, k) ==
  /\ held[t] = None
  /\ memory[k] = None
  /\ \E b \in Backends \ Live :
       /\ memory' = [memory EXCEPT ![k] = b]
       /\ held' = [held EXCEPT ![t] = b]

Release(t) ==
  /\ held[t] # None
  /\ held' = [held EXCEPT ![t] = None]
  /\ UNCHANGED memory

Clear ==
  /\ \A t \in Threads : held[t] = None
  /\ memory' = [k \in Keys |-> None]
  /\ UNCHANGED held

Next ==
  \/ \E t \in Threads, k \in Keys : Return(t, k) \/ Create(t, k)
  \/ \E t \in Threads : Release(t)
  \/ Clear

Spec == Init /\ [][Next]_vars
=============================================================================
