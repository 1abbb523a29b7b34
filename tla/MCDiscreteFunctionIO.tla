------------------------ MODULE MCDiscreteFunctionIO ------------------------
(* Small instance of DiscreteFunctionIO for TLC. *)
EXTENDS DiscreteFunctionIO

CONSTANTS t1, t2, k1, k2, k3

MCThreads == {t1, t2}
MCKeys == {k1, k2, k3}

\* TLC enumerates the backends of the abstract specification: each run makes
\* at most one per visit of a cell.
MCBackends == 1 .. 2 * 3 * 3
MCAbstract == INSTANCE BackendMap WITH
                Threads <- MCThreads, Keys <- MCKeys, Backends <- MCBackends,
                None <- NoBackend, memory <- memory, held <- Held

\* ImplementsBackendMap over those backends: DiscreteFunctionIO::get is an
\* atomic lookup, whatever the finds and emplaces of the threads overlap.
MCImplementsBackendMap == MCAbstract!Spec
=============================================================================
