--------------------------- MODULE MCWorkerRegistry ---------------------------
EXTENDS WorkerRegistry

\* three listener sessions, established at increasing times
MCSessions == {1, 2, 3}
MCTs == [s \in MCSessions |-> s]

MCMaxRunsValues == {1, 2}
=============================================================================
