-------------------------- MODULE MCSearchPipeline --------------------------
(* The search pipeline on a small instance. *)
EXTENDS SearchPipeline

CONSTANTS s1, s2

\* A query that no regex matches, and one that selects both shards: with one
\* shard alone there is one merge task, and nothing late but the last look.
SomeSelections == {{}, {s1, s2}}
=============================================================================
