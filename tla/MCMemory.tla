------------------------------ MODULE MCMemory ------------------------------
(* The three places where threads share memory without a lock: the table of  *)
(* functions, the sheets and hash_items of one search, and the pool of hash  *)
(* sets.  They share no variable; a behaviour is about one of them, and the  *)
(* others stay as they were.  The values t1, t2, t3 are threads and shards,  *)
(* p1, p2, p3 pairs of functions and addresses of sets: interchangeable in   *)
(* each.                                                                     *)
EXTENDS FuncPairs, HashsetPool, ResultSheets, TLC

CONSTANTS t1, t2, t3, p1, p2, p3

VARIABLE part

funcVars == vars

MemoryInit ==
    /\ part \in {"functions", "sheets", "pool"}
    /\ Init /\ SheetsInit /\ PoolInit
    /\ part # "functions" => \A t, u \in Thread : wanted[t] = wanted[u]

MemoryNext ==
    /\ UNCHANGED part
    /\ \/ part = "functions" /\ Next /\ UNCHANGED <<resultVars, poolVars>>
       \/ part = "sheets" /\ SheetsNext /\ UNCHANGED <<funcVars, poolVars>>
       \/ part = "pool" /\ PoolNext /\ UNCHANGED <<funcVars, resultVars>>

MemorySpec == MemoryInit /\ [][MemoryNext]_<<part, funcVars, resultVars, poolVars>>

Symmetry == Permutations({t1, t2, t3}) \cup Permutations({p1, p2, p3})
=============================================================================
