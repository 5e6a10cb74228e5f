----------------------------- MODULE HashsetPool -----------------------------
(***************************************************************************)
(* The pool of hash sets: grab_hashset_from_pool and                        *)
(* return_hashset_to_pool of hashset.c, as hashset_create on the main       *)
(* thread and hashset_destroy on the threads of the pool call them.  A step *)
(* is one access to shared memory.                                          *)
(***************************************************************************)
EXTENDS Naturals, FiniteSets

CONSTANTS
    HashSet,   \* addresses that malloc can return
    Destroyer, \* threads that run hashset_destroy
    Places,    \* MAX_POOLED_HASHSETS
    Null

VARIABLES
    hashset_pool,
    pool_pos,  \* how many places are taken
    creating,  \* the main thread in hashset_create: "no", "load", "swap", "read"
    seen,      \* current_pos of each thread and of the main thread
    inUse,     \* sets the main thread has created and not given up
    doomed,    \* sets whose hashset_destroy is queued
    returning, \* the set that each thread is returning, or Null
    at,        \* where that thread is: "load", "swap", "store"
    allocated, \* sets that malloc has returned and nobody freed
    raced      \* a place was taken before its set was stored, or stored before
               \* the set that was taken from it was read

poolVars == <<hashset_pool, pool_pos, creating, seen, inUse, doomed, returning, at,
              allocated, raced>>

Main == "main"

ASSUME PoolAssumption ==
    /\ Places \in Nat
    /\ Null \notin HashSet
    /\ Main \notin Destroyer

PoolTypeOK ==
    /\ hashset_pool \in [0 .. Places - 1 -> HashSet \cup {Null}]
    /\ pool_pos \in 0 .. Places
    /\ creating \in {"no", "load", "swap", "read"}
    /\ seen \in [Destroyer \cup {Main} -> 0 .. Places]
    /\ inUse \subseteq HashSet /\ doomed \subseteq HashSet /\ allocated \subseteq HashSet
    /\ returning \in [Destroyer -> HashSet \cup {Null}]
    /\ at \in [Destroyer -> {"load", "swap", "store"}]
    /\ raced \in BOOLEAN

PoolInit ==
    /\ hashset_pool = [p \in 0 .. Places - 1 |-> Null]
    /\ pool_pos = 0 /\ creating = "no"
    /\ seen = [t \in Destroyer \cup {Main} |-> 0]
    /\ inUse = {} /\ doomed = {} /\ allocated = {} /\ raced = FALSE
    /\ returning = [t \in Destroyer |-> Null]
    /\ at = [t \in Destroyer |-> "load"]

-----------------------------------------------------------------------------
(* The main thread.                                                        *)

Create ==
    /\ creating = "no" /\ creating' = "load"
    /\ UNCHANGED <<hashset_pool, pool_pos, seen, inUse, doomed, returning, at, allocated, raced>>

\* The relaxed load of the position; a failed exchange loads it again.
GrabLoad ==
    /\ creating = "load"
    /\ seen' = [seen EXCEPT ![Main] = pool_pos]
    /\ creating' = "swap"
    /\ UNCHANGED <<hashset_pool, pool_pos, inUse, doomed, returning, at, allocated, raced>>

\* hashset_new
New ==
    /\ \E s \in HashSet \ allocated :
          inUse' = inUse \cup {s} /\ allocated' = allocated \cup {s}
    /\ creating' = "no"

\* The loop of grab_hashset_from_pool; an empty pool ends it.
GrabSwap ==
    /\ creating = "swap"
    /\ IF seen[Main] = 0 THEN New /\ UNCHANGED <<pool_pos, seen, raced>>
       ELSE /\ UNCHANGED <<inUse, allocated>>
            /\ IF pool_pos = seen[Main]
               THEN /\ pool_pos' = pool_pos - 1 /\ creating' = "read"
                    /\ raced' = (raced \/ \E t \in Destroyer :
                                             at[t] = "store" /\ seen[t] = pool_pos - 1)
                    /\ UNCHANGED seen
               ELSE seen' = [seen EXCEPT ![Main] = pool_pos]
                    /\ UNCHANGED <<pool_pos, creating, raced>>
    /\ UNCHANGED <<hashset_pool, doomed, returning, at>>

\* return *next_pos; hashset_create makes a new set if that is NULL.
GrabRead ==
    /\ creating = "read"
    /\ LET s == hashset_pool[seen[Main] - 1] IN
          IF s = Null THEN New
          ELSE inUse' = inUse \cup {s} /\ creating' = "no" /\ UNCHANGED allocated
    /\ UNCHANGED <<hashset_pool, pool_pos, seen, doomed, returning, at, raced>>

\* A provider is replaced, or a search dropped.
GiveUp(s) ==
    /\ s \in inUse
    /\ inUse' = inUse \ {s} /\ doomed' = doomed \cup {s}
    /\ UNCHANGED <<hashset_pool, pool_pos, creating, seen, returning, at, allocated, raced>>

-----------------------------------------------------------------------------
(* The threads that destroy.                                               *)

\* hashset_destroy has reset the set and offers it to the pool.
Destroy(t, s) ==
    /\ returning[t] = Null /\ s \in doomed
    /\ doomed' = doomed \ {s}
    /\ returning' = [returning EXCEPT ![t] = s]
    /\ seen' = [seen EXCEPT ![t] = pool_pos]
    /\ at' = [at EXCEPT ![t] = "swap"]
    /\ UNCHANGED <<hashset_pool, pool_pos, creating, inUse, allocated, raced>>

Done(t) ==
    /\ returning' = [returning EXCEPT ![t] = Null]
    /\ at' = [at EXCEPT ![t] = "load"]
    /\ seen' = [seen EXCEPT ![t] = 0]

\* Faulty variant: the position is stored, not exchanged.
Advance_Store(t) == pool_pos' = seen[t] + 1 /\ at' = [at EXCEPT ![t] = "store"] /\ UNCHANGED seen

\* compare_exchange: a failure loads the position again.
Advance(t) ==
    IF pool_pos = seen[t]
    THEN pool_pos' = pool_pos + 1 /\ at' = [at EXCEPT ![t] = "store"] /\ UNCHANGED seen
    ELSE seen' = [seen EXCEPT ![t] = pool_pos] /\ UNCHANGED <<pool_pos, at>>

\* The loop of return_hashset_to_pool; a full pool has the set freed.
ReturnSwap(t) ==
    /\ returning[t] # Null /\ at[t] = "swap"
    /\ IF seen[t] = Places
       THEN /\ allocated' = allocated \ {returning[t]}
            /\ Done(t) /\ UNCHANGED pool_pos
       ELSE Advance(t) /\ UNCHANGED <<allocated, returning>>
    /\ UNCHANGED <<hashset_pool, creating, inUse, doomed, raced>>

\* Only now does the place hold the set.
ReturnStore(t) ==
    /\ at[t] = "store"
    /\ hashset_pool' = [hashset_pool EXCEPT ![seen[t]] = returning[t]]
    /\ Done(t)
    /\ raced' = (raced \/ (creating = "read" /\ seen[t] = seen[Main] - 1))
    /\ UNCHANGED <<pool_pos, creating, inUse, doomed, allocated>>

\* The behaviours end with a race: from there on a set may be shared or lost.
PoolNext ==
    /\ ~ raced
    /\ \/ Create \/ GrabLoad \/ GrabSwap \/ GrabRead
       \/ \E s \in HashSet : GiveUp(s) \/ \E t \in Destroyer : Destroy(t, s)
       \/ \E t \in Destroyer : ReturnSwap(t) \/ ReturnStore(t)

PoolSpec == PoolInit /\ [][PoolNext]_poolVars

-----------------------------------------------------------------------------
(* Properties.                                                             *)

\* The places whose sets are stored.
Stored == {p \in 0 .. pool_pos - 1 : \A t \in Destroyer : at[t] = "store" => seen[t] # p}

\* As long as main thread and destroyers do not meet in one place of the pool,
\* every set that is allocated has one holder: the main thread, a task, or one
\* place.  Two searches never share a set, none leaks and none is used after it
\* was freed, however many threads return sets at once.
SetsHaveOneHolder ==
    ~ raced =>
        /\ inUse \cup doomed \subseteq allocated
        /\ \A s \in allocated :
              Cardinality({p \in Stored : hashset_pool[p] = s})
              + Cardinality({t \in Destroyer : returning[t] = s})
              + (IF s \in inUse THEN 1 ELSE 0) + (IF s \in doomed THEN 1 ELSE 0)
              + (IF creating = "read" /\ hashset_pool[seen[Main] - 1] = s THEN 1 ELSE 0) = 1

=============================================================================
