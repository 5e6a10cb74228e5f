--------------------------- MODULE ParallelMerge ---------------------------
(***************************************************************************)
(* merge_hashset_parallel of hashset.c: the merge tasks of one hash set    *)
(* sort its items by hash, drop all but the best item of each hash, and    *)
(* sort the rest by score, in lock step over a two-counter futex barrier.  *)
(*                                                                         *)
(* The work between two barriers is one step: the tasks then write to      *)
(* disjoint places and read what was written before the last barrier.  The *)
(* barrier itself is modelled down to the futex calls.                     *)
(*                                                                         *)
(* A radix sort takes one pass per digit, four over the hash and two over  *)
(* the score in the code, here two and two over digits of base 2.          *)
(***************************************************************************)
EXTENDS Integers, FiniteSets

CONSTANTS
    MaxItems,     \* bound on the items of a set
    MergeWorkers, \* set->merge_workers
    Hashes,       \* the hashes of the items inserted
    Scores        \* their scores

ASSUME MergeAssumption ==
    /\ MaxItems \in Nat
    /\ MergeWorkers \in Nat \ {0}
    /\ Hashes \subseteq 0..3
    /\ Scores \subseteq 0..3

Tid == 0..MergeWorkers - 1
\* An item of hash_items.  id stands for the sheet and item bits; the order of
\* the 64-bit words is hash, then score, then id.  dup marks the items whose
\* lower half was cleared; it is not part of the word.
Item == [hash : 0..3, score : 0..3, id : 0..MaxItems, dup : BOOLEAN]

Better(x, y) == x.score > y.score \/ (x.score = y.score /\ x.id > y.id)

BestOf(items) == CHOOSE x \in items : \A y \in items : x = y \/ Better(x, y)

VARIABLES
    n,        \* hash_size
    input,    \* the items as the searches inserted them
    buf,      \* hash_items, tmp, score_tmp and dest
    counts,   \* set->counts
    from, to, \* start and end of each task
    dups,     \* local_dups of each task
    seg,      \* how many barriers each task has passed or is at
    pc,       \* where in its segment or in the barrier each task is
    seen,     \* the counter as the task last loaded it
    bar,      \* set->bar
    size      \* set->size

vars == <<n, input, buf, counts, from, to, dups, seg, pc, seen, bar, size>>

Buffer == {"hash_items", "tmp", "score_tmp", "dest"}

PC == {"work", "arrive", "load", "wait", "asleep", "release", "wake", "subtract", "done"}

Segment == 0..7

\* Passes 0 and 1 sort by hash, 2 and 3 by score.
Pass(s) == s \div 2
Source(p) == CASE p = 0 -> "hash_items" [] p = 1 -> "tmp" [] p = 2 -> "hash_items" [] p = 3 -> "score_tmp"
Dest(p) == CASE p = 0 -> "tmp" [] p = 1 -> "hash_items" [] p = 2 -> "score_tmp" [] p = 3 -> "dest"

\* The bucket of an item: a digit of the hash, lowest first, or the complement
\* of a digit of the score.
Key(p, x) ==
    CASE p = 0 -> x.hash % 2
      [] p = 1 -> x.hash \div 2
      [] p = 2 -> 1 - (x.score % 2)
      [] p = 3 -> 1 - (x.score \div 2)

Smaller(x, y) == IF x < y THEN x ELSE y

Chunk(k) == (k + MergeWorkers - 1) \div MergeWorkers

\* What a word of a fresh buffer holds does not matter.
Blank == [hash |-> 0, score |-> 0, id |-> 0, dup |-> FALSE]

TypeOK ==
    /\ n \in 0..MaxItems
    /\ input \in [0..n - 1 -> Item]
    /\ buf \in [Buffer -> [0..n - 1 -> Item]]
    /\ counts \in [Tid -> [{0, 1} -> 0..MaxItems]]
    /\ from \in [Tid -> Nat]
    /\ to \in [Tid -> 0..n]
    /\ dups \in [Tid -> 0..MaxItems]
    /\ seg \in [Tid -> Segment]
    /\ pc \in [Tid -> PC]
    /\ seen \in [Tid -> 0..MergeWorkers]
    /\ bar \in [{0, 1} -> 0..MergeWorkers]
    /\ size \in -1 - MaxItems..MaxItems

Init ==
    /\ n \in 0..MaxItems
    /\ \E hash \in [0..n - 1 -> Hashes], score \in [0..n - 1 -> Scores] :
          input = [k \in 0..n - 1 |-> [hash |-> hash[k], score |-> score[k],
                                       id |-> k, dup |-> FALSE]]
    /\ buf = [x \in Buffer |-> IF x = "hash_items" THEN input ELSE [k \in 0..n - 1 |-> Blank]]
    /\ counts = [t \in Tid |-> [d \in {0, 1} |-> 0]]
    /\ from = [t \in Tid |-> t * Chunk(n)]
    /\ to = [t \in Tid |-> Smaller((t + 1) * Chunk(n), n)]
    /\ dups = [t \in Tid |-> 0]
    /\ seg = [t \in Tid |-> 0]
    /\ pc = [t \in Tid |-> "work"]
    /\ seen = [t \in Tid |-> 0]
    /\ bar = [i \in {0, 1} |-> 0]
    /\ size = -1

-----------------------------------------------------------------------------
(* The work between barriers.                                              *)

\* Where the run of equal hashes at k ends.
RunEnd(items, k) ==
    CHOOSE e \in k..n : /\ \A i \in k..e - 1 : items[i].hash = items[k].hash
                        /\ e = n \/ items[e].hash # items[k].hash

\* Both ends of a chunk move on past a run of equal hashes: the task leaves a
\* run that began in an earlier chunk to the task of that chunk, and goes on to
\* the end of the last run of its own.
Boundary(items, k) ==
    IF 0 < k /\ k < n /\ items[k].hash = items[k - 1].hash THEN RunEnd(items, k) ELSE k

\* Faulty variant: the last of a run is kept, whichever is best.
Deduplicate_KeepsLast(items, lo, hi) ==
    [k \in 0..n - 1 |->
        IF k \in lo..hi - 2 /\ items[k + 1].hash = items[k].hash
        THEN [hash |-> items[k].hash, score |-> 0, id |-> 0, dup |-> TRUE] ELSE items[k]]

\* The loop over hash_items: every item but the last of a run is cleared, and
\* the last place holds the best of the run.
Deduplicate(items, lo, hi) ==
    [k \in 0..n - 1 |->
        IF k \notin lo..hi - 1 THEN items[k]
        ELSE IF k + 1 < hi /\ items[k + 1].hash = items[k].hash
        THEN [hash |-> items[k].hash, score |-> 0, id |-> 0, dup |-> TRUE]
        ELSE BestOf({items[i] : i \in {j \in lo..k : items[j].hash = items[k].hash}})]

Repeats(items, lo, hi) == {k \in lo..hi - 2 : items[k].hash = items[k + 1].hash}

\* How many of the items lo..hi-1 fall in bucket d.
InBucket(p, items, lo, hi, d) == Cardinality({k \in lo..hi - 1 : Key(p, items[k]) = d})

\* The sum of counts[s][d] over the tasks before t.
Total(t, d) == Cardinality({c \in Tid \X (1..MaxItems) : c[1] < t /\ c[2] <= counts[c[1]][d]})

\* parallel_prefix_sum: the smaller buckets of all tasks come first, then this
\* bucket of the earlier tasks.
Offset(t, d) == (IF d = 1 THEN Total(MergeWorkers, 0) ELSE 0) + Total(t, d)

\* Counting, before the first barrier of a pass; on the way into the third
\* pass the duplicates are dropped.
Count(t) ==
    /\ pc[t] = "work" /\ seg[t] % 2 = 0
    /\ pc' = [pc EXCEPT ![t] = "arrive"]
    /\ LET p     == Pass(seg[t])
           items == buf[Source(p)]
           lo    == IF p = 2 THEN Boundary(items, from[t]) ELSE from[t]
           hi    == IF p = 2 THEN Boundary(items, to[t]) ELSE to[t]
           kept  == IF p = 2 THEN Deduplicate(items, lo, hi) ELSE items
       IN  /\ from' = [from EXCEPT ![t] = lo]
           /\ to' = [to EXCEPT ![t] = hi]
           /\ buf' = [buf EXCEPT ![Source(p)] = kept]
           /\ dups' = IF p = 2 THEN [dups EXCEPT ![t] = Cardinality(Repeats(items, lo, hi))]
                      ELSE dups
           /\ counts' = [counts EXCEPT ![t] = [d \in {0, 1} |-> InBucket(p, kept, lo, hi, d)]]
    /\ UNCHANGED <<n, input, seg, seen, bar, size>>

\* Moving the items to their places, after it.
Scatter(t) ==
    /\ pc[t] = "work" /\ seg[t] % 2 = 1
    /\ pc' = [pc EXCEPT ![t] = "arrive"]
    /\ LET p        == Pass(seg[t])
           items    == buf[Source(p)]
           mine     == from[t]..to[t] - 1
           place(k) == Offset(t, Key(p, items[k])) + InBucket(p, items, from[t], k, Key(p, items[k]))
       IN  buf' = [buf EXCEPT ![Dest(p)] =
                     [x \in 0..n - 1 |-> IF \E k \in mine : place(k) = x
                                         THEN items[CHOOSE k \in mine : place(k) = x]
                                         ELSE @[x]]]
    /\ UNCHANGED <<n, input, counts, from, to, dups, seg, seen, bar, size>>

-----------------------------------------------------------------------------
(* The barrier.  The counters alternate: barrier s uses bar[s % 2].        *)

Bi(t) == seg[t] % 2

Enter(t) == /\ pc' = [pc EXCEPT ![t] = "work"]
            /\ seg' = [seg EXCEPT ![t] = @ + 1]

data == <<n, input, buf, counts, from, to, dups>>

\* Faulty variant: the last but one is taken for the last.
Arrive_OneShort(t) ==
    /\ pc[t] = "arrive" /\ seg[t] # 7
    /\ bar' = [bar EXCEPT ![Bi(t)] = @ + 1]
    /\ pc' = [pc EXCEPT ![t] = IF bar[Bi(t)] = MergeWorkers - 2 THEN "release" ELSE "load"]
    /\ UNCHANGED <<data, seg, seen, size>>

\* barrier_check_last in barrier_wait
Arrive(t) ==
    /\ pc[t] = "arrive" /\ seg[t] # 7
    /\ bar' = [bar EXCEPT ![Bi(t)] = @ + 1]
    /\ pc' = [pc EXCEPT ![t] = IF bar[Bi(t)] = MergeWorkers - 1 THEN "release" ELSE "load"]
    /\ UNCHANGED <<data, seg, seen, size>>

\* barrier_release: the store, then the futex call.
Release(t) ==
    /\ pc[t] = "release"
    /\ bar' = [bar EXCEPT ![Bi(t)] = 0]
    /\ pc' = [pc EXCEPT ![t] = "wake"]
    /\ UNCHANGED <<data, seg, seen, size>>

\* Faulty variant: FUTEX_WAKE of one.
Wake_One(t) ==
    /\ pc[t] = "wake"
    /\ LET asleep == {s \in Tid : pc[s] = "asleep" /\ Bi(s) = Bi(t)}
           woken  == IF asleep = {} THEN t ELSE CHOOSE s \in asleep : TRUE
       IN  pc' = [s \in Tid |-> IF s = t THEN "work" ELSE IF s = woken THEN "load" ELSE pc[s]]
    /\ seg' = [seg EXCEPT ![t] = @ + 1]
    /\ UNCHANGED <<data, seen, bar, size>>

Wake(t) ==
    /\ pc[t] = "wake"
    /\ pc' = [s \in Tid |-> IF s = t THEN "work"
                            ELSE IF pc[s] = "asleep" /\ Bi(s) = Bi(t) THEN "load"
                            ELSE pc[s]]
    /\ seg' = [seg EXCEPT ![t] = @ + 1]
    /\ UNCHANGED <<data, seen, bar, size>>

\* barrier_spin: load the counter, leave if it is zero ...
Load(t) ==
    /\ pc[t] = "load"
    /\ seen' = [seen EXCEPT ![t] = bar[Bi(t)]]
    /\ IF bar[Bi(t)] = 0 THEN Enter(t)
       ELSE pc' = [pc EXCEPT ![t] = "wait"] /\ UNCHANGED seg
    /\ UNCHANGED <<data, bar, size>>

\* ... else sleep, unless the counter has changed since.
FutexWait(t) ==
    /\ pc[t] = "wait"
    /\ pc' = [pc EXCEPT ![t] = IF bar[Bi(t)] = seen[t] THEN "asleep" ELSE "load"]
    /\ UNCHANGED <<data, seg, seen, bar, size>>

\* The last barrier: whoever arrives last publishes the set, nobody waits.
Finish(t) ==
    /\ pc[t] = "arrive" /\ seg[t] = 7
    /\ bar' = [bar EXCEPT ![Bi(t)] = @ + 1]
    /\ IF bar[Bi(t)] = MergeWorkers - 1
       THEN /\ size' = size + n - dups[t] + 1
            /\ pc' = [pc EXCEPT ![t] = "done"]
       ELSE /\ pc' = [pc EXCEPT ![t] = IF dups[t] = 0 THEN "done" ELSE "subtract"]
            /\ UNCHANGED size
    /\ UNCHANGED <<data, seg, seen>>

\* The others take their duplicates off the size, if need be afterwards.
Subtract(t) ==
    /\ pc[t] = "subtract"
    /\ size' = size - dups[t]
    /\ pc' = [pc EXCEPT ![t] = "done"]
    /\ UNCHANGED <<data, seg, seen, bar>>

Step(t) ==
    \/ Count(t) \/ Scatter(t)
    \/ Arrive(t) \/ Release(t) \/ Wake(t) \/ Load(t) \/ FutexWait(t)
    \/ Finish(t) \/ Subtract(t)

Next == \E t \in Tid : Step(t)

Spec == Init /\ [][Next]_vars

\* Every merge task has a thread of its own.
FairSpec == Spec /\ \A t \in Tid : WF_vars(Step(t))

-----------------------------------------------------------------------------
(* Properties.                                                             *)

Published == bar[1] = MergeWorkers /\ \A t \in Tid : seg[t] = 7

AllDone == \A t \in Tid : pc[t] = "done"

Found == {input[k].hash : k \in 0..n - 1}

\* The item that a hash is to be shown by: the best, later inserted ones first.
Best(h) == BestOf({input[k] : k \in {j \in 0..n - 1 : input[j].hash = h}})

\* No task works on a segment while another is still at the one before: a task
\* that is behind has done its part and is only leaving the barrier.
LockStep ==
    \A s, t \in Tid :
        seg[s] < seg[t] => /\ seg[t] = seg[s] + 1
                           /\ pc[s] \in {"load", "wait", "asleep", "wake"}
                           /\ bar[Bi(s)] = 0

\* The merged list is the reference result: one item per hash, the best one,
\* the highest score first.
MergedRight ==
    AllDone =>
        /\ size = Cardinality(Found)
        /\ {buf["dest"][k] : k \in 0..size - 1} = {Best(h) : h \in Found}
        /\ \A k \in 1..size - 1 : buf["dest"][k - 1].score >= buf["dest"][k].score

\* Until the last subtraction the published size may count duplicates, but it
\* never hides a match, and what lies beyond the matches is a duplicate.
PublishedSize ==
    Published =>
        /\ size \in Cardinality(Found)..n
        /\ \A k \in Cardinality(Found)..n - 1 : buf["dest"][k].dup

\* What holds while the segments are worked on and before the main thread sees
\* the result.
MergeInv == TypeOK /\ LockStep /\ PublishedSize

\* hashset.c:269, of the items of a hash but the best: "set score to 0 so the
\* items will appear last".
DuplicatesAppearLast ==
    Published => \A k \in 1..n - 1 : buf["dest"][k - 1].dup => buf["dest"][k].dup

\* No task sleeps on after its barrier was released: the merge ends.
MergeEnds == <>AllDone

=============================================================================
